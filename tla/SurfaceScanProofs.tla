---------------------------- MODULE SurfaceScanProofs ----------------------------
(***************************************************************************)
(* Theorems about the surface scan, for every tree, every number of        *)
(* workers and every limit: no wakeup of the directory queue is lost, a    *)
(* scan that succeeds left nothing in the queue and recorded every file    *)
(* once per root that reaches it, a scan is reported cancelled only when   *)
(* its caller cancelled it, and a limit only when the roots exceed it.     *)
(***************************************************************************)
EXTENDS SurfaceScan, FiniteSetTheorems, SequenceTheorems, TLAPS

WorkerStates == {"off", "next", "asleep", "gone", "fail", "cancel", "close"} \cup Busy
Errors == {"none", "cancelled", "limit", "root-changed", "queue-closed"}

Types ==
  /\ rootDirs \in Seq(Dirs) /\ dirs \in Seq(Dirs)
  /\ pending \in Nat
  /\ wpc \in [Workers -> WorkerStates]
  /\ found \in [Workers -> SUBSET (Dirs \cup Files)]
  /\ err \in [Workers -> Errors]

(* A pending directory is in the queue or with a worker.                    *)
PendingIsCounted == pending = Len(dirs) + Cardinality(BusyWorkers)

QueueInv ==
  /\ Types
  /\ \A w \in Workers : wpc[w] = "add" => found[w] \subseteq Dirs
  /\ PendingIsCounted
  /\ SleepersHaveAWaker

--------------------------------------------------------------------------------
LEMMA NoneCounted == Cardinality({}) = 0
BY FS_EmptySet

LEMMA WorkersAreFinite ==
  ASSUME NEW S \in SUBSET Workers
  PROVE  IsFiniteSet(S) /\ Cardinality(S) \in Nat
BY SurfaceScanAssumption, FS_Subset, FS_CardinalityType

(* A step that moves one worker and wakes some sleepers.                    *)
Moves(w, x, some) ==
  /\ wpc' \in [Workers -> WorkerStates]
  /\ \A v \in Workers :
       wpc'[v] = IF v \in some THEN "next" ELSE IF v = w THEN x ELSE wpc[v]

LEMMA PlainMove ==
  ASSUME Types, NEW w \in Workers, NEW x \in WorkerStates,
         wpc' = [wpc EXCEPT ![w] = x]
  PROVE  Moves(w, x, {})
BY DEF Types, Moves

LEMMA WakingMove ==
  ASSUME Types, NEW w \in Workers, NEW x \in WorkerStates,
         NEW some \in SUBSET Sleepers, NEW pcs,
         pcs = [wpc EXCEPT ![w] = x], wpc' = Wake(pcs, some)
  PROVE  Moves(w, x, some)
BY DEF Types, Moves, Wake, WorkerStates

(* What it does to the three sets of workers the queue depends on.          *)
LEMMA MovedSets ==
  ASSUME Types, NEW w \in Workers, wpc[w] # "asleep",
         NEW x \in WorkerStates, x # "asleep",
         NEW some \in SUBSET Sleepers, Moves(w, x, some)
  PROVE  /\ Sleepers' = Sleepers \ some
         /\ Callers' = (IF x = "next" THEN Callers \cup {w} ELSE Callers \ {w}) \cup some
         /\ BusyWorkers' = IF x \in Busy THEN BusyWorkers \cup {w}
                                         ELSE BusyWorkers \ {w}
<1>1. w \notin some /\ \A v \in some : v \in Workers /\ wpc[v] = "asleep"
  BY DEF Sleepers
<1>2. "next" \notin Busy /\ "asleep" \notin Busy
  BY DEF Busy
<1> QED BY <1>1, <1>2 DEF Sleepers, Callers, BusyWorkers, Moves

--------------------------------------------------------------------------------
(* Steps that leave the queue alone and keep a worker busy, or keep it away *)
(* from the queue.                                                          *)
Away == {"fail", "cancel", "close", "gone"}

LEMMA QueueUntouched ==
  ASSUME QueueInv,
         dirs' = dirs, pending' = pending, closed' = closed,
         rootDirs' \in Seq(Dirs),
         found' \in [Workers -> SUBSET (Dirs \cup Files)],
         err' \in [Workers -> Errors],
         \A w \in Workers : wpc'[w] = "add" => found'[w] \subseteq Dirs,
         \/ wpc' = wpc
         \/ \E w \in Workers, x \in WorkerStates :
              /\ wpc' = [wpc EXCEPT ![w] = x]
              /\ \/ wpc[w] \in Busy /\ x \in Busy
                 \/ wpc[w] \in Away /\ x \in Away
  PROVE  QueueInv'
<1>1. /\ wpc' \in [Workers -> WorkerStates]
      /\ Sleepers' = Sleepers /\ Callers' = Callers /\ BusyWorkers' = BusyWorkers
  <2>1. CASE wpc' = wpc
    BY <2>1 DEF QueueInv, Types, Sleepers, Callers, BusyWorkers
  <2>2. ASSUME NEW w \in Workers, NEW x \in WorkerStates,
               wpc' = [wpc EXCEPT ![w] = x],
               \/ wpc[w] \in Busy /\ x \in Busy
               \/ wpc[w] \in Away /\ x \in Away
        PROVE  /\ wpc' \in [Workers -> WorkerStates]
               /\ Sleepers' = Sleepers /\ Callers' = Callers
               /\ BusyWorkers' = BusyWorkers
    <3>1. Types /\ wpc[w] \notin {"asleep", "next"} /\ x \notin {"asleep", "next"}
      BY <2>2 DEF QueueInv, Busy, Away
    <3>2. (w \in BusyWorkers <=> x \in Busy) /\ w \notin Callers /\ w \notin Sleepers
      BY <2>2, <3>1 DEF BusyWorkers, Callers, Sleepers, Busy, Away
    <3>3. Moves(w, x, {}) /\ {} \in SUBSET Sleepers
      BY <2>2, <3>1, PlainMove
    <3>4. /\ Sleepers' = Sleepers \ {}
          /\ Callers' = (Callers \ {w}) \cup {}
          /\ BusyWorkers' = IF x \in Busy THEN BusyWorkers \cup {w} ELSE BusyWorkers \ {w}
      BY <3>1, <3>3, MovedSets
    <3> QED BY <3>2, <3>3, <3>4 DEF Moves
  <2> QED BY <2>1, <2>2
<1>2. Types' /\ PendingIsCounted'
  BY <1>1 DEF QueueInv, Types, PendingIsCounted
<1>3. SleepersHaveAWaker'
  BY <1>1 DEF QueueInv, SleepersHaveAWaker, Drained
<1> QED BY <1>2, <1>3 DEF QueueInv

(* queue.next *)
LEMMA NextDirectoryStep ==
  ASSUME QueueInv, NEW w \in Workers, NextDirectory(w)
  PROVE  QueueInv'
<1>0. /\ Types /\ PendingIsCounted /\ SleepersHaveAWaker
      /\ \A v \in Workers : wpc[v] = "add" => found[v] \subseteq Dirs
  BY DEF QueueInv
<1>1. w \in Callers /\ wpc[w] = "next" /\ w \notin BusyWorkers /\ w \notin Sleepers
  BY DEF NextDirectory, Callers, BusyWorkers, Sleepers, Busy
<1>2. UNCHANGED <<rootDirs, pending, closed, err>>
  BY DEF NextDirectory, caller
<1>3. /\ BusyWorkers \in SUBSET Workers /\ Callers \in SUBSET Workers
  BY <1>0 DEF BusyWorkers, Callers
<1>4. CASE MustWait
  <2>1. wpc' = [wpc EXCEPT ![w] = "asleep"] /\ dirs' = dirs /\ found' = found
    BY <1>0, <1>4 DEF NextDirectory
  <2>2. /\ wpc' \in [Workers -> WorkerStates] /\ BusyWorkers' = BusyWorkers
        /\ Callers' = Callers \ {w}
    BY <1>0, <1>1, <2>1 DEF Types, WorkerStates, BusyWorkers, Callers, Busy
  <2>3. Cardinality(Callers') \in Nat
    BY <1>0, <1>3, <2>2, WorkersAreFinite
  <2>4. SleepersHaveAWaker'
    <3>1. Len(dirs') = 0 /\ ~Drained' /\ pending' # 0
      BY <1>0, <1>2, <1>4, <2>1 DEF MustWait, Drained, Types
    <3>2. BusyWorkers' # {}
      <4> SUFFICES ASSUME BusyWorkers = {} PROVE FALSE
        BY <2>2
      <4>1. Cardinality(BusyWorkers) = 0
        BY NoneCounted
      <4> QED BY <1>0, <1>2, <2>1, <3>1, <4>1 DEF PendingIsCounted
    <3> QED BY <1>0, <2>3, <3>1, <3>2 DEF SleepersHaveAWaker
  <2> QED BY <1>0, <1>2, <2>1, <2>2, <2>4 DEF QueueInv, Types, PendingIsCounted
<1>5. CASE ~MustWait /\ Drained
  <2>1. wpc' = [wpc EXCEPT ![w] = "gone"] /\ dirs' = dirs /\ found' = found
    BY <1>0, <1>5 DEF NextDirectory
  <2>2. /\ wpc' \in [Workers -> WorkerStates] /\ BusyWorkers' = BusyWorkers
        /\ Sleepers' = Sleepers
        /\ \A v \in Workers : wpc'[v] = "add" => wpc[v] = "add"
    BY <1>0, <1>1, <2>1 DEF Types, WorkerStates, BusyWorkers, Sleepers, Busy
  <2>3. Sleepers = {}
    BY <1>0, <1>5 DEF SleepersHaveAWaker
  <2> QED BY <1>0, <1>2, <2>1, <2>2, <2>3 DEF QueueInv, Types, PendingIsCounted, SleepersHaveAWaker
<1>6. CASE ~MustWait /\ ~Drained
  <2>1. /\ wpc' = [wpc EXCEPT ![w] = "open"] /\ dirs' = Front(dirs)
        /\ found' = [found EXCEPT ![w] = {Last(dirs)}]
    BY <1>0, <1>6 DEF NextDirectory
  <2>2. dirs # <<>>
    BY <1>0, <1>6 DEF MustWait, Drained, Types
  <2>3. /\ dirs' \in Seq(Dirs) /\ Len(dirs') = Len(dirs) - 1 /\ Last(dirs) \in Dirs
        /\ Len(dirs) \in Nat /\ Len(dirs) > 0
    <3>1. Len(dirs) \in Nat /\ Len(dirs) > 0 /\ \A i \in 1..Len(dirs) : dirs[i] \in Dirs
      BY <1>0, <2>2 DEF Types
    <3>2. dirs' = SubSeq(dirs, 1, Len(dirs) - 1)
      BY <2>1 DEF Front
    <3>3. dirs' = [i \in 1..(Len(dirs) - 1) |-> dirs[i]]
      BY <1>0, <3>1, <3>2 DEF Types
    <3> QED BY <3>1, <3>3 DEF Last
  <2>4. /\ wpc' \in [Workers -> WorkerStates] /\ BusyWorkers' = BusyWorkers \cup {w}
        /\ Callers' = Callers \ {w} /\ Sleepers' = Sleepers
    <3>1. "open" \in WorkerStates /\ "open" \in Busy
      BY DEF WorkerStates, Busy
    <3>2. Moves(w, "open", {}) /\ {} \in SUBSET Sleepers
      BY <1>0, <2>1, <3>1, PlainMove
    <3>3. /\ Sleepers' = Sleepers \ {}
          /\ Callers' = (Callers \ {w}) \cup {}
          /\ BusyWorkers' = BusyWorkers \cup {w}
      BY <1>0, <1>1, <3>1, <3>2, MovedSets
    <3> QED BY <3>2, <3>3 DEF Moves
  <2>5. /\ Cardinality(BusyWorkers') = Cardinality(BusyWorkers) + 1
        /\ Cardinality(Callers') = Cardinality(Callers) - 1
        /\ Cardinality(BusyWorkers) \in Nat /\ Cardinality(Callers) \in Nat
    BY <1>0, <1>1, <1>3, <2>4, WorkersAreFinite, FS_AddElement, FS_RemoveElement
  <2>6. Types' /\ PendingIsCounted'
    BY <1>0, <1>2, <2>1, <2>3, <2>4, <2>5 DEF Types, PendingIsCounted
  <2>7. SleepersHaveAWaker'
    BY <1>0, <1>2, <1>6, <2>3, <2>4, <2>5 DEF SleepersHaveAWaker, Drained
  <2>8. \A v \in Workers : wpc'[v] = "add" => found'[v] \subseteq Dirs
    BY <1>0, <2>1 DEF Types
  <2> QED BY <2>6, <2>7, <2>8 DEF QueueInv
<1> QED BY <1>4, <1>5, <1>6

(* queue.done: the last directory wakes everybody.                          *)
LEMMA FinishDirectoryStep ==
  ASSUME QueueInv, NEW w \in Workers, FinishDirectory(w)
  PROVE  QueueInv'
<1>0. /\ Types /\ PendingIsCounted /\ SleepersHaveAWaker
      /\ \A v \in Workers : wpc[v] = "add" => found[v] \subseteq Dirs
  BY DEF QueueInv
<1> DEFINE x == IF err[w] = "none" THEN "next" ELSE "fail"
<1>1. PICK some \in IF pending' = 0 THEN Broadcast ELSE {{}} :
        wpc' = Wake([wpc EXCEPT ![w] = x], some)
  BY DEF FinishDirectory
<1>2. some \in SUBSET Sleepers /\ (pending' = 0 => some = Sleepers)
  BY <1>0, <1>1 DEF Broadcast
<1>3. UNCHANGED <<rootDirs, dirs, closed, found, err>>
  BY DEF FinishDirectory, caller
<1>4. wpc[w] = "finish" /\ w \in BusyWorkers /\ w \notin Sleepers /\ w \notin Callers
  BY DEF FinishDirectory, BusyWorkers, Busy, Sleepers, Callers
<1>5. x \in WorkerStates \ Busy /\ x # "asleep"
  BY <1>0 DEF WorkerStates, Busy
<1>6. /\ wpc' \in [Workers -> WorkerStates]
      /\ \A v \in Workers : wpc'[v] = "add" => wpc[v] = "add"
      /\ Sleepers' = Sleepers \ some /\ BusyWorkers' = BusyWorkers \ {w}
      /\ Callers \subseteq Callers'
  <2> DEFINE pcs == [wpc EXCEPT ![w] = x]
  <2>1. x # "add" /\ pcs = [wpc EXCEPT ![w] = x]
    BY <1>5 DEF Busy
  <2>2. wpc' = Wake(pcs, some)
    BY <1>1
  <2> HIDE DEF x, pcs
  <2>3. Moves(w, x, some)
    BY <1>0, <1>2, <1>5, <2>1, <2>2, WakingMove
  <2>4. /\ Sleepers' = Sleepers \ some
        /\ Callers' = (IF x = "next" THEN Callers \cup {w} ELSE Callers \ {w}) \cup some
        /\ BusyWorkers' = BusyWorkers \ {w}
    BY <1>0, <1>2, <1>4, <1>5, <2>3, MovedSets
  <2> QED BY <1>4, <2>1, <2>3, <2>4 DEF Moves
<1>7. /\ BusyWorkers \in SUBSET Workers /\ Callers \in SUBSET Workers
      /\ Callers' \in SUBSET Workers /\ Len(dirs) \in Nat
  BY <1>0 DEF BusyWorkers, Callers, Types
<1>8. /\ Cardinality(BusyWorkers') = Cardinality(BusyWorkers) - 1
      /\ Cardinality(BusyWorkers) \in Nat /\ Cardinality(BusyWorkers') \in Nat
      /\ Cardinality(Callers) <= Cardinality(Callers')
      /\ Cardinality(Callers) \in Nat /\ Cardinality(Callers') \in Nat
  <2>1. BusyWorkers' \in SUBSET Workers
    BY <1>0, <1>6, <1>7
  <2> QED BY <1>0, <1>4, <1>6, <1>7, <2>1, WorkersAreFinite, FS_RemoveElement, FS_Subset
<1>9. pending' = pending - 1 /\ pending' \in Nat
  BY <1>0, <1>7, <1>8 DEF FinishDirectory, AfterDone, PendingIsCounted
<1>10. Types' /\ PendingIsCounted'
  BY <1>0, <1>3, <1>6, <1>7, <1>8, <1>9 DEF Types, PendingIsCounted
<1>11. SleepersHaveAWaker'
  <2> SUFFICES ASSUME Sleepers' # {} PROVE SleepersHaveAWaker'
    BY <1>0 DEF SleepersHaveAWaker
  <2>1. Sleepers # {} /\ pending' # 0
    BY <1>0, <1>2, <1>6
  <2>2. ~closed /\ Len(dirs) <= Cardinality(Callers)
    BY <1>0, <2>1 DEF SleepersHaveAWaker, Drained
  <2>3. Len(dirs') <= Cardinality(Callers') /\ ~Drained'
    BY <1>0, <1>3, <1>7, <1>8, <2>1, <2>2 DEF Drained
  <2>4. BusyWorkers' # {} \/ Callers' # {}
    <3> SUFFICES ASSUME BusyWorkers' = {}, Callers' = {} PROVE FALSE
      OBVIOUS
    <3>1. Cardinality(BusyWorkers') = 0 /\ Cardinality(Callers') = 0
      BY NoneCounted
    <3> QED BY <1>3, <1>7, <1>10, <2>1, <2>3, <3>1 DEF PendingIsCounted
  <2> QED BY <1>0, <2>3, <2>4 DEF SleepersHaveAWaker
<1> QED BY <1>3, <1>6, <1>10, <1>11 DEF QueueInv

(* queue.add: one sleeper is told of a new directory, if one sleeps.        *)
LEMMA AddDirectoryStep ==
  ASSUME QueueInv, NEW w \in Workers, AddDirectory(w), ~closed
  PROVE  QueueInv'
<1>0. /\ Types /\ PendingIsCounted /\ SleepersHaveAWaker
      /\ \A v \in Workers : wpc[v] = "add" => found[v] \subseteq Dirs
  BY DEF QueueInv
<1>1. PICK d \in found[w] : dirs' = Append(dirs, d)
  BY DEF AddDirectory
<1>2. PICK some \in ToldOfAdd : wpc' = Wake([wpc EXCEPT ![w] = "read"], some)
  BY DEF AddDirectory
<1>3. /\ pending' = pending + 1 /\ found' = [found EXCEPT ![w] = {}]
      /\ UNCHANGED <<rootDirs, closed, err>>
  BY DEF AddDirectory, caller
<1>4. /\ some \in SUBSET Sleepers
      /\ \/ Sleepers = {} /\ some = {}
         \/ \E s \in Sleepers : some = {s}
  BY <1>0, <1>2 DEF ToldOfAdd, Signal
<1>5. wpc[w] = "add" /\ w \in BusyWorkers /\ w \notin Sleepers /\ w \notin Callers
  BY DEF AddDirectory, BusyWorkers, Busy, Sleepers, Callers
<1>6. /\ wpc' \in [Workers -> WorkerStates]
      /\ \A v \in Workers : wpc'[v] = "add" => wpc[v] = "add" /\ v # w
      /\ Sleepers' = Sleepers \ some /\ BusyWorkers' = BusyWorkers
      /\ Callers' = Callers \cup some
  <2> DEFINE pcs == [wpc EXCEPT ![w] = "read"]
  <2>1. "read" \in WorkerStates /\ "read" \in Busy /\ pcs = [wpc EXCEPT ![w] = "read"]
    BY DEF WorkerStates, Busy
  <2>2. wpc' = Wake(pcs, some)
    BY <1>2
  <2> HIDE DEF pcs
  <2>3. Moves(w, "read", some)
    BY <1>0, <1>4, <2>1, <2>2, WakingMove
  <2>4. /\ Sleepers' = Sleepers \ some
        /\ Callers' = (Callers \ {w}) \cup some
        /\ BusyWorkers' = BusyWorkers \cup {w}
    BY <1>0, <1>4, <1>5, <2>1, <2>3, MovedSets
  <2> QED BY <1>5, <2>3, <2>4 DEF Moves
<1>7. /\ dirs' \in Seq(Dirs) /\ Len(dirs') = Len(dirs) + 1 /\ Len(dirs) \in Nat
  <2>1. d \in Dirs
    BY <1>0, <1>1, <1>5
  <2> QED BY <1>0, <1>1, <2>1, AppendProperties, LenProperties DEF Types
<1>8. Types' /\ PendingIsCounted'
  <2>1. Cardinality(BusyWorkers) \in Nat /\ Cardinality(BusyWorkers') = Cardinality(BusyWorkers)
    BY <1>6, WorkersAreFinite DEF BusyWorkers
  <2>2. pending \in Nat /\ pending = Len(dirs) + Cardinality(BusyWorkers)
    BY <1>0 DEF Types, PendingIsCounted
  <2>3. pending' \in Nat /\ pending' = Len(dirs') + Cardinality(BusyWorkers')
    BY <1>3, <1>7, <2>1, <2>2
  <2>4. Types'
    BY <1>0, <1>3, <1>6, <1>7, <2>3 DEF Types
  <2> QED BY <2>3, <2>4 DEF PendingIsCounted
<1>9. SleepersHaveAWaker'
  <2> SUFFICES ASSUME NEW s \in Sleepers, some = {s} PROVE SleepersHaveAWaker'
    BY <1>0, <1>4, <1>6 DEF SleepersHaveAWaker
  <2>1. s \notin Callers /\ Callers \in SUBSET Workers
    BY <1>0 DEF Sleepers, Callers
  <2>2. /\ Cardinality(Callers') = Cardinality(Callers) + 1
        /\ Cardinality(Callers) \in Nat
    BY <1>0, <1>6, <2>1, WorkersAreFinite, FS_AddElement
  <2>3. Len(dirs) <= Cardinality(Callers)
    BY <1>0 DEF SleepersHaveAWaker
  <2>4. ~Drained'
    BY <1>0, <1>3 DEF Drained, Types
  <2> QED BY <1>0, <1>5, <1>6, <1>7, <2>2, <2>3, <2>4 DEF SleepersHaveAWaker
<1>10. \A v \in Workers : wpc'[v] = "add" => found'[v] \subseteq Dirs
  BY <1>0, <1>3, <1>6 DEF Types
<1> QED BY <1>8, <1>9, <1>10 DEF QueueInv

(* queue.close: everybody wakes.                                            *)
LEMMA CloseStep ==
  ASSUME QueueInv,
         \/ CloseQueue(wpc)
         \/ \E w \in Workers : wpc[w] = "close" /\ CloseQueue([wpc EXCEPT ![w] = "gone"]),
         UNCHANGED <<rootDirs, dirs, pending, found, err>>
  PROVE  QueueInv'
<1>0. /\ Types /\ PendingIsCounted /\ SleepersHaveAWaker
      /\ \A v \in Workers : wpc[v] = "add" => found[v] \subseteq Dirs
  BY DEF QueueInv
<1>1. /\ wpc' \in [Workers -> WorkerStates]
      /\ \A v \in Workers : wpc'[v] = "add" => wpc[v] = "add"
      /\ Sleepers' = {} /\ BusyWorkers' = BusyWorkers
  <2>1. CASE CloseQueue(wpc)
    <3>1. wpc' = Wake(wpc, Sleepers)
      BY <1>0, <2>1 DEF CloseQueue, Broadcast
    <3>2. \A v \in Workers : wpc'[v] = IF wpc[v] = "asleep" THEN "next" ELSE wpc[v]
      BY <1>0, <3>1 DEF Wake, Sleepers
    <3> QED BY <1>0, <3>1, <3>2 DEF Wake, Types, WorkerStates, Busy, Sleepers, BusyWorkers
  <2>2. ASSUME NEW w \in Workers, wpc[w] = "close",
               CloseQueue([wpc EXCEPT ![w] = "gone"])
        PROVE  /\ wpc' \in [Workers -> WorkerStates]
               /\ \A v \in Workers : wpc'[v] = "add" => wpc[v] = "add"
               /\ Sleepers' = {} /\ BusyWorkers' = BusyWorkers
    <3>1. wpc' = Wake([wpc EXCEPT ![w] = "gone"], Sleepers)
      BY <1>0, <2>2 DEF CloseQueue, Broadcast
    <3>2. w \notin BusyWorkers /\ "gone" \in WorkerStates \ Busy
      BY <1>0, <2>2 DEF BusyWorkers, Busy, WorkerStates
    <3> DEFINE pcs == [wpc EXCEPT ![w] = "gone"]
    <3>3. wpc' = Wake(pcs, Sleepers) /\ pcs = [wpc EXCEPT ![w] = "gone"]
      BY <3>1
    <3> HIDE DEF pcs
    <3>4. Moves(w, "gone", Sleepers) /\ Sleepers \in SUBSET Sleepers
      BY <1>0, <3>2, <3>3, WakingMove
    <3>5. Sleepers' = Sleepers \ Sleepers /\ BusyWorkers' = BusyWorkers \ {w}
      BY <1>0, <2>2, <3>2, <3>4, MovedSets
    <3> QED BY <3>2, <3>4, <3>5 DEF Moves
  <2> QED BY <1>0, <2>1, <2>2
<1> QED BY <1>0, <1>1 DEF QueueInv, Types, PendingIsCounted, SleepersHaveAWaker

--------------------------------------------------------------------------------
(* The error kept by failOnce is there before the derived context is        *)
(* cancelled, and the queue is closed only after that: so a worker that     *)
(* meets either has a cause behind it.                                      *)
AllGone == \A w \in Workers : wpc[w] = "gone"
Early == {"start", "roots", "record-root"}

ErrorInv(w) ==
  /\ wpc[w] \in {"cancel", "close"} => once # "unused"
  /\ wpc[w] = "close" => scanDone
  /\ wpc[w] = "fail" => err[w] # "none"
  /\ err[w] = "none" \/ wpc[w] \in {"finish", "fail"} \/ once # "unused"
  /\ wpc[w] = "gone" => pending = 0 \/ closed \/ once # "unused"
  /\ err[w] = "cancelled" => parentDone \/ once # "unused"
  /\ err[w] # "queue-closed"

FailInv ==
  /\ once # "unused" => scanErr # "none"
  /\ scanDone => parentDone \/ once # "unused"
  /\ closed => scanDone
  /\ scanErr \in Errors \ {"queue-closed"} /\ (scanErr = "cancelled" => parentDone)
  /\ \A w \in Workers : ErrorInv(w)

CallerInv ==
  /\ main \in Early => once = "unused" /\ \A w \in Workers : wpc[w] = "off"
  /\ main = "joined" => AllGone
  /\ result = "ok" => AllGone /\ NothingLeft
  /\ result # "queue-closed" /\ (result = "cancelled" => parentDone)

IInv == QueueInv /\ FailInv /\ CallerInv

(* A step of readDirectory: the worker stays busy, and an error sends it to *)
(* queue.done.                                                              *)
ReadingStep(w) ==
  /\ wpc[w] \in Busy \ {"finish"}
  /\ UNCHANGED <<dirs, pending, closed, rootDirs, once, scanErr, parentDone,
                 scanDone, main, result>>
  /\ found' \in [Workers -> SUBSET (Dirs \cup Files)]
  /\ \A v \in Workers : wpc'[v] = "add" => found'[v] \subseteq Dirs
  /\ \/ \E x \in Busy : wpc' = [wpc EXCEPT ![w] = x] /\ err' = err
     \/ \E e \in Errors \ {"queue-closed"} :
          /\ e = "cancelled" => scanDone
          /\ wpc' = [wpc EXCEPT ![w] = "finish"] /\ err' = [err EXCEPT ![w] = e]

LEMMA ReadingIInv ==
  ASSUME IInv, NEW w \in Workers, ReadingStep(w)
  PROVE  IInv'
<1>0. QueueInv /\ Types /\ FailInv /\ CallerInv
  BY DEF IInv, QueueInv
<1>1. PICK x \in Busy, e \in Errors :
        /\ wpc' = [wpc EXCEPT ![w] = x] /\ err' = [err EXCEPT ![w] = e]
        /\ \/ e = err[w]
           \/ x = "finish" /\ e # "queue-closed" /\ (e = "cancelled" => scanDone)
  <2>1. CASE \E x \in Busy : wpc' = [wpc EXCEPT ![w] = x] /\ err' = err
    <3>1. err' = [err EXCEPT ![w] = err[w]] /\ err[w] \in Errors
      BY <1>0, <2>1 DEF Types
    <3> QED BY <2>1, <3>1
  <2>2. CASE \E e \in Errors \ {"queue-closed"} :
               /\ e = "cancelled" => scanDone
               /\ wpc' = [wpc EXCEPT ![w] = "finish"] /\ err' = [err EXCEPT ![w] = e]
    BY <2>2 DEF Busy
  <2> QED BY <2>1, <2>2 DEF ReadingStep
<1>2. /\ wpc[w] \in Busy \ {"finish"} /\ x \in WorkerStates
      /\ UNCHANGED <<dirs, pending, closed, once, scanErr, parentDone, scanDone,
                     main, result>>
  BY DEF ReadingStep, WorkerStates
<1>3. QueueInv'
  <2>1. err' \in [Workers -> Errors]
    BY <1>0, <1>1 DEF Types
  <2>2. rootDirs' \in Seq(Dirs)
    BY <1>0 DEF Types, ReadingStep
  <2> QED BY <1>0, <1>1, <1>2, <2>1, <2>2, QueueUntouched DEF ReadingStep
<1>4. \A v \in Workers \ {w} : wpc'[v] = wpc[v] /\ err'[v] = err[v]
  BY <1>0, <1>1 DEF Types
<1>5. wpc'[w] = x /\ err'[w] = e
  BY <1>0, <1>1 DEF Types
<1>6. ErrorInv(w)'
  BY <1>0, <1>1, <1>2, <1>5 DEF ErrorInv, FailInv, Busy
<1>7. FailInv'
  BY <1>0, <1>2, <1>4, <1>6 DEF FailInv, ErrorInv
<1>8. CallerInv'
  BY <1>0, <1>2 DEF CallerInv, AllGone, Busy
<1> QED BY <1>3, <1>7, <1>8 DEF IInv

LEMMA ReadingSteps ==
  ASSUME IInv, NEW w \in Workers,
         \/ OpenDirectory(w) \/ EndDirectory(w) \/ SkipEntry(w) \/ ReadSubDir(w)
         \/ ReadFile(w) \/ RecordFile(w) \/ (AddDirectory(w) /\ closed)
  PROVE  ReadingStep(w)
<1>0. /\ Types /\ FailInv
      /\ \A v \in Workers : wpc[v] = "add" => found[v] \subseteq Dirs
  BY DEF IInv, QueueInv
<1>1. wpc[w] \in Busy \ {"finish"}
  BY DEF Busy, OpenDirectory, EndDirectory, SkipEntry, ReadSubDir, ReadFile,
     RecordFile, AddDirectory
<1>2. UNCHANGED <<dirs, pending, closed, rootDirs, once, scanErr, parentDone,
                  scanDone, main, result>>
  BY DEF OpenDirectory, EndDirectory, SkipEntry, ReadSubDir, ReadFile, RecordFile,
     AddDirectory, caller, queue, failure, contexts
<1>3. /\ found' \in [Workers -> SUBSET (Dirs \cup Files)]
      /\ \A v \in Workers \ {w} : found'[v] = found[v]
  BY <1>0 DEF Types, Leave, OpenDirectory, EndDirectory, SkipEntry, ReadSubDir, ReadFile,
     RecordFile, AddDirectory
<1>4. ASSUME NEW x \in Busy, wpc' = [wpc EXCEPT ![w] = x], x = "add" => found'[w] \subseteq Dirs
      PROVE  \A v \in Workers : wpc'[v] = "add" => found'[v] \subseteq Dirs
  BY <1>0, <1>3, <1>4 DEF Types
<1>5. ASSUME NEW e \in Errors \ {"queue-closed"}, Leave(w, e), e = "cancelled" => scanDone
      PROVE  ReadingStep(w)
  BY <1>1, <1>2, <1>3, <1>4, <1>5 DEF ReadingStep, Leave, Busy
<1>6. ASSUME NEW x \in Busy, wpc' = [wpc EXCEPT ![w] = x], err' = err,
             x = "add" => found'[w] \subseteq Dirs
      PROVE  ReadingStep(w)
  BY <1>1, <1>2, <1>3, <1>4, <1>6 DEF ReadingStep
<1>7. {"open", "read", "add", "record"} \subseteq Busy
  BY DEF Busy
<1>8. {"none", "cancelled", "limit", "root-changed"} \subseteq Errors \ {"queue-closed"}
  BY DEF Errors
<1>9. CASE OpenDirectory(w) \/ EndDirectory(w)
  BY <1>5, <1>6, <1>7, <1>8, <1>9 DEF OpenDirectory, EndDirectory
<1>10. CASE SkipEntry(w)
  <2>1. wpc' = [wpc EXCEPT ![w] = "read"] /\ err' = err
    BY <1>0, <1>10 DEF SkipEntry, Types
  <2> QED BY <1>6, <1>7, <2>1
<1>11. CASE ReadSubDir(w)
  <2>1. CASE Leave(w, "limit")
    BY <1>5, <1>8, <2>1
  <2>2. CASE \E d \in entries[w] \cap Dirs : /\ found' = [found EXCEPT ![w] = {d}]
                                             /\ wpc' = [wpc EXCEPT ![w] = "add"]
                                             /\ UNCHANGED err
    <3>1. found'[w] \subseteq Dirs /\ "add" \in Busy
      BY <1>0, <1>7, <2>2 DEF Types
    <3>2. wpc' = [wpc EXCEPT ![w] = "add"] /\ err' = err
      BY <2>2
    <3> QED BY <1>6, <3>1, <3>2
  <2> QED BY <1>11, <2>1, <2>2 DEF ReadSubDir
<1>12. CASE ReadFile(w)
  BY <1>6, <1>7, <1>12 DEF ReadFile
<1>13. CASE RecordFile(w)
  BY <1>5, <1>6, <1>7, <1>8, <1>13 DEF RecordFile
<1>14. CASE AddDirectory(w) /\ closed
  <2>1. Leave(w, "cancelled") /\ scanDone
    BY <1>0, <1>14 DEF AddDirectory, FailInv
  <2> QED BY <1>5, <1>8, <2>1
<1> QED BY <1>9, <1>10, <1>11, <1>12, <1>13, <1>14

--------------------------------------------------------------------------------
(* The other steps of a worker.                                             *)
LEMMA NextDirectoryIInv ==
  ASSUME IInv, NEW w \in Workers, NextDirectory(w)
  PROVE  IInv'
<1>0. QueueInv /\ Types /\ FailInv /\ CallerInv
  BY DEF IInv, QueueInv
<1>1. QueueInv'
  BY <1>0, NextDirectoryStep
<1>2. /\ wpc[w] = "next"
      /\ UNCHANGED <<pending, closed, err, once, scanErr, parentDone, scanDone,
                     main, result>>
  BY DEF NextDirectory, failure, contexts
<1>3. PICK x \in {"asleep", "gone", "open"} :
        wpc' = [wpc EXCEPT ![w] = x] /\ (x = "gone" => Drained)
  BY DEF NextDirectory
<1>4. /\ wpc'[w] = x
      /\ \A v \in Workers \ {w} : wpc'[v] = wpc[v]
  BY <1>0, <1>3 DEF Types
<1>5. FailInv'
  BY <1>0, <1>2, <1>3, <1>4 DEF FailInv, ErrorInv, Drained
<1>6. CallerInv'
  BY <1>0, <1>2 DEF CallerInv, AllGone
<1> QED BY <1>1, <1>5, <1>6 DEF IInv

LEMMA FinishDirectoryIInv ==
  ASSUME IInv, NEW w \in Workers, FinishDirectory(w)
  PROVE  IInv'
<1>0. QueueInv /\ Types /\ FailInv /\ CallerInv
  BY DEF IInv, QueueInv
<1>1. QueueInv'
  BY <1>0, FinishDirectoryStep
<1>2. /\ wpc[w] = "finish" /\ pending' = AfterDone(w)
      /\ UNCHANGED <<closed, err, once, scanErr, parentDone, scanDone, main, result>>
  BY DEF FinishDirectory, failure, contexts
<1>3. PICK some \in SUBSET Sleepers :
        wpc' = Wake([wpc EXCEPT ![w] = IF err[w] = "none" THEN "next" ELSE "fail"], some)
  BY DEF FinishDirectory, Broadcast
<1>4. /\ wpc'[w] = IF err[w] = "none" THEN "next" ELSE "fail"
      /\ \A v \in Workers \ {w} :
           wpc'[v] = wpc[v] \/ (wpc[v] = "asleep" /\ wpc'[v] = "next")
  BY <1>0, <1>2, <1>3 DEF Wake, Sleepers, Types
<1>5. pending = 0 => pending' = 0
  BY <1>2 DEF AfterDone
<1>6. FailInv'
  BY <1>0, <1>2, <1>4, <1>5 DEF FailInv, ErrorInv
<1>7. CallerInv'
  BY <1>0, <1>2 DEF CallerInv, AllGone
<1> QED BY <1>1, <1>6, <1>7 DEF IInv

LEMMA AddDirectoryIInv ==
  ASSUME IInv, NEW w \in Workers, AddDirectory(w), ~closed
  PROVE  IInv'
<1>0. QueueInv /\ Types /\ PendingIsCounted /\ FailInv /\ CallerInv
  BY DEF IInv, QueueInv
<1>1. QueueInv'
  BY <1>0, AddDirectoryStep
<1>2. /\ wpc[w] = "add"
      /\ UNCHANGED <<closed, err, once, scanErr, parentDone, scanDone, main, result>>
  BY DEF AddDirectory, failure, contexts
<1>3. PICK some \in SUBSET Sleepers : wpc' = Wake([wpc EXCEPT ![w] = "read"], some)
  BY DEF AddDirectory, ToldOfAdd, Signal
<1>4. /\ wpc'[w] = "read"
      /\ \A v \in Workers \ {w} :
           wpc'[v] = wpc[v] \/ (wpc[v] = "asleep" /\ wpc'[v] = "next")
  BY <1>0, <1>2, <1>3 DEF Wake, Sleepers, Types
<1>5. pending # 0
  <2>1. w \in BusyWorkers /\ BusyWorkers \in SUBSET Workers
    BY <1>2 DEF BusyWorkers, Busy
  <2>2. Cardinality(BusyWorkers) \in Nat /\ Cardinality(BusyWorkers) # 0
    BY <2>1, WorkersAreFinite, FS_EmptySet
  <2>3. Len(dirs) \in Nat
    BY <1>0 DEF Types
  <2> QED BY <1>0, <2>2, <2>3 DEF PendingIsCounted
<1>6. FailInv'
  BY <1>0, <1>2, <1>4, <1>5 DEF FailInv, ErrorInv
<1>7. CallerInv'
  BY <1>0, <1>2 DEF CallerInv, AllGone
<1> QED BY <1>1, <1>6, <1>7 DEF IInv

(* sync.Once: the first error is kept.                                      *)
LEMMA FailingIInv ==
  ASSUME IInv, NEW w \in Workers, KeepError(w) \/ CancelScan(w) \/ CloseAndLeave(w)
  PROVE  IInv'
<1>0. QueueInv /\ Types /\ FailInv /\ CallerInv
      /\ \A v \in Workers : wpc[v] = "add" => found[v] \subseteq Dirs
  BY DEF IInv, QueueInv
<1>1. /\ wpc[w] \in {"fail", "cancel", "close"}
      /\ UNCHANGED <<dirs, pending, rootDirs, found, err, parentDone, main, result>>
  BY DEF KeepError, CancelScan, CloseAndLeave, caller, queue, contexts
<1>2. CallerInv'
  BY <1>0, <1>1 DEF CallerInv, AllGone, Early, NothingLeft
<1>3. CASE KeepError(w) \/ CancelScan(w)
  <2>1. PICK x \in Away : wpc' = [wpc EXCEPT ![w] = x]
    BY <1>3 DEF KeepError, CancelScan, Away
  <2>2. closed' = closed
    BY <1>3 DEF KeepError, CancelScan, queue
  <2>3. /\ wpc'[w] = x
        /\ \A v \in Workers \ {w} : wpc'[v] = wpc[v]
    BY <1>0, <2>1 DEF Types
  <2>4. QueueInv'
    <3>1. wpc[w] \in Away /\ x \in WorkerStates /\ x # "add"
      BY <1>1 DEF Away, WorkerStates
    <3>2. \A v \in Workers : wpc'[v] = "add" => found'[v] \subseteq Dirs
      BY <1>0, <1>1, <2>3, <3>1
    <3>3. rootDirs' \in Seq(Dirs) /\ found' \in [Workers -> SUBSET (Dirs \cup Files)]
          /\ err' \in [Workers -> Errors]
      BY <1>0, <1>1 DEF Types
    <3> QED BY <1>0, <1>1, <2>1, <2>2, <3>1, <3>2, <3>3, QueueUntouched
  <2>5. CASE KeepError(w)
    <3>1. \/ once = "unused" /\ once' = "running" /\ scanErr' = err[w] /\ x = "cancel"
          \/ once = "used" /\ once' = once /\ scanErr' = scanErr /\ x = "gone"
      BY <2>1, <2>3, <2>5, <1>0 DEF KeepError, FirstTime, failure, Types
    <3>2. wpc[w] = "fail" /\ scanDone' = scanDone
      BY <2>5 DEF KeepError, contexts
    <3>3. err[w] \in Errors /\ ErrorInv(w)
      BY <1>0 DEF Types, FailInv
    <3>4. \/ once = "unused" /\ once' = "running" /\ scanErr' = err[w]
             /\ err[w] \notin {"none", "queue-closed"}
             /\ (err[w] = "cancelled" => parentDone)
          \/ once # "unused" /\ once' = once /\ scanErr' = scanErr
      BY <3>1, <3>2, <3>3 DEF ErrorInv
    <3>5. /\ once' # "unused" => scanErr' # "none"
          /\ scanErr' \in Errors \ {"queue-closed"}
          /\ scanErr' = "cancelled" => parentDone
          /\ once' # "unused"
      BY <1>0, <3>3, <3>4 DEF FailInv
    <3>6. \A v \in Workers : ErrorInv(v)'
      BY <1>0, <1>1, <2>2, <2>3, <3>1, <3>2, <3>5 DEF FailInv, ErrorInv
    <3>7. FailInv'
      BY <1>0, <1>1, <2>2, <3>2, <3>5, <3>6 DEF FailInv
    <3> QED BY <1>2, <2>4, <3>7 DEF IInv
  <2>6. CASE CancelScan(w)
    <3>1. /\ wpc[w] = "cancel" /\ x = "close" /\ scanDone' = TRUE
          /\ UNCHANGED <<once, scanErr>>
      BY <1>0, <2>3, <2>6 DEF CancelScan, failure, Types
    <3>2. FailInv'
      BY <1>0, <1>1, <2>2, <2>3, <3>1 DEF FailInv, ErrorInv
    <3> QED BY <1>2, <2>4, <3>2 DEF IInv
  <2> QED BY <1>3, <2>5, <2>6
<1>4. CASE CloseAndLeave(w)
  <2>1. wpc[w] = "close" /\ CloseQueue([wpc EXCEPT ![w] = "gone"])
    BY <1>4 DEF CloseAndLeave
  <2>2. QueueInv'
    BY <1>0, <1>1, <2>1, CloseStep
  <2>3. closed' = TRUE /\ once' = "used" /\ UNCHANGED <<scanErr, scanDone>>
    BY <1>4 DEF CloseAndLeave, CloseQueue, contexts
  <2>4. PICK some \in Broadcast : wpc' = Wake([wpc EXCEPT ![w] = "gone"], some)
    BY <2>1 DEF CloseQueue
  <2>5. /\ wpc'[w] = "gone"
        /\ \A v \in Workers \ {w} :
             wpc'[v] = wpc[v] \/ (wpc[v] = "asleep" /\ wpc'[v] = "next")
    BY <1>0, <2>1, <2>4 DEF Wake, Sleepers, Types, Broadcast
  <2>6. FailInv'
    BY <1>0, <1>1, <2>1, <2>3, <2>5 DEF FailInv, ErrorInv
  <2> QED BY <1>2, <2>2, <2>6 DEF IInv
<1> QED BY <1>3, <1>4

--------------------------------------------------------------------------------
(* The calling goroutine, the watcher and the caller's context.             *)
LEMMA RootsIInv ==
  ASSUME IInv, CheckRoots \/ TakeRoot \/ RecordRoot
  PROVE  IInv'
<1>0. QueueInv /\ Types /\ FailInv /\ CallerInv
      /\ \A v \in Workers : wpc[v] = "add" => found[v] \subseteq Dirs
  BY DEF IInv, QueueInv
<1>1. /\ main \in Early
      /\ UNCHANGED <<dirs, pending, closed, wpc, found, err, once, scanErr,
                     parentDone, scanDone>>
  BY DEF CheckRoots, TakeRoot, RecordRoot, queue, worker, failure, contexts, Early
<1>2. rootDirs' \in Seq(Dirs)
  <2>1. CASE CheckRoots \/ RecordRoot
    BY <1>0, <2>1 DEF CheckRoots, RecordRoot, caller, Types
  <2>2. CASE TakeRoot
    <3>1. \/ rootDirs' = rootDirs
          \/ Head(roots) \in Dirs /\ rootDirs' = Append(rootDirs, Head(roots))
      BY <2>2 DEF TakeRoot, caller
    <3>2. rootDirs \in Seq(Dirs)
      BY <1>0 DEF Types
    <3>3. ASSUME NEW d \in Dirs PROVE Append(rootDirs, d) \in Seq(Dirs)
      BY <3>2
    <3> QED BY <3>1, <3>2, <3>3
  <2> QED BY <2>1, <2>2
<1>3. QueueInv'
  BY <1>0, <1>1, <1>2, QueueUntouched DEF Types
<1>4. FailInv'
  BY <1>0, <1>1 DEF FailInv, ErrorInv
<1>5. /\ main' \in Early /\ result' = result
      \/ /\ main' = "returned"
         /\ result' \in {"nothing-readable", "limit", "unsafe-root", "root-changed",
                         "cancelled"}
         /\ result' = "cancelled" => scanDone
  BY <1>1 DEF CheckRoots, TakeRoot, RecordRoot, Return, Early
<1>6. CallerInv'
  BY <1>0, <1>1, <1>5 DEF CallerInv, FailInv, AllGone, NothingLeft, Early
<1> QED BY <1>3, <1>4, <1>6 DEF IInv

LEMMA StartWorkersIInv ==
  ASSUME IInv, StartWorkers
  PROVE  IInv'
<1>0. QueueInv /\ Types /\ FailInv /\ CallerInv
      /\ \A v \in Workers : wpc[v] = "add" => found[v] \subseteq Dirs
  BY DEF IInv, QueueInv
<1>1. /\ main = "roots" /\ once = "unused" /\ \A v \in Workers : wpc[v] = "off"
      /\ UNCHANGED <<closed, rootDirs, found, err, once, scanErr, parentDone, scanDone>>
  BY <1>0 DEF StartWorkers, CallerInv, Early, caller, queue, failure, contexts
<1>2. CASE main' = "returned" /\ result' = "nothing-readable"
           /\ UNCHANGED <<queue, wpc, watcher>>
  <2>1. QueueInv'
    BY <1>0, <1>1, <1>2, QueueUntouched DEF Types, queue
  <2>2. FailInv'
    BY <1>0, <1>1, <1>2 DEF FailInv, ErrorInv, queue
  <2>3. CallerInv'
    BY <1>0, <1>1, <1>2 DEF CallerInv, Early
  <2> QED BY <2>1, <2>2, <2>3 DEF IInv
<1>3. CASE /\ dirs' = rootDirs /\ pending' = Len(rootDirs)
           /\ wpc' = [v \in Workers |-> "next"]
           /\ main' = "waiting" /\ result' = result
  <2>1. BusyWorkers' = {} /\ Sleepers' = {}
    BY <1>3 DEF BusyWorkers, Sleepers, Busy
  <2>2. pending' \in Nat /\ Types'
    BY <1>0, <1>1, <1>3 DEF Types, WorkerStates
  <2>3. PendingIsCounted' /\ SleepersHaveAWaker'
    BY <1>3, <2>1, <2>2, NoneCounted DEF PendingIsCounted, SleepersHaveAWaker
  <2>4. QueueInv'
    BY <1>3, <2>2, <2>3 DEF QueueInv
  <2>5. FailInv'
    BY <1>0, <1>1, <1>3 DEF FailInv, ErrorInv
  <2>6. result # "ok"
    BY <1>0, <1>1, SurfaceScanAssumption DEF CallerInv, AllGone
  <2>7. CallerInv'
    BY <1>0, <1>1, <1>3, <2>6 DEF CallerInv, Early
  <2> QED BY <2>4, <2>5, <2>7 DEF IInv
<1> QED BY <1>2, <1>3 DEF StartWorkers, Return

LEMMA WatchIInv ==
  ASSUME IInv, Watch
  PROVE  IInv'
<1>0. QueueInv /\ Types /\ FailInv /\ CallerInv
      /\ \A v \in Workers : wpc[v] = "add" => found[v] \subseteq Dirs
  BY DEF IInv, QueueInv
<1>1. UNCHANGED <<dirs, pending, rootDirs, found, err, once, scanErr, parentDone,
                  scanDone, main, result>>
  BY DEF Watch, caller, failure, contexts
<1>2. CASE UNCHANGED <<closed, wpc>>
  <2>1. QueueInv'
    BY <1>0, <1>1, <1>2, QueueUntouched DEF Types
  <2> QED BY <1>0, <1>1, <1>2, <2>1 DEF IInv, FailInv, ErrorInv, CallerInv, AllGone,
             NothingLeft
<1>3. CASE scanDone /\ CloseQueue(wpc)
  <2>1. QueueInv'
    BY <1>0, <1>1, <1>3, CloseStep
  <2>2. closed' = TRUE /\ wpc' = Wake(wpc, Sleepers)
    BY <1>3 DEF CloseQueue, Broadcast
  <2>3. \A v \in Workers : wpc'[v] = wpc[v] \/ (wpc[v] = "asleep" /\ wpc'[v] = "next")
    BY <2>2 DEF Wake, Sleepers
  <2>4. FailInv'
    BY <1>0, <1>1, <1>3, <2>2, <2>3 DEF FailInv, ErrorInv
  <2>5. CallerInv'
    BY <1>0, <1>1, <2>3 DEF CallerInv, AllGone, NothingLeft
  <2> QED BY <2>1, <2>4, <2>5 DEF IInv
<1> QED BY <1>2, <1>3 DEF Watch

LEMMA ConcludeIInv ==
  ASSUME IInv, Join \/ Conclude \/ Cancel
  PROVE  IInv'
<1>0. QueueInv /\ Types /\ FailInv /\ CallerInv /\ PendingIsCounted
      /\ \A v \in Workers : wpc[v] = "add" => found[v] \subseteq Dirs
  BY DEF IInv, QueueInv
<1>1. UNCHANGED <<dirs, pending, closed, rootDirs, wpc, found, err, once, scanErr>>
  BY DEF Join, Conclude, Cancel, caller, queue, worker, failure
<1>2. QueueInv'
  BY <1>0, <1>1, QueueUntouched DEF Types
<1>3. CASE Join
  <2>1. AllGone /\ main' = "joined" /\ UNCHANGED <<result, parentDone, scanDone>>
    BY <1>3 DEF Join, AllGone, contexts
  <2> QED BY <1>0, <1>1, <1>2, <2>1 DEF IInv, FailInv, ErrorInv, CallerInv, AllGone,
             NothingLeft, Early
<1>4. CASE Conclude
  <2>1. /\ main = "joined" /\ main' = "returned" /\ UNCHANGED <<parentDone, scanDone>>
        /\ result' = Verdict \/ result' = "root-changed"
    BY <1>4 DEF Conclude, Return, contexts
  <2>2. FailInv'
    BY <1>0, <1>1, <2>1 DEF FailInv, ErrorInv
  <2>3. AllGone
    BY <1>0, <2>1 DEF CallerInv
  <2>4. ASSUME result' = "ok" PROVE NothingLeft
    <3>1. ~parentDone /\ scanErr = "none"
      BY <1>0, <2>1, <2>4 DEF Verdict, FailInv, Errors
    <3>2. once = "unused" /\ ~closed
      BY <1>0, <3>1 DEF FailInv
    <3>3. \A w \in Workers : err[w] = "none"
      BY <1>0, <2>3, <3>2 DEF FailInv, ErrorInv, AllGone
    <3>4. pending = 0
      BY <1>0, <2>3, <3>2, SurfaceScanAssumption DEF FailInv, ErrorInv, AllGone
    <3>5. Len(dirs) \in Nat /\ Cardinality(BusyWorkers) \in Nat
      BY <1>0, WorkersAreFinite DEF Types, BusyWorkers
    <3>6. Len(dirs) = 0
      BY <1>0, <3>4, <3>5 DEF PendingIsCounted
    <3>7. dirs = <<>>
      BY <1>0, <3>6, EmptySeq DEF Types
    <3> QED BY <3>3, <3>4, <3>7 DEF NothingLeft
  <2>5. CallerInv'
    BY <1>0, <1>1, <2>1, <2>3, <2>4 DEF CallerInv, FailInv, AllGone, NothingLeft, Early,
       Verdict
  <2> QED BY <1>2, <2>2, <2>5 DEF IInv
<1>5. CASE Cancel
  <2>1. parentDone' = TRUE /\ scanDone' = TRUE /\ UNCHANGED <<main, result>>
    BY <1>5 DEF Cancel
  <2> QED BY <1>0, <1>1, <1>2, <2>1 DEF IInv, FailInv, ErrorInv, CallerInv, AllGone,
             NothingLeft
<1> QED BY <1>3, <1>4, <1>5

--------------------------------------------------------------------------------
LEMMA InitIInv == Init => IInv
<1> SUFFICES ASSUME Init PROVE IInv
  OBVIOUS
<1>1. BusyWorkers = {} /\ Sleepers = {}
  BY DEF Init, BusyWorkers, Busy, Sleepers
<1>2. Types
  BY DEF Init, Types, WorkerStates, Errors
<1>3. PendingIsCounted
  BY <1>1, NoneCounted DEF Init, PendingIsCounted
<1>4. QueueInv
  BY <1>1, <1>2, <1>3 DEF Init, QueueInv, SleepersHaveAWaker
<1>5. FailInv
  BY DEF Init, FailInv, ErrorInv, Errors
<1>6. CallerInv
  BY DEF Init, CallerInv, Early
<1> QED BY <1>4, <1>5, <1>6 DEF IInv

LEMMA NextIInv == IInv /\ [Next]_vars => IInv'
<1> SUFFICES ASSUME IInv, [Next]_vars PROVE IInv'
  OBVIOUS
<1>1. ASSUME NEW w \in Workers, WorkerStep(w) PROVE IInv'
  <2>1. CASE \/ OpenDirectory(w) \/ EndDirectory(w) \/ SkipEntry(w) \/ ReadSubDir(w)
             \/ ReadFile(w) \/ RecordFile(w) \/ (AddDirectory(w) /\ closed)
    BY <2>1, ReadingSteps, ReadingIInv
  <2>2. CASE NextDirectory(w)
    BY <2>2, NextDirectoryIInv
  <2>3. CASE FinishDirectory(w)
    BY <2>3, FinishDirectoryIInv
  <2>4. CASE AddDirectory(w) /\ ~closed
    BY <2>4, AddDirectoryIInv
  <2>5. CASE KeepError(w) \/ CancelScan(w) \/ CloseAndLeave(w)
    BY <2>5, FailingIInv
  <2> QED BY <1>1, <2>1, <2>2, <2>3, <2>4, <2>5 DEF WorkerStep
<1>2. CASE CheckRoots \/ TakeRoot \/ RecordRoot
  BY <1>2, RootsIInv
<1>3. CASE StartWorkers
  BY <1>3, StartWorkersIInv
<1>4. CASE Join \/ Conclude \/ Cancel
  BY <1>4, ConcludeIInv
<1>5. CASE Watch
  BY <1>5, WatchIInv
<1>6. CASE UNCHANGED vars
  <2>1. UNCHANGED <<rootDirs, dirs, pending, closed, wpc, found, err, once, scanErr,
                    parentDone, scanDone, main, result>>
    BY <1>6 DEF vars
  <2>2. QueueInv /\ Types /\ FailInv /\ CallerInv
        /\ \A v \in Workers : wpc[v] = "add" => found[v] \subseteq Dirs
    BY DEF IInv, QueueInv
  <2>3. QueueInv'
    BY <2>1, <2>2, QueueUntouched DEF Types
  <2> QED BY <2>1, <2>2, <2>3 DEF IInv, FailInv, ErrorInv, CallerInv, AllGone, NothingLeft
<1> QED BY <1>1, <1>2, <1>3, <1>4, <1>5, <1>6 DEF Next, MainStep

LEMMA SpecIInv == Spec => []IInv
BY InitIInv, NextIInv, PTL DEF Spec

(* No wakeup of the directory queue is lost: next, add, done and close      *)
(* (engine.go 1055-1101) leave no worker asleep over a finished queue, nor  *)
(* over a directory that nobody awake is coming for.                        *)
THEOREM NoLostWakeup == Spec => []SleepersHaveAWaker
<1>1. IInv => SleepersHaveAWaker
  BY DEF IInv, QueueInv
<1> QED BY <1>1, SpecIInv, PTL

(* A scan that succeeds left nothing behind (engine.go 431-463): no worker  *)
(* met an error, no directory is queued and none is pending.                *)
THEOREM SuccessIsDrained == Spec => [](result = "ok" => NothingLeft)
<1>1. IInv => (result = "ok" => NothingLeft)
  BY DEF IInv, CallerInv
<1> QED BY <1>1, SpecIInv, PTL

(* A scan is reported cancelled only if its caller cancelled it, never      *)
(* because a worker met the cancellation or the closed queue that another   *)
(* worker's error brought about (engine.go 418-430, 453-458 and 613-624).   *)
THEOREM CancellationIsHonest == Spec => []CausesAreReal
<1>1. IInv => CausesAreReal
  BY DEF IInv, FailInv, ErrorInv, CallerInv, CausesAreReal
<1> QED BY <1>1, SpecIInv, PTL

--------------------------------------------------------------------------------
(* The ledger of the scan.  Whatever lies below a root that was taken is     *)
(* recorded, or below something that is queued or with a worker: in the      *)
(* queue and in hand are directories that are reserved already, unread       *)
(* entries are not.                                                          *)
Waiting == IF main \in Early THEN rootDirs ELSE dirs
Claimed(x) == IF x \in Dirs THEN Below[x] \ {x} ELSE {x}
Handed(X) == UNION {Claimed(x) : x \in X}
Covered(X) == UNION {Below[x] : x \in X}
Held(w) == Handed(found[w])
Unread(w) == Covered(entries[w])

QueueOf(s, T) == {p \in (DOMAIN s) \X T : p[2] \in Claimed(s[p[1]])}
HeldWork(T) == {p \in Workers \X T : p[2] \in Held(p[1])}
UnreadWork(T) == {p \in Workers \X T : p[2] \in Unread(p[1])}
RootWork(T) == IF main = "record-root" THEN T \cap {Head(roots)} ELSE {}

Work(T) == Cardinality(QueueOf(Waiting, T)) + Cardinality(HeldWork(T))
           + Cardinality(UnreadWork(T)) + Cardinality(RootWork(T))

(* What a worker has in hand, by where it is. *)
HandInv(w) ==
  /\ wpc[w] \in {"open", "add"} => \E d \in Dirs : found[w] = {d}
  /\ wpc[w] = "record" => \E f \in Files : found[w] = {f}
  /\ wpc[w] \notin {"open", "add", "record"} => found[w] = {}
  /\ wpc[w] \notin {"read", "add", "record"} => entries[w] = {}
  /\ entries[w] # {} => \E d \in Dirs : entries[w] \subseteq Contents(d)
  /\ wpc[w] \in {"next", "asleep", "open", "read", "add", "record"} => err[w] = "none"

CountTypes ==
  /\ roots \in Seq(Nodes) /\ visited \in SUBSET Nodes
  /\ recorded \in [Files -> Nat] /\ ignored \in Nat
  /\ dirCount \in Nat /\ fileCount \in Nat /\ faults \in Nat
  /\ entries \in [Workers -> SUBSET Nodes]
  /\ main = "record-root" => roots # <<>> /\ Head(roots) \in Files

(* Nothing was passed over, and nobody gave up. *)
Flawless ==
  /\ ignored = 0 /\ result \in {"none", "ok"}
  /\ \A w \in Workers : err[w] = "none"

RecordsAddUp ==
  Flawless =>
    \A f \in Files :
      recorded[f] + Work({f}) = Visits({f})

(* Counters and records stay within what the roots reach, with what is      *)
(* still to do already set aside.                                           *)
WithinRoots ==
  result = "none" =>
    /\ fileCount + Work(Files) <= Visits(Files) /\ dirCount + Work(Dirs) <= Visits(Dirs)
    /\ \A f \in Files : recorded[f] + Work({f}) <= Visits({f})

TooMuch ==
  \/ Len(roots) > MaxRoots
  \/ Visits(Files) > MaxFiles
  \/ Visits(Dirs) > MaxDirectories

Outcomes == {result, scanErr} \cup {err[w] : w \in Workers}
LimitsAreReal ==
  /\ dirCount <= MaxDirectories /\ fileCount <= MaxFiles
  /\ Outcomes \cap {"root-changed", "unsafe-root"} # {} => faults > 0
  /\ "limit" \in Outcomes => TooMuch

(* Where the caller is, and what it can have heard by then. *)
StageInv ==
  /\ main # "returned" => result = "none"
  /\ main \in Early => scanErr = "none" /\ \A w \in Workers : err[w] = "none"
  /\ \A w \in Workers : wpc[w] \notin {"off", "gone"} => main = "waiting"

LedgerInv ==
  /\ CountTypes /\ StageInv /\ \A w \in Workers : HandInv(w)
  /\ RecordsAddUp /\ WithinRoots /\ LimitsAreReal

--------------------------------------------------------------------------------
(* The tree below a node.                                                    *)
LEMMA ContentsAreNodes ==
  ASSUME NEW x
  PROVE  Contents(x) \in SUBSET Nodes /\ (Contents(x) # {} => x \in Dirs)
BY SurfaceScanAssumption DEF Contents, Nodes, SurfaceScanAssumption

LEMMA BelowFacts ==
  ASSUME NEW x \in Nodes
  PROVE  /\ Below[x] \in SUBSET Nodes /\ x \in Below[x] /\ Hereditary(Below[x])
         /\ \A S \in SUBSET Nodes : x \in S /\ Hereditary(S) => Below[x] \subseteq S
<1>1. Below[x] = {y \in Nodes : \A S \in SUBSET Nodes :
                                  x \in S /\ Hereditary(S) => y \in S}
  BY DEF Below
<1>2. ASSUME NEW y \in Below[x], NEW z \in Contents(y)
      PROVE  z \in Below[x]
  <2>1. z \in Nodes
    BY <1>2, ContentsAreNodes
  <2>2. ASSUME NEW S \in SUBSET Nodes, x \in S, Hereditary(S)
        PROVE  z \in S
    BY <1>1, <1>2, <2>2 DEF Hereditary
  <2> QED
    BY <1>1, <2>1, <2>2
<1> QED
  BY <1>1, <1>2 DEF Hereditary

LEMMA BelowFile ==
  ASSUME NEW f \in Files
  PROVE  Below[f] = {f}
<1>1. f \in Nodes /\ f \notin Dirs
  BY SurfaceScanAssumption DEF Nodes, SurfaceScanAssumption
<1>2. Hereditary({f})
  BY <1>1 DEF Hereditary, Contents
<1> QED
  BY <1>1, <1>2, BelowFacts

(* Whatever lies below a node has a parent there, or is the node.            *)
LEMMA ParentBelow ==
  ASSUME NEW x \in Nodes, NEW y \in Below[x], y # x
  PROVE  \E z \in Below[x] : y \in Contents(z)
<1> SUFFICES ASSUME \A z \in Below[x] : y \notin Contents(z) PROVE FALSE
  OBVIOUS
<1> DEFINE S == Below[x] \ {y}
<1>1. S \in SUBSET Nodes /\ x \in S
  BY BelowFacts
<1>2. Hereditary(S)
  BY BelowFacts DEF Hereditary
<1> QED
  BY <1>1, <1>2, BelowFacts

LEMMA BelowContents ==
  ASSUME NEW d \in Dirs
  PROVE  /\ d \in Nodes /\ Contents(d) \in SUBSET Nodes
         /\ Claimed(d) = UNION {Below[x] : x \in Contents(d)}
<1> DEFINE U == UNION {Below[x] : x \in Contents(d)}
<1>1. d \in Nodes /\ Contents(d) \in SUBSET Nodes
  BY ContentsAreNodes DEF Nodes
<1>2. U \subseteq Below[d]
  <2> SUFFICES ASSUME NEW x \in Contents(d) PROVE Below[x] \subseteq Below[d]
    OBVIOUS
  <2>1. x \in Below[d] /\ Below[d] \in SUBSET Nodes /\ Hereditary(Below[d])
    BY <1>1, BelowFacts DEF Hereditary
  <2> QED
    BY <1>1, <2>1, BelowFacts
<1>3. d \notin U
  BY TreeAssumption
<1>4. Below[d] \subseteq U \cup {d}
  <2> DEFINE S == U \cup {d}
  <2>1. S \in SUBSET Nodes
    BY <1>1, BelowFacts
  <2>2. ASSUME NEW y \in S PROVE Contents(y) \subseteq S
    <3>1. CASE y = d
      BY <1>1, <3>1, BelowFacts
    <3>2. ASSUME NEW x \in Contents(d), y \in Below[x]
          PROVE  Contents(y) \subseteq Below[x]
      BY <1>1, <3>2, BelowFacts DEF Hereditary
    <3> QED
      BY <3>1, <3>2
  <2> QED
    BY <1>1, <2>1, <2>2, BelowFacts DEF Hereditary
<1> QED
  BY <1>1, <1>2, <1>3, <1>4 DEF Claimed

(* Two entries of one directory have nothing below them in common.           *)
LEMMA EntriesAreApart ==
  ASSUME NEW d \in Dirs, NEW x \in Contents(d), NEW y \in Contents(d), x # y
  PROVE  Below[x] \cap Below[y] = {}
<1>1. x \in Nodes /\ y \in Nodes
  BY ContentsAreNodes
<1>2. ASSUME NEW u \in Contents(d), NEW v \in Contents(d), u # v
      PROVE  u \notin Below[v]
  <2> SUFFICES ASSUME u \in Below[v] PROVE FALSE
    OBVIOUS
  <2>1. PICK z \in Below[v] : u \in Contents(z)
    BY <1>2, ContentsAreNodes, ParentBelow
  <2>2. z \in Dirs
    BY <2>1, ContentsAreNodes
  <2>3. z = d
    BY <2>1, <2>2, TreeAssumption
  <2> QED
    BY <2>1, <2>3, TreeAssumption
<1> DEFINE S == Below[x] \ Below[y]
<1>3. S \in SUBSET Nodes /\ x \in S
  BY <1>1, <1>2, BelowFacts
<1>4. ASSUME NEW z \in S, NEW c \in Contents(z)
      PROVE  c \in S
  <2>1. c \in Below[x]
    BY <1>1, <1>4, BelowFacts DEF Hereditary
  <2>2. ASSUME c \in Below[y] PROVE FALSE
    <3>1. c # y
      BY <1>2, <2>1
    <3>2. PICK p \in Below[y] : c \in Contents(p)
      BY <1>1, <2>2, <3>1, ParentBelow
    <3>3. p \in Dirs /\ z \in Dirs
      BY <1>4, <3>2, ContentsAreNodes
    <3>4. p = z
      BY <1>4, <3>2, <3>3, TreeAssumption
    <3> QED
      BY <3>2, <3>4
  <2> QED
    BY <2>1, <2>2
<1>5. Below[x] \subseteq S
  BY <1>1, <1>3, <1>4, BelowFacts DEF Hereditary
<1> QED
  BY <1>5

--------------------------------------------------------------------------------
(* Counting pairs, one first component at a time.                            *)
LEMMA NodesAreFinite ==
  ASSUME NEW T \in SUBSET Nodes
  PROVE  IsFiniteSet(T) /\ Cardinality(T) \in Nat
BY SurfaceScanAssumption, FS_Union, FS_Subset, FS_CardinalityType
DEF Nodes, SurfaceScanAssumption

LEMMA PairsAreFinite ==
  ASSUME NEW K, IsFiniteSet(K), NEW T \in SUBSET Nodes, NEW P \in SUBSET (K \X T)
  PROVE  IsFiniteSet(P) /\ Cardinality(P) \in Nat
BY NodesAreFinite, FS_Product, FS_Subset, FS_CardinalityType

Rest(P, k) == {p \in P : p[1] # k}
Slice(P, k, T) == {y \in T : <<k, y>> \in P}

LEMMA Slices ==
  ASSUME NEW K, IsFiniteSet(K), NEW T \in SUBSET Nodes, NEW P \in SUBSET (K \X T),
         NEW k \in K
  PROVE  /\ Cardinality(P) = Cardinality(Rest(P, k))
                             + Cardinality(Slice(P, k, T))
         /\ Cardinality(Rest(P, k)) \in Nat
         /\ Cardinality(Slice(P, k, T)) \in Nat
<1> DEFINE A == Rest(P, k)
           B == {p \in P : p[1] = k}
           Y == Slice(P, k, T)
           g == [p \in B |-> p[2]]
<1> USE DEF Rest, Slice
<1>1. /\ IsFiniteSet(P) /\ IsFiniteSet(A) /\ IsFiniteSet(B) /\ IsFiniteSet(Y)
      /\ Cardinality(A) \in Nat /\ Cardinality(B) \in Nat /\ Cardinality(Y) \in Nat
  <2>1. A \in SUBSET (K \X T) /\ B \in SUBSET (K \X T) /\ Y \in SUBSET Nodes
    OBVIOUS
  <2> QED
    BY <2>1, PairsAreFinite, NodesAreFinite
<1>2. P = A \cup B /\ A \cap B = {}
  OBVIOUS
<1>3. g \in Bijection(B, Y)
  <2>1. g \in [B -> Y]
    OBVIOUS
  <2>2. \A p, q \in B : g[p] = g[q] => p = q
    OBVIOUS
  <2>3. \A y \in Y : \E p \in B : g[p] = y
    <3> TAKE y \in Y
    <3>1. <<k, y>> \in B /\ g[<<k, y>>] = y
      OBVIOUS
    <3> QED
      BY <3>1
  <2> QED
    BY <2>1, <2>2, <2>3 DEF Bijection, Injection, Surjection, IsInjective
<1>4. Cardinality(B) = Cardinality(Y)
  BY <1>1, <1>3, FS_Bijection DEF ExistsBijection
<1> HIDE DEF A, B, Y
<1>5. Cardinality(P) = Cardinality(A) + Cardinality(B)
  BY <1>1, <1>2, FS_Union, FS_EmptySet
<1> QED
  BY <1>1, <1>4, <1>5 DEF A, B, Y

LEMMA SliceChange ==
  ASSUME NEW K, IsFiniteSet(K), NEW T \in SUBSET Nodes, NEW k \in K,
         NEW P \in SUBSET (K \X T), NEW Q \in SUBSET (K \X T),
         Rest(P, k) = Rest(Q, k)
  PROVE  Cardinality(P) + Cardinality(Slice(Q, k, T))
         = Cardinality(Q) + Cardinality(Slice(P, k, T))
<1> DEFINE a == Cardinality(Rest(P, k))
           b == Cardinality(Slice(P, k, T))
           c == Cardinality(Slice(Q, k, T))
<1>1. Cardinality(P) = a + b /\ a \in Nat /\ b \in Nat
  BY Slices
<1>2. Cardinality(Q) = a + c /\ c \in Nat
  BY Slices
<1> HIDE DEF a, b, c
<1>3. Cardinality(P) + c = Cardinality(Q) + b
  BY <1>1, <1>2
<1> QED
  BY <1>3 DEF b, c

LEMMA QueueShrinks ==
  ASSUME NEW s \in Seq(Dirs), s # <<>>, NEW T \in SUBSET Nodes
  PROVE  /\ Cardinality(QueueOf(s, T))
              = Cardinality(QueueOf(Front(s), T)) + Cardinality(T \cap Claimed(Last(s)))
         /\ Cardinality(QueueOf(s, T)) \in Nat /\ Cardinality(QueueOf(Front(s), T)) \in Nat
<1> DEFINE n == Len(s)
           P == QueueOf(s, T)
<1>1. n \in Nat \ {0} /\ DOMAIN s = 1..n /\ n \in 1..n /\ Last(s) = s[n]
  BY DEF Last
<1>2. DOMAIN Front(s) = 1..(n - 1) /\ \A i \in 1..(n - 1) : Front(s)[i] = s[i]
  <2>1. Front(s) = [i \in 1..(n - 1) |-> s[i]]
    BY <1>1 DEF Front
  <2> QED
    BY <2>1
<1>3. IsFiniteSet(1..n) /\ P \in SUBSET ((1..n) \X T)
  BY <1>1, FS_Interval DEF QueueOf
<1>4. Rest(P, n) = QueueOf(Front(s), T)
  BY <1>1, <1>2 DEF QueueOf, Rest
<1>5. Slice(P, n, T) = T \cap Claimed(Last(s))
  BY <1>1 DEF QueueOf, Slice
<1>6. /\ Cardinality(P) = Cardinality(Rest(P, n))
                          + Cardinality(Slice(P, n, T))
      /\ Cardinality(Rest(P, n)) \in Nat
      /\ Cardinality(Slice(P, n, T)) \in Nat
  <2> HIDE DEF P, n
  <2> QED
    BY <1>1, <1>3, Slices
<1> QED
  BY <1>4, <1>5, <1>6

LEMMA QueueGrows ==
  ASSUME NEW s \in Seq(Dirs), NEW d \in Dirs, NEW T \in SUBSET Nodes
  PROVE  /\ Cardinality(QueueOf(Append(s, d), T))
              = Cardinality(QueueOf(s, T)) + Cardinality(T \cap Claimed(d))
         /\ Cardinality(QueueOf(s, T)) \in Nat
<1> DEFINE t == Append(s, d)
<1>1. t \in Seq(Dirs) /\ t # <<>> /\ Len(t) = Len(s) + 1 /\ Len(s) \in Nat
  BY AppendProperties
<1>2. Last(t) = d
  BY <1>1, AppendProperties DEF Last
<1>3. Front(t) = s
  <2>1. Front(t) = [i \in 1..Len(s) |-> t[i]]
    BY <1>1 DEF Front
  <2>2. \A i \in 1..Len(s) : t[i] = s[i]
    BY AppendProperties
  <2>3. DOMAIN s = 1..Len(s) /\ s = [i \in 1..Len(s) |-> s[i]]
    OBVIOUS
  <2> HIDE DEF t
  <2> QED
    BY <2>1, <2>2, <2>3
<1> HIDE DEF t
<1>4. /\ Cardinality(QueueOf(t, T))
           = Cardinality(QueueOf(Front(t), T)) + Cardinality(T \cap Claimed(Last(t)))
      /\ Cardinality(QueueOf(Front(t), T)) \in Nat
  BY <1>1, QueueShrinks
<1> QED
  BY <1>2, <1>3, <1>4 DEF t

--------------------------------------------------------------------------------
(* How much work there is, and what a step of one worker does to it.         *)
LEMMA QueueIsCounted ==
  ASSUME NEW s \in Seq(Dirs), NEW T \in SUBSET Nodes
  PROVE  Cardinality(QueueOf(s, T)) \in Nat
<1>1. IsFiniteSet(DOMAIN s)
  BY FS_Interval
<1>2. QueueOf(s, T) \in SUBSET ((DOMAIN s) \X T)
  BY DEF QueueOf
<1> QED
  BY <1>1, <1>2, PairsAreFinite

LEMMA WorkIsCounted ==
  ASSUME Types, NEW T \in SUBSET Nodes
  PROVE  /\ Waiting \in Seq(Dirs)
         /\ HeldWork(T) \in SUBSET (Workers \X T) /\ UnreadWork(T) \in SUBSET (Workers \X T)
         /\ Cardinality(QueueOf(Waiting, T)) \in Nat
         /\ Cardinality(HeldWork(T)) \in Nat /\ Cardinality(UnreadWork(T)) \in Nat
         /\ Cardinality(RootWork(T)) \in Nat /\ Work(T) \in Nat
<1>1. Waiting \in Seq(Dirs)
  BY DEF Types, Waiting
<1>2. HeldWork(T) \in SUBSET (Workers \X T) /\ UnreadWork(T) \in SUBSET (Workers \X T)
  BY DEF HeldWork, UnreadWork
<1>3. Cardinality(HeldWork(T)) \in Nat /\ Cardinality(UnreadWork(T)) \in Nat
  BY <1>2, PairsAreFinite, SurfaceScanAssumption
<1>4. Cardinality(QueueOf(Waiting, T)) \in Nat
  BY <1>1, QueueIsCounted
<1>5. Cardinality(RootWork(T)) \in Nat
  <2>1. RootWork(T) \in SUBSET Nodes
    BY DEF RootWork
  <2> QED
    BY <2>1, NodesAreFinite
<1> QED
  BY <1>1, <1>2, <1>3, <1>4, <1>5 DEF Work

OthersKeep(w) ==
  \A v \in Workers \ {w} : found'[v] = found[v] /\ entries'[v] = entries[v]

LEMMA HandsChange ==
  ASSUME NEW w \in Workers, OthersKeep(w), NEW T \in SUBSET Nodes
  PROVE  /\ Cardinality(HeldWork(T)) + Cardinality(T \cap Held(w)')
              = Cardinality(HeldWork(T)') + Cardinality(T \cap Held(w))
         /\ Cardinality(UnreadWork(T)) + Cardinality(T \cap Unread(w)')
              = Cardinality(UnreadWork(T)') + Cardinality(T \cap Unread(w))
<1>1. IsFiniteSet(Workers)
  BY SurfaceScanAssumption
<1>2. Cardinality(HeldWork(T)) + Cardinality(T \cap Held(w)')
        = Cardinality(HeldWork(T)') + Cardinality(T \cap Held(w))
  <2> DEFINE P == HeldWork(T)
             Q == HeldWork(T)'
  <2>1. P \in SUBSET (Workers \X T) /\ Q \in SUBSET (Workers \X T)
    BY DEF HeldWork
  <2>2. \A v \in Workers \ {w} : Held(v)' = Held(v)
    BY DEF OthersKeep, Held
  <2>3. Rest(P, w) = Rest(Q, w)
    BY <2>2 DEF HeldWork, Rest
  <2>4. /\ Slice(P, w, T) = T \cap Held(w)
        /\ Slice(Q, w, T) = T \cap Held(w)'
    BY DEF HeldWork, Slice
  <2> HIDE DEF P, Q
  <2>5. Cardinality(P) + Cardinality(Slice(Q, w, T))
         = Cardinality(Q) + Cardinality(Slice(P, w, T))
    BY <1>1, <2>1, <2>3, SliceChange
  <2> QED
    BY <2>4, <2>5 DEF P, Q
<1>3. Cardinality(UnreadWork(T)) + Cardinality(T \cap Unread(w)')
        = Cardinality(UnreadWork(T)') + Cardinality(T \cap Unread(w))
  <2> DEFINE P == UnreadWork(T)
             Q == UnreadWork(T)'
  <2>1. P \in SUBSET (Workers \X T) /\ Q \in SUBSET (Workers \X T)
    BY DEF UnreadWork
  <2>2. \A v \in Workers \ {w} : Unread(v)' = Unread(v)
    BY DEF OthersKeep, Unread
  <2>3. Rest(P, w) = Rest(Q, w)
    BY <2>2 DEF UnreadWork, Rest
  <2>4. /\ Slice(P, w, T) = T \cap Unread(w)
        /\ Slice(Q, w, T) = T \cap Unread(w)'
    BY DEF UnreadWork, Slice
  <2> HIDE DEF P, Q
  <2>5. Cardinality(P) + Cardinality(Slice(Q, w, T))
         = Cardinality(Q) + Cardinality(Slice(P, w, T))
    BY <1>1, <2>1, <2>3, SliceChange
  <2> QED
    BY <2>4, <2>5 DEF P, Q
<1> QED
  BY <1>2, <1>3

LEMMA WorkMoves ==
  ASSUME Types, NEW w \in Workers, OthersKeep(w), UNCHANGED <<main, roots>>,
         NEW T \in SUBSET Nodes,
         Cardinality(QueueOf(Waiting, T))' \in Nat,
         Held(w) \in SUBSET Nodes, Unread(w) \in SUBSET Nodes,
         Held(w)' \in SUBSET Nodes, Unread(w)' \in SUBSET Nodes
  PROVE  /\ Work(T)' + Cardinality(T \cap Held(w)) + Cardinality(T \cap Unread(w))
                + Cardinality(QueueOf(Waiting, T))
              = Work(T) + Cardinality(T \cap Held(w)') + Cardinality(T \cap Unread(w)')
                + Cardinality(QueueOf(Waiting, T))'
         /\ Work(T) \in Nat /\ Work(T)' \in Nat
         /\ Cardinality(QueueOf(Waiting, T)) \in Nat
         /\ Cardinality(T \cap Held(w)) \in Nat /\ Cardinality(T \cap Unread(w)) \in Nat
         /\ Cardinality(T \cap Held(w)') \in Nat /\ Cardinality(T \cap Unread(w)') \in Nat
<1> DEFINE h == Cardinality(T \cap Held(w))
           u == Cardinality(T \cap Unread(w))
           h1 == Cardinality(T \cap Held(w)')
           u1 == Cardinality(T \cap Unread(w)')
           a == Cardinality(HeldWork(T))
           b == Cardinality(UnreadWork(T))
           a1 == Cardinality(HeldWork(T)')
           b1 == Cardinality(UnreadWork(T)')
           q == Cardinality(QueueOf(Waiting, T))
           q1 == Cardinality(QueueOf(Waiting, T))'
           r == Cardinality(RootWork(T))
<1>1. h \in Nat /\ u \in Nat /\ h1 \in Nat /\ u1 \in Nat
  BY NodesAreFinite
<1>2. a + h1 = a1 + h /\ b + u1 = b1 + u
  BY HandsChange
<1>3. a \in Nat /\ b \in Nat /\ q \in Nat /\ r \in Nat /\ Work(T) \in Nat
      /\ Work(T) = q + a + b + r
  BY WorkIsCounted DEF Work
<1>4. a1 \in Nat /\ b1 \in Nat /\ q1 \in Nat
  <2>1. HeldWork(T)' \in SUBSET (Workers \X T) /\ UnreadWork(T)' \in SUBSET (Workers \X T)
    BY DEF HeldWork, UnreadWork
  <2> QED
    BY <2>1, PairsAreFinite, SurfaceScanAssumption
<1>5. Work(T)' = q1 + a1 + b1 + r
  BY DEF Work, RootWork
<1> HIDE DEF h, u, h1, u1, a, b, a1, b1, q, q1, r
<1>6. Work(T)' + h + u + q = Work(T) + h1 + u1 + q1 /\ Work(T)' \in Nat
  BY <1>1, <1>2, <1>3, <1>4, <1>5
<1> QED
  BY <1>1, <1>3, <1>6 DEF h, u, h1, u1, q, q1

LEMMA WorkerWork ==
  ASSUME Types, NEW w \in Workers, OthersKeep(w),
         UNCHANGED <<main, roots, rootDirs, dirs>>, NEW T \in SUBSET Nodes,
         Held(w) \in SUBSET Nodes, Unread(w) \in SUBSET Nodes,
         Held(w)' \in SUBSET Nodes, Unread(w)' \in SUBSET Nodes
  PROVE  /\ Work(T)' + Cardinality(T \cap Held(w)) + Cardinality(T \cap Unread(w))
              = Work(T) + Cardinality(T \cap Held(w)') + Cardinality(T \cap Unread(w)')
         /\ Work(T) \in Nat /\ Work(T)' \in Nat
         /\ Cardinality(T \cap Held(w)) \in Nat /\ Cardinality(T \cap Unread(w)) \in Nat
         /\ Cardinality(T \cap Held(w)') \in Nat /\ Cardinality(T \cap Unread(w)') \in Nat
<1> DEFINE q == Cardinality(QueueOf(Waiting, T))
<1>1. Cardinality(QueueOf(Waiting, T))' = q /\ q \in Nat
  BY WorkIsCounted DEF Waiting
<1>2. Cardinality(QueueOf(Waiting, T))' \in Nat
  BY <1>1
<1> DEFINE h == Cardinality(T \cap Held(w))
           u == Cardinality(T \cap Unread(w))
           h1 == Cardinality(T \cap Held(w)')
           u1 == Cardinality(T \cap Unread(w)')
<1>3. /\ Work(T)' + h + u + q = Work(T) + h1 + u1 + q
      /\ Work(T) \in Nat /\ Work(T)' \in Nat
      /\ h \in Nat /\ u \in Nat /\ h1 \in Nat /\ u1 \in Nat
  BY <1>1, <1>2, WorkMoves
<1> HIDE DEF q, h, u, h1, u1
<1>4. Work(T)' + h + u = Work(T) + h1 + u1
  BY <1>1, <1>3
<1> QED
  BY <1>3, <1>4 DEF h, u, h1, u1

LEMMA Split ==
  ASSUME NEW A \in SUBSET Nodes, NEW B \in SUBSET Nodes, A \cap B = {},
         NEW T \in SUBSET Nodes
  PROVE  /\ Cardinality(T \cap (A \cup B)) = Cardinality(T \cap A) + Cardinality(T \cap B)
         /\ Cardinality(T \cap A) \in Nat /\ Cardinality(T \cap B) \in Nat
<1> DEFINE X == T \cap A
           Y == T \cap B
<1>1. X \in SUBSET Nodes /\ Y \in SUBSET Nodes /\ X \cap Y = {} /\ X \cup Y = T \cap (A \cup B)
  OBVIOUS
<1> HIDE DEF X, Y
<1>2. /\ IsFiniteSet(X) /\ IsFiniteSet(Y)
      /\ Cardinality(X) \in Nat /\ Cardinality(Y) \in Nat
  BY <1>1, NodesAreFinite
<1>3. Cardinality(X \cup Y) = Cardinality(X) + Cardinality(Y)
  <2>1. Cardinality(X \cup Y) = Cardinality(X) + Cardinality(Y) - Cardinality(X \cap Y)
    BY <1>2, FS_Union
  <2>2. Cardinality(X \cap Y) = 0
    BY <1>1, NoneCounted
  <2> QED
    BY <1>2, <2>1, <2>2
<1> QED
  BY <1>1, <1>2, <1>3 DEF X, Y

LEMMA OneOrNone ==
  ASSUME NEW T, NEW x
  PROVE  Cardinality(T \cap {x}) = IF x \in T THEN 1 ELSE 0
<1>1. CASE x \in T
  <2>1. T \cap {x} = {x}
    BY <1>1
  <2> QED
    BY <1>1, <2>1, FS_Singleton
<1>2. CASE x \notin T
  <2>1. T \cap {x} = {}
    BY <1>2
  <2> QED
    BY <1>2, <2>1, FS_EmptySet
<1> QED
  BY <1>1, <1>2

(* A directory is claimed with itself counted, a file is claimed whole.      *)
LEMMA ClaimedFacts ==
  ASSUME NEW x \in Nodes
  PROVE  /\ Claimed(x) \in SUBSET Nodes
         /\ x \in Files => Claimed(x) = {x} /\ Below[x] = {x}
         /\ x \in Dirs => Below[x] = Claimed(x) \cup {x} /\ Claimed(x) \cap {x} = {}
BY BelowFacts, BelowFile, SurfaceScanAssumption DEF Claimed, Nodes, SurfaceScanAssumption

LEMMA HandsAreNodes ==
  ASSUME NEW X \in SUBSET Nodes
  PROVE  /\ Handed(X) \in SUBSET Nodes /\ Covered(X) \in SUBSET Nodes
         /\ X = {} => Handed(X) = {} /\ Covered(X) = {}
         /\ \A x : X = {x} => Handed(X) = Claimed(x)
BY ClaimedFacts, BelowFacts DEF Handed, Covered

(* Taking one entry takes what is below it, and nothing else.                *)
LEMMA OneEntryLess ==
  ASSUME NEW d \in Dirs, NEW X, X \subseteq Contents(d), NEW e \in X
  PROVE  /\ e \in Nodes /\ X \in SUBSET Nodes
         /\ Covered(X \ {e}) \in SUBSET Nodes /\ Below[e] \in SUBSET Nodes
         /\ Covered(X) = Covered(X \ {e}) \cup Below[e]
         /\ Covered(X \ {e}) \cap Below[e] = {}
<1>1. \A x \in X : x \in Contents(d) /\ x \in Nodes
  BY ContentsAreNodes
<1>2. \A x \in X \ {e} : Below[x] \cap Below[e] = {}
  BY <1>1, EntriesAreApart
<1>3. \A x \in X : Below[x] \in SUBSET Nodes
  BY <1>1, BelowFacts
<1> QED
  BY <1>1, <1>2, <1>3 DEF Covered

LEMMA EntryShare ==
  ASSUME NEW d \in Dirs, NEW X, X \subseteq Contents(d), NEW e \in X,
         NEW T \in SUBSET Nodes
  PROVE  /\ Cardinality(T \cap Covered(X))
              = Cardinality(T \cap Covered(X \ {e})) + Cardinality(T \cap Below[e])
         /\ Cardinality(T \cap Covered(X \ {e})) \in Nat
         /\ Cardinality(T \cap Below[e]) \in Nat
<1> DEFINE A == Covered(X \ {e})
           B == Below[e]
<1>1. A \in SUBSET Nodes /\ B \in SUBSET Nodes /\ A \cap B = {} /\ Covered(X) = A \cup B
  BY OneEntryLess
<1> HIDE DEF A, B
<1>2. /\ Cardinality(T \cap (A \cup B)) = Cardinality(T \cap A) + Cardinality(T \cap B)
      /\ Cardinality(T \cap A) \in Nat /\ Cardinality(T \cap B) \in Nat
  BY <1>1, Split
<1> QED
  BY <1>1, <1>2 DEF A, B

--------------------------------------------------------------------------------
(* The books stay balanced, step by step.                                    *)
LEMMA VisitsAreCounted ==
  ASSUME CountTypes, NEW S \in SUBSET Nodes
  PROVE  Visits(S) \in Nat
<1> DEFINE P == {p \in visited \X S : p[2] \in Below[p[1]]}
<1>1. P \in SUBSET (Nodes \X S) /\ IsFiniteSet(Nodes)
  BY NodesAreFinite DEF CountTypes
<1> HIDE DEF P
<1>2. Cardinality(P) \in Nat
  BY <1>1, PairsAreFinite
<1> QED
  BY <1>2 DEF P, Visits

(* Work is done, handed on or lost; if it is lost, something is not flawless *)
(* any more.                                                                 *)
Loses(T) == Work(T)' \in Nat /\ Work(T)' <= Work(T) /\ (Flawless' => Work(T)' = Work(T))
Spends(x, T) == Work(T)' \in Nat /\ Work(T)' + (IF x \in T THEN 1 ELSE 0) = Work(T)

LEMMA CountsStay ==
  ASSUME Types, LedgerInv, UNCHANGED <<visited, recorded, dirCount, fileCount>>,
         Flawless' => Flawless, result' = "none" => result = "none",
         \A T \in SUBSET Nodes : Loses(T)
  PROVE  RecordsAddUp' /\ WithinRoots'
<1>0. CountTypes /\ RecordsAddUp /\ WithinRoots
  BY DEF LedgerInv
<1>1. \A S \in SUBSET Nodes : Visits(S)' = Visits(S) /\ Visits(S) \in Nat /\ Work(S) \in Nat
  BY <1>0, VisitsAreCounted, WorkIsCounted DEF Visits
<1>2. Files \in SUBSET Nodes /\ Dirs \in SUBSET Nodes /\ \A f \in Files : {f} \in SUBSET Nodes
  BY DEF Nodes
<1>3. RecordsAddUp'
  BY <1>0, <1>1, <1>2 DEF RecordsAddUp, Loses
<1>4. WithinRoots'
  <2> SUFFICES ASSUME result' = "none" PROVE WithinRoots'
    BY DEF WithinRoots
  <2>1. fileCount' + Work(Files)' <= Visits(Files)' /\ dirCount' + Work(Dirs)' <= Visits(Dirs)'
    BY <1>0, <1>1, <1>2 DEF WithinRoots, Loses, CountTypes
  <2>2. ASSUME NEW f \in Files PROVE recorded'[f] + Work({f})' <= Visits({f})'
    <3>1. recorded[f] + Work({f}) <= Visits({f}) /\ recorded[f] \in Nat
      BY <1>0 DEF WithinRoots, CountTypes
    <3>2. /\ Visits({f})' = Visits({f}) /\ Visits({f}) \in Nat /\ Work({f}) \in Nat
          /\ Loses({f})
      BY <1>1, <1>2
    <3> QED
      BY <3>1, <3>2 DEF Loses
  <2> QED
    BY <2>1, <2>2 DEF WithinRoots
<1> QED
  BY <1>3, <1>4

LEMMA FileLedger ==
  ASSUME Types, LedgerInv, UNCHANGED <<visited, dirCount, result, ignored, err>>,
         NEW f \in Files, recorded' = [recorded EXCEPT ![f] = @ + 1],
         fileCount' = fileCount + 1, \A T \in SUBSET Nodes : Spends(f, T)
  PROVE  RecordsAddUp' /\ WithinRoots'
<1>0. CountTypes /\ RecordsAddUp /\ WithinRoots
  BY DEF LedgerInv
<1>1. \A S \in SUBSET Nodes : Visits(S)' = Visits(S) /\ Visits(S) \in Nat /\ Work(S) \in Nat
  BY <1>0, VisitsAreCounted, WorkIsCounted DEF Visits
<1>2. Files \in SUBSET Nodes /\ Dirs \in SUBSET Nodes /\ \A g \in Files : {g} \in SUBSET Nodes
  BY DEF Nodes
<1>3. f \notin Dirs
  BY SurfaceScanAssumption
<1>4. RecordsAddUp'
  <2> SUFFICES ASSUME Flawless', NEW g \in Files
               PROVE  recorded'[g] + Work({g})' = Visits({g})'
    BY DEF RecordsAddUp
  <2>1. Flawless /\ recorded[g] + Work({g}) = Visits({g}) /\ recorded[g] \in Nat
    BY <1>0 DEF Flawless, RecordsAddUp, CountTypes
  <2>2. Spends(f, {g}) /\ Work({g}) \in Nat /\ Visits({g})' = Visits({g})
    BY <1>1, <1>2
  <2>3. CASE g = f
    <3>1. recorded'[g] = recorded[g] + 1 /\ Work({g})' + 1 = Work({g})
      BY <1>0, <2>2, <2>3 DEF Spends, CountTypes
    <3> QED
      BY <2>1, <2>2, <3>1 DEF Spends
  <2>4. CASE g # f
    <3>1. recorded'[g] = recorded[g] /\ Work({g})' = Work({g})
      BY <1>0, <2>2, <2>4 DEF Spends, CountTypes
    <3> QED
      BY <2>1, <2>2, <3>1
  <2> QED
    BY <2>3, <2>4
<1>5. WithinRoots'
  <2>1. Work(Files)' + 1 = Work(Files) /\ Work(Dirs)' = Work(Dirs)
        /\ Work(Files)' \in Nat /\ Work(Dirs)' \in Nat
    BY <1>2, <1>3 DEF Spends
  <2>2. Visits(Files)' = Visits(Files) /\ Visits(Dirs)' = Visits(Dirs) /\ fileCount \in Nat
    BY <1>0, <1>1, <1>2 DEF CountTypes
  <2>3. ASSUME result = "none", NEW g \in Files
        PROVE  recorded'[g] + Work({g})' <= Visits({g})'
    <3>1. recorded[g] + Work({g}) <= Visits({g}) /\ recorded[g] \in Nat
      BY <1>0, <2>3 DEF WithinRoots, CountTypes
    <3>2. /\ Spends(f, {g}) /\ Work({g}) \in Nat /\ Visits({g}) \in Nat
          /\ Visits({g})' = Visits({g})
      BY <1>1, <1>2
    <3>3. recorded'[g] = recorded[g] + (IF g = f THEN 1 ELSE 0)
      BY <1>0, <3>1 DEF CountTypes
    <3> QED
      BY <3>1, <3>2, <3>3 DEF Spends
  <2> QED
    BY <1>0, <2>1, <2>2, <2>3 DEF WithinRoots
<1> QED
  BY <1>4, <1>5

LEMMA DirLedger ==
  ASSUME Types, LedgerInv, UNCHANGED <<visited, fileCount, recorded, result, ignored, err>>,
         NEW d \in Dirs, dirCount' = dirCount + 1, \A T \in SUBSET Nodes : Spends(d, T)
  PROVE  RecordsAddUp' /\ WithinRoots'
<1>0. CountTypes /\ RecordsAddUp /\ WithinRoots
  BY DEF LedgerInv
<1>1. \A S \in SUBSET Nodes : Visits(S)' = Visits(S) /\ Visits(S) \in Nat /\ Work(S) \in Nat
  BY <1>0, VisitsAreCounted, WorkIsCounted DEF Visits
<1>2. Files \in SUBSET Nodes /\ Dirs \in SUBSET Nodes /\ \A g \in Files : {g} \in SUBSET Nodes
  BY DEF Nodes
<1>3. d \notin Files
  BY SurfaceScanAssumption
<1>4. RecordsAddUp'
  <2> SUFFICES ASSUME Flawless', NEW g \in Files
               PROVE  recorded'[g] + Work({g})' = Visits({g})'
    BY DEF RecordsAddUp
  <2>1. recorded[g] + Work({g}) = Visits({g}) /\ recorded'[g] = recorded[g]
    BY <1>0 DEF Flawless, RecordsAddUp
  <2>2. Spends(d, {g}) /\ d \notin {g} /\ Visits({g})' = Visits({g})
    BY <1>1, <1>2, <1>3
  <2>3. Work({g})' = Work({g})
    BY <2>2 DEF Spends
  <2> QED
    BY <2>1, <2>2, <2>3
<1>5. WithinRoots'
  <2>1. Work(Dirs)' + 1 = Work(Dirs) /\ Work(Files)' = Work(Files)
        /\ Work(Files)' \in Nat /\ Work(Dirs)' \in Nat
    BY <1>2, <1>3 DEF Spends
  <2>2. Visits(Files)' = Visits(Files) /\ Visits(Dirs)' = Visits(Dirs) /\ dirCount \in Nat
    BY <1>0, <1>1, <1>2 DEF CountTypes
  <2>3. ASSUME NEW g \in Files
        PROVE  Work({g})' = Work({g}) /\ Visits({g})' = Visits({g})
    <3>1. Spends(d, {g}) /\ d \notin {g} /\ Visits({g})' = Visits({g})
      BY <1>1, <1>2, <1>3
    <3> QED
      BY <3>1 DEF Spends
  <2> QED
    BY <1>0, <2>1, <2>2, <2>3 DEF WithinRoots
<1> QED
  BY <1>4, <1>5

(* An error is worth reporting: a root did change, a limit was passed.       *)
Earned(e) ==
  /\ e \in {"root-changed", "unsafe-root"} => faults' > 0
  /\ e = "limit" => TooMuch'

OthersRest(w) ==
  \A v \in Workers \ {w} :
    /\ found'[v] = found[v] /\ entries'[v] = entries[v] /\ err'[v] = err[v]
    /\ wpc'[v] = wpc[v] \/ (wpc[v] = "asleep" /\ wpc'[v] = "next")

WorkerFrame(w) ==
  /\ wpc[w] \notin {"off", "gone"}
  /\ UNCHANGED <<roots, visited, rootDirs, main, result>>
  /\ faults' \in Nat /\ faults' >= faults
  /\ OthersRest(w)

LEMMA WorkerLedger ==
  ASSUME IInv, LedgerInv, NEW w \in Workers, WorkerFrame(w),
         ignored' \in Nat, entries' \in [Workers -> SUBSET Nodes],
         recorded' \in [Files -> Nat], dirCount' \in 0..MaxDirectories,
         fileCount' \in 0..MaxFiles,
         HandInv(w)', Earned(err'[w]), Earned(scanErr'),
         RecordsAddUp', WithinRoots'
  PROVE  LedgerInv'
<1>0. CountTypes /\ StageInv /\ LimitsAreReal /\ \A v \in Workers : HandInv(v)
  BY DEF LedgerInv
<1>1. CountTypes'
  BY <1>0, SurfaceScanAssumption DEF CountTypes, WorkerFrame
<1>2. main = "waiting" /\ main' = "waiting" /\ result' = result
  BY <1>0 DEF StageInv, WorkerFrame
<1>3. StageInv'
  BY <1>0, <1>2 DEF StageInv, Early
<1>4. \A v \in Workers : HandInv(v)'
  <2> SUFFICES ASSUME NEW v \in Workers \ {w} PROVE HandInv(v)'
    OBVIOUS
  <2>1. /\ found'[v] = found[v] /\ entries'[v] = entries[v] /\ err'[v] = err[v]
        /\ wpc'[v] = wpc[v] \/ (wpc[v] = "asleep" /\ wpc'[v] = "next")
    BY DEF WorkerFrame, OthersRest
  <2> QED
    BY <1>0, <2>1 DEF HandInv
<1>5. TooMuch' = TooMuch
  BY DEF WorkerFrame, TooMuch, Visits
<1>6. \A e \in Outcomes : Earned(e)
  BY <1>0, <1>5 DEF LimitsAreReal, Earned, WorkerFrame, CountTypes
<1>7. \A e \in Outcomes' : Earned(e)
  BY <1>2, <1>6 DEF Outcomes, WorkerFrame, OthersRest
<1>8. LimitsAreReal'
  BY <1>7, SurfaceScanAssumption DEF LimitsAreReal, Earned
<1> QED
  BY <1>1, <1>3, <1>4, <1>8 DEF LedgerInv

--------------------------------------------------------------------------------
(* The steps of a worker.                                                    *)
LEMMA StepFrame ==
  ASSUME IInv, LedgerInv, NEW w \in Workers, WorkerStep(w)
  PROVE  /\ WorkerFrame(w) /\ main = "waiting" /\ result = "none"
         /\ ignored' \in Nat /\ ignored' >= ignored
         /\ entries' \in [Workers -> SUBSET Nodes]
         /\ recorded' \in [Files -> Nat]
         /\ dirCount' \in 0..MaxDirectories /\ fileCount' \in 0..MaxFiles
         /\ Flawless' => Flawless
<1>0. /\ Types /\ CountTypes /\ StageInv /\ LimitsAreReal
      /\ dirCount \in 0..MaxDirectories /\ fileCount \in 0..MaxFiles
      /\ MaxDirectories \in Nat /\ MaxFiles \in Nat
      /\ HandInv(w)
  BY SurfaceScanAssumption DEF LedgerInv, IInv, QueueInv, LimitsAreReal, CountTypes
<1>1. wpc[w] \notin {"off", "gone"}
  BY DEF WorkerStep, NextDirectory, FinishDirectory, OpenDirectory, EndDirectory,
     SkipEntry, ReadSubDir, AddDirectory, ReadFile, RecordFile, KeepError, CancelScan,
     CloseAndLeave
<1>2. UNCHANGED <<roots, visited, rootDirs, main, result>>
  BY DEF WorkerStep, NextDirectory, FinishDirectory, OpenDirectory, EndDirectory,
     SkipEntry, ReadSubDir, AddDirectory, ReadFile, RecordFile, KeepError, CancelScan,
     CloseAndLeave, caller
<1>3. main = "waiting" /\ result = "none"
  BY <1>0, <1>1 DEF StageInv
<1>4. faults' = faults \/ faults' = faults + 1
  BY DEF WorkerStep, NextDirectory, FinishDirectory, OpenDirectory, EndDirectory,
     SkipEntry, ReadSubDir, AddDirectory, ReadFile, RecordFile, KeepError, CancelScan,
     CloseAndLeave, Fail
<1>5. ignored' = ignored \/ ignored' = ignored + 1
  BY DEF WorkerStep, NextDirectory, FinishDirectory, OpenDirectory, EndDirectory,
     SkipEntry, ReadSubDir, AddDirectory, ReadFile, RecordFile, KeepError, CancelScan,
     CloseAndLeave, Ignore, report
<1>6. /\ dirCount' = dirCount \/ (dirCount' = dirCount + 1 /\ ~(dirCount >= MaxDirectories))
      /\ fileCount' = fileCount \/ (fileCount' = fileCount + 1 /\ ~(fileCount >= MaxFiles))
  BY DEF WorkerStep, NextDirectory, FinishDirectory, OpenDirectory, EndDirectory,
     SkipEntry, ReadSubDir, AddDirectory, ReadFile, RecordFile, KeepError, CancelScan,
     CloseAndLeave, budget, Full
<1>7. \/ entries' = entries
      \/ \E X \in SUBSET entries[w] : entries' = [entries EXCEPT ![w] = X]
      \/ \E d : entries' = [entries EXCEPT ![w] = Contents(d)]
  <2>1. CASE NextDirectory(w) \/ FinishDirectory(w) \/ KeepError(w) \/ CancelScan(w)
             \/ CloseAndLeave(w)
    BY <2>1 DEF NextDirectory, FinishDirectory, KeepError, CancelScan, CloseAndLeave
  <2>2. CASE OpenDirectory(w)
    BY <2>2 DEF OpenDirectory, Leave
  <2>3. CASE EndDirectory(w) \/ AddDirectory(w) \/ RecordFile(w)
    BY <2>3 DEF EndDirectory, AddDirectory, RecordFile, Leave
  <2>4. CASE SkipEntry(w) \/ ReadFile(w)
    <3>1. \E e : entries' = [entries EXCEPT ![w] = entries[w] \ {e}]
      BY <1>0, <2>4 DEF SkipEntry, ReadFile, CountTypes
    <3> QED
      BY <3>1
  <2>5. CASE ReadSubDir(w)
    <3>1. \/ entries' = [entries EXCEPT ![w] = {}]
          \/ \E e : entries' = [entries EXCEPT ![w] = entries[w] \ {e}]
      BY <1>0, <2>5 DEF ReadSubDir, Leave, CountTypes
    <3> QED
      BY <3>1
  <2> QED
    BY <2>1, <2>2, <2>3, <2>4, <2>5 DEF WorkerStep
<1>8. /\ entries' \in [Workers -> SUBSET Nodes]
      /\ \A v \in Workers \ {w} : entries'[v] = entries[v]
  BY <1>0, <1>7, ContentsAreNodes DEF CountTypes
<1>9. recorded' \in [Files -> Nat]
  <2>1. recorded' = recorded \/ \E f : recorded' = [recorded EXCEPT ![f] = @ + 1]
    BY DEF WorkerStep, NextDirectory, FinishDirectory, OpenDirectory, EndDirectory,
       SkipEntry, ReadSubDir, AddDirectory, ReadFile, RecordFile, KeepError, CancelScan,
       CloseAndLeave, report
  <2> QED
    BY <1>0, <2>1 DEF CountTypes
<1>10. \A v \in Workers \ {w} : found'[v] = found[v] /\ err'[v] = err[v]
  BY <1>0 DEF Types, Leave, WorkerStep, NextDirectory, FinishDirectory, OpenDirectory,
     EndDirectory, SkipEntry, ReadSubDir, AddDirectory, ReadFile, RecordFile, KeepError,
     CancelScan, CloseAndLeave
<1>11. \A v \in Workers \ {w} : wpc'[v] = wpc[v] \/ (wpc[v] = "asleep" /\ wpc'[v] = "next")
  <2>1. \/ wpc' = wpc
        \/ \E x : wpc' = [wpc EXCEPT ![w] = x]
        \/ \E x : \E some \in SUBSET Sleepers : wpc' = Wake([wpc EXCEPT ![w] = x], some)
    <3>1. CASE NextDirectory(w) \/ KeepError(w) \/ CancelScan(w)
      BY <3>1 DEF NextDirectory, KeepError, CancelScan
    <3>2. CASE OpenDirectory(w) \/ EndDirectory(w) \/ SkipEntry(w) \/ ReadFile(w)
      BY <3>2 DEF OpenDirectory, EndDirectory, SkipEntry, ReadFile, Leave
    <3>3. CASE ReadSubDir(w) \/ RecordFile(w)
      BY <3>3 DEF ReadSubDir, RecordFile, Leave
    <3>4. CASE FinishDirectory(w)
      BY <3>4 DEF FinishDirectory, Broadcast
    <3>5. CASE AddDirectory(w)
      BY <3>5 DEF AddDirectory, Leave, ToldOfAdd, Signal
    <3>6. CASE CloseAndLeave(w)
      BY <3>6 DEF CloseAndLeave, CloseQueue, Broadcast
    <3> QED
      BY <3>1, <3>2, <3>3, <3>4, <3>5, <3>6 DEF WorkerStep
  <2> QED
    BY <1>0, <2>1 DEF Types, Wake, Sleepers
<1>12. faults' \in Nat /\ faults' >= faults /\ ignored' \in Nat /\ ignored' >= ignored
  BY <1>0, <1>4, <1>5 DEF CountTypes
<1>13. WorkerFrame(w)
  BY <1>1, <1>2, <1>8, <1>10, <1>11, <1>12 DEF WorkerFrame, OthersRest
<1>14. err'[w] = err[w] \/ err[w] = "none"
  <2>1. \/ err' = err
        \/ wpc[w] \in {"next", "asleep", "open", "read", "add", "record"}
    BY DEF WorkerStep, NextDirectory, FinishDirectory, OpenDirectory, EndDirectory,
       SkipEntry, ReadSubDir, AddDirectory, ReadFile, RecordFile, KeepError, CancelScan,
       CloseAndLeave, worker
  <2> QED
    BY <1>0, <2>1 DEF HandInv
<1>15. ASSUME Flawless' PROVE Flawless
  <2>1. ignored = 0 /\ result \in {"none", "ok"}
    BY <1>0, <1>2, <1>12, <1>15 DEF Flawless, CountTypes
  <2>2. \A v \in Workers : err[v] = "none"
    BY <1>10, <1>14, <1>15 DEF Flawless
  <2> QED
    BY <2>1, <2>2 DEF Flawless
<1>16. dirCount' \in 0..MaxDirectories /\ fileCount' \in 0..MaxFiles
  BY <1>0, <1>6
<1> QED
  BY <1>3, <1>8, <1>9, <1>12, <1>13, <1>15, <1>16

(* What a step of the worker makes of the work it had in hand.               *)
LEMMA HandWork ==
  ASSUME IInv, LedgerInv, NEW w \in Workers, WorkerFrame(w), UNCHANGED dirs,
         found'[w] \in SUBSET Nodes, entries'[w] \in SUBSET Nodes,
         NEW T \in SUBSET Nodes
  PROVE  /\ Work(T)' + Cardinality(T \cap Handed(found[w]))
                + Cardinality(T \cap Covered(entries[w]))
              = Work(T) + Cardinality(T \cap Handed(found'[w]))
                + Cardinality(T \cap Covered(entries'[w]))
         /\ Work(T) \in Nat /\ Work(T)' \in Nat
         /\ Cardinality(T \cap Handed(found[w])) \in Nat
         /\ Cardinality(T \cap Covered(entries[w])) \in Nat
         /\ Cardinality(T \cap Handed(found'[w])) \in Nat
         /\ Cardinality(T \cap Covered(entries'[w])) \in Nat
<1>1. Types /\ found[w] \in SUBSET Nodes /\ entries[w] \in SUBSET Nodes
  BY DEF IInv, QueueInv, Types, LedgerInv, CountTypes, Nodes
<1>2. OthersKeep(w) /\ UNCHANGED <<main, roots, rootDirs, dirs>>
  BY DEF WorkerFrame, OthersRest, OthersKeep
<1>3. /\ Held(w) = Handed(found[w]) /\ Unread(w) = Covered(entries[w])
      /\ Held(w)' = Handed(found'[w]) /\ Unread(w)' = Covered(entries'[w])
  BY DEF Held, Unread, Handed, Covered
<1>4. /\ Held(w) \in SUBSET Nodes /\ Unread(w) \in SUBSET Nodes
      /\ Held(w)' \in SUBSET Nodes /\ Unread(w)' \in SUBSET Nodes
  BY <1>1, <1>3, HandsAreNodes
<1>5. /\ Work(T)' + Cardinality(T \cap Held(w)) + Cardinality(T \cap Unread(w))
              = Work(T) + Cardinality(T \cap Held(w)') + Cardinality(T \cap Unread(w)')
      /\ Work(T) \in Nat /\ Work(T)' \in Nat
      /\ Cardinality(T \cap Held(w)) \in Nat /\ Cardinality(T \cap Unread(w)) \in Nat
      /\ Cardinality(T \cap Held(w)') \in Nat /\ Cardinality(T \cap Unread(w)') \in Nat
  BY <1>1, <1>2, <1>4, WorkerWork
<1> QED
  BY <1>3, <1>5

LEMMA HandsRest ==
  ASSUME IInv, LedgerInv, NEW w \in Workers, WorkerFrame(w), UNCHANGED dirs,
         found'[w] = found[w], entries'[w] = entries[w], NEW T \in SUBSET Nodes
  PROVE  Loses(T)
<1>1. found[w] \in SUBSET Nodes /\ entries[w] \in SUBSET Nodes
  BY DEF IInv, QueueInv, Types, LedgerInv, CountTypes, Nodes
<1> DEFINE h == Cardinality(T \cap Handed(found[w]))
           u == Cardinality(T \cap Covered(entries[w]))
<1>2. /\ Work(T)' + h + u = Work(T) + h + u
      /\ Work(T) \in Nat /\ Work(T)' \in Nat /\ h \in Nat /\ u \in Nat
  BY <1>1, HandWork
<1> HIDE DEF h, u
<1> QED
  BY <1>2 DEF Loses

(* Leaving with work in hand is a flaw.                                      *)
LEMMA LeavingLoses ==
  ASSUME IInv, LedgerInv, NEW w \in Workers, WorkerFrame(w), UNCHANGED dirs,
         NEW e, Leave(w, e),
         e # "none" \/ ignored' # 0 \/ (found[w] = {} /\ entries[w] = {}),
         NEW T \in SUBSET Nodes
  PROVE  Loses(T)
<1>1. /\ found'[w] = {} /\ entries'[w] = {} /\ err'[w] = e
  BY DEF IInv, QueueInv, Types, LedgerInv, CountTypes, Leave
<1> DEFINE h == Cardinality(T \cap Handed(found[w]))
           u == Cardinality(T \cap Covered(entries[w]))
           h1 == Cardinality(T \cap Handed(found'[w]))
           u1 == Cardinality(T \cap Covered(entries'[w]))
<1>2. /\ Work(T)' + h + u = Work(T) + h1 + u1
      /\ Work(T) \in Nat /\ Work(T)' \in Nat /\ h \in Nat /\ u \in Nat
  BY <1>1, HandWork
<1>3. Handed({}) = {} /\ Covered({}) = {}
  BY HandsAreNodes
<1>4. h1 = 0 /\ u1 = 0
  BY <1>1, <1>3, NoneCounted
<1>5. found[w] = {} /\ entries[w] = {} => h = 0 /\ u = 0
  BY <1>3, NoneCounted
<1>6. Flawless' => found[w] = {} /\ entries[w] = {}
  BY <1>1 DEF Flawless
<1> HIDE DEF h, u, h1, u1
<1> QED
  BY <1>2, <1>4, <1>5, <1>6 DEF Loses

(* Something in hand or unread is counted.                                   *)
LEMMA WorkRemains ==
  ASSUME IInv, LedgerInv, NEW w \in Workers, NEW T \in SUBSET Nodes, NEW x \in T,
         x \in Held(w) \/ x \in Unread(w)
  PROVE  Work(T) \in Nat /\ Work(T) >= 1
<1> DEFINE a == Cardinality(HeldWork(T))
           b == Cardinality(UnreadWork(T))
           q == Cardinality(QueueOf(Waiting, T))
           r == Cardinality(RootWork(T))
<1>1. Types
  BY DEF IInv, QueueInv
<1>2. a \in Nat /\ b \in Nat /\ q \in Nat /\ r \in Nat /\ Work(T) = q + a + b + r
      /\ HeldWork(T) \in SUBSET (Workers \X T) /\ UnreadWork(T) \in SUBSET (Workers \X T)
  BY <1>1, WorkIsCounted DEF Work
<1>3. <<w, x>> \in HeldWork(T) \/ <<w, x>> \in UnreadWork(T)
  BY DEF HeldWork, UnreadWork
<1>4. IsFiniteSet(HeldWork(T)) /\ IsFiniteSet(UnreadWork(T))
  BY <1>2, PairsAreFinite, SurfaceScanAssumption
<1>5. a # 0 \/ b # 0
  BY <1>3, <1>4, FS_EmptySet
<1> HIDE DEF a, b, q, r
<1> QED
  BY <1>2, <1>5

LEMMA StillEarned ==
  ASSUME LedgerInv, NEW w \in Workers, WorkerFrame(w), NEW e \in Outcomes
  PROVE  Earned(e)
<1>1. TooMuch' = TooMuch
  BY DEF WorkerFrame, TooMuch, Visits
<1> QED
  BY <1>1 DEF LedgerInv, LimitsAreReal, Earned, WorkerFrame, CountTypes

(* The steps that leave hands, queue and counts alone.                       *)
LEMMA QuietLedger ==
  ASSUME IInv, LedgerInv, NEW w \in Workers, WorkerStep(w),
         \/ NextDirectory(w) /\ UNCHANGED <<dirs, found>>
         \/ FinishDirectory(w) \/ KeepError(w) \/ CancelScan(w) \/ CloseAndLeave(w)
  PROVE  LedgerInv'
<1>0. Types /\ CountTypes /\ HandInv(w)
  BY DEF IInv, QueueInv, LedgerInv
<1>1. /\ WorkerFrame(w) /\ main = "waiting" /\ result = "none"
      /\ ignored' \in Nat /\ entries' \in [Workers -> SUBSET Nodes]
      /\ recorded' \in [Files -> Nat]
      /\ dirCount' \in 0..MaxDirectories /\ fileCount' \in 0..MaxFiles
      /\ Flawless' => Flawless
  BY StepFrame
<1>2. /\ UNCHANGED <<dirs, found, entries, err, recorded, dirCount, fileCount, visited, result>>
      /\ scanErr' \in {scanErr, err[w]}
  <2>1. visited' = visited /\ result' = result
    BY <1>1 DEF WorkerFrame
  <2>2. CASE NextDirectory(w) /\ UNCHANGED <<dirs, found>>
    BY <2>1, <2>2 DEF NextDirectory, budget, report, failure
  <2>3. CASE FinishDirectory(w)
    BY <2>1, <2>3 DEF FinishDirectory, budget, report, failure
  <2>4. CASE KeepError(w)
    BY <2>1, <2>4 DEF KeepError, queue, budget, report, failure
  <2>5. CASE CancelScan(w) \/ CloseAndLeave(w)
    BY <2>1, <2>5 DEF CancelScan, CloseAndLeave, queue, budget, report, failure
  <2> QED
    BY <2>2, <2>3, <2>4, <2>5
<1>3. HandInv(w)'
  <2>1. found[w] = {} /\ entries[w] = {}
        /\ (wpc[w] = "next" => err[w] = "none")
    BY <1>0 DEF HandInv, NextDirectory, FinishDirectory, KeepError, CancelScan, CloseAndLeave
  <2>2. \/ wpc'[w] \in {"gone", "cancel", "close", "fail"}
        \/ wpc'[w] \in {"next", "asleep"} /\ err[w] = "none"
    <3>1. CASE NextDirectory(w) /\ UNCHANGED <<dirs, found>>
      <4>1. MustWait \/ Drained
        <5>1. CASE ~MustWait /\ ~Drained
          <6>1. found'[w] = {Last(dirs)}
            BY <1>0, <3>1, <5>1 DEF NextDirectory, Types
          <6> QED
            BY <2>1, <3>1, <6>1
        <5> QED
          BY <5>1
      <4> QED
        BY <1>0, <2>1, <3>1, <4>1 DEF NextDirectory, Types
    <3>2. CASE FinishDirectory(w)
      BY <1>0, <3>2 DEF FinishDirectory, Types, Broadcast, Wake, Sleepers
    <3>3. CASE KeepError(w) \/ CancelScan(w)
      BY <1>0, <3>3 DEF KeepError, CancelScan, Types
    <3>4. CASE CloseAndLeave(w)
      BY <1>0, <3>4 DEF CloseAndLeave, CloseQueue, Types, Broadcast, Wake, Sleepers
    <3> QED
      BY <3>1, <3>2, <3>3, <3>4
  <2> QED
    BY <1>0, <1>2, <2>1, <2>2 DEF HandInv
<1>4. Earned(err'[w]) /\ Earned(scanErr')
  <2>1. {scanErr, err[w]} \subseteq Outcomes
    BY DEF Outcomes
  <2> QED
    BY <1>1, <1>2, <2>1, StillEarned
<1>5. \A T \in SUBSET Nodes : Loses(T)
  BY <1>1, <1>2, HandsRest
<1>6. RecordsAddUp' /\ WithinRoots'
  BY <1>0, <1>1, <1>2, <1>5, CountsStay
<1> QED
  BY <1>1, <1>3, <1>4, <1>6, WorkerLedger

(* A worker leaves its directory: with an error, or with something ignored,  *)
(* or at the end.                                                            *)
LEMMA LeaveLedger ==
  ASSUME IInv, LedgerInv, NEW w \in Workers, WorkerStep(w),
         UNCHANGED <<dirs, recorded, dirCount, fileCount, scanErr>>,
         NEW e, Leave(w, e), Earned(e),
         e # "none" \/ ignored' # 0 \/ (found[w] = {} /\ entries[w] = {})
  PROVE  LedgerInv'
<1>0. Types /\ CountTypes /\ HandInv(w)
  BY DEF IInv, QueueInv, LedgerInv
<1>1. /\ WorkerFrame(w) /\ main = "waiting" /\ result = "none"
      /\ ignored' \in Nat /\ entries' \in [Workers -> SUBSET Nodes]
      /\ recorded' \in [Files -> Nat]
      /\ dirCount' \in 0..MaxDirectories /\ fileCount' \in 0..MaxFiles
      /\ Flawless' => Flawless
  BY StepFrame
<1>2. found'[w] = {} /\ entries'[w] = {} /\ err'[w] = e /\ wpc'[w] = "finish"
  BY <1>0 DEF Types, CountTypes, Leave
<1>3. HandInv(w)'
  BY <1>0, <1>2 DEF HandInv
<1>4. Earned(err'[w]) /\ Earned(scanErr')
  <2>1. scanErr \in Outcomes
    BY DEF Outcomes
  <2> QED
    BY <1>1, <1>2, <2>1, StillEarned
<1>5. \A T \in SUBSET Nodes : Loses(T)
  BY <1>1, LeavingLoses
<1>6. visited' = visited /\ result' = result
  BY <1>1 DEF WorkerFrame
<1>7. RecordsAddUp' /\ WithinRoots'
  BY <1>0, <1>1, <1>5, <1>6, CountsStay
<1> QED
  BY <1>1, <1>3, <1>4, <1>7, WorkerLedger

LEMMA ErrorsStay ==
  ASSUME LedgerInv, NEW w \in Workers, WorkerFrame(w), UNCHANGED <<err, scanErr>>
  PROVE  Earned(err'[w]) /\ Earned(scanErr')
<1>1. {scanErr, err[w]} \subseteq Outcomes
  BY DEF Outcomes
<1> QED
  BY <1>1, StillEarned

LEMMA LeavingSteps ==
  ASSUME IInv, LedgerInv, NEW w \in Workers,
         \/ EndDirectory(w)
         \/ OpenDirectory(w) /\ wpc'[w] = "finish"
         \/ AddDirectory(w) /\ closed
  PROVE  LedgerInv'
<1>0. Types /\ CountTypes /\ HandInv(w) /\ FailInv
  BY DEF IInv, QueueInv, LedgerInv
<1>1. WorkerStep(w)
  BY DEF WorkerStep
<1>2. UNCHANGED <<dirs, recorded, dirCount, fileCount, scanErr>>
  BY DEF EndDirectory, OpenDirectory, AddDirectory, queue, budget, report, failure
<1>3. Earned("none") /\ Earned("cancelled") /\ (faults' > 0 => Earned("root-changed"))
  BY DEF Earned
<1>4. (Fail => faults' > 0) /\ (Ignore => ignored' # 0)
  BY <1>0 DEF Fail, Ignore, CountTypes
<1>5. \E e : /\ Leave(w, e) /\ Earned(e)
             /\ e # "none" \/ ignored' # 0 \/ (found[w] = {} /\ entries[w] = {})
  <2>1. CASE EndDirectory(w)
    <3>1. found[w] = {}
      BY <1>0, <2>1 DEF HandInv, EndDirectory
    <3> QED
      BY <1>3, <1>4, <2>1, <3>1 DEF EndDirectory
  <2>2. CASE OpenDirectory(w) /\ wpc'[w] = "finish"
    <3>1. wpc' # [wpc EXCEPT ![w] = "read"]
      BY <1>0, <2>2 DEF Types
    <3> QED
      BY <1>3, <1>4, <2>2, <3>1 DEF OpenDirectory
  <2>3. CASE AddDirectory(w) /\ closed
    <3>1. scanDone
      BY <1>0, <2>3 DEF FailInv
    <3>2. Leave(w, "cancelled")
      BY <2>3, <3>1 DEF AddDirectory
    <3> QED
      BY <1>3, <3>2
  <2> QED
    BY <2>1, <2>2, <2>3
<1> QED
  BY <1>1, <1>2, <1>5, LeaveLedger

LEMMA OpenLedger ==
  ASSUME IInv, LedgerInv, NEW w \in Workers, OpenDirectory(w)
  PROVE  LedgerInv'
<1>0. Types /\ CountTypes /\ HandInv(w)
  BY DEF IInv, QueueInv, LedgerInv
<1>1. CASE wpc'[w] = "finish"
  BY <1>1, LeavingSteps
<1>2. CASE wpc'[w] # "finish"
  <2>1. /\ WorkerFrame(w) /\ main = "waiting" /\ result = "none"
        /\ ignored' \in Nat /\ entries' \in [Workers -> SUBSET Nodes]
        /\ recorded' \in [Files -> Nat]
        /\ dirCount' \in 0..MaxDirectories /\ fileCount' \in 0..MaxFiles
        /\ Flawless' => Flawless
    BY StepFrame DEF WorkerStep
  <2>2. /\ wpc[w] = "open" /\ UNCHANGED <<dirs, recorded, dirCount, fileCount, scanErr>>
    BY DEF OpenDirectory, queue, budget, failure
  <2>3. PICK d \in Dirs : found[w] = {d}
    BY <1>0, <2>2 DEF HandInv
  <2>4. /\ entries'[w] = Contents(d) /\ found'[w] = {} /\ wpc'[w] = "read" /\ err' = err
    <3>1. \A e : Leave(w, e) => wpc'[w] = "finish"
      BY <1>0 DEF Leave, Types
    <3> QED
      BY <1>0, <1>2, <2>3, <3>1 DEF OpenDirectory, Types, CountTypes
  <2>5. HandInv(w)'
    BY <1>0, <2>2, <2>4 DEF HandInv
  <2>6. entries[w] = {}
    BY <1>0, <2>2 DEF HandInv
  <2>7. ASSUME NEW T \in SUBSET Nodes PROVE Loses(T)
    <3> DEFINE h == Cardinality(T \cap Handed(found[w]))
               u == Cardinality(T \cap Covered(entries[w]))
               h1 == Cardinality(T \cap Handed(found'[w]))
               u1 == Cardinality(T \cap Covered(entries'[w]))
    <3>1. found'[w] \in SUBSET Nodes /\ entries'[w] \in SUBSET Nodes /\ d \in Nodes
      BY <2>4, BelowContents
    <3>2. /\ Work(T)' + h + u = Work(T) + h1 + u1
          /\ Work(T) \in Nat /\ Work(T)' \in Nat /\ h \in Nat /\ u \in Nat
      BY <2>1, <2>2, <3>1, HandWork
    <3>3. Handed({}) = {} /\ Covered({}) = {} /\ Handed({d}) = Claimed(d)
      BY <3>1, HandsAreNodes
    <3>4. Claimed(d) = Covered(Contents(d))
      BY BelowContents DEF Covered
    <3>5. h = u1
      BY <2>3, <2>4, <3>3, <3>4
    <3>6. u = 0 /\ h1 = 0
      BY <2>4, <2>6, <3>3, NoneCounted
    <3> HIDE DEF h, u, h1, u1
    <3> QED
      BY <3>2, <3>5, <3>6 DEF Loses
  <2>8. visited' = visited /\ result' = result
    BY <2>1 DEF WorkerFrame
  <2>9. RecordsAddUp' /\ WithinRoots'
    BY <1>0, <2>1, <2>2, <2>7, <2>8, CountsStay
  <2>10. Earned(err'[w]) /\ Earned(scanErr')
    BY <2>1, <2>2, <2>4, ErrorsStay
  <2> QED
    BY <2>1, <2>5, <2>9, <2>10, WorkerLedger
<1> QED
  BY <1>1, <1>2

LEMMA SkipLedger ==
  ASSUME IInv, LedgerInv, NEW w \in Workers, SkipEntry(w)
  PROVE  LedgerInv'
<1>0. Types /\ CountTypes /\ HandInv(w)
  BY DEF IInv, QueueInv, LedgerInv
<1>1. /\ WorkerFrame(w) /\ main = "waiting" /\ result = "none"
      /\ ignored' \in Nat /\ entries' \in [Workers -> SUBSET Nodes]
      /\ recorded' \in [Files -> Nat]
      /\ dirCount' \in 0..MaxDirectories /\ fileCount' \in 0..MaxFiles
      /\ Flawless' => Flawless
  BY StepFrame DEF WorkerStep
<1>2. PICK e \in entries[w] : entries'[w] = entries[w] \ {e}
  BY <1>0 DEF SkipEntry, CountTypes
<1>3. /\ UNCHANGED <<dirs, recorded, dirCount, fileCount, scanErr, err, wpc, found>>
      /\ wpc[w] = "read" /\ ignored' # 0
  BY <1>0 DEF SkipEntry, queue, budget, failure, Ignore, CountTypes
<1>4. PICK d \in Dirs : entries[w] \subseteq Contents(d)
  BY <1>0, <1>2 DEF HandInv
<1>5. HandInv(w)'
  <2>1. entries'[w] \subseteq Contents(d)
    BY <1>2, <1>4
  <2> QED
    BY <1>0, <1>3, <2>1 DEF HandInv
<1>6. ASSUME NEW T \in SUBSET Nodes PROVE Loses(T)
  <2> DEFINE h == Cardinality(T \cap Handed(found[w]))
             u == Cardinality(T \cap Covered(entries[w]))
             u1 == Cardinality(T \cap Covered(entries'[w]))
             b == Cardinality(T \cap Below[e])
  <2>1. found'[w] \in SUBSET Nodes /\ entries'[w] \in SUBSET Nodes /\ found'[w] = found[w]
    BY <1>0, <1>1, <1>3 DEF Types, Nodes
  <2>2. /\ Work(T)' + h + u = Work(T) + h + u1
        /\ Work(T) \in Nat /\ Work(T)' \in Nat /\ h \in Nat /\ u \in Nat /\ u1 \in Nat
    BY <1>1, <1>3, <2>1, HandWork
  <2>3. u = u1 + b /\ b \in Nat
    <3>1. entries'[w] = entries[w] \ {e}
      BY <1>2
    <3>2. /\ u = Cardinality(T \cap Covered(entries[w] \ {e})) + b
          /\ b \in Nat
      <4> DEFINE X == entries[w]
      <4>1. X \subseteq Contents(d) /\ e \in X
        BY <1>2, <1>4
      <4> HIDE DEF X
      <4>2. /\ Cardinality(T \cap Covered(X))
                 = Cardinality(T \cap Covered(X \ {e})) + b
            /\ b \in Nat
        BY <4>1, EntryShare
      <4> QED
        BY <4>2 DEF X
    <3>3. u1 = Cardinality(T \cap Covered(entries[w] \ {e}))
      BY <3>1
    <3> HIDE DEF u, u1, b
    <3> QED
      BY <3>2, <3>3
  <2>4. ~Flawless'
    BY <1>3 DEF Flawless
  <2> HIDE DEF h, u, u1, b
  <2> QED
    BY <2>2, <2>3, <2>4 DEF Loses
<1>7. visited' = visited /\ result' = result
  BY <1>1 DEF WorkerFrame
<1>8. RecordsAddUp' /\ WithinRoots'
  BY <1>0, <1>1, <1>3, <1>6, <1>7, CountsStay
<1>9. Earned(err'[w]) /\ Earned(scanErr')
  BY <1>1, <1>3, ErrorsStay
<1> QED
  BY <1>1, <1>5, <1>8, <1>9, WorkerLedger

LEMMA ReadFileLedger ==
  ASSUME IInv, LedgerInv, NEW w \in Workers, ReadFile(w)
  PROVE  LedgerInv'
<1>0. Types /\ CountTypes /\ HandInv(w)
  BY DEF IInv, QueueInv, LedgerInv
<1>1. /\ WorkerFrame(w) /\ main = "waiting" /\ result = "none"
      /\ ignored' \in Nat /\ entries' \in [Workers -> SUBSET Nodes]
      /\ recorded' \in [Files -> Nat]
      /\ dirCount' \in 0..MaxDirectories /\ fileCount' \in 0..MaxFiles
      /\ Flawless' => Flawless
  BY StepFrame DEF WorkerStep
<1>2. PICK f \in entries[w] \cap Files :
        entries'[w] = entries[w] \ {f} /\ found'[w] = {f}
  BY <1>0 DEF ReadFile, CountTypes, Types
<1>3. /\ UNCHANGED <<dirs, recorded, dirCount, fileCount, scanErr, err>>
      /\ wpc[w] = "read" /\ wpc'[w] = "record" /\ found[w] = {}
  BY <1>0 DEF ReadFile, queue, budget, report, failure, Types, HandInv
<1>4. PICK d \in Dirs : entries[w] \subseteq Contents(d)
  BY <1>0, <1>2 DEF HandInv
<1>5. HandInv(w)'
  <2>1. entries'[w] \subseteq Contents(d)
    BY <1>2, <1>4
  <2> QED
    BY <1>0, <1>2, <1>3, <2>1 DEF HandInv
<1>6. ASSUME NEW T \in SUBSET Nodes PROVE Loses(T)
  <2> DEFINE h == Cardinality(T \cap Handed(found[w]))
             u == Cardinality(T \cap Covered(entries[w]))
             h1 == Cardinality(T \cap Handed(found'[w]))
             u1 == Cardinality(T \cap Covered(entries'[w]))
             b == Cardinality(T \cap Below[f])
  <2>1. found'[w] \in SUBSET Nodes /\ entries'[w] \in SUBSET Nodes /\ f \in Nodes
    BY <1>1, <1>2 DEF Nodes
  <2>2. /\ Work(T)' + h + u = Work(T) + h1 + u1
        /\ Work(T) \in Nat /\ Work(T)' \in Nat /\ h \in Nat /\ u \in Nat /\ u1 \in Nat
    BY <1>1, <1>3, <2>1, HandWork
  <2>3. u = u1 + b /\ b \in Nat
    <3>1. entries'[w] = entries[w] \ {f} /\ f \in entries[w]
      BY <1>2
    <3>2. /\ u = Cardinality(T \cap Covered(entries[w] \ {f})) + b
          /\ b \in Nat
      <4> DEFINE X == entries[w]
      <4>1. X \subseteq Contents(d) /\ f \in X
        BY <1>4, <3>1
      <4> HIDE DEF X
      <4>2. /\ Cardinality(T \cap Covered(X))
                 = Cardinality(T \cap Covered(X \ {f})) + b
            /\ b \in Nat
        BY <4>1, EntryShare
      <4> QED
        BY <4>2 DEF X
    <3>3. u1 = Cardinality(T \cap Covered(entries[w] \ {f}))
      BY <3>1
    <3> HIDE DEF u, u1, b
    <3> QED
      BY <3>2, <3>3
  <2>4. h = 0 /\ h1 = b
    <3>1. Handed({}) = {} /\ Handed({f}) = Claimed(f) /\ Claimed(f) = {f} /\ Below[f] = {f}
      BY <1>2, <2>1, HandsAreNodes, ClaimedFacts
    <3> QED
      BY <1>2, <1>3, <3>1, NoneCounted
  <2> HIDE DEF h, u, h1, u1, b
  <2> QED
    BY <2>2, <2>3, <2>4 DEF Loses
<1>7. visited' = visited /\ result' = result
  BY <1>1 DEF WorkerFrame
<1>8. RecordsAddUp' /\ WithinRoots'
  BY <1>0, <1>1, <1>3, <1>6, <1>7, CountsStay
<1>9. Earned(err'[w]) /\ Earned(scanErr')
  BY <1>1, <1>3, ErrorsStay
<1> QED
  BY <1>1, <1>5, <1>8, <1>9, WorkerLedger

(* A limit is met only with more than the limit in sight.                    *)
LEMMA LimitIsReal ==
  ASSUME IInv, LedgerInv, NEW w \in Workers, WorkerFrame(w), result = "none",
         NEW x, x \in Held(w) \/ x \in Unread(w),
         \/ x \in Dirs /\ dirCount >= MaxDirectories
         \/ x \in Files /\ fileCount >= MaxFiles
  PROVE  Earned("limit")
<1>0. CountTypes /\ WithinRoots
  BY DEF LedgerInv
<1>1. Dirs \in SUBSET Nodes /\ Files \in SUBSET Nodes
  BY DEF Nodes
<1>2. /\ fileCount + Work(Files) <= Visits(Files) /\ dirCount + Work(Dirs) <= Visits(Dirs)
      /\ Visits(Files) \in Nat /\ Visits(Dirs) \in Nat /\ dirCount \in Nat /\ fileCount \in Nat
  BY <1>0, <1>1, VisitsAreCounted DEF WithinRoots, CountTypes
<1>3. MaxDirectories \in Nat /\ MaxFiles \in Nat
  BY SurfaceScanAssumption
<1>4. TooMuch
  <2>1. CASE x \in Dirs /\ dirCount >= MaxDirectories
    <3>1. Work(Dirs) \in Nat /\ Work(Dirs) >= 1
      BY <1>1, <2>1, WorkRemains
    <3> QED
      BY <1>2, <1>3, <2>1, <3>1 DEF TooMuch
  <2>2. CASE x \in Files /\ fileCount >= MaxFiles
    <3>1. Work(Files) \in Nat /\ Work(Files) >= 1
      BY <1>1, <2>2, WorkRemains
    <3> QED
      BY <1>2, <1>3, <2>2, <3>1 DEF TooMuch
  <2> QED
    BY <2>1, <2>2
<1>5. TooMuch' = TooMuch
  BY DEF WorkerFrame, TooMuch, Visits
<1> QED
  BY <1>4, <1>5 DEF Earned

LEMMA ReadSubDirLedger ==
  ASSUME IInv, LedgerInv, NEW w \in Workers, ReadSubDir(w)
  PROVE  LedgerInv'
<1>0. Types /\ CountTypes /\ HandInv(w)
  BY DEF IInv, QueueInv, LedgerInv
<1>1. /\ WorkerFrame(w) /\ main = "waiting" /\ result = "none"
      /\ ignored' \in Nat /\ entries' \in [Workers -> SUBSET Nodes]
      /\ recorded' \in [Files -> Nat]
      /\ dirCount' \in 0..MaxDirectories /\ fileCount' \in 0..MaxFiles
      /\ Flawless' => Flawless
  BY StepFrame DEF WorkerStep
<1>2. /\ UNCHANGED <<dirs, recorded, fileCount, scanErr, ignored>>
      /\ wpc[w] = "read" /\ found[w] = {}
  BY <1>0 DEF ReadSubDir, queue, report, failure, HandInv
<1>3. PICK d \in entries[w] \cap Dirs :
        \/ dirCount >= MaxDirectories /\ Leave(w, "limit") /\ UNCHANGED dirCount
        \/ /\ dirCount' = dirCount + 1
           /\ entries' = [entries EXCEPT ![w] = @ \ {d}]
           /\ found' = [found EXCEPT ![w] = {d}]
           /\ wpc' = [wpc EXCEPT ![w] = "add"]
           /\ UNCHANGED err
  BY DEF ReadSubDir, Full
<1>4. CASE dirCount >= MaxDirectories /\ Leave(w, "limit") /\ UNCHANGED dirCount
  <2>1. d \in Unread(w)
    <3>1. d \in Nodes /\ d \in entries[w]
      BY <1>3 DEF Nodes
    <3> QED
      BY <3>1, BelowFacts DEF Unread, Covered
  <2>2. Earned("limit")
    BY <1>1, <1>3, <1>4, <2>1, LimitIsReal
  <2>3. WorkerStep(w)
    BY DEF WorkerStep
  <2> QED
    BY <1>2, <1>4, <2>2, <2>3, LeaveLedger
<1>5. CASE /\ dirCount' = dirCount + 1
           /\ entries' = [entries EXCEPT ![w] = @ \ {d}]
           /\ found' = [found EXCEPT ![w] = {d}]
           /\ wpc' = [wpc EXCEPT ![w] = "add"]
           /\ UNCHANGED err
  <2>1. PICK p \in Dirs : entries[w] \subseteq Contents(p)
    BY <1>0, <1>3 DEF HandInv
  <2>2. /\ entries'[w] = entries[w] \ {d} /\ d \in entries[w] /\ d \in Dirs
        /\ found'[w] = {d} /\ wpc'[w] = "add" /\ d \in Nodes
    BY <1>0, <1>3, <1>5 DEF Types, CountTypes, Nodes
  <2>3. HandInv(w)'
    <3>1. entries'[w] \subseteq Contents(p)
      BY <2>1, <2>2
    <3> QED
      BY <1>0, <1>2, <1>5, <2>2, <3>1 DEF HandInv
  <2>4. ASSUME NEW T \in SUBSET Nodes PROVE Spends(d, T)
    <3> DEFINE h == Cardinality(T \cap Handed(found[w]))
               u == Cardinality(T \cap Covered(entries[w]))
               h1 == Cardinality(T \cap Handed(found'[w]))
               u1 == Cardinality(T \cap Covered(entries'[w]))
               b == Cardinality(T \cap Below[d])
               c == Cardinality(T \cap {d})
    <3>1. found'[w] \in SUBSET Nodes /\ entries'[w] \in SUBSET Nodes
      BY <1>1, <2>2
    <3>2. /\ Work(T)' + h + u = Work(T) + h1 + u1
          /\ Work(T) \in Nat /\ Work(T)' \in Nat /\ h \in Nat /\ u \in Nat /\ u1 \in Nat
          /\ h1 \in Nat
      BY <1>1, <1>2, <3>1, HandWork
    <3>3. u = u1 + b /\ b \in Nat
      <4>1. entries'[w] = entries[w] \ {d} /\ d \in entries[w]
        BY <2>2
      <4>2. /\ u = Cardinality(T \cap Covered(entries[w] \ {d})) + b
            /\ b \in Nat
        <5> DEFINE X == entries[w]
        <5>1. X \subseteq Contents(p) /\ d \in X
          BY <2>1, <4>1
        <5> HIDE DEF X
        <5>2. /\ Cardinality(T \cap Covered(X))
                   = Cardinality(T \cap Covered(X \ {d})) + b
              /\ b \in Nat
          BY <5>1, EntryShare
        <5> QED
          BY <5>2 DEF X
      <4>3. u1 = Cardinality(T \cap Covered(entries[w] \ {d}))
        BY <4>1
      <4> HIDE DEF u, u1, b
      <4> QED
        BY <4>2, <4>3
    <3>4. b = h1 + c
      <4>1. /\ Below[d] = Claimed(d) \cup {d} /\ Claimed(d) \cap {d} = {}
            /\ Claimed(d) \in SUBSET Nodes /\ {d} \in SUBSET Nodes
        BY <2>2, ClaimedFacts
      <4>2. Handed(found'[w]) = Claimed(d)
        BY <2>2, <3>1, HandsAreNodes
      <4>3. Cardinality(T \cap (Claimed(d) \cup {d}))
              = Cardinality(T \cap Claimed(d)) + Cardinality(T \cap {d})
        BY <4>1, Split
      <4> QED
        BY <4>1, <4>2, <4>3
    <3>5. h = 0 /\ c = IF d \in T THEN 1 ELSE 0
      <4>1. Handed({}) = {}
        BY HandsAreNodes
      <4> QED
        BY <1>2, <4>1, NoneCounted, OneOrNone
    <3> HIDE DEF h, u, h1, u1, b, c
    <3> QED
      BY <3>2, <3>3, <3>4, <3>5 DEF Spends
  <2>5. visited' = visited /\ result' = result
    BY <1>1 DEF WorkerFrame
  <2>6. RecordsAddUp' /\ WithinRoots'
    BY <1>0, <1>2, <1>5, <2>2, <2>4, <2>5, DirLedger
  <2>7. Earned(err'[w]) /\ Earned(scanErr')
    BY <1>1, <1>2, <1>5, ErrorsStay
  <2> QED
    BY <1>1, <2>3, <2>6, <2>7, WorkerLedger
<1> QED
  BY <1>3, <1>4, <1>5

LEMMA RecordFileLedger ==
  ASSUME IInv, LedgerInv, NEW w \in Workers, RecordFile(w)
  PROVE  LedgerInv'
<1>0. Types /\ CountTypes /\ HandInv(w)
  BY DEF IInv, QueueInv, LedgerInv
<1>1. /\ WorkerFrame(w) /\ main = "waiting" /\ result = "none"
      /\ ignored' \in Nat /\ entries' \in [Workers -> SUBSET Nodes]
      /\ recorded' \in [Files -> Nat]
      /\ dirCount' \in 0..MaxDirectories /\ fileCount' \in 0..MaxFiles
      /\ Flawless' => Flawless
  BY StepFrame DEF WorkerStep
<1>2. /\ UNCHANGED <<dirs, dirCount, scanErr>> /\ wpc[w] = "record"
  BY DEF RecordFile, queue, failure
<1>3. PICK f \in Files : found[w] = {f}
  BY <1>0, <1>2 DEF HandInv
<1>4. visited' = visited /\ result' = result
  BY <1>1 DEF WorkerFrame
<1>5. CASE /\ UNCHANGED <<recorded, fileCount>>
           /\ \/ Leave(w, "root-changed") /\ Fail
              \/ Leave(w, "limit") /\ fileCount >= MaxFiles
  <2>1. Leave(w, "limit") /\ fileCount >= MaxFiles => Earned("limit")
    <3>1. f \in Held(w)
      BY <1>3, ClaimedFacts DEF Held, Handed, Nodes
    <3> QED
      BY <1>1, <3>1, LimitIsReal
  <2>2. Fail => Earned("root-changed")
    BY <1>0 DEF Fail, Earned, CountTypes
  <2>3. WorkerStep(w)
    BY DEF WorkerStep
  <2> QED
    BY <1>2, <1>5, <2>1, <2>2, <2>3, LeaveLedger
<1>6. CASE /\ wpc' = [wpc EXCEPT ![w] = "read"]
           /\ found' = [found EXCEPT ![w] = {}]
           /\ UNCHANGED <<entries, err>>
           /\ \/ Ignore /\ UNCHANGED <<recorded, fileCount>>
              \/ /\ fileCount' = fileCount + 1 /\ UNCHANGED ignored
                 /\ recorded' = [recorded EXCEPT ![f] = @ + 1]
  <2>1. /\ found'[w] = {} /\ entries'[w] = entries[w] /\ wpc'[w] = "read" /\ err' = err
    BY <1>0, <1>6 DEF Types
  <2>2. HandInv(w)'
    BY <1>0, <1>2, <2>1 DEF HandInv
  <2>3. Earned(err'[w]) /\ Earned(scanErr')
    BY <1>1, <1>2, <2>1, ErrorsStay
  <2>4. ASSUME NEW T \in SUBSET Nodes PROVE Spends(f, T) /\ Work(T)' <= Work(T)
    <3> DEFINE h == Cardinality(T \cap Handed(found[w]))
               u == Cardinality(T \cap Covered(entries[w]))
               h1 == Cardinality(T \cap Handed(found'[w]))
               c == Cardinality(T \cap {f})
    <3>1. found'[w] \in SUBSET Nodes /\ entries'[w] \in SUBSET Nodes
      BY <1>1, <2>1
    <3>2. /\ Work(T)' + h + u = Work(T) + h1 + u
          /\ Work(T) \in Nat /\ Work(T)' \in Nat /\ h \in Nat /\ u \in Nat
      BY <1>1, <1>2, <2>1, <3>1, HandWork
    <3>3. h1 = 0 /\ h = c /\ c = IF f \in T THEN 1 ELSE 0
      <4>1. f \in Nodes /\ {f} \in SUBSET Nodes
        BY DEF Nodes
      <4>2. Handed({}) = {} /\ Handed({f}) = Claimed(f) /\ Claimed(f) = {f}
        BY <4>1, HandsAreNodes, ClaimedFacts
      <4> QED
        BY <1>3, <2>1, <4>2, NoneCounted, OneOrNone
    <3> HIDE DEF h, u, h1, c
    <3> QED
      BY <3>2, <3>3 DEF Spends
  <2>5. RecordsAddUp' /\ WithinRoots'
    <3>1. CASE Ignore /\ UNCHANGED <<recorded, fileCount>>
      <4>1. ~Flawless'
        BY <1>0, <3>1 DEF Ignore, Flawless, CountTypes
      <4>2. \A T \in SUBSET Nodes : Loses(T)
        BY <2>4, <4>1 DEF Spends, Loses
      <4> QED
        BY <1>0, <1>1, <1>2, <1>4, <3>1, <4>2, CountsStay
    <3>2. CASE /\ fileCount' = fileCount + 1 /\ UNCHANGED ignored
               /\ recorded' = [recorded EXCEPT ![f] = @ + 1]
      BY <1>0, <1>2, <1>4, <2>1, <2>4, <3>2, FileLedger
    <3> QED
      BY <1>6, <3>1, <3>2
  <2> QED
    BY <1>1, <2>2, <2>3, <2>5, WorkerLedger
<1>7. \/ /\ UNCHANGED <<recorded, fileCount>>
         /\ \/ Leave(w, "root-changed") /\ Fail
            \/ Leave(w, "limit") /\ fileCount >= MaxFiles
      \/ /\ wpc' = [wpc EXCEPT ![w] = "read"]
         /\ found' = [found EXCEPT ![w] = {}]
         /\ UNCHANGED <<entries, err>>
         /\ \/ Ignore /\ UNCHANGED <<recorded, fileCount>>
            \/ /\ fileCount' = fileCount + 1 /\ UNCHANGED ignored
               /\ recorded' = [recorded EXCEPT ![f] = @ + 1]
  BY <1>3 DEF RecordFile, Full
<1> QED
  BY <1>5, <1>6, <1>7

(* A directory goes from the worker to the queue, and back to a worker.      *)
LEMMA AddLedger ==
  ASSUME IInv, LedgerInv, NEW w \in Workers, AddDirectory(w)
  PROVE  LedgerInv'
<1>0. Types /\ CountTypes /\ HandInv(w)
  BY DEF IInv, QueueInv, LedgerInv
<1>1. CASE closed
  BY <1>1, LeavingSteps
<1>2. CASE ~closed
  <2>1. /\ WorkerFrame(w) /\ main = "waiting" /\ result = "none"
        /\ ignored' \in Nat /\ entries' \in [Workers -> SUBSET Nodes]
        /\ recorded' \in [Files -> Nat]
        /\ dirCount' \in 0..MaxDirectories /\ fileCount' \in 0..MaxFiles
        /\ Flawless' => Flawless
    BY StepFrame DEF WorkerStep
  <2>2. /\ UNCHANGED <<recorded, dirCount, fileCount, scanErr, entries, err>>
        /\ wpc[w] = "add"
    BY <1>2 DEF AddDirectory, budget, report, failure
  <2>3. PICK d \in Dirs : found[w] = {d}
    BY <1>0, <2>2 DEF HandInv
  <2>4. dirs' = Append(dirs, d) /\ found'[w] = {} /\ wpc'[w] = "read"
    <3>1. w \notin Sleepers
      BY <2>2 DEF Sleepers
    <3> QED
      BY <1>0, <1>2, <2>3, <3>1 DEF AddDirectory, ToldOfAdd, Signal, Wake, Types
  <2>5. HandInv(w)'
    BY <1>0, <2>2, <2>4 DEF HandInv
  <2>6. Earned(err'[w]) /\ Earned(scanErr')
    BY <2>1, <2>2, ErrorsStay
  <2>7. ASSUME NEW T \in SUBSET Nodes PROVE Loses(T)
    <3> DEFINE h == Cardinality(T \cap Held(w))
               u == Cardinality(T \cap Unread(w))
               h1 == Cardinality(T \cap Held(w)')
               u1 == Cardinality(T \cap Unread(w)')
               q == Cardinality(QueueOf(Waiting, T))
               q1 == Cardinality(QueueOf(Waiting, T))'
               c == Cardinality(T \cap Claimed(d))
    <3>1. Waiting = dirs /\ Waiting' = Append(dirs, d)
      BY <2>1, <2>4 DEF Waiting, Early, WorkerFrame
    <3>2. q1 = q + c /\ q \in Nat /\ c \in Nat
      <4>1. /\ Cardinality(QueueOf(Append(dirs, d), T)) = Cardinality(QueueOf(dirs, T)) + c
            /\ Cardinality(QueueOf(dirs, T)) \in Nat
        BY <1>0, QueueGrows DEF Types
      <4>2. QueueOf(Waiting, T)' = QueueOf(Append(dirs, d), T)
        BY <3>1 DEF QueueOf
      <4> QED
        BY <3>1, <4>1, <4>2, NodesAreFinite
    <3>3. /\ Held(w) = Claimed(d) /\ Held(w)' = {} /\ Unread(w)' = Unread(w)
          /\ Held(w) \in SUBSET Nodes /\ Unread(w) \in SUBSET Nodes
      <4>1. d \in Nodes /\ {d} \in SUBSET Nodes /\ entries[w] \in SUBSET Nodes
        BY <1>0 DEF Nodes, CountTypes
      <4>2. Handed({d}) = Claimed(d) /\ Handed({d}) \in SUBSET Nodes /\ Handed({}) = {}
            /\ Covered(entries[w]) \in SUBSET Nodes
        BY <4>1, HandsAreNodes
      <4> QED
        BY <2>2, <2>3, <2>4, <4>2 DEF Held, Unread
    <3>4. OthersKeep(w) /\ UNCHANGED <<main, roots>>
      BY <2>1 DEF OthersKeep, WorkerFrame, OthersRest
    <3>5. q1 \in Nat
      BY <3>2
    <3>6. /\ Work(T)' + h + u + q = Work(T) + h1 + u1 + q1
          /\ Work(T) \in Nat /\ Work(T)' \in Nat
          /\ u \in Nat
      BY <1>0, <3>3, <3>4, <3>5, WorkMoves
    <3>7. h = c /\ h1 = 0 /\ u1 = u
      BY <3>3, NoneCounted
    <3> HIDE DEF h, u, h1, u1, q, q1, c
    <3>8. Work(T)' = Work(T)
      BY <3>2, <3>6, <3>7
    <3> QED
      BY <3>6, <3>8 DEF Loses
  <2>8. visited' = visited /\ result' = result
    BY <2>1 DEF WorkerFrame
  <2>9. RecordsAddUp' /\ WithinRoots'
    BY <1>0, <2>1, <2>2, <2>7, <2>8, CountsStay
  <2> QED
    BY <2>1, <2>5, <2>6, <2>9, WorkerLedger
<1> QED
  BY <1>1, <1>2

LEMMA NextLedger ==
  ASSUME IInv, LedgerInv, NEW w \in Workers, NextDirectory(w)
  PROVE  LedgerInv'
<1>0. Types /\ CountTypes /\ HandInv(w)
  BY DEF IInv, QueueInv, LedgerInv
<1>1. CASE MustWait \/ Drained
  <2>1. UNCHANGED <<dirs, found>> /\ WorkerStep(w)
    BY <1>1 DEF NextDirectory, WorkerStep
  <2> QED
    BY <2>1, QuietLedger
<1>2. CASE ~MustWait /\ ~Drained
  <2>1. /\ WorkerFrame(w) /\ main = "waiting" /\ result = "none"
        /\ ignored' \in Nat /\ entries' \in [Workers -> SUBSET Nodes]
        /\ recorded' \in [Files -> Nat]
        /\ dirCount' \in 0..MaxDirectories /\ fileCount' \in 0..MaxFiles
        /\ Flawless' => Flawless
    BY StepFrame DEF WorkerStep
  <2>2. /\ UNCHANGED <<recorded, dirCount, fileCount, scanErr, entries, err>>
        /\ wpc[w] = "next" /\ found[w] = {}
    BY <1>0 DEF NextDirectory, budget, report, failure, HandInv
  <2> DEFINE d == Last(dirs)
  <2>3. dirs # <<>> /\ dirs \in Seq(Dirs) /\ d \in Dirs
    <3>1. dirs # <<>> /\ dirs \in Seq(Dirs)
      BY <1>0, <1>2 DEF MustWait, Drained, Types
    <3>2. Len(dirs) \in 1..Len(dirs)
      BY <3>1, EmptySeq
    <3> QED
      BY <3>1, <3>2 DEF Last
  <2>4. dirs' = Front(dirs) /\ found'[w] = {d} /\ wpc'[w] = "open"
    BY <1>0, <1>2 DEF NextDirectory, Types
  <2>5. HandInv(w)'
    BY <1>0, <2>2, <2>3, <2>4 DEF HandInv
  <2>6. Earned(err'[w]) /\ Earned(scanErr')
    BY <2>1, <2>2, ErrorsStay
  <2>7. ASSUME NEW T \in SUBSET Nodes PROVE Loses(T)
    <3> DEFINE h == Cardinality(T \cap Held(w))
               u == Cardinality(T \cap Unread(w))
               h1 == Cardinality(T \cap Held(w)')
               u1 == Cardinality(T \cap Unread(w)')
               q == Cardinality(QueueOf(Waiting, T))
               q1 == Cardinality(QueueOf(Waiting, T))'
               c == Cardinality(T \cap Claimed(d))
    <3>1. Waiting = dirs /\ Waiting' = Front(dirs)
      BY <2>1, <2>4 DEF Waiting, Early, WorkerFrame
    <3>2. q = q1 + c /\ q1 \in Nat /\ c \in Nat
      <4>1. /\ Cardinality(QueueOf(dirs, T)) = Cardinality(QueueOf(Front(dirs), T)) + c
            /\ Cardinality(QueueOf(Front(dirs), T)) \in Nat
        BY <2>3, QueueShrinks
      <4>2. QueueOf(Waiting, T)' = QueueOf(Front(dirs), T)
        BY <3>1 DEF QueueOf
      <4> QED
        BY <3>1, <4>1, <4>2, NodesAreFinite
    <3>3. /\ Held(w)' = Claimed(d) /\ Held(w) = {} /\ Unread(w)' = Unread(w)
          /\ Held(w)' \in SUBSET Nodes /\ Unread(w) \in SUBSET Nodes
      <4>1. d \in Nodes /\ {d} \in SUBSET Nodes /\ entries[w] \in SUBSET Nodes
        BY <1>0, <2>3 DEF Nodes, CountTypes
      <4> HIDE DEF d
      <4>2. Handed({d}) = Claimed(d) /\ Handed({d}) \in SUBSET Nodes /\ Handed({}) = {}
            /\ Covered(entries[w]) \in SUBSET Nodes
        BY <4>1, HandsAreNodes
      <4> QED
        BY <2>2, <2>4, <4>2 DEF Held, Unread
    <3>4. OthersKeep(w) /\ UNCHANGED <<main, roots>>
      BY <2>1 DEF OthersKeep, WorkerFrame, OthersRest
    <3>5. q1 \in Nat
      BY <3>2
    <3>6. /\ Work(T)' + h + u + q = Work(T) + h1 + u1 + q1
          /\ Work(T) \in Nat /\ Work(T)' \in Nat
          /\ u \in Nat
      BY <1>0, <3>3, <3>4, <3>5, WorkMoves
    <3>7. h1 = c /\ h = 0 /\ u1 = u
      BY <3>3, NoneCounted
    <3> HIDE DEF h, u, h1, u1, q, q1, c
    <3>8. Work(T)' = Work(T)
      BY <3>2, <3>6, <3>7
    <3> QED
      BY <3>6, <3>8 DEF Loses
  <2>8. visited' = visited /\ result' = result
    BY <2>1 DEF WorkerFrame
  <2>9. RecordsAddUp' /\ WithinRoots'
    BY <1>0, <2>1, <2>2, <2>7, <2>8, CountsStay
  <2> QED
    BY <2>1, <2>5, <2>6, <2>9, WorkerLedger
<1> QED
  BY <1>1, <1>2

LEMMA WorkerStepLedger ==
  ASSUME IInv, LedgerInv, NEW w \in Workers, WorkerStep(w)
  PROVE  LedgerInv'
<1>1. CASE FinishDirectory(w) \/ KeepError(w) \/ CancelScan(w) \/ CloseAndLeave(w)
  BY <1>1, QuietLedger
<1>2. CASE EndDirectory(w)
  BY <1>2, LeavingSteps
<1>3. CASE NextDirectory(w) \/ AddDirectory(w)
  BY <1>3, NextLedger, AddLedger
<1>4. CASE OpenDirectory(w) \/ SkipEntry(w)
  BY <1>4, OpenLedger, SkipLedger
<1>5. CASE ReadSubDir(w) \/ ReadFile(w) \/ RecordFile(w)
  BY <1>5, ReadSubDirLedger, ReadFileLedger, RecordFileLedger
<1> QED
  BY <1>1, <1>2, <1>3, <1>4, <1>5 DEF WorkerStep

--------------------------------------------------------------------------------
(* The steps of the calling goroutine.  Before the workers start, the roots  *)
(* that were taken and the root being recorded are all the work there is.    *)
LEMMA NobodyWorks ==
  ASSUME IInv, IInv', LedgerInv, main \in Early, UNCHANGED <<found, entries>>,
         NEW T \in SUBSET Nodes
  PROVE  /\ Work(T) = Cardinality(QueueOf(rootDirs, T)) + Cardinality(RootWork(T))
         /\ Work(T)' = Cardinality(QueueOf(Waiting, T))' + Cardinality(RootWork(T))'
         /\ Cardinality(QueueOf(rootDirs, T)) \in Nat /\ Cardinality(RootWork(T)) \in Nat
         /\ Cardinality(RootWork(T))' \in Nat /\ Cardinality(QueueOf(Waiting, T))' \in Nat
<1>1. \A w \in Workers : found[w] = {} /\ entries[w] = {}
  BY DEF IInv, CallerInv, LedgerInv, HandInv
<1>2. \A w \in Workers : found'[w] = {} /\ entries'[w] = {}
  BY <1>1
<1>3. Handed({}) = {} /\ Covered({}) = {}
  BY HandsAreNodes
<1>4. /\ HeldWork(T) = {} /\ UnreadWork(T) = {}
      /\ HeldWork(T)' = {} /\ UnreadWork(T)' = {}
  BY <1>1, <1>2, <1>3 DEF HeldWork, UnreadWork, Held, Unread
<1>5. /\ Cardinality(QueueOf(rootDirs, T)) \in Nat /\ Cardinality(RootWork(T)) \in Nat
  BY WorkIsCounted DEF IInv, QueueInv, Waiting
<1>6. Cardinality(RootWork(T))' \in Nat
  <2>1. RootWork(T)' \in SUBSET Nodes
    BY DEF RootWork
  <2> QED
    BY <2>1, NodesAreFinite
<1>7. Cardinality(QueueOf(Waiting, T))' \in Nat
  <2>1. Waiting' \in Seq(Dirs)
    BY DEF Waiting, IInv, QueueInv, Types
  <2>2. Cardinality(QueueOf(Waiting', T)) \in Nat
    BY <2>1, QueueIsCounted
  <2> QED
    BY <2>2 DEF QueueOf
<1> QED
  BY <1>4, <1>5, <1>6, <1>7, NoneCounted DEF Work, Waiting

LEMMA VisitsGrow ==
  ASSUME CountTypes, NEW r \in Nodes \ visited, visited' = visited \cup {r},
         NEW S \in SUBSET Nodes
  PROVE  /\ Visits(S)' = Visits(S) + Cardinality(S \cap Below[r])
         /\ Visits(S) \in Nat /\ Cardinality(S \cap Below[r]) \in Nat
<1> DEFINE K == visited \cup {r}
           P == {p \in K \X S : p[2] \in Below[p[1]]}
<1>1. IsFiniteSet(K) /\ P \in SUBSET (K \X S) /\ r \in K
  <2>1. K \in SUBSET Nodes
    BY DEF CountTypes
  <2> QED
    BY <2>1, NodesAreFinite
<1>2. Rest(P, r) = {p \in visited \X S : p[2] \in Below[p[1]]}
  BY DEF Rest
<1>3. Slice(P, r, S) = S \cap Below[r]
  BY DEF Slice
<1> HIDE DEF K, P
<1>4. /\ Cardinality(P) = Cardinality(Rest(P, r)) + Cardinality(Slice(P, r, S))
      /\ Cardinality(Rest(P, r)) \in Nat /\ Cardinality(Slice(P, r, S)) \in Nat
  BY <1>1, Slices
<1>5. Visits(S)' = Cardinality(P) /\ Visits(S) = Cardinality(Rest(P, r))
  BY <1>2 DEF P, K, Visits
<1> QED
  BY <1>3, <1>4, <1>5

LEMMA EarlyLedger ==
  ASSUME IInv, LedgerInv, main \in Early, UNCHANGED <<wpc, found, entries, err, scanErr>>,
         CountTypes', dirCount' <= MaxDirectories, fileCount' <= MaxFiles,
         Earned(result'), main' # "returned" => result' = "none",
         RecordsAddUp', WithinRoots'
  PROVE  LedgerInv'
<1>1. /\ \A w \in Workers : wpc[w] = "off" /\ err[w] = "none" /\ HandInv(w)
      /\ scanErr = "none"
  BY DEF IInv, CallerInv, LedgerInv, StageInv
<1>2. StageInv'
  BY <1>1 DEF StageInv
<1>3. \A w \in Workers : HandInv(w)'
  BY <1>1 DEF HandInv
<1>4. LimitsAreReal'
  BY <1>1 DEF LimitsAreReal, Outcomes, Earned
<1> QED
  BY <1>2, <1>3, <1>4 DEF LedgerInv

(* A scan that returns an error owes nobody a complete report.               *)
LEMMA ErrorSettles ==
  ASSUME result' \notin {"none", "ok"}
  PROVE  RecordsAddUp' /\ WithinRoots'
BY DEF RecordsAddUp, Flawless, WithinRoots

LEMMA CheckRootsLedger ==
  ASSUME IInv, LedgerInv, CheckRoots
  PROVE  LedgerInv'
<1>0. CountTypes /\ StageInv /\ LimitsAreReal
  BY DEF LedgerInv
<1>1. /\ main = "start" /\ main \in Early /\ result = "none"
      /\ UNCHANGED <<roots, visited, rootDirs, dirs, recorded, ignored, dirCount, fileCount,
                     wpc, found, entries, err, scanErr, faults>>
  BY <1>0 DEF CheckRoots, Early, StageInv, caller, queue, budget, report, worker, failure
<1>2. \/ main' = "returned" /\ result' = "nothing-readable"
      \/ main' = "returned" /\ result' = "limit" /\ Len(roots) > MaxRoots
      \/ main' = "roots" /\ result' = result
  BY DEF CheckRoots, Return
<1>3. CountTypes'
  BY <1>0, <1>1, <1>2 DEF CountTypes
<1>4. dirCount' <= MaxDirectories /\ fileCount' <= MaxFiles
  BY <1>0, <1>1 DEF LimitsAreReal
<1>5. Earned(result')
  BY <1>1, <1>2 DEF Earned, TooMuch
<1>6. RecordsAddUp' /\ WithinRoots'
  <2>1. CASE main' = "returned"
    BY <1>2, <2>1, ErrorSettles
  <2>2. CASE main' = "roots" /\ result' = result
    <3>1. Types
      BY DEF IInv, QueueInv
    <3>2. \A T \in SUBSET Nodes : Work(T)' = Work(T) /\ Work(T) \in Nat
      BY <1>1, <2>2, <3>1, WorkIsCounted
      DEF Work, Waiting, Early, RootWork, HeldWork, UnreadWork, Held, Unread
    <3>3. \A T \in SUBSET Nodes : Loses(T)
      BY <3>2 DEF Loses
    <3>4. Flawless' => Flawless
      BY <1>1, <2>2 DEF Flawless
    <3> QED
      BY <1>1, <2>2, <3>1, <3>3, <3>4, CountsStay
  <2> QED
    BY <1>2, <2>1, <2>2
<1> QED
  BY <1>1, <1>2, <1>3, <1>4, <1>5, <1>6, EarlyLedger

(* A new root brings in what lies below it: visits and work grow together.   *)
LEMMA NewRoot ==
  ASSUME IInv, IInv', LedgerInv, main = "roots", NEW r \in Nodes \ visited,
         visited' = visited \cup {r}, UNCHANGED <<found, entries>>,
         \/ /\ r \in Dirs /\ main' = "roots"
            /\ rootDirs' = Append(rootDirs, r)
         \/ /\ r \in Files /\ main' = "record-root" /\ Head(roots') = r
            /\ rootDirs' = rootDirs,
         NEW T \in SUBSET Nodes
  PROVE  /\ Work(T)' + (IF r \in T \cap Dirs THEN 1 ELSE 0) - Work(T)
              = Visits(T)' - Visits(T)
         /\ Work(T) \in Nat /\ Work(T)' \in Nat /\ Visits(T) \in Nat /\ Visits(T)' \in Nat
<1> DEFINE q == Cardinality(QueueOf(rootDirs, T))
           b == Cardinality(T \cap Below[r])
           c == Cardinality(T \cap Claimed(r))
           v == Visits(T)
           one == IF r \in T \cap Dirs THEN 1 ELSE 0
<1>0. CountTypes /\ Types /\ main \in Early
  BY DEF LedgerInv, IInv, QueueInv, Early
<1>1. /\ Visits(T)' = v + b /\ v \in Nat /\ b \in Nat
  BY <1>0, VisitsGrow
<1>2. /\ Work(T) = q + Cardinality(RootWork(T)) /\ q \in Nat
      /\ Work(T)' = Cardinality(QueueOf(Waiting, T))' + Cardinality(RootWork(T))'
  BY <1>0, NobodyWorks
<1>3. Cardinality(RootWork(T)) = 0
  BY NoneCounted DEF RootWork
<1>4. CASE r \in Dirs /\ main' = "roots" /\ rootDirs' = Append(rootDirs, r)
  <2>1. Cardinality(RootWork(T))' = 0
    BY <1>4, NoneCounted DEF RootWork
  <2>2. Cardinality(QueueOf(Waiting, T))' = q + c
    <3>1. Cardinality(QueueOf(Append(rootDirs, r), T)) = q + c
      BY <1>0, <1>4, QueueGrows DEF Types
    <3>2. QueueOf(Waiting, T)' = QueueOf(Append(rootDirs, r), T)
      BY <1>4 DEF QueueOf, Waiting, Early
    <3> QED
      BY <3>1, <3>2
  <2>3. b = c + one /\ c \in Nat
    <3>1. /\ Below[r] = Claimed(r) \cup {r} /\ Claimed(r) \cap {r} = {}
          /\ Claimed(r) \in SUBSET Nodes /\ {r} \in SUBSET Nodes
      BY <1>4, ClaimedFacts
    <3>2. /\ Cardinality(T \cap (Claimed(r) \cup {r}))
               = Cardinality(T \cap Claimed(r)) + Cardinality(T \cap {r})
          /\ Cardinality(T \cap Claimed(r)) \in Nat
      BY <3>1, Split
    <3>3. Cardinality(T \cap {r}) = IF r \in T THEN 1 ELSE 0
      BY OneOrNone
    <3> QED
      BY <1>4, <3>1, <3>2, <3>3
  <2>4. one \in Nat
    OBVIOUS
  <2> HIDE DEF q, b, c, v, one
  <2>5. /\ Work(T)' = q + c /\ Work(T) = q
    BY <1>2, <1>3, <2>1, <2>2, <2>3
  <2>6. /\ Work(T)' + one - Work(T) = Visits(T)' - v
        /\ Work(T) \in Nat /\ Work(T)' \in Nat /\ v \in Nat /\ Visits(T)' \in Nat
    BY <1>1, <1>2, <2>3, <2>4, <2>5
  <2> QED
    BY <2>6 DEF one, v
<1>5. CASE r \in Files /\ main' = "record-root" /\ Head(roots') = r /\ rootDirs' = rootDirs
  <2>1. RootWork(T)' = T \cap {r}
    BY <1>5 DEF RootWork
  <2>2. Cardinality(QueueOf(Waiting, T))' = q
    BY <1>5 DEF Waiting, Early, QueueOf
  <2>3. Below[r] = {r} /\ r \notin Dirs
    BY <1>5, ClaimedFacts, SurfaceScanAssumption
  <2>4. Cardinality(RootWork(T))' = b /\ one = 0
    BY <2>1, <2>3
  <2> HIDE DEF q, b, c, v, one
  <2>5. /\ Work(T)' = q + b /\ Work(T) = q
    BY <1>1, <1>2, <1>3, <2>2, <2>4
  <2>6. /\ Work(T)' + one - Work(T) = Visits(T)' - v
        /\ Work(T) \in Nat /\ Work(T)' \in Nat /\ v \in Nat /\ Visits(T)' \in Nat
    BY <1>1, <1>2, <2>4, <2>5
  <2> QED
    BY <2>6 DEF one, v
<1> QED
  BY <1>4, <1>5

LEMMA TakeRootLedger ==
  ASSUME IInv, IInv', LedgerInv, TakeRoot
  PROVE  LedgerInv'
<1> DEFINE r == Head(roots)
<1>0. CountTypes /\ StageInv /\ LimitsAreReal /\ RecordsAddUp /\ WithinRoots /\ Types
  BY DEF LedgerInv, IInv, QueueInv
<1>1. /\ main = "roots" /\ main \in Early /\ result = "none" /\ roots # <<>>
      /\ UNCHANGED <<dirs, recorded, fileCount, wpc, found, entries, err, scanErr>>
  BY <1>0 DEF TakeRoot, Early, StageInv, caller, queue, budget, report, worker, failure
<1>2. /\ r \in Nodes /\ Tail(roots) \in Seq(Nodes)
      /\ dirCount \in Nat /\ fileCount \in Nat /\ faults \in Nat /\ ignored \in Nat
      /\ dirCount <= MaxDirectories /\ fileCount <= MaxFiles
      /\ MaxDirectories \in Nat /\ MaxFiles \in Nat
  BY <1>0, <1>1, SurfaceScanAssumption DEF CountTypes, LimitsAreReal
<1>3. Dirs \in SUBSET Nodes /\ Files \in SUBSET Nodes /\ \A f \in Files : {f} \in SUBSET Nodes
  BY DEF Nodes
<1>4. CASE \/ main' = "returned" /\ result' = "cancelled"
              /\ UNCHANGED <<roots, visited, dirCount, ignored, faults>>
           \/ main' = "returned" /\ result' = "unsafe-root" /\ faults' = faults + 1
              /\ UNCHANGED <<roots, visited, dirCount, ignored>>
  <2>1. CountTypes'
    BY <1>0, <1>1, <1>2, <1>4 DEF CountTypes
  <2>2. dirCount' <= MaxDirectories /\ fileCount' <= MaxFiles
    BY <1>1, <1>2, <1>4
  <2>3. Earned(result')
    BY <1>2, <1>4 DEF Earned
  <2> QED
    BY <1>1, <1>4, <2>1, <2>2, <2>3, ErrorSettles, EarlyLedger
<1>5. CASE /\ main' = main /\ result' = result /\ roots' = Tail(roots)
           /\ UNCHANGED <<visited, rootDirs, dirCount>>
           /\ \/ faults' = faults + 1 /\ ignored' = ignored + 1
              \/ UNCHANGED <<faults, ignored>>
  <2>1. CountTypes'
    BY <1>0, <1>1, <1>2, <1>5 DEF CountTypes
  <2>2. dirCount' <= MaxDirectories /\ fileCount' <= MaxFiles
    BY <1>1, <1>2, <1>5
  <2>3. Earned(result')
    BY <1>1, <1>5 DEF Earned
  <2>4. \A T \in SUBSET Nodes : Work(T)' = Work(T) /\ Work(T) \in Nat
    BY <1>0, <1>1, <1>5, WorkIsCounted
    DEF Work, Waiting, Early, RootWork, HeldWork, UnreadWork, Held, Unread
  <2>5. \A T \in SUBSET Nodes : Loses(T)
    BY <2>4 DEF Loses
  <2>6. Flawless' => Flawless
    BY <1>1, <1>2, <1>5 DEF Flawless
  <2>7. RecordsAddUp' /\ WithinRoots'
    BY <1>0, <1>1, <1>5, <2>5, <2>6, CountsStay
  <2> QED
    BY <1>1, <1>5, <2>1, <2>2, <2>3, <2>7, EarlyLedger
<1>6. CASE /\ r \in Dirs \ visited /\ visited' = visited \cup {r}
           /\ main' = "returned" /\ result' = "limit" /\ dirCount >= MaxDirectories
           /\ UNCHANGED <<roots, rootDirs, dirCount, ignored, faults>>
  <2>1. CountTypes'
    BY <1>0, <1>1, <1>2, <1>6 DEF CountTypes
  <2>2. dirCount' <= MaxDirectories /\ fileCount' <= MaxFiles
    BY <1>1, <1>2, <1>6
  <2>3. TooMuch'
    <3> DEFINE b == Cardinality(Dirs \cap Below[r])
    <3>1. Visits(Dirs)' = Visits(Dirs) + b /\ Visits(Dirs) \in Nat /\ b \in Nat
      BY <1>0, <1>2, <1>3, <1>6, VisitsGrow
    <3>2. b # 0
      <4>1. r \in Dirs \cap Below[r] /\ Dirs \cap Below[r] \in SUBSET Nodes
        BY <1>2, <1>3, <1>6, BelowFacts
      <4>2. IsFiniteSet(Dirs \cap Below[r])
        BY <4>1, NodesAreFinite
      <4> QED
        BY <4>1, <4>2, FS_EmptySet
    <3>3. Work(Dirs) \in Nat /\ dirCount + Work(Dirs) <= Visits(Dirs)
      BY <1>0, <1>1, <1>3, WorkIsCounted DEF WithinRoots
    <3> HIDE DEF b
    <3>4. Visits(Dirs)' > MaxDirectories
      BY <1>2, <1>6, <3>1, <3>2, <3>3
    <3> QED
      BY <3>4 DEF TooMuch
  <2>4. Earned(result')
    BY <1>6, <2>3 DEF Earned
  <2> QED
    BY <1>1, <1>6, <2>1, <2>2, <2>4, ErrorSettles, EarlyLedger
<1>7. CASE /\ r \in Nodes \ visited /\ visited' = visited \cup {r} /\ result' = result
           /\ UNCHANGED <<ignored, faults>>
           /\ \/ /\ r \in Dirs /\ main' = "roots" /\ roots' = Tail(roots)
                 /\ rootDirs' = Append(rootDirs, r)
                 /\ dirCount < MaxDirectories /\ dirCount' = dirCount + 1
              \/ /\ r \in Files /\ main' = "record-root" /\ roots' = roots
                 /\ rootDirs' = rootDirs /\ dirCount' = dirCount
  <2> DEFINE one == IF r \in Dirs THEN 1 ELSE 0
  <2>1. CountTypes'
    <3>1. roots' \in Seq(Nodes) /\ dirCount' \in Nat /\ visited' \in SUBSET Nodes
      <4>1. roots' \in Seq(Nodes)
        BY <1>0, <1>2, <1>7 DEF CountTypes
      <4>2. dirCount' \in Nat
        BY <1>2, <1>7
      <4>3. visited' \in SUBSET Nodes
        BY <1>0, <1>7 DEF CountTypes
      <4> QED
        BY <4>1, <4>2, <4>3
    <3>2. main' = "record-root" => roots' # <<>> /\ Head(roots') \in Files
      BY <1>1, <1>7
    <3> QED
      BY <1>0, <1>1, <1>7, <3>1, <3>2 DEF CountTypes
  <2>2. dirCount' <= MaxDirectories /\ fileCount' <= MaxFiles /\ dirCount' = dirCount + one
    <3>1. r \in Files => r \notin Dirs
      BY SurfaceScanAssumption
    <3> QED
      BY <1>1, <1>2, <1>7, <3>1
  <2>3. Earned(result')
    BY <1>1, <1>7 DEF Earned
  <2>4. ASSUME NEW T \in SUBSET Nodes
        PROVE  /\ Work(T)' + (IF r \in T \cap Dirs THEN 1 ELSE 0) - Work(T)
                    = Visits(T)' - Visits(T)
               /\ Work(T) \in Nat /\ Work(T)' \in Nat /\ Visits(T) \in Nat
               /\ Visits(T)' \in Nat
    <3>1. /\ r \in Nodes \ visited
          /\ \/ r \in Dirs /\ main' = "roots" /\ rootDirs' = Append(rootDirs, r)
             \/ r \in Files /\ main' = "record-root" /\ Head(roots') = r /\ rootDirs' = rootDirs
      BY <1>7
    <3> HIDE DEF r
    <3> QED
      BY <1>1, <1>7, <3>1, NewRoot
  <2>5. RecordsAddUp'
    <3> SUFFICES ASSUME Flawless', NEW f \in Files
                 PROVE  recorded'[f] + Work({f})' = Visits({f})'
      BY DEF RecordsAddUp
    <3>1. Flawless /\ recorded[f] + Work({f}) = Visits({f}) /\ recorded[f] \in Nat
          /\ recorded'[f] = recorded[f]
      BY <1>0, <1>1, <1>7 DEF Flawless, RecordsAddUp, CountTypes
    <3>2. ~(r \in {f} \cap Dirs)
      BY SurfaceScanAssumption
    <3>3. {f} \in SUBSET Nodes
      BY <1>3
    <3>4. /\ Work({f})' + 0 - Work({f}) = Visits({f})' - Visits({f})
          /\ Work({f}) \in Nat /\ Work({f})' \in Nat /\ Visits({f}) \in Nat
          /\ Visits({f})' \in Nat
      BY <2>4, <3>2, <3>3
    <3> QED
      BY <3>1, <3>4
  <2>6. WithinRoots'
    <3>1. /\ Work(Files)' + 0 - Work(Files) = Visits(Files)' - Visits(Files)
          /\ Work(Files) \in Nat /\ Work(Files)' \in Nat /\ Visits(Files) \in Nat
          /\ Visits(Files)' \in Nat
      <4>1. ~(r \in Files \cap Dirs)
        BY SurfaceScanAssumption
      <4> QED
        BY <1>3, <2>4, <4>1
    <3>2. /\ Work(Dirs)' + one - Work(Dirs) = Visits(Dirs)' - Visits(Dirs)
          /\ Work(Dirs) \in Nat /\ Work(Dirs)' \in Nat /\ Visits(Dirs) \in Nat
          /\ Visits(Dirs)' \in Nat
      BY <1>3, <2>4
    <3>3. one \in Nat
      OBVIOUS
    <3>4. fileCount + Work(Files) <= Visits(Files) /\ dirCount + Work(Dirs) <= Visits(Dirs)
      BY <1>0, <1>1 DEF WithinRoots
    <3> HIDE DEF one, r
    <3>5. fileCount' + Work(Files)' <= Visits(Files)'
      BY <1>1, <1>2, <3>1, <3>4
    <3>6. dirCount' + Work(Dirs)' <= Visits(Dirs)'
      BY <1>2, <2>2, <3>2, <3>3, <3>4
    <3>7. ASSUME NEW f \in Files PROVE recorded'[f] + Work({f})' <= Visits({f})'
      <4>1. recorded[f] + Work({f}) <= Visits({f}) /\ recorded[f] \in Nat
            /\ recorded'[f] = recorded[f]
        BY <1>0, <1>1 DEF WithinRoots, CountTypes
      <4>2. f \notin Dirs /\ {f} \in SUBSET Nodes
        BY <1>3, SurfaceScanAssumption
      <4>3. /\ Work({f})' + 0 - Work({f}) = Visits({f})' - Visits({f})
            /\ Work({f}) \in Nat /\ Work({f})' \in Nat /\ Visits({f}) \in Nat
            /\ Visits({f})' \in Nat
        BY <2>4, <4>2
      <4> QED
        BY <4>1, <4>3
    <3> QED
      BY <3>5, <3>6, <3>7 DEF WithinRoots
  <2> QED
    BY <1>1, <1>7, <2>1, <2>2, <2>3, <2>5, <2>6, EarlyLedger
<1>8. \/ \/ main' = "returned" /\ result' = "cancelled"
            /\ UNCHANGED <<roots, visited, dirCount, ignored, faults>>
         \/ main' = "returned" /\ result' = "unsafe-root" /\ faults' = faults + 1
            /\ UNCHANGED <<roots, visited, dirCount, ignored>>
      \/ /\ main' = main /\ result' = result /\ roots' = Tail(roots)
         /\ UNCHANGED <<visited, rootDirs, dirCount>>
         /\ \/ faults' = faults + 1 /\ ignored' = ignored + 1
            \/ UNCHANGED <<faults, ignored>>
      \/ /\ r \in Dirs \ visited /\ visited' = visited \cup {r}
         /\ main' = "returned" /\ result' = "limit" /\ dirCount >= MaxDirectories
         /\ UNCHANGED <<roots, rootDirs, dirCount, ignored, faults>>
      \/ /\ r \in Nodes \ visited /\ visited' = visited \cup {r} /\ result' = result
         /\ UNCHANGED <<ignored, faults>>
         /\ \/ /\ r \in Dirs /\ main' = "roots" /\ roots' = Tail(roots)
               /\ rootDirs' = Append(rootDirs, r)
               /\ dirCount < MaxDirectories /\ dirCount' = dirCount + 1
            \/ /\ r \in Files /\ main' = "record-root" /\ roots' = roots
               /\ rootDirs' = rootDirs /\ dirCount' = dirCount
  BY <1>1, <1>2 DEF TakeRoot, Return, Fail, Ignore, Seen, Full, caller, budget, report
<1> QED
  BY <1>4, <1>5, <1>6, <1>7, <1>8

LEMMA RecordRootLedger ==
  ASSUME IInv, IInv', LedgerInv, RecordRoot
  PROVE  LedgerInv'
<1> DEFINE r == Head(roots)
<1>0. CountTypes /\ StageInv /\ LimitsAreReal /\ RecordsAddUp /\ WithinRoots /\ Types
  BY DEF LedgerInv, IInv, QueueInv
<1>1. /\ main = "record-root" /\ main \in Early /\ result = "none"
      /\ UNCHANGED <<dirs, visited, rootDirs, dirCount, wpc, found, entries, err, scanErr>>
  BY <1>0 DEF RecordRoot, Early, StageInv, queue, worker, failure
<1>2. /\ roots # <<>> /\ r \in Files /\ Tail(roots) \in Seq(Nodes)
      /\ dirCount \in Nat /\ fileCount \in Nat /\ faults \in Nat /\ ignored \in Nat
      /\ dirCount <= MaxDirectories /\ fileCount <= MaxFiles
      /\ MaxDirectories \in Nat /\ MaxFiles \in Nat
  BY <1>0, <1>1, SurfaceScanAssumption DEF CountTypes, LimitsAreReal
<1>3. \A T \in SUBSET Nodes :
        /\ Work(T) = Cardinality(QueueOf(rootDirs, T)) + (IF r \in T THEN 1 ELSE 0)
        /\ Cardinality(QueueOf(rootDirs, T)) \in Nat
  <2> TAKE T \in SUBSET Nodes
  <2>1. RootWork(T) = T \cap {r}
    BY <1>1 DEF RootWork
  <2>2. Cardinality(RootWork(T)) = IF r \in T THEN 1 ELSE 0
    BY <2>1, OneOrNone
  <2> QED
    BY <1>1, <2>2, NobodyWorks
<1>4. CASE /\ main' = "returned" /\ UNCHANGED <<roots, recorded, ignored, fileCount>>
           /\ \/ result' = "root-changed" /\ faults' = faults + 1
              \/ result' = "limit" /\ fileCount >= MaxFiles /\ faults' = faults
  <2>1. CountTypes'
    BY <1>0, <1>1, <1>2, <1>4 DEF CountTypes
  <2>2. dirCount' <= MaxDirectories /\ fileCount' <= MaxFiles
    BY <1>1, <1>2, <1>4
  <2>3. Earned(result')
    <3>1. CASE result' = "root-changed" /\ faults' = faults + 1
      BY <1>2, <3>1 DEF Earned
    <3>2. CASE result' = "limit" /\ fileCount >= MaxFiles
      <4>1. Files \in SUBSET Nodes
        BY DEF Nodes
      <4>2. Work(Files) = Cardinality(QueueOf(rootDirs, Files)) + 1
            /\ Cardinality(QueueOf(rootDirs, Files)) \in Nat
        BY <1>2, <1>3, <4>1
      <4>3. fileCount + Work(Files) <= Visits(Files) /\ Visits(Files) \in Nat
        BY <1>0, <1>1, <4>1, VisitsAreCounted DEF WithinRoots
      <4>4. Visits(Files) > MaxFiles
        BY <1>2, <3>2, <4>2, <4>3
      <4>5. Visits(Files)' = Visits(Files)
        BY <1>1 DEF Visits
      <4> QED
        BY <3>2, <4>4, <4>5 DEF Earned, TooMuch
    <3> QED
      BY <1>4, <3>1, <3>2
  <2> QED
    BY <1>1, <1>4, <2>1, <2>2, <2>3, ErrorSettles, EarlyLedger
<1>5. CASE /\ main' = "roots" /\ result' = result /\ roots' = Tail(roots)
           /\ \/ /\ UNCHANGED <<recorded, fileCount>> /\ ignored' = ignored + 1
                 /\ faults' = faults \/ faults' = faults + 1
              \/ /\ recorded' = [recorded EXCEPT ![r] = @ + 1]
                 /\ fileCount' = fileCount + 1 /\ ~(fileCount >= MaxFiles)
                 /\ UNCHANGED <<ignored, faults>>
  <2>1. CountTypes'
    <3>1. recorded' \in [Files -> Nat]
      BY <1>0, <1>2, <1>5 DEF CountTypes
    <3>2. roots' \in Seq(Nodes) /\ fileCount' \in Nat /\ faults' \in Nat /\ ignored' \in Nat
      BY <1>2, <1>5
    <3> QED
      BY <1>0, <1>1, <1>5, <3>1, <3>2 DEF CountTypes
  <2>2. dirCount' <= MaxDirectories /\ fileCount' <= MaxFiles
    BY <1>1, <1>2, <1>5
  <2>3. Earned(result')
    BY <1>1, <1>5 DEF Earned
  <2>4. \A T \in SUBSET Nodes : Spends(r, T) /\ Work(T) \in Nat
    <3> TAKE T \in SUBSET Nodes
    <3> DEFINE q == Cardinality(QueueOf(rootDirs, T))
    <3>1. /\ Work(T)' = Cardinality(QueueOf(Waiting, T))' + Cardinality(RootWork(T))'
      BY <1>1, NobodyWorks
    <3>2. Cardinality(QueueOf(Waiting, T))' = q
      BY <1>1, <1>5 DEF Waiting, Early, QueueOf
    <3>3. Cardinality(RootWork(T))' = 0
      <4>1. RootWork(T)' = {}
        BY <1>5 DEF RootWork
      <4> QED
        BY <4>1, NoneCounted
    <3>4. /\ Work(T) = q + (IF r \in T THEN 1 ELSE 0)
          /\ q \in Nat
      BY <1>3
    <3> HIDE DEF q, r
    <3> QED
      BY <3>1, <3>2, <3>3, <3>4 DEF Spends
  <2>5. RecordsAddUp' /\ WithinRoots'
    <3>1. CASE UNCHANGED <<recorded, fileCount>> /\ ignored' = ignored + 1
      <4>1. ~Flawless'
        BY <1>2, <3>1 DEF Flawless
      <4>2. \A T \in SUBSET Nodes : Loses(T)
        BY <2>4, <4>1 DEF Spends, Loses
      <4> QED
        BY <1>0, <1>1, <1>5, <3>1, <4>1, <4>2, CountsStay
    <3>2. CASE /\ recorded' = [recorded EXCEPT ![r] = @ + 1]
               /\ fileCount' = fileCount + 1 /\ UNCHANGED ignored
      BY <1>0, <1>1, <1>2, <1>5, <2>4, <3>2, FileLedger
    <3> QED
      BY <1>5, <3>1, <3>2
  <2> QED
    BY <1>1, <1>5, <2>1, <2>2, <2>3, <2>5, EarlyLedger
<1>6. \/ /\ main' = "returned" /\ UNCHANGED <<roots, recorded, ignored, fileCount>>
         /\ \/ result' = "root-changed" /\ faults' = faults + 1
            \/ result' = "limit" /\ fileCount >= MaxFiles /\ faults' = faults
      \/ /\ main' = "roots" /\ result' = result /\ roots' = Tail(roots)
         /\ \/ /\ UNCHANGED <<recorded, fileCount>> /\ ignored' = ignored + 1
               /\ faults' = faults \/ faults' = faults + 1
            \/ /\ recorded' = [recorded EXCEPT ![r] = @ + 1]
               /\ fileCount' = fileCount + 1 /\ ~(fileCount >= MaxFiles)
               /\ UNCHANGED <<ignored, faults>>
  BY DEF RecordRoot, Return, Fail, Ignore, Full
<1> QED
  BY <1>4, <1>5, <1>6

(* The steps that leave work and counts alone.                               *)
LEMMA RestLedger ==
  ASSUME IInv, LedgerInv,
         UNCHANGED <<roots, visited, rootDirs, dirs, dirCount, fileCount, recorded, ignored,
                     found, entries, err, scanErr>>,
         main' = main \/ (main \in {"waiting", "joined"} /\ main' \in {"joined", "returned"}),
         \A v \in Workers : wpc'[v] = wpc[v] \/ (wpc[v] = "asleep" /\ wpc'[v] = "next"),
         faults' \in Nat, faults' >= faults, Earned(result'),
         Flawless' => Flawless, result' = "none" => result = "none", StageInv'
  PROVE  LedgerInv'
<1>0. CountTypes /\ LimitsAreReal /\ Types /\ \A v \in Workers : HandInv(v)
  BY DEF LedgerInv, IInv, QueueInv
<1>1. CountTypes'
  BY <1>0 DEF CountTypes
<1>2. \A v \in Workers : HandInv(v)'
  BY <1>0 DEF HandInv
<1>3. \A T \in SUBSET Nodes : Work(T)' = Work(T) /\ Work(T) \in Nat
  <2>1. Waiting' = Waiting /\ \A T : RootWork(T)' = RootWork(T)
    BY DEF Waiting, Early, RootWork
  <2>2. \A T \in SUBSET Nodes : Work(T)' = Work(T)
    BY <2>1 DEF Work, QueueOf, HeldWork, UnreadWork, Held, Unread
  <2> QED
    BY <1>0, <2>2, WorkIsCounted
<1>4. \A T \in SUBSET Nodes : Loses(T)
  BY <1>3 DEF Loses
<1>5. RecordsAddUp' /\ WithinRoots'
  BY <1>0, <1>4, CountsStay
<1>6. TooMuch' = TooMuch
  BY DEF TooMuch, Visits
<1>7. \A e \in Outcomes' : Earned(e)
  <2>1. Outcomes' \subseteq Outcomes \cup {result'}
    BY DEF Outcomes
  <2>2. \A e \in Outcomes : Earned(e)
    BY <1>0, <1>6 DEF LimitsAreReal, Earned, CountTypes
  <2> QED
    BY <2>1, <2>2
<1>8. LimitsAreReal'
  BY <1>0, <1>7 DEF LimitsAreReal, Earned
<1> QED
  BY <1>1, <1>2, <1>5, <1>8 DEF LedgerInv

LEMMA StartWorkersLedger ==
  ASSUME IInv, LedgerInv, StartWorkers
  PROVE  LedgerInv'
<1>0. CountTypes /\ StageInv /\ LimitsAreReal /\ Types /\ \A v \in Workers : HandInv(v)
  BY DEF LedgerInv, IInv, QueueInv
<1>1. /\ main = "roots" /\ main \in Early /\ result = "none"
      /\ \A v \in Workers : wpc[v] = "off" /\ err[v] = "none"
      /\ UNCHANGED <<roots, visited, rootDirs, dirCount, fileCount, recorded, ignored, found,
                     entries, err, scanErr, faults>>
  BY <1>0 DEF IInv, CallerInv, StartWorkers, Early, StageInv, caller, budget, report, failure
<1>2. CountTypes'
  BY <1>0, <1>1 DEF CountTypes, StartWorkers, Return
<1>3. dirCount' <= MaxDirectories /\ fileCount' <= MaxFiles
  BY <1>0, <1>1 DEF LimitsAreReal
<1>4. CASE main' = "returned" /\ result' = "nothing-readable" /\ wpc' = wpc
  BY <1>1, <1>2, <1>3, <1>4, ErrorSettles, EarlyLedger DEF Earned
<1>5. CASE /\ dirs' = rootDirs /\ wpc' = [v \in Workers |-> "next"]
           /\ main' = "waiting" /\ result' = result
  <2>1. \A v \in Workers : HandInv(v)'
    BY <1>0, <1>1, <1>5 DEF HandInv
  <2>2. StageInv'
    BY <1>1, <1>5 DEF StageInv, Early
  <2>3. \A T \in SUBSET Nodes : Work(T)' = Work(T) /\ Work(T) \in Nat
    <3>1. Waiting' = Waiting /\ \A T : RootWork(T)' = RootWork(T)
      BY <1>1, <1>5 DEF Waiting, Early, RootWork
    <3>2. \A T \in SUBSET Nodes : Work(T)' = Work(T)
      BY <1>1, <3>1 DEF Work, QueueOf, HeldWork, UnreadWork, Held, Unread
    <3> QED
      BY <1>0, <3>2, WorkIsCounted
  <2>4. \A T \in SUBSET Nodes : Loses(T)
    BY <2>3 DEF Loses
  <2>5. Flawless' => Flawless
    BY <1>1, <1>5 DEF Flawless
  <2>6. RecordsAddUp' /\ WithinRoots'
    BY <1>0, <1>1, <1>5, <2>4, <2>5, CountsStay
  <2>7. Outcomes' = Outcomes /\ TooMuch' = TooMuch
    BY <1>1, <1>5 DEF Outcomes, TooMuch, Visits
  <2>8. LimitsAreReal'
    BY <1>0, <1>1, <2>7 DEF LimitsAreReal
  <2> QED
    BY <1>2, <2>1, <2>2, <2>6, <2>8 DEF LedgerInv
<1> QED
  BY <1>4, <1>5 DEF StartWorkers, Return

LEMMA LastStepsLedger ==
  ASSUME IInv, LedgerInv, Join \/ Conclude \/ Watch \/ Cancel
  PROVE  LedgerInv'
<1>0. CountTypes /\ StageInv /\ LimitsAreReal /\ Types
  BY DEF LedgerInv, IInv, QueueInv
<1>1. UNCHANGED <<roots, visited, rootDirs, dirs, dirCount, fileCount, recorded, ignored,
                  found, entries, err, scanErr>>
  BY DEF Join, Conclude, Watch, Cancel, caller, queue, budget, report, worker, failure
<1>2. \A v \in Workers : wpc'[v] = wpc[v] \/ (wpc[v] = "asleep" /\ wpc'[v] = "next")
  <2>1. CASE Join \/ Conclude \/ Cancel
    BY <2>1 DEF Join, Conclude, Cancel, worker
  <2>2. CASE Watch
    BY <2>2 DEF Watch, CloseQueue, Broadcast, Wake, Sleepers
  <2> QED
    BY <2>1, <2>2
<1>3. \A e \in Outcomes : Earned(e) \/ faults' < faults
  BY <1>0, <1>1 DEF LimitsAreReal, Earned, CountTypes, TooMuch, Visits, Fail, Join, Conclude,
     Watch, Cancel
<1>4. {result, scanErr} \subseteq Outcomes
  BY DEF Outcomes
<1>5. CASE Join \/ Watch \/ Cancel
  <2>1. /\ result' = result /\ faults' = faults
        /\ main' = main \/ (main = "waiting" /\ main' = "joined" /\ AllGone)
    BY <1>5 DEF Join, Watch, Cancel, AllGone
  <2>2. StageInv'
    BY <1>0, <1>1, <1>2, <1>5, <2>1 DEF StageInv, Early, AllGone, Join, Watch, Cancel, worker
  <2>3. Flawless' => Flawless
    BY <1>1, <2>1 DEF Flawless
  <2>4. Earned(result') /\ faults' \in Nat /\ faults' >= faults
    BY <1>0, <1>3, <1>4, <2>1 DEF CountTypes
  <2> QED
    BY <1>1, <1>2, <2>1, <2>2, <2>3, <2>4, RestLedger
<1>6. CASE Conclude
  <2>1. /\ main = "joined" /\ main' = "returned" /\ AllGone /\ UNCHANGED wpc
        /\ result = "none"
        /\ faults' = faults \/ (faults' = faults + 1)
    BY <1>0, <1>6 DEF Conclude, Return, Fail, IInv, CallerInv, StageInv, worker
  <2>2. /\ faults' \in Nat /\ faults' >= faults
    BY <1>0, <2>1 DEF CountTypes
  <2>3. \/ result' \in {"cancelled", scanErr, "ok"} /\ result' # "none"
        \/ result' = "root-changed" /\ faults' = faults + 1
    BY <1>6 DEF Conclude, Return, Fail, Verdict
  <2>4. Earned(result')
    <3>1. CASE result' = scanErr
      BY <1>0, <1>3, <1>4, <2>2, <3>1 DEF CountTypes
    <3>2. CASE result' \in {"cancelled", "ok"}
      BY <3>2 DEF Earned
    <3>3. CASE result' = "root-changed" /\ faults' = faults + 1
      BY <1>0, <3>3 DEF Earned, CountTypes
    <3> QED
      BY <2>3, <3>1, <3>2, <3>3
  <2>5. StageInv'
    BY <1>0, <1>1, <2>1 DEF StageInv, Early, AllGone
  <2>6. Flawless' => Flawless
    BY <1>1, <2>1 DEF Flawless
  <2>7. result' # "none"
    BY <2>3
  <2> QED
    BY <1>1, <1>2, <2>1, <2>2, <2>4, <2>5, <2>6, <2>7, RestLedger
<1> QED
  BY <1>5, <1>6

LEMMA InitLedger == Init => LedgerInv
<1> SUFFICES ASSUME Init PROVE LedgerInv
  OBVIOUS
<1>1. CountTypes /\ StageInv /\ \A w \in Workers : HandInv(w)
  BY SurfaceScanAssumption DEF Init, CountTypes, StageInv, Early, HandInv, Nodes
<1>2. \A T \in SUBSET Nodes : Work(T) = 0 /\ Visits(T) = 0
  <2> TAKE T \in SUBSET Nodes
  <2>1. Handed({}) = {} /\ Covered({}) = {}
    BY HandsAreNodes
  <2>2. /\ QueueOf(Waiting, T) = {} /\ RootWork(T) = {}
        /\ HeldWork(T) = {} /\ UnreadWork(T) = {}
    BY <2>1 DEF Init, QueueOf, Waiting, Early, RootWork, HeldWork, UnreadWork, Held, Unread
  <2>3. {p \in visited \X T : p[2] \in Below[p[1]]} = {}
    BY DEF Init
  <2> QED
    BY <2>2, <2>3, NoneCounted DEF Work, Visits
<1>3. RecordsAddUp /\ WithinRoots
  <2>1. Files \in SUBSET Nodes /\ Dirs \in SUBSET Nodes /\ \A f \in Files : {f} \in SUBSET Nodes
    BY DEF Nodes
  <2> QED
    BY <1>2, <2>1 DEF RecordsAddUp, WithinRoots, Init
<1>4. LimitsAreReal
  BY SurfaceScanAssumption DEF LimitsAreReal, Outcomes, Init
<1> QED
  BY <1>1, <1>3, <1>4 DEF LedgerInv

LEMMA NextLedgerInv == IInv /\ IInv' /\ LedgerInv /\ [Next]_vars => LedgerInv'
<1> SUFFICES ASSUME IInv, IInv', LedgerInv, [Next]_vars PROVE LedgerInv'
  OBVIOUS
<1>1. CASE \E w \in Workers : WorkerStep(w)
  BY <1>1, WorkerStepLedger
<1>2. CASE CheckRoots \/ StartWorkers
  BY <1>2, CheckRootsLedger, StartWorkersLedger
<1>3. CASE TakeRoot \/ RecordRoot
  BY <1>3, TakeRootLedger, RecordRootLedger
<1>4. CASE Join \/ Conclude \/ Watch \/ Cancel
  BY <1>4, LastStepsLedger
<1>5. CASE UNCHANGED vars
  <2>1. UNCHANGED <<roots, visited, rootDirs, dirs, dirCount, fileCount, recorded, ignored,
                    found, entries, err, scanErr, main, wpc, faults, result>>
    BY <1>5 DEF vars
  <2>2. /\ faults' \in Nat /\ faults' >= faults /\ StageInv' /\ (Flawless' => Flawless)
    BY <2>1 DEF LedgerInv, CountTypes, StageInv, Flawless
  <2>3. Earned(result')
    BY <2>1 DEF Earned, LedgerInv, LimitsAreReal, Outcomes, TooMuch, Visits
  <2> QED
    BY <2>1, <2>2, <2>3, RestLedger
<1> QED
  BY <1>1, <1>2, <1>3, <1>4, <1>5 DEF Next, MainStep

LEMMA SpecLedger == Spec => [](IInv /\ LedgerInv)
<1>1. IInv /\ [Next]_vars => IInv'
  BY NextIInv
<1>2. IInv /\ IInv' /\ LedgerInv /\ [Next]_vars => LedgerInv'
  BY NextLedgerInv
<1> QED
  BY <1>1, <1>2, InitIInv, InitLedger, PTL DEF Spec

(* A root reaches a file or does not.                                        *)
LEMMA VisitsOfAFile ==
  ASSUME CountTypes, NEW f \in Files
  PROVE  Visits({f}) = Cardinality({r \in visited : f \in Below[r]})
<1> DEFINE P == {p \in visited \X {f} : p[2] \in Below[p[1]]}
           R == {r \in visited : f \in Below[r]}
           g == [p \in P |-> p[1]]
<1>1. IsFiniteSet(P) /\ IsFiniteSet(R)
  <2>1. IsFiniteSet(visited) /\ R \in SUBSET Nodes /\ {f} \in SUBSET Nodes
    BY NodesAreFinite DEF CountTypes, Nodes
  <2>2. P \in SUBSET (visited \X {f})
    OBVIOUS
  <2> HIDE DEF P, R
  <2> QED
    BY <2>1, <2>2, PairsAreFinite, NodesAreFinite
<1>2. g \in Bijection(P, R)
  <2>1. g \in [P -> R]
    OBVIOUS
  <2>2. \A p, q \in P : g[p] = g[q] => p = q
    OBVIOUS
  <2>3. \A r \in R : \E p \in P : g[p] = r
    <3> TAKE r \in R
    <3>1. <<r, f>> \in P /\ g[<<r, f>>] = r
      OBVIOUS
    <3> QED
      BY <3>1
  <2> QED
    BY <2>1, <2>2, <2>3 DEF Bijection, Injection, Surjection, IsInjective
<1>3. Cardinality(P) = Cardinality(R)
  BY <1>1, <1>2, FS_Bijection DEF ExistsBijection
<1> QED
  BY <1>3 DEF Visits

LEMMA WhatSuccessMeans == IInv /\ LedgerInv => SuccessIsComplete
<1> SUFFICES ASSUME IInv, LedgerInv, result = "ok" PROVE
      /\ NothingLeft
      /\ ignored = 0 => \A f \in Files :
           recorded[f] = Cardinality({r \in visited : f \in Below[r]})
  BY DEF SuccessIsComplete
<1>1. AllGone /\ NothingLeft
  BY DEF IInv, CallerInv
<1>2. main = "returned" /\ CountTypes /\ RecordsAddUp
  BY DEF LedgerInv, StageInv
<1>3. ASSUME ignored = 0, NEW f \in Files
      PROVE  recorded[f] = Cardinality({r \in visited : f \in Below[r]})
  <2>1. Flawless
    BY <1>1, <1>3 DEF Flawless, NothingLeft
  <2>2. \A w \in Workers : found[w] = {} /\ entries[w] = {}
    BY <1>1 DEF AllGone, LedgerInv, HandInv
  <2>3. Handed({}) = {} /\ Covered({}) = {}
    BY HandsAreNodes
  <2>4. /\ QueueOf(Waiting, {f}) = {} /\ RootWork({f}) = {}
        /\ HeldWork({f}) = {} /\ UnreadWork({f}) = {}
    <3>1. Waiting = <<>>
      BY <1>1, <1>2 DEF NothingLeft, Waiting, Early
    <3>2. QueueOf(Waiting, {f}) = {}
      BY <3>1 DEF QueueOf
    <3>3. RootWork({f}) = {}
      BY <1>2 DEF RootWork
    <3>4. HeldWork({f}) = {} /\ UnreadWork({f}) = {}
      BY <2>2, <2>3 DEF HeldWork, UnreadWork, Held, Unread
    <3> QED
      BY <3>2, <3>3, <3>4
  <2>5. Work({f}) = 0
    BY <2>4, NoneCounted DEF Work
  <2>6. recorded[f] \in Nat /\ recorded[f] + Work({f}) = Visits({f})
    BY <1>2, <2>1 DEF CountTypes, RecordsAddUp
  <2>7. Visits({f}) = Cardinality({r \in visited : f \in Below[r]})
    BY <1>2, VisitsOfAFile
  <2> QED
    BY <2>5, <2>6, <2>7
<1> QED
  BY <1>1, <1>3

(* A scan that succeeds lost nothing (engine.go 431-463): no worker reported *)
(* an error, nothing is left in the queue, and unless a read was counted as  *)
(* ignored every file is in the report once for every root that reaches it.  *)
THEOREM NoFileIsMissed == Spec => []SuccessIsComplete
BY WhatSuccessMeans, SpecLedger, PTL

(* The error a scan returns is one it deserves: cancelled only if the caller *)
(* cancelled, a changed or unsafe root only after a fault, and a limit only  *)
(* if the roots hold more than the limit, which is never passed however many *)
(* goroutines reserve at once (engine.go 418-430, 453-458 and 613-624).      *)
THEOREM ErrorsAreEarned == Spec => []ErrorsAreDeserved
<1>1. IInv /\ LedgerInv => ErrorsAreDeserved
  <2> SUFFICES ASSUME IInv, LedgerInv PROVE ErrorsAreDeserved
    OBVIOUS
  <2>1. CausesAreReal
    BY DEF IInv, FailInv, ErrorInv, CallerInv, CausesAreReal
  <2>2. LimitsAreReal /\ result \in Outcomes
    BY DEF LedgerInv, Outcomes
  <2> QED
    BY <2>1, <2>2 DEF ErrorsAreDeserved, LimitsAreReal, TooMuch
<1> QED
  BY <1>1, SpecLedger, PTL

--------------------------------------------------------------------------------
(* A file is due once for each root taken that reaches it.                   *)
LEMMA WhatIsDue ==
  ASSUME NEW f \in Files
  PROVE  Promise!Due(f) = Cardinality({r \in visited : f \in Below[r]})
BY DEF Promise!Due, Promise!Cardinality, Cardinality

(* The promise.  A file that is still owed is recorded less often than it is *)
(* due, because what is owed is set aside in WithinRoots.                    *)
LEMMA OwedIsDue ==
  ASSUME LedgerInv, result = "none", NEW f \in Files, Work({f}) \in Nat, Work({f}) >= 1
  PROVE  recorded[f] < Promise!Due(f)
<1>1. CountTypes /\ recorded[f] \in Nat /\ recorded[f] + Work({f}) <= Visits({f})
  BY DEF LedgerInv, WithinRoots, CountTypes
<1>2. {f} \in SUBSET Nodes
  BY DEF Nodes
<1>3. Visits({f}) \in Nat
  BY <1>1, <1>2, VisitsAreCounted
<1>4. Visits({f}) = Cardinality({r \in visited : f \in Below[r]})
  BY <1>1, VisitsOfAFile
<1> QED
  BY <1>1, <1>3, <1>4, WhatIsDue

Promised == [Promise!Next]_(Promise!vars)

LEMMA WorkerKeepsPromise ==
  ASSUME IInv, LedgerInv, NEW w \in Workers, WorkerStep(w)
  PROVE  Promised
<1>1. /\ result = "none" /\ UNCHANGED <<visited, parentDone, result>>
  <2>1. result = "none" /\ UNCHANGED <<visited, result>>
    BY StepFrame DEF WorkerFrame
  <2>2. parentDone' = parentDone
    BY DEF WorkerStep, NextDirectory, FinishDirectory, OpenDirectory, EndDirectory,
       SkipEntry, ReadSubDir, AddDirectory, ReadFile, RecordFile, KeepError, CancelScan,
       CloseAndLeave, contexts
  <2> QED
    BY <2>1, <2>2
<1>2. CASE UNCHANGED <<recorded, ignored>>
  BY <1>1, <1>2 DEF Promised, Promise!vars
<1>3. CASE recorded' = recorded /\ ignored' = ignored + 1
  BY <1>1, <1>3 DEF Promised, Promise!Next, Promise!PassOver
<1>4. ASSUME RecordFile(w), NEW f \in found[w],
             recorded' = [recorded EXCEPT ![f] = @ + 1], ignored' = ignored
      PROVE  Promised
  <2>1. found[w] = {f} /\ f \in Files
    BY <1>4 DEF RecordFile, LedgerInv, HandInv
  <2>2. f \in Held(w) /\ {f} \in SUBSET Nodes
    <3>1. f \in Nodes
      BY <2>1 DEF Nodes
    <3> QED
      BY <2>1, <3>1, HandsAreNodes, ClaimedFacts DEF Held
  <2>3. recorded[f] < Promise!Due(f)
    BY <1>1, <2>1, <2>2, WorkRemains, OwedIsDue
  <2>4. Promise!Record(f)
    BY <1>1, <1>4, <2>3 DEF Promise!Record
  <2> QED
    BY <1>1, <2>1, <2>4 DEF Promised, Promise!Next
<1>5. CASE RecordFile(w)
  BY <1>2, <1>3, <1>4, <1>5 DEF RecordFile, Ignore
<1>6. CASE OpenDirectory(w) \/ EndDirectory(w) \/ SkipEntry(w)
  BY <1>2, <1>3, <1>6 DEF OpenDirectory, EndDirectory, SkipEntry, Ignore
<1>7. CASE \/ NextDirectory(w) \/ FinishDirectory(w) \/ ReadSubDir(w) \/ AddDirectory(w)
           \/ ReadFile(w) \/ KeepError(w) \/ CancelScan(w) \/ CloseAndLeave(w)
  BY <1>2, <1>7 DEF NextDirectory, FinishDirectory, ReadSubDir, AddDirectory, ReadFile,
     KeepError, CancelScan, CloseAndLeave, report
<1> QED
  BY <1>5, <1>6, <1>7 DEF WorkerStep

(* Before the workers start nobody but the caller can have cancelled.        *)
LEMMA EarlyStop ==
  ASSUME IInv, main \in Early, scanDone
  PROVE  parentDone
BY DEF IInv, CallerInv, FailInv

LEMMA GivingUp ==
  ASSUME NEW e \in Promise!Failures, result = "none", result' = e,
         e = "cancelled" => parentDone,
         UNCHANGED <<visited, recorded, ignored, parentDone>>
  PROVE  Promised
BY DEF Promised, Promise!Next, Promise!GiveUp

LEMMA RootsKeepPromise ==
  ASSUME IInv, LedgerInv, CheckRoots \/ TakeRoot \/ RecordRoot \/ StartWorkers
  PROVE  Promised
<1>0. CountTypes /\ StageInv /\ Types
  BY DEF LedgerInv, IInv, QueueInv
<1>1. main \in Early /\ result = "none" /\ parentDone' = parentDone
  BY <1>0 DEF CheckRoots, TakeRoot, RecordRoot, StartWorkers, Early, StageInv, contexts
<1>2. {"nothing-readable", "unsafe-root", "root-changed", "limit", "cancelled"}
        \subseteq Promise!Failures
  BY DEF Promise!Failures
<1>3. CASE UNCHANGED <<visited, recorded, ignored, result>>
  BY <1>1, <1>3 DEF Promised, Promise!vars
<1>4. CASE CheckRoots
  BY <1>1, <1>2, <1>3, <1>4, GivingUp DEF CheckRoots, Return, caller, report
<1>5. CASE StartWorkers
  BY <1>1, <1>2, <1>3, <1>5, GivingUp DEF StartWorkers, Return, caller, report
<1>6. CASE ignored' = ignored + 1 /\ UNCHANGED <<visited, recorded, result>>
  BY <1>1, <1>6 DEF Promised, Promise!Next, Promise!PassOver
<1>7. CASE TakeRoot
  <2> DEFINE r == Head(roots)
  <2>1. r \in Nodes
    BY <1>0, <1>7 DEF TakeRoot, CountTypes
  <2>2. CASE scanDone /\ result' = "cancelled" /\ UNCHANGED <<visited, recorded, ignored>>
    BY <1>1, <1>2, <2>2, EarlyStop, GivingUp
  <2>3. CASE result' = "unsafe-root" /\ UNCHANGED <<visited, recorded, ignored>>
    BY <1>1, <1>2, <2>3, GivingUp
  <2>4. CASE /\ r \notin visited /\ visited' = visited \cup {r}
             /\ result' \in {result, "limit"} /\ UNCHANGED <<recorded, ignored>>
    <3>1. Promise!Admit(r)
      BY <1>1, <2>4 DEF Promise!Admit
    <3> QED
      BY <1>1, <2>1, <3>1 DEF Promised, Promise!Next
  <2> QED
    BY <1>3, <1>6, <1>7, <2>2, <2>3, <2>4
    DEF TakeRoot, Return, Ignore, Seen, caller, report
<1>8. CASE RecordRoot
  <2> DEFINE r == Head(roots)
  <2>1. r \in Files /\ main = "record-root"
    BY <1>0, <1>8 DEF RecordRoot, CountTypes
  <2>2. visited' = visited
    BY <1>8 DEF RecordRoot
  <2>3. CASE result' \in {"root-changed", "limit"} /\ UNCHANGED <<recorded, ignored>>
    BY <1>1, <1>2, <2>2, <2>3, GivingUp
  <2>4. CASE recorded' = [recorded EXCEPT ![r] = @ + 1] /\ UNCHANGED <<ignored, result>>
    <3>1. {r} \in SUBSET Nodes /\ RootWork({r}) = {r}
      BY <2>1 DEF Nodes, RootWork
    <3>2. Work({r}) \in Nat /\ Work({r}) >= 1
      <4> DEFINE a == Cardinality(HeldWork({r}))
                 b == Cardinality(UnreadWork({r}))
                 q == Cardinality(QueueOf(Waiting, {r}))
                 k == Cardinality(RootWork({r}))
      <4>1. a \in Nat /\ b \in Nat /\ q \in Nat /\ Work({r}) = q + a + b + k
        BY <1>0, <3>1, WorkIsCounted DEF Work
      <4>2. k = 1
        BY <3>1, FS_Singleton
      <4> HIDE DEF a, b, q, k
      <4> QED
        BY <4>1, <4>2
    <3> HIDE DEF r
    <3>3. recorded[r] < Promise!Due(r)
      BY <1>1, <2>1, <3>2, OwedIsDue
    <3>4. Promise!Record(r)
      BY <1>1, <2>2, <2>4, <3>3 DEF Promise!Record
    <3> QED
      BY <1>1, <2>1, <3>4 DEF Promised, Promise!Next
  <2> QED
    BY <1>6, <1>8, <2>2, <2>3, <2>4 DEF RecordRoot, Return, Ignore
<1> QED
  BY <1>4, <1>5, <1>7, <1>8

LEMMA EndKeepsPromise ==
  ASSUME IInv, LedgerInv, SuccessIsComplete', Join \/ Conclude \/ Watch \/ Cancel
  PROVE  Promised
<1>1. UNCHANGED <<visited, recorded, ignored>>
  BY DEF Join, Conclude, Watch, Cancel, caller, report
<1>2. CASE Join \/ Watch
  BY <1>1, <1>2 DEF Join, Watch, contexts, Promised, Promise!vars
<1>3. CASE Cancel
  <2>1. result = "none" /\ result' = result /\ parentDone' = TRUE
    BY <1>3 DEF Cancel, LedgerInv, StageInv
  <2> QED
    BY <1>1, <2>1 DEF Promised, Promise!Next, Promise!Stop
<1>4. CASE Conclude
  <2>1. /\ result = "none" /\ parentDone' = parentDone
        /\ result' = Verdict \/ result' = "root-changed"
    BY <1>4 DEF Conclude, Return, contexts, LedgerInv, StageInv
  <2>2. CASE result' = "ok"
    <3>1. ~parentDone
      BY <2>1, <2>2, <1>4 DEF Verdict
    <3>2. ignored = 0 => \A f \in Files :
            recorded[f] = Cardinality({r \in visited : f \in Below[r]})
      BY <1>1, <2>2 DEF SuccessIsComplete
    <3>3. ignored = 0 => Promise!Complete
      BY <3>2, WhatIsDue DEF Promise!Complete
    <3> QED
      BY <1>1, <2>1, <2>2, <3>1, <3>3 DEF Promised, Promise!Next, Promise!Succeed
  <2>3. CASE result' # "ok"
    <3>1. result' \in Promise!Failures /\ (result' = "cancelled" => parentDone)
      BY <2>1, <2>3 DEF Verdict, Promise!Failures, IInv, FailInv, Errors
    <3> QED
      BY <1>1, <2>1, <3>1, GivingUp
  <2> QED
    BY <2>2, <2>3
<1> QED
  BY <1>2, <1>3, <1>4

(* The scan keeps its promise for every tree, root list and number of       *)
(* workers (engine.go 243-464): whatever fails, no file is recorded twice    *)
(* for one root, a complete inventory is behind an "ok", a stop behind a     *)
(* "cancelled", and the report does not change once it is returned.          *)
THEOREM ScanKeepsThePromise == Spec => KeepsThePromise
<1>1. Init => Promise!Init
  BY DEF Init, Promise!Init
<1>2. IInv /\ LedgerInv /\ SuccessIsComplete' /\ [Next]_vars => Promised
  <2> SUFFICES ASSUME IInv, LedgerInv, SuccessIsComplete', [Next]_vars PROVE Promised
    OBVIOUS
  <2>1. CASE \E w \in Workers : WorkerStep(w)
    BY <2>1, WorkerKeepsPromise
  <2>2. CASE CheckRoots \/ TakeRoot \/ RecordRoot \/ StartWorkers
    BY <2>2, RootsKeepPromise
  <2>3. CASE Join \/ Conclude \/ Watch \/ Cancel
    BY <2>3, EndKeepsPromise
  <2>4. CASE UNCHANGED vars
    BY <2>4 DEF vars, Promised, Promise!vars
  <2> QED
    BY <2>1, <2>2, <2>3, <2>4 DEF Next, MainStep
<1>3. IInv /\ LedgerInv /\ SuccessIsComplete' /\ [Next]_vars
        => [Promise!Next]_(Promise!vars)
  BY <1>2 DEF Promised
<1> QED
  BY <1>1, <1>3, SpecLedger, NoFileIsMissed, PTL DEF Spec, KeepsThePromise, Promise!Spec

================================================================================
