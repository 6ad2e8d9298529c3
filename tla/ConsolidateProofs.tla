---------------------------- MODULE ConsolidateProofs ----------------------------
(***************************************************************************)
(* Theorems about hardlink consolidation, for every group, request, number *)
(* of failing calls and of steps of other programs: the keeper is pinned   *)
(* while its copies go, what is removed is backed by the keeper, foreign   *)
(* files stay, and what is reported is where the bytes are.                *)
(***************************************************************************)
EXTENDS Consolidate, SequenceTheorems, TLAPS

(* Where a target is being served; what it needs on the way.                *)
Searching == {"keeper"}
Kept == {"volume", "open", "prepare", "aside", "link", "restore", "check", "dispose"}
Closing == {"closeTarget", "closeKeeper"}
Serving == Searching \cup Kept \cup Closing
Active == Serving \cup {"next"}
InPlace == {"keeper", "volume", "open", "prepare", "aside"}
SetAside == {"link", "restore", "check", "dispose"}
Opened == {"prepare", "aside"} \cup SetAside

Types ==
  /\ request \in Seq(Members \cup {Alien})
  /\ at \in [Members -> Members \cup {Nothing, Alien}]
  /\ backup \in [Members -> Members \cup {Nothing}]
  /\ edited \subseteq Members
  /\ pc \in Active \cup {"validate", "done", "crashed"}
  /\ next \in Nat \ {0}
  /\ untried \subseteq Keepers
  /\ seen \subseteq Statuses \ {"consolidated"}
  /\ keeper \in Members \cup {Nothing}
  /\ held \in BOOLEAN /\ marked \in BOOLEAN
  /\ fate \in [Members -> {"home", "aside", "replaced"}]
  /\ foreign \in Nat

LoopInv ==
  /\ pc \in Active => Valid(request)
  /\ pc \in Serving => next \in 1..Len(request) /\ Target \in Members

(* What the two handles keep other programs from changing.                  *)
KeeperInv ==
  /\ keeper # Nothing => /\ keeper \in Members \ Range(request)
                         /\ at[keeper] = keeper
                         /\ keeper \notin edited
                         /\ pc \in Kept \cup Closing
  /\ pc \in Kept => keeper # Nothing

TargetInv ==
  /\ pc \in Opened => held
  /\ held => pc \in Opened \cup {"closeTarget"} /\ Target \notin edited
  /\ pc \in {"prepare", "aside"} => at[Target] = Target
  /\ marked => pc = "closeTarget" /\ held /\ keeper # Nothing
  /\ pc = "dispose" \/ marked => at[Target] = keeper
  /\ \A m \in Members : backup[m] \in {m, Nothing}

DiskInv == Types /\ LoopInv /\ KeeperInv /\ TargetInv

--------------------------------------------------------------------------------
LEMMA TargetIsRequested ==
  ASSUME Types, LoopInv, pc \in Serving
  PROVE  Target \in Members /\ Target \in Range(request) /\ Target # Nothing /\ Target # Alien
BY ConsolidateAssumption DEF Types, LoopInv, Target, Range

LEMMA VerifiedIsInPlace ==
  ASSUME NEW m \in Members, Verification(m) = "verified"
  PROVE  at[m] = m /\ m \notin edited
BY DEF Verification

LEMMA VerificationFails ==
  ASSUME NEW m, Verification(m) # "verified"
  PROVE  Verification(m) \in Statuses \ {"consolidated"}
BY DEF Verification, Statuses

LEMMA InitDiskInv == Init => DiskInv
<1> SUFFICES ASSUME Init PROVE DiskInv
  OBVIOUS
<1>1. pc = "validate" /\ keeper = Nothing /\ held = FALSE /\ marked = FALSE
  BY DEF Init
<1>2. request \in Seq(Members \cup {Alien})
  BY ConsolidateAssumption DEF Init
<1>3. Types
  <2>1. /\ at \in [Members -> Members \cup {Nothing, Alien}]
        /\ backup \in [Members -> Members \cup {Nothing}]
        /\ fate \in [Members -> {"home", "aside", "replaced"}]
    BY DEF Init
  <2>2. next \in Nat \ {0} /\ foreign \in Nat
    BY DEF Init
  <2>3. edited = {} /\ untried = {} /\ seen = {}
    BY DEF Init
  <2> QED BY <1>1, <1>2, <2>1, <2>2, <2>3 DEF Types
<1>4. LoopInv /\ KeeperInv /\ TargetInv
  BY <1>1 DEF Init, LoopInv, KeeperInv, TargetInv, Active, Serving, Searching, Kept,
     Closing, Opened, SetAside
<1> QED BY <1>3, <1>4 DEF DiskInv

(* Steps that leave the disk alone.                                         *)
LEMMA SearchStep ==
  ASSUME DiskInv, \/ Validate \/ NextTarget \/ TryKeeper \/ NoKeeper \/ CompareVolumes
                  \/ OpenTarget \/ Prepare \/ CheckLink \/ CloseKeeper \/ Cancel
  PROVE  DiskInv'
<1>0. Types /\ LoopInv /\ KeeperInv /\ TargetInv
  BY DEF DiskInv
<1> USE DEF Active, Serving, Searching, Kept, Closing, Opened, SetAside
<1>1. UNCHANGED <<request, at, backup, edited, foreign>>
  BY DEF Validate, NextTarget, TryKeeper, NoKeeper, CompareVolumes, OpenTarget, Prepare,
     CheckLink, CloseKeeper, Cancel, input, files, outside
<1>2. Keepers' = Keepers /\ (next' = next => Target' = Target)
  BY <1>1 DEF Keepers, Target
<1>3. CASE Validate
  <2>1. UNCHANGED <<next, untried, seen, keeper, held, marked, fate>>
    BY <1>3 DEF Validate, search, handles
  <2>2. pc = "validate" /\ ((pc' = "next" /\ Valid(request)) \/ pc' = "done")
    BY <1>3 DEF Validate
  <2>3. keeper = Nothing /\ ~held /\ ~marked
    BY <1>0, <2>2 DEF KeeperInv, TargetInv
  <2>4. Types' /\ LoopInv' /\ KeeperInv' /\ TargetInv'
    BY <1>0, <1>1, <1>2, <2>1, <2>2, <2>3 DEF Types, LoopInv, KeeperInv, TargetInv, Valid
  <2> QED BY <2>4 DEF DiskInv
<1>4. CASE NextTarget
  <2>1. UNCHANGED <<keeper, held, marked, fate>> /\ pc = "next"
    BY <1>4 DEF NextTarget, handles
  <2>2. keeper = Nothing /\ ~held /\ ~marked
    BY <1>0, <2>1 DEF KeeperInv, TargetInv
  <2>3. \/ pc' = "done" /\ UNCHANGED <<next, untried, seen>>
        \/ pc' = "next" /\ next' = next + 1 /\ UNCHANGED <<untried, seen>>
        \/ /\ pc' = "keeper" /\ next <= Len(request) /\ next' = next
           /\ untried' = Keepers /\ seen' = {}
    <3>1. next \in Nat /\ Len(request) \in Nat
      BY <1>0 DEF Types
    <3>2. CASE next > Len(request)
      BY <1>4, <3>2 DEF NextTarget, search
    <3>3. CASE ~(next > Len(request)) /\ cancelled
      BY <1>4, <2>1, <3>3 DEF NextTarget, search
    <3>4. CASE ~(next > Len(request)) /\ ~cancelled
      BY <1>4, <3>1, <3>4 DEF NextTarget
    <3> QED BY <3>2, <3>3, <3>4
  <2>4. pc' = "keeper" => next' \in 1..Len(request) /\ Target' \in Members
    BY <1>0, <1>1, <1>2, <2>1, <2>3 DEF Types, LoopInv, Valid, Target, Range
  <2>5. Types' /\ LoopInv' /\ KeeperInv' /\ TargetInv'
    BY <1>0, <1>1, <1>2, <2>1, <2>2, <2>3, <2>4 DEF Types, LoopInv, KeeperInv, TargetInv, Valid
  <2> QED BY <2>5 DEF DiskInv
<1>5. CASE TryKeeper
  <2>1. PICK i \in untried :
          \/ /\ Verification(Group[i]) = "verified"
             /\ keeper' = Group[i] /\ pc' = "volume"
             /\ UNCHANGED <<search, verdict, faults>>
          \/ /\ Verification(Group[i]) # "verified"
             /\ Refused(i, Verification(Group[i]))
             /\ UNCHANGED <<keeper, faults>>
          \/ Fail /\ Refused(i, "failed") /\ UNCHANGED keeper
    BY <1>5 DEF TryKeeper
  <2>2. pc = "keeper" /\ UNCHANGED <<next, held, marked, fate>>
    BY <1>5 DEF TryKeeper
  <2>3. keeper = Nothing /\ ~held /\ ~marked
    BY <1>0, <2>2 DEF KeeperInv, TargetInv
  <2>4. i \in DOMAIN Group /\ Group[i] \in Members \ Range(request)
    BY <1>0 DEF Types, Keepers, Members, Range
  <2>5. \/ /\ keeper' = Group[i] /\ pc' = "volume" /\ UNCHANGED <<untried, seen>>
           /\ at[keeper'] = keeper' /\ keeper' \notin edited
        \/ /\ keeper' = keeper /\ pc' = "closeTarget" /\ UNCHANGED <<untried, seen>>
        \/ /\ keeper' = keeper /\ pc' = pc /\ untried' = untried \ {i}
           /\ seen' \subseteq Statuses \ {"consolidated"}
    <3>1. ASSUME NEW status \in Statuses \ {"consolidated"}, Refused(i, status), keeper' = keeper
          PROVE  \/ /\ keeper' = keeper /\ pc' = "closeTarget" /\ UNCHANGED <<untried, seen>>
                 \/ /\ keeper' = keeper /\ pc' = pc /\ untried' = untried \ {i}
                    /\ seen' \subseteq Statuses \ {"consolidated"}
      BY <1>0, <3>1 DEF Refused, Conclude, search, NextCandidate, Types
    <3>2. "failed" \in Statuses \ {"consolidated"}
      BY DEF Statuses
    <3> QED BY <2>1, <2>4, <3>1, <3>2, VerifiedIsInPlace, VerificationFails DEF search
  <2>6. Group[i] # Nothing
    BY <2>4, ConsolidateAssumption
  <2>7. Types' /\ LoopInv'
    BY <1>0, <1>1, <1>2, <2>2, <2>4, <2>5 DEF Types, LoopInv, Valid
  <2>8. KeeperInv'
    BY <1>0, <1>1, <2>2, <2>3, <2>4, <2>5, <2>6 DEF KeeperInv
  <2>9. TargetInv'
    BY <1>0, <1>1, <1>2, <2>2, <2>3, <2>5 DEF TargetInv
  <2> QED BY <2>7, <2>8, <2>9 DEF DiskInv
<1>6. CASE NoKeeper
  <2>1. UNCHANGED <<next, untried, seen, keeper, held, marked, fate>>
    BY <1>6 DEF NoKeeper, search, handles
  <2>2. pc = "keeper" /\ pc' = "closeTarget"
    BY <1>6 DEF NoKeeper, Conclude
  <2>3. keeper = Nothing /\ ~held /\ ~marked
    BY <1>0, <2>2 DEF KeeperInv, TargetInv
  <2>4. Types' /\ LoopInv' /\ KeeperInv' /\ TargetInv'
    BY <1>0, <1>1, <1>2, <2>1, <2>2, <2>3 DEF Types, LoopInv, KeeperInv, TargetInv, Valid
  <2> QED BY <2>4 DEF DiskInv
<1>7. CASE CompareVolumes \/ OpenTarget \/ Prepare \/ CheckLink
  <2>1. UNCHANGED <<next, untried, seen, keeper, marked, fate>>
    BY <1>7 DEF CompareVolumes, OpenTarget, Prepare, CheckLink, search, handles
  <2>2. \/ pc = "volume" /\ pc' \in {"open", "closeTarget"} /\ held' = held
        \/ /\ pc = "open" /\ pc' = "prepare" /\ held' = TRUE
           /\ Verification(Target) = "verified"
        \/ pc = "open" /\ pc' = "closeTarget" /\ held' = held
        \/ pc = "prepare" /\ pc' \in {"aside", "closeTarget"} /\ held' = held
        \/ pc = "check" /\ pc' = "closeTarget" /\ held' = held
        \/ pc = "check" /\ pc' = "dispose" /\ held' = held /\ at[Target] = keeper
    BY <1>7 DEF CompareVolumes, OpenTarget, Prepare, CheckLink, Conclude, handles
  <2>3. Target \in Members
    BY <1>0, <2>2, TargetIsRequested
  <2>4. Verification(Target) = "verified" => at[Target] = Target /\ Target \notin edited
    BY <2>3, VerifiedIsInPlace
  <2>5. Types' /\ LoopInv' /\ KeeperInv'
    BY <1>0, <1>1, <1>2, <2>1, <2>2 DEF Types, LoopInv, KeeperInv, Valid
  <2>6. TargetInv'
    BY <1>0, <1>1, <1>2, <2>1, <2>2, <2>4 DEF TargetInv
  <2> QED BY <2>5, <2>6 DEF DiskInv
<1>8. CASE CloseKeeper
  <2>1. /\ UNCHANGED <<untried, seen, held, marked, fate>> /\ pc = "closeKeeper"
        /\ pc' = "next" /\ keeper' = Nothing /\ next' = next + 1
    BY <1>8 DEF CloseKeeper, search
  <2>2. ~held /\ ~marked
    BY <1>0, <2>1 DEF TargetInv
  <2>3. Types' /\ LoopInv'
    BY <1>0, <1>1, <1>2, <2>1 DEF Types, LoopInv, Valid
  <2>4. KeeperInv' /\ TargetInv'
    BY <1>0, <1>1, <2>1, <2>2 DEF KeeperInv, TargetInv
  <2> QED BY <2>3, <2>4 DEF DiskInv
<1>9. CASE Cancel
  <2>1. UNCHANGED <<pc, next, untried, seen, keeper, held, marked, fate>>
    BY <1>9 DEF Cancel, search, handles
  <2> QED BY <1>0, <1>1, <1>2, <2>1 DEF DiskInv, Types, LoopInv, KeeperInv, TargetInv, Valid
<1> QED BY <1>3, <1>4, <1>5, <1>6, <1>7, <1>8, <1>9

(* Steps that change the disk.                                              *)
LEMMA RenameAsideStep ==
  ASSUME DiskInv, RenameAside
  PROVE  DiskInv'
<1> USE DEF Active, Serving, Searching, Kept, Closing, Opened, SetAside
<1>0. Types /\ LoopInv /\ KeeperInv /\ TargetInv
  BY DEF DiskInv
<1>1. /\ pc = "aside"
      /\ UNCHANGED <<request, edited, foreign, next, untried, seen, keeper, held, marked>>
  BY DEF RenameAside, input, search, handles, outside
<1>2. Keepers' = Keepers /\ Target' = Target
  BY <1>1 DEF Keepers, Target
<1>3. \/ pc' = "closeTarget" /\ UNCHANGED <<at, backup, fate>>
      \/ /\ pc' = "link"
         /\ at' = [at EXCEPT ![Target] = Nothing]
         /\ backup' = [backup EXCEPT ![Target] = Target]
         /\ fate' = [fate EXCEPT ![Target] = "aside"]
  BY DEF RenameAside, Conclude
<1>4. Target \in Members \cap Range(request) /\ keeper \in Members \ Range(request)
  BY <1>0, <1>1, TargetIsRequested DEF KeeperInv
<1>5. Types' /\ LoopInv'
  BY <1>0, <1>1, <1>2, <1>3, <1>4 DEF Types, LoopInv, Valid
<1>6. KeeperInv'
  BY <1>0, <1>1, <1>3, <1>4 DEF KeeperInv, Types
<1>7. marked = FALSE /\ held = TRUE
  BY <1>0, <1>1 DEF TargetInv, Types
<1>8. TargetInv'
  BY <1>0, <1>1, <1>2, <1>3, <1>4, <1>7 DEF TargetInv, Types
<1> QED BY <1>5, <1>6, <1>8 DEF DiskInv

LEMMA LinkStep ==
  ASSUME DiskInv, LinkKeeper \/ RestoreOrReport
  PROVE  DiskInv'
<1> USE DEF Active, Serving, Searching, Kept, Closing, Opened, SetAside
<1>0. Types /\ LoopInv /\ KeeperInv /\ TargetInv
  BY DEF DiskInv
<1>1. /\ pc \in {"link", "restore"}
      /\ UNCHANGED <<request, edited, foreign, next, untried, seen, keeper, held, marked>>
  BY DEF LinkKeeper, RestoreOrReport, input, search, handles, outside
<1>2. Keepers' = Keepers /\ Target' = Target
  BY <1>1 DEF Keepers, Target
<1>3. \/ pc' \in {"restore", "closeTarget"} /\ UNCHANGED <<at, backup, fate>>
      \/ /\ pc' = "check"
         /\ at' = [at EXCEPT ![Target] = at[keeper]]
         /\ UNCHANGED <<backup, fate>>
      \/ /\ pc' = "closeTarget"
         /\ at' = [at EXCEPT ![Target] = Target]
         /\ backup' = [backup EXCEPT ![Target] = Nothing]
         /\ fate' = [fate EXCEPT ![Target] = "home"]
  BY DEF LinkKeeper, RestoreOrReport, Undo, Conclude, RestoreFailed
<1>4. /\ Target \in Members \cap Range(request)
      /\ keeper \in Members \ Range(request) /\ at[keeper] = keeper
  BY <1>0, <1>1, TargetIsRequested DEF KeeperInv
<1>5. Types' /\ LoopInv'
  BY <1>0, <1>1, <1>2, <1>3, <1>4 DEF Types, LoopInv, Valid
<1>6. KeeperInv'
  BY <1>0, <1>1, <1>3, <1>4 DEF KeeperInv, Types
<1>7. marked = FALSE /\ held = TRUE
  BY <1>0, <1>1 DEF TargetInv, Types
<1>8. TargetInv'
  BY <1>0, <1>1, <1>2, <1>3, <1>4, <1>7 DEF TargetInv, Types
<1> QED BY <1>5, <1>6, <1>8 DEF DiskInv

LEMMA DisposeStep ==
  ASSUME DiskInv, DisposeBackup
  PROVE  DiskInv'
<1> USE DEF Active, Serving, Searching, Kept, Closing, Opened, SetAside
<1>0. Types /\ LoopInv /\ KeeperInv /\ TargetInv
  BY DEF DiskInv
<1>1. /\ pc = "dispose" /\ pc' = "closeTarget"
      /\ UNCHANGED <<request, at, backup, edited, foreign, next, untried, seen, keeper, held>>
  BY DEF DisposeBackup, input, files, search, outside, Conclude
<1>2. Keepers' = Keepers /\ Target' = Target
  BY <1>1 DEF Keepers, Target
<1>3. \/ marked' = TRUE /\ fate' = [fate EXCEPT ![Target] = "replaced"]
      \/ UNCHANGED <<marked, fate>>
  BY DEF DisposeBackup
<1>4. Types' /\ LoopInv'
  BY <1>0, <1>1, <1>2, <1>3 DEF Types, LoopInv, Valid
<1>5. KeeperInv' /\ TargetInv'
  BY <1>0, <1>1, <1>2, <1>3 DEF KeeperInv, TargetInv
<1> QED BY <1>4, <1>5 DEF DiskInv

(* The end of the target handle, closed or with the process.                *)
LEMMA CloseStep ==
  ASSUME DiskInv, CloseTarget \/ Crash
  PROVE  DiskInv'
<1> USE DEF Active, Serving, Searching, Kept, Closing, Opened, SetAside
<1>0. Types /\ LoopInv /\ KeeperInv /\ TargetInv
  BY DEF DiskInv
<1>1. /\ UNCHANGED <<request, at, edited, foreign, next, untried, seen, fate>>
      /\ held' = FALSE /\ marked' = FALSE
      /\ \/ pc = "closeTarget" /\ pc' = "closeKeeper" /\ keeper' = keeper
         \/ pc' = "crashed" /\ keeper' = Nothing
  BY DEF CloseTarget, Crash, input, search, outside
<1>2. Keepers' = Keepers /\ Target' = Target
  BY <1>1 DEF Keepers, Target
<1>3. backup' = backup \/ backup' = [backup EXCEPT ![Target] = Nothing]
  BY DEF CloseTarget, Crash, Released
<1>4. backup' \in [Members -> Members \cup {Nothing}] /\ \A m \in Members : backup'[m] \in {m, Nothing}
  BY <1>0, <1>3 DEF Types, TargetInv
<1>5. Types' /\ LoopInv'
  BY <1>0, <1>1, <1>2, <1>4 DEF Types, LoopInv, Valid
<1>6. KeeperInv' /\ TargetInv'
  BY <1>0, <1>1, <1>2, <1>4 DEF KeeperInv, TargetInv
<1> QED BY <1>5, <1>6 DEF DiskInv

(* Other programs, which both handles keep out.                             *)
LEMMA ForeignStep ==
  ASSUME DiskInv, Foreign
  PROVE  DiskInv'
<1>0. Types /\ LoopInv /\ KeeperInv /\ TargetInv
  BY DEF DiskInv
<1>1. /\ UNCHANGED <<request, pc, next, untried, seen, keeper, held, marked, fate>>
      /\ foreign' = foreign + 1
  BY DEF Foreign, input, search, handles
<1>2. Keepers' = Keepers /\ Target' = Target
  BY <1>1 DEF Keepers, Target
<1>3. held => Target \in Members /\ Target # Nothing
  BY <1>0, TargetIsRequested DEF TargetInv, Opened, SetAside, Serving, Kept, Closing
<1>4. keeper \in Members => keeper # Nothing
  BY ConsolidateAssumption
<1>5. /\ at' \in [Members -> Members \cup {Nothing, Alien}]
      /\ \A m \in Members : at[m] # Nothing /\ HeldFile(at[m]) => at'[m] = at[m]
  BY <1>0 DEF Foreign, Types, Vacant
<1>6. /\ backup' \in [Members -> Members \cup {Nothing}]
      /\ \A m \in Members : backup'[m] \in {backup[m], Nothing}
  BY <1>0 DEF Foreign, Types
<1>7. /\ edited' \subseteq Members
      /\ \A f \in Members \ edited : HeldFile(f) => f \notin edited'
  BY <1>0 DEF Foreign, Types
<1>8. HeldFile(keeper) /\ (held => HeldFile(Target))
  BY DEF HeldFile
<1>9. Types' /\ LoopInv'
  BY <1>0, <1>1, <1>2, <1>5, <1>6, <1>7 DEF Types, LoopInv, Valid
<1>10. KeeperInv'
  BY <1>0, <1>1, <1>4, <1>5, <1>7, <1>8 DEF KeeperInv
<1>11. TargetInv'
  <2>1. held => Target \notin edited'
    BY <1>0, <1>3, <1>7, <1>8 DEF TargetInv
  <2>2. pc \in {"prepare", "aside"} => at'[Target] = Target
    BY <1>0, <1>3, <1>5, <1>8 DEF TargetInv, Opened
  <2>3. pc = "dispose" \/ marked => held /\ keeper # Nothing /\ at'[Target] = keeper
    BY <1>0, <1>3, <1>5, <1>8 DEF TargetInv, KeeperInv, Opened, SetAside, Kept
  <2> QED BY <1>0, <1>1, <1>2, <1>6, <2>1, <2>2, <2>3 DEF TargetInv
<1> QED BY <1>9, <1>10, <1>11 DEF DiskInv

LEMMA NextDiskInv == DiskInv /\ [Next]_vars => DiskInv'
<1> SUFFICES ASSUME DiskInv, [Next]_vars PROVE DiskInv'
  OBVIOUS
<1>1. CASE Work
  BY <1>1, SearchStep, RenameAsideStep, LinkStep, DisposeStep, CloseStep DEF Work
<1>2. CASE Cancel \/ Crash \/ Foreign
  BY <1>2, SearchStep, CloseStep, ForeignStep
<1>3. CASE UNCHANGED vars
  <2>1. UNCHANGED <<request, at, backup, edited, pc, next, untried, seen, keeper, held,
                    marked, fate, foreign>>
    BY <1>3 DEF vars
  <2>2. Keepers' = Keepers /\ Target' = Target
    BY <2>1 DEF Keepers, Target
  <2> QED BY <2>1, <2>2 DEF DiskInv, Types, LoopInv, KeeperInv, TargetInv, Valid
<1> QED BY <1>1, <1>2, <1>3 DEF Next

LEMMA SpecDiskInv == Spec => []DiskInv
BY InitDiskInv, NextDiskInv, PTL DEF Spec

--------------------------------------------------------------------------------
(* While a target is away from its path the keeper is still the unchanged   *)
(* file of its own record (hardlink.go 96-99, hardlink_windows.go 25-35):   *)
(* its handle shares neither writing nor deletion.                          *)
THEOREM KeeperStaysPinned == Spec => []KeeperIsPinned
<1>1. DiskInv => KeeperIsPinned
  BY DEF DiskInv, KeeperInv, TargetInv, KeeperIsPinned, Kept
<1> QED BY <1>1, SpecDiskInv, PTL

(* Which names a step of this program takes away: the path of a target that *)
(* is set aside under its backup name, the backup of one that returns to    *)
(* its path, and the backup of one that was replaced.                       *)
LEMMA NamesTakenAway ==
  ASSUME DiskInv, [Next]_vars, foreign' = foreign
  PROVE  \/ \A m \in Members : /\ at[m] # Nothing => at'[m] = at[m]
                               /\ backup'[m] = backup[m]
         \/ /\ Target \in Members /\ at[Target] = Target /\ backup'[Target] = Target
            /\ \A m \in Members : /\ m # Target => at'[m] = at[m]
                                  /\ backup[m] # Nothing => backup'[m] = backup[m]
         \/ /\ Target \in Members /\ at[Target] = Nothing /\ at'[Target] = Target
            /\ backup[Target] \in {Target, Nothing}
            /\ \A m \in Members \ {Target} : at'[m] = at[m] /\ backup'[m] = backup[m]
         \/ /\ marked /\ Target \in Members /\ at' = at
            /\ backup[Target] \in {Target, Nothing}
            /\ \A m \in Members \ {Target} : backup'[m] = backup[m]
<1>0. Types /\ LoopInv /\ KeeperInv /\ TargetInv
  BY DEF DiskInv
<1>1. CASE \/ Validate \/ NextTarget \/ TryKeeper \/ NoKeeper \/ CompareVolumes
           \/ OpenTarget \/ Prepare \/ CheckLink \/ CloseKeeper \/ Cancel
           \/ DisposeBackup \/ UNCHANGED vars
  <2>1. at' = at /\ backup' = backup
    BY <1>1 DEF Validate, NextTarget, TryKeeper, NoKeeper, CompareVolumes, OpenTarget,
       Prepare, CheckLink, CloseKeeper, Cancel, DisposeBackup, files, vars
  <2> QED BY <2>1
<1>2. CASE RenameAside
  <2>1. /\ Target \in Members /\ at[Target] = Target /\ backup[Target] \in {Target, Nothing}
    BY <1>0, <1>2, TargetIsRequested DEF RenameAside, TargetInv, Serving, Kept
  <2>2. \/ at' = at /\ backup' = backup
        \/ /\ at' = [at EXCEPT ![Target] = Nothing]
           /\ backup' = [backup EXCEPT ![Target] = Target]
    BY <1>2 DEF RenameAside
  <2> QED BY <1>0, <2>1, <2>2 DEF Types
<1>3. CASE LinkKeeper
  <2>1. backup' = backup
    BY <1>3 DEF LinkKeeper
  <2>2. at' = at \/ (at[Target] = Nothing /\ at' = [at EXCEPT ![Target] = at[keeper]])
    BY <1>3 DEF LinkKeeper, Vacant
  <2> QED BY <1>0, <2>1, <2>2 DEF Types
<1>4. CASE RestoreOrReport
  <2>1. Target \in Members /\ backup[Target] \in {Target, Nothing}
    BY <1>0, <1>4, TargetIsRequested DEF RestoreOrReport, TargetInv, Serving, Kept
  <2>2. \/ at' = at /\ backup' = backup
        \/ /\ at[Target] = Nothing
           /\ at' = [at EXCEPT ![Target] = Target]
           /\ backup' = [backup EXCEPT ![Target] = Nothing]
    BY <1>4 DEF RestoreOrReport, Vacant
  <2> QED BY <1>0, <2>1, <2>2 DEF Types
<1>5. CASE CloseTarget \/ Crash
  <2>1. at' = at /\ backup' = Released
    BY <1>5 DEF CloseTarget, Crash
  <2>2. CASE ~marked
    BY <2>1, <2>2 DEF Released
  <2>3. CASE marked
    <3>1. Target \in Members /\ backup[Target] \in {Target, Nothing}
      BY <1>0, <2>3, TargetIsRequested DEF TargetInv, Serving, Closing
    <3> QED BY <1>0, <2>1, <2>3, <3>1 DEF Released, Types
  <2> QED BY <2>2, <2>3
<1>6. ~Foreign
  BY <1>0 DEF Foreign, Types
<1> QED BY <1>1, <1>2, <1>3, <1>4, <1>5, <1>6 DEF Next, Work

LEMMA RemovalStep ==
  ASSUME DiskInv, [Next]_vars, foreign' = foreign,
         NEW f \in Members, Names(f) # {}, Names(f)' = {}
  PROVE  /\ f \notin edited
         /\ at[f] \in Members \ (Range(request) \cup edited)
<1>0. Types /\ LoopInv /\ KeeperInv /\ TargetInv
  BY DEF DiskInv
<1>1. PICK m \in Members : at[m] = f \/ backup[m] = f
  BY DEF Names
<1>2. \A n \in Members : at'[n] # f /\ backup'[n] # f
  BY DEF Names
<1>3. f # Nothing
  BY ConsolidateAssumption
<1>4. marked /\ f = Target
  BY <1>0, <1>1, <1>2, <1>3, NamesTakenAway DEF TargetInv
<1>5. f \notin edited /\ at[f] = keeper /\ keeper # Nothing
  BY <1>0, <1>4 DEF TargetInv
<1> QED BY <1>0, <1>5 DEF KeeperInv

(* A file that consolidation removes, now or as the process dies, held the  *)
(* content of the group to the end, and its path names an unselected member *)
(* with that content (hardlink.go 12-16), whichever call failed and         *)
(* whatever other programs did.                                             *)
THEOREM NothingIsLost == Spec => RemovalIsBacked
<1>1. DiskInv /\ [Next]_vars =>
        [foreign' = foreign =>
           \A f \in Members : Names(f) # {} /\ Names(f)' = {} =>
             /\ f \notin edited
             /\ at[f] \in Members \ (Range(request) \cup edited)]_vars
  BY RemovalStep
<1> QED BY <1>1, SpecDiskInv, PTL DEF Spec, RemovalIsBacked

(* Consolidation never takes a path from a file of another program          *)
(* (hardlink_windows.go 196-197), even from one that came while the target  *)
(* was aside.                                                               *)
THEOREM ForeignFilesAreKept == Spec => ForeignFilesStay
<1>1. ASSUME DiskInv, [Next]_vars, foreign' = foreign, NEW m \in Members, at[m] = Alien
      PROVE  at'[m] = Alien
  BY <1>1, NamesTakenAway, ConsolidateAssumption
<1>2. DiskInv /\ [Next]_vars =>
        [foreign' = foreign => \A m \in Members : at[m] = Alien => at'[m] = Alien]_vars
  BY <1>1
<1> QED BY <1>2, SpecDiskInv, PTL DEF Spec, ForeignFilesStay


--------------------------------------------------------------------------------
(* What is reported of a target agrees with where its bytes are: of those   *)
(* already answered, and of the one being served.                           *)
Agrees(item, where) ==
  /\ item.status = "consolidated" <=> where = "replaced"
  /\ item.status # "consolidated" => (item.backup <=> where = "aside")

Answered == {request[i] : i \in 1..(next - 1)}

ReportInv ==
  pc \in Active =>
    /\ next <= Len(request) + 1
    /\ items \in Seq([path : Members, status : Statuses, backup : BOOLEAN])
    /\ Len(items) = next - 1
    /\ \A i \in 1..(next - 1) :
         items[i].path = request[i] /\ Agrees(items[i], fate[request[i]])
    /\ \A m \in Members \ Answered :
         fate[m] = "home" \/ (pc \in SetAside \cup Closing /\ m = Target)
    /\ pc \in SetAside => fate[Target] = "aside"
    /\ pc = "restore" => verdict.status \in {"cancelled", "failed"}
    /\ pc \in Closing => /\ verdict.path = Target
                        /\ verdict \in [path : Members, status : Statuses, backup : BOOLEAN]
                        /\ Agrees(verdict, fate[Target])

FullInv ==
  /\ DiskInv /\ ReportInv
  /\ pc = "validate" => items = <<>> /\ next = 1 /\ fate = [m \in Members |-> "home"]

LEMMA NotAnsweredYet ==
  ASSUME Types, LoopInv, pc \in Serving
  PROVE  Target \notin Answered
BY DEF Types, LoopInv, Target, Answered, Valid, IsInjective, Active

(* A target ends with a verdict that agrees with its fate.                  *)
LEMMA ConcludeAgrees ==
  ASSUME NEW status \in Statuses, NEW retained \in BOOLEAN, Target \in Members,
         Conclude(status, retained), Target' = Target,
         NEW where, where = fate'[Target],
         status = "consolidated" <=> where = "replaced",
         status # "consolidated" => (retained <=> where = "aside")
  PROVE  /\ pc' = "closeTarget" /\ verdict'.path = Target'
         /\ verdict' \in [path : Members, status : Statuses, backup : BOOLEAN]
         /\ Agrees(verdict', fate'[Target'])
BY DEF Conclude, Item, Agrees

(* Steps within a target, which leave the items alone.                      *)
LEMMA WithinTarget ==
  ASSUME FullInv, DiskInv', pc \in Serving, pc' \in Serving,
         UNCHANGED <<request, next, items>>,
         \A m \in Members \ {Target} : fate'[m] = fate[m],
         pc' \in InPlace => fate'[Target] = fate[Target] /\ pc \in InPlace,
         pc' \in SetAside => fate'[Target] = "aside",
         pc' = "restore" => verdict'.status \in {"cancelled", "failed"},
         pc' \in Closing => /\ verdict'.path = Target'
                          /\ verdict' \in [path : Members, status : Statuses, backup : BOOLEAN]
                          /\ Agrees(verdict', fate'[Target'])
  PROVE  FullInv'
<1> USE DEF Active, Serving, Searching, Kept, Closing, SetAside, InPlace
<1>0. Types /\ LoopInv /\ ReportInv
  BY DEF FullInv, DiskInv
<1>1. Target' = Target /\ Answered' = Answered
  BY DEF Target, Answered
<1>2. Target \notin Answered
  BY <1>0, NotAnsweredYet
<1>3. \A i \in 1..(next - 1) : request[i] \in Answered
  BY DEF Answered
<1>4. next - 1 <= Len(request) /\ \A i \in 1..(next - 1) : request[i] \in Members
  BY <1>0 DEF Types, LoopInv, Valid, Range
<1>5. \A i \in 1..(next - 1) : fate'[request[i]] = fate[request[i]]
  BY <1>2, <1>3, <1>4
<1>6. \A m \in Members \ Answered' :
         fate'[m] = "home" \/ (pc' \in SetAside \cup Closing /\ m = Target')
  BY <1>0, <1>1 DEF ReportInv
<1>7. ReportInv'
  BY <1>0, <1>1, <1>5, <1>6 DEF ReportInv
<1> QED BY <1>7 DEF FullInv

LEMMA InitFullInv == Init => FullInv
<1>1. Init => DiskInv
  BY InitDiskInv
<1>2. Init => ReportInv
  BY DEF Init, ReportInv, Active, Serving, Searching, Kept, Closing
<1> QED BY <1>1, <1>2 DEF Init, FullInv

LEMMA SearchAgrees ==
  ASSUME FullInv, DiskInv',
         \/ TryKeeper \/ NoKeeper \/ CompareVolumes \/ OpenTarget \/ Prepare
  PROVE  FullInv'
<1> USE DEF Active, Serving, Searching, Kept, Closing, SetAside, InPlace
<1>0. Types /\ LoopInv /\ ReportInv /\ TargetInv
  BY DEF FullInv, DiskInv
<1>1. pc \in InPlace /\ UNCHANGED <<request, next, items, fate>>
  BY DEF TryKeeper, NoKeeper, CompareVolumes, OpenTarget, Prepare, input
<1>2. Target \in Members /\ Target \notin Answered /\ Target' = Target
  BY <1>0, <1>1, TargetIsRequested, NotAnsweredYet DEF Target
<1>3. fate[Target] = "home"
  BY <1>0, <1>1, <1>2 DEF ReportInv
<1>4. \/ pc' \in InPlace
      \/ \E status \in Statuses \ {"consolidated"} : Conclude(status, FALSE)
  <2>1. CASE TryKeeper
    BY <2>1, VerificationFails DEF TryKeeper, Refused, Statuses
  <2>2. CASE NoKeeper
    BY <2>2 DEF NoKeeper, WorstOf, Statuses
  <2>3. CASE CompareVolumes
    BY <2>3 DEF CompareVolumes, Statuses
  <2>4. CASE OpenTarget
    BY <2>4, VerificationFails DEF OpenTarget, Statuses
  <2>5. CASE Prepare
    BY <2>5 DEF Prepare, Statuses
  <2> QED BY <2>1, <2>2, <2>3, <2>4, <2>5
<1>5. CASE pc' \in InPlace
  BY <1>1, <1>5, WithinTarget
<1>6. ASSUME NEW status \in Statuses \ {"consolidated"}, Conclude(status, FALSE)
      PROVE  FullInv'
  <2>1. /\ pc' = "closeTarget" /\ verdict'.path = Target'
        /\ verdict' \in [path : Members, status : Statuses, backup : BOOLEAN]
        /\ Agrees(verdict', fate'[Target'])
    BY <1>1, <1>2, <1>3, <1>6, ConcludeAgrees
  <2> QED BY <1>1, <2>1, WithinTarget
<1> QED BY <1>4, <1>5, <1>6

LEMMA MoveAgrees ==
  ASSUME FullInv, DiskInv',
         \/ RenameAside \/ LinkKeeper \/ RestoreOrReport \/ CheckLink \/ DisposeBackup
         \/ CloseTarget
  PROVE  FullInv'
<1> USE DEF Active, Serving, Searching, Kept, Closing, SetAside, InPlace
<1>0. Types /\ LoopInv /\ ReportInv
  BY DEF FullInv, DiskInv
<1>1. /\ pc \in {"aside"} \cup SetAside \cup {"closeTarget"}
      /\ UNCHANGED <<request, next, items>>
  BY DEF RenameAside, LinkKeeper, RestoreOrReport, CheckLink, DisposeBackup, CloseTarget, input
<1>2. Target \in Members /\ Target \notin Answered /\ Target' = Target
  BY <1>0, <1>1, TargetIsRequested, NotAnsweredYet DEF Target
<1>3. /\ pc = "aside" => fate[Target] = "home"
      /\ pc \in SetAside => fate[Target] = "aside"
  BY <1>0, <1>1, <1>2 DEF ReportInv
<1>4. /\ "failed" \in Statuses \ {"consolidated"} /\ "cancelled" \in Statuses \ {"consolidated"}
      /\ "consolidated" \in Statuses
  BY DEF Statuses
<1>5. ASSUME NEW status \in Statuses, NEW retained \in BOOLEAN, Conclude(status, retained),
             \A m \in Members \ {Target} : fate'[m] = fate[m],
             status = "consolidated" <=> fate'[Target] = "replaced",
             status # "consolidated" => (retained <=> fate'[Target] = "aside")
      PROVE  FullInv'
  <2>1. /\ pc' = "closeTarget" /\ verdict'.path = Target'
        /\ verdict' \in [path : Members, status : Statuses, backup : BOOLEAN]
        /\ Agrees(verdict', fate'[Target'])
    BY <1>2, <1>5, ConcludeAgrees
  <2> QED BY <1>1, <1>5, <2>1, WithinTarget
<1>6. CASE RenameAside
  <2>1. CASE Conclude("failed", FALSE) /\ fate' = fate
    BY <1>3, <1>4, <1>5, <1>6, <2>1 DEF RenameAside
  <2>2. CASE pc' = "link" /\ fate' = [fate EXCEPT ![Target] = "aside"]
    BY <1>0, <1>1, <1>2, <2>2, WithinTarget DEF Types
  <2> QED BY <1>6, <2>1, <2>2 DEF RenameAside
<1>7. CASE LinkKeeper
  <2>1. pc = "link" /\ fate' = fate
    BY <1>7 DEF LinkKeeper
  <2>2. pc' = "check" \/ (pc' = "restore" /\ verdict'.status \in {"cancelled", "failed"})
    BY <1>7 DEF LinkKeeper, Undo, Item
  <2> QED BY <1>1, <1>3, <2>1, <2>2, WithinTarget
<1>8. CASE RestoreOrReport
  <2>1. pc = "restore" /\ verdict.status \in {"cancelled", "failed"}
    BY <1>0, <1>8 DEF RestoreOrReport, ReportInv
  <2>2. CASE Conclude(verdict.status, FALSE) /\ fate' = [fate EXCEPT ![Target] = "home"]
    BY <1>0, <1>2, <1>4, <1>5, <2>1, <2>2 DEF Types
  <2>3. CASE Conclude("failed", TRUE) /\ fate' = fate
    BY <1>3, <1>4, <1>5, <2>1, <2>3
  <2> QED BY <1>8, <2>2, <2>3 DEF RestoreOrReport, RestoreFailed
<1>9. CASE CheckLink
  <2>1. pc = "check" /\ fate' = fate
    BY <1>9 DEF CheckLink
  <2>2. CASE pc' = "dispose"
    BY <1>1, <1>3, <2>1, <2>2, WithinTarget
  <2>3. CASE Conclude("failed", TRUE)
    BY <1>3, <1>4, <1>5, <2>1, <2>3
  <2> QED BY <1>9, <2>2, <2>3 DEF CheckLink
<1>10. CASE DisposeBackup
  <2>1. pc = "dispose"
    BY <1>10 DEF DisposeBackup
  <2>2. CASE Conclude("consolidated", FALSE) /\ fate' = [fate EXCEPT ![Target] = "replaced"]
    BY <1>0, <1>2, <1>4, <1>5, <2>2 DEF Types
  <2>3. CASE Conclude("failed", TRUE) /\ fate' = fate
    BY <1>3, <1>4, <1>5, <2>1, <2>3
  <2> QED BY <1>10, <2>2, <2>3 DEF DisposeBackup
<1>11. CASE CloseTarget
  <2>1. /\ pc = "closeTarget" /\ pc' = "closeKeeper"
        /\ UNCHANGED <<verdict, fate>>
    BY <1>11 DEF CloseTarget
  <2> QED BY <1>0, <1>1, <1>2, <2>1, WithinTarget DEF ReportInv
<1> QED BY <1>6, <1>7, <1>8, <1>9, <1>10, <1>11

(* Steps that answer a target, or begin and end the loop.                   *)
LEMMA LoopAgrees ==
  ASSUME FullInv, DiskInv', Validate \/ NextTarget \/ CloseKeeper
  PROVE  FullInv'
<1> USE DEF Active, Serving, Searching, Kept, Closing, SetAside
<1>0. Types /\ LoopInv /\ ReportInv /\ request' = request /\ fate' = fate
  BY DEF FullInv, DiskInv, Validate, NextTarget, CloseKeeper, input
<1>1. CASE Validate
  <2>1. pc = "validate" /\ items = <<>> /\ next = 1 /\ next' = next /\ Len(request) \in Nat
        /\ fate = [m \in Members |-> "home"]
    BY <1>0, <1>1 DEF FullInv, Validate, Types
  <2>2. pc' = "done" \/ (pc' = "next" /\ items' = items)
    BY <1>1 DEF Validate
  <2>3. ReportInv'
    <3>1. CASE pc' = "done"
      BY <3>1 DEF ReportInv
    <3>2. CASE pc' = "next" /\ items' = <<>>
      <4>1. /\ items' \in Seq([path : Members, status : Statuses, backup : BOOLEAN])
            /\ Len(items') = 0 /\ next' = 1 /\ 1..(next' - 1) = {}
        BY <2>1, <3>2
      <4>2. \A m \in Members : fate'[m] = "home"
        BY <1>0, <2>1
      <4> QED BY <1>0, <2>1, <3>2, <4>1, <4>2 DEF ReportInv
    <3> QED BY <2>1, <2>2, <3>1, <3>2
  <2>4. pc' # "validate"
    BY <2>2
  <2> QED BY <2>3, <2>4 DEF FullInv
<1>2. ASSUME NEW item \in [path : Members, status : Statuses, backup : BOOLEAN],
             pc \in Active, next \in 1..Len(request),
             Target \in Members, item.path = Target, Agrees(item, fate[Target]),
             items' = Append(items, item), next' = next + 1, pc' = "next",
             \A m \in Members \ Answered : fate[m] = "home" \/ m = Target
      PROVE  FullInv'
  <2>1. /\ items \in Seq([path : Members, status : Statuses, backup : BOOLEAN])
        /\ Len(items) = next - 1 /\ next \in Nat \ {0} /\ Len(request) \in Nat
    BY <1>0, <1>2 DEF ReportInv, Types
  <2>2. /\ items' \in Seq([path : Members, status : Statuses, backup : BOOLEAN])
        /\ Len(items') = next' - 1
        /\ items'[next] = item
        /\ \A i \in 1..(next - 1) : items'[i] = items[i]
    BY <1>2, <2>1, AppendProperties
  <2>3. Answered' = Answered \cup {Target}
    BY <1>0, <1>2, <2>1 DEF Answered, Target
  <2>4. \A i \in 1..(next' - 1) :
          items'[i].path = request'[i] /\ Agrees(items'[i], fate'[request'[i]])
    <3> TAKE i \in 1..(next' - 1)
    <3>1. CASE i = next
      BY <1>0, <1>2, <2>2, <3>1 DEF Target
    <3>2. CASE i \in 1..(next - 1)
      BY <1>0, <1>2, <2>2, <3>2 DEF ReportInv
    <3> QED BY <1>2, <2>1, <3>1, <3>2
  <2>5. \A m \in Members \ Answered' : fate'[m] = "home"
    BY <1>0, <1>2, <2>3
  <2>6. ReportInv'
    <3>1. next' <= Len(request') + 1
      BY <1>0, <1>2, <2>1
    <3> QED BY <1>2, <2>2, <2>4, <2>5, <3>1 DEF ReportInv
  <2> QED BY <1>2, <2>6 DEF FullInv
<1>3. CASE NextTarget
  <2>0. pc = "next" /\ next \in Nat \ {0} /\ Len(request) \in Nat
    BY <1>0, <1>3 DEF NextTarget, Types
  <2>1. CASE next > Len(request)
    BY <1>3, <2>1 DEF NextTarget, FullInv, ReportInv
  <2>2. CASE ~(next > Len(request)) /\ cancelled
    <3>1. /\ items' = Append(items, Item(Target, "cancelled", FALSE))
          /\ next' = next + 1 /\ pc' = "next"
      BY <1>3, <2>0, <2>2 DEF NextTarget
    <3>2. next \in 1..Len(request) /\ Target \in Members
      BY <1>0, <2>0, <2>2 DEF Types, LoopInv, Valid, Target, Range
    <3>3. /\ Item(Target, "cancelled", FALSE) \in [path : Members, status : Statuses, backup : BOOLEAN]
          /\ Item(Target, "cancelled", FALSE).path = Target
      BY <3>2 DEF Item, Statuses
    <3>4. Target \notin Answered
      BY <1>0, <2>0, <3>2 DEF Types, LoopInv, Target, Answered, Valid, IsInjective
    <3>5. \A m \in Members \ Answered : fate[m] = "home"
      BY <1>0, <2>0 DEF ReportInv
    <3>6. Agrees(Item(Target, "cancelled", FALSE), fate[Target])
      BY <3>2, <3>4, <3>5 DEF Agrees, Item
    <3> QED BY <1>2, <2>0, <3>1, <3>2, <3>3, <3>5, <3>6
  <2>3. CASE ~(next > Len(request)) /\ ~cancelled
    <3>1. pc' = "keeper" /\ UNCHANGED <<next, items>>
      BY <1>3, <2>3 DEF NextTarget
    <3>2. Answered' = Answered /\ Target' = Target
      BY <1>0, <3>1 DEF Answered, Target
    <3> QED BY <1>0, <2>0, <3>1, <3>2 DEF FullInv, ReportInv
  <2> QED BY <2>1, <2>2, <2>3
<1>4. CASE CloseKeeper
  <2>1. /\ pc = "closeKeeper" /\ pc' = "next" /\ next' = next + 1
        /\ items' = Append(items, verdict)
    BY <1>4 DEF CloseKeeper
  <2>2. next \in 1..Len(request) /\ Target \in Members
    BY <1>0, <2>1 DEF LoopInv
  <2>3. /\ verdict.path = Target /\ Agrees(verdict, fate[Target])
        /\ verdict \in [path : Members, status : Statuses, backup : BOOLEAN]
        /\ \A m \in Members \ Answered : fate[m] = "home" \/ m = Target
    BY <1>0, <2>1 DEF ReportInv
  <2> QED BY <1>2, <2>1, <2>2, <2>3
<1> QED BY <1>1, <1>3, <1>4

LEMMA NextFullInv == FullInv /\ [Next]_vars => FullInv'
<1> SUFFICES ASSUME FullInv, [Next]_vars PROVE FullInv'
  OBVIOUS
<1>1. DiskInv'
  BY NextDiskInv DEF FullInv
<1>2. CASE Work
  BY <1>1, <1>2, SearchAgrees, MoveAgrees, LoopAgrees DEF Work
<1>3. CASE Crash
  BY <1>1, <1>3 DEF Crash, FullInv, ReportInv, Active, Serving, Searching, Kept, Closing
<1>4. CASE Cancel \/ Foreign \/ UNCHANGED vars
  <2>1. UNCHANGED <<request, pc, next, verdict, items, fate>>
    BY <1>4 DEF Cancel, Foreign, vars, input
  <2>2. Target' = Target /\ Answered' = Answered
    BY <2>1 DEF Target, Answered
  <2> QED BY <1>1, <2>1, <2>2 DEF FullInv, ReportInv
<1> QED BY <1>2, <1>3, <1>4 DEF Next

LEMMA SpecFullInv == Spec => []FullInv
BY InitFullInv, NextFullInv, PTL DEF Spec

--------------------------------------------------------------------------------
(* The refinement.  Told(m) is what the contract calls the report of m.     *)
Told(m) == IF m \in Answered THEN Contract!Honest(fate[m]) ELSE "none"

LEMMA ReportIsTold ==
  FullInv /\ pc \in Active => \A m \in Members : ReportOf(m) = Told(m)
<1> SUFFICES ASSUME FullInv, pc \in Active, NEW m \in Members
             PROVE  ReportOf(m) = Told(m)
  OBVIOUS
<1>0. Types /\ LoopInv /\ ReportInv /\ Valid(request)
  BY DEF FullInv, DiskInv, LoopInv
<1>1. /\ DOMAIN items = 1..(next - 1)
      /\ next - 1 \in Nat /\ next - 1 <= Len(request) /\ Len(request) \in Nat
      /\ DOMAIN request = 1..Len(request)
  BY <1>0 DEF ReportInv, Types
<1> DEFINE about == {i \in DOMAIN items : items[i].path = m}
<1>2. about = {i \in 1..(next - 1) : request[i] = m}
  BY <1>0, <1>1 DEF ReportInv
<1>3. CASE m \notin Answered
  <2>1. about = {}
    BY <1>2, <1>3 DEF Answered
  <2> QED BY <1>3, <2>1 DEF ReportOf, Told
<1>4. CASE m \in Answered
  <2>1. about # {}
    BY <1>2, <1>4 DEF Answered
  <2> DEFINE c == CHOOSE i \in about : TRUE
  <2>2. c \in about
    BY <2>1
  <2>3. Agrees(items[c], fate[m])
    BY <1>0, <1>2, <2>2 DEF ReportInv
  <2>4. fate[m] \in {"home", "aside", "replaced"}
    BY <1>0 DEF Types
  <2>5. ReportOf(m) = IF items[c].status = "consolidated" THEN "consolidated"
                      ELSE IF items[c].backup THEN "retained" ELSE "kept"
    BY <2>1 DEF ReportOf
  <2> HIDE DEF c, about
  <2>6. ReportOf(m) = Contract!Honest(fate[m])
    BY <2>3, <2>4, <2>5 DEF Agrees, Contract!Honest
  <2> QED BY <1>4, <2>6 DEF Told
<1> QED BY <1>3, <1>4

LEMMA ReportIsToldNext ==
  (FullInv /\ pc \in Active => \A m \in Members : ReportOf(m) = Told(m))'
BY ReportIsTold, PTL

Reports == [m \in Members |-> ReportOf(m)]

(* A step that tells and moves nothing.                                     *)
LEMMA ContractStutters ==
  ASSUME fate' = fate, items' = items, pc' = "crashed" <=> pc = "crashed"
  PROVE  UNCHANGED Contract!vars
<1>1. Reports' = Reports
  BY DEF Reports, ReportOf
<1>2. (pc = "crashed")' = (pc = "crashed")
  OBVIOUS
<1> QED BY <1>1, <1>2 DEF Contract!vars, Reports

LEMMA ContractMoves ==
  ASSUME FullInv, items' = items, pc \in {"aside"} \cup SetAside, pc' \in Serving,
         \/ /\ pc = "aside" /\ fate' = [fate EXCEPT ![Target] = "aside"]
         \/ /\ pc # "aside"
            /\ \E where \in {"home", "replaced"} : fate' = [fate EXCEPT ![Target] = where]
  PROVE  Contract!Next
<1> USE DEF Active, Serving, Searching, Kept, Closing, SetAside
<1>0. Types /\ LoopInv /\ ReportInv
  BY DEF FullInv, DiskInv
<1>1. Target \in Members /\ Target \notin Answered
  BY <1>0, TargetIsRequested, NotAnsweredYet
<1>2. Reports' = Reports /\ (pc = "crashed")' = (pc = "crashed") /\ pc # "crashed"
  BY DEF Reports, ReportOf
<1>3. \A m \in Members : Reports[m] = Told(m)
  BY ReportIsTold DEF Reports
<1>4. Reports[Target] = "none"
  BY <1>1, <1>3 DEF Told
<1>5. CASE pc = "aside"
  <2>1. \A m \in Members \ Answered : fate[m] = "home"
    BY <1>0, <1>5 DEF ReportInv
  <2>2. \A m \in Answered : fate[m] \in {"home", "aside", "replaced"} /\ m \in Members
    BY <1>0 DEF Types, LoopInv, Answered, Valid, Range
  <2>3. \A m \in Members : fate[m] = "home" \/ Reports[m] # "none"
    BY <1>3, <2>1, <2>2 DEF Told, Contract!Honest
  <2>4. Contract!SetAside(Target)
    BY <1>1, <1>2, <1>4, <1>5, <2>1, <2>3 DEF Contract!SetAside, Contract!Settled, Reports
  <2> QED BY <1>1, <1>2, <2>4 DEF Contract!Next
<1>6. CASE pc # "aside"
  <2>1. PICK where \in {"home", "replaced"} : fate' = [fate EXCEPT ![Target] = where]
    BY <1>6
  <2>2. fate[Target] = "aside"
    BY <1>0, <1>6 DEF ReportInv
  <2>3. Contract!Conclude(Target, where)
    BY <1>2, <1>4, <2>1, <2>2 DEF Contract!Conclude, Reports
  <2> QED BY <1>1, <1>2, <2>1, <2>3 DEF Contract!Next
<1> QED BY <1>5, <1>6

LEMMA ContractTells ==
  ASSUME FullInv, FullInv', UNCHANGED <<request, fate>>, pc \in Active, pc' \in Active,
         next \in 1..Len(request), next' = next + 1
  PROVE  Contract!Next
<1>0. Types /\ LoopInv /\ ReportInv /\ Valid(request)
  BY DEF FullInv, DiskInv, LoopInv
<1>1. Target \in Members /\ Target \notin Answered
  BY <1>0 DEF Types, LoopInv, Target, Answered, Valid, IsInjective, Range
<1>2. Answered' = Answered \cup {Target}
  BY <1>0 DEF Types, Answered, Target
<1>3. \A m \in Members : Reports[m] = Told(m) /\ Reports'[m] = Told(m)'
  BY ReportIsTold, ReportIsToldNext DEF Reports
<1>4. ASSUME NEW m \in Members
      PROVE  Told(m)' = IF m = Target THEN Contract!Honest(fate[m]) ELSE Told(m)
  <2>1. Told(m)' = IF m \in Answered' THEN Contract!Honest(fate[m])' ELSE "none"
    BY DEF Told
  <2>2. Contract!Honest(fate[m])' = Contract!Honest(fate[m])
    BY DEF Contract!Honest
  <2> QED BY <1>1, <1>2, <2>1, <2>2 DEF Told
<1>5. Reports[Target] = "none"
  BY <1>1, <1>3 DEF Told
<1>6. Reports' = [Reports EXCEPT ![Target] = Contract!Honest(fate[Target])]
  BY <1>1, <1>3, <1>4 DEF Reports
<1>7. pc # "crashed" /\ pc' # "crashed"
  BY DEF Active, Serving, Searching, Kept, Closing
<1>8. Contract!Tell(Target)
  BY <1>5, <1>6, <1>7 DEF Contract!Tell, Reports
<1> QED BY <1>1, <1>7, <1>8 DEF Contract!Next

LEMMA ContractRejects ==
  ASSUME FullInv, Validate, ~Valid(request)
  PROVE  Contract!Next
<1>1. /\ pc = "validate" /\ pc' = "done" /\ fate' = fate /\ items = <<>>
      /\ items' = [i \in DOMAIN request |-> Item(request[i], "failed", FALSE)]
      /\ fate = [m \in Members |-> "home"]
  BY DEF Validate, FullInv
<1> DEFINE named == Range(request) \cap Members
<1>2. \A m \in Members : Reports[m] = "none"
  BY <1>1 DEF Reports, ReportOf
<1>3. ASSUME NEW m \in Members
      PROVE  ReportOf(m)' = IF m \in named THEN "kept" ELSE "none"
  <2> DEFINE about == {i \in DOMAIN items' : items'[i].path = m}
  <2>1. DOMAIN items' = DOMAIN request
    BY <1>1
  <2>2. about = {i \in DOMAIN request : request[i] = m}
    BY <1>1, <2>1 DEF Item
  <2>3. CASE m \in named
    <3>1. about # {}
      BY <2>2, <2>3 DEF Range
    <3> DEFINE c == CHOOSE i \in about : TRUE
    <3>2. c \in about
      BY <3>1
    <3>3. items'[c].status = "failed" /\ items'[c].backup = FALSE
      BY <1>1, <2>2, <3>2 DEF Item
    <3>4. ReportOf(m)' = IF items'[c].status = "consolidated" THEN "consolidated"
                         ELSE IF items'[c].backup THEN "retained" ELSE "kept"
      BY <3>1 DEF ReportOf
    <3> QED BY <2>3, <3>3, <3>4
  <2>4. CASE m \notin named
    <3>1. about = {}
      BY <2>2, <2>4 DEF Range
    <3> QED BY <2>4, <3>1 DEF ReportOf
  <2> QED BY <2>3, <2>4
<1>4. Reports' = [m \in Members |-> IF m \in named THEN "kept" ELSE "none"]
  BY <1>3 DEF Reports
<1>5. Contract!Reject(named)
  BY <1>1, <1>2, <1>4 DEF Contract!Reject, Reports
<1>6. named \in SUBSET Members /\ pc # "crashed"
  BY <1>1
<1> QED BY <1>5, <1>6 DEF Contract!Next

LEMMA ContractStep ==
  ASSUME FullInv, FullInv', [Next]_vars
  PROVE  [Contract!Next]_(Contract!vars)
<1> USE DEF Active, Serving, Searching, Kept, Closing, SetAside
<1>0. Types /\ LoopInv /\ ReportInv
  BY DEF FullInv, DiskInv
<1>1. CASE Validate
  <2>1. CASE Valid(request)
    <3>1. fate' = fate /\ items' = items /\ pc = "validate" /\ pc' = "next"
      BY <1>1, <2>1 DEF Validate
    <3> QED BY <3>1, ContractStutters
  <2> QED BY <1>1, <2>1, ContractRejects
<1>2. CASE NextTarget
  <2>1. pc = "next" /\ fate' = fate /\ request' = request
        /\ next \in Nat \ {0} /\ Len(request) \in Nat
    BY <1>0, <1>2 DEF NextTarget, Types, input
  <2>2. CASE items' = items /\ pc' \in {"done", "keeper"}
    BY <2>1, <2>2, ContractStutters
  <2>3. CASE next <= Len(request) /\ next' = next + 1 /\ pc' = "next"
    BY <2>1, <2>3, ContractTells
  <2>4. \/ items' = items /\ pc' \in {"done", "keeper"}
        \/ next <= Len(request) /\ next' = next + 1 /\ pc' = "next"
    <3>1. CASE next > Len(request)
      BY <1>2, <3>1 DEF NextTarget
    <3>2. CASE ~(next > Len(request)) /\ cancelled
      BY <1>2, <2>1, <3>2 DEF NextTarget
    <3>3. CASE ~(next > Len(request)) /\ ~cancelled
      BY <1>2, <3>3 DEF NextTarget
    <3> QED BY <3>1, <3>2, <3>3
  <2> QED BY <2>2, <2>3, <2>4
<1>3. CASE TryKeeper \/ NoKeeper \/ CompareVolumes \/ OpenTarget \/ Prepare \/ LinkKeeper
           \/ CheckLink \/ CloseTarget
  <2>1. fate' = fate /\ items' = items /\ pc \in Serving /\ pc' \in Serving
    BY <1>3 DEF TryKeeper, NoKeeper, CompareVolumes, OpenTarget, Prepare, LinkKeeper, Undo,
       CheckLink, CloseTarget, Conclude, Refused
  <2> QED BY <2>1, ContractStutters
<1>4. CASE RenameAside \/ RestoreOrReport \/ DisposeBackup
  <2>1. items' = items /\ pc \in {"aside"} \cup SetAside /\ pc' \in Serving
    BY <1>4 DEF RenameAside, RestoreOrReport, RestoreFailed, DisposeBackup, Conclude
  <2>2. CASE fate' = fate
    BY <2>1, <2>2, ContractStutters
  <2>3. \/ fate' = fate
        \/ pc = "aside" /\ fate' = [fate EXCEPT ![Target] = "aside"]
        \/ pc = "restore" /\ fate' = [fate EXCEPT ![Target] = "home"]
        \/ pc = "dispose" /\ fate' = [fate EXCEPT ![Target] = "replaced"]
    BY <1>4 DEF RenameAside, RestoreOrReport, DisposeBackup
  <2> QED BY <2>1, <2>2, <2>3, ContractMoves
<1>5. CASE CloseKeeper
  <2>1. /\ pc = "closeKeeper" /\ pc' = "next" /\ next' = next + 1
        /\ UNCHANGED <<request, fate>>
    BY <1>5 DEF CloseKeeper, input
  <2>2. next \in 1..Len(request)
    BY <1>0, <2>1 DEF LoopInv
  <2> QED BY <2>1, <2>2, ContractTells
<1>6. CASE Crash
  <2>1. fate' = fate /\ items' = items /\ pc # "crashed" /\ pc' = "crashed"
    BY <1>6 DEF Crash
  <2>2. Reports' = Reports
    BY <2>1 DEF Reports, ReportOf
  <2>3. Contract!Crash
    BY <2>1, <2>2 DEF Contract!Crash, Reports
  <2> QED BY <2>1, <2>3 DEF Contract!Next
<1>7. CASE Cancel \/ Foreign \/ UNCHANGED vars
  <2>1. UNCHANGED <<pc, items, fate>>
    BY <1>7 DEF Cancel, Foreign, vars
  <2> QED BY <2>1, ContractStutters
<1> QED BY <1>1, <1>2, <1>3, <1>4, <1>5, <1>6, <1>7 DEF Next, Work

(* What consolidation reports of a file is where its bytes are              *)
(* (hardlink.go 12-16 and 31-38): every step sets one file aside, puts it   *)
(* back or replaces it, tells the truth about one file, refuses the whole   *)
(* request, dies, or does nothing the contract can see.                     *)
THEOREM ConsolidateRefinesContract == Spec => ImplementsContract
<1>1. Init => Contract!Init
  <2> SUFFICES ASSUME Init PROVE Contract!Init
    OBVIOUS
  <2>1. \A m \in Members : ReportOf(m) = "none"
    BY DEF Init, ReportOf
  <2> QED BY <2>1 DEF Init, Contract!Init
<1>2. FullInv /\ FullInv' /\ [Next]_vars => [Contract!Next]_(Contract!vars)
  BY ContractStep
<1> QED BY <1>1, <1>2, SpecFullInv, PTL DEF Spec, Contract!Spec, ImplementsContract

================================================================================
