--------------------------- MODULE DuplicateScanProofs ---------------------------
(***************************************************************************)
(* Theorems about ScanFiles, for every inventory, layout, number of        *)
(* workers and of writes by other programs: published groups hold files    *)
(* that were equal when they were stamped, and a success without an error  *)
(* has every group there is.                                               *)
(***************************************************************************)
EXTENDS DuplicateScan, FiniteSetTheorems, TLAPS

Busy == {"open", "read", "verify", "send"}
Steps == {"gone", "idle"} \cup Busy
Stages == {"begin", "refresh", "boundary", "full", "returned"}

DiskTypes ==
  /\ content \in [TheFiles -> Contents]
  /\ version \in [TheFiles -> Nat]
  /\ inventory \subseteq Records
  /\ stamp \in [Records -> Nat]
  /\ DOMAIN refreshed = Records

PipelineTypes ==
  /\ stage \in Stages
  /\ jobs \subseteq Records
  /\ wpc \in [Workers -> Steps]
  /\ job \in [Workers -> SUBSET Records]
  /\ DOMAIN read = Workers /\ DOMAIN err = Workers
  /\ DOMAIN key = Records
  /\ fatal \in {"none", "root-changed"}
  /\ ignored \in Nat
  /\ cancelled \in BOOLEAN

(* A stamp is not ahead of its file, and while the file still has it, the   *)
(* file still has the content that was stamped.                             *)
StampInv ==
  \A r \in Records :
    /\ stamp[r] <= version[FileOf[r]]
    /\ \/ refreshed[r] = None
       \/ \E c \in Contents : refreshed[r] = {c}
    /\ refreshed[r] # None /\ Unchanged(r) =>
         refreshed[r] = {content[FileOf[r]]}

(* Only stamped records are hashed.  What a worker has read is the stamped  *)
(* content if the stamp still holds, or held when it was looked at again.   *)
JobInv ==
  /\ \A r \in jobs : refreshed[r] # None
  /\ \A w \in Workers :
       /\ wpc[w] \in Busy =>
            \E r \in Records : job[w] = {r} /\ refreshed[r] # None
       /\ \A r \in job[w] :
            /\ wpc[w] = "verify" /\ Unchanged(r) => read[w] = refreshed[r]
            /\ wpc[w] = "send" /\ err[w] = "none" => read[w] = refreshed[r]

(* The two channels: workers leave when the producer has ended or the       *)
(* context is done, and results close behind the last of them.              *)
ChannelInv ==
  /\ jobsClosed => jobs = {}
  /\ resultsClosed => \A w \in Workers : wpc[w] = "gone"
  /\ stage \in {"begin", "refresh"} => jobsClosed /\ resultsClosed
  /\ stage \in Pipelines /\ cancelled = FALSE =>
       \A w \in Workers : wpc[w] = "gone" => jobsClosed

(* A key is the hash of the stamped content. *)
KeyOf(st, r) == {Hash(st, c) : c \in refreshed[r]}
KeyInv ==
  stage \in Pipelines => \A r \in Records :
    key[r] # None => refreshed[r] # None /\ key[r] = KeyOf(stage, r)

(* Groups and a result appear only as the scan returns. *)
ResultInv == stage # "returned" => groups = {} /\ result = "none"

(* What is handed to a stage: records that agree with another one in what   *)
(* the stage before has told of them.                                       *)
Twins(f) == {r \in Records : \E q \in Records : q # r /\ f[q] = f[r]}
Boundaries == [r \in Records |-> KeyOf("boundary", r)]
Due(st) == Twins(IF st = "boundary" THEN SizeOf ELSE Boundaries)

InWork(r) == r \in jobs \/ \E w \in Workers : wpc[w] \in Busy /\ r \in job[w]

(* Without an error or a cancellation nothing gets lost: every record due   *)
(* in a stage is waiting, with a worker, or has its key.                    *)
CompleteInv ==
  /\ ignored = 0 /\ stage \in {"refresh"} \cup Pipelines =>
       \A r \in Records : refreshed[r] # None \/ (stage = "refresh" /\ r \in inventory)
  /\ stage = "begin" => inventory = Records
  /\ stage \in Pipelines /\ ignored = 0 /\ cancelled = FALSE /\ fatal = "none" =>
       \A r \in Due(stage) : key[r] # None \/ InWork(r)

Types == DiskTypes /\ PipelineTypes

IInv ==
  /\ Types /\ StampInv /\ JobInv /\ ChannelInv /\ KeyInv /\ ResultInv
  /\ CompleteInv /\ GroupsAreExact /\ SuccessIsComplete

--------------------------------------------------------------------------------
(* A class of S under f has two members exactly when its representative     *)
(* agrees with some other member.                                           *)
LEMMA TwinsMakeAClass ==
  ASSUME NEW S, IsFiniteSet(S), NEW f, NEW r \in S
  PROVE  /\ IsFiniteSet({q \in S : f[q] = f[r]})
         /\ Cardinality({q \in S : f[q] = f[r]}) > 1
              <=> \E q \in S : q # r /\ f[q] = f[r]
<1> DEFINE g == {q \in S : f[q] = f[r]}
<1>1. IsFiniteSet(g) /\ Cardinality(g) \in Nat
  BY FS_Subset, FS_CardinalityType, g \subseteq S
<1>2. ASSUME Cardinality(g) > 1, \A q \in S : q # r => f[q] # f[r]
      PROVE  FALSE
  <2>1. g = {r}
    BY <1>2
  <2>2. Cardinality(g) = 1
    BY <2>1, FS_Singleton
  <2> QED
    BY <1>2, <2>2
<1>3. ASSUME NEW q \in S, q # r, f[q] = f[r]
      PROVE  Cardinality(g) > 1
  <2>1. IsFiniteSet({r}) /\ Cardinality({r}) = 1
    BY FS_Singleton
  <2>2. IsFiniteSet({r} \cup {q}) /\ Cardinality({r} \cup {q}) = 2
    <3> DEFINE one == {r}
    <3>1. IsFiniteSet(one) /\ Cardinality(one) = 1 /\ q \notin one
      BY <1>3, <2>1
    <3> HIDE DEF one
    <3>2. IsFiniteSet(one \cup {q}) /\ Cardinality(one \cup {q}) = 1 + 1
      BY <3>1, FS_AddElement
    <3> QED
      BY <3>2 DEF one
  <2>3. {r} \cup {q} \subseteq g
    BY <1>3
  <2>4. Cardinality({r} \cup {q}) <= Cardinality(g)
    BY <1>1, <2>3, FS_Subset
  <2> QED
    BY <1>1, <2>2, <2>4
<1> QED
  BY <1>1, <1>2, <1>3

(* The members of all classes are the records that agree with another one.  *)
LEMMA MembersHaveTwins ==
  ASSUME NEW S, IsFiniteSet(S), NEW f
  PROVE  UNION Classes(S, f) = {r \in S : \E q \in S : q # r /\ f[q] = f[r]}
<1>1. ASSUME NEW g \in Classes(S, f), NEW r \in g
      PROVE  r \in S /\ \E q \in S : q # r /\ f[q] = f[r]
  <2>1. PICK p \in S : g = {q \in S : f[q] = f[p]} /\ Cardinality(g) > 1
    BY <1>1 DEF Classes
  <2>2. r \in S /\ f[r] = f[p] /\ g = {q \in S : f[q] = f[r]}
    BY <1>1, <2>1
  <2> QED
    BY <2>1, <2>2, TwinsMakeAClass
<1>2. ASSUME NEW r \in S, NEW q \in S, q # r, f[q] = f[r]
      PROVE  r \in UNION Classes(S, f)
  <2> DEFINE g == {p \in S : f[p] = f[r]}
  <2>1. Cardinality(g) > 1
    BY <1>2, TwinsMakeAClass
  <2>2. g \in {{x \in S : f[x] = f[p]} : p \in S} /\ r \in g
    OBVIOUS
  <2> HIDE DEF g
  <2>3. g \in Classes(S, f)
    BY <2>1, <2>2 DEF Classes
  <2> QED
    BY <2>2, <2>3
<1> QED
  BY <1>1, <1>2

(* Two functions that agree on their keyed records, where every record that *)
(* has a twin is keyed, have the same classes.                              *)
LEMMA SameClasses ==
  ASSUME NEW S, IsFiniteSet(S), NEW f, NEW k, NEW T \in SUBSET S,
         \A r \in T : k[r] = f[r],
         \A p \in S : (\E q \in S : q # p /\ f[q] = f[p]) => p \in T
  PROVE  Classes(T, k) = Classes(S, f)
<1>1. IsFiniteSet(T)
  BY FS_Subset
<1>2. ASSUME NEW r \in T, NEW q \in S, q # r, f[q] = f[r]
      PROVE  q \in T
  <2>1. \E p \in S : p # q /\ f[p] = f[q]
    BY <1>2, T \subseteq S
  <2> QED
    BY <2>1
<1>3. ASSUME NEW r \in T
      PROVE  {q \in T : k[q] = k[r]} = {q \in S : f[q] = f[r]}
  BY <1>2
<1>4. ASSUME NEW r \in S, Cardinality({q \in S : f[q] = f[r]}) > 1
      PROVE  r \in T
  <2>1. \E q \in S : q # r /\ f[q] = f[r]
    BY <1>4, TwinsMakeAClass
  <2> QED
    BY <2>1
<1>5. ASSUME NEW g \in Classes(T, k) PROVE g \in Classes(S, f)
  <2>1. PICK r \in T : g = {q \in T : k[q] = k[r]} /\ Cardinality(g) > 1
    BY <1>5 DEF Classes
  <2>2. g = {q \in S : f[q] = f[r]} /\ r \in S
    BY <1>3, <2>1
  <2> QED
    BY <2>1, <2>2 DEF Classes
<1>6. ASSUME NEW g \in Classes(S, f) PROVE g \in Classes(T, k)
  <2>1. PICK r \in S : g = {q \in S : f[q] = f[r]} /\ Cardinality(g) > 1
    BY <1>6 DEF Classes
  <2>2. r \in T /\ g = {q \in T : k[q] = k[r]}
    BY <1>3, <1>4, <2>1
  <2> QED
    BY <2>1, <2>2 DEF Classes
<1> QED
  BY <1>5, <1>6

(* What a write of another program does, and what it leaves alone. *)
LEMMA WriteEffect ==
  ASSUME Write
  PROVE  /\ stage # "returned"
         /\ \E f \in TheFiles, c \in Contents :
              /\ content' = [content EXCEPT ![f] = c]
              /\ version' = [version EXCEPT ![f] = @ + 1]
         /\ UNCHANGED <<records, stage, channels, workers, key, fatal, outcome,
                        ignored, cancelled, faults>>
BY Zenon DEF Write

--------------------------------------------------------------------------------
(* What the two stages start with. *)
Keyed == {r \in Records : key[r] # None}

LEMMA SizeCandidates ==
  UNION Classes(Live, SizeOf) =
    {r \in Live : \E q \in Live : q # r /\ SizeOf[q] = SizeOf[r]}
<1>1. IsFiniteSet(Live)
  BY FS_Subset, DuplicateScanAssumption DEF Live, DuplicateScanAssumption
<1> QED
  BY <1>1, MembersHaveTwins

LEMMA KeyCandidates ==
  UNION Grouped = {r \in Keyed : \E q \in Keyed : q # r /\ key[q] = key[r]}
<1>1. IsFiniteSet(Keyed)
  BY FS_Subset, DuplicateScanAssumption DEF Keyed, DuplicateScanAssumption
<1> QED
  BY <1>1, MembersHaveTwins DEF Grouped, Keyed

LEMMA InitTypes == Init => Types
<1> SUFFICES ASSUME Init PROVE Types
  OBVIOUS
<1>1. DiskTypes
  BY DuplicateScanAssumption DEF Init, DiskTypes, DuplicateScanAssumption
<1>2. PipelineTypes
  BY DEF Init, PipelineTypes, Steps, Stages, None
<1> QED
  BY <1>1, <1>2 DEF Types

LEMMA TypesStep ==
  ASSUME Types, [Next]_vars
  PROVE  Types'
<1> USE DuplicateScanAssumption DEF DuplicateScanAssumption
<1> USE DEF Types
<1>1. CASE \E w \in Workers : WorkerStep(w)
  <2> PICK w \in Workers : WorkerStep(w)
    BY <1>1
  <2>1. DiskTypes'
    BY DEF WorkerStep, TakeJob, WorkerLeaves, OpenFile, ReadFile, VerifyFile,
           GiveUp, Receive, DiskTypes, disk, records, TheFiles
  <2> USE DEF PipelineTypes, Steps, Busy, Stages, channels, workers, outcome
  <2>2. CASE TakeJob(w)
    <3>1. (CHOOSE r \in jobs : TRUE) \in jobs
      BY <2>2 DEF TakeJob
    <3> QED
      BY <2>1, <2>2, <3>1 DEF TakeJob, Rest
  <2>3. CASE WorkerLeaves(w)
    BY <2>1, <2>3 DEF WorkerLeaves
  <2>4. CASE OpenFile(w)
    BY <2>1, <2>4 DEF OpenFile, Send
  <2>5. CASE ReadFile(w)
    BY <2>1, <2>5 DEF ReadFile, Send
  <2>6. CASE VerifyFile(w)
    BY <2>1, <2>6 DEF VerifyFile, Send
  <2>7. CASE GiveUp(w)
    BY <2>1, <2>7 DEF GiveUp
  <2>8. CASE Receive(w)
    <3>1. /\ stage' \in Stages /\ DOMAIN key' = Records /\ ignored' \in Nat
          /\ fatal' \in {"none", "root-changed"}
      BY <2>8 DEF Receive, Return, IsFatal
    <3> QED
      BY <2>1, <2>8, <3>1 DEF Receive, None
  <2> QED
    BY <2>2, <2>3, <2>4, <2>5, <2>6, <2>7, <2>8 DEF WorkerStep
<1>2. CASE Begin
  BY <1>2 DEF Begin, Return, DiskTypes, PipelineTypes, Stages, disk, records,
              channels, workers, TheFiles
<1>3. CASE Refresh
  BY <1>3 DEF Refresh, Return, DiskTypes, PipelineTypes, Stages, disk, records,
              channels, workers, TheFiles
<1>4. CASE GroupBySize
  BY <1>4, SizeCandidates
  DEF GroupBySize, Launch, Return, Live, DiskTypes, PipelineTypes, Stages, Steps,
      disk, records, channels, TheFiles
<1>5. CASE EndStage
  BY <1>5, KeyCandidates
  DEF EndStage, Launch, Return, Keyed, DiskTypes, PipelineTypes, Stages, Steps,
      disk, records, channels, TheFiles
<1>6. CASE StopProducer \/ CloseResults \/ Cancel \/ UNCHANGED vars
  BY <1>6
  DEF StopProducer, CloseResults, Cancel, vars, DiskTypes, PipelineTypes, disk,
      records, channels, workers, outcome, TheFiles
<1>7. CASE Write
  <2>1. PICK f \in TheFiles, c \in Contents :
          /\ content' = [content EXCEPT ![f] = c]
          /\ version' = [version EXCEPT ![f] = @ + 1]
    BY <1>7, WriteEffect
  <2>2. DiskTypes'
    BY <1>7, <2>1, WriteEffect DEF DiskTypes, records
  <2> QED
    BY <1>7, <2>2, WriteEffect DEF PipelineTypes, channels, workers
<1> QED
  BY <1>1, <1>2, <1>3, <1>4, <1>5, <1>6, <1>7 DEF Next, MainStep

--------------------------------------------------------------------------------
(* Which steps touch the files and the stamps. *)
LEMMA Writers ==
  ASSUME [Next]_vars
  PROVE  Refresh \/ Write \/ UNCHANGED <<content, version, stamp, refreshed>>
<1>1. CASE \E w \in Workers : WorkerStep(w)
  BY <1>1 DEF WorkerStep, TakeJob, WorkerLeaves, OpenFile, ReadFile, VerifyFile,
              GiveUp, Receive, disk, records
<1>2. CASE MainStep
  BY <1>2 DEF MainStep, Begin, GroupBySize, EndStage, disk, records
<1>3. CASE StopProducer \/ CloseResults \/ Cancel \/ UNCHANGED vars
  BY <1>3 DEF StopProducer, CloseResults, Cancel, vars, disk, records
<1> QED
  BY <1>1, <1>2, <1>3 DEF Next

(* A write takes the stamp of its file away for good, and leaves the others *)
(* as they are.                                                             *)
LEMMA WritesBreakStamps ==
  ASSUME Types, StampInv, Write, NEW r \in Records
  PROVE  /\ stamp'[r] <= version'[FileOf[r]]
         /\ Unchanged(r)' => /\ Unchanged(r)
                             /\ content'[FileOf[r]] = content[FileOf[r]]
<1>1. PICK f \in TheFiles, c \in Contents :
        /\ content' = [content EXCEPT ![f] = c]
        /\ version' = [version EXCEPT ![f] = @ + 1]
  BY WriteEffect
<1>2. UNCHANGED <<stamp, refreshed>>
  BY WriteEffect DEF records
<1>3. FileOf[r] \in TheFiles
  BY DEF TheFiles
<1>4. stamp[r] \in Nat /\ version[FileOf[r]] \in Nat
  BY <1>3 DEF Types, DiskTypes
<1>5. stamp[r] <= version[FileOf[r]]
  BY DEF StampInv
<1>6. CASE FileOf[r] = f
  <2>1. version'[FileOf[r]] = version[FileOf[r]] + 1
    BY <1>1, <1>3, <1>6 DEF Types, DiskTypes
  <2> QED
    BY <1>2, <1>4, <1>5, <2>1 DEF Unchanged
<1>7. CASE FileOf[r] # f
  <2>1. /\ version'[FileOf[r]] = version[FileOf[r]]
        /\ content'[FileOf[r]] = content[FileOf[r]]
    BY <1>1, <1>3, <1>7 DEF Types, DiskTypes
  <2> QED
    BY <1>2, <1>5, <2>1 DEF Unchanged
<1> QED
  BY <1>6, <1>7

LEMMA StampStep ==
  ASSUME Types, StampInv, [Next]_vars
  PROVE  StampInv'
<1> SUFFICES ASSUME NEW r \in Records
             PROVE  /\ stamp'[r] <= version'[FileOf[r]]
                    /\ \/ refreshed'[r] = None
                       \/ \E c \in Contents : refreshed'[r] = {c}
                    /\ refreshed'[r] # None /\ Unchanged(r)' =>
                         refreshed'[r] = {content'[FileOf[r]]}
  BY DEF StampInv
<1>1. /\ stamp[r] <= version[FileOf[r]]
      /\ \/ refreshed[r] = None
         \/ \E c \in Contents : refreshed[r] = {c}
      /\ refreshed[r] # None /\ Unchanged(r) =>
           refreshed[r] = {content[FileOf[r]]}
  BY DEF StampInv
<1>2. CASE Refresh
  <2>1. FileOf[r] \in TheFiles
    BY DEF TheFiles
  <2>2. content[FileOf[r]] \in Contents /\ version[FileOf[r]] \in Nat
    BY <2>1 DEF Types, DiskTypes
  <2>3. UNCHANGED <<content, version>>
    BY <1>2 DEF Refresh, disk
  <2>4. \/ UNCHANGED <<stamp, refreshed>>
        \/ \E p \in Records :
             /\ stamp' = [stamp EXCEPT ![p] = version[FileOf[p]]]
             /\ refreshed' = [refreshed EXCEPT ![p] = {content[FileOf[p]]}]
    BY <1>2 DEF Refresh, records, Types, DiskTypes
  <2> QED
    BY <1>1, <2>2, <2>3, <2>4 DEF Types, DiskTypes, Unchanged, None
<1>3. CASE Write
  BY <1>1, <1>3, WritesBreakStamps, WriteEffect DEF records
<1>4. CASE UNCHANGED <<content, version, stamp, refreshed>>
  BY <1>1, <1>4 DEF Unchanged
<1> QED
  BY <1>2, <1>3, <1>4, Writers

(* The workers and the channels: what each kind of step does to them. *)
LEMMA ChannelStep ==
  ASSUME Types, ChannelInv, [Next]_vars
  PROVE  ChannelInv'
<1> USE DEF ChannelInv, Pipelines
<1>1. CASE \E w \in Workers : WorkerStep(w)
  <2> PICK w \in Workers : WorkerStep(w)
    BY <1>1
  <2> USE DEF Types, PipelineTypes, Steps, Busy, channels
  <2>1. CASE TakeJob(w)
    BY <2>1 DEF TakeJob, Rest
  <2>2. CASE WorkerLeaves(w)
    BY <2>2 DEF WorkerLeaves
  <2>3. CASE OpenFile(w)
    BY <2>3 DEF OpenFile, Send
  <2>4. CASE ReadFile(w)
    BY <2>4 DEF ReadFile, Send
  <2>5. CASE VerifyFile(w)
    BY <2>5 DEF VerifyFile, Send
  <2>6. CASE GiveUp(w)
    BY <2>6 DEF GiveUp, MayGiveUp
  <2>7. CASE Receive(w)
    BY <2>7 DEF Receive, Return
  <2> QED
    BY <2>1, <2>2, <2>3, <2>4, <2>5, <2>6, <2>7 DEF WorkerStep
<1>2. CASE Begin \/ Refresh
  BY <1>2 DEF Begin, Refresh, Return, channels, workers
<1>3. CASE GroupBySize
  BY <1>3 DEF GroupBySize, Launch, Return, channels
<1>4. CASE EndStage
  BY <1>4 DEF EndStage, Launch, Return, channels
<1>5. CASE StopProducer \/ CloseResults \/ Cancel \/ UNCHANGED vars
  BY <1>5 DEF StopProducer, CloseResults, Cancel, vars, channels, workers
<1>6. CASE Write
  BY <1>6, WriteEffect DEF channels, workers
<1> QED
  BY <1>1, <1>2, <1>3, <1>4, <1>5, <1>6 DEF Next, MainStep

(* A worker hashes the stamped content, or finds out that it has not. *)
LEMMA JobStep ==
  ASSUME Types, StampInv, JobInv, ChannelInv, KeyInv, [Next]_vars
  PROVE  JobInv'
<1> USE DEF JobInv
<1>1. CASE \E w \in Workers : WorkerStep(w)
  <2> PICK w \in Workers : WorkerStep(w)
    BY <1>1
  <2>0. UNCHANGED <<content, version, stamp, refreshed>>
    BY DEF WorkerStep, TakeJob, WorkerLeaves, OpenFile, ReadFile, VerifyFile,
           GiveUp, Receive, disk, records
  <2> USE <2>0 DEF Types, PipelineTypes, Steps, Busy, channels, Unchanged
  <2>1. CASE TakeJob(w)
    <3>1. PICK r \in jobs : jobs' = jobs \ {r} /\ job' = [job EXCEPT ![w] = {r}]
      BY <2>1 DEF TakeJob, Rest
    <3> QED
      BY <2>1, <3>1 DEF TakeJob
  <2>2. CASE WorkerLeaves(w)
    BY <2>2 DEF WorkerLeaves
  <2>3. CASE OpenFile(w)
    BY <2>3 DEF OpenFile, Send
  <2>4. CASE ReadFile(w)
    <3>1. PICK r \in Records : job[w] = {r} /\ refreshed[r] # None
      BY <2>4 DEF ReadFile
    <3>2. CASE cancelled /\ Send(w, "cancelled") /\ UNCHANGED read
      BY <2>4, <3>1, <3>2 DEF ReadFile, Send
    <3>3. CASE /\ read' = [read EXCEPT ![w] = {content[FileOf[r]]}]
               /\ wpc' = [wpc EXCEPT ![w] = "verify"]
               /\ UNCHANGED err
      <4>1. Unchanged(r) => refreshed[r] = {content[FileOf[r]]}
        BY <3>1 DEF StampInv
      <4>2. UNCHANGED <<jobs, job>>
        BY <2>4 DEF ReadFile
      <4>3. /\ read'[w] = {content[FileOf[r]]} /\ wpc'[w] = "verify"
            /\ \A v \in Workers \ {w} : read'[v] = read[v] /\ wpc'[v] = wpc[v]
        BY <3>3
      <4>4. /\ wpc'[w] \in Busy => \E q \in Records :
                  job'[w] = {q} /\ refreshed'[q] # None
            /\ \A q \in job'[w] :
                 /\ Unchanged(q)' => read'[w] = refreshed'[q]
                 /\ wpc'[w] # "send"
        BY <3>1, <4>1, <4>2, <4>3
      <4>5. ASSUME NEW v \in Workers \ {w}
            PROVE  /\ wpc'[v] \in Busy => \E q \in Records :
                        job'[v] = {q} /\ refreshed'[q] # None
                   /\ \A q \in job'[v] :
                        /\ wpc'[v] = "verify" /\ Unchanged(q)' =>
                             read'[v] = refreshed'[q]
                        /\ wpc'[v] = "send" /\ err'[v] = "none" =>
                             read'[v] = refreshed'[q]
        BY <3>3, <4>2, <4>3
      <4>6. \A q \in jobs' : refreshed'[q] # None
        BY <4>2
      <4> QED
        BY <4>3, <4>4, <4>5, <4>6
    <3> QED
      BY <2>4, <3>1, <3>2, <3>3 DEF ReadFile
  <2>5. CASE VerifyFile(w)
    BY <2>5 DEF VerifyFile, Send, StableSnapshot
  <2>6. CASE GiveUp(w)
    BY <2>6 DEF GiveUp
  <2>7. CASE Receive(w)
    BY <2>7 DEF Receive, None
  <2> QED
    BY <2>1, <2>2, <2>3, <2>4, <2>5, <2>6, <2>7 DEF WorkerStep
<1>2. CASE Refresh
  <2>1. jobs = {} /\ \A w \in Workers : wpc[w] = "gone"
    BY <1>2 DEF ChannelInv, Refresh
  <2> QED
    BY <1>2, <2>1 DEF Refresh, channels, workers, Busy
<1>3. CASE GroupBySize
  <2>1. \A w \in Workers : wpc'[w] \in {"gone", "idle"}
    BY <1>3 DEF GroupBySize, Launch, ChannelInv
  <2>2. \A r \in jobs' : refreshed'[r] # None
    BY <1>3, SizeCandidates DEF GroupBySize, Launch, records, channels, Live
  <2> QED
    BY <2>1, <2>2 DEF Busy
<1>4. CASE EndStage
  <2>1. \A w \in Workers : wpc'[w] \in {"gone", "idle"}
    BY <1>4 DEF EndStage, Launch, ChannelInv
  <2>2. \A r \in Keyed : refreshed[r] # None
    BY <1>4 DEF EndStage, KeyInv, Keyed
  <2>3. \A r \in jobs' : refreshed'[r] # None
    BY <1>4, <2>2, KeyCandidates DEF EndStage, Launch, records, channels
  <2> QED
    BY <2>1, <2>3 DEF Busy
<1>5. CASE Begin \/ StopProducer \/ CloseResults \/ Cancel \/ UNCHANGED vars
  BY <1>5 DEF Begin, StopProducer, CloseResults, Cancel, vars, disk, records,
              channels, workers, Unchanged
<1>6. CASE Write
  <2>1. UNCHANGED <<refreshed, jobs, wpc, job, read, err>>
    BY <1>6, WriteEffect DEF records, channels, workers
  <2>2. \A w \in Workers : job[w] \subseteq Records
    BY DEF Types, PipelineTypes
  <2> QED
    BY <1>6, <2>1, <2>2, WritesBreakStamps
<1> QED
  BY <1>1, <1>2, <1>3, <1>4, <1>5, <1>6 DEF Next, MainStep

--------------------------------------------------------------------------------
(* Results *)
LEMMA KeyStep ==
  ASSUME Types, StampInv, JobInv, KeyInv, [Next]_vars
  PROVE  KeyInv'
<1> USE DEF KeyInv, Pipelines
<1>1. CASE \E w \in Workers : Receive(w)
  <2> PICK w \in Workers : Receive(w)
    BY <1>1
  <2>1. UNCHANGED refreshed
    BY DEF Receive, records
  <2>2. CASE UNCHANGED key /\ stage' \in {stage, "returned"}
    BY <2>1, <2>2 DEF KeyOf
  <2>3. CASE /\ err[w] = "none" /\ UNCHANGED stage
             /\ \E r \in job[w], c \in read[w] :
                  key' = [key EXCEPT ![r] = {Hash(stage, c)}]
    <3>1. PICK r \in job[w], c \in read[w] :
            key' = [key EXCEPT ![r] = {Hash(stage, c)}]
      BY <2>3
    <3>2. wpc[w] = "send" /\ stage \in Pipelines
      BY DEF Receive
    <3>3. r \in Records /\ refreshed[r] # None /\ read[w] = refreshed[r]
      BY <2>3, <3>2 DEF JobInv, Busy
    <3>4. refreshed[r] = {c}
      BY <3>3 DEF StampInv
    <3>5. KeyOf(stage, r) = {Hash(stage, c)}
      BY <3>4 DEF KeyOf
    <3>6. \A q \in Records : KeyOf(stage, q)' = KeyOf(stage, q)
      BY <2>1, <2>3 DEF KeyOf
    <3> QED
      BY <2>1, <2>3, <3>1, <3>2, <3>3, <3>5, <3>6 DEF Types, PipelineTypes
  <2> QED
    BY <2>2, <2>3 DEF Receive, Return
<1>2. CASE Refresh \/ Begin
  BY <1>2 DEF Refresh, Begin, Return
<1>3. CASE GroupBySize \/ EndStage
  BY <1>3 DEF GroupBySize, EndStage, Launch, Return
<1>4. CASE UNCHANGED <<key, refreshed, stage>>
  BY <1>4 DEF KeyOf
<1>5. CASE Write
  BY <1>4, <1>5, WriteEffect DEF records
<1>6. CASE StopProducer \/ CloseResults \/ Cancel \/ UNCHANGED vars
  BY <1>4, <1>6 DEF StopProducer, CloseResults, Cancel, vars, records
<1>7. ASSUME NEW w \in Workers, WorkerStep(w), ~Receive(w)
      PROVE  UNCHANGED <<key, refreshed, stage>>
  BY <1>7 DEF WorkerStep, TakeJob, WorkerLeaves, OpenFile, ReadFile, VerifyFile,
              GiveUp, records
<1> QED
  BY <1>1, <1>2, <1>3, <1>4, <1>5, <1>6, <1>7 DEF Next, MainStep

(* Only three steps end a scan with "ok"; once it has returned, all that a  *)
(* caller sees stays.                                                       *)
LEMMA Outcomes ==
  ASSUME ResultInv, [Next]_vars
  PROVE  /\ ResultInv'
         /\ stage = "returned" =>
              UNCHANGED <<stage, groups, result, ignored, refreshed>>
         /\ stage # "returned" /\ ~EndStage => groups' = {}
         /\ stage # "returned" /\ result' = "ok" => GroupBySize \/ EndStage
<1> USE DEF ResultInv, Pipelines, outcome, records
<1>1. CASE \E w \in Workers : WorkerStep(w)
  BY <1>1 DEF WorkerStep, TakeJob, WorkerLeaves, OpenFile, ReadFile, VerifyFile,
              GiveUp, Receive, Return
<1>2. CASE Begin \/ Refresh
  BY <1>2 DEF Begin, Refresh, Return
<1>3. CASE GroupBySize
  BY <1>3 DEF GroupBySize, Launch, Return
<1>4. CASE EndStage
  BY <1>4 DEF EndStage, Launch, Return
<1>5. CASE StopProducer \/ CloseResults \/ Cancel \/ UNCHANGED vars
  BY <1>5 DEF StopProducer, CloseResults, Cancel, vars
<1>6. CASE Write
  BY <1>6, WriteEffect
<1> QED
  BY <1>1, <1>2, <1>3, <1>4, <1>5, <1>6 DEF Next, MainStep

LEMMA ExactStep ==
  ASSUME KeyInv, ResultInv, GroupsAreExact, [Next]_vars
  PROVE  GroupsAreExact'
<1>1. CASE stage = "returned"
  BY <1>1, Outcomes DEF GroupsAreExact
<1>2. CASE stage # "returned" /\ groups' = {}
  BY <1>2 DEF GroupsAreExact
<1>3. CASE EndStage /\ groups' # {}
  <2>1. stage = "full" /\ groups' = Grouped /\ UNCHANGED refreshed
    BY <1>3 DEF EndStage, Pipelines, Launch, ResultInv, records
  <2>2. ASSUME NEW g \in Grouped, NEW r \in Records, NEW q \in Records,
               r \in g, q \in g
        PROVE  refreshed[r] = refreshed[q]
    <3>1. /\ key[r] = key[q] /\ key[r] # None /\ key[q] # None
      BY <2>2 DEF Grouped, Classes
    <3>2. key[r] = KeyOf("full", r) /\ key[q] = KeyOf("full", q)
      BY <2>1, <3>1 DEF KeyInv, Pipelines
    <3>3. KeyOf("full", r) = refreshed[r] /\ KeyOf("full", q) = refreshed[q]
      BY DEF KeyOf, Hash
    <3> QED
      BY <3>1, <3>2, <3>3
  <2> QED
    BY <2>1, <2>2 DEF GroupsAreExact
<1> QED
  BY <1>1, <1>2, <1>3, Outcomes

--------------------------------------------------------------------------------
(* Completeness *)
AllStamped == \A r \in Records : refreshed[r] # None

(* Files that share their boundary share their size, and equal files share  *)
(* both, so that no stage drops a file that the next one would compare.     *)
LEMMA StagesNarrow ==
  ASSUME StampInv, AllStamped
  PROVE  /\ \A r \in Records, q \in Records :
              Boundaries[q] = Boundaries[r] => SizeOf[q] = SizeOf[r]
         /\ \A r \in Records, q \in Records :
              refreshed[q] = refreshed[r] => Boundaries[q] = Boundaries[r]
<1>1. ASSUME NEW r \in Records, NEW q \in Records, Boundaries[q] = Boundaries[r]
      PROVE  SizeOf[q] = SizeOf[r]
  <2>1. PICK c \in Contents : refreshed[r] = {c}
    BY DEF AllStamped, StampInv
  <2>2. PICK d \in Contents : refreshed[q] = {d}
    BY DEF AllStamped, StampInv
  <2>3. /\ KeyOf("boundary", r) = {[size |-> c.size, edge |-> c.edge]}
        /\ KeyOf("boundary", q) = {[size |-> d.size, edge |-> d.edge]}
    BY <2>1, <2>2 DEF KeyOf, Hash
  <2>4. [size |-> c.size, edge |-> c.edge] = [size |-> d.size, edge |-> d.edge]
    BY <1>1, <2>3 DEF Boundaries
  <2>5. c.size = d.size
    BY <2>4
  <2> QED
    BY <2>1, <2>2, <2>5 DEF SizeOf
<1>2. ASSUME NEW r \in Records, NEW q \in Records, refreshed[q] = refreshed[r]
      PROVE  Boundaries[q] = Boundaries[r]
  BY <1>2 DEF Boundaries, KeyOf
<1> QED
  BY <1>1, <1>2

(* When no file is like another, there is nothing to report. *)
LEMMA NothingAlike ==
  ASSUME \A r \in Records, q \in Records : q # r => refreshed[q] # refreshed[r]
  PROVE  Classes(Records, refreshed) = {}
<1>1. Classes({}, refreshed) = {}
  BY DEF Classes
<1>2. Classes({}, refreshed) = Classes(Records, refreshed)
  BY SameClasses, DuplicateScanAssumption DEF DuplicateScanAssumption
<1> QED
  BY <1>1, <1>2

(* A stage that ends well has a key of every record it was due to hash.     *)
LEMMA AllHashed ==
  ASSUME Types, ChannelInv, KeyInv, CompleteInv, EndStage, Verdict = "ok",
         ignored = 0
  PROVE  /\ AllStamped
         /\ \A r \in Due(stage) : r \in Keyed
         /\ \A r \in Keyed : key[r] = KeyOf(stage, r)
<1>1. stage \in Pipelines /\ resultsClosed
  BY DEF EndStage
<1>2. fatal = "none" /\ cancelled = FALSE
  BY DEF Verdict, Types, PipelineTypes
<1>3. \A w \in Workers : wpc[w] = "gone"
  BY <1>1 DEF ChannelInv
<1>4. jobs = {}
  BY <1>1, <1>2, <1>3, DuplicateScanAssumption
  DEF ChannelInv, DuplicateScanAssumption
<1>5. \A r \in Records : ~InWork(r)
  BY <1>3, <1>4 DEF InWork, Busy
<1>6. AllStamped
  BY <1>1 DEF CompleteInv, AllStamped, Pipelines
<1>7. \A r \in Due(stage) : key[r] # None
  BY <1>1, <1>2, <1>5 DEF CompleteInv, Due, Twins
<1> QED
  BY <1>1, <1>6, <1>7 DEF Keyed, KeyInv, Due, Twins

(* The boundary stage hands on everything the full stage is due. *)
LEMMA BoundaryHandsOn ==
  ASSUME Types, StampInv, ChannelInv, KeyInv, CompleteInv, EndStage,
         Verdict = "ok", ignored = 0, stage = "boundary"
  PROVE  Due("full") \subseteq UNION Grouped
<1> SUFFICES ASSUME NEW r \in Records, NEW q \in Records, q # r,
                    Boundaries[q] = Boundaries[r]
             PROVE  r \in UNION Grouped
  BY DEF Due, Twins
<1>1. SizeOf[q] = SizeOf[r]
  BY AllHashed, StagesNarrow
<1>2. r \in Due("boundary") /\ q \in Due("boundary")
  BY <1>1 DEF Due, Twins
<1>3. r \in Keyed /\ q \in Keyed /\ key[r] = key[q]
  BY <1>2, AllHashed DEF Boundaries
<1> QED
  BY <1>3, KeyCandidates

LEMMA SuccessStep ==
  ASSUME Types, StampInv, ChannelInv, KeyInv, ResultInv, CompleteInv,
         SuccessIsComplete, [Next]_vars
  PROVE  SuccessIsComplete'
<1> SUFFICES ASSUME result' = "ok", ignored' = 0
             PROVE  groups' = Classes(Records, refreshed')
  BY DEF SuccessIsComplete
<1>1. CASE stage = "returned"
  BY <1>1, Outcomes DEF SuccessIsComplete
<1>2. CASE stage # "returned" /\ GroupBySize
  <2>1. /\ UNCHANGED <<refreshed, ignored>> /\ groups' = {}
        /\ UNION Classes(Live, SizeOf) = {}
    BY <1>2 DEF GroupBySize, Launch, Return, ResultInv, records
  <2>2. AllStamped /\ Live = Records
    BY <1>2, <2>1 DEF GroupBySize, CompleteInv, AllStamped, Live
  <2>3. \A r \in Records, q \in Records : q # r => refreshed[q] # refreshed[r]
    BY <2>1, <2>2, SizeCandidates DEF SizeOf
  <2> QED
    BY <2>1, <2>3, NothingAlike
<1>3. CASE stage = "boundary" /\ EndStage
  <2>1. /\ UNCHANGED <<refreshed, ignored>> /\ groups' = {}
        /\ Verdict = "ok" /\ UNION Grouped = {}
    BY <1>3 DEF EndStage, Launch, Return, ResultInv, records
  <2>2. AllStamped /\ Due("full") = {}
    BY <1>3, <2>1, AllHashed, BoundaryHandsOn
  <2>3. \A r \in Records, q \in Records : q # r => refreshed[q] # refreshed[r]
    BY <2>2, StagesNarrow DEF Due, Twins
  <2> QED
    BY <2>1, <2>3, NothingAlike
<1>4. CASE stage = "full" /\ EndStage
  <2>1. /\ UNCHANGED <<refreshed, ignored>> /\ groups' = Grouped
        /\ Verdict = "ok"
    BY <1>4 DEF EndStage, Return, records
  <2>2. \A r \in Keyed : key[r] = refreshed[r]
    BY <1>4, <2>1, AllHashed DEF KeyOf, Hash
  <2>3. \A r \in Records :
          (\E q \in Records : q # r /\ refreshed[q] = refreshed[r]) => r \in Keyed
    BY <1>4, <2>1, AllHashed, StagesNarrow DEF Due, Twins
  <2>4. Classes(Keyed, key) = Classes(Records, refreshed)
    <3>1. Keyed \in SUBSET Records /\ IsFiniteSet(Records)
      BY DuplicateScanAssumption DEF DuplicateScanAssumption, Keyed
    <3> QED
      BY <2>2, <2>3, <3>1, SameClasses
  <2> QED
    BY <2>1, <2>4 DEF Grouped, Keyed
<1> QED
  BY <1>1, <1>2, <1>3, <1>4, Outcomes DEF EndStage, Pipelines

--------------------------------------------------------------------------------
(* Steps that only move a record on. *)
LEMMA StampedStep ==
  ASSUME Types, CompleteInv, [Next]_vars
  PROVE  /\ ignored' = 0 /\ stage' \in {"refresh"} \cup Pipelines =>
              \A r \in Records : \/ refreshed'[r] # None
                                 \/ stage' = "refresh" /\ r \in inventory'
         /\ stage' = "begin" => inventory' = Records
<1> USE DEF CompleteInv, Pipelines, records, Types, DiskTypes, PipelineTypes
<1>1. CASE \E w \in Workers : WorkerStep(w)
  BY <1>1 DEF WorkerStep, TakeJob, WorkerLeaves, OpenFile, ReadFile, VerifyFile,
              GiveUp, Receive, Return
<1>2. CASE Begin
  BY <1>2 DEF Begin, Return
<1>3. CASE Refresh
  <2>1. CASE UNCHANGED records /\ stage' = "returned"
    BY <2>1
  <2>2. CASE \E r \in inventory :
               /\ inventory' = inventory \ {r}
               /\ refreshed' = [refreshed EXCEPT ![r] = {content[FileOf[r]]}]
               /\ UNCHANGED <<stage, ignored>>
    BY <1>3, <2>2 DEF Refresh, None
  <2>3. CASE ignored' = ignored + 1 /\ UNCHANGED stage
    BY <1>3, <2>3 DEF Refresh
  <2> QED
    BY <1>3, <2>1, <2>2, <2>3 DEF Refresh, Return
<1>4. CASE GroupBySize
  BY <1>4 DEF GroupBySize, Launch, Return
<1>5. CASE EndStage
  BY <1>5 DEF EndStage, Launch, Return
<1>6. CASE StopProducer \/ CloseResults \/ Cancel \/ UNCHANGED vars
  BY <1>6 DEF StopProducer, CloseResults, Cancel, vars
<1>7. CASE Write
  BY <1>7, WriteEffect
<1> QED
  BY <1>1, <1>2, <1>3, <1>4, <1>5, <1>6, <1>7 DEF Next, MainStep

(* A record due is handed out once, stays with its worker, and leaves it    *)
(* with a key, an error counted or a fatal one.                             *)
LEMMA DueStep ==
  ASSUME Types, StampInv, JobInv, ChannelInv, KeyInv, CompleteInv, [Next]_vars,
         stage' \in Pipelines, ignored' = 0, cancelled' = FALSE, fatal' = "none",
         NEW r \in Due(stage)'
  PROVE  key'[r] # None \/ InWork(r)'
<1>0. r \in Records
  BY DEF Due, Twins
<1>1. CASE /\ UNCHANGED <<refreshed, stage, ignored, cancelled, fatal>>
           /\ UNCHANGED <<jobs, wpc, job, key>>
  <2>1. r \in Due(stage)
    BY <1>1 DEF Due, Twins, SizeOf, Boundaries, KeyOf
  <2> QED
    BY <1>1, <2>1 DEF CompleteInv, InWork
<1>2. CASE \E w \in Workers : WorkerStep(w)
  <2> PICK w \in Workers : WorkerStep(w)
    BY <1>2
  <2>1. /\ UNCHANGED <<refreshed, stage, cancelled>>
        /\ ignored = 0 /\ fatal = "none"
    BY DEF WorkerStep, TakeJob, WorkerLeaves, OpenFile, ReadFile, VerifyFile,
           GiveUp, Receive, Return, IsFatal, records, Pipelines, Types,
           PipelineTypes
  <2>2. r \in Due(stage)
    BY <2>1 DEF Due, Twins, SizeOf, Boundaries, KeyOf
  <2>3. key[r] # None \/ InWork(r)
    BY <2>1, <2>2 DEF CompleteInv
  <2> USE <1>0, <2>3 DEF InWork, Types, PipelineTypes, Busy, Steps, channels
  <2>4. CASE TakeJob(w)
    <3>1. PICK p \in jobs : jobs' = jobs \ {p} /\ job' = [job EXCEPT ![w] = {p}]
      BY <2>4 DEF TakeJob, Rest
    <3>2. wpc[w] = "idle" /\ wpc'[w] = "open" /\ UNCHANGED key
          /\ \A v \in Workers \ {w} : wpc'[v] = wpc[v]
      BY <2>4 DEF TakeJob
    <3> QED
      BY <3>1, <3>2
  <2>5. CASE WorkerLeaves(w)
    BY <2>5 DEF WorkerLeaves
  <2>6. CASE OpenFile(w) \/ ReadFile(w) \/ VerifyFile(w)
    <3>1. UNCHANGED <<jobs, job, key>> /\ wpc'[w] \in Busy
          /\ \A v \in Workers \ {w} : wpc'[v] = wpc[v]
      BY <2>6 DEF OpenFile, ReadFile, VerifyFile, Send
    <3> QED
      BY <3>1
  <2>7. CASE GiveUp(w)
    BY <2>1, <2>7 DEF GiveUp, MayGiveUp
  <2>8. CASE Receive(w)
    <3>1. PICK p \in Records : job[w] = {p} /\ refreshed[p] # None
      BY <2>8 DEF Receive, JobInv
    <3>2. /\ err[w] = "none" /\ UNCHANGED jobs
          /\ \A v \in Workers \ {w} : wpc'[v] = wpc[v] /\ job'[v] = job[v]
          /\ \E c \in read[w] : key' = [key EXCEPT ![p] = {Hash(stage, c)}]
      BY <2>1, <2>8, <3>1 DEF Receive, Return, IsFatal, Pipelines
    <3> QED
      BY <3>1, <3>2 DEF None
  <2> QED
    BY <2>4, <2>5, <2>6, <2>7, <2>8 DEF WorkerStep
<1>3. CASE Begin \/ Refresh
  BY <1>3 DEF Begin, Refresh, Return, Pipelines
<1>4. CASE GroupBySize
  <2>1. /\ UNCHANGED <<refreshed, ignored>> /\ stage' = "boundary"
        /\ jobs' = UNION Classes(Live, SizeOf)
    BY <1>4 DEF GroupBySize, Launch, Return, records, Pipelines
  <2>2. Live = Records
    BY <1>4, <2>1 DEF GroupBySize, CompleteInv, Live
  <2>3. \E q \in Records : q # r /\ SizeOf[q] = SizeOf[r]
    BY <2>1 DEF Due, Twins, SizeOf
  <2> QED
    BY <1>0, <2>1, <2>2, <2>3, SizeCandidates DEF InWork
<1>5. CASE EndStage
  <2>1. /\ UNCHANGED <<refreshed, ignored>> /\ stage = "boundary"
        /\ stage' = "full" /\ jobs' = UNION Grouped /\ Verdict = "ok"
    BY <1>5 DEF EndStage, Launch, Return, records, Pipelines
  <2>2. r \in Due("full")
    BY <2>1 DEF Due, Twins, Boundaries, KeyOf
  <2> QED
    BY <1>5, <2>1, <2>2, BoundaryHandsOn DEF InWork
<1>6. CASE StopProducer
  BY <1>1, <1>6 DEF StopProducer, records, workers, Types, PipelineTypes
<1>7. CASE CloseResults \/ UNCHANGED vars
  BY <1>1, <1>7 DEF CloseResults, vars, records, workers
<1>8. CASE Cancel
  BY <1>8 DEF Cancel
<1>9. CASE Write
  BY <1>1, <1>9, WriteEffect DEF records, channels, workers
<1> QED
  BY <1>2, <1>3, <1>4, <1>5, <1>6, <1>7, <1>8, <1>9 DEF Next, MainStep

LEMMA CompleteStep ==
  ASSUME Types, StampInv, JobInv, ChannelInv, KeyInv, CompleteInv, [Next]_vars
  PROVE  CompleteInv'
BY StampedStep, DueStep DEF CompleteInv

--------------------------------------------------------------------------------
LEMMA InitIInv == Init => IInv
<1> SUFFICES ASSUME Init PROVE IInv
  OBVIOUS
<1>1. Types
  BY InitTypes
<1>2. \A r \in Records : FileOf[r] \in TheFiles
  BY DEF TheFiles
<1>3. StampInv
  BY <1>2 DEF Init, StampInv, None
<1>4. JobInv /\ ChannelInv
  BY DEF Init, JobInv, ChannelInv, Busy, None, Pipelines
<1>5. KeyInv /\ ResultInv /\ CompleteInv
  BY DEF Init, KeyInv, ResultInv, CompleteInv, Pipelines
<1>6. GroupsAreExact /\ SuccessIsComplete
  BY DEF Init, GroupsAreExact, SuccessIsComplete
<1> QED
  BY <1>1, <1>3, <1>4, <1>5, <1>6 DEF IInv

LEMMA StepIInv == IInv /\ [Next]_vars => IInv'
BY TypesStep, StampStep, JobStep, ChannelStep, KeyStep, Outcomes, ExactStep,
   SuccessStep, CompleteStep DEF IInv

THEOREM Invariance == Spec => []IInv
BY InitIInv, StepIInv, PTL DEF Spec

(* The files of a published group had one content when they were stamped,   *)
(* for every inventory and every write meanwhile.                           *)
THEOREM PublishedGroupsAreExact == Spec => []GroupsAreExact
<1>1. IInv => GroupsAreExact
  BY DEF IInv
<1> QED
  BY <1>1, Invariance, PTL

(* A success without an error counted has every group there is.             *)
THEOREM NoDuplicateIsMissed == Spec => []SuccessIsComplete
<1>1. IInv => SuccessIsComplete
  BY DEF IInv
<1> QED
  BY <1>1, Invariance, PTL

================================================================================
