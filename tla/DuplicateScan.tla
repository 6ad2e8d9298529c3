------------------------------ MODULE DuplicateScan ------------------------------
(***************************************************************************)
(* ScanFiles (internal/scanner/engine.go): the inventory is refreshed file *)
(* by file, then two pipelines in turn, boundary hash and full hash, each  *)
(* with a producer, workers, a closer and a collector on unbuffered        *)
(* channels, narrow the candidates down to exact duplicates while other    *)
(* programs write to the files.                                            *)
(*                                                                         *)
(* The version of a file stands for its snapshot (size, time, identity,    *)
(* links, streams): any change to what its path names changes it.          *)
(***************************************************************************)
EXTENDS Naturals, FiniteSets, FiniteSetsExt

CONSTANTS
  Records, FileOf,      \* the inventory; the file each record is of
  Contents,             \* [size, edge, body]: size, head and tail, the rest
  Layouts,              \* contents the files may start with
  Workers,
  MaxFiles,             \* ScanLimits
  MaxWrites,            \* bound: changes other programs make
  MaxFaults,            \* bound: files that cannot be read, roots that move
  MayCancel

TheFiles == {FileOf[r] : r \in Records}

ASSUME DuplicateScanAssumption ==
  /\ IsFiniteSet(Records) /\ IsFiniteSet(Workers) /\ Workers # {}
  /\ DOMAIN FileOf = Records
  /\ Layouts \subseteq [TheFiles -> Contents]
  /\ MaxFiles \in Nat /\ MaxWrites \in Nat /\ MaxFaults \in Nat
  /\ MayCancel \in BOOLEAN

VARIABLES
  content, version,      \* the files
  inventory,             \* records not refreshed yet
  stamp, refreshed,      \* version and content of each refreshed record
  stage,                 \* of the calling goroutine
  jobs, jobsClosed,      \* what the producer has left; its channel
  resultsClosed,
  wpc, job, read,        \* each worker: control, record, content it hashed
  err,                   \* error of the worker's result
  key,                   \* content hashed for each record in this stage
  fatal,                 \* fatalError of the collector
  groups, result, ignored, cancelled, faults

disk == <<content, version>>
records == <<inventory, stamp, refreshed>>
channels == <<jobs, jobsClosed, resultsClosed>>
workers == <<wpc, job, read, err>>
outcome == <<groups, result>>
vars == <<content, version, inventory, stamp, refreshed, stage, jobs,
          jobsClosed, resultsClosed, wpc, job, read, err, key, fatal, groups,
          result, ignored, cancelled, faults>>

None == {}
Fail == faults < MaxFaults /\ faults' = faults + 1
Pipelines == {"boundary", "full"}

(* What a stage tells of a content: the boundary hash reads head and tail.  *)
Hash(st, c) ==
  IF st = "boundary" THEN [size |-> c.size, edge |-> c.edge] ELSE c

(* The classes of at least two records on which f agrees. *)
Classes(S, f) ==
  {g \in {{q \in S : f[q] = f[r]} : r \in S} : Cardinality(g) > 1}

--------------------------------------------------------------------------------
Init ==
  /\ content \in Layouts
  /\ version = [f \in TheFiles |-> 0]
  /\ inventory = Records
  /\ stamp = [r \in Records |-> 0]
  /\ refreshed = [r \in Records |-> None]
  /\ stage = "begin"
  /\ jobs = {} /\ jobsClosed = TRUE /\ resultsClosed = TRUE
  /\ wpc = [w \in Workers |-> "gone"]
  /\ job = [w \in Workers |-> None]
  /\ read = [w \in Workers |-> None]
  /\ err = [w \in Workers |-> "none"]
  /\ key = [r \in Records |-> None]
  /\ fatal = "none"
  /\ groups = {} /\ result = "none" /\ ignored = 0
  /\ cancelled = FALSE /\ faults = 0

Return(value) == stage' = "returned" /\ result' = value

Begin ==
  /\ stage = "begin"
  /\ IF Cardinality(Records) > MaxFiles
       THEN Return("limit")
       ELSE stage' = "refresh" /\ UNCHANGED result
  /\ UNCHANGED <<disk, records, channels, workers, key, fatal, groups, ignored,
                 cancelled, faults>>

(* refreshRecords: a record that cannot be refreshed is dropped, and a root *)
(* that changed ends the scan.                                              *)
Refresh ==
  /\ stage = "refresh" /\ inventory # {}
  /\ \/ /\ cancelled /\ Return("cancelled")
        /\ UNCHANGED <<records, ignored, faults>>
     \/ /\ ~cancelled
        /\ \E r \in inventory :
             /\ inventory' = inventory \ {r}
             /\ \/ /\ stamp' = [stamp EXCEPT ![r] = version[FileOf[r]]]
                   /\ refreshed' = [refreshed EXCEPT ![r] =
                                      {content[FileOf[r]]}]
                   /\ UNCHANGED <<ignored, faults>>
                \/ /\ Fail /\ ignored' = ignored + 1
                   /\ UNCHANGED <<stamp, refreshed>>
        /\ UNCHANGED <<stage, result>>
     \/ /\ ~cancelled /\ Fail /\ Return("root-changed")
        /\ UNCHANGED <<records, ignored>>
  /\ UNCHANGED <<disk, channels, workers, key, fatal, groups, cancelled>>

Live == {r \in Records : refreshed[r] # None}

(* Each pipeline starts with its candidates; with none the scan is done.    *)
Launch(st, candidates) ==
  IF candidates = {}
    THEN Return("ok") /\ UNCHANGED <<channels, wpc, key>>
    ELSE /\ stage' = st
         /\ jobs' = candidates /\ jobsClosed' = FALSE /\ resultsClosed' = FALSE
         /\ wpc' = [w \in Workers |-> "idle"]
         /\ key' = [r \in Records |-> None]
         /\ UNCHANGED result

(* scanSizeGroups: only files that share their size go on. *)
SizeOf == [r \in Records |-> {c.size : c \in refreshed[r]}]

GroupBySize ==
  /\ stage = "refresh" /\ inventory = {}
  /\ IF cancelled /\ Live # {}
       THEN Return("cancelled") /\ UNCHANGED <<channels, wpc, key>>
       ELSE Launch("boundary", UNION Classes(Live, SizeOf))
  /\ UNCHANGED <<disk, records, job, read, err, fatal, groups, ignored,
                 cancelled, faults>>

--------------------------------------------------------------------------------
Rest(r) == jobs \ {r}

(* The producer hands the next file to an idle worker, or stops when the    *)
(* context is done.  The code orders the files by size and path, the model  *)
(* in some fixed order.                                                     *)
TakeJob(w) ==
  /\ wpc[w] = "idle" /\ jobs # {}
  /\ LET r == CHOOSE r \in jobs : TRUE IN
       /\ jobs' = Rest(r)
       /\ job' = [job EXCEPT ![w] = {r}]
  /\ wpc' = [wpc EXCEPT ![w] = "open"]
  /\ UNCHANGED <<disk, records, stage, jobsClosed, resultsClosed, read, err,
                 key, fatal, outcome, ignored, cancelled, faults>>

StopProducer ==
  /\ ~jobsClosed
  /\ jobs = {} \/ cancelled
  /\ jobs' = {} /\ jobsClosed' = TRUE
  /\ UNCHANGED <<disk, records, stage, resultsClosed, workers, key, fatal,
                 outcome, ignored, cancelled, faults>>

WorkerLeaves(w) ==
  /\ wpc[w] = "idle" /\ jobsClosed
  /\ wpc' = [wpc EXCEPT ![w] = "gone"]
  /\ UNCHANGED <<disk, records, stage, channels, job, read, err, key, fatal,
                 outcome, ignored, cancelled, faults>>

Send(w, error) ==
  /\ wpc' = [wpc EXCEPT ![w] = "send"]
  /\ err' = [err EXCEPT ![w] = error]

Unchanged(r) == stamp[r] = version[FileOf[r]]

(* boundaryHash and fullHash: open and compare with the record ... *)
OpenFile(w) ==
  /\ wpc[w] = "open"
  /\ \/ cancelled /\ Send(w, "cancelled") /\ UNCHANGED faults
     \/ /\ ~cancelled
        /\ \E r \in job[w] :
             IF Unchanged(r)
               THEN wpc' = [wpc EXCEPT ![w] = "read"] /\ UNCHANGED err
               ELSE Send(w, "changed")
        /\ UNCHANGED faults
     \/ ~cancelled /\ Fail /\ (Send(w, "unreadable") \/ Send(w, "root-changed"))
  /\ UNCHANGED <<disk, records, stage, channels, job, read, key, fatal, outcome,
                 ignored, cancelled>>

(* ... read the content there is now ... *)
ReadFile(w) ==
  /\ wpc[w] = "read"
  /\ \/ /\ cancelled /\ Send(w, "cancelled") /\ UNCHANGED read
     \/ /\ ~cancelled
        /\ \E r \in job[w] :
             read' = [read EXCEPT ![w] = {content[FileOf[r]]}]
        /\ wpc' = [wpc EXCEPT ![w] = "verify"]
        /\ UNCHANGED err
  /\ UNCHANGED <<disk, records, stage, channels, job, key, fatal, outcome,
                 ignored, cancelled, faults>>

\* mutant: the snapshot is not taken again after reading
NeverLookAgain(r) == TRUE
StableSnapshot(r) == Unchanged(r)

(* ... and require the same snapshot again. *)
VerifyFile(w) ==
  /\ wpc[w] = "verify"
  /\ \E r \in job[w] :
       \/ StableSnapshot(r) /\ Send(w, "none") /\ UNCHANGED faults
       \/ ~StableSnapshot(r) /\ Send(w, "changed") /\ UNCHANGED faults
       \/ Fail /\ Send(w, "root-changed")
  /\ UNCHANGED <<disk, records, stage, channels, job, read, key, fatal, outcome,
                 ignored, cancelled>>

\* mutant: a worker with a result only waits for the collector
AlwaysDeliver == FALSE
MayGiveUp == cancelled

(* select: the context is done, and the result is dropped. *)
GiveUp(w) ==
  /\ wpc[w] = "send" /\ MayGiveUp
  /\ wpc' = [wpc EXCEPT ![w] = "gone"]
  /\ UNCHANGED <<disk, records, stage, channels, job, read, err, key, fatal,
                 outcome, ignored, cancelled, faults>>

CloseResults ==
  /\ ~resultsClosed
  /\ \A w \in Workers : wpc[w] = "gone"
  /\ resultsClosed' = TRUE
  /\ UNCHANGED <<disk, records, stage, jobs, jobsClosed, workers, key, fatal,
                 outcome, ignored, cancelled, faults>>

--------------------------------------------------------------------------------
IsFatal(error) == error = "root-changed"

(* The collector receives one result. The first moved root is fatal, though *)
(* the loop goes on; every other error is counted; a cancelled context ends *)
(* the stage at once, with workers still out.                               *)
Receive(w) ==
  /\ stage \in Pipelines /\ wpc[w] = "send"
  /\ wpc' = [wpc EXCEPT ![w] = "idle"]
  /\ job' = [job EXCEPT ![w] = None]
  /\ read' = [read EXCEPT ![w] = None]
  /\ err' = [err EXCEPT ![w] = "none"]
  /\ \/ /\ cancelled /\ Return("cancelled")
        /\ UNCHANGED <<key, fatal, ignored>>
     \/ /\ ~cancelled /\ err[w] = "none"
        /\ \E r \in job[w], c \in read[w] :
             key' = [key EXCEPT ![r] = {Hash(stage, c)}]
        /\ UNCHANGED <<stage, result, fatal, ignored>>
     \/ /\ ~cancelled /\ IsFatal(err[w]) /\ fatal = "none"
        /\ fatal' = err[w]
        /\ UNCHANGED <<stage, result, key, ignored>>
     \/ /\ ~cancelled /\ err[w] # "none"
        /\ IsFatal(err[w]) => fatal # "none"
        /\ ignored' = ignored + 1
        /\ UNCHANGED <<stage, result, key, fatal>>
  /\ UNCHANGED <<disk, records, channels, groups, cancelled, faults>>

\* mutant: the context is not looked at after the last result
LastWord == IF fatal # "none" THEN fatal ELSE "ok"
Verdict == IF fatal # "none" THEN fatal
           ELSE IF cancelled THEN "cancelled" ELSE "ok"

Grouped == Classes({r \in Records : key[r] # None}, key)

(* The result channel is closed: an error, the next stage, or the groups.   *)
EndStage ==
  /\ stage \in Pipelines /\ resultsClosed
  /\ IF Verdict # "ok"
       THEN Return(Verdict) /\ UNCHANGED <<channels, wpc, key, groups>>
       ELSE IF stage = "boundary"
         THEN Launch("full", UNION Grouped) /\ UNCHANGED groups
         ELSE /\ Return("ok") /\ groups' = Grouped
              /\ UNCHANGED <<channels, wpc, key>>
  /\ UNCHANGED <<disk, records, job, read, err, fatal, ignored, cancelled,
                 faults>>

--------------------------------------------------------------------------------
Cancel ==
  /\ MayCancel /\ ~cancelled /\ stage # "returned"
  /\ cancelled' = TRUE
  /\ UNCHANGED <<disk, records, stage, channels, workers, key, fatal, outcome,
                 ignored, faults>>

(* Another program writes to a file: its snapshot changes with it. *)
Write ==
  /\ stage # "returned"
  /\ MapThenSumSet(LAMBDA f : version[f], TheFiles) < MaxWrites
  /\ \E f \in TheFiles, c \in Contents :
       /\ c # content[f]
       /\ content' = [content EXCEPT ![f] = c]
       /\ version' = [version EXCEPT ![f] = @ + 1]
  /\ UNCHANGED <<records, stage, channels, workers, key, fatal, outcome,
                 ignored, cancelled, faults>>

WorkerStep(w) ==
  \/ TakeJob(w) \/ WorkerLeaves(w) \/ OpenFile(w) \/ ReadFile(w)
  \/ VerifyFile(w) \/ GiveUp(w) \/ Receive(w)
MainStep == Begin \/ Refresh \/ GroupBySize \/ EndStage

Next ==
  \/ \E w \in Workers : WorkerStep(w)
  \/ MainStep \/ StopProducer \/ CloseResults \/ Cancel \/ Write

Spec == Init /\ [][Next]_vars

(* Every goroutine that can run runs in the end. *)
FairSpec ==
  /\ Spec
  /\ WF_vars(MainStep) /\ WF_vars(StopProducer) /\ WF_vars(CloseResults)
  /\ \A w \in Workers : WF_vars(WorkerStep(w))

--------------------------------------------------------------------------------

(* Whatever other programs write meanwhile, the files of a published group  *)
(* had one and the same content when the scan stamped them, so that a file  *)
(* whose stamp still holds still has it (engine.go 716-772, 891-924).       *)
GroupsAreExact ==
  \A g \in groups, r \in Records, q \in Records :
    r \in g /\ q \in g => refreshed[r] = refreshed[q]

(* A scan that succeeds without counting an error missed no duplicate:      *)
(* equal files are in one group (engine.go 187-241, 709-714, 860-889: a     *)
(* cancelled stage never passes for a complete one).                        *)
SuccessIsComplete ==
  result = "ok" /\ ignored = 0 =>
    groups = Classes(Records, refreshed)

(* The scan returns, and no goroutine stays behind, even those the          *)
(* collector left waiting (engine.go 655-689: each select has ctx.Done).    *)
ScanEnds ==
  <>(/\ stage = "returned" /\ jobsClosed /\ resultsClosed
     /\ \A w \in Workers : wpc[w] = "gone")

(* docs/ARCHITECTURE.md 67: "A verified duplicate group contains at least   *)
(* two distinct file identities whose exact hashes agree."                  *)
GroupsHoldDistinctFiles ==
  \A g \in groups : Cardinality({FileOf[r] : r \in g}) >= 2

================================================================================
