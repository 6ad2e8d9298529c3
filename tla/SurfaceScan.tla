------------------------------- MODULE SurfaceScan -------------------------------
(***************************************************************************)
(* collectSurfaceRecords and readDirectory (internal/scanner/engine.go):   *)
(* the calling goroutine authorises the roots, then workers share a        *)
(* directoryQueue guarded by a mutex and a condition variable, and a       *)
(* watcher closes the queue when the context is cancelled.  Each critical  *)
(* section of the queue is one step.                                       *)
(***************************************************************************)
EXTENDS Naturals, Sequences, FiniteSets, SequencesExt

CONSTANTS
  Dirs, Files,          \* user directories and user files
  SubDirs, FilesIn,     \* what Readdir finds in each directory
  RootLists,            \* the root lists a caller may pass
  Workers,
  MaxRoots, MaxDirectories, MaxFiles,   \* ScanLimits
  MaxFaults,            \* bound: files, directories and reads that fail
  MayCancel             \* whether the caller may cancel its context

ASSUME SurfaceScanAssumption ==
  /\ SubDirs \in [Dirs -> SUBSET Dirs] /\ FilesIn \in [Dirs -> SUBSET Files]
  /\ Dirs \cap Files = {}
  /\ IsFiniteSet(Dirs) /\ IsFiniteSet(Files)
  /\ IsFiniteSet(Workers) /\ Workers # {}
  /\ \A r \in RootLists : r \in Seq(Dirs \cup Files)
  /\ MaxRoots \in Nat /\ MaxDirectories \in Nat /\ MaxFiles \in Nat
  /\ MaxFaults \in Nat /\ MayCancel \in BOOLEAN

Nodes == Dirs \cup Files
Contents(x) == IF x \in Dirs THEN SubDirs[x] \cup FilesIn[x] ELSE {}

(* What lies below each node, itself included: whatever is in every set     *)
(* that holds the node and, with a directory, its contents.                 *)
Hereditary(S) == \A x \in S : Contents(x) \subseteq S
Below ==
  [x \in Nodes |->
     {y \in Nodes : \A S \in SUBSET Nodes : x \in S /\ Hereditary(S) => y \in S}]

(* An entry has one parent and no directory lies below itself: reparse      *)
(* points are not followed.                                                 *)
ASSUME TreeAssumption ==
  /\ \A d, e \in Dirs : d = e \/ Contents(d) \cap Contents(e) = {}
  /\ \A d \in Dirs : \A x \in Contents(d) : d \notin Below[x]

VARIABLES
  roots, visited, rootDirs,   \* the argument; root identities seen; directories
  dirs, pending, closed,      \* directoryQueue
  dirCount, fileCount,        \* scanBudget
  recorded,                   \* records of each file in report.Files
  ignored,                    \* errorsIgnored, and skippedSystemItems for an
                              \* entry that was replaced by a reparse point
  main, result,               \* the calling goroutine and what it returns
  wpc, entries, found, err,   \* each worker: control, Readdir, subdirectory, error
  once, scanErr,              \* failOnce and the error it keeps
  watcher,
  parentDone, scanDone,       \* the caller's context and the derived one
  faults

caller == <<roots, visited, rootDirs>>
queue == <<dirs, pending, closed>>
budget == <<dirCount, fileCount>>
report == <<recorded, ignored>>
worker == <<wpc, entries, found, err>>
failure == <<once, scanErr>>
contexts == <<parentDone, scanDone>>
vars == <<roots, visited, rootDirs, dirs, pending, closed, dirCount, fileCount,
          recorded, ignored, main, result, wpc, entries, found, err, once,
          scanErr, watcher, parentDone, scanDone, faults>>

--------------------------------------------------------------------------------
Fail == faults < MaxFaults /\ faults' = faults + 1
Ignore == ignored' = ignored + 1

Init ==
  /\ roots \in RootLists /\ visited = {} /\ rootDirs = <<>>
  /\ dirs = <<>> /\ pending = 0 /\ closed = FALSE
  /\ dirCount = 0 /\ fileCount = 0
  /\ recorded = [f \in Files |-> 0] /\ ignored = 0
  /\ main = "start" /\ result = "none"
  /\ wpc = [w \in Workers |-> "off"]
  /\ entries = [w \in Workers |-> {}]
  /\ found = [w \in Workers |-> {}]
  /\ err = [w \in Workers |-> "none"]
  /\ once = "unused" /\ scanErr = "none"
  /\ watcher = "off"
  /\ parentDone = FALSE /\ scanDone = FALSE
  /\ faults = 0

Return(value) == main' = "returned" /\ result' = value

--------------------------------------------------------------------------------
(* No root, or too many, is refused at once. *)
CheckRoots ==
  /\ main = "start"
  /\ \/ roots = <<>> /\ Return("nothing-readable")
     \/ Len(roots) > MaxRoots /\ Return("limit")
     \/ Len(roots) \in 1..MaxRoots /\ main' = "roots" /\ UNCHANGED result
  /\ UNCHANGED <<caller, queue, budget, report, worker, failure, watcher,
                 contexts, faults>>

(* reserveCardinality *)
Full(count, limit) == count >= limit

(* The roots, one after the other.  A root that cannot be authorised is     *)
(* ignored, unless it is a reparse point or moved; one seen before, by      *)
(* identity, is skipped; a file is recorded next.                           *)
SeenNever(root) == FALSE   \* mutant: a root given twice is taken twice
Seen(root) == root \in visited

TakeRoot ==
  /\ main = "roots" /\ roots # <<>>
  /\ LET root == Head(roots) IN
       \/ /\ scanDone /\ Return("cancelled")
          /\ UNCHANGED <<caller, budget, report, faults>>
       \/ /\ ~scanDone /\ Fail
          /\ \/ Return("unsafe-root") /\ UNCHANGED <<caller, report>>
             \/ /\ roots' = Tail(roots) /\ Ignore
                /\ UNCHANGED <<visited, rootDirs, recorded, main, result>>
          /\ UNCHANGED budget
       \/ /\ ~scanDone /\ Seen(root)
          /\ roots' = Tail(roots)
          /\ UNCHANGED <<visited, rootDirs, budget, report, main, result,
                         faults>>
       \/ /\ ~scanDone /\ ~Seen(root) /\ root \in Dirs
          /\ visited' = visited \cup {root}
          /\ IF Full(dirCount, MaxDirectories)
               THEN /\ Return("limit")
                    /\ UNCHANGED <<roots, rootDirs, dirCount>>
               ELSE /\ rootDirs' = Append(rootDirs, root)
                    /\ dirCount' = dirCount + 1
                    /\ roots' = Tail(roots)
                    /\ UNCHANGED <<main, result>>
          /\ UNCHANGED <<fileCount, report, faults>>
       \/ /\ ~scanDone /\ ~Seen(root) /\ root \in Files
          /\ visited' = visited \cup {root}
          /\ main' = "record-root"
          /\ UNCHANGED <<roots, rootDirs, budget, report, result, faults>>
  /\ UNCHANGED <<queue, worker, failure, watcher, contexts>>

(* A cancellation that recordFile meets is counted like a file it cannot    *)
(* read.                                                                    *)
RecordRoot ==
  /\ main = "record-root"
  /\ \/ /\ \/ scanDone /\ UNCHANGED faults
           \/ ~scanDone /\ Fail
        /\ roots' = Tail(roots) /\ Ignore /\ main' = "roots"
        /\ UNCHANGED <<recorded, fileCount, result>>
     \/ /\ ~scanDone /\ Fail /\ Return("root-changed")
        /\ UNCHANGED <<roots, recorded, ignored, fileCount>>
     \/ /\ ~scanDone /\ Full(fileCount, MaxFiles) /\ Return("limit")
        /\ UNCHANGED <<roots, recorded, ignored, fileCount, faults>>
     \/ /\ ~scanDone /\ ~Full(fileCount, MaxFiles)
        /\ recorded' = [recorded EXCEPT ![Head(roots)] = @ + 1]
        /\ fileCount' = fileCount + 1
        /\ roots' = Tail(roots) /\ main' = "roots"
        /\ UNCHANGED <<ignored, result, faults>>
  /\ UNCHANGED <<visited, rootDirs, dirCount, queue, worker, failure, watcher,
                 contexts>>

(* Nothing to read is an error; otherwise the workers and the watcher start.*)
StartWorkers ==
  /\ main = "roots" /\ roots = <<>>
  /\ IF rootDirs = <<>> /\ fileCount = 0
       THEN Return("nothing-readable") /\ UNCHANGED <<queue, wpc, watcher>>
       ELSE /\ dirs' = rootDirs /\ pending' = Len(rootDirs)
            /\ wpc' = [w \in Workers |-> "next"]
            /\ watcher' = "armed"
            /\ main' = "waiting"
            /\ UNCHANGED <<closed, result>>
  /\ UNCHANGED <<caller, budget, report, entries, found, err, failure,
                 contexts, faults>>

--------------------------------------------------------------------------------
(* directoryQueue. Sleeping is cond.Wait; a woken worker tests again.       *)
Sleepers == {w \in Workers : wpc[w] = "asleep"}
Wake(pcs, some) == [w \in Workers |-> IF w \in some THEN "next" ELSE pcs[w]]

\* mutant: one sleeper is told of the end, not all
SignalOnly == {{s} : s \in Sleepers} \cup (IF Sleepers = {} THEN {{}} ELSE {})
(* Broadcast and Signal, as the sets of sleepers they may wake. *)
Broadcast == {Sleepers}
Signal == IF Sleepers = {} THEN {{}} ELSE {{s} : s \in Sleepers}

MustWait == dirs = <<>> /\ pending > 0 /\ ~closed
Drained == closed \/ pending = 0

(* queue.next: sleep, leave, or take the directory queued last. *)
NextDirectory(w) ==
  /\ wpc[w] = "next"
  /\ IF MustWait THEN wpc' = [wpc EXCEPT ![w] = "asleep"] /\ UNCHANGED dirs
     ELSE IF Drained THEN wpc' = [wpc EXCEPT ![w] = "gone"] /\ UNCHANGED dirs
     ELSE /\ dirs' = Front(dirs)
          /\ wpc' = [wpc EXCEPT ![w] = "open"]
  /\ found' = IF MustWait \/ Drained THEN found
              ELSE [found EXCEPT ![w] = {Last(dirs)}]
  /\ UNCHANGED <<caller, pending, closed, budget, report, main, result,
                 entries, err, failure, watcher, contexts, faults>>

(* queue.done, called whatever readDirectory returned. *)
AfterDone(w) == IF pending > 0 THEN pending - 1 ELSE 0

FinishDirectory(w) ==
  /\ wpc[w] = "finish"
  /\ pending' = AfterDone(w)
  /\ \E woken \in IF pending' = 0 THEN Broadcast ELSE {{}} :
       wpc' = Wake([wpc EXCEPT ![w] =
                      IF err[w] = "none" THEN "next" ELSE "fail"], woken)
  /\ UNCHANGED <<caller, dirs, closed, budget, report, main, result, entries,
                 found, err, failure, watcher, contexts, faults>>

CloseQueue(pcs) ==
  /\ closed' = TRUE
  /\ \E woken \in Broadcast : wpc' = Wake(pcs, woken)

--------------------------------------------------------------------------------
(* readDirectory, entry by entry. *)
Leave(w, error) ==
  /\ wpc' = [wpc EXCEPT ![w] = "finish"]
  /\ err' = [err EXCEPT ![w] = error]
  /\ entries' = [entries EXCEPT ![w] = {}]
  /\ found' = [found EXCEPT ![w] = {}]

(* A directory that cannot be opened in its scope is skipped, unless the    *)
(* root itself changed.                                                     *)
OpenDirectory(w) ==
  /\ wpc[w] = "open"
  /\ \/ scanDone /\ Leave(w, "cancelled") /\ UNCHANGED <<ignored, faults>>
     \/ /\ ~scanDone
        /\ \E d \in found[w] :
             entries' = [entries EXCEPT ![w] = Contents(d)]
        /\ found' = [found EXCEPT ![w] = {}]
        /\ wpc' = [wpc EXCEPT ![w] = "read"]
        /\ UNCHANGED <<err, ignored, faults>>
     \/ /\ ~scanDone /\ Fail
        /\ \/ Leave(w, "root-changed") /\ UNCHANGED ignored
           \/ Leave(w, "none") /\ Ignore
  /\ UNCHANGED <<caller, queue, budget, recorded, main, result, failure,
                 watcher, contexts>>

(* The end of the directory, a cancelled context, or a Readdir that fails,  *)
(* which abandons the entries not read yet.                                 *)
EndDirectory(w) ==
  /\ wpc[w] = "read"
  /\ \/ entries[w] = {} /\ Leave(w, "none") /\ UNCHANGED <<ignored, faults>>
     \/ scanDone /\ Leave(w, "cancelled") /\ UNCHANGED <<ignored, faults>>
     \/ Fail /\ Leave(w, "none") /\ Ignore
  /\ UNCHANGED <<caller, queue, budget, recorded, main, result, failure,
                 watcher, contexts>>

(* An entry whose attributes cannot be read is ignored. *)
SkipEntry(w) ==
  /\ wpc[w] = "read" /\ ~scanDone
  /\ \E e \in entries[w] : entries' = [entries EXCEPT ![w] = @ \ {e}]
  /\ Fail /\ Ignore
  /\ UNCHANGED <<caller, queue, budget, recorded, main, result, wpc, found,
                 err, failure, watcher, contexts>>

(* A subdirectory is reserved against the budget, then queued. *)
ReadSubDir(w) ==
  /\ wpc[w] = "read" /\ ~scanDone
  /\ \E d \in entries[w] \cap Dirs :
       IF Full(dirCount, MaxDirectories)
         THEN Leave(w, "limit") /\ UNCHANGED dirCount
         ELSE /\ dirCount' = dirCount + 1
              /\ entries' = [entries EXCEPT ![w] = @ \ {d}]
              /\ found' = [found EXCEPT ![w] = {d}]
              /\ wpc' = [wpc EXCEPT ![w] = "add"]
              /\ UNCHANGED err
  /\ UNCHANGED <<caller, queue, fileCount, report, main, result, failure,
                 watcher, contexts, faults>>

\* mutant: nobody is told of a queued directory
NoWake == {{}}
ToldOfAdd == Signal

(* queue.add, refused by a closed queue. *)
AddDirectory(w) ==
  /\ wpc[w] = "add"
  /\ IF closed
       THEN /\ Leave(w, IF scanDone THEN "cancelled" ELSE "queue-closed")
            /\ UNCHANGED <<dirs, pending>>
       ELSE /\ pending' = pending + 1
            /\ \E d \in found[w] : dirs' = Append(dirs, d)
            /\ \E woken \in ToldOfAdd :
                 wpc' = Wake([wpc EXCEPT ![w] = "read"], woken)
            /\ found' = [found EXCEPT ![w] = {}]
            /\ UNCHANGED <<entries, err>>
  /\ UNCHANGED <<caller, closed, budget, report, main, result, failure,
                 watcher, contexts, faults>>

(* The context is looked at before the entry ... *)
ReadFile(w) ==
  /\ wpc[w] = "read" /\ ~scanDone
  /\ \E f \in entries[w] \cap Files :
       /\ entries' = [entries EXCEPT ![w] = @ \ {f}]
       /\ found' = [found EXCEPT ![w] = {f}]
  /\ wpc' = [wpc EXCEPT ![w] = "record"]
  /\ UNCHANGED <<caller, queue, budget, report, main, result, err, failure,
                 watcher, contexts, faults>>

(* ... and again by recordFile, whose cancellation error is only counted.   *)
RecordFile(w) ==
  /\ wpc[w] = "record"
  /\ \/ /\ scanDone /\ Ignore
        /\ wpc' = [wpc EXCEPT ![w] = "read"]
        /\ found' = [found EXCEPT ![w] = {}]
        /\ UNCHANGED <<recorded, fileCount, entries, err, faults>>
     \/ /\ ~scanDone /\ Fail
        /\ \/ Leave(w, "root-changed") /\ UNCHANGED ignored
           \/ /\ Ignore
              /\ wpc' = [wpc EXCEPT ![w] = "read"]
              /\ found' = [found EXCEPT ![w] = {}]
              /\ UNCHANGED <<entries, err>>
        /\ UNCHANGED <<recorded, fileCount>>
     \/ /\ ~scanDone /\ Full(fileCount, MaxFiles)
        /\ Leave(w, "limit")
        /\ UNCHANGED <<recorded, ignored, fileCount, faults>>
     \/ /\ ~scanDone /\ ~Full(fileCount, MaxFiles)
        /\ fileCount' = fileCount + 1
        /\ \E f \in found[w] : recorded' = [recorded EXCEPT ![f] = @ + 1]
        /\ wpc' = [wpc EXCEPT ![w] = "read"]
        /\ found' = [found EXCEPT ![w] = {}]
        /\ UNCHANGED <<ignored, entries, err, faults>>
  /\ UNCHANGED <<caller, queue, dirCount, main, result, failure, watcher,
                 contexts>>

--------------------------------------------------------------------------------
\* mutant: every error is kept, the last one wins
EveryTime == {"unused", "used"}
FirstTime == {"unused"}

(* fail: sync.Once lets one worker keep its error, cancel, and close the    *)
(* queue, in this order; the others wait for it and go.                     *)
KeepError(w) ==
  /\ wpc[w] = "fail"
  /\ \/ /\ once \in FirstTime
        /\ once' = "running" /\ scanErr' = err[w]
        /\ wpc' = [wpc EXCEPT ![w] = "cancel"]
     \/ /\ once = "used"
        /\ wpc' = [wpc EXCEPT ![w] = "gone"]
        /\ UNCHANGED failure
  /\ UNCHANGED <<caller, queue, budget, report, main, result, entries, found,
                 err, watcher, contexts, faults>>

CancelScan(w) ==
  /\ wpc[w] = "cancel"
  /\ scanDone' = TRUE
  /\ wpc' = [wpc EXCEPT ![w] = "close"]
  /\ UNCHANGED <<caller, queue, budget, report, main, result, entries, found,
                 err, failure, watcher, parentDone, faults>>

CloseAndLeave(w) ==
  /\ wpc[w] = "close"
  /\ CloseQueue([wpc EXCEPT ![w] = "gone"])
  /\ once' = "used"
  /\ UNCHANGED <<caller, dirs, pending, budget, report, main, result, entries,
                 found, err, scanErr, watcher, contexts, faults>>

(* The watcher: the queue of a cancelled scan is closed even if every       *)
(* worker sleeps.                                                           *)
Watch ==
  /\ watcher = "armed"
  /\ \/ scanDone /\ CloseQueue(wpc)
     \/ main \in {"joined", "returned"} /\ UNCHANGED <<closed, wpc>>
  /\ watcher' = "off"
  /\ UNCHANGED <<caller, dirs, pending, budget, report, main, result, entries,
                 found, err, failure, contexts, faults>>

--------------------------------------------------------------------------------
(* wg.Wait, then: the caller's context, the kept error, the roots again. *)
Join ==
  /\ main = "waiting" /\ \A w \in Workers : wpc[w] = "gone"
  /\ main' = "joined"
  /\ UNCHANGED <<caller, queue, budget, report, result, worker, failure,
                 watcher, contexts, faults>>

\* mutant: the kept error is not looked at
IgnoreScanErr == IF parentDone THEN "cancelled" ELSE "ok"
Verdict == IF parentDone THEN "cancelled"
           ELSE IF scanErr # "none" THEN scanErr ELSE "ok"

Conclude ==
  /\ main = "joined"
  /\ \/ Return(Verdict) /\ UNCHANGED faults
     \/ Verdict = "ok" /\ Fail /\ Return("root-changed")
  /\ UNCHANGED <<caller, queue, budget, report, worker, failure, watcher,
                 contexts>>

(* Cancelling the caller's context cancels the derived one. *)
Cancel ==
  /\ MayCancel /\ ~parentDone /\ main # "returned"
  /\ parentDone' = TRUE /\ scanDone' = TRUE
  /\ UNCHANGED <<caller, queue, budget, report, main, result, worker, failure,
                 watcher, faults>>

WorkerStep(w) ==
  \/ NextDirectory(w) \/ FinishDirectory(w) \/ OpenDirectory(w)
  \/ EndDirectory(w) \/ SkipEntry(w) \/ ReadSubDir(w) \/ AddDirectory(w) \/ ReadFile(w)
  \/ RecordFile(w) \/ KeepError(w) \/ CancelScan(w) \/ CloseAndLeave(w)

MainStep == CheckRoots \/ TakeRoot \/ RecordRoot \/ StartWorkers \/ Join \/ Conclude

Next == (\E w \in Workers : WorkerStep(w)) \/ MainStep \/ Watch \/ Cancel

Spec == Init /\ [][Next]_vars

(* Every goroutine that can run runs in the end. *)
FairSpec ==
  /\ Spec
  /\ WF_vars(MainStep) /\ WF_vars(Watch)
  /\ \A w \in Workers : WF_vars(WorkerStep(w))

--------------------------------------------------------------------------------
Busy == {"open", "read", "add", "record", "finish"}
BusyWorkers == {w \in Workers : wpc[w] \in Busy}

Callers == {w \in Workers : wpc[w] = "next"}

(* A worker sleeps only while somebody is left to wake it, the end has not  *)
(* come yet, and every queued directory has an awake worker coming for it   *)
(* (engine.go 1063-1090: no wakeup is lost).                                *)
SleepersHaveAWaker ==
  Sleepers # {} =>
    /\ ~Drained
    /\ BusyWorkers # {} \/ Callers # {}
    /\ Len(dirs) <= Cardinality(Callers)

(* A scan that succeeds lost nothing: no worker reported an error, nothing  *)
(* is left in the queue, and unless a read was counted as ignored every     *)
(* file below every root is in the report once per root that reaches it     *)
(* (engine.go 431-463).                                                     *)
NothingLeft ==
  /\ \A w \in Workers : err[w] = "none"
  /\ dirs = <<>> /\ pending = 0

SuccessIsComplete ==
  result = "ok" =>
    /\ NothingLeft
    /\ ignored = 0 => \A f \in Files :
         recorded[f] = Cardinality({r \in visited : f \in Below[r]})

Visits(S) == Cardinality({p \in visited \X S : p[2] \in Below[p[1]]})

(* The error a scan returns is one it deserves: cancelled only if the caller*)
(* cancelled, never because a worker saw the scan's own cancellation or its *)
(* closed queue; a limit only if the roots hold more than the limit, which  *)
(* is never exceeded however many goroutines reserve at once (engine.go     *)
(* 418-430, 453-458 and 613-624).                                           *)
CausesAreReal ==
  /\ result # "queue-closed" /\ \A w \in Workers : err[w] # "queue-closed"
  /\ result = "cancelled" => parentDone

ErrorsAreDeserved ==
  /\ dirCount <= MaxDirectories /\ fileCount <= MaxFiles
  /\ CausesAreReal
  /\ result \in {"root-changed", "unsafe-root"} => faults > 0
  /\ result = "limit" =>
       \/ Len(roots) > MaxRoots
       \/ Visits(Files) > MaxFiles
       \/ Visits(Dirs) > MaxDirectories

(* The promise, whatever the workers do meanwhile: no file is recorded      *)
(* twice for one root, not even after faults and repeated or overlapping    *)
(* roots, nothing is recorded after the answer, which is given once and is  *)
(* "ok" only for a complete inventory (engine.go 243-464).                  *)
Promise == INSTANCE Inventory
           WITH asked <- visited, inventory <- recorded, lost <- ignored,
                stop <- parentDone, answer <- result
KeepsThePromise == Promise!Spec

(* The scan returns, and leaves no goroutine behind (engine.go 409-452). *)
ScanEnds ==
  <>(main = "returned" /\ watcher = "off"
     /\ \A w \in Workers : wpc[w] \in {"off", "gone"})

================================================================================
