----------------------------- MODULE OperationState -----------------------------
(***************************************************************************)
(* The application state machine of internal/gui/operation_state.go.       *)
(*                                                                         *)
(* The Go struct is owned by the UI thread: each of its methods is one     *)
(* action.  Every begun operation has one worker goroutine that later      *)
(* calls back with its token; `workers` holds the tokens still out, and    *)
(* `cancelled` the generations whose context.CancelFunc has been invoked.  *)
(* A call that the code rejects with a transition error changes nothing    *)
(* and is not a step.                                                      *)
(***************************************************************************)
EXTENDS Naturals, FiniteSets

CONSTANTS
  Folders,        \* the folders a user may pick
  NoFolder,       \* the empty folder name
  MaxGeneration,  \* bound: no operation begins at or beyond this generation
  MaxRevision     \* bound: no folder change at or beyond this revision

ASSUME OperationStateAssumption ==
  /\ NoFolder \notin Folders
  /\ MaxGeneration \in Nat
  /\ MaxRevision \in Nat

VARIABLES
  phase, folder, folderRevision, nextGeneration,
  active,          \* the token of the active operation, NoToken for nil
  cancel,          \* generation whose CancelFunc is stored, 0 for nil
  closeRequested, allowClose,
  workers,         \* tokens whose goroutine has not called back yet
  cancelled        \* generations whose CancelFunc has been invoked

vars == <<phase, folder, folderRevision, nextGeneration, active, cancel,
          closeRequested, allowClose, workers, cancelled>>

--------------------------------------------------------------------------------
Idle == {"NoFolder", "FolderReady", "SurfaceReady", "ResultsReady"}
Scanning == {"SurfaceScanning", "SurfaceCancelling",
             "DuplicateScanning", "DuplicateCancelling"}
Guarded == {"Exporting", "ExportCancelling", "Deleting",
            "ClosingAfterExport", "ClosingAfterDelete"}
Phases == Idle \cup Scanning \cup Guarded \cup {"Closing"}

Kinds == {"surface-scan", "duplicate-scan", "export", "delete"}

Token == [generation : Nat \ {0}, folderRevision : Nat, kind : Kinds,
          folder : Folders \cup {NoFolder}]

NoToken == [generation |-> 0, folderRevision |-> 0, kind |-> "none",
            folder |-> NoFolder]

(* The phases in which a completion of each kind is expected. *)
PhasesOf(kind) ==
  CASE kind = "surface-scan"   -> {"SurfaceScanning", "SurfaceCancelling"}
    [] kind = "duplicate-scan" -> {"DuplicateScanning", "DuplicateCancelling"}
    [] kind = "export"         -> {"Exporting", "ExportCancelling",
                                   "ClosingAfterExport"}
    [] kind = "delete"         -> {"Deleting", "ClosingAfterDelete"}
    [] OTHER                   -> {}

AcceptsWhileUncancelled(token) ==   \* mutant: cancelled work is refused
  active = token /\ token.generation \notin cancelled

Accepts(token) ==
  /\ active # NoToken
  /\ active = token
  /\ phase \in PhasesOf(token.kind)

CanChangeFolderWhileScanning == phase \in Idle \cup Scanning   \* mutant

CanChangeFolder == phase \in Idle

CanReset == CanChangeFolder

--------------------------------------------------------------------------------
(* Helpers shared by the operations. *)

ForgetCancellation == cancel' = 0 /\ UNCHANGED cancelled   \* mutant

InvokeCancellation ==
  /\ cancel' = 0
  /\ cancelled' = IF cancel = 0 THEN cancelled ELSE cancelled \cup {cancel}

InvalidateActiveOperation ==
  /\ InvokeCancellation
  /\ active' = NoToken
  /\ nextGeneration' = nextGeneration + 1

ClearTokenOnly == active' = NoToken /\ UNCHANGED <<cancel, cancelled>>   \* mutant

ClearActiveOperation ==
  /\ active' = NoToken
  /\ cancel' = 0
  /\ UNCHANGED cancelled

NewToken(kind) == [generation |-> nextGeneration + 1, kind |-> kind,
                   folderRevision |-> folderRevision, folder |-> folder]

(* The caller hands the returned token to one worker goroutine. *)
BeginOperation(kind, next, cancellable) ==
  /\ nextGeneration < MaxGeneration
  /\ nextGeneration' = nextGeneration + 1
  /\ active' = NewToken(kind)
  /\ cancel' = IF cancellable THEN nextGeneration + 1 ELSE 0
  /\ workers' = workers \cup {NewToken(kind)}
  /\ phase' = next
  /\ UNCHANGED <<folder, folderRevision, closeRequested, allowClose, cancelled>>

--------------------------------------------------------------------------------
(* The UI operations. *)

SelectFolder(f) ==
  /\ CanChangeFolder
  /\ folderRevision < MaxRevision
  /\ InvalidateActiveOperation
  /\ folderRevision' = folderRevision + 1
  /\ folder' = f
  /\ phase' = "FolderReady"
  /\ UNCHANGED <<closeRequested, allowClose, workers>>

Reset ==
  /\ CanReset
  /\ folderRevision < MaxRevision
  /\ InvalidateActiveOperation
  /\ folderRevision' = folderRevision + 1
  /\ folder' = NoFolder
  /\ phase' = "NoFolder"
  /\ UNCHANGED <<closeRequested, allowClose, workers>>

ClearResults ==
  /\ phase = "ResultsReady"
  /\ phase' = "SurfaceReady"
  /\ UNCHANGED <<folder, folderRevision, nextGeneration, active, cancel,
                 closeRequested, allowClose, workers, cancelled>>

BeginSurfaceScan ==
  /\ phase = "FolderReady"
  /\ BeginOperation("surface-scan", "SurfaceScanning", TRUE)

BeginDuplicateScan ==
  /\ phase \in {"SurfaceReady", "ResultsReady"}
  /\ BeginOperation("duplicate-scan", "DuplicateScanning", TRUE)

BeginExport ==
  /\ phase = "ResultsReady"
  /\ BeginOperation("export", "Exporting", TRUE)

BeginDelete ==
  /\ phase = "ResultsReady"
  /\ BeginOperation("delete", "Deleting", FALSE)

RequestScanCancellation ==
  /\ \/ phase = "SurfaceScanning" /\ phase' = "SurfaceCancelling"
     \/ phase = "DuplicateScanning" /\ phase' = "DuplicateCancelling"
  /\ InvokeCancellation
  /\ UNCHANGED <<folder, folderRevision, nextGeneration, active,
                 closeRequested, allowClose, workers>>

RequestExportCancellation ==
  /\ phase = "Exporting"
  /\ phase' = "ExportCancelling"
  /\ InvokeCancellation
  /\ UNCHANGED <<folder, folderRevision, nextGeneration, active,
                 closeRequested, allowClose, workers>>

--------------------------------------------------------------------------------
(* Worker callbacks, delivered on the UI thread. *)

PublishRegardless(wasCancelling, successful) == successful   \* mutant

(* A scan publishes only when it succeeded and nobody cancelled it, even    *)
(* when the worker finished before it saw the cancellation.                 *)
Publishes(wasCancelling, successful) == successful /\ ~wasCancelling

CompleteSurfaceScan(token, successful) ==
  /\ token.kind = "surface-scan"
  /\ Accepts(token)
  /\ ClearActiveOperation
  /\ phase' = IF Publishes(phase = "SurfaceCancelling", successful)
              THEN "SurfaceReady" ELSE "FolderReady"
  /\ workers' = workers \ {token}
  /\ UNCHANGED <<folder, folderRevision, nextGeneration, closeRequested, allowClose>>

CompleteDuplicateScan(token, successful) ==
  /\ token.kind = "duplicate-scan"
  /\ Accepts(token)
  /\ ClearActiveOperation
  /\ phase' = IF Publishes(phase = "DuplicateCancelling", successful)
              THEN "ResultsReady" ELSE "SurfaceReady"
  /\ workers' = workers \ {token}
  /\ UNCHANGED <<folder, folderRevision, nextGeneration, closeRequested, allowClose>>

RetireIgnoringClose(token, closing) ==   \* mutant: the deferred close is lost
  /\ Accepts(token)
  /\ ClearActiveOperation
  /\ phase' = "ResultsReady"
  /\ workers' = workers \ {token}
  /\ UNCHANGED <<folder, folderRevision, nextGeneration, closeRequested, allowClose>>

(* Export and delete retire the same way: into a close that was deferred to *)
(* this moment, or back to the results.                                     *)
RetireGuarded(token, closing) ==
  /\ Accepts(token)
  /\ ClearActiveOperation
  /\ phase' = IF phase = closing THEN "Closing" ELSE "ResultsReady"
  /\ allowClose' = (allowClose \/ phase = closing)
  /\ workers' = workers \ {token}
  /\ UNCHANGED <<folder, folderRevision, nextGeneration, closeRequested>>

CompleteExport(token) ==
  token.kind = "export" /\ RetireGuarded(token, "ClosingAfterExport")

CompleteDelete(token) ==
  token.kind = "delete" /\ RetireGuarded(token, "ClosingAfterDelete")

(* A callback whose token is no longer the active one is ignored. *)
StaleCompletion(token) ==
  /\ ~Accepts(token)
  /\ workers' = workers \ {token}
  /\ UNCHANGED <<phase, folder, folderRevision, nextGeneration, active, cancel,
                 closeRequested, allowClose, cancelled>>

--------------------------------------------------------------------------------
(* requestClose, one action per answer.  After allowClose it answers        *)
(* "close now" and changes nothing.                                         *)

CloseScanOnly == phase \notin {"Deleting", "ClosingAfterDelete"}   \* mutant

MayCloseNow == phase \notin Guarded

RequestCloseNow ==
  /\ ~allowClose
  /\ MayCloseNow
  /\ closeRequested' = TRUE
  /\ InvalidateActiveOperation
  /\ phase' = "Closing"
  /\ allowClose' = TRUE
  /\ UNCHANGED <<folder, folderRevision, workers>>

RequestCloseDeferred ==
  /\ ~allowClose
  /\ closeRequested' = TRUE
  /\ \/ /\ phase \in {"Exporting", "ExportCancelling"}
        /\ phase' = "ClosingAfterExport"
        /\ InvokeCancellation
     \/ /\ phase = "Deleting"
        /\ phase' = "ClosingAfterDelete"
        /\ UNCHANGED <<cancel, cancelled>>
     \/ /\ phase \in {"ClosingAfterExport", "ClosingAfterDelete"}
        /\ UNCHANGED <<phase, cancel, cancelled>>
  /\ UNCHANGED <<folder, folderRevision, nextGeneration, active, allowClose, workers>>

RequestCloseAgain == allowClose /\ UNCHANGED vars

RequestClose == RequestCloseNow \/ RequestCloseDeferred \/ RequestCloseAgain

--------------------------------------------------------------------------------
Init ==
  /\ phase = "NoFolder"
  /\ folder = NoFolder
  /\ folderRevision = 0
  /\ nextGeneration = 0
  /\ active = NoToken
  /\ cancel = 0
  /\ closeRequested = FALSE
  /\ allowClose = FALSE
  /\ workers = {}
  /\ cancelled = {}

Callback(token) ==
  \/ \E successful \in BOOLEAN :
        \/ CompleteSurfaceScan(token, successful)
        \/ CompleteDuplicateScan(token, successful)
  \/ CompleteExport(token)
  \/ CompleteDelete(token)
  \/ StaleCompletion(token)

Next ==
  \/ \E f \in Folders : SelectFolder(f)
  \/ Reset
  \/ ClearResults
  \/ BeginSurfaceScan
  \/ BeginDuplicateScan
  \/ BeginExport
  \/ BeginDelete
  \/ RequestScanCancellation
  \/ RequestExportCancellation
  \/ RequestClose
  \/ \E token \in workers : Callback(token)

Spec == Init /\ [][Next]_vars

(* Every worker goroutine ends and posts its completion exactly once. *)
WorkersReturn == WF_vars(\E token \in workers : Callback(token))

FairSpec == Spec /\ WorkersReturn

--------------------------------------------------------------------------------
TypeOK ==
  /\ phase \in Phases
  /\ folder \in Folders \cup {NoFolder}
  /\ folderRevision \in Nat
  /\ nextGeneration \in Nat
  /\ active \in Token \cup {NoToken}
  /\ cancel \in Nat
  /\ closeRequested \in BOOLEAN
  /\ allowClose \in BOOLEAN
  /\ workers \subseteq Token
  /\ cancelled \subseteq Nat

(* The phase, the active token and the stored CancelFunc always tell the   *)
(* same story: no phase waits for a completion that accepts() will refuse   *)
(* (operation_state.go:358-375 against every assignment to phase), and a    *)
(* CancelFunc can only ever reach the operation that is active.             *)
PhaseMatchesOperation ==
  /\ active # NoToken => phase \in PhasesOf(active.kind) /\ active \in workers
  /\ phase \in Scanning \cup Guarded => active # NoToken
  /\ cancel # 0 => cancel = active.generation /\ cancel \notin cancelled
  /\ phase \in {"SurfaceScanning", "DuplicateScanning", "Exporting"} =>
        cancel = active.generation

(* No goroutine is left running unattended: a worker that is no longer the  *)
(* active operation has had its context cancelled                           *)
(* (invalidateActiveOperation cancels before it drops the token).           *)
OrphansAreCancelled ==
  \A t \in workers : t # active => t.generation \in cancelled

(* Work with outside effects is never abandoned: until its worker has been  *)
(* heard, an export or delete stays the active operation, and the window    *)
(* may not close (operation_state.go:314-341).                              *)
EffectsOutliveWindow ==
  \A t \in workers : t.kind \in {"export", "delete"} => t = active /\ ~allowClose

(* Two workers never run at once, and the one that does works on the folder *)
(* and revision on screen (canChangeFolder and the begin guards together).  *)
OneWorkerForTheScreen ==
  /\ \A s, t \in workers : s = t
  /\ \A t \in workers : t.folder = folder /\ t.folderRevision = folderRevision

(* A scan whose cancellation was invoked never publishes, even if its worker*)
(* reports success afterwards (operation_state.go:187-202, 215-230).        *)
CancelledScansNeverPublish ==
  [][\A t \in workers \ workers' :
       t.generation \in cancelled /\ t.kind \in {"surface-scan", "duplicate-scan"}
       => (phase' = "ResultsReady" => phase = "ResultsReady")
          /\ (phase' = "SurfaceReady" =>
                t.kind = "duplicate-scan" \/ phase = "SurfaceReady")]_vars

--------------------------------------------------------------------------------
(* Refinement of ForegroundOperation. *)
workBar == IF phase \in Scanning THEN "scan"
           ELSE IF phase \in Guarded THEN "guarded" ELSE "idle"
windowBar == IF allowClose THEN "closed"
             ELSE IF closeRequested THEN "closing" ELSE "open"

Foreground == INSTANCE ForegroundOperation WITH work <- workBar, window <- windowBar

(* The state machine implements the promise of ForegroundOperation: one     *)
(* operation at a time, guarded work never abandoned, a deferred close paid *)
(* exactly when the guarded work ends, nothing started afterwards.          *)
ImplementsForeground == Foreground!Spec

================================================================================
