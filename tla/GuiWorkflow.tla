------------------------------- MODULE GuiWorkflow -------------------------------
(***************************************************************************)
(* The desktop window of internal/gui: the UI thread, the table, the modal *)
(* dialogs and the goroutines that post callbacks to it.  It composes the  *)
(* state machine of OperationState with what the handlers of               *)
(* app_windows.go, app_report_windows.go and app_consolidate_windows.go    *)
(* do around each of its calls.                                            *)
(*                                                                         *)
(* Walk runs posted callbacks one at a time in posting order, also inside  *)
(* the message loop of a modal dialog; while a dialog is up the window     *)
(* itself takes no clicks.  After uiClosing a callback is dropped, both    *)
(* when it is posted and when it is about to run.                          *)
(***************************************************************************)
EXTENDS KeepRules

CONSTANTS
  Folders, NoFolder, MaxGeneration, MaxRevision,   \* as in OperationState
  Outcomes,       \* the sets of duplicate groups a match can return;
                  \* Files (KeepRules) are those an inventory can find
  MaxProgress     \* bound: progress callbacks in flight

ASSUME GuiWorkflowAssumption ==
  /\ NoFolder \notin Folders
  /\ MaxGeneration \in Nat /\ MaxRevision \in Nat /\ MaxProgress \in Nat
  /\ \A outcome \in Outcomes : \A g \in outcome :
        /\ g \subseteq Files
        /\ Cardinality(g) >= 2
        /\ \A h \in outcome : g = h \/ g \cap h = {}

VARIABLES
  phase, folder, folderRevision, nextGeneration, active, cancel,
  closeRequested, allowClose, workers, cancelled,   \* OperationState
  report,        \* surfaceReport: [revision, files]
  rows,          \* table rows: [groups, others, revision], others not duplicates
  checked,       \* the checked files
  focus,         \* some file-type box is ticked
  focusEnabled,  \* the boxes are enabled, as last rendered
  dialog,        \* the modal dialog that is up: [kind, plan]
  running,       \* goroutines at work: [token, input]
  consumers,     \* tokens whose progress consumer has not ended
  posted,        \* callbacks posted and not yet run
  status,        \* the token whose progress the status line shows, or NoToken
  unseen,        \* retained backup paths nobody has been shown yet
  uiClosing

opVars == <<phase, folder, folderRevision, nextGeneration, active, cancel,
            closeRequested, allowClose, workers, cancelled>>
tableVars == <<report, rows, checked, focus, focusEnabled>>
asyncVars == <<running, consumers, posted>>
vars == <<opVars, tableVars, dialog, asyncVars, status, unseen, uiClosing>>

Op == INSTANCE OperationState

--------------------------------------------------------------------------------
NoReport == [revision |-> 0, files |-> {}]
NoRows == [groups |-> {}, others |-> {}, revision |-> 0]
NoDialog == [kind |-> "none", plan |-> {}]

HasRows == rows.groups # {} \/ rows.others # {}
Reviewable(p) == p \in {"SurfaceReady", "ResultsReady"}

(* controlsForOperation and the CanXxx guards, as the buttons show them. *)
ScanEnabled == phase \in {"FolderReady", "SurfaceReady", "ResultsReady"}
ClearEnabled == Reviewable(phase) /\ HasRows
TableAlwaysEnabled == rows.groups # {}   \* mutant: the table stays enabled
TableEnabled == Reviewable(phase)
ResultActionsEnabled == phase = "ResultsReady" /\ rows.groups # {}
DeleteEnabled == ResultActionsEnabled /\ checked # {}

(* What startScan does with a click in this phase. *)
ScanDispatch ==
  CASE phase = "FolderReady"  -> "surface-scan"
    [] phase = "SurfaceReady" -> "duplicate-scan"
    [] OTHER                  -> "ignored"

(* renderFromPhase, as far as later handlers read it back. *)
Render == focusEnabled' = (Reviewable(phase') /\ report'.files # {})

(* selectedFileCategories counts a box only while it is enabled. *)
CategoriesSelected == focus /\ focusEnabled

(* The user can click: no modal dialog is up and the window is there. *)
Interactive == dialog = NoDialog /\ ~uiClosing

Plan == PlanFor(rows.groups, checked)

--------------------------------------------------------------------------------
(* Clicks that only change the review state. *)

SelectFolder(f) ==
  /\ dialog.kind = "pick-folder"
  /\ Op!SelectFolder(f)
  /\ report' = NoReport
  /\ rows' = NoRows
  /\ checked' = {}
  /\ focus' = TRUE
  /\ dialog' = NoDialog
  /\ status' = Op!NoToken
  /\ UNCHANGED <<asyncVars, unseen, uiClosing>>
  /\ Render

OpenFolderDialog ==
  /\ Interactive
  /\ Op!CanChangeFolder
  /\ dialog' = [kind |-> "pick-folder", plan |-> {}]
  /\ UNCHANGED <<opVars, tableVars, asyncVars, status, unseen, uiClosing>>

CancelDialog ==
  /\ dialog # NoDialog
  /\ dialog' = NoDialog
  /\ UNCHANGED <<opVars, tableVars, asyncVars, status, unseen, uiClosing>>

ResetAll ==
  /\ Interactive
  /\ Op!Reset
  /\ report' = NoReport
  /\ rows' = NoRows
  /\ checked' = {}
  /\ focus' = TRUE
  /\ status' = Op!NoToken
  /\ UNCHANGED <<dialog, asyncVars, unseen, uiClosing>>
  /\ Render

ClearResults ==
  /\ Interactive
  /\ ClearEnabled
  /\ \/ phase = "ResultsReady" /\ Op!ClearResults
     \/ phase = "SurfaceReady" /\ UNCHANGED opVars
  /\ rows' = NoRows
  /\ checked' = {}
  /\ status' = Op!NoToken
  /\ UNCHANGED <<report, focus, dialog, asyncVars, unseen, uiClosing>>
  /\ Render

ToggleFocus ==
  /\ Interactive
  /\ focusEnabled
  /\ focus' = ~focus
  /\ UNCHANGED <<opVars, report, rows, checked, focusEnabled, dialog, asyncVars,
                 status, unseen, uiClosing>>

ReviewStep ==
  /\ Interactive
  /\ status' = Op!NoToken
  /\ UNCHANGED <<opVars, report, rows, focus, focusEnabled, dialog, asyncVars,
                 unseen, uiClosing>>

SetChecked(f) ==
  /\ ReviewStep
  /\ TableEnabled
  /\ f \in UNION rows.groups
  /\ checked' = IF f \in checked THEN checked \ {f} ELSE checked \cup {f}

(* Keep newest / keep oldest: a policy error would leave the checks alone.  *)
SelectAllExcept(strategy) ==
  LET policy == [strategy |-> strategy, priority |-> <<>>]
  IN /\ ReviewStep
     /\ ResultActionsEnabled
     /\ checked' = IF PolicyAccepted(rows.groups, policy)
                   THEN Marked(rows.groups, policy) ELSE checked

ClearSelection ==
  /\ ReviewStep
  /\ ResultActionsEnabled
  /\ checked' = {}

--------------------------------------------------------------------------------
(* Starting work.  The goroutine gets a copy of what it works on.           *)

StartWorker(input) == running' = running \cup {[token |-> active', input |-> input]}

StartSurfaceScan ==
  /\ Interactive
  /\ ScanEnabled /\ ScanDispatch = "surface-scan"
  /\ Op!BeginSurfaceScan
  /\ report' = NoReport
  /\ rows' = NoRows
  /\ checked' = {}
  /\ StartWorker(folderRevision)
  /\ consumers' = consumers \cup {active'}
  /\ status' = Op!NoToken
  /\ UNCHANGED <<focus, dialog, posted, unseen, uiClosing>>
  /\ Render

StartDuplicateScan ==
  /\ Interactive
  /\ ScanEnabled /\ ScanDispatch = "duplicate-scan"
  /\ CategoriesSelected
  /\ Op!BeginDuplicateScan
  /\ StartWorker(report.revision)
  /\ consumers' = consumers \cup {active'}
  /\ status' = Op!NoToken
  /\ UNCHANGED <<report, rows, checked, focus, dialog, posted, unseen, uiClosing>>
  /\ Render

OpenSaveDialog ==
  /\ Interactive
  /\ ResultActionsEnabled
  /\ dialog' = [kind |-> "save", plan |-> rows.groups]
  /\ UNCHANGED <<opVars, tableVars, asyncVars, status, unseen, uiClosing>>

ExportReport ==
  /\ dialog.kind = "save"
  /\ Op!BeginExport
  /\ StartWorker(dialog.plan)
  /\ dialog' = NoDialog
  /\ status' = Op!NoToken
  /\ UNCHANGED <<report, rows, checked, focus, consumers, posted, unseen, uiClosing>>
  /\ Render

OpenConfirmDialog ==
  /\ Interactive
  /\ DeleteEnabled
  /\ Plan # {}
  /\ dialog' = [kind |-> "confirm", plan |-> Plan]
  /\ UNCHANGED <<opVars, tableVars, asyncVars, status, unseen, uiClosing>>

ConfirmConsolidate ==
  /\ dialog.kind = "confirm"
  /\ Op!BeginDelete
  /\ StartWorker(dialog.plan)
  /\ dialog' = NoDialog
  /\ status' = Op!NoToken
  /\ UNCHANGED <<report, rows, checked, focus, consumers, posted, unseen, uiClosing>>
  /\ Render

Cancel ==
  /\ Interactive
  /\ Op!RequestScanCancellation \/ Op!RequestExportCancellation
  /\ status' = Op!NoToken
  /\ UNCHANGED <<report, rows, checked, focus, dialog, asyncVars, unseen, uiClosing>>
  /\ Render

--------------------------------------------------------------------------------
(* Goroutines. *)

(* synchronizeUI: nothing is posted to a window that is gone. *)
Post(callback) == posted' = IF uiClosing THEN posted ELSE Append(posted, callback)

(* consumeProgress and tickElapsed, which may lag behind their worker.      *)
PostProgress(t) ==
  /\ Len(SelectSeq(posted, LAMBDA c : c.kind = "progress")) < MaxProgress
  /\ ~uiClosing
  /\ Post([kind |-> "progress", token |-> t, ok |-> TRUE, groups |-> {},
           files |-> {}, revision |-> 0, issues |-> FALSE])
  /\ UNCHANGED <<opVars, tableVars, dialog, running, consumers, status, unseen, uiClosing>>

EndProgress(t) ==
  /\ \A w \in running : w.token # t
  /\ consumers' = consumers \ {t}
  /\ UNCHANGED <<opVars, tableVars, dialog, running, posted, status, unseen, uiClosing>>

(* A worker returns; a panic in it is recovered into a failure.  A worker   *)
(* that was cancelled may still have succeeded first.                       *)
Done(w, ok, groups, files, issues) ==
  /\ running' = running \ {w}
  /\ Post([kind |-> "done", token |-> w.token, ok |-> ok, groups |-> groups,
           files |-> files, issues |-> issues,
           revision |-> IF w.token.kind \in {"surface-scan", "duplicate-scan"}
                        THEN w.input ELSE 0])
  /\ IF uiClosing THEN Op!StaleCompletion(w.token) ELSE UNCHANGED opVars
  /\ unseen' = (unseen \/ issues)
  /\ UNCHANGED <<tableVars, dialog, consumers, status, uiClosing>>

WorkerReturns(w) ==
  \/ w.token.kind = "surface-scan" /\ \E files \in {{}, Files} : Done(w, TRUE, {}, files, FALSE)
  \/ w.token.kind = "duplicate-scan" /\ \E groups \in Outcomes : Done(w, TRUE, groups, {}, FALSE)
  \/ w.token.kind = "export" /\ Done(w, TRUE, {}, {}, FALSE)
  \/ w.token.kind = "delete" /\ \E issues \in BOOLEAN : Done(w, TRUE, {}, {}, issues)
  \/ w.token.kind # "delete" /\ Done(w, FALSE, {}, {}, FALSE)

--------------------------------------------------------------------------------
(* Callbacks on the UI thread. *)

Callback == Head(posted)
TakeCallback == posted # <<>> /\ posted' = Tail(posted)

AcceptsProgress(token) == Op!Accepts(token)

ShowProgress ==
  /\ TakeCallback
  /\ ~uiClosing
  /\ Callback.kind = "progress"
  /\ status' = IF AcceptsProgress(Callback.token) THEN Callback.token ELSE status
  /\ UNCHANGED <<opVars, tableVars, dialog, running, consumers, unseen, uiClosing>>

Completion(kind) ==
  /\ TakeCallback
  /\ ~uiClosing
  /\ Callback.kind = "done"
  /\ Callback.token.kind = kind

SurfaceScanFinished ==
  /\ Completion("surface-scan")
  /\ Op!CompleteSurfaceScan(Callback.token, Callback.ok)
  /\ IF phase' = "SurfaceReady"
     THEN /\ report' = [revision |-> Callback.revision, files |-> Callback.files]
          /\ focus' = (Callback.files # {})
          /\ rows' = [groups |-> {}, others |-> Callback.files,
                      revision |-> Callback.revision]
          /\ checked' = {}
     ELSE UNCHANGED <<report, focus, rows, checked>>
  /\ status' = Op!NoToken
  /\ UNCHANGED <<dialog, running, consumers, unseen, uiClosing>>
  /\ Render

PublishGroupsRegardless(groups) ==   \* mutant: published without asking the state
  /\ rows' = [groups |-> groups, others |-> {}, revision |-> Callback.revision]
  /\ checked' = {}

(* An outcome without duplicates lists the surface files of the ticked      *)
(* categories instead.                                                      *)
PublishGroups(groups) ==
  IF phase' = "ResultsReady"
  THEN /\ rows' = [groups |-> groups, revision |-> Callback.revision,
                   others |-> IF groups = {} /\ CategoriesSelected
                              THEN report.files ELSE {}]
       /\ checked' = {}
  ELSE UNCHANGED <<rows, checked>>

ScanFinished ==
  /\ Completion("duplicate-scan")
  /\ Op!CompleteDuplicateScan(Callback.token, Callback.ok)
  /\ PublishGroups(Callback.groups)
  /\ status' = Op!NoToken
  /\ UNCHANGED <<report, focus, dialog, running, consumers, unseen, uiClosing>>
  /\ Render

KeepWindow == UNCHANGED uiClosing   \* mutant: nobody retries the deferred close

(* A deferred close is retried with mw.Close(), whose handler answers       *)
(* "close now" because allowClose has just been set.                        *)
RetryClose == uiClosing' = (allowClose' \/ uiClosing)

ReportExportFinished ==
  /\ Completion("export")
  /\ Op!CompleteExport(Callback.token)
  /\ RetryClose
  /\ status' = Op!NoToken
  /\ UNCHANGED <<report, focus, rows, checked, dialog, running, consumers, unseen>>
  /\ Render

(* The issue box comes after the close has been retried, so a deferred     *)
(* close skips it.                                                          *)
ShowIssues == unseen' = (unseen /\ allowClose')

ApplyConsolidateBatch ==
  /\ Completion("delete")
  /\ Op!CompleteDelete(Callback.token)
  /\ checked' = {}
  /\ RetryClose
  /\ ShowIssues
  /\ status' = Op!NoToken
  /\ UNCHANGED <<report, focus, rows, dialog, running, consumers>>
  /\ Render

LoseCallback ==   \* mutant: an accepted completion is dropped as well
  /\ TakeCallback
  /\ workers' = workers \ {Callback.token}
  /\ UNCHANGED <<phase, folder, folderRevision, nextGeneration, active, cancel,
                 closeRequested, allowClose, cancelled, tableVars, dialog, running,
                 consumers, status, unseen, uiClosing>>

(* accepts refuses the token, or synchronizeUI drops the callback. *)
DropCallback ==
  /\ TakeCallback
  /\ \/ Callback.kind = "done" /\ Op!StaleCompletion(Callback.token)
     \/ Callback.kind = "progress" /\ uiClosing /\ UNCHANGED opVars
  /\ UNCHANGED <<tableVars, dialog, running, consumers, status, unseen, uiClosing>>

--------------------------------------------------------------------------------
(* The close button. *)
HandleWindowClosing ==
  /\ Interactive
  /\ Op!RequestClose
  /\ uiClosing' = allowClose'
  /\ UNCHANGED <<report, rows, checked, focus, dialog, asyncVars, status, unseen>>
  /\ IF allowClose' THEN UNCHANGED focusEnabled ELSE Render

--------------------------------------------------------------------------------
Init ==
  /\ Op!Init
  /\ report = NoReport
  /\ rows = NoRows
  /\ checked = {}
  /\ focus = TRUE
  /\ focusEnabled = FALSE
  /\ dialog = NoDialog
  /\ running = {}
  /\ consumers = {}
  /\ posted = <<>>
  /\ status = Op!NoToken
  /\ unseen = FALSE
  /\ uiClosing = FALSE

RunCallback ==
  \/ ShowProgress
  \/ SurfaceScanFinished
  \/ ScanFinished
  \/ ReportExportFinished
  \/ ApplyConsolidateBatch
  \/ DropCallback

Next ==
  \/ OpenFolderDialog
  \/ \E f \in Folders : SelectFolder(f)
  \/ CancelDialog
  \/ ResetAll
  \/ ClearResults
  \/ ToggleFocus
  \/ \E f \in Files : SetChecked(f)
  \/ \E s \in {"keep-newest", "keep-oldest"} : SelectAllExcept(s)
  \/ ClearSelection
  \/ StartSurfaceScan
  \/ StartDuplicateScan
  \/ OpenSaveDialog
  \/ ExportReport
  \/ OpenConfirmDialog
  \/ ConfirmConsolidate
  \/ Cancel
  \/ \E t \in consumers : PostProgress(t) \/ EndProgress(t)
  \/ \E w \in running : WorkerReturns(w)
  \/ RunCallback
  \/ HandleWindowClosing

Spec == Init /\ [][Next]_vars

(* The message loop runs what is posted, goroutines end.  Nothing is        *)
(* assumed of the user.                                                     *)
Fairness ==
  /\ WF_vars(RunCallback)
  /\ WF_vars(\E w \in running : WorkerReturns(w))

FairSpec == Spec /\ Fairness

--------------------------------------------------------------------------------

(* What the table and the inventory show was produced for the folder and    *)
(* revision on screen, duplicates are on screen only in phases that own     *)
(* results, and the status line never shows the progress of an operation    *)
(* that is over, however late its consumer posts it (app_windows.go:750-880 *)
(* against 542-589, 614-677).                                               *)
PublishedBelongsToScreen ==
  /\ status # Op!NoToken => status = active \/ uiClosing
  /\ HasRows => rows.revision = folderRevision
  /\ report.revision \in {0, folderRevision}
  /\ rows.groups # {} => phase \in {"ResultsReady", "Closing"} \cup Op!Guarded
  /\ phase \in {"SurfaceReady", "ResultsReady", "DuplicateScanning",
                "DuplicateCancelling"} \cup Op!Guarded => report.revision = folderRevision

(* While a batch runs, the plan the worker executes is still exactly what   *)
(* the table shows as checked: the state read before the confirmation and   *)
(* used after it has not moved (app_consolidate_windows.go:89-146).         *)
RunningPlanIsOnScreen ==
  \A w \in running :
    /\ w.token.kind = "delete" => w.input = Plan /\ w.input # {}
    /\ w.token.kind = "export" => w.input = rows.groups

(* Of every group that a confirmed or running plan touches, a physical copy *)
(* is left that the plan does not name, whatever was checked, kept by rule, *)
(* and rescanned before, and also when two rows of the group are one file   *)
(* (app_windows.go:1084-1156, keeprules.go:79-173).                         *)
PlansLeaveAKeeper ==
  \A p \in {w.input : w \in {v \in running : v.token.kind = "delete"}}
           \cup (IF dialog.kind = "confirm" THEN {dialog.plan} ELSE {}) :
    \A e \in p : /\ e.selected # {}
                 /\ \E k \in e.group : Copy[k] \notin Copies(e.selected)

(* A requested close ends with the window gone. *)
CloseCompletes == closeRequested ~> uiClosing

(* Whatever was started comes back to the user or to a closing window.      *)
WorkEndsInControls == active # Op!NoToken ~> (active = Op!NoToken \/ uiClosing)

(* The window performs only steps of the operation state machine.           *)
ImplementsOperationState == Op!Spec

--------------------------------------------------------------------------------
(* Statements of the code and its texts that the window does not keep.      *)

(* "surfaces every retained backup path verbatim: a reported backup         *)
(* contains the user's original bytes and must never be discovered by       *)
(* accident" (app_consolidate_windows.go:256-258).                          *)
RetainedBackupsAreShown == uiClosing => ~unseen

================================================================================
