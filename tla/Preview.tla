--------------------------------- MODULE Preview ---------------------------------
(***************************************************************************)
(* The preview pane of internal/gui: the UI thread asks, one worker        *)
(* goroutine prepares, and only the newest answer may reach the pane.      *)
(* preview_state.go has the tokens and the one-place queue,                *)
(* preview_worker_windows.go the worker and what the UI thread does with   *)
(* its results; app_windows.go decides when to ask.                        *)
(*                                                                         *)
(* The three non-blocking channel operations of submit are steps of their  *)
(* own, because the worker can receive between them.  A comparison writes  *)
(* a page to a temporary directory, here named by its request's            *)
(* generation; who owns that directory is half of what can go wrong.       *)
(***************************************************************************)
EXTENDS Naturals, Sequences, FiniteSets

CONSTANTS
  Singles,        \* selections of one row
  Comparisons,    \* selections of several rows
  MaxGeneration,  \* bound on nextGeneration
  MaxRevision     \* bound on folderRevision

ASSUME PreviewAssumption ==
  /\ MaxGeneration \in Nat /\ MaxRevision \in Nat
  /\ Singles \cap Comparisons = {}

NoSelection == "nothing selected"
Selections == Singles \cup Comparisons

VARIABLES
  phase,           \* "Reviewable", "Exporting", or any "Other" phase
  folderRevision,  \* operation.folderRevision
  screen,          \* [selected, rows]: what the table shows, rows as a version
  nextGeneration, modelRevision, active, hasActive,   \* previewGenerationState
  previewCancel,   \* the generation whose context can be cancelled, or 0
  cancelled,       \* the generations whose context is cancelled
  ui,              \* where submit is: [step, request]
  pending,         \* the queue, at most one request
  worker,          \* [step, request, result]
  posted,          \* results posted to the UI thread
  disk,            \* the temporary directories that exist
  current,         \* currentPreviewDir, or 0
  pane,            \* what the pane shows: [kind, screen]
  refused,         \* history: the last generation refused for the phase, or 0
  closed,          \* worker.closed; the stop channel is closed with it
  uiClosing

tokenVars == <<nextGeneration, modelRevision, active, hasActive, previewCancel, cancelled>>
screenVars == <<phase, folderRevision, screen>>
asyncVars == <<ui, pending, worker, posted>>
shownVars == <<disk, current, pane, refused>>
paneVars == <<tokenVars, screenVars, asyncVars, shownVars, closed, uiClosing>>

--------------------------------------------------------------------------------
NoToken == [generation |-> 0, modelRevision |-> 0, folderRevision |-> 0]
NoRequest == [token |-> NoToken, screen |-> [selected |-> NoSelection, rows |-> 0]]
NoResult == [token |-> NoToken, screen |-> NoRequest.screen, err |-> "none", dir |-> 0]

GenerationOf(request) == request.token.generation
IsComparison(request) == request.screen.selected \in Comparisons

\* mutant: the newest generation is not compared
AcceptsThisFolder(token) == hasActive /\ token.folderRevision = folderRevision
(* previewGenerationState.accepts *)
Accepts(token) ==
  /\ hasActive
  /\ active = token
  /\ token.modelRevision = modelRevision
  /\ token.folderRevision = folderRevision

CancelContext == cancelled' = cancelled \cup ({previewCancel} \ {0})

(* cleanupPreviewArtifact; 0 is no directory. *)
CleanUp(dir) == disk' = disk \ {dir}

(* clearCurrentPreviewArtifact *)
ClearArtifact == disk' = disk \ {current} /\ current' = 0

(* previewGenerationState.invalidate *)
Invalidate ==
  /\ nextGeneration' = nextGeneration + 1
  /\ modelRevision' = modelRevision + 1
  /\ active' = NoToken
  /\ hasActive' = FALSE

InvalidatePreview ==
  /\ CancelContext /\ previewCancel' = 0
  /\ Invalidate
  /\ ClearArtifact

Show(kind, on) == pane' = [kind |-> kind, screen |-> on]

--------------------------------------------------------------------------------
PaneInit ==
  /\ phase = "Other" /\ folderRevision = 1
  /\ screen = NoRequest.screen
  /\ nextGeneration = 0 /\ modelRevision = 0
  /\ active = NoToken /\ hasActive = FALSE
  /\ previewCancel = 0 /\ cancelled = {}
  /\ ui = [step |-> "idle", request |-> NoRequest]
  /\ pending = <<>>
  /\ worker = [step |-> "idle", request |-> NoRequest, result |-> NoResult]
  /\ posted = <<>>
  /\ disk = {} /\ current = 0
  /\ pane = [kind |-> "message", screen |-> screen]
  /\ refused = 0
  /\ closed = FALSE /\ uiClosing = FALSE

(* latestValueQueue.submit: try to send, else drain and send again. *)
Room == pending = <<>>

TrySend(request) ==
  IF Room
  THEN pending' = Append(pending, request) /\ UNCHANGED ui
  ELSE ui' = [step |-> "drain", request |-> request] /\ UNCHANGED pending

Drain ==
  /\ ui.step = "drain" /\ ui' = [ui EXCEPT !.step = "send"]
  /\ pending' = <<>>
  /\ UNCHANGED <<tokenVars, screenVars, worker, posted, shownVars, closed,
                 uiClosing>>

SendAgain ==
  /\ ui.step = "send"
  /\ ui' = [step |-> "idle", request |-> NoRequest]
  /\ pending' = IF Room THEN Append(pending, ui.request) ELSE pending
  /\ UNCHANGED <<tokenVars, screenVars, worker, posted, shownVars, closed,
                 uiClosing>>

--------------------------------------------------------------------------------
(* What the user and the other handlers of the window do; each is one       *)
(* callback of the UI thread.                                               *)
UiIdle == ui.step = "idle" /\ ~uiClosing

(* requestPreparedPreview: invalidate, begin, then submit. *)
RequestPreview(on) ==
  LET token == [generation |-> nextGeneration + 2,
                modelRevision |-> modelRevision + 1,
                folderRevision |-> folderRevision] IN
  /\ nextGeneration' = token.generation
  /\ modelRevision' = token.modelRevision
  /\ active' = token /\ hasActive' = TRUE
  /\ CancelContext /\ previewCancel' = token.generation
  /\ ClearArtifact
  /\ Show("preparing", on)
  /\ TrySend([token |-> token, screen |-> on])

(* updatePreviewFromSelection, on a table that is enabled. *)
Select(s) ==
  /\ UiIdle /\ ~closed /\ phase = "Reviewable" /\ s # screen.selected
  /\ nextGeneration + 2 <= MaxGeneration
  /\ screen' = [screen EXCEPT !.selected = s]
  /\ IF s = NoSelection
     THEN InvalidatePreview /\ Show("message", screen') /\ UNCHANGED <<ui, pending>>
     ELSE RequestPreview(screen')
  /\ UNCHANGED <<phase, folderRevision, worker, posted, refused, closed, uiClosing>>

(* publishRows from a review handler.  Whether the table keeps its          *)
(* selection over a model reset is the toolkit's business; if not, the      *)
(* selection event puts a message up.                                       *)
PublishRows ==
  /\ UiIdle /\ ~closed /\ phase = "Reviewable"
  /\ nextGeneration < MaxGeneration
  /\ InvalidatePreview
  /\ \E s \in {screen.selected, NoSelection} :
       /\ screen' = [selected |-> s, rows |-> screen.rows + 1]
       /\ IF s = NoSelection THEN Show("message", screen') ELSE UNCHANGED pane
  /\ UNCHANGED <<phase, folderRevision, asyncVars, refused, closed, uiClosing>>

(* Every other operation replaces the rows or the message as it begins and  *)
(* as it ends: scans, consolidation, clear, reset, another folder.          *)
ChangePhase(p, revision) ==
  /\ InvalidatePreview
  /\ phase' = p /\ folderRevision' = revision
  /\ screen' = [selected |-> NoSelection, rows |-> screen.rows + 1]
  /\ Show("message", screen')
  /\ UNCHANGED <<asyncVars, refused, closed, uiClosing>>

LeaveReview ==
  /\ UiIdle /\ ~closed /\ phase = "Reviewable" /\ nextGeneration < MaxGeneration
  /\ ChangePhase("Other", folderRevision)

SelectFolder ==
  /\ UiIdle /\ ~closed /\ phase # "Exporting" /\ nextGeneration < MaxGeneration
  /\ folderRevision < MaxRevision
  /\ ChangePhase("Other", folderRevision + 1)

EnterReview ==
  /\ UiIdle /\ ~closed /\ phase = "Other" /\ nextGeneration < MaxGeneration
  /\ ChangePhase("Reviewable", folderRevision)

(* exportReport and reportExportFinished leave the preview alone. *)
BeginExport ==
  /\ UiIdle /\ ~closed /\ phase = "Reviewable" /\ phase' = "Exporting"
  /\ UNCHANGED <<tokenVars, folderRevision, screen, asyncVars, shownVars,
                 closed, uiClosing>>

EndExport ==
  /\ UiIdle /\ ~closed /\ phase = "Exporting" /\ phase' = "Reviewable"
  /\ UNCHANGED <<tokenVars, folderRevision, screen, asyncVars, shownVars,
                 closed, uiClosing>>

(* stopPreviewWorker, of which only the first call does anything. *)
StopPreviewWorker ==
  IF closed THEN UNCHANGED <<tokenVars, disk, current, closed>>
  ELSE closed' = TRUE /\ InvalidatePreview

(* handleWindowClosing.  A close during an export, or during a batch of     *)
(* the other operations, is deferred: the worker stops, the window stays,   *)
(* and the end of the operation closes it.                                  *)
HandleWindowClosing ==
  /\ UiIdle
  /\ StopPreviewWorker
  /\ \/ /\ closed \/ phase # "Exporting"
        /\ uiClosing' = TRUE
     \/ /\ ~closed /\ phase # "Reviewable"
        /\ UNCHANGED uiClosing
  /\ UNCHANGED <<screenVars, asyncVars, pane, refused>>

--------------------------------------------------------------------------------
ToldToStop == closed

Stop ==
  /\ worker.step = "idle" /\ ToldToStop
  /\ worker' = [worker EXCEPT !.step = "stopped"]
  /\ UNCHANGED <<tokenVars, screenVars, ui, pending, posted, shownVars, closed,
                 uiClosing>>

Receive ==
  /\ worker.step = "idle" /\ pending # <<>>
  /\ worker' = [step |-> "prepare", request |-> Head(pending),
                result |-> [NoResult EXCEPT !.token = Head(pending).token,
                                            !.screen = Head(pending).screen]]
  /\ pending' = <<>>
  /\ UNCHANGED <<tokenVars, screenVars, ui, posted, shownVars, closed, uiClosing>>

Prepared(err, dir) ==
  worker' = [worker EXCEPT !.step = "deliver", !.result.err = err, !.result.dir = dir]

(* preparePreview up to the temporary directory of a comparison, which may  *)
(* fail to be made; a panic is a failure.                                   *)
Prepare ==
  /\ worker.step = "prepare"
  /\ \/ /\ GenerationOf(worker.request) \in cancelled
        /\ Prepared("canceled", 0) /\ UNCHANGED disk
     \/ /\ GenerationOf(worker.request) \notin cancelled
        /\ Prepared("failed", 0) /\ UNCHANGED disk
     \/ /\ GenerationOf(worker.request) \notin cancelled
        /\ worker' = [worker EXCEPT !.step = "render"]
        /\ disk' = IF IsComparison(worker.request)
                   THEN disk \cup {GenerationOf(worker.request)} ELSE disk
  /\ UNCHANGED <<tokenVars, screenVars, ui, pending, posted, current, pane,
                 refused, closed, uiClosing>>

(* The rest: a text or a thumbnail, whose context is looked at only when no *)
(* thumbnail came; or the cards and the page of a comparison, whose         *)
(* directory is removed again unless the page was written.                  *)
Render ==
  LET g == GenerationOf(worker.request) IN
  /\ worker.step = "render"
  /\ \/ /\ g \in cancelled /\ Prepared("canceled", 0) /\ CleanUp(g)
     \/ /\ Prepared("failed", 0) /\ CleanUp(g)
     \/ /\ ~IsComparison(worker.request) /\ Prepared("none", 0) /\ UNCHANGED disk
     \/ /\ IsComparison(worker.request) /\ g \notin cancelled
        /\ Prepared("none", g) /\ UNCHANGED disk
  /\ UNCHANGED <<tokenVars, screenVars, ui, pending, posted, current, pane,
                 refused, closed, uiClosing>>

\* mutant: a cancelled request ends the loop
ReturnOnCancel == [worker EXCEPT !.step = "stopped"]
Continue == [worker EXCEPT !.step = "idle"]

(* A cancelled result, or any after close, is dropped and cleaned up.       *)
Drop ==
  /\ worker.step = "deliver"
  /\ worker.result.err = "canceled" \/ closed
  /\ CleanUp(worker.result.dir)
  /\ worker' = Continue
  /\ UNCHANGED <<tokenVars, screenVars, ui, pending, posted, current, pane,
                 refused, closed, uiClosing>>

(* synchronizeUI: whether the worker is closed is read before, uiClosing    *)
(* within; the last result of a window that goes away is lost with it.      *)
CommitToPost ==
  /\ worker.step = "deliver"
  /\ worker.result.err # "canceled" /\ ~closed
  /\ worker' = [worker EXCEPT !.step = "post"]
  /\ UNCHANGED <<tokenVars, screenVars, ui, pending, posted, shownVars, closed,
                 uiClosing>>

Post ==
  /\ worker.step = "post"
  /\ worker' = [worker EXCEPT !.step = "idle"]
  /\ posted' = IF uiClosing THEN posted ELSE Append(posted, worker.result)
  /\ UNCHANGED <<tokenVars, screenVars, ui, pending, shownVars, closed, uiClosing>>

PreviewWorker == Stop \/ Receive \/ Prepare \/ Render \/ Drop \/ CommitToPost \/ Post

--------------------------------------------------------------------------------
(* applyPreparedPreview, in its parts. *)
Usable(result) == Accepts(result.token) /\ phase = "Reviewable"

\* mutant: what is refused is not cleaned up
RefuseAndKeep(result) == UNCHANGED <<tokenVars, disk, current, pane, refused>>
Refuse(result) ==
  /\ CleanUp(result.dir)
  /\ refused' = IF Accepts(result.token) THEN result.token.generation ELSE refused
  /\ UNCHANGED <<tokenVars, current, pane>>

(* replaceCurrentPreviewArtifact, and SetURL, which may fail. *)
ShowPage(result) ==
  \/ /\ disk' = IF current = result.dir THEN disk ELSE disk \ {current}
     /\ current' = result.dir
     /\ Show("page", result.screen)
  \/ /\ disk' = disk \ {current, result.dir} /\ current' = 0
     /\ Show("failed", result.screen)

ShowResult(result) ==
  LET failed == result.err = "failed"
      comparison == result.screen.selected \in Comparisons IN
  \/ /\ failed
     /\ disk' = disk \ {current, result.dir} /\ current' = 0
     /\ Show("failed", result.screen)
  \/ ~failed /\ comparison /\ ShowPage(result)
  \/ ~failed /\ ~comparison /\ ClearArtifact /\ Show("details", result.screen)

Apply(result) ==
  /\ previewCancel' = 0
  /\ ShowResult(result)
  /\ UNCHANGED <<nextGeneration, modelRevision, active, hasActive, cancelled, refused>>

(* The callback of runPreviewWorker, run by the UI thread. *)
RunCallback ==
  LET result == Head(posted) IN
  /\ UiIdle /\ posted # <<>>
  /\ posted' = Tail(posted)
  /\ \/ /\ closed /\ CleanUp(result.dir)
        /\ UNCHANGED <<tokenVars, current, pane, refused>>
     \/ /\ ~closed /\ ~Usable(result) /\ Refuse(result)
     \/ /\ ~closed /\ Usable(result) /\ Apply(result)
  /\ UNCHANGED <<screenVars, ui, pending, worker, closed, uiClosing>>

(* The window is gone; the worker may still be on its way out. *)
Gone == uiClosing /\ UNCHANGED paneVars

PaneNext ==
  \/ \E s \in Selections \cup {NoSelection} : Select(s)
  \/ PublishRows \/ LeaveReview \/ SelectFolder \/ EnterReview
  \/ BeginExport \/ EndExport \/ HandleWindowClosing
  \/ Drain \/ SendAgain \/ RunCallback
  \/ PreviewWorker
  \/ Gone

PaneSpec == PaneInit /\ [][PaneNext]_paneVars

(* The goroutine runs, submit returns, the message loop gets to its         *)
(* callbacks and an export ends; nothing obliges the user to do anything.   *)
FairPaneSpec ==
  /\ PaneSpec
  /\ WF_paneVars(PreviewWorker) /\ WF_paneVars(Drain \/ SendAgain) /\ WF_paneVars(RunCallback)
  /\ WF_paneVars(EndExport)

--------------------------------------------------------------------------------

(* A result reaches the pane only if it was prepared for what the table     *)
(* shows now: the same selection of the same rows, however many requests,   *)
(* row changes and folders came between (preview_state.go:40-45,            *)
(* preview_worker_windows.go:238-243).                                      *)
PreviewsAreCurrent ==
  [][pane' # pane /\ pane'.kind \in {"details", "page", "failed"}
       => pane'.screen = screen]_paneVars

Outstanding(g) == hasActive /\ active.generation = g /\ previewCancel = g

(* While the window is open every temporary directory has an owner that     *)
(* will remove it: the pane, the worker, or a result on its way.  Once the  *)
(* window is closing a posted result is dropped with its directory.         *)
NoOrphanedPage ==
  ~uiClosing =>
    disk \subseteq {current}
           \cup {posted[i].dir : i \in DOMAIN posted}
           \cup (IF worker.step \in {"render", "deliver", "post"}
                 THEN {GenerationOf(worker.request)} ELSE {})

(* Closing the window ends the worker goroutine, even with a request in the *)
(* queue (preview_worker_windows.go:68-80, 92-95).                          *)
(* The request the pane waits for is not lost in the queue, whatever submit *)
(* and the worker did to it at the same moment: it is answered, or a newer  *)
(* one takes its place.  The exception is an answer that comes while an     *)
(* export runs: applyPreparedPreview refuses it, and nothing asks again     *)
(* (preview_state.go:58-77, preview_worker_windows.go:239-243).             *)
RequestsSettle ==
  /\ \A g \in 1..MaxGeneration : Outstanding(g) ~> ~Outstanding(g) \/ refused = g
  /\ closed ~> worker.step = "stopped"

================================================================================
