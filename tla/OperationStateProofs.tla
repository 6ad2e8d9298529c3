-------------------------- MODULE OperationStateProofs --------------------------
(***************************************************************************)
(* Proofs about OperationState for every set of folders and every bound.   *)
(* The invariant IInv is needed because the properties of the state machine*)
(* lean on one another: a closing phase is safe only because the phase and *)
(* the token agree, and they agree only because nothing begins while a     *)
(* worker is out.                                                          *)
(***************************************************************************)
EXTENDS OperationState, TLAPS

(* The window says "cancelling" exactly when the context of the active      *)
(* operation has been cancelled (operation_state.go:235-265, 323-326).      *)
CancellationIsVisible ==
  active # NoToken =>
    (active.generation \in cancelled <=>
       phase \in {"SurfaceCancelling", "DuplicateCancelling",
                 "ExportCancelling", "ClosingAfterExport"})

(* A close request is either granted or remembered by a closing phase; it   *)
(* can neither be forgotten nor granted twice over.                         *)
CloseIsRemembered ==
  /\ allowClose <=> phase = "Closing"
  /\ closeRequested <=> phase \in {"Closing", "ClosingAfterExport", "ClosingAfterDelete"}

(* Generations already handed out never lie ahead of the counter, and while *)
(* the window is up the only worker out is the active operation.            *)
GenerationsBehind ==
  /\ \A t \in workers : t.generation <= nextGeneration
  /\ \A g \in cancelled : g <= nextGeneration
  /\ ~allowClose => workers \subseteq {active}

IInv ==
  /\ TypeOK
  /\ PhaseMatchesOperation
  /\ CancellationIsVisible
  /\ OrphansAreCancelled
  /\ EffectsOutliveWindow
  /\ OneWorkerForTheScreen
  /\ CloseIsRemembered
  /\ GenerationsBehind

UIStep ==
  \/ \E f \in Folders : SelectFolder(f)
  \/ Reset
  \/ ClearResults
  \/ BeginSurfaceScan
  \/ BeginDuplicateScan
  \/ BeginExport
  \/ BeginDelete
  \/ RequestScanCancellation
  \/ RequestExportCancellation
  \/ RequestClose

--------------------------------------------------------------------------------
(* A new token is well typed and newer than every token handed out before.  *)
LEMMA NewTokenType ==
  ASSUME TypeOK, NEW k \in Kinds
  PROVE  /\ NewToken(k) \in Token
         /\ NewToken(k) # NoToken
         /\ NewToken(k).generation = nextGeneration + 1
         /\ NewToken(k).kind = k
         /\ NewToken(k).folder = folder
         /\ NewToken(k).folderRevision = folderRevision
BY DEF TypeOK, NewToken, Token, NoToken

(* The nil token is not a token. *)
LEMMA NoTokenIsNil == NoToken \notin Token /\ NoToken.kind \notin Kinds
BY DEF NoToken, Token, Kinds

(* The initial state satisfies the inductive invariant. *)
LEMMA InitIInv == Init => IInv
<1> SUFFICES ASSUME Init PROVE IInv
  OBVIOUS
<1>1. TypeOK
  BY DEF Init, TypeOK, Phases, Idle
<1>2. /\ PhaseMatchesOperation /\ CancellationIsVisible /\ OrphansAreCancelled
      /\ EffectsOutliveWindow /\ OneWorkerForTheScreen
  BY DEF Init, PhaseMatchesOperation, CancellationIsVisible, OrphansAreCancelled,
     EffectsOutliveWindow, OneWorkerForTheScreen, Scanning, Guarded
<1>3. CloseIsRemembered /\ GenerationsBehind
  BY DEF Init, CloseIsRemembered, GenerationsBehind
<1>4. QED BY <1>1, <1>2, <1>3 DEF IInv

(* In an idle phase no operation is active, no worker is out and no close   *)
(* has been requested.                                                      *)
LEMMA IdleMeansQuiet ==
  ASSUME IInv, phase \in Idle
  PROVE  active = NoToken /\ workers = {} /\ cancel = 0 /\ ~allowClose /\ ~closeRequested
<1>1. active = NoToken
  <2> SUFFICES ASSUME active # NoToken PROVE FALSE
    OBVIOUS
  <2>1. active.kind \in Kinds /\ phase \in PhasesOf(active.kind)
    BY DEF IInv, TypeOK, PhaseMatchesOperation, Token
  <2>2. QED BY <2>1 DEF PhasesOf, Kinds, Idle
<1>2. ~allowClose /\ ~closeRequested
  BY DEF IInv, CloseIsRemembered, Idle
<1>3. workers = {}
  BY <1>1, <1>2, NoTokenIsNil DEF IInv, TypeOK, GenerationsBehind
<1>4. cancel = 0
  BY <1>1 DEF IInv, PhaseMatchesOperation, NoToken
<1>5. QED BY <1>1, <1>2, <1>3, <1>4

(* Beginning an operation from an idle phase preserves the invariant. *)
LEMMA BeginIInv ==
  ASSUME IInv, NEW k \in Kinds, NEW next \in PhasesOf(k), NEW c \in BOOLEAN,
         phase \in Idle,
         next \in {"SurfaceScanning", "DuplicateScanning", "Exporting", "Deleting"},
         c <=> next # "Deleting",
         BeginOperation(k, next, c)
  PROVE  IInv'
<1> DEFINE t == NewToken(k)
<1>1. /\ t \in Token /\ t # NoToken /\ t.generation = nextGeneration + 1
      /\ t.kind = k /\ t.folder = folder /\ t.folderRevision = folderRevision
  BY NewTokenType DEF IInv
<1>2. active = NoToken /\ workers = {} /\ ~allowClose /\ ~closeRequested
  BY IdleMeansQuiet
<1>3. /\ nextGeneration' = nextGeneration + 1 /\ active' = t /\ workers' = {t}
      /\ cancel' = (IF c THEN nextGeneration + 1 ELSE 0) /\ phase' = next
      /\ UNCHANGED <<folder, folderRevision, closeRequested, allowClose, cancelled>>
  BY <1>2 DEF BeginOperation
<1> HIDE DEF t
<1>4. nextGeneration \in Nat /\ cancelled \subseteq Nat
      /\ \A g \in cancelled : g <= nextGeneration
  BY DEF IInv, TypeOK, GenerationsBehind
<1>5. nextGeneration + 1 \notin cancelled
  BY <1>4
<1>6. next \in Phases
  BY DEF Phases, Idle, Scanning, Guarded
<1>7. TypeOK'
  BY <1>1, <1>3, <1>4, <1>6 DEF IInv, TypeOK
<1>8. PhaseMatchesOperation'
  BY <1>1, <1>3, <1>4, <1>5 DEF PhaseMatchesOperation
<1>9. CancellationIsVisible'
  BY <1>1, <1>3, <1>5 DEF CancellationIsVisible
<1>10. OrphansAreCancelled' /\ EffectsOutliveWindow' /\ OneWorkerForTheScreen'
  BY <1>1, <1>2, <1>3 DEF OrphansAreCancelled, EffectsOutliveWindow, OneWorkerForTheScreen
<1>11. CloseIsRemembered'
  BY <1>2, <1>3 DEF CloseIsRemembered
<1>12. GenerationsBehind'
  BY <1>1, <1>3, <1>4 DEF GenerationsBehind
<1>13. QED BY <1>7, <1>8, <1>9, <1>10, <1>11, <1>12 DEF IInv

(* Selecting a folder and resetting preserve the invariant. *)
LEMMA FolderChangeIInv ==
  ASSUME IInv, NEW f \in Folders \cup {NoFolder}, NEW next \in {"FolderReady", "NoFolder"},
         CanChangeFolder, InvalidateActiveOperation,
         folderRevision' = folderRevision + 1, folder' = f, phase' = next,
         UNCHANGED <<closeRequested, allowClose, workers>>
  PROVE  IInv'
<1>1. active = NoToken /\ workers = {} /\ ~allowClose /\ ~closeRequested /\ cancel = 0
  BY IdleMeansQuiet DEF CanChangeFolder
<1>2. /\ active' = NoToken /\ workers' = {} /\ ~allowClose' /\ ~closeRequested'
      /\ cancel' = 0 /\ cancelled' = cancelled /\ nextGeneration' = nextGeneration + 1
  BY <1>1 DEF InvalidateActiveOperation, InvokeCancellation
<1>3. nextGeneration \in Nat /\ cancelled \subseteq Nat /\ folderRevision \in Nat
      /\ \A g \in cancelled : g <= nextGeneration
  BY DEF IInv, TypeOK, GenerationsBehind
<1>4. TypeOK'
  BY <1>2, <1>3 DEF IInv, TypeOK, Phases, Idle
<1>5. /\ PhaseMatchesOperation' /\ CancellationIsVisible' /\ OrphansAreCancelled'
      /\ EffectsOutliveWindow' /\ OneWorkerForTheScreen' /\ CloseIsRemembered'
  BY <1>2 DEF PhaseMatchesOperation, CancellationIsVisible, OrphansAreCancelled,
     EffectsOutliveWindow, OneWorkerForTheScreen, CloseIsRemembered, Scanning, Guarded
<1>6. GenerationsBehind'
  BY <1>2, <1>3 DEF GenerationsBehind
<1>7. QED BY <1>4, <1>5, <1>6 DEF IInv

(* A cancellation request preserves the invariant: it moves the phase and   *)
(* the context together.                                                    *)
LEMMA CancelIInv ==
  ASSUME IInv, NEW next \in Phases, InvokeCancellation, phase' = next,
         active # NoToken, next \in PhasesOf(active.kind), cancel = active.generation,
         next \in {"SurfaceCancelling", "DuplicateCancelling", "ExportCancelling"},
         UNCHANGED <<folder, folderRevision, nextGeneration, active,
                     closeRequested, allowClose, workers>>,
         phase \in {"SurfaceScanning", "DuplicateScanning", "Exporting"}
  PROVE  IInv'
<1>1. active \in Token /\ active \in workers /\ active.generation \in Nat \ {0}
  BY DEF IInv, TypeOK, PhaseMatchesOperation, Token
<1>2. cancel' = 0 /\ cancelled' = cancelled \cup {active.generation}
  BY <1>1 DEF InvokeCancellation
<1>3. TypeOK' /\ PhaseMatchesOperation' /\ CancellationIsVisible'
  BY <1>1, <1>2 DEF IInv, TypeOK, PhaseMatchesOperation, CancellationIsVisible
<1>4. OrphansAreCancelled' /\ EffectsOutliveWindow' /\ OneWorkerForTheScreen'
  BY <1>1, <1>2 DEF IInv, OrphansAreCancelled, EffectsOutliveWindow, OneWorkerForTheScreen
<1>5. CloseIsRemembered' /\ GenerationsBehind'
  BY <1>1, <1>2 DEF IInv, CloseIsRemembered, GenerationsBehind
<1>6. QED BY <1>3, <1>4, <1>5 DEF IInv

(* A scan completion preserves the invariant. *)
LEMMA ScanCompletionIInv ==
  ASSUME IInv, NEW t \in workers, NEW next \in {"FolderReady", "SurfaceReady", "ResultsReady"},
         t.kind \in {"surface-scan", "duplicate-scan"},
         Accepts(t), ClearActiveOperation, phase' = next, workers' = workers \ {t},
         UNCHANGED <<folder, folderRevision, nextGeneration, closeRequested, allowClose>>
  PROVE  IInv'
<1>1. active = t /\ phase \in Scanning
  BY DEF Accepts, PhasesOf, Scanning
<1>2. ~allowClose /\ ~closeRequested
  BY <1>1 DEF IInv, CloseIsRemembered, Scanning
<1>3. workers' = {} /\ active' = NoToken /\ cancel' = 0 /\ cancelled' = cancelled
  BY DEF IInv, OneWorkerForTheScreen, ClearActiveOperation
<1>4. TypeOK'
  BY <1>2, <1>3 DEF IInv, TypeOK, Phases, Idle
<1>5. /\ PhaseMatchesOperation' /\ CancellationIsVisible' /\ OrphansAreCancelled'
      /\ EffectsOutliveWindow' /\ OneWorkerForTheScreen' /\ CloseIsRemembered'
  BY <1>2, <1>3 DEF PhaseMatchesOperation, CancellationIsVisible, OrphansAreCancelled,
     EffectsOutliveWindow, OneWorkerForTheScreen, CloseIsRemembered, Scanning, Guarded
<1>6. GenerationsBehind'
  BY <1>3 DEF IInv, GenerationsBehind
<1>7. QED BY <1>4, <1>5, <1>6 DEF IInv

(* An export or delete completion preserves the invariant, and pays a close *)
(* that was deferred to it.                                                 *)
LEMMA RetireIInv ==
  ASSUME IInv, NEW t \in workers,
         NEW closing \in {"ClosingAfterExport", "ClosingAfterDelete"},
         t.kind \in {"export", "delete"},
         closing \in PhasesOf(t.kind), RetireGuarded(t, closing)
  PROVE  IInv'
<1>1. active = t /\ phase \in PhasesOf(t.kind) /\ phase # "Closing"
  BY DEF RetireGuarded, Accepts, PhasesOf
<1>2. ~allowClose /\ (closeRequested <=> phase = closing)
  BY <1>1 DEF IInv, CloseIsRemembered, PhasesOf
<1>3. workers' = {} /\ active' = NoToken /\ cancel' = 0 /\ cancelled' = cancelled
  BY DEF IInv, OneWorkerForTheScreen, ClearActiveOperation, RetireGuarded
<1>4. /\ phase' = (IF closeRequested THEN "Closing" ELSE "ResultsReady")
      /\ allowClose' = closeRequested
      /\ UNCHANGED <<folder, folderRevision, nextGeneration, closeRequested>>
  BY <1>2 DEF RetireGuarded, IInv, TypeOK
<1>5. TypeOK'
  BY <1>3, <1>4 DEF IInv, TypeOK, Phases, Idle
<1>6. /\ PhaseMatchesOperation' /\ CancellationIsVisible' /\ OrphansAreCancelled'
      /\ EffectsOutliveWindow' /\ OneWorkerForTheScreen'
  BY <1>3, <1>4 DEF PhaseMatchesOperation, CancellationIsVisible, OrphansAreCancelled,
     EffectsOutliveWindow, OneWorkerForTheScreen, Scanning, Guarded
<1>7. CloseIsRemembered'
  BY <1>4 DEF IInv, TypeOK, CloseIsRemembered
<1>8. GenerationsBehind'
  BY <1>3, <1>4 DEF IInv, GenerationsBehind
<1>9. QED BY <1>5, <1>6, <1>7, <1>8 DEF IInv

(* A stale callback preserves the invariant: it only ends a worker that is  *)
(* not the active operation.                                                *)
LEMMA StaleIInv ==
  ASSUME IInv, NEW t \in workers, StaleCompletion(t)
  PROVE  IInv'
<1>1. t # active
  BY NoTokenIsNil DEF IInv, TypeOK, PhaseMatchesOperation, StaleCompletion, Accepts
<1>2. TypeOK' /\ PhaseMatchesOperation' /\ CancellationIsVisible'
  BY <1>1 DEF StaleCompletion, IInv, TypeOK, PhaseMatchesOperation, CancellationIsVisible
<1>3. /\ OrphansAreCancelled' /\ EffectsOutliveWindow' /\ OneWorkerForTheScreen'
      /\ CloseIsRemembered' /\ GenerationsBehind'
  BY DEF StaleCompletion, IInv, OrphansAreCancelled, EffectsOutliveWindow,
     OneWorkerForTheScreen, CloseIsRemembered, GenerationsBehind
<1>4. QED BY <1>2, <1>3 DEF IInv

(* Closing immediately preserves the invariant: it can only orphan a scan,  *)
(* and it cancels that scan.                                                *)
LEMMA CloseNowIInv ==
  ASSUME IInv, RequestCloseNow
  PROVE  IInv'
<1>1. phase \in Idle \cup Scanning
  BY DEF RequestCloseNow, MayCloseNow, IInv, TypeOK, CloseIsRemembered, Phases
<1>2. phase \in Idle => workers = {} /\ cancel = 0 /\ active = NoToken
  BY IdleMeansQuiet
<1>3. \A t \in workers : t = active /\ t.kind \in {"surface-scan", "duplicate-scan"}
                           /\ t \in Token
  <2> SUFFICES ASSUME NEW t \in workers
               PROVE t = active /\ t.kind \in {"surface-scan", "duplicate-scan"} /\ t \in Token
    OBVIOUS
  <2>1. t \in Token /\ t = active
    BY DEF IInv, TypeOK, GenerationsBehind, RequestCloseNow
  <2>2. t.kind \in Kinds /\ phase \in PhasesOf(t.kind) /\ phase \in Scanning
    BY <1>1, <1>2, <2>1, NoTokenIsNil DEF IInv, PhaseMatchesOperation, Token
  <2>3. QED BY <2>1, <2>2 DEF PhasesOf, Scanning, Kinds
<1>4. \A t \in workers : t.generation \in cancelled'
  <2> SUFFICES ASSUME NEW t \in workers PROVE t.generation \in cancelled'
    OBVIOUS
  <2>1. t = active /\ t \in Token /\ active # NoToken /\ t.generation # 0
    BY <1>3, NoTokenIsNil DEF Token
  <2>2. CASE phase \in {"SurfaceScanning", "DuplicateScanning"}
    BY <2>1, <2>2 DEF IInv, PhaseMatchesOperation, RequestCloseNow,
       InvalidateActiveOperation, InvokeCancellation
  <2>3. CASE phase \in {"SurfaceCancelling", "DuplicateCancelling"}
    BY <2>1, <2>3 DEF IInv, CancellationIsVisible, RequestCloseNow,
       InvalidateActiveOperation, InvokeCancellation
  <2>4. QED BY <1>1, <1>2, <2>1, <2>2, <2>3 DEF Scanning
<1>5. /\ active' = NoToken /\ cancel' = 0 /\ phase' = "Closing" /\ allowClose' = TRUE
      /\ closeRequested' = TRUE /\ nextGeneration' = nextGeneration + 1
      /\ workers' = workers /\ UNCHANGED <<folder, folderRevision>>
      /\ cancelled' \in {cancelled, cancelled \cup {cancel}}
  BY DEF RequestCloseNow, InvalidateActiveOperation, InvokeCancellation
<1>6. cancel = 0 \/ (cancel = active.generation /\ active \in Token /\ active \in workers)
  <2>1. CASE active = NoToken
    BY <2>1 DEF IInv, PhaseMatchesOperation, NoToken
  <2>2. CASE active # NoToken
    BY <2>2 DEF IInv, TypeOK, PhaseMatchesOperation
  <2>3. QED BY <2>1, <2>2
<1>7. TypeOK'
  BY <1>5 DEF IInv, TypeOK, Phases
<1>8. /\ PhaseMatchesOperation' /\ CancellationIsVisible' /\ OrphansAreCancelled'
      /\ EffectsOutliveWindow' /\ OneWorkerForTheScreen' /\ CloseIsRemembered'
  BY <1>3, <1>4, <1>5 DEF IInv, PhaseMatchesOperation, CancellationIsVisible,
     OrphansAreCancelled, EffectsOutliveWindow, OneWorkerForTheScreen, CloseIsRemembered,
     Scanning, Guarded
<1>9. GenerationsBehind'
  <2>1. \A t \in workers : t.generation \in Nat /\ t.generation <= nextGeneration
    BY DEF IInv, TypeOK, Token, GenerationsBehind
  <2>2. nextGeneration \in Nat /\ cancelled \subseteq Nat /\ 0 <= nextGeneration
        /\ \A g \in cancelled : g <= nextGeneration
    BY DEF IInv, TypeOK, GenerationsBehind
  <2>3. cancel \in Nat /\ cancel <= nextGeneration
    BY <1>6, <2>1, <2>2
  <2>4. QED BY <1>5, <2>1, <2>2, <2>3 DEF GenerationsBehind
<1>10. QED BY <1>7, <1>8, <1>9 DEF IInv

(* Deferring a close preserves the invariant: the phase remembers it. *)
LEMMA CloseDeferredIInv ==
  ASSUME IInv, RequestCloseDeferred
  PROVE  IInv'
<1>1. phase \in Guarded /\ active # NoToken /\ active \in Token /\ active \in workers
      /\ phase \in PhasesOf(active.kind)
  BY DEF RequestCloseDeferred, Guarded, IInv, TypeOK, PhaseMatchesOperation
<1>2. active.generation \in Nat \ {0} /\ active.kind \in {"export", "delete"}
  BY <1>1 DEF Token, PhasesOf, Guarded, Kinds
<1>3. CASE phase \in {"Exporting", "ExportCancelling"}
  <2>1. /\ phase' = "ClosingAfterExport" /\ cancel' = 0
        /\ cancelled' = cancelled \cup {active.generation}
        /\ closeRequested' = TRUE /\ ~allowClose
        /\ UNCHANGED <<folder, folderRevision, nextGeneration, active, allowClose, workers>>
    <3>1. CASE phase = "Exporting"
      BY <1>2, <3>1 DEF RequestCloseDeferred, InvokeCancellation, IInv, PhaseMatchesOperation
    <3>2. CASE phase = "ExportCancelling"
      <4>1. active.generation \in cancelled
        BY <1>1, <3>2 DEF IInv, CancellationIsVisible
      <4>2. cancel = 0
        BY <4>1 DEF IInv, PhaseMatchesOperation
      <4>3. QED BY <3>2, <4>1, <4>2 DEF RequestCloseDeferred, InvokeCancellation
    <3>3. QED BY <1>3, <3>1, <3>2
  <2>2. active.kind = "export"
    BY <1>1, <1>2, <1>3 DEF PhasesOf
  <2>3. TypeOK'
    BY <1>1, <1>2, <2>1 DEF IInv, TypeOK, Phases, Guarded
  <2>4. PhaseMatchesOperation' /\ CancellationIsVisible'
    BY <1>1, <2>1, <2>2 DEF PhaseMatchesOperation, CancellationIsVisible, PhasesOf
  <2>5. OrphansAreCancelled' /\ EffectsOutliveWindow' /\ OneWorkerForTheScreen'
    BY <2>1 DEF IInv, OrphansAreCancelled, EffectsOutliveWindow, OneWorkerForTheScreen
  <2>6. CloseIsRemembered' /\ GenerationsBehind'
    BY <1>1, <2>1 DEF IInv, CloseIsRemembered, GenerationsBehind
  <2>7. QED BY <2>3, <2>4, <2>5, <2>6 DEF IInv
<1>4. CASE phase \in {"Deleting", "ClosingAfterExport", "ClosingAfterDelete"}
  <2>1. /\ phase' = (IF phase = "Deleting" THEN "ClosingAfterDelete" ELSE phase)
        /\ closeRequested' = TRUE /\ ~allowClose
        /\ UNCHANGED <<cancel, cancelled, folder, folderRevision, nextGeneration,
                       active, allowClose, workers>>
    BY <1>4 DEF RequestCloseDeferred
  <2>2. phase' \in PhasesOf(active.kind)
    BY <1>1, <1>2, <2>1 DEF PhasesOf
  <2>3. TypeOK'
    BY <1>4, <2>1 DEF IInv, TypeOK, Phases, Guarded
  <2>4. PhaseMatchesOperation' /\ CancellationIsVisible'
    BY <1>1, <1>4, <2>1, <2>2 DEF IInv, PhaseMatchesOperation, CancellationIsVisible
  <2>5. OrphansAreCancelled' /\ EffectsOutliveWindow' /\ OneWorkerForTheScreen'
    BY <2>1 DEF IInv, OrphansAreCancelled, EffectsOutliveWindow, OneWorkerForTheScreen
  <2>6. CloseIsRemembered' /\ GenerationsBehind'
    BY <1>4, <2>1 DEF IInv, CloseIsRemembered, GenerationsBehind
  <2>7. QED BY <2>3, <2>4, <2>5, <2>6 DEF IInv
<1>5. QED BY <1>3, <1>4 DEF RequestCloseDeferred

(* Every step of the UI thread preserves the invariant. *)
LEMMA UIStepIInv ==
  ASSUME IInv, UIStep
  PROVE  IInv'
<1>1. ASSUME NEW f \in Folders, SelectFolder(f) PROVE IInv'
  BY <1>1, FolderChangeIInv DEF SelectFolder
<1>2. CASE Reset
  BY <1>2, FolderChangeIInv DEF Reset, CanReset
<1>3. CASE ClearResults
  <2>1. phase \in Idle
    BY <1>3 DEF ClearResults, Idle
  <2>2. active = NoToken /\ workers = {} /\ cancel = 0 /\ ~allowClose /\ ~closeRequested
    BY <2>1, IdleMeansQuiet
  <2>3. QED BY <1>3, <2>2 DEF ClearResults, IInv, TypeOK, PhaseMatchesOperation,
     CancellationIsVisible, OrphansAreCancelled, EffectsOutliveWindow,
     OneWorkerForTheScreen, CloseIsRemembered, GenerationsBehind, Phases, Idle,
     Scanning, Guarded
<1>4. CASE BeginSurfaceScan
  BY <1>4, BeginIInv DEF BeginSurfaceScan, Kinds, PhasesOf, Idle
<1>5. CASE BeginDuplicateScan
  BY <1>5, BeginIInv DEF BeginDuplicateScan, Kinds, PhasesOf, Idle
<1>6. CASE BeginExport
  BY <1>6, BeginIInv DEF BeginExport, Kinds, PhasesOf, Idle
<1>7. CASE BeginDelete
  BY <1>7, BeginIInv DEF BeginDelete, Kinds, PhasesOf, Idle
<1>8. ASSUME RequestScanCancellation \/ RequestExportCancellation PROVE IInv'
  <2>1. phase \in {"SurfaceScanning", "DuplicateScanning", "Exporting"}
    BY <1>8 DEF RequestScanCancellation, RequestExportCancellation
  <2>2. active # NoToken /\ cancel = active.generation /\ active.kind \in Kinds
        /\ phase \in PhasesOf(active.kind)
    BY <2>1 DEF IInv, TypeOK, PhaseMatchesOperation, Scanning, Guarded, Token
  <2>3. phase' \in {"SurfaceCancelling", "DuplicateCancelling", "ExportCancelling"}
        /\ phase' \in PhasesOf(active.kind) /\ phase' \in Phases
    BY <1>8, <2>2 DEF RequestScanCancellation, RequestExportCancellation, PhasesOf, Kinds,
       Phases, Scanning, Guarded
  <2>4. QED BY <1>8, <2>1, <2>2, <2>3, CancelIInv
            DEF RequestScanCancellation, RequestExportCancellation
<1>9. CASE RequestClose
  <2>1. CASE RequestCloseAgain
    BY <2>1 DEF RequestCloseAgain, vars, IInv, TypeOK, PhaseMatchesOperation,
       CancellationIsVisible, OrphansAreCancelled, EffectsOutliveWindow,
       OneWorkerForTheScreen, CloseIsRemembered, GenerationsBehind
  <2>2. QED BY <1>9, <2>1, CloseNowIInv, CloseDeferredIInv DEF RequestClose
<1>10. QED BY <1>1, <1>2, <1>3, <1>4, <1>5, <1>6, <1>7, <1>8, <1>9 DEF UIStep

(* Every worker callback preserves the invariant. *)
LEMMA CallbackIInv ==
  ASSUME IInv, NEW t \in workers, Callback(t)
  PROVE  IInv'
<1>1. ASSUME NEW ok \in BOOLEAN, CompleteSurfaceScan(t, ok) PROVE IInv'
  BY <1>1, ScanCompletionIInv DEF CompleteSurfaceScan
<1>2. ASSUME NEW ok \in BOOLEAN, CompleteDuplicateScan(t, ok) PROVE IInv'
  BY <1>2, ScanCompletionIInv DEF CompleteDuplicateScan
<1>3. CASE CompleteExport(t)
  BY <1>3, RetireIInv DEF CompleteExport, PhasesOf
<1>4. CASE CompleteDelete(t)
  BY <1>4, RetireIInv DEF CompleteDelete, PhasesOf
<1>5. CASE StaleCompletion(t)
  BY <1>5, StaleIInv
<1>6. QED BY <1>1, <1>2, <1>3, <1>4, <1>5 DEF Callback

(* IInv is an invariant of the specification. *)
THEOREM Invariance == Spec => []IInv
<1>1. IInv /\ [Next]_vars => IInv'
  <2> SUFFICES ASSUME IInv, [Next]_vars PROVE IInv'
    OBVIOUS
  <2>1. CASE UIStep
    BY <2>1, UIStepIInv
  <2>2. ASSUME NEW t \in workers, Callback(t) PROVE IInv'
    BY <2>2, CallbackIInv
  <2>3. CASE UNCHANGED vars
    BY <2>3 DEF vars, IInv, TypeOK, PhaseMatchesOperation, CancellationIsVisible,
       OrphansAreCancelled, EffectsOutliveWindow, OneWorkerForTheScreen,
       CloseIsRemembered, GenerationsBehind
  <2>4. QED BY <2>1, <2>2, <2>3 DEF Next, UIStep
<1>2. QED BY <1>1, InitIInv, PTL DEF Spec

(* The fields of operationState always have the types the code gives them.  *)
THEOREM TypeCorrect == Spec => []TypeOK
BY Invariance, PTL DEF IInv

(* The phase, the token and the stored CancelFunc never disagree. *)
THEOREM PhaseAgreement == Spec => []PhaseMatchesOperation
BY Invariance, PTL DEF IInv

(* No export and no delete is ever abandoned by the window. *)
THEOREM EffectsAreNotAbandoned == Spec => []EffectsOutliveWindow
BY Invariance, PTL DEF IInv

(* A worker nobody waits for any more has been cancelled. *)
THEOREM NoUncancelledOrphan == Spec => []OrphansAreCancelled
BY Invariance, PTL DEF IInv

(* At most one worker runs, and it works on the folder on screen. *)
THEOREM SingleWorker == Spec => []OneWorkerForTheScreen
BY Invariance, PTL DEF IInv

(* A cancelled scan never publishes, whatever its worker reports. *)
THEOREM CancelledScans == Spec => CancelledScansNeverPublish
<1>1. IInv /\ [Next]_vars =>
        [\A t \in workers \ workers' :
           t.generation \in cancelled /\ t.kind \in {"surface-scan", "duplicate-scan"}
           => (phase' = "ResultsReady" => phase = "ResultsReady")
              /\ (phase' = "SurfaceReady" =>
                    t.kind = "duplicate-scan" \/ phase = "SurfaceReady")]_vars
  <2> SUFFICES ASSUME IInv, Next, NEW t \in workers \ workers',
                      t.generation \in cancelled,
                      t.kind \in {"surface-scan", "duplicate-scan"}
               PROVE  /\ phase' = "ResultsReady" => phase = "ResultsReady"
                      /\ phase' = "SurfaceReady" =>
                           t.kind = "duplicate-scan" \/ phase = "SurfaceReady"
    OBVIOUS
  <2>1. ~UIStep
    BY DEF UIStep, SelectFolder, Reset, ClearResults, BeginSurfaceScan, BeginDuplicateScan,
       BeginExport, BeginDelete, BeginOperation, RequestScanCancellation,
       RequestExportCancellation, RequestClose, RequestCloseNow, RequestCloseDeferred,
       RequestCloseAgain, vars
  <2>2. Callback(t)
    BY <2>1 DEF Next, UIStep, Callback, CompleteSurfaceScan, CompleteDuplicateScan,
       CompleteExport, CompleteDelete, RetireGuarded, StaleCompletion
  <2>3. ASSUME Accepts(t)
        PROVE  phase \in {"SurfaceCancelling", "DuplicateCancelling"}
    BY <2>3 DEF IInv, CancellationIsVisible, Accepts, PhasesOf
  <2>4. CASE \E ok \in BOOLEAN : CompleteSurfaceScan(t, ok)
    BY <2>3, <2>4 DEF CompleteSurfaceScan, Publishes, Accepts, PhasesOf
  <2>5. CASE \E ok \in BOOLEAN : CompleteDuplicateScan(t, ok)
    BY <2>3, <2>5 DEF CompleteDuplicateScan, Publishes, Accepts, PhasesOf
  <2>6. CASE StaleCompletion(t)
    BY <2>6 DEF StaleCompletion
  <2>7. QED BY <2>2, <2>4, <2>5, <2>6 DEF Callback, CompleteExport, CompleteDelete
<1>2. QED BY <1>1, Invariance, PTL DEF Spec, CancelledScansNeverPublish

(* The state machine implements the promise of ForegroundOperation. *)
THEOREM Refinement == Spec => ImplementsForeground
<1>1. Init => Foreground!Init
  BY DEF Init, Foreground!Init, workBar, windowBar, Scanning, Guarded
<1>2. IInv /\ [Next]_vars => [Foreground!Next]_(Foreground!vars)
  <2> SUFFICES ASSUME IInv, [Next]_vars
               PROVE  [Foreground!Next]_(Foreground!vars)
    OBVIOUS
  <2> DEFINE quiet == workBar' = workBar /\ windowBar' = windowBar
  <2>1. quiet => [Foreground!Next]_(Foreground!vars)
    BY DEF Foreground!vars
  <2>2. ASSUME NEW f \in Folders, SelectFolder(f) PROVE quiet
    BY <2>2 DEF SelectFolder, CanChangeFolder, Idle, workBar, windowBar, Scanning, Guarded
  <2>3. ASSUME Reset \/ ClearResults PROVE quiet
    BY <2>3 DEF Reset, CanReset, ClearResults, CanChangeFolder, Idle, workBar, windowBar,
       Scanning, Guarded
  <2>4. ASSUME BeginSurfaceScan \/ BeginDuplicateScan \/ BeginExport \/ BeginDelete
        PROVE  Foreground!Start
    <3>1. phase \in Idle /\ phase' \in {"SurfaceScanning", "DuplicateScanning",
                                       "Exporting", "Deleting"}
          /\ UNCHANGED <<closeRequested, allowClose>>
      BY <2>4 DEF BeginSurfaceScan, BeginDuplicateScan, BeginExport, BeginDelete,
         BeginOperation, Idle
    <3>2. ~allowClose /\ ~closeRequested
      BY <3>1, IdleMeansQuiet
    <3>3. QED BY <3>1, <3>2 DEF Foreground!Start, workBar, windowBar, Idle, Scanning, Guarded
  <2>5. ASSUME RequestScanCancellation \/ RequestExportCancellation PROVE quiet
    BY <2>5 DEF RequestScanCancellation, RequestExportCancellation, workBar, windowBar,
       Scanning, Guarded
  <2>6. CASE RequestCloseNow
    <3>1. ~allowClose /\ ~closeRequested /\ phase \notin Guarded
      BY <2>6 DEF RequestCloseNow, MayCloseNow, IInv, TypeOK, CloseIsRemembered, Guarded
    <3>2. phase' = "Closing" /\ allowClose'
      BY <2>6 DEF RequestCloseNow
    <3>3. QED BY <3>1, <3>2 DEF Foreground!Next, Foreground!CloseNow, workBar, windowBar,
              Scanning, Guarded
  <2>7. CASE RequestCloseDeferred
    <3>1. ~allowClose /\ ~allowClose' /\ closeRequested' /\ phase \in Guarded
          /\ phase' \in Guarded
      BY <2>7 DEF RequestCloseDeferred, Guarded, IInv, TypeOK
    <3>2. workBar = "guarded" /\ workBar' = "guarded" /\ windowBar' = "closing"
      BY <3>1 DEF workBar, windowBar, Guarded, Scanning
    <3>3. windowBar \in {"open", "closing"}
      BY <3>1 DEF windowBar
    <3>4. QED BY <3>2, <3>3 DEF Foreground!Next, Foreground!CloseLater, Foreground!vars
  <2>8. CASE RequestCloseAgain
    BY <2>8 DEF RequestCloseAgain, vars, workBar, windowBar, Foreground!vars
  <2>9. ASSUME NEW t \in workers, Callback(t)
        PROVE [Foreground!Next]_(Foreground!vars)
    <3>1. CASE \E ok \in BOOLEAN : CompleteSurfaceScan(t, ok) \/ CompleteDuplicateScan(t, ok)
      <4>1. /\ phase \in Scanning /\ phase' \in {"FolderReady", "SurfaceReady", "ResultsReady"}
            /\ UNCHANGED <<closeRequested, allowClose>>
        BY <3>1 DEF CompleteSurfaceScan, CompleteDuplicateScan, Accepts, PhasesOf, Scanning
      <4>2. ~allowClose /\ ~closeRequested
        BY <4>1 DEF IInv, CloseIsRemembered, Scanning
      <4>3. QED BY <4>1, <4>2 DEF Foreground!Next, Foreground!Finish, workBar, windowBar,
                Scanning, Guarded
    <3>2. CASE CompleteExport(t) \/ CompleteDelete(t)
      <4>1. /\ phase \in Guarded /\ ~allowClose
            /\ phase' = (IF closeRequested THEN "Closing" ELSE "ResultsReady")
            /\ allowClose' = closeRequested /\ closeRequested' = closeRequested
        BY <3>2 DEF CompleteExport, CompleteDelete, RetireGuarded, Accepts, PhasesOf, Guarded,
           IInv, TypeOK, CloseIsRemembered
      <4>2. QED BY <4>1 DEF Foreground!Next, Foreground!Finish, workBar, windowBar,
                Scanning, Guarded
    <3>3. CASE StaleCompletion(t)
      BY <3>3 DEF StaleCompletion, workBar, windowBar, Foreground!vars
    <3>4. QED BY <2>9, <3>1, <3>2, <3>3 DEF Callback
  <2>10. CASE UNCHANGED vars
    BY <2>10 DEF vars, workBar, windowBar, Foreground!vars
  <2>11. QED BY <2>1, <2>2, <2>3, <2>4, <2>5, <2>6, <2>7, <2>8, <2>9, <2>10
             DEF Next, RequestClose, Foreground!Next
<1>3. QED BY <1>1, <1>2, Invariance, PTL DEF Spec, Foreground!Spec, ImplementsForeground

================================================================================
