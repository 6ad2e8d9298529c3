---------------------------------- MODULE Session ----------------------------------
(***************************************************************************)
(* The life of desktop processes that share one preference file: run       *)
(* (cmd/twintidy/main.go) with diagnostics around it, Run and the closing  *)
(* handler (internal/gui/app_windows.go), Load and Save                    *)
(* (internal/settings/settings.go), and the logger and the crash reports   *)
(* (internal/diagnostics/diagnostics.go) that the UI thread and the worker *)
(* goroutines use at once.  Any call may fail, any process may be killed,  *)
(* and the power may go.                                                   *)
(***************************************************************************)
EXTENDS Naturals, FiniteSets

CONSTANTS
  Sessions,        \* processes; each picks the folder and opens its window
                   \* at the place that bears its name
  Defaults,        \* no folder, no placement
  OnScreen,        \* placements that today's screens still show
  MaxFaults,       \* bound: calls that fail, kills, power losses
  Watched,         \* bound: sessions whose workers run and may panic
  MaxPanics        \* bound: panics of all sessions

ASSUME SessionAssumption ==
  /\ IsFiniteSet(Sessions) /\ Defaults \notin Sessions
  /\ {"absent", "torn", "left"} \cap (Sessions \cup {Defaults}) = {}
  /\ OnScreen \subseteq Sessions /\ Watched \subseteq Sessions
  /\ MaxFaults \in Nat /\ MaxPanics \in Nat

VARIABLES
  pc,            \* of each session's main goroutine
  wpc,           \* of its worker
  prefs,         \* Settings in memory
  persisted,     \* whether its preference file has a path
  target,        \* the preference file
  staging,       \* each session's staging file, or Left if it could not
                 \* be removed
  reading,       \* sessions that have the preference file open
  unsynced, saved, powerLost,  \* not yet on the disk; documents given to Save
  log, last,     \* the logger; the last line of the log
  mu,            \* who holds the diagnostics mutex
  report, clash, \* crash report of each panic; two in one millisecond
  panics, exit, faults

file == <<target, staging, reading, unsynced, saved, powerLost>>
diag == <<log, last, mu, report, clash>>
memory == <<prefs, persisted>>
vars == <<pc, wpc, prefs, persisted, target, staging, reading, unsynced,
          saved, powerLost, log, last, mu, report, clash, panics, exit, faults>>

Threads == {"main", "worker"}
Folders == Sessions \cup {Defaults}
Documents == [folder : Folders, window : Folders]
DefaultPrefs == [folder |-> Defaults, window |-> Defaults]
Absent == [folder |-> "absent", window |-> "absent"]
Torn == [folder |-> "torn", window |-> "torn"]
Left == [folder |-> "left", window |-> "left"]
Ended == {"off", "exited"}
Alive(s) == pc[s] \notin Ended

Init ==
  /\ pc = [s \in Sessions |-> "off"]
  /\ wpc = [s \in Sessions |-> "none"]
  /\ prefs = [s \in Sessions |-> DefaultPrefs]
  /\ persisted = [s \in Sessions |-> FALSE]
  /\ target = Absent /\ staging = [s \in Sessions |-> Absent]
  /\ reading = {} /\ unsynced = FALSE /\ saved = {} /\ powerLost = FALSE
  /\ log = [s \in Sessions |-> "stderr"]
  /\ last = [s \in Sessions |-> "none"]
  /\ mu = [s \in Sessions |-> "free"]
  /\ report = [s \in Sessions |-> [t \in Threads |-> "none"]]
  /\ clash = [s \in Sessions |-> FALSE]
  /\ panics = 0
  /\ exit = [s \in Sessions |-> "none"]
  /\ faults = 0

Goto(s, label) == pc' = [pc EXCEPT ![s] = label]
Fault == faults < MaxFaults /\ faults' = faults + 1

(* Logf: a line on the session log; after Close it goes to the closed file. *)
Write(s, line) ==
  last' = [last EXCEPT ![s] = IF log[s] = "open" THEN line ELSE @]
Logf(s) ==
  /\ mu[s] = "free"
  /\ Write(s, "line")
  /\ UNCHANGED <<log, mu, report, clash>>

--------------------------------------------------------------------------------
(* run: diagnostics first; without them there is no session. *)
Start(s) ==
  /\ pc[s] = "off" /\ exit[s] = "none"
  /\ \/ /\ log' = [log EXCEPT ![s] = "open"]
        /\ last' = [last EXCEPT ![s] = "line"]
        /\ Goto(s, "load")
        /\ UNCHANGED <<exit, faults>>
     \/ /\ Fault
        /\ Goto(s, "exited") /\ exit' = [exit EXCEPT ![s] = "1"]
        /\ UNCHANGED <<log, last>>
  /\ UNCHANGED <<wpc, memory, file, mu, report, clash, panics>>

(* loadPersistedSettings and Load: whatever goes wrong yields the defaults. *)
Load(s) ==
  /\ pc[s] = "load"
  /\ \/ /\ target # Absent
        /\ persisted' = [persisted EXCEPT ![s] = TRUE]
        /\ reading' = reading \cup {s} /\ Goto(s, "read")
        /\ UNCHANGED faults
     \/ /\ target = Absent
        /\ persisted' = [persisted EXCEPT ![s] = TRUE]
        /\ Goto(s, "create") /\ UNCHANGED <<reading, faults>>
     \/ /\ Fault
        /\ \E known \in BOOLEAN : persisted' = [persisted EXCEPT ![s] = known]
        /\ Goto(s, "create") /\ UNCHANGED reading
  /\ UNCHANGED <<wpc, prefs, target, staging, unsynced, saved,
                 powerLost, diag, panics, exit>>

Parsed == IF target \in Documents THEN target ELSE DefaultPrefs

Read(s) ==
  /\ pc[s] = "read"
  /\ \/ prefs' = [prefs EXCEPT ![s] = Parsed] /\ UNCHANGED faults
     \/ Fault /\ UNCHANGED prefs
  /\ reading' = reading \ {s} /\ Goto(s, "create")
  /\ UNCHANGED <<wpc, persisted, target, staging, unsynced, saved,
                 powerLost, diag, panics, exit>>

CreateWindow(s) ==
  /\ pc[s] = "create"
  /\ \/ Goto(s, "window") /\ UNCHANGED <<diag, faults>>
     \/ Fault /\ Logf(s) /\ Goto(s, "end 1")
  /\ UNCHANGED <<wpc, memory, file, panics, exit>>

Remember(s, f, w) == prefs' = [prefs EXCEPT ![s] = [folder |-> f, window |-> w]]

(* The folder picker; when the modern one fails, the legacy one, even after *)
(* the user has chosen.                                                     *)
OpenPicker(s) ==
  /\ pc[s] = "window" /\ prefs[s].folder # s
  /\ \/ Goto(s, "picker") /\ UNCHANGED <<diag, faults>>
     \/ Fault /\ Logf(s) /\ Goto(s, "legacy picker")
  /\ UNCHANGED <<wpc, memory, file, panics, exit>>

PickFolder(s) ==
  /\ pc[s] \in {"picker", "legacy picker"}
  /\ \/ /\ Goto(s, "window")
        /\ Remember(s, s, prefs[s].window)
        /\ UNCHANGED <<diag, faults>>
     \/ /\ Goto(s, "window") /\ UNCHANGED <<prefs, diag, faults>>
     \/ /\ pc[s] = "picker" /\ Fault
        /\ Logf(s) /\ Goto(s, "legacy picker")
        /\ UNCHANGED prefs
     \/ /\ pc[s] = "legacy picker" /\ Fault /\ Goto(s, "window")
        /\ UNCHANGED <<prefs, diag>>
  /\ UNCHANGED <<wpc, persisted, file, panics, exit>>

--------------------------------------------------------------------------------
(* applyPersistedWindowPlacement: where the saved placement still meets a   *)
(* screen, a window the user did not move is there; otherwise at its own.   *)
Placements(s) ==
  {s} \cup {w \in OnScreen : prefs[s].window = w}

(* persistSettings: bounds of a minimised window keep the former placement. *)
CloseWindow(s) ==
  /\ pc[s] = "window"
  /\ IF persisted[s]
       THEN /\ \/ \E w \in Placements(s) : Remember(s, prefs[s].folder, w)
               \/ UNCHANGED prefs
            /\ Goto(s, "stage")
       ELSE Goto(s, "closed") /\ UNCHANGED prefs
  /\ UNCHANGED <<wpc, persisted, file, diag, panics, exit, faults>>

Stage(s, value) == staging' = [staging EXCEPT ![s] = value]

CreateStaging(s) ==
  /\ pc[s] = "stage"
  /\ saved' = saved \cup {prefs[s]}
  /\ \/ Stage(s, Torn) /\ Goto(s, "write") /\ UNCHANGED faults
     \/ Fault /\ Goto(s, "save failed") /\ UNCHANGED staging
  /\ UNCHANGED <<wpc, memory, target, reading, unsynced, powerLost, diag,
                 panics, exit>>

(* os.Remove, after another call has failed: nobody looks whether it fails  *)
(* as well and leaves the file there, under a name that is not used again.  *)
RemoveStaging(s) == Stage(s, Absent) \/ Stage(s, Left)

\* mutant: a short write is not noticed
PublishAnyway(s) == Goto(s, "rename") /\ Stage(s, Torn)
GiveUpSaving(s) == Goto(s, "save failed") /\ RemoveStaging(s)

WriteStaging(s) ==
  /\ pc[s] = "write"
  /\ \/ Stage(s, prefs[s]) /\ Goto(s, "rename") /\ UNCHANGED faults
     \/ Fault /\ GiveUpSaving(s)
  /\ UNCHANGED <<wpc, memory, target, reading, unsynced, saved, powerLost, diag,
                 panics, exit>>

(* Windows does not replace a file that another process has open.  What     *)
(* makes the rename fail may keep the staging file from being removed.      *)
RenameStaging(s) ==
  /\ pc[s] = "rename"
  /\ \/ /\ reading = {}
        /\ target' = staging[s] /\ unsynced' = TRUE
        /\ Stage(s, Absent) /\ Goto(s, "closed")
        /\ UNCHANGED faults
     \/ /\ reading # {} /\ Goto(s, "save failed") /\ Stage(s, Absent)
        /\ UNCHANGED <<target, unsynced, faults>>
     \/ Fault /\ GiveUpSaving(s) /\ UNCHANGED <<target, unsynced>>
  /\ UNCHANGED <<wpc, memory, reading, saved, powerLost, diag, panics, exit>>

SaveFailed(s) ==
  /\ pc[s] = "save failed"
  /\ Logf(s) /\ Goto(s, "closed")
  /\ UNCHANGED <<wpc, memory, file, panics, exit, faults>>

(* uiClosing is set, the message loop returns, and run with it. *)
LogExit(s) ==
  /\ pc[s] = "closed"
  /\ Logf(s) /\ Goto(s, "end 0")
  /\ UNCHANGED <<wpc, memory, file, panics, exit, faults>>

\* mutant: the log file is left open
LeaveOpen(s) == UNCHANGED log
CloseFile(s) == log' = [log EXCEPT ![s] = "closed"]

CloseDiagnostics(s) ==
  /\ pc[s] \in {"end 0", "end 1"} /\ mu[s] = "free"
  /\ Write(s, "session ended") /\ CloseFile(s)
  /\ Goto(s, IF pc[s] = "end 0" THEN "exit 0" ELSE "exit 1")
  /\ UNCHANGED <<wpc, memory, file, mu, report, clash, panics, exit, faults>>

(* The process is gone, with its memory and whatever its goroutines did.    *)
Die(S, code) ==
  /\ pc' = [s \in Sessions |-> IF s \in S THEN "exited" ELSE pc[s]]
  /\ wpc' = [s \in Sessions |-> IF s \in S THEN "none" ELSE wpc[s]]
  /\ exit' = [s \in Sessions |-> IF s \in S THEN code ELSE exit[s]]
  /\ mu' = [s \in Sessions |-> IF s \in S THEN "free" ELSE mu[s]]
  /\ reading' = reading \ S
  /\ prefs' = [s \in Sessions |-> IF s \in S THEN DefaultPrefs ELSE prefs[s]]
  /\ persisted' = [s \in Sessions |-> s \notin S /\ persisted[s]]

Exit(s) ==
  /\ pc[s] \in {"exit 0", "exit 1"}
  /\ Die({s}, IF pc[s] = "exit 0" THEN "0" ELSE "1")
  /\ UNCHANGED <<target, staging, unsynced, saved, powerLost, log, last, report,
                 clash, panics, faults>>


--------------------------------------------------------------------------------
(* Panics.  On the UI thread run recovers; a worker of the window recovers  *)
(* and goes on, one of the engine reports and panics again.                 *)
Mark(s, t, state) == report' = [report EXCEPT ![s] = [report[s] EXCEPT ![t] = state]]

Pending(s, t) ==
  /\ Mark(s, t, "pending")
  /\ s \in Watched
  /\ panics < MaxPanics /\ panics' = panics + 1

\* mutant: recover is called by a helper, and sees no panic
UnseenPanic(s) ==
  /\ pc[s] = "window" /\ Pending(s, "main")
  /\ Die({s}, "2")
  /\ UNCHANGED <<target, staging, unsynced, saved, powerLost, log, last, clash,
                 faults>>

UIPanics(s) ==
  /\ pc[s] \in {"window", "write", "closed"}
  /\ Pending(s, "main") /\ Goto(s, "panicked")
  /\ UNCHANGED <<wpc, memory, file, log, last, mu, clash, exit, faults>>

StartWorker(s) ==
  /\ s \in Watched /\ pc[s] = "window" /\ wpc[s] = "none"
  /\ wpc' = [wpc EXCEPT ![s] = "running"]
  /\ UNCHANGED <<pc, memory, file, diag, panics, exit, faults>>

WorkerLogs(s) ==
  /\ wpc[s] = "running" /\ Logf(s)
  /\ UNCHANGED <<pc, wpc, memory, file, panics, exit, faults>>

WorkerPanics(s) ==
  /\ wpc[s] = "running" /\ Pending(s, "worker")
  /\ \E kind \in {"recovered", "repanics"} :
       wpc' = [wpc EXCEPT ![s] = kind]
  /\ UNCHANGED <<pc, memory, file, log, last, mu, clash, exit, faults>>

Other(t) == CHOOSE u \in Threads : u # t

(* WriteCrashReport, under the mutex.  The name of the report has the time  *)
(* to the millisecond: a second one may truncate the first.                 *)
OpenReport(s, t) ==
  /\ Alive(s) /\ report[s][t] = "pending" /\ mu[s] = "free"
  /\ mu' = [mu EXCEPT ![s] = t]
  /\ \/ Mark(s, t, "partial") /\ UNCHANGED clash
     \/ /\ report[s][Other(t)] = "whole"
        /\ report' = [report EXCEPT ![s] = [u \in Threads |-> "partial"]]
        /\ clash' = [clash EXCEPT ![s] = TRUE]
  /\ UNCHANGED <<pc, wpc, memory, file, log, last, panics, exit, faults>>

WriteReport(s, t) ==
  /\ mu[s] = t /\ report[s][t] = "partial"
  /\ \/ Mark(s, t, "whole") /\ UNCHANGED faults
     \/ Fault /\ Mark(s, t, "failed")
  /\ UNCHANGED <<pc, wpc, memory, file, log, last, mu, clash, panics, exit>>

\* mutant: the outcome is logged by Logf, which takes the mutex again
WaitForMutex(s) == mu[s] = "free"
NeedsNoMutex(s) == TRUE

LogReport(s, t) ==
  /\ mu[s] = t /\ report[s][t] \in {"whole", "failed"}
  /\ NeedsNoMutex(s)
  /\ Write(s, "line")
  /\ mu' = [mu EXCEPT ![s] = "free"]
  /\ UNCHANGED <<pc, wpc, memory, file, log, report, clash, panics, exit,
                 faults>>

Reported(s, t) == mu[s] # t /\ report[s][t] \notin {"none", "pending"}

(* PanicToError returns, and run logs the error and shows it. *)
RunReturns(s) ==
  /\ pc[s] = "panicked" /\ Reported(s, "main")
  /\ Logf(s) /\ Goto(s, "end 1")
  /\ UNCHANGED <<wpc, memory, file, panics, exit, faults>>

WorkerRecovers(s) ==
  /\ wpc[s] = "recovered" /\ Reported(s, "worker")
  /\ wpc' = [wpc EXCEPT ![s] = "running"]
  /\ UNCHANGED <<pc, memory, file, diag, panics, exit, faults>>

Repanic(s) ==
  /\ wpc[s] = "repanics" /\ Reported(s, "worker")
  /\ Die({s}, "2")
  /\ UNCHANGED <<target, staging, unsynced, saved, powerLost, log, last, report,
                 clash, panics, faults>>

--------------------------------------------------------------------------------
Kill(s) ==
  /\ Alive(s) /\ Fault /\ Die({s}, "killed")
  /\ UNCHANGED <<target, staging, unsynced, saved, powerLost, log, last, report,
                 clash, panics>>

Sync ==
  /\ unsynced /\ unsynced' = FALSE
  /\ UNCHANGED <<pc, wpc, memory, target, staging, reading, saved,
                 powerLost, diag, panics, exit, faults>>

(* Save does not sync: what it renamed may come back torn. *)
LosePower ==
  /\ Fault /\ powerLost' = TRUE
  /\ Die({s \in Sessions : Alive(s)}, "killed")
  /\ target' \in IF unsynced THEN {target, Torn} ELSE {target}
  /\ unsynced' = FALSE
  /\ UNCHANGED <<staging, saved, log, last, report, clash, panics>>

Reporting(s) ==
  \E t \in Threads : OpenReport(s, t) \/ WriteReport(s, t) \/ LogReport(s, t)
Main(s) ==
  \/ Start(s) \/ Load(s) \/ Read(s) \/ CreateWindow(s) \/ CreateStaging(s)
  \/ WriteStaging(s) \/ RenameStaging(s) \/ SaveFailed(s) \/ LogExit(s)
  \/ CloseDiagnostics(s) \/ Exit(s) \/ RunReturns(s)
User(s) == OpenPicker(s) \/ PickFolder(s) \/ CloseWindow(s)
Worker(s) ==
  \/ StartWorker(s) \/ WorkerLogs(s) \/ WorkerPanics(s) \/ WorkerRecovers(s)
  \/ Repanic(s)

Next ==
  \/ \E s \in Sessions : \/ Main(s) \/ User(s) \/ Worker(s) \/ Reporting(s)
                         \/ UIPanics(s) \/ Kill(s)
  \/ Sync \/ LosePower

Spec == Init /\ [][Next]_vars

(* A goroutine inside WriteCrashReport runs on. *)
FairSpec == Spec /\ \A s \in Watched : WF_vars(Reporting(s))

--------------------------------------------------------------------------------
(* However sessions overlap, fail or die, the preference file is absent or  *)
(* a whole document that some session saved; only a power loss may tear it, *)
(* and then it is read as the defaults.  A session that ends without an     *)
(* error leaves a staging file only where a failed save could not remove it *)
(* (settings.go 106-144: "a crash cannot leave a torn file"; 74-76).        *)
PreferencesAreWhole ==
  /\ target \in saved \cup {Absent} \/ (target = Torn /\ powerLost)
  /\ \A s \in Sessions :
       /\ pc[s] \in {"create", "window"} /\ prefs[s].folder # s
            => prefs[s] \in saved \cup {DefaultPrefs}
       /\ exit[s] = "0" => staging[s] \in {Absent, Left}

(* A process that a panic ends has left a whole report of it, unless the    *)
(* report could not be written or another one took its name in the same     *)
(* millisecond (diagnostics.go 106-152; main.go 28-41).                     *)
PanicsLeaveReports ==
  \A s \in Sessions :
    /\ exit[s] \in {"1", "2"}
    /\ \E t \in Threads : report[s][t] # "none"
    => clash[s] \/ \E t \in Threads : report[s][t] \in {"whole", "failed"}

(* The log of a session that ended by itself ends with "session ended",     *)
(* although goroutines outlive the window and keep logging                  *)
(* (diagnostics.go 76-92).                                                  *)
LogTellsTheEnd ==
  \A s \in Sessions :
    exit[s] \in {"0", "1"} /\ log[s] # "stderr" => last[s] = "session ended"

(* Reporting a panic never waits for itself: the report is done with, or    *)
(* the process is gone (diagnostics.go 129-152: the logger is used without  *)
(* the mutex that is already held).                                         *)
ReportsComplete ==
  \A s \in Watched, t \in Threads :
    report[s][t] = "pending" ~> Reported(s, t) \/ ~Alive(s)

================================================================================
