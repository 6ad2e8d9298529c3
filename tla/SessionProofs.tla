------------------------------ MODULE SessionProofs ------------------------------
(***************************************************************************)
(* Theorems about desktop processes that share a preference file, for any  *)
(* number of them, of panics, of failing calls and of power losses: the    *)
(* file is always whole, a panic that ends a process leaves its report,    *)
(* and the log of a session tells its end.  Then theorems about the        *)
(* preview pane of one session, for any number of requests: each temporary *)
(* page has an owner that removes it, and only what was prepared for the   *)
(* screen is shown.                                                        *)
(***************************************************************************)
EXTENDS Session, Preview, TLAPS

Choosing == {"create", "window", "picker", "legacy picker"}
Opening == {"off", "load", "read"}
Closing == {"closed", "end 0", "exit 0"}
Labels == Opening \cup Choosing \cup Closing
          \cup {"stage", "write", "rename", "save failed", "panicked", "end 1",
                "exit 1", "exited"}
Reports == {"none", "pending", "partial", "whole", "failed"}
Codes == {"none", "0", "1", "2", "killed"}

Types ==
  /\ pc \in [Sessions -> Labels]
  /\ wpc \in [Sessions -> {"none", "running", "recovered", "repanics"}]
  /\ prefs \in [Sessions -> Documents]
  /\ DOMAIN staging = Sessions
  /\ log \in [Sessions -> {"stderr", "open", "closed"}] /\ DOMAIN last = Sessions
  /\ mu \in [Sessions -> Threads \cup {"free"}]
  /\ report \in [Sessions -> [Threads -> Reports]]
  /\ clash \in [Sessions -> BOOLEAN]
  /\ exit \in [Sessions -> Codes]

(* The preference file, whatever sessions do to it. *)
TargetInv ==
  /\ saved \subseteq Documents
  /\ target \in saved \cup {Absent} \/ (target = Torn /\ powerLost)

(* A session publishes only what it gave to Save, and after that its        *)
(* staging file exists only if it could not be removed.                     *)
PrefsInv(s) ==
  /\ pc[s] \in Opening \cup {"exited"} => prefs[s] = DefaultPrefs
  /\ pc[s] \in Choosing =>
       prefs[s].folder = s \/ prefs[s] \in saved \cup {DefaultPrefs}
  /\ pc[s] \in {"write", "rename"} => prefs[s] \in saved
  /\ pc[s] = "rename" => staging[s] = prefs[s]
  /\ pc[s] \in Opening \cup Choosing \cup {"stage"} => staging[s] = Absent
  /\ pc[s] \in Closing \cup {"save failed"} => staging[s] \in {Absent, Left}
  /\ exit[s] = "0" => staging[s] \in {Absent, Left}
  /\ exit[s] # "none" => pc[s] = "exited"

(* The log is open from the start to the last line, and closed after it. *)
LogInv(s) ==
  /\ pc[s] = "off" => log[s] = "stderr"
  /\ pc[s] \notin {"off", "exit 0", "exit 1", "exited"} => log[s] = "open"
  /\ pc[s] \in {"exit 0", "exit 1"} \/ (exit[s] \in {"0", "1"} /\ log[s] # "stderr")
       => log[s] = "closed" /\ last[s] = "session ended"

(* A report is begun and not finished only by who holds the mutex, or after *)
(* a clash of names; and a process that a panic ends has waited for it.     *)
NoPanic(s) == \A t \in Threads : report[s][t] = "none"
Told(s) ==
  \/ NoPanic(s)
  \/ clash[s]
  \/ \E t \in Threads : report[s][t] \in {"whole", "failed"}

PanicInv(s) ==
  /\ pc[s] \in Opening \cup {"create"} => wpc[s] = "none" /\ NoPanic(s)
  /\ pc[s] \in {"off", "exited"} => wpc[s] = "none" /\ mu[s] = "free"
  /\ Alive(s) => \A t \in Threads : report[s][t] = "partial" => mu[s] = t \/ clash[s]
  /\ pc[s] \in {"end 1", "exit 1"} =>
       \/ wpc[s] = "none" /\ NoPanic(s)
       \/ clash[s]
       \/ report[s]["main"] \in {"whole", "failed"}
  /\ exit[s] \in {"1", "2"} => Told(s)

SessionInv(s) == PrefsInv(s) /\ LogInv(s) /\ PanicInv(s)

IInv == Types /\ TargetInv /\ \A s \in Sessions : SessionInv(s)

--------------------------------------------------------------------------------
MainSteps(r) == Main(r) \/ User(r)
OtherSteps(r) == Worker(r) \/ Reporting(r) \/ UIPanics(r) \/ Kill(r)

(* What one session does leaves the others alone. *)
LEMMA OthersStay ==
  ASSUME Types, NEW r \in Sessions, MainSteps(r) \/ OtherSteps(r),
         NEW s \in Sessions \ {r}
  PROVE  /\ pc'[s] = pc[s] /\ wpc'[s] = wpc[s] /\ prefs'[s] = prefs[s]
         /\ staging'[s] = staging[s] /\ log'[s] = log[s] /\ last'[s] = last[s]
         /\ mu'[s] = mu[s] /\ report'[s] = report[s] /\ clash'[s] = clash[s]
         /\ exit'[s] = exit[s]
<1> USE DEF file, diag, memory
<1>1. ASSUME NEW label, Goto(r, label) PROVE pc'[s] = pc[s]
  BY <1>1 DEF Goto, Types
<1>2. ASSUME NEW f, NEW w, Remember(r, f, w) PROVE prefs'[s] = prefs[s]
  BY <1>2 DEF Remember, Types
<1>3. ASSUME NEW value, Stage(r, value) PROVE staging'[s] = staging[s]
  BY <1>3 DEF Stage, Types
<1>4. ASSUME NEW line, Write(r, line) PROVE last'[s] = last[s]
  BY <1>4 DEF Write, Types
<1>5. ASSUME NEW t, NEW state, Mark(r, t, state) PROVE report'[s] = report[s]
  BY <1>5 DEF Mark, Types
<1>6. ASSUME Logf(r) PROVE last'[s] = last[s] /\ UNCHANGED <<log, mu, report, clash>>
  BY <1>4, <1>6 DEF Logf
<1>7. CASE Start(r) \/ Load(r) \/ Read(r)
  BY <1>1, <1>7 DEF Start, Load, Read, Types
<1>8. CASE CreateWindow(r) \/ OpenPicker(r)
  BY <1>1, <1>6, <1>8 DEF CreateWindow, OpenPicker
<1>9. CASE PickFolder(r) \/ CloseWindow(r)
  BY <1>1, <1>2, <1>6, <1>9 DEF PickFolder, CloseWindow
<1>10. CASE CreateStaging(r) \/ WriteStaging(r) \/ RenameStaging(r)
  BY <1>1, <1>3, <1>10
  DEF CreateStaging, WriteStaging, RenameStaging, GiveUpSaving, RemoveStaging
<1>11. CASE SaveFailed(r) \/ LogExit(r) \/ RunReturns(r)
  BY <1>1, <1>6, <1>11 DEF SaveFailed, LogExit, RunReturns
<1>12. CASE CloseDiagnostics(r)
  BY <1>1, <1>4, <1>12 DEF CloseDiagnostics, CloseFile, Types
<1>13. CASE Exit(r) \/ Repanic(r) \/ Kill(r)
  BY <1>13 DEF Exit, Repanic, Kill, Die
<1>14. CASE StartWorker(r) \/ WorkerLogs(r) \/ WorkerRecovers(r)
  BY <1>6, <1>14 DEF StartWorker, WorkerLogs, WorkerRecovers, Types
<1>15. CASE WorkerPanics(r) \/ UIPanics(r)
  BY <1>1, <1>5, <1>15 DEF WorkerPanics, UIPanics, Pending, Types
<1>16. CASE \E t \in Threads : OpenReport(r, t) \/ WriteReport(r, t) \/ LogReport(r, t)
  BY <1>4, <1>5, <1>16 DEF OpenReport, WriteReport, LogReport, Types
<1> QED
  BY <1>7, <1>8, <1>9, <1>10, <1>11, <1>12, <1>13, <1>14, <1>15, <1>16
  DEF MainSteps, OtherSteps, Main, User, Worker, Reporting

LEMMA SameSession ==
  ASSUME NEW s, SessionInv(s), saved \subseteq saved',
         pc'[s] = pc[s], wpc'[s] = wpc[s], prefs'[s] = prefs[s],
         staging'[s] = staging[s], log'[s] = log[s], last'[s] = last[s],
         mu'[s] = mu[s], report'[s] = report[s], clash'[s] = clash[s],
         exit'[s] = exit[s]
  PROVE  SessionInv(s)'
<1>1. PrefsInv(s)'
  BY DEF SessionInv, PrefsInv
<1>2. LogInv(s)'
  BY DEF SessionInv, LogInv
<1>3. PanicInv(s)'
  BY DEF SessionInv, PanicInv, NoPanic, Told, Alive
<1> QED
  BY <1>1, <1>2, <1>3 DEF SessionInv

LEMMA DocumentFacts ==
  /\ Absent \notin Documents /\ Torn \notin Documents
  /\ DefaultPrefs \in Documents /\ Absent # Torn
BY SessionAssumption
DEF Absent, Torn, Documents, Folders, DefaultPrefs, SessionAssumption

LEMMA TypesStep ==
  ASSUME Types, [Next]_vars
  PROVE  Types'
<1> USE DEF file, diag, memory, Types
<1>1. ASSUME NEW r \in Sessions, NEW label \in Labels, Goto(r, label)
      PROVE  pc' \in [Sessions -> Labels]
  BY <1>1 DEF Goto
<1>2. /\ "load" \in Labels /\ "read" \in Labels /\ "create" \in Labels
      /\ "window" \in Labels /\ "picker" \in Labels /\ "legacy picker" \in Labels
      /\ "stage" \in Labels /\ "closed" \in Labels /\ "write" \in Labels
      /\ "save failed" \in Labels /\ "rename" \in Labels /\ "panicked" \in Labels
      /\ "end 0" \in Labels /\ "end 1" \in Labels /\ "exit 0" \in Labels
      /\ "exit 1" \in Labels /\ "exited" \in Labels
  BY DEF Labels, Opening, Choosing, Closing
<1>3. ASSUME NEW r \in Sessions, Logf(r)
      PROVE  DOMAIN last' = Sessions /\ UNCHANGED <<log, mu, report, clash>>
  BY <1>3 DEF Logf, Write
<1>4. ASSUME NEW r \in Sessions, Start(r) \/ Load(r)
      PROVE  Types'
  <2>1. CASE Start(r)
    <3>1. pc' \in [Sessions -> Labels]
      BY <1>1, <1>2, <2>1 DEF Start
    <3>2. log' \in [Sessions -> {"stderr", "open", "closed"}]
      BY <2>1 DEF Start
    <3>4. DOMAIN last' = Sessions
      BY <2>1 DEF Start
    <3>5. exit' \in [Sessions -> Codes]
      BY <2>1 DEF Start, Codes
    <3>3. UNCHANGED <<wpc, prefs, staging, mu, report, clash>>
      BY <2>1 DEF Start
    <3> QED
      BY <3>1, <3>2, <3>3, <3>4, <3>5
  <2>2. CASE Load(r)
    <3>1. pc' \in [Sessions -> Labels]
      BY <1>1, <1>2, <2>2 DEF Load
    <3> QED
      BY <2>2, <3>1 DEF Load
  <2> QED
    BY <1>4, <2>1, <2>2
<1>5. ASSUME NEW r \in Sessions, Read(r)
      PROVE  Types'
  <2>1. Parsed \in Documents
    BY DocumentFacts DEF Parsed
  <2>2. pc' \in [Sessions -> Labels]
    BY <1>1, <1>2, <1>5 DEF Read
  <2> QED
    BY <1>5, <2>1, <2>2 DEF Read
<1>6. ASSUME NEW r \in Sessions, CreateWindow(r) \/ OpenPicker(r)
      PROVE  Types'
  <2>1. pc' \in [Sessions -> Labels]
    BY <1>1, <1>2, <1>6 DEF CreateWindow, OpenPicker
  <2>2. DOMAIN last' = Sessions /\ UNCHANGED <<log, mu, report, clash>>
    BY <1>3, <1>6 DEF CreateWindow, OpenPicker
  <2> QED
    BY <1>6, <2>1, <2>2 DEF CreateWindow, OpenPicker
<1>7. ASSUME NEW r \in Sessions, NEW f \in Folders, NEW w \in Folders,
             Remember(r, f, w)
      PROVE  prefs' \in [Sessions -> Documents]
  BY <1>7 DEF Remember, Documents
<1>16. \A r \in Sessions : prefs[r].folder \in Folders /\ prefs[r].window \in Folders
  BY DEF Documents
<1>17. Sessions \subseteq Folders
  BY DEF Folders
<1>18. ASSUME NEW r \in Sessions, PickFolder(r)
       PROVE  Types'
  <2>1. prefs' \in [Sessions -> Documents]
    BY <1>7, <1>16, <1>17, <1>18 DEF PickFolder
  <2>2. pc' \in [Sessions -> Labels]
    BY <1>1, <1>2, <1>18 DEF PickFolder
  <2>3. DOMAIN last' = Sessions /\ UNCHANGED <<log, mu, report, clash>>
    BY <1>3, <1>18 DEF PickFolder
  <2> QED
    BY <1>18, <2>1, <2>2, <2>3 DEF PickFolder
<1>19. ASSUME NEW r \in Sessions, CloseWindow(r)
       PROVE  Types'
  <2>1. Placements(r) \subseteq Folders
    BY <1>17, SessionAssumption DEF Placements, SessionAssumption
  <2>2. prefs' \in [Sessions -> Documents]
    BY <1>7, <1>16, <1>19, <2>1 DEF CloseWindow
  <2>3. pc' \in [Sessions -> Labels]
    BY <1>1, <1>2, <1>19 DEF CloseWindow
  <2> QED
    BY <1>19, <2>2, <2>3 DEF CloseWindow
<1>20. ASSUME NEW r \in Sessions,
              CreateStaging(r) \/ WriteStaging(r) \/ RenameStaging(r)
       PROVE  Types'
  <2>1. pc' \in [Sessions -> Labels]
    BY <1>1, <1>2, <1>20 DEF CreateStaging, WriteStaging, RenameStaging, GiveUpSaving
  <2>2. DOMAIN staging' = Sessions
    BY <1>20
    DEF CreateStaging, WriteStaging, RenameStaging, GiveUpSaving, RemoveStaging, Stage
  <2> QED
    BY <1>20, <2>1, <2>2 DEF CreateStaging, WriteStaging, RenameStaging
<1>21. ASSUME NEW r \in Sessions, SaveFailed(r) \/ LogExit(r) \/ RunReturns(r)
       PROVE  Types'
  <2>1. pc' \in [Sessions -> Labels]
    BY <1>1, <1>2, <1>21 DEF SaveFailed, LogExit, RunReturns
  <2>2. DOMAIN last' = Sessions /\ UNCHANGED <<log, mu, report, clash>>
    BY <1>3, <1>21 DEF SaveFailed, LogExit, RunReturns
  <2> QED
    BY <1>21, <2>1, <2>2 DEF SaveFailed, LogExit, RunReturns
<1>22. ASSUME NEW r \in Sessions, CloseDiagnostics(r)
       PROVE  Types'
  <2>1. pc' \in [Sessions -> Labels]
    BY <1>1, <1>2, <1>22 DEF CloseDiagnostics
  <2>2. /\ DOMAIN last' = Sessions
        /\ log' \in [Sessions -> {"stderr", "open", "closed"}]
    BY <1>22 DEF CloseDiagnostics, Write, CloseFile
  <2> QED
    BY <1>22, <2>1, <2>2 DEF CloseDiagnostics
<1>8. ASSUME NEW S \in SUBSET Sessions, NEW code \in Codes, Die(S, code),
             UNCHANGED <<staging, log, last, report, clash>>
      PROVE  Types'
  <2>1. pc' \in [Sessions -> Labels]
    BY <1>2, <1>8 DEF Die
  <2>2. /\ wpc' \in [Sessions -> {"none", "running", "recovered", "repanics"}]
        /\ exit' \in [Sessions -> Codes]
        /\ mu' \in [Sessions -> Threads \cup {"free"}]
        /\ prefs' \in [Sessions -> Documents]
    BY <1>8, DocumentFacts DEF Die
  <2> QED
    BY <1>8, <2>1, <2>2
<1>9. ASSUME NEW r \in Sessions, Exit(r) \/ Repanic(r) \/ Kill(r)
      PROVE  Types'
  <2>1. PICK code \in {"0", "1", "2", "killed"} :
          Die({r}, code) /\ UNCHANGED <<staging, log, last, report, clash>>
    BY <1>9 DEF Exit, Repanic, Kill
  <2> QED
    BY <1>8, <2>1 DEF Codes
<1>10. CASE LosePower
  BY <1>8, <1>10 DEF LosePower, Codes
<1>11. ASSUME NEW r \in Sessions, StartWorker(r) \/ WorkerLogs(r) \/ WorkerRecovers(r)
       PROVE  Types'
  BY <1>11 DEF StartWorker, WorkerLogs, WorkerRecovers, Logf, Write
<1>12. ASSUME NEW r \in Sessions, NEW t \in Threads, NEW state \in Reports,
              Mark(r, t, state)
       PROVE  report' \in [Sessions -> [Threads -> Reports]]
  BY <1>12 DEF Mark
<1>13. ASSUME NEW r \in Sessions, WorkerPanics(r) \/ UIPanics(r)
       PROVE  Types'
  <2>1. report' \in [Sessions -> [Threads -> Reports]]
    BY <1>12, <1>13 DEF WorkerPanics, UIPanics, Pending, Threads, Reports
  <2>2. pc' \in [Sessions -> Labels]
    BY <1>1, <1>2, <1>13 DEF WorkerPanics, UIPanics
  <2>3. wpc' \in [Sessions -> {"none", "running", "recovered", "repanics"}]
    BY <1>13 DEF WorkerPanics, UIPanics
  <2> QED
    BY <1>13, <2>1, <2>2, <2>3 DEF WorkerPanics, UIPanics
<1>14. ASSUME NEW r \in Sessions, NEW t \in Threads,
              OpenReport(r, t) \/ WriteReport(r, t) \/ LogReport(r, t)
       PROVE  Types'
  <2>1. report' \in [Sessions -> [Threads -> Reports]]
    <3>1. {"partial", "whole", "failed"} \subseteq Reports
      BY DEF Reports
    <3>2. CASE OpenReport(r, t) /\ Mark(r, t, "partial")
      BY <1>12, <3>1, <3>2
    <3>3. CASE /\ OpenReport(r, t)
               /\ report' = [report EXCEPT ![r] = [u \in Threads |-> "partial"]]
      BY <3>1, <3>3
    <3>4. CASE WriteReport(r, t)
      BY <1>12, <3>1, <3>4 DEF WriteReport
    <3>5. CASE LogReport(r, t)
      BY <3>5 DEF LogReport
    <3> QED
      BY <1>14, <3>2, <3>3, <3>4, <3>5 DEF OpenReport
  <2>2. mu' \in [Sessions -> Threads \cup {"free"}]
    BY <1>14 DEF OpenReport, WriteReport, LogReport
  <2>4. clash' \in [Sessions -> BOOLEAN]
    <3>1. UNCHANGED clash \/ clash' = [clash EXCEPT ![r] = TRUE]
      BY <1>14 DEF OpenReport, WriteReport, LogReport
    <3> QED
      BY <3>1
  <2>5. DOMAIN last' = Sessions
    BY <1>14 DEF OpenReport, WriteReport, LogReport, Write
  <2>3. UNCHANGED <<pc, wpc, prefs, staging, log, exit>>
    BY <1>14 DEF OpenReport, WriteReport, LogReport
  <2> QED
    BY <2>1, <2>2, <2>3, <2>4, <2>5
<1>15. CASE Sync \/ UNCHANGED vars
  <2>1. UNCHANGED <<pc, wpc, prefs, staging, log, last, mu, report, clash, exit>>
    BY <1>15 DEF Sync, vars
  <2> QED
    BY <2>1
<1> QED
  BY <1>4, <1>5, <1>6, <1>9, <1>10, <1>11, <1>13, <1>14, <1>15, <1>18, <1>19, <1>20,
     <1>21, <1>22
  DEF Next, Main, User, Worker, Reporting

--------------------------------------------------------------------------------
(* What the helpers of the actions do to the session itself. *)
LEMMA AtSession ==
  ASSUME Types, NEW r \in Sessions
  PROVE  /\ \A label : Goto(r, label) => pc'[r] = label
         /\ \A f, w : Remember(r, f, w) => prefs'[r] = [folder |-> f, window |-> w]
         /\ \A value : Stage(r, value) => staging'[r] = value
         /\ \A line : Write(r, line)
              => last'[r] = IF log[r] = "open" THEN line ELSE last[r]
         /\ \A t \in Threads : \A state :
              Mark(r, t, state) => report'[r] = [report[r] EXCEPT ![t] = state]
<1>1. \A label : Goto(r, label) => pc'[r] = label
  BY DEF Goto, Types
<1>2. \A f, w : Remember(r, f, w) => prefs'[r] = [folder |-> f, window |-> w]
  BY DEF Remember, Types
<1>3. \A value : Stage(r, value) => staging'[r] = value
  BY DEF Stage, Types
<1>4. \A line : Write(r, line)
        => last'[r] = IF log[r] = "open" THEN line ELSE last[r]
  BY DEF Write, Types
<1>5. \A t \in Threads : \A state :
        Mark(r, t, state) => report'[r] = [report[r] EXCEPT ![t] = state]
  BY DEF Mark, Types
<1> QED
  BY <1>1, <1>2, <1>3, <1>4, <1>5

(* How a process may end. *)
MayEnd(s, code) ==
  /\ Alive(s) /\ code # "none"
  /\ code = "0" => staging[s] \in {Absent, Left}
  /\ code \in {"0", "1"} => log[s] = "closed" /\ last[s] = "session ended"
  /\ code \in {"1", "2"} => Told(s)

LEMMA DieStep ==
  ASSUME NEW S, NEW code, Die(S, code), NEW r \in Sessions, r \in S,
         UNCHANGED <<staging, saved, log, last, report, clash>>,
         MayEnd(r, code), SessionInv(r)
  PROVE  SessionInv(r)'
<1> USE DEF MayEnd, Told
<1>1. /\ pc'[r] = "exited" /\ wpc'[r] = "none" /\ exit'[r] = code /\ mu'[r] = "free"
      /\ prefs'[r] = DefaultPrefs
  BY DEF Die
<1>2. PrefsInv(r)'
  BY <1>1 DEF PrefsInv, Opening, Choosing, Closing
<1>3. LogInv(r)'
  BY <1>1 DEF LogInv
<1>4. PanicInv(r)'
  BY <1>1 DEF PanicInv, NoPanic, Opening, Alive, Ended
<1> QED
  BY <1>2, <1>3, <1>4 DEF SessionInv

LEMMA EndSteps ==
  ASSUME Types, NEW r \in Sessions, SessionInv(r), Exit(r) \/ Repanic(r) \/ Kill(r)
  PROVE  SessionInv(r)'
<1>1. ASSUME NEW code, Die({r}, code), MayEnd(r, code),
             UNCHANGED <<staging, saved, log, last, report, clash>>
      PROVE  SessionInv(r)'
  BY <1>1, DieStep, r \in {r}, Zenon
<1>2. CASE Kill(r)
  <2>1. MayEnd(r, "killed")
    BY <1>2 DEF Kill, MayEnd
  <2> QED
    BY <1>1, <1>2, <2>1 DEF Kill
<1>3. CASE Exit(r)
  <2>1. Alive(r) /\ log[r] = "closed" /\ last[r] = "session ended"
    BY <1>3 DEF Exit, Alive, Ended, SessionInv, LogInv
  <2>2. pc[r] = "exit 0" => MayEnd(r, "0")
    BY <2>1 DEF SessionInv, PrefsInv, Closing, MayEnd
  <2>3. pc[r] = "exit 1" => MayEnd(r, "1")
    BY <2>1 DEF SessionInv, PanicInv, Threads, MayEnd, Told
  <2> QED
    BY <1>1, <1>3, <2>2, <2>3 DEF Exit
<1>4. CASE Repanic(r)
  <2>1. Alive(r)
    BY <1>4 DEF Repanic, SessionInv, PanicInv, Alive, Ended
  <2>2. report[r]["worker"] \in {"partial", "whole", "failed"} /\ mu[r] # "worker"
    BY <1>4 DEF Repanic, Reported, Types, Reports, Threads
  <2>3. MayEnd(r, "2")
    BY <2>1, <2>2 DEF SessionInv, PanicInv, Threads, MayEnd, Told
  <2> QED
    BY <1>1, <1>4, <2>3 DEF Repanic
<1> QED
  BY <1>2, <1>3, <1>4

(* The preferences, step by step. *)
LEMMA ParsedIsSaved ==
  ASSUME TargetInv
  PROVE  Parsed \in saved \cup {DefaultPrefs}
BY DocumentFacts DEF TargetInv, Parsed

LEMMA PrefsStep ==
  ASSUME Types, TargetInv, NEW r \in Sessions, SessionInv(r),
         MainSteps(r) \/ OtherSteps(r), ~(Exit(r) \/ Repanic(r) \/ Kill(r))
  PROVE  PrefsInv(r)'
<1> USE DEF file, diag, memory, PrefsInv, Opening, Choosing, Closing
<1>1. PrefsInv(r)
  BY DEF SessionInv
<1>2. CASE Start(r)
  BY <1>1, <1>2, AtSession DEF Start, Types
<1>3. CASE Load(r)
  BY <1>1, <1>3, AtSession DEF Load
<1>4. CASE Read(r)
  <2>1. prefs'[r] \in saved \cup {DefaultPrefs}
    BY <1>1, <1>4, ParsedIsSaved DEF Read, Types
  <2>2. pc[r] = "read" /\ pc'[r] = "create"
    BY <1>4, AtSession DEF Read
  <2>3. UNCHANGED <<staging, saved, exit>>
    BY <1>4 DEF Read
  <2> QED
    BY <1>1, <2>1, <2>2, <2>3
<1>5. CASE CreateWindow(r) \/ OpenPicker(r)
  <2>1. UNCHANGED <<prefs, staging, saved, exit>>
    BY <1>5 DEF CreateWindow, OpenPicker
  <2>2. /\ pc[r] \in {"create", "window"}
        /\ pc'[r] \in {"window", "picker", "legacy picker", "end 1"}
    BY <1>5, AtSession DEF CreateWindow, OpenPicker
  <2> QED
    BY <1>1, <2>1, <2>2
<1>6. CASE PickFolder(r)
  <2>4. UNCHANGED prefs \/ Remember(r, r, prefs[r].window)
    BY <1>6 DEF PickFolder
  <2>1. prefs'[r] = prefs[r] \/ prefs'[r].folder = r
    BY <2>4 DEF Remember, Types
  <2>2. pc[r] \in {"picker", "legacy picker"} /\ pc'[r] \in {"window", "legacy picker"}
    BY <1>6, AtSession DEF PickFolder
  <2>3. UNCHANGED <<staging, saved, exit>>
    BY <1>6 DEF PickFolder
  <2> QED
    BY <1>1, <2>1, <2>2, <2>3
<1>7. CASE CloseWindow(r)
  <2>1. pc[r] = "window" /\ pc'[r] \in {"stage", "closed"}
    BY <1>7, AtSession DEF CloseWindow
  <2>2. UNCHANGED <<staging, saved, exit>>
    BY <1>7 DEF CloseWindow
  <2> QED
    BY <1>1, <2>1, <2>2
<1>8. CASE CreateStaging(r)
  <2>1. /\ pc[r] = "stage" /\ UNCHANGED <<prefs, exit>>
        /\ saved' = saved \cup {prefs[r]}
        /\ \/ pc'[r] = "write"
           \/ pc'[r] = "save failed" /\ UNCHANGED staging
    BY <1>8, AtSession DEF CreateStaging
  <2> QED
    BY <1>1, <2>1
<1>9. CASE WriteStaging(r)
  <2>1. /\ pc[r] = "write" /\ UNCHANGED <<prefs, saved, exit>>
        /\ \/ pc'[r] = "rename" /\ staging'[r] = prefs[r]
           \/ pc'[r] = "save failed" /\ staging'[r] \in {Absent, Left}
    BY <1>9, AtSession DEF WriteStaging, GiveUpSaving, RemoveStaging
  <2> QED
    BY <1>1, <2>1
<1>10. CASE RenameStaging(r)
  <2>1. /\ pc[r] = "rename" /\ UNCHANGED <<prefs, saved, exit>>
        /\ pc'[r] \in {"closed", "save failed"} /\ staging'[r] \in {Absent, Left}
    BY <1>10, AtSession DEF RenameStaging, GiveUpSaving, RemoveStaging
  <2> QED
    BY <1>1, <2>1
<1>11. CASE SaveFailed(r) \/ LogExit(r) \/ CloseDiagnostics(r) \/ RunReturns(r)
  <2>1. UNCHANGED <<prefs, staging, saved, exit>>
    BY <1>11 DEF SaveFailed, LogExit, CloseDiagnostics, RunReturns
  <2>2. \/ pc[r] = "save failed" /\ pc'[r] = "closed"
        \/ pc[r] = "closed" /\ pc'[r] = "end 0"
        \/ pc[r] = "end 0" /\ pc'[r] = "exit 0"
        \/ pc[r] = "end 1" /\ pc'[r] = "exit 1"
        \/ pc[r] = "panicked" /\ pc'[r] = "end 1"
    BY <1>11, AtSession DEF SaveFailed, LogExit, CloseDiagnostics, RunReturns
  <2> QED
    BY <1>1, <2>1, <2>2
<1>12. CASE UIPanics(r)
  <2>1. pc'[r] = "panicked" /\ pc[r] # "exited" /\ UNCHANGED <<prefs, staging, saved, exit>>
    BY <1>12, AtSession DEF UIPanics
  <2> QED
    BY <1>1, <2>1
<1>13. CASE StartWorker(r) \/ WorkerLogs(r) \/ WorkerPanics(r) \/ WorkerRecovers(r)
            \/ Reporting(r)
  <2>1. UNCHANGED <<pc, prefs, staging, saved, exit>>
    BY <1>13 DEF StartWorker, WorkerLogs, WorkerPanics, WorkerRecovers, Reporting,
                 OpenReport, WriteReport, LogReport
  <2> QED
    BY <1>1, <2>1
<1> QED
  BY <1>2, <1>3, <1>4, <1>5, <1>6, <1>7, <1>8, <1>9, <1>10, <1>11, <1>12, <1>13
  DEF MainSteps, OtherSteps, Main, User, Worker

(* The log, step by step. *)
LEMMA LogStep ==
  ASSUME Types, NEW r \in Sessions, SessionInv(r),
         MainSteps(r) \/ OtherSteps(r), ~(Exit(r) \/ Repanic(r) \/ Kill(r))
  PROVE  LogInv(r)'
<1> USE DEF LogInv
<1>1. LogInv(r) /\ (exit[r] # "none" => pc[r] = "exited")
  BY DEF SessionInv, PrefsInv
<1>2. ASSUME Logf(r)
      PROVE  UNCHANGED log /\ (log[r] = "closed" => last'[r] = last[r])
  BY <1>2, AtSession DEF Logf
<1>3. ASSUME UNCHANGED log, log[r] = "closed" => last'[r] = last[r],
             exit'[r] = exit[r],
             \/ UNCHANGED pc
             \/ /\ pc[r] \notin {"off", "exit 0", "exit 1", "exited"}
                /\ pc'[r] \notin {"off", "exit 0", "exit 1", "exited"}
      PROVE  LogInv(r)'
  BY <1>1, <1>3
<1>4. CASE Start(r)
  <2>1. \/ log'[r] = "open" /\ pc'[r] = "load" /\ exit'[r] = "none"
        \/ log'[r] = "stderr" /\ pc'[r] = "exited"
    BY <1>1, <1>4, AtSession DEF Start, Types
  <2> QED
    BY <2>1
<1>5. CASE Load(r) \/ Read(r) \/ CloseWindow(r) \/ UIPanics(r)
  <2>1. /\ pc[r] \notin {"off", "exit 0", "exit 1", "exited"}
        /\ pc'[r] \notin {"off", "exit 0", "exit 1", "exited"}
    BY <1>5, AtSession DEF Load, Read, CloseWindow, UIPanics
  <2>2. UNCHANGED <<log, last, exit>>
    BY <1>5 DEF Load, Read, CloseWindow, UIPanics, diag
  <2> QED
    BY <1>3, <2>1, <2>2
<1>6. CASE CreateStaging(r) \/ WriteStaging(r) \/ RenameStaging(r)
  <2>1. /\ pc[r] \notin {"off", "exit 0", "exit 1", "exited"}
        /\ pc'[r] \notin {"off", "exit 0", "exit 1", "exited"}
    BY <1>6, AtSession DEF CreateStaging, WriteStaging, RenameStaging, GiveUpSaving
  <2>2. UNCHANGED <<log, last, exit>>
    BY <1>6 DEF CreateStaging, WriteStaging, RenameStaging, diag
  <2> QED
    BY <1>3, <2>1, <2>2
<1>7. CASE CreateWindow(r) \/ OpenPicker(r) \/ PickFolder(r)
  <2>1. /\ pc[r] \notin {"off", "exit 0", "exit 1", "exited"}
        /\ pc'[r] \notin {"off", "exit 0", "exit 1", "exited"}
    BY <1>7, AtSession DEF CreateWindow, OpenPicker, PickFolder
  <2>2. exit' = exit /\ (Logf(r) \/ UNCHANGED <<log, last>>)
    BY <1>7 DEF CreateWindow, OpenPicker, PickFolder, diag
  <2> QED
    BY <1>2, <1>3, <2>1, <2>2
<1>8. CASE SaveFailed(r) \/ LogExit(r) \/ RunReturns(r)
  <2>1. /\ pc[r] \notin {"off", "exit 0", "exit 1", "exited"}
        /\ pc'[r] \notin {"off", "exit 0", "exit 1", "exited"}
    BY <1>8, AtSession DEF SaveFailed, LogExit, RunReturns
  <2>2. exit' = exit /\ Logf(r)
    BY <1>8 DEF SaveFailed, LogExit, RunReturns
  <2> QED
    BY <1>2, <1>3, <2>1, <2>2
<1>9. CASE CloseDiagnostics(r)
  <2>1. log[r] = "open"
    BY <1>1, <1>9 DEF CloseDiagnostics
  <2>2. log'[r] = "closed" /\ last'[r] = "session ended"
    BY <1>9, <2>1, AtSession DEF CloseDiagnostics, CloseFile, Types
  <2>3. pc'[r] \in {"exit 0", "exit 1"}
    BY <1>9, AtSession DEF CloseDiagnostics
  <2> QED
    BY <2>2, <2>3
<1>10. CASE StartWorker(r) \/ WorkerLogs(r) \/ WorkerPanics(r) \/ WorkerRecovers(r)
  <2>1. UNCHANGED <<pc, exit>> /\ (Logf(r) \/ UNCHANGED <<log, last>>)
    BY <1>10 DEF StartWorker, WorkerLogs, WorkerPanics, WorkerRecovers, diag
  <2> QED
    BY <1>2, <1>3, <2>1
<1>11. CASE \E t \in Threads : OpenReport(r, t) \/ WriteReport(r, t) \/ LogReport(r, t)
  <2>1. UNCHANGED <<pc, exit, log>> /\ (Write(r, "line") \/ UNCHANGED last)
    BY <1>11 DEF OpenReport, WriteReport, LogReport
  <2> QED
    BY <1>3, <2>1, AtSession
<1> QED
  BY <1>4, <1>5, <1>6, <1>7, <1>8, <1>9, <1>10, <1>11
  DEF MainSteps, OtherSteps, Main, User, Worker, Reporting

(* The reports, step by step. *)
LEMMA PanicStep ==
  ASSUME Types, NEW r \in Sessions, SessionInv(r),
         MainSteps(r) \/ OtherSteps(r), ~(Exit(r) \/ Repanic(r) \/ Kill(r))
  PROVE  PanicInv(r)'
<1> USE DEF PanicInv, Told, NoPanic, Alive, Ended, Opening
<1>1. PanicInv(r) /\ (exit[r] # "none" => pc[r] = "exited")
  BY DEF SessionInv, PrefsInv
<1>2. ASSUME UNCHANGED <<wpc, mu, report, clash>>, exit'[r] = exit[r],
             pc[r] \notin {"off", "exited", "end 1", "exit 1"},
             pc'[r] \notin {"off", "exited", "end 1", "exit 1"},
             pc'[r] \in Opening \cup {"create"} => pc[r] \in Opening \cup {"create"}
      PROVE  PanicInv(r)'
  BY <1>1, <1>2
<1>3. CASE Start(r)
  <2>1. pc[r] = "off" /\ pc'[r] \in {"load", "exited"} /\ UNCHANGED <<wpc, mu, report, clash>>
    BY <1>3, AtSession DEF Start
  <2> QED
    BY <1>1, <2>1
<1>4. CASE Load(r) \/ Read(r) \/ CloseWindow(r)
  <2>1. UNCHANGED <<wpc, mu, report, clash, exit>>
    BY <1>4 DEF Load, Read, CloseWindow, diag
  <2>2. \/ pc[r] = "load" /\ pc'[r] \in {"read", "create"}
        \/ pc[r] = "read" /\ pc'[r] = "create"
        \/ pc[r] = "window" /\ pc'[r] \in {"stage", "closed"}
    BY <1>4, AtSession DEF Load, Read, CloseWindow
  <2> QED
    BY <1>2, <2>1, <2>2
<1>5. CASE OpenPicker(r) \/ PickFolder(r)
  <2>1. UNCHANGED <<wpc, mu, report, clash, exit>>
    BY <1>5 DEF OpenPicker, PickFolder, Logf, diag
  <2>2. /\ pc[r] \in {"window", "picker", "legacy picker"}
        /\ pc'[r] \in {"window", "picker", "legacy picker"}
    BY <1>5, AtSession DEF OpenPicker, PickFolder
  <2> QED
    BY <1>2, <2>1, <2>2
<1>6. CASE CreateWindow(r)
  <2>1. UNCHANGED <<wpc, mu, report, clash, exit>>
    BY <1>6 DEF CreateWindow, Logf, diag
  <2>2. pc[r] = "create" /\ pc'[r] \in {"window", "end 1"}
    BY <1>6, AtSession DEF CreateWindow
  <2> QED
    BY <1>1, <2>1, <2>2
<1>7. CASE CreateStaging(r) \/ WriteStaging(r) \/ RenameStaging(r)
  <2>1. UNCHANGED <<wpc, mu, report, clash, exit>>
    BY <1>7 DEF CreateStaging, WriteStaging, RenameStaging, diag
  <2>2. /\ pc[r] \in {"stage", "write", "rename"}
        /\ pc'[r] \in {"write", "rename", "closed", "save failed"}
    BY <1>7, AtSession DEF CreateStaging, WriteStaging, RenameStaging, GiveUpSaving
  <2> QED
    BY <1>2, <2>1, <2>2
<1>8. CASE SaveFailed(r) \/ LogExit(r)
  <2>1. UNCHANGED <<wpc, mu, report, clash, exit>>
    BY <1>8 DEF SaveFailed, LogExit, Logf
  <2>2. pc[r] \in {"save failed", "closed"} /\ pc'[r] \in {"closed", "end 0"}
    BY <1>8, AtSession DEF SaveFailed, LogExit
  <2> QED
    BY <1>2, <2>1, <2>2
<1>9. CASE CloseDiagnostics(r)
  <2>1. UNCHANGED <<wpc, mu, report, clash, exit>>
    BY <1>9 DEF CloseDiagnostics
  <2>2. \/ pc[r] = "end 0" /\ pc'[r] = "exit 0"
        \/ pc[r] = "end 1" /\ pc'[r] = "exit 1"
    BY <1>9, AtSession DEF CloseDiagnostics
  <2> QED
    BY <1>1, <2>1, <2>2
<1>10. CASE RunReturns(r)
  <2>1. UNCHANGED <<wpc, mu, report, clash, exit>>
    BY <1>10 DEF RunReturns, Logf
  <2>2. pc[r] = "panicked" /\ pc'[r] = "end 1"
    BY <1>10, AtSession DEF RunReturns
  <2>5. "main" \in Threads /\ report[r]["main"] \in Reports
    BY DEF Types, Threads
  <2>3. mu[r] # "main" /\ report[r]["main"] \in {"partial", "whole", "failed"}
    BY <1>10, <2>5 DEF RunReturns, Reported, Reports
  <2>4. clash[r] \/ report[r]["main"] \in {"whole", "failed"}
    BY <1>1, <2>2, <2>3 DEF Threads
  <2> QED
    BY <1>1, <2>1, <2>2, <2>4
<1>11. CASE UIPanics(r)
  <2>1. UNCHANGED <<wpc, mu, clash, exit>>
    BY <1>11 DEF UIPanics
  <2>2. pc[r] \in {"window", "write", "closed"} /\ pc'[r] = "panicked"
    BY <1>11, AtSession DEF UIPanics
  <2>3. report'[r] = [report[r] EXCEPT !["main"] = "pending"]
    BY <1>11, AtSession DEF UIPanics, Pending, Threads
  <2>4. \A t \in Threads : report'[r][t] = "partial" => report[r][t] = "partial"
    BY <2>3 DEF Types, Threads
  <2> QED
    BY <1>1, <2>1, <2>2, <2>4
<1>12. CASE StartWorker(r) \/ WorkerLogs(r) \/ WorkerRecovers(r)
  <2>1. UNCHANGED <<pc, mu, report, clash, exit>>
    BY <1>12 DEF StartWorker, WorkerLogs, WorkerRecovers, Logf, diag
  <2>2. pc[r] = "window" \/ wpc[r] # "none"
    BY <1>12 DEF StartWorker, WorkerLogs, WorkerRecovers
  <2> QED
    BY <1>1, <2>1, <2>2
<1>13. CASE WorkerPanics(r)
  <2>1. wpc[r] = "running" /\ UNCHANGED <<pc, mu, clash, exit>>
    BY <1>13 DEF WorkerPanics
  <2>2. report'[r] = [report[r] EXCEPT !["worker"] = "pending"]
    BY <1>13, AtSession DEF WorkerPanics, Pending, Threads
  <2>3. /\ report'[r]["main"] = report[r]["main"]
        /\ \A t \in Threads : report'[r][t] = "partial" => report[r][t] = "partial"
    BY <2>2 DEF Types, Threads
  <2> QED
    BY <1>1, <2>1, <2>3
<1>14. ASSUME NEW t \in Threads, OpenReport(r, t)
       PROVE  PanicInv(r)'
  <2>1. /\ Alive(r) /\ report[r][t] = "pending" /\ mu[r] = "free" /\ mu'[r] = t
        /\ UNCHANGED <<pc, wpc, exit>>
    BY <1>14 DEF OpenReport, Types
  <2>2. CASE Mark(r, t, "partial") /\ UNCHANGED clash
    <3>3. report'[r] = [report[r] EXCEPT ![t] = "partial"]
      BY <2>2 DEF Mark, Types
    <3>1. \A u \in Threads :
            report'[r][u] = IF u = t THEN "partial" ELSE report[r][u]
      BY <3>3 DEF Types
    <3>4. "free" \notin Threads
      BY DEF Threads
    <3>2. /\ "main" \in Threads
          /\ report[r]["main"] \in {"whole", "failed"}
               => report'[r]["main"] \in {"whole", "failed"}
      BY <2>1, <3>1 DEF Threads
    <3> QED
      BY <1>1, <2>1, <2>2, <3>1, <3>2, <3>4
  <2>3. CASE clash' = [clash EXCEPT ![r] = TRUE]
    <3>1. clash'[r] = TRUE
      BY <2>3 DEF Types
    <3> QED
      BY <1>1, <2>1, <3>1
  <2> QED
    BY <1>14, <2>2, <2>3 DEF OpenReport
<1>15. ASSUME NEW t \in Threads, WriteReport(r, t)
       PROVE  PanicInv(r)'
  <2>1. /\ mu[r] = t /\ report[r][t] = "partial" /\ UNCHANGED <<pc, wpc, mu, clash, exit>>
    BY <1>15 DEF WriteReport
  <2>2. PICK state \in {"whole", "failed"} : Mark(r, t, state)
    BY <1>15 DEF WriteReport
  <2>5. report'[r] = [report[r] EXCEPT ![t] = state]
    BY <2>2 DEF Mark, Types
  <2>3. \A u \in Threads : report'[r][u] = IF u = t THEN state ELSE report[r][u]
    BY <2>5 DEF Types
  <2>4. "main" \in Threads /\ t # "free"
    BY DEF Threads
  <2> QED
    BY <1>1, <2>1, <2>3, <2>4
<1>16. ASSUME NEW t \in Threads, LogReport(r, t)
       PROVE  PanicInv(r)'
  <2>1. /\ mu[r] = t /\ report[r][t] \in {"whole", "failed"} /\ mu'[r] = "free"
        /\ UNCHANGED <<pc, wpc, report, clash, exit>>
    BY <1>16 DEF LogReport, Types
  <2> QED
    BY <1>1, <2>1
<1> QED
  BY <1>3, <1>4, <1>5, <1>6, <1>7, <1>8, <1>9, <1>10, <1>11, <1>12, <1>13, <1>14, <1>15,
     <1>16
  DEF MainSteps, OtherSteps, Main, User, Worker, Reporting

--------------------------------------------------------------------------------
LEMMA InitIInv == Init => IInv
<1> SUFFICES ASSUME Init PROVE IInv
  OBVIOUS
<1>1. Types
  BY DocumentFacts
  DEF Init, Types, Labels, Opening, Threads, Reports, Codes
<1>2. TargetInv
  BY DEF Init, TargetInv
<1>3. ASSUME NEW s \in Sessions PROVE SessionInv(s)
  <2>1. /\ pc[s] = "off" /\ wpc[s] = "none" /\ prefs[s] = DefaultPrefs
        /\ staging[s] = Absent /\ log[s] = "stderr" /\ mu[s] = "free"
        /\ exit[s] = "none" /\ \A t \in Threads : report[s][t] = "none"
    BY DEF Init
  <2>2. PrefsInv(s)
    BY <2>1 DEF PrefsInv, Choosing
  <2>3. LogInv(s)
    BY <2>1 DEF LogInv
  <2>4. PanicInv(s)
    BY <2>1 DEF PanicInv, NoPanic, Told, Alive, Ended
  <2> QED
    BY <2>2, <2>3, <2>4 DEF SessionInv
<1> QED
  BY <1>1, <1>2, <1>3 DEF IInv

(* A step of a session: what it publishes, and what it gives to Save. *)
LEMMA TargetStep ==
  ASSUME Types, TargetInv, NEW r \in Sessions, SessionInv(r),
         MainSteps(r) \/ OtherSteps(r)
  PROVE  saved \subseteq saved' /\ TargetInv'
<1> USE DEF file, diag, memory
<1>1. CASE CreateStaging(r)
  <2>1. /\ saved' = saved \cup {prefs[r]} /\ UNCHANGED <<target, powerLost>>
        /\ prefs[r] \in Documents
    BY <1>1 DEF CreateStaging, Types
  <2> QED
    BY <2>1 DEF TargetInv
<1>2. CASE RenameStaging(r)
  <2>1. target' \in {target, staging[r]} /\ UNCHANGED <<saved, powerLost>>
    BY <1>2 DEF RenameStaging
  <2>2. staging[r] \in saved
    BY <1>2 DEF RenameStaging, SessionInv, PrefsInv
  <2> QED
    BY <2>1, <2>2 DEF TargetInv
<1>3. CASE UNCHANGED <<target, saved, powerLost>>
  BY <1>3 DEF TargetInv
<1>4. CASE Start(r) \/ Load(r) \/ Read(r) \/ CreateWindow(r) \/ WriteStaging(r)
           \/ SaveFailed(r)
  BY <1>3, <1>4 DEF Start, Load, Read, CreateWindow, WriteStaging, SaveFailed
<1>5. CASE LogExit(r) \/ CloseDiagnostics(r) \/ Exit(r) \/ RunReturns(r) \/ User(r)
  BY <1>3, <1>5
  DEF LogExit, CloseDiagnostics, Exit, RunReturns, User, OpenPicker, PickFolder,
      CloseWindow
<1>6. CASE OtherSteps(r)
  BY <1>3, <1>6
  DEF OtherSteps, Worker, StartWorker, WorkerLogs, WorkerPanics, WorkerRecovers, Repanic,
      Reporting, OpenReport, WriteReport, LogReport, UIPanics, Kill
<1> QED
  BY <1>1, <1>2, <1>4, <1>5, <1>6 DEF MainSteps, Main

LEMMA Invariance == Spec => []IInv
<1>1. ASSUME IInv, [Next]_vars PROVE IInv'
  <2> USE <1>1 DEF IInv
  <2>1. Types'
    BY <1>1, TypesStep
  <2>2. ASSUME NEW r \in Sessions, MainSteps(r) \/ OtherSteps(r)
        PROVE  TargetInv' /\ \A s \in Sessions : SessionInv(s)'
    <3>1. saved \subseteq saved' /\ TargetInv'
      BY <2>2, TargetStep
    <3>2. SessionInv(r)'
      <4>1. CASE Exit(r) \/ Repanic(r) \/ Kill(r)
        BY <4>1, EndSteps
      <4>2. CASE ~(Exit(r) \/ Repanic(r) \/ Kill(r))
        BY <2>2, <4>2, PrefsStep, LogStep, PanicStep DEF SessionInv
      <4> QED
        BY <4>1, <4>2
    <3>3. ASSUME NEW s \in Sessions \ {r} PROVE SessionInv(s)'
      BY <2>2, <3>1, OthersStay, SameSession
    <3> QED
      BY <3>1, <3>2, <3>3
  <2>3. CASE Sync \/ UNCHANGED vars
    <3>1. UNCHANGED <<pc, wpc, prefs, target, staging, saved, powerLost, log, last, mu,
                      report, clash, exit>>
      BY <2>3 DEF Sync, vars, memory, diag
    <3>2. TargetInv'
      BY <3>1 DEF TargetInv
    <3>3. ASSUME NEW s \in Sessions PROVE SessionInv(s)'
      BY <3>1, SameSession
    <3> QED
      BY <2>1, <3>2, <3>3
  <2>4. CASE LosePower
    <3> DEFINE S == {s \in Sessions : Alive(s)}
    <3>1. /\ Die(S, "killed")
          /\ UNCHANGED <<staging, saved, log, last, report, clash>>
      BY <2>4 DEF LosePower
    <3>2. TargetInv'
      BY <2>4 DEF LosePower, TargetInv
    <3>3. ASSUME NEW s \in S PROVE SessionInv(s)'
      <4>1. MayEnd(s, "killed")
        BY DEF MayEnd
      <4> QED
        BY <3>1, <4>1, DieStep, Zenon
    <3>4. ASSUME NEW s \in Sessions \ S PROVE SessionInv(s)'
      <4>1. /\ pc'[s] = pc[s] /\ wpc'[s] = wpc[s] /\ exit'[s] = exit[s]
            /\ mu'[s] = mu[s] /\ prefs'[s] = prefs[s]
        BY <3>1 DEF Die
      <4> QED
        BY <3>1, <4>1, SameSession
    <3> QED
      BY <2>1, <3>2, <3>3, <3>4
  <2> QED
    BY <1>1, <2>1, <2>2, <2>3, <2>4 DEF Next, MainSteps, OtherSteps
<1> QED
  BY <1>1, InitIInv, PTL DEF Spec

--------------------------------------------------------------------------------
(* However sessions overlap, fail or die, the preference file is absent or a *)
(* whole document that some session saved, unless the power was lost, and a  *)
(* staging file outlives a session that ended without an error only if its   *)
(* removal failed (Save).                                                    *)
THEOREM PreferencesStayWhole == Spec => []PreferencesAreWhole
<1>1. IInv => PreferencesAreWhole
  BY DEF IInv, TargetInv, SessionInv, PrefsInv, Choosing, PreferencesAreWhole
<1> QED
  BY <1>1, Invariance, PTL

(* A process that a panic ended has left its report, or failed to write it   *)
(* (WriteCrashReport, Recover, PanicToError).                                *)
THEOREM PanicsAreReported == Spec => []PanicsLeaveReports
<1>1. IInv => PanicsLeaveReports
  BY DEF IInv, SessionInv, PanicInv, Told, NoPanic, PanicsLeaveReports
<1> QED
  BY <1>1, Invariance, PTL

(* The log of a session that ended by itself ends with that (Close, Logf).   *)
THEOREM LogsTellTheEnd == Spec => []LogTellsTheEnd
<1>1. IInv => LogTellsTheEnd
  BY DEF IInv, SessionInv, LogInv, LogTellsTheEnd
<1> QED
  BY <1>1, Invariance, PTL

--------------------------------------------------------------------------------
(* The preview pane of a session (Preview).                                 *)
Tokens == [generation : Nat, modelRevision : Nat, folderRevision : Nat]
Screens == [selected : Selections \cup {NoSelection}, rows : Nat]
Requests == [token : Tokens, screen : Screens]
Results == [token : Tokens, screen : Screens,
            err : {"none", "failed", "canceled"}, dir : Nat]
Rendering == {"render", "deliver", "post"}

PaneTypes ==
  /\ folderRevision \in Nat /\ screen \in Screens
  /\ nextGeneration \in Nat /\ modelRevision \in Nat
  /\ active \in Tokens /\ hasActive \in BOOLEAN
  /\ ui \in [step : {"idle", "drain", "send"}, request : Requests]
  /\ pending \in Seq(Requests)
  /\ worker \in [step : {"idle", "stopped", "prepare"} \cup Rendering,
                 request : Requests, result : Results]
  /\ posted \in Seq(Results)

Items(s) == {s[i] : i \in DOMAIN s}

(* Generations are given out in order, and a request of the active token is *)
(* one for the screen.                                                      *)
Fits(token, on) ==
  /\ token.generation <= nextGeneration
  /\ hasActive /\ token = active => on = screen

TokenInv ==
  /\ \A r \in Items(pending) \cup Items(posted) \cup {worker.request, worker.result} :
       Fits(r.token, r.screen)
  /\ \A r \in Items(pending) : r.token.generation # 0
  /\ ui.step # "idle" =>
       ui.request.token.generation # 0 /\ Fits(ui.request.token, ui.request.screen)
  /\ worker.step \in {"prepare"} \cup Rendering =>
       /\ worker.request.token.generation # 0
       /\ worker.result.screen = worker.request.screen

(* Only the answer to a comparison has a page, and a failed one has none.   *)
HasPage(result) ==
  result.dir # 0 => result.err = "none" /\ result.screen.selected \in Comparisons

(* The pages the worker answers for.                                        *)
WorkerPages ==
  IF worker.step = "render" /\ IsComparison(worker.request)
    THEN {worker.request.token.generation}
    ELSE IF worker.step \in {"deliver", "post"} THEN {worker.result.dir} ELSE {}

PageInv ==
  /\ \A r \in Items(posted) \cup {worker.result} : HasPage(r)
  /\ worker.step \in {"prepare", "render"} => worker.result.dir = 0
  /\ worker.step \in {"deliver", "post"} =>
       worker.result.dir \in {0, worker.request.token.generation}
  /\ 0 \notin disk
  /\ ~uiClosing =>
       disk \subseteq {current} \cup {r.dir : r \in Items(posted)} \cup WorkerPages

PaneInv == PaneTypes /\ TokenInv /\ PageInv

--------------------------------------------------------------------------------
(* Queues *)
LEMMA EmptyItems == Items(<<>>) = {}
BY DEF Items

LEMMA AppendItems ==
  ASSUME NEW S, NEW s \in Seq(S), NEW x \in S
  PROVE  Append(s, x) \in Seq(S) /\ Items(Append(s, x)) = Items(s) \cup {x}
<1>1. Append(s, x) \in Seq(S) /\ Len(Append(s, x)) = Len(s) + 1
  OBVIOUS
<1>2. /\ \A i \in 1..Len(s) : Append(s, x)[i] = s[i]
      /\ Append(s, x)[Len(s) + 1] = x
  OBVIOUS
<1>3. /\ DOMAIN s = 1..Len(s) /\ Len(s) \in Nat
      /\ DOMAIN Append(s, x) = 1..(Len(s) + 1)
  BY <1>1
<1>4. \A i : i \in 1..(Len(s) + 1) <=> i \in 1..Len(s) \/ i = Len(s) + 1
  BY <1>3
<1> QED BY <1>1, <1>2, <1>3, <1>4 DEF Items

LEMMA TakenItems ==
  ASSUME NEW S, NEW s \in Seq(S), s # <<>>
  PROVE  /\ Head(s) \in Items(s) /\ Head(s) \in S /\ Tail(s) \in Seq(S)
         /\ Items(Tail(s)) \subseteq Items(s)
         /\ Items(s) \subseteq Items(Tail(s)) \cup {Head(s)}
<1>1. /\ Len(s) \in Nat \ {0} /\ DOMAIN s = 1..Len(s) /\ Head(s) = s[1]
      /\ Tail(s) \in Seq(S) /\ Len(Tail(s)) = Len(s) - 1
      /\ DOMAIN Tail(s) = 1..(Len(s) - 1)
      /\ \A i \in 1..(Len(s) - 1) : Tail(s)[i] = s[i + 1]
  OBVIOUS
<1>2. Head(s) \in Items(s) /\ Head(s) \in S
  BY <1>1 DEF Items
<1>3. Items(Tail(s)) \subseteq Items(s)
  BY <1>1 DEF Items
<1>4. ASSUME NEW i \in 1..Len(s), i # 1
      PROVE  s[i] \in Items(Tail(s))
  <2>1. i - 1 \in 1..(Len(s) - 1) /\ Tail(s)[i - 1] = s[i]
    BY <1>1, <1>4
  <2> QED BY <1>1, <2>1 DEF Items
<1>5. Items(s) \subseteq Items(Tail(s)) \cup {Head(s)}
  BY <1>1, <1>4 DEF Items
<1> QED BY <1>1, <1>2, <1>3, <1>5

(* The queue and the posted results hold what their types say.              *)
LEMMA ItemsAreTyped ==
  ASSUME NEW S, NEW s \in Seq(S)
  PROVE  Items(s) \subseteq S
BY DEF Items

(* The window opens with nothing asked for and no page.                     *)
LEMMA InitPaneInv == PaneInit => PaneInv
<1> SUFFICES ASSUME PaneInit PROVE PaneInv
  OBVIOUS
<1> USE DEF PaneInit, NoRequest, NoToken, NoResult
<1>1. PaneTypes
  <2>1. NoToken \in Tokens /\ NoRequest.screen \in Screens
    BY DEF Tokens, Screens
  <2>2. NoRequest \in Requests /\ NoResult \in Results
    BY <2>1 DEF Requests, Results
  <2>3. ui \in [step : {"idle", "drain", "send"}, request : Requests]
    BY <2>2
  <2>4. worker \in [step : {"idle", "stopped", "prepare"} \cup Rendering,
                   request : Requests, result : Results]
    BY <2>2
  <2>5. pending \in Seq(Requests) /\ posted \in Seq(Results)
    OBVIOUS
  <2> QED BY <2>1, <2>3, <2>4, <2>5 DEF PaneTypes
<1>2. Items(pending) = {} /\ Items(posted) = {}
  BY EmptyItems
<1>3. TokenInv
  BY <1>2 DEF TokenInv, Fits, Rendering
<1>4. PageInv
  BY <1>2 DEF PageInv, HasPage
<1> QED BY <1>1, <1>3, <1>4 DEF PaneInv

--------------------------------------------------------------------------------
(* Steps *)
UserSteps ==
  \/ \E s \in Selections \cup {NoSelection} : Select(s)
  \/ PublishRows \/ LeaveReview \/ SelectFolder \/ EnterReview
  \/ BeginExport \/ EndExport \/ HandleWindowClosing

(* What the user does to the preview: nothing, an invalidation, or one and  *)
(* a request of a new generation for the new screen.                        *)
Untouched == UNCHANGED <<nextGeneration, modelRevision, active, hasActive, screen,
                         ui, pending, disk, current>>
Invalidated == InvalidatePreview /\ UNCHANGED <<ui, pending>>
Requested == RequestPreview(screen') /\ ui.step = "idle"

UserEffect ==
  /\ Untouched \/ Invalidated \/ Requested
  /\ screen' \in Screens /\ folderRevision' \in Nat
  /\ UNCHANGED <<worker, posted>>
  /\ uiClosing => uiClosing'
  /\ pane' # pane => pane'.kind \in {"message", "preparing"}

(* There is nothing else a step of the user does.                           *)
LEMMA UserEffects ==
  ASSUME PaneTypes, UserSteps
  PROVE  UserEffect
<1> USE DEF tokenVars, screenVars, asyncVars, shownVars, PaneTypes,
      UserEffect, Show
<1>1. ASSUME NEW s \in Selections \cup {NoSelection}, Select(s)
      PROVE  UserEffect
  <2>1. screen' \in Screens
    <3>1. screen' = [screen EXCEPT !.selected = s]
      BY <1>1 DEF Select
    <3> QED BY <3>1 DEF Screens
  <2>2. CASE s = NoSelection
    BY <1>1, <2>1, <2>2 DEF Select, Invalidated
  <2>3. CASE s # NoSelection
    BY <1>1, <2>1, <2>3 DEF Select, UiIdle, Requested, RequestPreview
  <2> QED BY <2>2, <2>3
<1>2. CASE PublishRows
  <2>1. screen' \in Screens
    BY <1>2 DEF PublishRows, Screens
  <2> QED BY <1>2, <2>1 DEF PublishRows, Invalidated
<1>3. ASSUME NEW p, NEW revision \in Nat, ChangePhase(p, revision)
      PROVE  UserEffect
  <2>1. screen' \in Screens
    BY <1>3 DEF ChangePhase, Screens
  <2> QED BY <1>3, <2>1 DEF ChangePhase, Invalidated
<1>4. CASE LeaveReview \/ SelectFolder \/ EnterReview
  BY <1>3, <1>4 DEF LeaveReview, SelectFolder, EnterReview
<1>5. CASE BeginExport \/ EndExport
  BY <1>5 DEF BeginExport, EndExport, Untouched
<1>6. CASE HandleWindowClosing
  BY <1>6 DEF HandleWindowClosing, StopPreviewWorker, Untouched, Invalidated
<1> QED BY <1>1, <1>2, <1>4, <1>5, <1>6 DEF UserSteps

(* A request for the new screen goes into the queue, now or after draining. *)
Submits(r) ==
  /\ r.token = active' /\ r.screen = screen'
  /\ \/ pending = <<>> /\ pending' = Append(pending, r) /\ ui' = ui
     \/ pending' = pending /\ ui' = [step |-> "drain", request |-> r]

(* A request has a generation of its own and comes with the new screen.     *)
LEMMA Submitted ==
  ASSUME PaneTypes, UserEffect, Requested
  PROVE  /\ nextGeneration' = nextGeneration + 2 /\ modelRevision' = modelRevision + 1
         /\ active' \in Tokens /\ active'.generation = nextGeneration'
         /\ hasActive' = TRUE
         /\ disk' = disk \ {current} /\ current' = 0
         /\ \E r \in Requests : Submits(r)
<1> DEFINE token == [generation |-> nextGeneration + 2,
                     modelRevision |-> modelRevision + 1,
                     folderRevision |-> folderRevision]
           request == [token |-> token, screen |-> screen']
<1>1. /\ nextGeneration' = token.generation /\ modelRevision' = token.modelRevision
      /\ active' = token /\ hasActive' = TRUE
      /\ disk' = disk \ {current} /\ current' = 0
      /\ TrySend(request)
  BY DEF Requested, RequestPreview, ClearArtifact
<1>2. token \in Tokens
  BY DEF PaneTypes, Tokens
<1>3. request \in Requests
  BY <1>2 DEF UserEffect, Requests
<1>4. request.token = active' /\ request.screen = screen'
  BY <1>1
<1>5. Submits(request)
  <2> HIDE DEF request, token
  <2> QED BY <1>1, <1>4 DEF TrySend, Room, Submits
<1> QED BY <1>1, <1>2, <1>3, <1>5

(* An invalidation leaves no active token and removes the page shown.       *)
LEMMA InvalidatedTokens ==
  ASSUME PaneTypes, Invalidated
  PROVE  /\ nextGeneration' = nextGeneration + 1 /\ modelRevision' = modelRevision + 1
         /\ active' \in Tokens /\ hasActive' = FALSE
         /\ disk' = disk \ {current} /\ current' = 0 /\ UNCHANGED <<ui, pending>>
BY DEF Invalidated, InvalidatePreview, Invalidate, ClearArtifact, NoToken,
   Tokens

(* A step of the user keeps the invariant. *)
LEMMA UserPaneInv ==
  ASSUME PaneInv, UserSteps
  PROVE  PaneInv'
<1>0. PaneTypes /\ TokenInv /\ PageInv /\ UserEffect
  BY UserEffects DEF PaneInv
<1>1. CASE Untouched
  BY <1>0, <1>1 DEF PaneInv, PaneTypes, TokenInv, PageInv, Untouched, UserEffect, Items, Fits,
     HasPage, WorkerPages, IsComparison
<1>2. ASSUME Invalidated \/ Requested
      PROVE  \A token \in Tokens : \A on : Fits(token, on) => Fits(token, on)'
  <2>1. /\ nextGeneration \in Nat /\ nextGeneration' \in Nat
        /\ nextGeneration < nextGeneration'
        /\ hasActive' => active'.generation = nextGeneration'
    <3>1. nextGeneration \in Nat
      BY <1>0 DEF PaneTypes
    <3>2. CASE Invalidated
      BY <1>0, <3>1, <3>2, InvalidatedTokens
    <3>3. CASE Requested
      BY <1>0, <3>1, <3>3, Submitted
    <3> QED BY <1>2, <3>1, <3>2, <3>3
  <2>2. \A token \in Tokens : token.generation \in Nat
    BY DEF Tokens
  <2> QED BY <2>1, <2>2 DEF Fits
<1>3. ASSUME Invalidated \/ Requested PROVE PageInv'
  <2>1. disk' = disk \ {current} /\ UNCHANGED <<worker, posted>> /\ (uiClosing => uiClosing')
    BY <1>0, <1>3, InvalidatedTokens, Submitted DEF UserEffect
  <2>2. WorkerPages' = WorkerPages /\ Items(posted)' = Items(posted)
    BY <2>1 DEF WorkerPages, IsComparison, Items
  <2> QED BY <1>0, <2>1, <2>2 DEF PageInv, HasPage
<1>4. Items(pending) \subseteq Requests /\ Items(posted) \subseteq Results
      /\ Items(posted)' = Items(posted)
  BY <1>0, ItemsAreTyped DEF PaneTypes, UserEffect, Items
<1>5. CASE Invalidated
  <2>1. PaneTypes'
    <3>1. /\ nextGeneration' \in Nat /\ modelRevision' \in Nat
          /\ active' \in Tokens /\ hasActive' \in BOOLEAN
          /\ UNCHANGED <<ui, pending>>
      <4>1. nextGeneration \in Nat /\ modelRevision \in Nat
        BY <1>0 DEF PaneTypes
      <4> QED BY <1>0, <1>5, <4>1, InvalidatedTokens
    <3> QED BY <1>0, <3>1 DEF PaneTypes, UserEffect
  <2>2. Items(pending)' = Items(pending)
    BY <1>0, <1>5, InvalidatedTokens DEF Items
  <2>3. UNCHANGED <<ui, worker>>
    BY <1>0, <1>5, InvalidatedTokens DEF UserEffect
  <2>4. TokenInv'
    BY <1>0, <1>2, <1>4, <1>5, <2>2, <2>3 DEF TokenInv, PaneTypes, Requests, Results
  <2> QED BY <1>3, <1>5, <2>1, <2>4 DEF PaneInv
<1>6. CASE Requested
  <2>1. PICK r \in Requests : Submits(r)
    BY <1>0, <1>6, Submitted
  <2>2. Fits(r.token, r.screen)' /\ r.token.generation # 0
    <3>1. nextGeneration \in Nat
      BY <1>0 DEF PaneTypes
    <3>2. /\ nextGeneration' = nextGeneration + 2
          /\ active'.generation = nextGeneration'
      BY <1>0, <1>6, Submitted
    <3> QED BY <2>1, <3>1, <3>2 DEF Fits, Submits
  <2>3. /\ pending' \in Seq(Requests)
        /\ \/ Items(pending)' = {r} /\ ui' = ui
           \/ Items(pending)' = Items(pending) /\ ui' = [step |-> "drain", request |-> r]
    <3>1. CASE pending = <<>> /\ pending' = Append(pending, r) /\ ui' = ui
      <4>1. /\ Append(pending, r) \in Seq(Requests)
            /\ Items(Append(pending, r)) = Items(pending) \cup {r}
        BY <1>0, AppendItems DEF PaneTypes
      <4>2. Items(pending) = {} /\ Items(pending)' = Items(Append(pending, r))
        BY <3>1, EmptyItems DEF Items
      <4> QED BY <3>1, <4>1, <4>2
    <3>2. CASE pending' = pending /\ ui' = [step |-> "drain", request |-> r]
      BY <1>0, <3>2 DEF Items, PaneTypes
    <3> QED BY <2>1, <3>1, <3>2 DEF Submits
  <2>4. worker' = worker /\ posted' = posted
    BY <1>0 DEF UserEffect
  <2>5. PaneTypes'
    <3>1. /\ nextGeneration' \in Nat /\ modelRevision' \in Nat
          /\ active' \in Tokens /\ hasActive' \in BOOLEAN
      <4>1. nextGeneration \in Nat /\ modelRevision \in Nat
        BY <1>0 DEF PaneTypes
      <4> QED BY <1>0, <1>6, <4>1, Submitted
    <3>2. ui' \in [step : {"idle", "drain", "send"}, request : Requests]
      BY <1>0, <2>1, <2>3 DEF PaneTypes
    <3> QED BY <1>0, <2>3, <2>4, <3>1, <3>2 DEF PaneTypes, UserEffect
  <2>6. TokenInv'
    BY <1>0, <1>2, <1>4, <1>6, <2>2, <2>3, <2>4 DEF TokenInv, PaneTypes, Requests, Results
  <2> QED BY <1>3, <1>6, <2>5, <2>6 DEF PaneInv
<1> QED BY <1>0, <1>1, <1>5, <1>6 DEF UserEffect

(* Draining the queue and sending again keep the invariant. *)
LEMMA SubmitPaneInv ==
  ASSUME PaneInv, Drain \/ SendAgain
  PROVE  PaneInv'
<1> USE DEF tokenVars, screenVars, asyncVars, shownVars
<1>1. PaneTypes /\ TokenInv /\ PageInv
  BY DEF PaneInv
<1>2. /\ UNCHANGED <<nextGeneration, modelRevision, active, hasActive, screen,
                     folderRevision, worker, posted, disk, current, uiClosing>>
  BY DEF Drain, SendAgain
<1>3. /\ ui' \in [step : {"idle", "drain", "send"}, request : Requests]
      /\ \/ ui'.request = ui.request /\ ui.step # "idle"
         \/ ui'.step = "idle"
  <2>1. CASE Drain
    BY <1>1, <2>1 DEF Drain, PaneTypes
  <2>2. CASE SendAgain
    <3>1. NoRequest \in Requests
      BY DEF NoRequest, NoToken, Requests, Tokens, Screens
    <3>2. ui' = [step |-> "idle", request |-> NoRequest]
      BY <2>2 DEF SendAgain
    <3> QED BY <3>1, <3>2
  <2> QED BY <2>1, <2>2
<1>4. /\ pending' \in Seq(Requests)
      /\ Items(pending)' \subseteq Items(pending) \cup (IF ui.step = "send" THEN {ui.request} ELSE {})
  <2>1. CASE Drain
    BY <2>1, EmptyItems DEF Drain, Items
  <2>2. CASE SendAgain
    <3>1. ui.request \in Requests /\ pending \in Seq(Requests) /\ ui.step = "send"
      BY <1>1, <2>2 DEF PaneTypes, SendAgain
    <3>2. pending' = Append(pending, ui.request) \/ pending' = pending
      BY <2>2 DEF SendAgain
    <3>3. /\ Append(pending, ui.request) \in Seq(Requests)
          /\ Items(Append(pending, ui.request)) = Items(pending) \cup {ui.request}
      BY <3>1, AppendItems
    <3> QED BY <3>1, <3>2, <3>3 DEF Items
  <2> QED BY <2>1, <2>2
<1>5. PaneTypes'
  BY <1>1, <1>2, <1>3, <1>4 DEF PaneTypes
<1>6. \A token, on : Fits(token, on)' = Fits(token, on)
  BY <1>2 DEF Fits
<1>7. Items(posted)' = Items(posted) /\ WorkerPages' = WorkerPages
  BY <1>2 DEF Items, WorkerPages, IsComparison
<1>8. TokenInv'
  BY <1>1, <1>2, <1>3, <1>4, <1>6, <1>7 DEF TokenInv
<1>9. PageInv'
  BY <1>1, <1>2, <1>7 DEF PageInv, HasPage
<1> QED BY <1>5, <1>8, <1>9 DEF PaneInv

(* What the worker does keeps the invariant: a page is its own from the     *)
(* moment the directory is made until the result is posted or cleaned up.   *)
LEMMA WorkerPaneInv ==
  ASSUME PaneInv, PreviewWorker
  PROVE  PaneInv'
<1> USE DEF tokenVars, screenVars, asyncVars, shownVars
<1>1. PaneTypes /\ TokenInv /\ PageInv
  BY DEF PaneInv
<1>2. UNCHANGED <<nextGeneration, modelRevision, active, hasActive, screen,
                  folderRevision, ui, current, uiClosing, pane>>
  BY DEF PreviewWorker, Stop, Receive, Prepare, Render, Drop,
     CommitToPost, Post
<1>3. \A token, on : Fits(token, on)' = Fits(token, on)
  BY <1>2 DEF Fits
<1>4. worker.request \in Requests /\ worker.result \in Results
  BY <1>1 DEF PaneTypes
<1> DEFINE WorkerStates == [step : {"idle", "stopped", "prepare"} \cup Rendering,
                            request : Requests, result : Results]
<1>5. CASE Stop \/ CommitToPost
  <2>1. /\ worker' = [worker EXCEPT !.step = worker'.step]
        /\ UNCHANGED <<pending, posted, disk>>
        /\ \/ worker.step = "idle" /\ worker'.step = "stopped"
           \/ worker.step = "deliver" /\ worker'.step = "post"
    BY <1>1, <1>5 DEF Stop, CommitToPost, PaneTypes
  <2>2. worker' \in WorkerStates /\ UNCHANGED <<worker.request, worker.result>>
    BY <1>1, <2>1 DEF PaneTypes, Rendering
  <2> QED BY <1>1, <1>2, <1>3, <2>1, <2>2 DEF PaneInv, PaneTypes, TokenInv, PageInv, Items,
        HasPage, WorkerPages, Rendering
<1>6. CASE Receive
  <2> DEFINE r == Head(pending)
             answer == [NoResult EXCEPT !.token = r.token, !.screen = r.screen]
  <2>1. /\ worker' = [step |-> "prepare", request |-> r, result |-> answer]
        /\ pending # <<>> /\ pending' = <<>> /\ worker.step = "idle"
        /\ UNCHANGED <<posted, disk>>
    BY <1>6 DEF Receive
  <2>2. r \in Items(pending) /\ r \in Requests
    BY <1>1, <2>1, TakenItems DEF PaneTypes
  <2>3. answer = [token |-> r.token, screen |-> r.screen, err |-> "none", dir |-> 0]
    <3> DEFINE half == [NoResult EXCEPT !.token = r.token]
    <3>1. half = [token |-> r.token, screen |-> NoRequest.screen,
                  err |-> "none", dir |-> 0]
      BY DEF NoResult
    <3>2. answer = [half EXCEPT !.screen = r.screen]
      OBVIOUS
    <3> HIDE DEF half
    <3> QED BY <3>1, <3>2
  <2> HIDE DEF r, answer
  <2>4. answer \in Results
    BY <2>2, <2>3 DEF Requests, Results
  <2>5. Items(pending)' = {} /\ pending' \in Seq(Requests)
    BY <2>1, EmptyItems DEF Items
  <2>6. PaneTypes'
    BY <1>1, <1>2, <2>1, <2>2, <2>4, <2>5 DEF PaneTypes
  <2>7. Items(posted)' = Items(posted) /\ WorkerPages' = {} /\ WorkerPages = {}
    BY <2>1 DEF Items, WorkerPages
  <2>8. TokenInv'
    BY <1>1, <1>2, <1>3, <2>1, <2>2, <2>3, <2>5, <2>7 DEF TokenInv
  <2>9. PageInv'
    BY <1>1, <1>2, <2>1, <2>3, <2>7 DEF PageInv, HasPage
  <2> QED BY <2>6, <2>8, <2>9 DEF PaneInv
<1>7. ASSUME NEW err \in {"none", "failed", "canceled"}, NEW dir \in Nat,
             Prepared(err, dir)
      PROVE  /\ worker' \in WorkerStates
             /\ worker'.step = "deliver" /\ worker'.request = worker.request
             /\ worker'.result.token = worker.result.token
             /\ worker'.result.screen = worker.result.screen
             /\ worker'.result.err = err /\ worker'.result.dir = dir
  <2>1. worker' = [worker EXCEPT !.step = "deliver",
                                 !.result = [[@ EXCEPT !.err = err] EXCEPT !.dir = dir]]
    BY <1>1, <1>7 DEF Prepared, PaneTypes, Results
  <2> DEFINE answer == [[worker.result EXCEPT !.err = err] EXCEPT !.dir = dir]
  <2>2. /\ answer \in Results /\ answer.token = worker.result.token
        /\ answer.screen = worker.result.screen /\ answer.err = err /\ answer.dir = dir
    BY <1>4 DEF Results
  <2> HIDE DEF answer
  <2>3. worker' = [worker EXCEPT !.step = "deliver", !.result = answer]
    BY <2>1 DEF answer
  <2> QED BY <1>1, <2>2, <2>3 DEF PaneTypes, Rendering
<1>8. ASSUME worker' \in WorkerStates, worker'.request = worker.request,
             worker'.result.token = worker.result.token,
             worker'.result.screen = worker.result.screen,
             worker.step \in {"prepare"} \cup Rendering,
             UNCHANGED <<pending, posted>>
      PROVE  PaneTypes' /\ TokenInv'
  BY <1>1, <1>2, <1>3, <1>8 DEF PaneTypes, TokenInv, Items
<1> DEFINE g == worker.request.token.generation
<1>9. worker.step \in {"prepare"} \cup Rendering =>
        /\ g \in Nat \ {0} /\ Fits(worker.request.token, worker.request.screen)
        /\ worker.result.screen = worker.request.screen
  BY <1>1, <1>4 DEF TokenInv, Requests, Tokens
<1>10. Items(posted) \subseteq Results
  BY <1>1, ItemsAreTyped DEF PaneTypes
<1>11. CASE Prepare
  <2>1. worker.step = "prepare" /\ UNCHANGED <<pending, posted>> /\ WorkerPages = {}
        /\ Items(posted)' = Items(posted)
    BY <1>11 DEF Prepare, WorkerPages, Items
  <2>2. CASE \E err \in {"canceled", "failed"} : Prepared(err, 0) /\ disk' = disk
    <3>1. /\ worker' \in WorkerStates
          /\ worker'.step = "deliver" /\ worker'.request = worker.request
          /\ worker'.result.token = worker.result.token
          /\ worker'.result.screen = worker.result.screen
          /\ worker'.result.dir = 0
      BY <1>7, <2>2
    <3>2. PaneTypes' /\ TokenInv'
      BY <1>8, <2>1, <3>1
    <3>3. PageInv'
      BY <1>1, <1>2, <2>1, <2>2, <3>1 DEF PageInv, HasPage
    <3> QED BY <3>2, <3>3 DEF PaneInv
  <2>3. CASE /\ worker' = [worker EXCEPT !.step = "render"]
             /\ disk' = IF IsComparison(worker.request) THEN disk \cup {g} ELSE disk
    <3>1. /\ worker' \in WorkerStates
          /\ worker'.step = "render" /\ worker'.request = worker.request
          /\ worker'.result = worker.result
      BY <1>1, <2>3 DEF PaneTypes, Rendering
    <3>2. PaneTypes' /\ TokenInv'
      BY <1>8, <2>1, <3>1
    <3>3. WorkerPages' = IF IsComparison(worker.request) THEN {g} ELSE {}
      BY <3>1 DEF WorkerPages, IsComparison
    <3>4. PageInv'
      <4> HIDE DEF g
      <4> QED BY <1>1, <1>2, <1>9, <2>1, <2>3, <3>1, <3>3 DEF PageInv, HasPage
    <3> QED BY <3>2, <3>4 DEF PaneInv
  <2> QED
    BY <1>11, <2>2, <2>3 DEF Prepare, GenerationOf
<1>12. CASE Render
  <2>1. /\ worker.step = "render" /\ UNCHANGED <<pending, posted>>
        /\ WorkerPages = IF IsComparison(worker.request) THEN {g} ELSE {}
        /\ Items(posted)' = Items(posted)
    BY <1>12 DEF Render, WorkerPages, Items
  <2>2. CASE \E err \in {"canceled", "failed"} : Prepared(err, 0) /\ disk' = disk \ {g}
    <3>1. /\ worker' \in WorkerStates
          /\ worker'.step = "deliver" /\ worker'.request = worker.request
          /\ worker'.result.token = worker.result.token
          /\ worker'.result.screen = worker.result.screen
          /\ worker'.result.dir = 0
      BY <1>7, <2>2
    <3>2. PaneTypes' /\ TokenInv'
      BY <1>8, <2>1, <3>1 DEF Rendering
    <3>3. PageInv'
      BY <1>1, <1>2, <2>1, <2>2, <3>1 DEF PageInv, HasPage
    <3> QED BY <3>2, <3>3 DEF PaneInv
  <2>3. CASE \E dir \in {0, g} :
               /\ Prepared("none", dir) /\ disk' = disk
               /\ dir = IF IsComparison(worker.request) THEN g ELSE 0
    <3>1. PICK dir \in {0, g} :
               /\ Prepared("none", dir) /\ disk' = disk
               /\ dir = IF IsComparison(worker.request) THEN g ELSE 0
      BY <2>3
    <3>2. /\ worker' \in WorkerStates
          /\ worker'.step = "deliver" /\ worker'.request = worker.request
          /\ worker'.result.token = worker.result.token
          /\ worker'.result.screen = worker.result.screen
          /\ worker'.result.err = "none" /\ worker'.result.dir = dir
      BY <1>7, <1>9, <2>1, <3>1 DEF Rendering
    <3>3. PaneTypes' /\ TokenInv'
      BY <1>8, <2>1, <3>2 DEF Rendering
    <3>4. WorkerPages' = {dir}
      BY <3>2 DEF WorkerPages
    <3>5. HasPage(worker'.result)
      BY <1>9, <2>1, <3>1, <3>2 DEF HasPage, Rendering, IsComparison
    <3>6. PageInv'
      <4>1. g \in Nat \ {0}
        BY <1>9, <2>1 DEF Rendering
      <4>2. \A r \in Items(posted) \cup {worker'.result} : HasPage(r)
        BY <1>1, <3>5 DEF PageInv
      <4> HIDE DEF g
      <4>3. ~uiClosing => disk \subseteq {current} \cup {r.dir : r \in Items(posted)} \cup {dir}
        BY <1>1, <2>1, <3>1 DEF PageInv
      <4> QED
        BY <1>1, <1>2, <2>1, <3>1, <3>2, <3>4, <4>2, <4>3 DEF PageInv, HasPage, g
    <3> QED BY <3>3, <3>6 DEF PaneInv
  <2> QED
    BY <1>12, <2>2, <2>3 DEF Render, GenerationOf, CleanUp
<1>13. CASE Drop \/ Post
  <2>1. /\ worker.step \in {"deliver", "post"} /\ WorkerPages = {worker.result.dir}
        /\ UNCHANGED pending
        /\ worker' = [worker EXCEPT !.step = "idle"]
        /\ \/ posted' = posted /\ disk' = disk \ {worker.result.dir}
           \/ posted' = Append(posted, worker.result) /\ disk' = disk
           \/ posted' = posted /\ disk' = disk /\ uiClosing
    BY <1>13 DEF Drop, Post, CleanUp, Continue, WorkerPages
  <2>2. /\ worker' \in WorkerStates
        /\ worker'.step = "idle" /\ worker'.request = worker.request
        /\ worker'.result = worker.result
    BY <1>1, <2>1 DEF PaneTypes
  <2>3. WorkerPages' = {}
    BY <2>2 DEF WorkerPages
  <2>4. /\ Append(posted, worker.result) \in Seq(Results)
        /\ Items(Append(posted, worker.result)) = Items(posted) \cup {worker.result}
    BY <1>1, <1>4, AppendItems DEF PaneTypes
  <2>5. /\ posted' \in Seq(Results)
        /\ Items(posted)' \subseteq Items(posted) \cup {worker.result}
        /\ \/ Items(posted)' = Items(posted) /\ disk' = disk \ {worker.result.dir}
           \/ Items(posted)' = Items(posted) \cup {worker.result} /\ disk' = disk
           \/ Items(posted)' = Items(posted) /\ disk' = disk /\ uiClosing
    <3>1. posted \in Seq(Results)
      BY <1>1 DEF PaneTypes
    <3>2. posted' = posted => Items(posted)' = Items(posted)
      BY DEF Items
    <3>3. posted' = Append(posted, worker.result) =>
            Items(posted)' = Items(Append(posted, worker.result))
      BY DEF Items
    <3> QED BY <2>1, <2>4, <3>1, <3>2, <3>3
  <2>6. PaneTypes'
    BY <1>1, <1>2, <2>1, <2>2, <2>5 DEF PaneTypes
  <2>7. TokenInv'
    BY <1>1, <1>2, <1>3, <2>1, <2>2, <2>5 DEF TokenInv, Items, Rendering
  <2>8. PageInv'
    BY <1>1, <1>2, <2>1, <2>2, <2>3, <2>5 DEF PageInv, HasPage
  <2> QED BY <2>6, <2>7, <2>8 DEF PaneInv
<1> QED BY <1>5, <1>6, <1>11, <1>12, <1>13 DEF PreviewWorker

(* Callbacks: whatever becomes of a result, its page is shown or removed,   *)
(* and it is shown only on the screen it was asked for.                     *)
LEMMA CallbackPaneInv ==
  ASSUME PaneInv, RunCallback
  PROVE  /\ PaneInv'
         /\ pane' # pane => pane'.screen = screen
<1> USE DEF tokenVars, screenVars, asyncVars, shownVars
<1> DEFINE result == Head(posted)
<1>1. PaneTypes /\ TokenInv /\ PageInv
  BY DEF PaneInv
<1>2. /\ UNCHANGED <<nextGeneration, modelRevision, active, hasActive, screen,
                     folderRevision, ui, pending, worker, uiClosing>>
      /\ posted # <<>> /\ posted' = Tail(posted)
  BY DEF RunCallback, Refuse, Apply
<1>3. /\ result \in Items(posted) /\ result \in Results /\ Tail(posted) \in Seq(Results)
      /\ Items(posted)' \subseteq Items(posted)
      /\ Items(posted) \subseteq Items(posted)' \cup {result}
  <2>1. posted \in Seq(Results)
    BY <1>1 DEF PaneTypes
  <2>2. Items(posted)' = Items(Tail(posted))
    BY <1>2 DEF Items
  <2> QED BY <1>2, <2>1, <2>2, TakenItems
<1>4. HasPage(result) /\ Fits(result.token, result.screen)
  BY <1>1, <1>3 DEF PageInv, TokenInv
<1> HIDE DEF result
<1>5. ASSUME disk' \subseteq disk,
             \A x \in disk : x # 0 => x \in disk' \cup {current, result.dir},
             current \in disk' => current' = current,
             result.dir \in disk' => current' = result.dir
      PROVE  PaneInv'
  <2>1. PaneTypes'
    BY <1>1, <1>2, <1>3 DEF PaneTypes
  <2>2. \A token, on : Fits(token, on)' = Fits(token, on)
    BY <1>2 DEF Fits
  <2>3. Items(pending)' = Items(pending) /\ WorkerPages' = WorkerPages
    BY <1>2 DEF Items, WorkerPages, IsComparison
  <2>4. TokenInv'
    BY <1>1, <1>2, <1>3, <2>2, <2>3 DEF TokenInv
  <2>5. ASSUME ~uiClosing, NEW x \in disk'
        PROVE  x \in {current'} \cup {r.dir : r \in Items(posted)'} \cup WorkerPages
    <3>1. x \in {current} \cup {r.dir : r \in Items(posted)} \cup WorkerPages
      BY <1>1, <1>5, <2>5 DEF PageInv
    <3> QED BY <1>3, <1>5, <2>5, <3>1
  <2>6. PageInv'
    BY <1>1, <1>2, <1>3, <1>5, <2>3, <2>5 DEF PageInv, HasPage
  <2> QED BY <2>1, <2>4, <2>6 DEF PaneInv
<1>6. CASE Apply(result) /\ Usable(result)
  <2>1. result.screen = screen
    BY <1>4, <1>6 DEF Fits, Usable, Accepts
  <2>2. /\ disk' \subseteq disk
        /\ \A x \in disk : x \in disk' \cup {current, result.dir}
        /\ current \in disk' => current' = current
        /\ result.dir \in disk' => current' = result.dir
        /\ pane'.screen = result.screen
    <3>1. CASE result.err = "failed"
      BY <1>6, <3>1 DEF Apply, ShowResult, Show
    <3>2. CASE result.err # "failed" /\ result.screen.selected \in Comparisons
      BY <1>6, <3>2 DEF Apply, ShowResult, ShowPage, Show
    <3>3. CASE result.err # "failed" /\ result.screen.selected \notin Comparisons
      BY <1>4, <1>6, <3>3 DEF Apply, ShowResult, ClearArtifact, Show, HasPage
    <3> QED BY <3>1, <3>2, <3>3
  <2>3. PaneInv'
    BY <1>5, <2>2
  <2> QED BY <2>1, <2>2, <2>3
<1>7. CASE pane' = pane /\ current' = current /\ disk' = disk \ {result.dir}
  BY <1>5, <1>7
<1>8. 0 \notin disk
  BY <1>1 DEF PageInv
<1> QED
  BY <1>2, <1>5, <1>6, <1>7, <1>8 DEF RunCallback, Refuse, CleanUp, result

--------------------------------------------------------------------------------
(* Every step keeps the invariant, and only for the screen puts anything up. *)
LEMMA NextPaneInv ==
  ASSUME PaneInv, [PaneNext]_paneVars
  PROVE  /\ PaneInv'
         /\ pane' # pane /\ pane'.kind \in {"details", "page", "failed"}
              => pane'.screen = screen
<1> USE DEF tokenVars, screenVars, asyncVars, shownVars
<1>1. CASE UserSteps
  <2>1. UserEffect
    BY <1>1, UserEffects DEF PaneInv
  <2> QED BY <1>1, <2>1, UserPaneInv DEF UserEffect
<1>2. CASE Drain \/ SendAgain
  BY <1>2, SubmitPaneInv DEF Drain, SendAgain
<1>3. CASE PreviewWorker
  <2>1. pane' = pane
    BY <1>3 DEF PreviewWorker, Stop, Receive, Prepare, Render,
       Drop, CommitToPost, Post
  <2> QED BY <1>3, <2>1, WorkerPaneInv
<1>4. CASE RunCallback
  BY <1>4, CallbackPaneInv
<1>5. CASE UNCHANGED paneVars
  BY <1>5 DEF paneVars, PaneInv, PaneTypes, TokenInv, PageInv, Items, Fits, HasPage,
     WorkerPages, IsComparison
<1> QED
  BY <1>1, <1>2, <1>3, <1>4, <1>5 DEF PaneNext, Gone, UserSteps

LEMMA PaneInvariance == PaneSpec => []PaneInv
BY InitPaneInv, NextPaneInv, PTL DEF PaneSpec

(* While the window is open every temporary page has an owner that removes  *)
(* it: the pane, the worker, or a result on its way to the pane             *)
(* (preview_worker_windows.go:68-121, 236-284).                             *)
THEOREM PagesHaveOwners == PaneSpec => []NoOrphanedPage
<1>1. PaneInv => NoOrphanedPage
  <2> SUFFICES ASSUME PaneInv, ~uiClosing, NEW x \in disk
               PROVE  \/ x = current
                      \/ x \in {posted[i].dir : i \in DOMAIN posted}
                      \/ worker.step \in Rendering /\ x = worker.request.token.generation
    BY DEF NoOrphanedPage, GenerationOf, Rendering
  <2>1. x \in {current} \cup {r.dir : r \in Items(posted)} \cup WorkerPages /\ x # 0
    BY DEF PaneInv, PageInv
  <2>2. x \in WorkerPages => worker.step \in Rendering /\ x = worker.request.token.generation
    BY <2>1 DEF PaneInv, PageInv, WorkerPages, Rendering
  <2> QED BY <2>1, <2>2 DEF Items
<1> QED BY <1>1, PaneInvariance, PTL

(* A result reaches the pane only if it was prepared for the selection and  *)
(* the rows that the table shows (preview_state.go:40-45,                   *)
(* preview_worker_windows.go:238-243).                                      *)
THEOREM PaneIsCurrent == PaneSpec => PreviewsAreCurrent
<1>1. PaneInv /\ [PaneNext]_paneVars =>
        [pane' # pane /\ pane'.kind \in {"details", "page", "failed"}
           => pane'.screen = screen]_paneVars
  BY NextPaneInv
<1> QED BY <1>1, PaneInvariance, PTL DEF PaneSpec, PreviewsAreCurrent

================================================================================
