------------------------------ MODULE ReportExport ------------------------------
(***************************************************************************)
(* A duplicate report on its way to a file: the export of the desktop      *)
(* window (app_report_windows.go) and the scan subcommand                  *)
(* (cmd/twintidy/scan.go), both over the streaming writer and the atomic   *)
(* publication of internal/report.                                         *)
(*                                                                         *)
(* A report is a sequence of cells: a header, one row per file, and for    *)
(* JSON a tail.  csv.Writer buffers; JSON writes through.  Other programs  *)
(* put files at, and take them from, the paths the report may go to; the   *)
(* machine may stop at any point.                                          *)
(***************************************************************************)
EXTENDS Integers, Sequences, SequencesExt, FiniteSets

CONSTANTS
  TypedPaths,   \* what is typed in the dialog or after --out; a path is its
                \* parts, the last of several being the extension
  GroupLists,   \* what a scan can find: sequences of [size, files]
  MaxFaults,    \* bound: I/O errors
  MaxForeign    \* bound: writes of other programs

Formats == {"csv", "json"}

ASSUME ReportAssumption ==
  /\ MaxFaults \in Nat /\ MaxForeign \in Nat
  /\ TypedPaths \subseteq Seq(STRING) \ {<<>>}
  /\ GroupLists \subseteq Seq([size : Nat, files : Nat \ {0, 1}])

VARIABLES
  mode,       \* "gui", "cli" (with --out), or "stdout"
  typed, format, groups,   \* what was asked for
  step,       \* where the export is
  final,      \* the resolved destination
  consent,    \* [path, content]: what the user saw there and agreed to replace
  dest,       \* the file at each path
  foreign,    \* writes of other programs so far
  touched,    \* history: paths they wrote to after the consent
  next,       \* place of the next cell for the writer
  buffered,   \* cells in csv.Writer
  staged,     \* cells that reached the staging file, or stdout
  staging,    \* the staging file: "none", "open", "closed"
  synced,
  stuck,      \* history: the staging file could not be removed
  cancelled,  \* the context
  err,        \* "none", "canceled", "failed", "panic"
  published,  \* history: the rename was done
  exit,       \* the exit code, or -1
  faults

request == <<mode, typed, format, groups>>
world == <<dest, foreign, touched>>
writer == <<next, buffered, staged>>
file == <<staging, synced, stuck, published>>
vars == <<request, step, final, consent, world, writer, file, cancelled, err,
          exit, faults>>

--------------------------------------------------------------------------------
(* Paths. *)
Extension(path) == IF Len(path) > 1 THEN Last(path) ELSE ""

(* resolveReportDestination: the format wins over the typed extension. *)
Resolve(path, f) ==
  CASE Extension(path) = f       -> path
    [] Extension(path) \in Formats \ {f} -> Append(Front(path), f)
    [] OTHER                     -> Append(path, f)

(* The paths this export can touch; after --out the path is taken as it is. *)
Paths == IF mode = "gui" THEN {typed, Resolve(typed, format)} ELSE {typed}

(* What can be at a path. *)
Absent == [kind |-> "absent", id |-> 0, cells |-> <<>>]
Directory == [kind |-> "directory", id |-> 0, cells |-> <<>>]
Other(n) == [kind |-> "other", id |-> n, cells |-> <<>>]
Report(cells) == [kind |-> "report", id |-> 0, cells |-> cells]

(* The document. *)
Sum(seq) ==
  LET upTo[n \in 0..Len(seq)] == IF n = 0 THEN 0 ELSE upTo[n - 1] + seq[n]
  IN upTo[Len(seq)]
Reclaimable(g) == (g.files - 1) * g.size
Total == Sum([i \in DOMAIN groups |-> Reclaimable(groups[i])])

(* A cell has a place: the header before all groups, a file of a group, or  *)
(* the tail behind them.                                                    *)
Cell(place, groupEstimate, reportEstimate) ==
  [place |-> place, groupEstimate |-> groupEstimate,
   reportEstimate |-> reportEstimate]

\* mutant: every row repeats the estimate of its group
EstimateOnEveryRow(g, i) == {Reclaimable(groups[g])}
(* Only the first row of a group carries its estimate. *)
GroupEstimate(g, i) == IF i = 1 THEN {Reclaimable(groups[g])} ELSE {}
ReportEstimate(g, i) == IF g = 1 /\ i = 1 THEN {Total} ELSE {}

Row(g, i) ==
  IF format = "csv"
    THEN Cell(<<g, i>>, GroupEstimate(g, i), ReportEstimate(g, i))
    ELSE Cell(<<g, i>>, {}, {})

Header == <<0, 0>>
CellAt(place) ==
  CASE place = Header -> Cell(Header, {}, IF format = "json" THEN {Total} ELSE {})
    [] place[1] \in DOMAIN groups -> Row(place[1], place[2])
    [] OTHER -> Cell(place, {}, {})

(* The loops over groups and files: the place behind another one. *)
After(place) ==
  IF place[1] \in DOMAIN groups /\ place[2] < groups[place[1]].files
    THEN <<place[1], place[2] + 1>>
    ELSE <<place[1] + 1, 1>>

End == <<Len(groups) + (IF format = "csv" THEN 1 ELSE 2), 1>>

(* The whole document: from the header to the end, place after place. *)
Whole(cells) ==
  /\ cells # <<>> /\ cells[1] = CellAt(Header)
  /\ \A k \in 1..(Len(cells) - 1) : cells[k + 1] = CellAt(After(cells[k].place))
  /\ After(cells[Len(cells)].place) = End

--------------------------------------------------------------------------------
Init ==
  /\ mode \in {"gui", "cli", "stdout"}
  /\ typed \in TypedPaths /\ format \in Formats
  /\ groups \in IF mode = "gui" THEN GroupLists \ {<<>>} ELSE GroupLists
  /\ step = IF mode = "gui" THEN "dialog" ELSE "scan"
  /\ final = typed
  /\ consent = [path |-> <<>>, content |-> Absent]
  /\ dest \in [Paths -> {Absent, Directory, Other(0)}]
  /\ foreign = 0 /\ touched = {}
  /\ next = Header /\ buffered = <<>> /\ staged = <<>>
  /\ staging = "none" /\ synced = FALSE /\ stuck = FALSE /\ published = FALSE
  /\ cancelled = FALSE /\ err = "none" /\ exit = -1 /\ faults = 0

Fault == faults < MaxFaults /\ faults' = faults + 1

Agree(path) == consent' = [path |-> path, content |-> dest[path]]

(* The save dialog asks before it returns a path that exists, and refuses a *)
(* directory.                                                               *)
SaveDialog ==
  /\ step = "dialog" /\ dest[typed].kind # "directory"
  /\ Agree(typed) /\ step' = "confirm"
  /\ final' = Resolve(typed, format)
  /\ touched' = {}
  /\ UNCHANGED <<request, dest, foreign, writer, file, cancelled, err, exit, faults>>

(* confirmNormalizedReportOverwrite: asks only if the path changed, and the *)
(* new one is taken.                                                        *)
\* mutant: the answer for the typed path is taken for the resolved one
ConfirmTyped ==
  /\ step = "confirm" /\ step' = "create"
  /\ consent' = [consent EXCEPT !.path = final]
  /\ UNCHANGED <<request, final, world, writer, file, cancelled, err, exit, faults>>
ConfirmOverwrite ==
  /\ step = "confirm"
  /\ \/ final = typed /\ step' = "create" /\ UNCHANGED <<consent, touched>>
     \/ /\ final # typed /\ dest[final].kind # "directory"
        /\ Agree(final) /\ step' = "create" /\ touched' = {}
     \/ final # typed /\ step' = "declined" /\ UNCHANGED <<consent, touched>>
  /\ UNCHANGED <<request, final, dest, foreign, writer, file, cancelled, err, exit,
                 faults>>

(* runScan up to the report. *)
CliScan ==
  /\ step = "scan"
  /\ \/ step' = (IF mode = "cli" THEN "create" ELSE "write") /\ UNCHANGED <<err, faults>>
     \/ cancelled /\ step' = "returned" /\ err' = "canceled" /\ UNCHANGED faults
     \/ Fault /\ step' = "returned" /\ err' \in {"failed", "panic"}
  /\ UNCHANGED <<request, final, consent, world, writer, file, cancelled, exit>>

--------------------------------------------------------------------------------
(* WriteFileAtomic.  An error ends in the deferred clean-up, a panic too.   *)
Fail(why) == err' = why /\ step' = "cleanup"
Stopped == cancelled /\ Fail("canceled") /\ UNCHANGED faults
Broken == Fault /\ Fail("failed")

CreateTemp ==
  /\ step = "create"
  /\ \/ Stopped /\ UNCHANGED staging
     \/ Broken /\ UNCHANGED staging
     \/ /\ ~cancelled /\ staging' = "open" /\ step' = "write"
        /\ UNCHANGED <<err, faults>>
  /\ UNCHANGED <<request, final, consent, world, writer, synced, stuck, published,
                 cancelled, exit>>

(* A cell goes to the buffer of csv.Writer, or for JSON to the file; the    *)
(* context is looked at before each, and every device write can fail.       *)
WriteCell ==
  /\ step = "write" /\ next # End
  /\ \/ /\ ~cancelled /\ next' = After(next)
        /\ IF format = "csv"
           THEN buffered' = Append(buffered, CellAt(next)) /\ UNCHANGED staged
           ELSE staged' = Append(staged, CellAt(next)) /\ UNCHANGED buffered
        /\ UNCHANGED <<step, err, faults>>
     \/ (Stopped \/ Broken \/ (Fault /\ Fail("panic"))) /\ UNCHANGED writer
  /\ UNCHANGED <<request, final, consent, world, file, cancelled, exit>>

(* The buffer is flushed when it is full, here at any time, and at the end. *)
\* mutant: an error of the last flush is not asked for
FlushBlind ==
  /\ step = "write" /\ buffered # <<>> /\ buffered' = <<>>
  /\ \/ staged' = staged \o buffered /\ UNCHANGED faults
     \/ Fault /\ UNCHANGED staged
  /\ UNCHANGED <<request, step, final, consent, world, next, file, cancelled, err, exit>>
Flush ==
  /\ step = "write" /\ buffered # <<>>
  /\ \/ /\ ~cancelled /\ staged' = staged \o buffered /\ buffered' = <<>>
        /\ UNCHANGED <<step, err, faults>>
     \/ Stopped /\ UNCHANGED <<staged, buffered>>
     \/ /\ Broken
        /\ \E k \in 0..(Len(buffered) - 1) :
             /\ staged' = staged \o SubSeq(buffered, 1, k)
             /\ buffered' = SubSeq(buffered, k + 1, Len(buffered))
  /\ UNCHANGED <<request, final, consent, world, next, file, cancelled, exit>>

Written ==
  /\ step = "write" /\ next = End /\ buffered = <<>>
  /\ \/ Stopped
     \/ /\ ~cancelled /\ step' = (IF mode = "stdout" THEN "returned" ELSE "sync")
        /\ UNCHANGED <<err, faults>>
  /\ UNCHANGED <<request, final, consent, world, writer, file, cancelled, exit>>

\* mutant: the data is not forced out before the rename
SkipSync ==
  /\ step = "sync" /\ step' = "close"
  /\ UNCHANGED <<request, final, consent, world, writer, file, cancelled, err, exit,
                 faults>>
Sync ==
  /\ step = "sync"
  /\ \/ (Stopped \/ Broken) /\ UNCHANGED synced
     \/ /\ ~cancelled /\ synced' = TRUE /\ step' = "close"
        /\ UNCHANGED <<err, faults>>
  /\ UNCHANGED <<request, final, consent, world, writer, staging, stuck, published,
                 cancelled, exit>>

Close ==
  /\ step = "close"
  /\ \/ (Stopped \/ Broken) /\ UNCHANGED staging
     \/ /\ ~cancelled /\ staging' = "closed" /\ step' = "rename"
        /\ UNCHANGED <<err, faults>>
  /\ UNCHANGED <<request, final, consent, world, writer, synced, stuck, published,
                 cancelled, exit>>

(* os.Rename replaces a file, not a directory. *)
Rename ==
  /\ step = "rename"
  /\ \/ /\ ~cancelled /\ dest[final].kind # "directory"
        /\ dest' = [dest EXCEPT ![final] = Report(staged)]
        /\ staging' = "none" /\ published' = TRUE
        /\ step' = "returned" /\ UNCHANGED <<err, faults>>
     \/ /\ Stopped \/ Broken
        /\ UNCHANGED <<dest, staging, published>>
     \/ /\ ~cancelled /\ dest[final].kind = "directory" /\ Fail("failed")
        /\ UNCHANGED <<dest, staging, published, faults>>
  /\ UNCHANGED <<request, final, consent, foreign, touched, writer, synced, stuck,
                 cancelled, exit>>

CleanUpStaging == "none"

(* The deferred function: close, then remove, whose error is ignored.       *)
CleanUp ==
  /\ step = "cleanup" /\ step' = "returned"
  /\ \/ staging' = CleanUpStaging /\ UNCHANGED <<stuck, faults>>
     \/ /\ staging # "none" /\ Fault
        /\ staging' = "closed" /\ stuck' = TRUE
  /\ UNCHANGED <<request, final, consent, world, writer, synced, published, cancelled,
                 err, exit>>

(* run and runScan turn what happened into an exit code: the recover of run *)
(* answers 1.                                                               *)
\* mutant: a failed report still reports what the scan found
ExitCodeOfScan == IF groups = <<>> THEN 0 ELSE 1
ExitCode ==
  CASE err = "panic" -> 1
    [] err \in {"canceled", "failed"} -> 2
    [] OTHER -> IF groups = <<>> THEN 0 ELSE 1

Exit ==
  /\ step = "returned" /\ mode # "gui" /\ exit = -1
  /\ exit' = ExitCode
  /\ UNCHANGED <<request, step, final, consent, world, writer, file, cancelled, err,
                 faults>>

Running == step \notin {"returned", "declined", "crashed"}

(* The Cancel button, closing the window, or an interrupt. *)
Cancel ==
  /\ ~cancelled /\ Running /\ step \notin {"dialog", "confirm"} /\ cancelled' = TRUE
  /\ UNCHANGED <<request, step, final, consent, world, writer, file, err, exit, faults>>

(* The machine stops.  Data that was not forced out may be gone.            *)
Crash ==
  /\ step \in {"create", "write", "sync", "close", "rename", "cleanup", "returned"}
  /\ exit = -1
  /\ step' = "crashed"
  /\ dest' = [p \in Paths |-> IF dest[p].kind = "report" /\ ~synced
                              THEN Report(<<>>) ELSE dest[p]]
  /\ UNCHANGED <<request, final, consent, foreign, touched, writer, file, cancelled,
                 err, exit, faults>>

OtherProgram ==
  /\ Running /\ foreign < MaxForeign /\ foreign' = foreign + 1
  /\ \E p \in Paths : \E content \in {Absent, Other(foreign')} :
       /\ dest[p].kind # "directory" /\ content # dest[p]
       /\ dest' = [dest EXCEPT ![p] = content]
       /\ touched' = touched \cup {p}
  /\ UNCHANGED <<request, step, final, consent, writer, file, cancelled, err, exit,
                 faults>>

Next ==
  \/ SaveDialog \/ ConfirmOverwrite \/ CliScan
  \/ CreateTemp \/ WriteCell \/ Flush \/ Written \/ Sync \/ Close \/ Rename \/ CleanUp
  \/ Exit
  \/ Cancel \/ Crash \/ OtherProgram

Spec == Init /\ [][Next]_vars

--------------------------------------------------------------------------------

(* Whatever fails, is cancelled or loses power, a report at a destination   *)
(* is a whole one (report.go:216-219): nobody ever reads half a report.     *)
DestinationIsWhole ==
  \A p \in Paths : dest[p].kind = "report" => Whole(dest[p].cells)

(* What the caller is told is what happened: no error means the complete    *)
(* report is out, an error means the destination was left alone; and no     *)
(* staging file is left, unless its removal failed, an error report.go:251  *)
(* ignores (report.go:216-280; docs/ARCHITECTURE.md:114).                   *)
OutcomeIsHonest ==
  step = "returned" =>
    /\ IF err = "none"
       THEN Whole(staged) /\ published = (mode # "stdout")
       ELSE ~published
    /\ staging = "none" \/ stuck

(* The window replaces a file only if the user agreed to lose that file, or *)
(* if it came there after the user was asked, and it replaces it only at    *)
(* the path of the format (app_report_windows.go:59-114).                   *)
OnlyConsentedIsReplaced ==
  [][mode = "gui" /\ ~published /\ published' =>
       /\ Extension(final) = format
       /\ \/ dest[final] \in {Absent, consent.content} /\ consent.path = final
          \/ final \in touched]_vars

(* The columns of a report add up once: over the whole report the group     *)
(* estimates, where there are any, and the report estimates are each what   *)
(* keeping one file per group would free (report.go:132-135).               *)
Sizes == Sum([i \in DOMAIN groups |-> groups[i].files * groups[i].size])
Kept == Sum([i \in DOMAIN groups |-> groups[i].size])
Amount(estimate) == IF estimate = {} THEN 0 ELSE CHOOSE e \in estimate : TRUE
Column(estimates) == Sum([i \in DOMAIN estimates |-> Amount(estimates[i])])
TotalsCountOnce ==
  step = "returned" /\ err = "none" /\ groups # <<>> =>
    /\ Column([i \in DOMAIN staged |-> staged[i].reportEstimate]) = Sizes - Kept
    /\ format = "csv" =>
         Column([i \in DOMAIN staged |-> staged[i].groupEstimate]) = Sizes - Kept

(* Short of a panic a script can trust the exit code of a scan: 0 or 1 only *)
(* with the whole report written, and by what was found (scan.go:17-22).    *)
ExitCodeIsHonest ==
  exit # -1 /\ err # "panic" =>
    /\ exit \in {0, 1} => Whole(staged)
    /\ exit = 0 => groups = <<>>
    /\ exit = 1 => groups # <<>>
    /\ exit = 2 <=> err # "none"

================================================================================
