# TwinTidy in TLA+

TwinTidy finds exact duplicate files, shows them in a Windows desktop window,
writes reports about them and can replace duplicates by hardlinks. This directory
holds TLA+ models of its core logic, TLC configurations that check them on small
instances, and theorems about them checked by TLAPS. Paths below are relative to
the root of the repository; every definition names its source lines in
`PROJECT.json` under `map`.

    tlc -workers 2 -config OperationState.cfg OperationState
    tlapm OperationStateProofs.tla

Each module whose name ends in `Proofs` is checked by `tlapm` in the same way.

## 1. Inventory

### The parts

| Part | State it keeps | Operations | What makes it hard | What makes it correct |
|---|---|---|---|---|
| **Application state machine** `internal/gui/operation_state.go` | phase (14 values), folder and its revision, generation counter, active token, stored `CancelFunc`, `closeRequested`, `allowClose` | `selectFolder`, `reset`, `clearResults`, four `begin…`, two `request…Cancellation`, four `complete…`, `requestClose` | completions arrive after cancellations, folder changes and closes | stale work never publishes, work with outside effects is never abandoned, a close is neither lost nor granted early |
| **Desktop workflow** `app_windows.go`, `app_report_windows.go`, `app_consolidate_windows.go` | inventory report, table rows, ticks, modal dialogs, posted callbacks, worker and progress goroutines | clicks, dialog answers, worker ends, callbacks | modal dialogs run the message loop; callbacks are dropped after the close; progress lags | what is shown belongs to the folder on screen; what runs is what was confirmed |
| **Preview pipeline** `preview_state.go`, `preview_worker_windows.go` | newest token, model revision, one-place queue, temporary pages | select, invalidate, submit, prepare, apply, stop | worker and UI race over the queue; directories change owner | latest request wins, no orphaned directory |
| **Hardlink consolidation** `internal/scanner/hardlink.go`, `hardlink_windows.go` | open keeper and target handles, backup path, items | verify, rename aside, link, verify, dispose, restore | any call can fail, other programs use the same directory, the process can die | no content lost, no foreign file replaced, results tell the truth |
| **Surface scan** `internal/scanner/engine.go` 270–634, 1043–1102 | `directoryQueue` (mutex, condition variable), `scanBudget`, report, first error | roots, open, read, add, record, finish, abort | lost wakeups, error against cancellation, limits shared by workers | terminates; a success is complete; the error returned is the one that happened |
| **Duplicate matching** `engine.go` 124–241, 636–924 | refreshed records, candidates of each stage, channels | refresh, size grouping, boundary hash, full hash | unbuffered channels, files written to while they are read | groups are exact, none missed, no goroutine left |
| **Report writing and export** `internal/report/report.go`, `app_report_windows.go` | staging file, buffer, destination | resolve, confirm, stage, write, sync, close, rename, remove | every call fails or is cancelled; power loss; another writer | only whole reports at the destination, honest outcome |
| **Command line** `cmd/twintidy/main.go`, `scan.go` | context, exit code | `scan` | three exit codes for outcome, error and panic | scripts can branch on the code |
| **Verified recycling** `scanner/delete.go`, `recycle_windows.go` | verified keeper and target handles, receipt, batch result | validate, find a keeper, verify, call the adapter, check the receipt and the absence | the adapter acts on a path or a handle and may lie; keeper and target change meanwhile | only the recorded file is reported recycled, a keeper outlives it. Gated off (ADR 0005): the production adapter refuses every call |
| **Keep rules and filters** `keeprules.go`, `filters.go`; `buildRecyclePlan` in `app_windows.go` | none | choose keepers, validate a selection, make the plan of the ticked rows | priority folders, ties, two rows of one physical file | a keeper is never marked, a plan never names every copy |
| **File snapshots and scope** `file_snapshot*.go`, `filetime_*.go` | handles during one call | authorise the root, walk the components, open, bind the path, compare, repeat | other programs write, replace and swap between any two checks | what is read is the recorded file as it was scanned |
| **Settings** `internal/settings/settings.go`, `app_settings_windows.go` | the preferences in memory, the settings file, a staging file | load, apply, save | two processes, failing calls, power loss | fail-open load, no torn file by a process |
| **Diagnostics** `internal/diagnostics` | log file and its mutex, crash reports | init, log, report a panic, close | goroutines that log after close, panics of several goroutines | every panic leaves a report, the log tells the end, no self-deadlock |
| **Categories, system-item policy** `categories.go`, `safety.go` | tables | classify | – | data |
| **Windows shell, startup, build identity, packaging** | – | COM calls, message boxes, PowerShell | – | outside the program's logic |

### How they interact

The UI thread owns the state machine and every widget. It starts **one** foreground
goroutine at a time (surface scan, duplicate scan, export, batch), hands it a token
and, except for a batch, a cancellable context, and gets its outcome back as a
callback posted with `Synchronize`. The callback presents the token; the state
machine decides whether it still counts. A progress consumer per operation posts
callbacks of its own. The preview worker is a second, independent goroutine with its
own tokens. A scan runs its goroutines inside the call; a batch calls
`ConsolidateExactDuplicates` once per group; an export and the `scan` subcommand
share `WriteFileAtomic` and the streaming writer.

    click ──> GuiWorkflow ──> OperationState ──(implements)──> ForegroundOperation
                  │ token, context
                  ├──> SurfaceScan ──(implements)──> Inventory
                  ├──> DuplicateScan                        (both as "the worker returns")
                  ├──> ReportExport <── scan subcommand
                  ├──> KeepRules                            (ticks and plans)
                  ├──> Consolidate ──(implements)──> HardlinkContract
                  └──> Preview  (own worker, own tokens)
    hash, thumbnail or recycle of one record ──> VerifiedFile
    process start to exit around all of it   ──> Session

### The hazards

`PROJECT.json` lists them, each at its line and with the properties that would catch
it. They fall into six families: callbacks that arrive late or are dropped; state
read before a dialog, a handle or a channel operation and used after it; queues and
channels on which goroutines wait for each other; multi-step file operations of which
one step fails or which the process does not survive; checks of a file between which
other programs act; and limits, totals and exit codes at their edges.

## 2. Modules

| Module | Models | State and actions against the code |
|---|---|---|
| `ForegroundOperation` | the promise: one unit of work, guarded work outlives a close request, nothing starts after the close | abstract: `work`, `window` |
| `OperationState` | `operation_state.go`, one action per method, one disjunct per answer of `requestClose` | the eight fields are eight variables; `workers` is the set of tokens handed to goroutines that have not reported, `cancelled` the generations whose `CancelFunc` was called |
| `OperationStateProofs` | theorems about the two | – |
| `KeepRules` | the keeper of a group under a policy (`selectKeeper`), the selection and its validation, and `buildRecyclePlan` with the physical file behind each row | pure operators; `Copy` gives the physical file of a path, `Below` the files under each priority folder |
| `GuiWorkflow` | the window: `OperationState` with dialogs, table, worker goroutines, progress consumers and the queue of posted callbacks | `Op == INSTANCE OperationState` over the same variables; each handler is one action calling the operation it calls; `RunCallback` takes the head of `posted`, also under a modal dialog; ticks and plans are those of `KeepRules` |
| `GuiWorkflowProofs` | theorems about it and about `KeepRules` | – |
| `HardlinkContract` | what a request promises of each file: untouched, set aside and reported, or replaced and reported | abstract: `fate`, `report`, `crashed` |
| `Consolidate` | one request of `ConsolidateExactDuplicates`: validation, the search for a keeper, each step of the Windows adapter, the restore paths, the deferred closes | `at` and `backup` are the directory, `keeper`, `held`, `marked` the handles; `Foreign` is another program, restricted by the sharing modes of the handles; `Crash` is the death of the process, which runs delete-on-close |
| `ConsolidateProofs` | theorems about it | – |
| `Inventory` | what a scan promises: roots are taken, each file is recorded at most once for each root that reaches it, reads are counted as passed over, and one answer ends it | abstract: `asked`, `inventory`, `lost`, `stop`, `answer` |
| `SurfaceScan` | roots, workers, `directoryQueue`, `scanBudget`, `failOnce`, the watcher, `Wait` and the choice of error | one step per critical section of the queue; `wpc` has one value per blocking or shared point of a worker. `Below` is the least set that holds a node and is closed under contents; `TreeAssumption` says that an entry has one parent and no directory lies below itself, because reparse points are not followed and an entry is a path, so a hard link is an entry of its own. `ignored` counts `errorsIgnored` and the skipped entries that changed under the scan |
| `SurfaceScanProofs` | theorems about it | – |
| `DuplicateScan` | refresh, size groups, the boundary and the full pipeline | an unbuffered channel is a rendezvous step of both ends; a cancelled `select` may take either ready branch |
| `DuplicateScanProofs` | theorems about it | – |
| `Preview` | tokens, `submit` in its three channel operations, worker, page directories, pane | `ui` is where `submit` is, `disk` the directories, `current` the page the browser control may load |
| `VerifiedFile` | one hash, thumbnail or recycle request against one disk: every check of `file_snapshot.go` is a step, and other programs act between any two | `entry` and `way` are the directories and where the recorded path leads, `handle` and `snap` the three looks (first open, `ValidateRecordScope`, the reopening of `verifyStableSnapshotInScope`), `bin` what an adapter took |
| `VerifiedFileProofs` | theorems about it | – |
| `Session` | processes from `run` to exit over one preference file, with the logger, crash reports, the folder picker and its fallback | `pc` is the main goroutine, `wpc` a worker, `target` and `staging` the settings, `mu` the mutex of diagnostics; a process may be killed and the power may go at any step |
| `SessionProofs` | theorems about it and about `Preview`, the pane of one session; the pane's specification is `PaneSpec` | – |
| `ReportExport` | dialog, overwrite question, cell-by-cell streaming through `csv.Writer` or JSON, `WriteFileAtomic`, exit code | `buffered`, `staged` and `dest` are the same report at three distances from the disk; a cell has its place in the document, `CellAt` gives the cell of a place and `After` the place behind it |
| `ReportExportProofs` | theorems about it | – |

Every `MC…` module only names the instance; every `.cfg` gives the constants values.
Operators commented `mutant:` are plausible mistakes in the definition below them.
`PROJECT.json` pairs each property with one; putting the mutant in place of the
definition makes TLC report exactly that property violated, which shows that the
property says something about the code.

## 3. What the runs check

### Passing runs

**`operation_state`** (6 274 states). All sequences of UI calls and completions.
Deadlock is checked. It shows that phase, token and cancel function always agree, so
no phase waits for a completion that will be refused; that a worker nobody waits for
has been cancelled; that an export or batch stays active, and the window open, until
it reports; that at most one worker runs, on the folder and revision on screen; that
a cancelled scan never publishes even if it had succeeded; and that the machine
implements `ForegroundOperation`, which pays a deferred close exactly when the
guarded work ends.

**`gui_workflow`** (342 000 states). The window around it. `RunningPlanIsOnScreen` is
about the plan read before a modal dialog and used after it. `PlansLeaveAKeeper` says
that a plan on its way to the worker leaves a physical copy of every group, also when
two rows are one file: a file that is renamed to and fro while a scan runs is listed
under both names, and the instance has such a pair. `PublishedBelongsToScreen` is
about callbacks out of order, progress included. Operations and closes end, on the
assumption that callbacks run and goroutines return. The window takes only steps of
`OperationState`.

**`consolidate`** (47 700 states). Valid and invalid requests over a group of three,
on one or two volumes, with two failing calls, two steps of other programs, a
cancellation and the death of the process anywhere. `KeeperIsPinned`: while a target
is in transit the keeper is the unchanged file of its record. `RemovalIsBacked`: a
file disappears only if its content is in place at a path nobody selected.
`ForeignFilesStay`: no path is ever taken from another program's file.
`EveryItemIsAnswered`: results are complete. The request implements
`HardlinkContract`.

**`verified_file`** (2 220 000 states). One hash (boundary or full), one thumbnail or one
recycle request of one or two records of a group of three, with an adapter that
refuses, acts on the path or acts on the handle. Other programs write, link, rename,
replace and put back files and swap the directories above them; a call fails; the
caller cancels. What is hashed is the record at one version and reached without
redirection; what the shell renders from the path is the record too; while an item is
being recycled a verified keeper of the same content is in place and held; `recycled`
is said only of the recorded file.

**`surface_scan`** (246 000 states). Three workers, watcher and caller over a tree of
three directories and two files; root lists with repeats, overlaps and plain files;
limits, one fault, a cancellation. No wakeup is lost (`SleepersHaveAWaker`), a success
is complete, limits hold and errors are deserved, everything ends. The scan implements
`Inventory` (`KeepsThePromise`): this is about the scans that do not succeed as well.
No file is recorded twice for one root, nothing is recorded once the answer is out, and
the answer is given once.

**`duplicate_scan`** (696 000 states). Two workers, three records, files that change
while they are read, a failing read or moved root, a cancellation. Published groups
are exact, a success without ignored errors missed nothing, and no goroutine stays
behind.

**`preview`** (74 200 states). Selections, row changes, folder changes, exports and a
close at every point of the worker. Deadlock is checked; only a window that is going
away may stop. The newest request is never lost in the queue and the worker stops when
told to (`RequestsSettle`), the pane shows only what the table shows, and a temporary
page always has an owner that will remove it.

**`report_export`** (114 000 states). An export of the window, a headless scan with
`--out`, and one to standard output, in both formats. Only whole reports are ever at
the destination, the outcome told is the one that happened, staging files go away,
columns add up once, exit codes are honest short of a panic.

**`session`** (1 064 000 states). Two processes that overlap or follow each other, two
panics, and one of: a failing call, a kill, a power loss. `PreferencesAreWhole`: the
settings file is absent or a document some session saved, except that a power loss may
tear the unsynced one, which is then read as the defaults; and a session that ends with
0 leaves a staging file only if a failed save could not remove it. `PanicsLeaveReports`,
`LogTellsTheEnd` and `ReportsComplete` (liveness) are about diagnostics: a panic that
ends the process has left a report, the last line of the log says that the session ended
although goroutines outlive it, and a report never waits for the mutex it holds.

### Violation runs: where the code and its own words differ

| Run | What TLC finds | What says otherwise |
|---|---|---|
| `gui_retained_backups` | a deferred close skips the box that names retained backups | `app_consolidate_windows.go:256-258` |
| `consolidate_all` | only the first of several selected targets can be linked to a single keeper: it then has two links and counts as protected | `hardlink.go:54-55` |
| `duplicate_scan_overlap` | a folder given with its parent makes a file its own duplicate | `docs/ARCHITECTURE.md:67` |

Other divergences met while modelling are visible in the models and have no run of
their own:

- A match cannot be repeated from its results. `operation_state.go:204-207` says that it
  can, "especially" after an empty outcome; the button is enabled
  (`app_windows.go:428`) and `beginDuplicateScan` accepts the phase, but `startScan`
  (`app_windows.go:591-605`) has no case for it and ignores the click (`ScanDispatch`).
- A match without groups lists no files, though its status line offers them for review
  (`app_windows.go:872`): `scanFinished` (`app_windows.go:862`) reads the file-type
  boxes while they are still disabled, and a disabled box counts for nothing
  (`CategoriesSelected`).
- `settings.go:106-107` says a crash cannot leave a torn file. `Session` confirms it
  for the death of a process; `Save` does not sync, so a power loss can
  (`LosePower`), and `Load` then falls back to the defaults.
- A save that fails removes its staging file and ignores whether that fails too
  (`settings.go:132`, `136`, `140`; `Session`, `RemoveStaging`). A file that stays has a
  random name and nothing removes it later; the session still ends with 0.
- A `Load` that fails for a moment (a sharing violation) is indistinguishable from an
  absent file: the session runs with defaults and overwrites the saved preferences
  at its end (`Session`, `Load` and `CloseWindow`).
- Two panics in one millisecond want the same crash report file, and the second
  truncates the first (`Session`, `OpenReport`); `PanicsLeaveReports` states the
  exception.
- The filters are applied to the inventory record before the refresh re-reads size and
  time (`engine.go:134-136`), so a file that changed in between is matched although
  the filter would leave it out.
- A failed item may be left at its backup path (`Consolidate`, `RestoreOrReport` and
  `DisposeBackup`; the result says so), while the confirmation at
  `app_consolidate_windows.go:53` says failed files "remain in place unchanged".
- If the process dies while a target is aside, its bytes stay at a backup path nobody
  is told of (`Consolidate`, `Crash`); `hardlink.go:13-15` speaks of "every failure
  mode". `HardlinkContract` has the same exception.
- The target is renamed aside before the link is made, so its path is vacant for a
  moment (`RenameAside`); `docs/adr/0009-hardlink-consolidation.md:40-44` decides to
  link under a temporary name and replace atomically.
- A preview that ends during an export is discarded and never asked for again
  (`Preview`, `Refuse`); `RequestsSettle` states the exception.
- A file that appears at the destination after the overwrite question is replaced
  unasked (`ReportExport`, `Rename`); `OnlyConsentedIsReplaced` states the exception,
  `README.md:58` does not.
- A panic exits with 1, the code for duplicates (`ReportExport`, `Exit`,
  `main.go:36`); `scan.go:55-56` gives 1 that one meaning. `ExitCodeIsHonest` leaves
  panics out.
- `README.md:58` says reports are created only through Export Report, while
  `scan --out` (`cmd/twintidy/scan.go`) writes one too and replaces an existing file
  without asking. `ReportExport` states consent only for the window.

### Bounds, and why they are enough

| Bound | Value | Why |
|---|---|---|
| `MaxGeneration`, `MaxRevision` (operations) | 7 and 3; 5 and 2 with the window | scan, match, export or batch, and a second folder that races the first; the proofs need no bound |
| files of the window | 3 equal, two of them one physical file | a group of one real copy, a plan that covers every copy without naming every row |
| `MaxChanges`, `MaxFaults` (verified file) | 2, 1 | replace and put back, or write and replace; one failing call |
| group and selections (verified file) | 3; one or two records | a keeper that fails and another that holds; a second item after the first |
| `Sessions`, `Watched`, `MaxPanics`, `MaxFaults` (session) | 2, 1, 2, 1 | one process reads what the other saves; two goroutines of one process panic; a failing call, a kill or a power loss, at any step |
| `Folders` | 2; 1 with the window | revisions, not names, tell folders apart in the code |
| `MaxProgress` | 1 | one late callback is as late as several: the queue is first in, first out |
| `MaxFaults`, `MaxForeign` (consolidation) | 2, 2 | a failed step and a failed repair; a creation and a write |
| group and requests | 3 members | two targets to one keeper, and one target with two candidates |
| workers | 3 and 2 | one busy, one asleep and one abandoning the scan; two hash at once |
| `MaxRoots`, `MaxDirectories`, `MaxFiles` (surface) | 2, 3, 2 | the lists of roots reach each limit and exceed it |
| `MaxWrites`, `MaxFaults` (matching) | 1, 1 | a file is different before and after each of the reads |
| `MaxGeneration`, `MaxRevision` (preview) | 7 and 2 | queued, in preparation, posted and newest, and a comparison before each |
| `MaxFaults`, `MaxForeign` (report) | 2, 1 | an error and an error of its clean-up; one competing writer |

Bounds are conjuncts of guards; they stop the user or the environment, never the
program. `CHECK_DEADLOCK FALSE` stands in the runs whose system ends (a request, a
scan, an export, a closed window) or whose user may stop at a bound.

### Fairness

Weak fairness of what the Go scheduler, the message loop and terminating calls give,
and of nothing else; nothing is ever assumed of the user, of other programs, of a
fault or of a crash.

- `OperationState`: every worker goroutine ends and posts its completion.
- `GuiWorkflow`: the loop runs posted callbacks, goroutines return. Progress is owed
  nothing.
- `Consolidate`: the request goes on (one goroutine, no lock).
- `SurfaceScan`, `DuplicateScan`: each goroutine that can run runs. Weak fairness per
  worker is enough; a worker asleep on the condition variable is *not* enabled until it
  is signalled, so a lost wakeup would show as a violation.
- `Preview`: the worker, `submit`, posted callbacks and the end of an export.
- `Session`: a goroutine inside `WriteCrashReport` runs on.
- `ReportExport` and `VerifiedFile` state safety only.

## 4. What is proved

Every theorem holds for all values of the constants that satisfy the assumption the
module states of them.

### The application state (`OperationStateProofs`)

| Theorem | Establishes |
|---|---|
| `Invariance` | `Spec => []IInv` |
| `TypeCorrect` | `[]TypeOK`, which no run needs to repeat |
| `PhaseAgreement` | phase, token and cancel function agree |
| `EffectsAreNotAbandoned` | no export or batch is abandoned by the window |
| `NoUncancelledOrphan` | a worker nobody waits for has been cancelled |
| `SingleWorker` | at most one worker, on the folder and revision on screen |
| `CancelledScans` | the action property `CancelledScansNeverPublish` |
| `Refinement` | `Spec => ImplementsForeground` |

The properties are not inductive one by one: a deferred close is safe because the
phase tells whether guarded work is active, which holds because nothing begins while a
worker is out, which holds because idle phases have no worker. `IInv` is their
conjunction with `CancellationIsVisible`, `CloseIsRemembered` and `GenerationsBehind`:
generations never run ahead of the counter, so a new token is never already cancelled,
and while the window is up the only worker is the active one. The key lemma is
`IdleMeansQuiet`: in an idle phase there is no active token, no worker, no cancel
function and no pending close. One lemma per group of actions follows (`BeginIInv`,
`FolderChangeIInv`, `CancelIInv`, `ScanCompletionIInv`, …), then a case split over
`Next`. `Refinement` maps every step to a step or a stutter of `ForegroundOperation`
from `IInv`.

### Keep rules and plans (`GuiWorkflowProofs`)

| Theorem | Establishes |
|---|---|
| `KeeperFollowsThePolicy` | the keeper lies below the first priority folder any member lies below, and no member of that tier beats it |
| `PolicyIsAccepted` | `validateSelectionInvariant` never rejects what the rules select |
| `PlanLeavesACopy` | a plan leaves a physical copy of each group it touches, whatever is ticked |
| `KeepRuleIsPlannable` | what a rule ticks is never refused, for disjoint groups of distinct physical files |

`selectKeeper` sorts and takes the first; the model says that the keeper precedes every
other candidate. That such a first one exists for every finite set is `FirstExists`:
the order on time and path is total, and the sets of the members that precede each
member have a smallest one, because strict inclusion of finite sets is well-founded. `PlanLeavesACopy` compares
cardinalities of images, not of ticked rows, hence the lemma that a proper part of a
finite set of copies is smaller.

### The window (`GuiWorkflowProofs`)

| Theorem | Establishes |
|---|---|
| `ConfirmedPlansLeaveAKeeper` | `Spec => []PlansLeaveAKeeper` |
| `WindowRefinesOperationState` | `Spec => ImplementsOperationState` |
| `ScreenIsCurrent` | `Spec => []PublishedBelongsToScreen` |
| `RunningPlanIsCurrent` | `Spec => []RunningPlanIsOnScreen` |

The first rests on `IInv`: the groups of the table, and those of posted callbacks, are
sets of files, and a plan held by the confirmation or by the worker was made by
`PlanFor`. The second rests on `TInv`: every goroutine and every posted completion
carries the token of a worker that is out, no two carry the same one, and no token has
a generation beyond the counter, so a new one differs from all. Only with that is
taking a completion off the queue a step of `OperationState`. Together with
`Refinement` the window inherits the invariants of the state machine and its promise.

That inheritance is used: `Machine == INSTANCE OperationStateProofs` makes the theorems
of the state machine available over the window's variables, and `SInv` rests on them.
A scan at work, or its posted completion, knows the revision of the folder it was
started on, and no folder is selected without invalidating it. While an export or a
batch is the active operation no completion of a scan is accepted and no review action
is enabled, so the ticks and groups it was given are still those of the table. A dialog
that is up shows the plan of the table, because callbacks that could change the table
meanwhile are completions of work that a dialog's phase excludes.

### The surface scan (`SurfaceScanProofs`)

| Theorem | Establishes |
|---|---|
| `NoLostWakeup` | `Spec => []SleepersHaveAWaker` |
| `SuccessIsDrained` | a successful scan left nothing queued, nothing pending and no error behind |
| `CancellationIsHonest` | `cancelled` is returned only to a caller that cancelled, and no worker's `queue-closed` ever surfaces |
| `NoFileIsMissed` | `Spec => []SuccessIsComplete` |
| `ErrorsAreEarned` | `Spec => []ErrorsAreDeserved` |
| `ScanKeepsThePromise` | `Spec => KeepsThePromise`, the refinement of `Inventory` |

They hold for every finite tree, every number of workers of at least one (`engine.go`
74-76 sees to that) and all limits. The queue part of the invariant counts: `pending`
is the length of the queue plus the number of busy workers, and while anybody sleeps
there are at least as many awake workers on their way to `next` as there are queued
directories. One signal per `add` is enough only because of that inequality; a worker
that goes to sleep keeps it because it found the queue empty, and then the count says
that somebody is busy. The failure part is the order inside `fail`: the error is kept
before the derived context is cancelled and that before the queue is closed, so a
worker that meets a cancelled context or a closed queue has a kept error or a cancelled
caller behind it. Both parts meet in `Conclude`: with no kept error and every worker
gone, `pending` is zero, hence the queue is empty.

The last three rest on a ledger (`LedgerInv`). As long as nothing was skipped and nobody
failed (`Flawless`), the times a file has been recorded plus the times it is still
reachable from what is queued, in a worker's hands or in the root being admitted is the
number of visited roots that reach it (`RecordsAddUp`). Until there is a result, the same
sum over all files, or all directories, is a bound on the budget's counter
(`WithinRoots`): what is skipped or given up only lowers it. The same
bound holds for each file by itself. A step moves work from one place to another: reading a directory turns what is below it
into what is below its entries, once each, because siblings have nothing below them in
common (`EntriesAreApart`) and the directory is not below itself. When a scan succeeds
no work is left (`SuccessIsDrained`), so the sum is what was recorded. When a limit is
hit the counter is full and one more entry is in hand, so the sum, which is that of the
roots, exceeds the limit. Directories are counted when they are reserved, before they
are queued, hence what is queued or in hand owes what is below it without itself. A
root that changed is the mark of a fault, and every error a worker can have is tied to
its cause.

For the refinement every step of a worker, of the caller or of the watcher is a step of
`Inventory` or a stutter. Taking a root, counting an ignored read and cancelling map
directly. Recording a file needs the bound on the single file: the file is in the
worker's hands, so it is still owed, and what has been recorded of it is less than what
is due (`OwedIsDue`), flawless or not. The `ok` of `Conclude` needs `NoFileIsMissed` in
the state it leads to, and that nothing happens after the answer needs that every
worker is gone, or never started, when it is given.

### Consolidation (`ConsolidateProofs`)

| Theorem | Establishes |
|---|---|
| `KeeperStaysPinned` | `Spec => []KeeperIsPinned` |
| `NothingIsLost` | `Spec => RemovalIsBacked` |
| `ForeignFilesAreKept` | `Spec => ForeignFilesStay` |
| `ConsolidateRefinesContract` | `Spec => ImplementsContract` |

`DiskInv` says what the two handles pin. From its verification to its close the keeper
is unselected, unedited and at its path, because its handle shares neither writing nor
deletion; the target is pinned likewise while it is open, and what is at its path, at
the backup path and in the directory follows from the step of the adapter that has been
reached. Removal happens at one step and with the handles open, hence what is removed
is backed. A path of another program stays because a link and a rename back are made
without replacing. For the refinement `ReportInv` adds that each item answered so far
agrees with the fate of its file. Each step then stutters, moves one file, tells of one
file or rejects the request, one case each.

### Verified reads and recycling (`VerifiedFileProofs`)

| Theorem | Establishes |
|---|---|
| `OnlyTheRecordIsRead` | `Spec => []ReadsAreOfTheRecord` |
| `KeeperStays` | `Spec => []KeeperOutlivesTheFile` |
| `OnlyTheRecordIsRecycled` | `Spec => []RecycledIsTheRecord` |

A call looks at its record three times, and the invariant lists what each look has
established and who can still undo it. A snapshot that equals the record implies the
stamp of the record, and a stamp says which bytes the file has, since every write
changes it. An open handle that denies deletion pins the name of the file and the way
to it (`PinInv`), and other programs act only where no handle pins; so when the last
look finds the same file at the same path, what was read between the looks was that
file at that version (`ReadInv`). For recycling the keeper's handle stays open over the
whole item, a keeper is never among the targets, and the bin holds only targets that
were processed, or the stranger an adapter took that acts on the path (`BinInv`).

### Duplicate matching (`DuplicateScanProofs`)

| Theorem | Establishes |
|---|---|
| `PublishedGroupsAreExact` | `Spec => []GroupsAreExact` |
| `NoDuplicateIsMissed` | `Spec => []SuccessIsComplete` |

A stamp only breaks: once a file has been written to it never again has the stamp of its
refreshed record (`StampInv`, `WritesBreakStamps`). What a worker read is the stamped
content whenever the stamp still holds at the verification after the read, so every
key that is sent is the hash of stamped content (`JobInv`, `KeyInv`). Files with one
full key are therefore equal, and equal files of the inventory have equal keys at each
stage (`StagesNarrow`): the candidates of a stage contain every file that has an equal
one. Nothing is dropped between producer and collector: a due record is waiting, with a
worker or keyed, unless an error was counted, the scan was cancelled or failed
(`ChannelInv`). With the pipeline drained this gives completeness.

### Reports (`ReportExportProofs`)

| Theorem | Establishes |
|---|---|
| `WholeReportsOnly` | `Spec => []DestinationIsWhole` |
| `OutcomesAreHonest` | `Spec => []OutcomeIsHonest` |
| `ExitCodesAreHonest` | `Spec => []ExitCodeIsHonest` |
| `OnlyByConsent` | `Spec => OnlyConsentedIsReplaced` |
| `TotalsAreCountedOnce` | `Spec => []TotalsCountOnce` |

What has been staged and what is buffered are one chain of places from the header on,
each the one behind the one before it (`UpTo`); the writer is at the end of the chain,
and an export without an error gets past the writing only when that is the end of the
document and the buffer is empty. The rename follows the sync, so a report that can be
seen at a destination is whole and on the disk. Between the question and the rename,
what the user agreed to lose is still there or another program touched the path.

The totals of `TotalsAreCountedOnce` are sums over all rows of a report. Each is the last
of its partial sums (`SumIsTheLastPartial`), which are followed from cell to cell: a row
adds its own amount once and the rows between two groups add nothing (`ReportColumn`,
`GroupColumn`). The library's induction principles cannot be instantiated, so each
induction takes a least counterexample instead (`UpToEveryNumber`): the order of the
natural numbers is well-founded, and a set of them that is not empty has a least member.

### Sessions and their previews (`SessionProofs`)

| Theorem | Establishes |
|---|---|
| `PreferencesStayWhole` | `Spec => []PreferencesAreWhole` |
| `PanicsAreReported` | `Spec => []PanicsLeaveReports` |
| `LogsTellTheEnd` | `Spec => []LogTellsTheEnd` |
| `PagesHaveOwners` | `PaneSpec => []NoOrphanedPage` |
| `PaneIsCurrent` | `PaneSpec => PreviewsAreCurrent` |

The invariant of the processes is one of the preference file (`TargetInv`) and one of
each session (`PrefsInv`, `LogInv`, `PanicInv`). A step of one session changes nothing of
another's (`OthersStay`), so each action is looked at for its own session only. A
process can die in many ways; one lemma says what it may leave in all of them
(`DieStep`): a report is partial only while its writer holds the mutex, or after two
panics wanted the same file.

For the pane, `TokenInv` says that generations are given out in order and that a request
of the active token is one for what the table shows, wherever the request is: waiting
in `submit`, queued, with the worker or posted. Every change of the table invalidates or
takes a new generation, so an old request never fits again. `PageInv` follows a page
from the moment its directory is made: it is the worker's, then that of one posted
result, then the pane's, or removed. It needs to know that only the answer to a
comparison has a page and a failed one has none, since such a result is shown without
looking at its page.

### What is only model-checked

- Liveness (`WorkEndsInControls`, `CloseCompletes`, `EveryItemIsAnswered`, `ScanEnds` of
  both scans, `RequestsSettle`, `ReportsComplete`): properties under fairness and ENABLED
  are beyond the prover.
- The violation runs, whose counterexamples need no proof.

## 5. What is abstracted or left out

- File contents, names, hashes and formats are values that differ where the code can
  tell a difference. Two different contents never hash alike: a collision of SHA-256
  is outside the model.
- `VerifiedFile` takes the sharing rules of Windows as given: nothing is written or
  renamed against the sharing mode of an open handle, no directory above an open file
  is renamed, and every write changes the time stamp or the size of a file. A write
  that restores both is not seen by the code either.
- Category and safety filters: the files of the scans are those that pass. Tables of
  categories and system names are data.
- How a priority folder is cleaned, and compared with a path regardless of case
  (`keeprules.go`), is a set of files per folder; `filters.go` is predicates on one
  record.
- Windows and COM calls are external: they succeed, or fail with no effect, or, for a
  recycle adapter, do something else than they say.
- The recycle path of the window (`confirmRecycleSelected`, `applyRecycleBatch`) is
  behind a closed gate. What it would call is in `VerifiedFile`.
- In `GuiWorkflow` a worker returns with any outcome the operation can have; the steps
  inside are those of the other modules.
- Texts, layout, the content of crash reports, flag parsing, message boxes, version
  strings and the PowerShell release scripts are not modelled: they have no state of
  their own that a property could be about.

## 6. Plan

Done: every module of section 2, its runs, and proofs of every safety and action property
that the passing runs check.

1. Compositions: one scan feeding one match (`SurfaceScan` into `DuplicateScan`,
   overlapping roots included), and a batch of several requests over one directory.
2. An abstract specification of the whole scan, from a tree to its groups. Its first
   half is `Inventory`; the half of the matching, and the proof that the two together
   implement it, are left.
