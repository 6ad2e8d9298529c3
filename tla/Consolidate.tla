------------------------------- MODULE Consolidate -------------------------------
(***************************************************************************)
(* ConsolidateExactDuplicates (internal/scanner/hardlink.go) with the      *)
(* Windows adapter (hardlink_windows.go): one request, its targets one     *)
(* after the other, each step a call that may fail, in a directory that    *)
(* other programs change at every point the open handles allow.            *)
(*                                                                         *)
(* A member of the group stands both for its scanned record and for the    *)
(* file (VolumeSerial + FileId) that record identifies.                    *)
(***************************************************************************)
EXTENDS Naturals, Sequences, FiniteSets, SequencesExt

CONSTANTS
  Group,        \* the members of the duplicate group, in group order
  Requests,     \* the sequences a caller may select
  Nothing,      \* no file
  Alien,        \* a file another program created
  Volumes,      \* the sets of members that may lie on a second volume
  MaxFaults,    \* bound: calls that fail
  MaxForeign,   \* bound: steps of other programs
  MayCancel     \* whether the caller may cancel its context

Members == Range(Group)

ASSUME ConsolidateAssumption ==
  /\ IsInjective(Group)
  /\ \A r \in Requests : r \in Seq(Members \cup {Alien})
  /\ Nothing # Alien /\ {Nothing, Alien} \cap Members = {}
  /\ MaxFaults \in Nat /\ MaxForeign \in Nat /\ MayCancel \in BOOLEAN
  /\ \A v \in Volumes : v \subseteq Members

VARIABLES
  request, elsewhere,   \* the selection; the members on another volume
  at,                   \* the file each original path names
  backup,               \* the file each member's backup path names
  edited,               \* files another program wrote to since the scan
  pc, next,             \* control; index of the target being served
  untried, seen,        \* keepers still to try; statuses of those refused
  keeper,               \* file the keeper handle holds, Nothing for none
  held,                 \* the target handle is open
  marked,               \* the target handle is delete-on-close
  verdict,              \* result of the current target
  items,                \* HardlinkResult.Items
  fate,                 \* where this operation left each member's bytes
  cancelled, faults, foreign

input == <<request, elsewhere>>
files == <<at, backup, edited>>
search == <<untried, seen>>
handles == <<keeper, held, marked>>
outside == <<cancelled, foreign>>
vars == <<request, elsewhere, at, backup, edited, pc, next, untried, seen,
          keeper, held, marked, verdict, items, fate, cancelled, faults,
          foreign>>

--------------------------------------------------------------------------------
Statuses == {"consolidated", "skipped-changed", "skipped-protected",
             "skipped-cross-volume", "cancelled", "failed"}
Item(path, status, retained) ==
  [path |-> path, status |-> status, backup |-> retained]
NoVerdict == [path |-> Nothing, status |-> "none", backup |-> FALSE]

(* validateRecycleRequest: members only, none twice, and one spared. *)
Valid(r) ==
  /\ Len(Group) >= 2
  /\ r # <<>>
  /\ Range(r) \subseteq Members
  /\ IsInjective(r)
  /\ Range(r) # Members

(* The members that are spared, by their place in the group. *)
Keepers == {i \in DOMAIN Group : Group[i] \notin Range(request)}
Target == request[next]

Names(f) == {m \in Members : at[m] = f} \cup {m \in Members : backup[m] = f}
LinkCount(f) == Cardinality({m \in Members : at[m] = f})
                + Cardinality({m \in Members : backup[m] = f})

\* mutant: the target handle shares writing and deletion
TargetShared(f) == f = keeper
\* mutant: the keeper handle shares writing and deletion
KeeperShared(f) == held /\ f = Target

(* Neither handle shares writing or deletion with other programs. *)
HeldFile(f) == f = keeper \/ (held /\ f = Target)

MayFail == faults < MaxFaults
Fail == MayFail /\ faults' = faults + 1

(* What opening and verifying the record of m finds: openVerifiedRecord and *)
(* openVerifiedConsolidationTarget agree.  A cancelled context ends either  *)
(* at its first check or while the content is hashed.                       *)
Verification(m) ==
  IF cancelled THEN "cancelled"
  ELSE IF at[m] = Nothing THEN "skipped-changed"
  ELSE IF LinkCount(at[m]) # 1 THEN "skipped-protected"
  ELSE IF at[m] = m /\ m \notin edited THEN "verified"
  ELSE "skipped-changed"

(* The status of a target none of whose keepers verified. *)
WorstOf(statuses) ==
  IF "skipped-changed" \in statuses THEN "skipped-changed"
  ELSE IF "skipped-protected" \in statuses THEN "skipped-protected"
  ELSE "failed"

--------------------------------------------------------------------------------
Init ==
  /\ request \in Requests
  /\ elsewhere \in Volumes
  /\ at = [m \in Members |-> m]
  /\ backup = [m \in Members |-> Nothing]
  /\ edited = {}
  /\ pc = "validate" /\ next = 1
  /\ untried = {} /\ seen = {}
  /\ keeper = Nothing /\ held = FALSE /\ marked = FALSE
  /\ verdict = NoVerdict
  /\ items = <<>>
  /\ fate = [m \in Members |-> "home"]
  /\ cancelled = FALSE /\ faults = 0 /\ foreign = 0

(* The request is refused as a whole, or the loop over targets starts. *)
Validate ==
  /\ pc = "validate"
  /\ IF Valid(request)
       THEN pc' = "next" /\ UNCHANGED items
       ELSE /\ pc' = "done"
            /\ items' = [i \in DOMAIN request |->
                           Item(request[i], "failed", FALSE)]
  /\ UNCHANGED <<input, files, next, search, handles, verdict, fate, faults,
                 outside>>

NextTarget ==
  /\ pc = "next"
  /\ IF next > Len(request)
       THEN pc' = "done" /\ UNCHANGED <<next, search, items>>
       ELSE IF cancelled
         THEN /\ items' = Append(items, Item(Target, "cancelled", FALSE))
              /\ next' = next + 1
              /\ UNCHANGED <<pc, search>>
         ELSE /\ pc' = "keeper" /\ untried' = Keepers /\ seen' = {}
              /\ UNCHANGED <<next, items>>
  /\ UNCHANGED <<input, files, handles, verdict, fate, faults, outside>>

(* The current target ends with this status; its handles still close. *)
Conclude(status, retained) ==
  /\ verdict' = Item(Target, status, retained)
  /\ pc' = "closeTarget"

\* mutant: the loop tries the same keeper again
SameCandidate(i) == untried

(* Keepers are tried in group order; one that does not verify gives way to  *)
(* the next.                                                                *)
NextCandidate(i) == untried \ {i}
Refused(i, status) ==
  IF status = "cancelled"
    THEN Conclude("cancelled", FALSE) /\ UNCHANGED search
    ELSE /\ untried' = NextCandidate(i) /\ seen' = seen \cup {status}
         /\ UNCHANGED <<pc, verdict>>

TryKeeper ==
  /\ pc = "keeper"
  /\ \E i \in untried :
       /\ \A j \in untried : i <= j
       /\ \/ /\ Verification(Group[i]) = "verified"
             /\ keeper' = Group[i] /\ pc' = "volume"
             /\ UNCHANGED <<search, verdict, faults>>
          \/ /\ Verification(Group[i]) # "verified"
             /\ Refused(i, Verification(Group[i]))
             /\ UNCHANGED <<keeper, faults>>
          \/ Fail /\ Refused(i, "failed") /\ UNCHANGED keeper
  /\ UNCHANGED <<input, files, next, held, marked, items, fate, outside>>

NoKeeper ==
  /\ pc = "keeper" /\ untried = {}
  /\ Conclude(WorstOf(seen), FALSE)
  /\ UNCHANGED <<input, files, next, search, handles, items, fate, faults,
                 outside>>

CompareVolumes ==
  /\ pc = "volume"
  /\ IF (keeper \in elsewhere) # (Target \in elsewhere)
       THEN Conclude("skipped-cross-volume", FALSE)
       ELSE IF cancelled THEN Conclude("cancelled", FALSE)
       ELSE pc' = "open" /\ UNCHANGED verdict
  /\ UNCHANGED <<input, files, next, search, handles, items, fate, faults,
                 outside>>

OpenTarget ==
  /\ pc = "open"
  /\ \/ /\ Verification(Target) = "verified"
        /\ held' = TRUE /\ pc' = "prepare"
        /\ UNCHANGED <<verdict, faults>>
     \/ /\ Verification(Target) # "verified"
        /\ Conclude(Verification(Target), FALSE)
        /\ UNCHANGED <<held, faults>>
     \/ Fail /\ Conclude("failed", FALSE) /\ UNCHANGED held
  /\ UNCHANGED <<input, files, next, search, keeper, marked, items, fate,
                 outside>>

(* Resolve both final paths, draw a backup name, look at the context. *)
Prepare ==
  /\ pc = "prepare"
  /\ \/ Fail /\ Conclude("failed", FALSE)
     \/ cancelled /\ Conclude("cancelled", FALSE) /\ UNCHANGED faults
     \/ ~cancelled /\ pc' = "aside" /\ UNCHANGED <<verdict, faults>>
  /\ UNCHANGED <<input, files, next, search, handles, items, fate, outside>>

RenameAside ==
  /\ pc = "aside"
  /\ \/ /\ Fail /\ Conclude("failed", FALSE)
        /\ UNCHANGED <<at, backup, fate>>
     \/ /\ at' = [at EXCEPT ![Target] = Nothing]
        /\ backup' = [backup EXCEPT ![Target] = Target]
        /\ fate' = [fate EXCEPT ![Target] = "aside"]
        /\ pc' = "link"
        /\ UNCHANGED <<verdict, faults>>
  /\ UNCHANGED <<input, edited, next, search, handles, items, outside>>

(* Cancellation, a name already taken, or a failing call leads to restore, *)
(* which remembers in the verdict what it will report.                     *)
Undo(status) ==
  /\ verdict' = Item(Target, status, FALSE)
  /\ pc' = "restore"

\* mutant: the rename and the link replace what they find
ReplaceIfExists(m) == at[m] \in {Nothing, Alien}

Vacant(m) == at[m] = Nothing

LinkKeeper ==
  /\ pc = "link"
  /\ \/ cancelled /\ Undo("cancelled") /\ UNCHANGED <<at, faults>>
     \/ /\ ~cancelled /\ ~(Vacant(Target) /\ at[keeper] # Nothing)
        /\ Undo("failed")
        /\ UNCHANGED <<at, faults>>
     \/ ~cancelled /\ Fail /\ Undo("failed") /\ UNCHANGED at
     \/ /\ ~cancelled /\ Vacant(Target) /\ at[keeper] # Nothing
        /\ at' = [at EXCEPT ![Target] = at[keeper]]
        /\ pc' = "check"
        /\ UNCHANGED <<verdict, faults>>
  /\ UNCHANGED <<input, backup, edited, next, search, handles, items, fate,
                 outside>>

\* mutant: the backup path is dropped from the result
RestoreFailedSilently == Conclude("failed", FALSE)

(* The rename back never replaces what took the path meanwhile; when it     *)
(* fails, whatever the cause, the item fails and names its backup.          *)
RestoreFailed == Conclude("failed", TRUE)

RestoreOrReport ==
  /\ pc = "restore"
  /\ \/ /\ Vacant(Target)
        /\ at' = [at EXCEPT ![Target] = Target]
        /\ backup' = [backup EXCEPT ![Target] = Nothing]
        /\ fate' = [fate EXCEPT ![Target] = "home"]
        /\ Conclude(verdict.status, FALSE)
        /\ UNCHANGED faults
     \/ /\ \/ ~Vacant(Target) /\ UNCHANGED faults
           \/ Fail
        /\ RestoreFailed
        /\ UNCHANGED <<at, backup, fate>>
  /\ UNCHANGED <<input, edited, next, search, handles, items, outside>>

(* Step 4: the original path must resolve to the keeper's identity. *)
CheckLink ==
  /\ pc = "check"
  /\ \/ /\ at[Target] = keeper
        /\ pc' = "dispose"
        /\ UNCHANGED <<verdict, faults>>
     \/ /\ at[Target] # keeper
        /\ Conclude("failed", TRUE)
        /\ UNCHANGED faults
     \/ Fail /\ Conclude("failed", TRUE)
  /\ UNCHANGED <<input, files, next, search, handles, items, fate, outside>>

DisposeBackup ==
  /\ pc = "dispose"
  /\ \/ /\ marked' = TRUE
        /\ fate' = [fate EXCEPT ![Target] = "replaced"]
        /\ Conclude("consolidated", FALSE)
        /\ UNCHANGED faults
     \/ Fail /\ Conclude("failed", TRUE) /\ UNCHANGED <<marked, fate>>
  /\ UNCHANGED <<input, files, next, search, keeper, held, items, outside>>

(* Closing a delete-on-close handle removes the name its file has now. *)
Released ==
  IF marked THEN [backup EXCEPT ![Target] = Nothing] ELSE backup

CloseTarget ==
  /\ pc = "closeTarget"
  /\ backup' = Released
  /\ held' = FALSE /\ marked' = FALSE
  /\ pc' = "closeKeeper"
  /\ UNCHANGED <<input, at, edited, next, search, keeper, verdict, items, fate,
                 faults, outside>>

CloseKeeper ==
  /\ pc = "closeKeeper"
  /\ keeper' = Nothing
  /\ items' = Append(items, verdict)
  /\ verdict' = NoVerdict
  /\ next' = next + 1
  /\ pc' = "next"
  /\ UNCHANGED <<input, files, search, held, marked, fate, faults, outside>>

--------------------------------------------------------------------------------
(* The caller may cancel; the process may die, which closes its handles. *)
Cancel ==
  /\ MayCancel /\ ~cancelled /\ pc \notin {"done", "crashed"}
  /\ cancelled' = TRUE
  /\ UNCHANGED <<input, files, pc, next, search, handles, verdict, items, fate,
                 faults, foreign>>

Crash ==
  /\ pc \notin {"done", "crashed"}
  /\ pc' = "crashed"
  /\ backup' = Released
  /\ keeper' = Nothing /\ held' = FALSE /\ marked' = FALSE
  /\ UNCHANGED <<input, at, edited, next, search, verdict, items, fate, faults,
                 outside>>

(* Another program writes to a file, removes or moves away a name, or       *)
(* creates a file at a free original path.  Backup names are random: no     *)
(* other program creates one, though it may come across it.                 *)
Foreign ==
  /\ foreign < MaxForeign /\ foreign' = foreign + 1
  /\ \/ \E f \in Members \ edited :
          /\ Names(f) # {} /\ ~HeldFile(f)
          /\ edited' = edited \cup {f}
          /\ UNCHANGED <<at, backup>>
     \/ \E m \in Members :
          \/ /\ ~Vacant(m) /\ ~HeldFile(at[m])
             /\ at' = [at EXCEPT ![m] = Nothing]
             /\ UNCHANGED <<backup, edited>>
          \/ /\ Vacant(m)
             /\ at' = [at EXCEPT ![m] = Alien]
             /\ UNCHANGED <<backup, edited>>
          \/ /\ backup[m] # Nothing /\ ~HeldFile(backup[m])
             /\ backup' = [backup EXCEPT ![m] = Nothing]
             /\ UNCHANGED <<at, edited>>
  /\ UNCHANGED <<input, pc, next, search, handles, verdict, items, fate,
                 cancelled, faults>>

Work ==
  \/ Validate \/ NextTarget \/ TryKeeper \/ NoKeeper \/ CompareVolumes
  \/ OpenTarget \/ Prepare \/ RenameAside \/ LinkKeeper \/ RestoreOrReport
  \/ CheckLink \/ DisposeBackup \/ CloseTarget \/ CloseKeeper

Next == Work \/ Cancel \/ Crash \/ Foreign

Spec == Init /\ [][Next]_vars

(* The request runs on its own goroutine: it goes on as long as it can. *)
FairSpec == Spec /\ WF_vars(Work)

--------------------------------------------------------------------------------

(* From the moment a target leaves its path until its handle closes, the    *)
(* keeper is still the unchanged, unselected file of its own record: no     *)
(* other program can have edited, moved or removed it.  (The comments at    *)
(* hardlink.go 96-99 and hardlink_windows.go 25-35.)                        *)
KeeperIsPinned ==
  pc \in {"link", "restore", "check", "dispose"} \/ marked =>
    /\ keeper \in Members \ Range(request)
    /\ at[keeper] = keeper
    /\ keeper \notin edited

(* A file the operation removes, now or by dying, held the content of the   *)
(* group to the end, and the path it was scanned at names an unselected     *)
(* member with that content (hardlink.go 12-16: nothing the user had is     *)
(* lost, whichever call fails and whatever other programs do).              *)
RemovalIsBacked ==
  [][foreign' = foreign =>
       \A f \in Members : Names(f) # {} /\ Names(f)' = {} =>
         /\ f \notin edited
         /\ at[f] \in Members \ (Range(request) \cup edited)]_vars

(* Consolidation never takes a path from a file of another program, even    *)
(* one that appeared while the target was aside (hardlink_windows.go        *)
(* 196-197: "consolidation never overwrites").                              *)
ForeignFilesStay ==
  [][foreign' = foreign =>
       \A m \in Members : at[m] = Alien => at'[m] = Alien]_vars

(* Unless the process dies, every selected path gets exactly one result, in *)
(* the order of the selection (hardlink.go 65-76).                          *)
EveryItemIsAnswered ==
  <>(\/ pc = "crashed"
     \/ pc = "done" /\ [i \in DOMAIN items |-> items[i].path] = request)

ReportOf(m) ==
  LET about == {i \in DOMAIN items : items[i].path = m}
  IN IF about = {} THEN "none"
     ELSE LET item == items[CHOOSE i \in about : TRUE]
          IN IF item.status = "consolidated" THEN "consolidated"
             ELSE IF item.backup THEN "retained" ELSE "kept"

Contract == INSTANCE HardlinkContract
  WITH Items <- Members, report <- [m \in Members |-> ReportOf(m)],
       crashed <- pc = "crashed"

(* What is reported of a file is where its bytes are: consolidated means    *)
(* replaced, a backup path means set aside, anything else means untouched;  *)
(* and at most one file is in between (hardlink.go 31-38).                  *)
ImplementsContract == Contract!Spec

--------------------------------------------------------------------------------
(* hardlink.go 54-55: "replaces each selected duplicate with a hardlink to  *)
(* a verified keeper": if nothing fails or interferes and all files are on  *)
(* one volume, every selected file is consolidated.                         *)
UndisturbedRequestsConsolidate ==
  pc = "done" /\ Valid(request) /\ elsewhere = {} /\ ~cancelled
      /\ faults = 0 /\ foreign = 0 =>
    \A i \in DOMAIN items : items[i].status = "consolidated"

================================================================================
