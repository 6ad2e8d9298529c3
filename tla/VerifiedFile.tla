------------------------------- MODULE VerifiedFile -------------------------------
(***************************************************************************)
(* What the scanner does before it trusts the bytes behind a record        *)
(* (internal/scanner/file_snapshot.go): the authorized root, the path      *)
(* components, the handle and its snapshot are checked, the bytes used,    *)
(* and everything checked again, while other programs write, rename,       *)
(* replace and link files, and swap the directories above them.  One call  *)
(* is modelled, of one of its users: boundaryHash and fullHash (engine.go),*)
(* shellThumbnailForVerifiedRecord (preview), recycleExactDuplicates       *)
(* (delete.go) with an adapter such as its tests inject.                   *)
(*                                                                         *)
(* The sharing rules are those of Windows: a file is neither written nor   *)
(* renamed against the sharing mode of an open handle, and no directory    *)
(* above an open file is renamed.                                          *)
(***************************************************************************)
EXTENDS Naturals, Sequences, FiniteSets

CONSTANTS
  Group,          \* the records of one duplicate group, in its order
  Stranger,       \* a file that no scan recorded
  Nothing,        \* no file
  Purposes,       \* which calls to check
  Selections,     \* sequences of records a recycle request may select
  Adapters,       \* recycle adapters
  MaxChanges,     \* bound: what other programs do
  MaxFaults       \* bound: opens, reads and adapter calls that fail

Records == {Group[i] : i \in DOMAIN Group}
Files == Records \cup {Stranger}
Hashing == {"boundary", "full"}

ASSUME VerifiedFileAssumption ==
  /\ Group \in Seq(Records) /\ Group # <<>>
  /\ Stranger \notin Records /\ Nothing \notin Files
  /\ Purposes \subseteq Hashing \cup {"preview", "recycle"}
  /\ Selections \subseteq Seq(Records)
  /\ \A s \in Selections : \* validateRecycleRequest
       /\ \A i, j \in DOMAIN s : s[i] = s[j] => i = j
       /\ Records \ {s[i] : i \in DOMAIN s} # {}
  /\ Adapters \subseteq {"refuse", "path", "handle"}
  /\ MaxChanges \in Nat /\ MaxFaults \in Nat

VARIABLES
  file,          \* each file: its bytes, time stamp, links, named streams
  entry,         \* the files in each directory, under the records' names
  way,           \* where the recorded directory path leads now
  bin,           \* files recycled
  purpose, adapter,
  todo, items,   \* recycle: targets left, outcome of each record
  role,          \* of the record verified: "keeper" or "target"
  subject, candidates, saw,   \* the record; keepers left; why others failed
  pc, look,      \* control; 1: the handle used, 2: validate, 3: reopen
  handle, snap,  \* of each look
  got,           \* bytes read, chunk by chunk
  shown,         \* what the shell rendered
  keeper,        \* the keeper's handle
  receipt, error, result,
  cancelled, changes, faults

disk == <<file, entry, way, bin>>
request == <<purpose, adapter>>
recycling == <<todo, items, role, subject, candidates, saw, keeper, receipt>>
looking == <<look, handle, snap>>
yield == <<got, shown, result>>
bounds == <<cancelled, changes, faults>>
vars == <<file, entry, way, bin, purpose, adapter, todo, items, role, subject,
          candidates, saw, pc, look, handle, snap, got, shown, keeper, receipt,
          error, result, cancelled, changes, faults>>

Dirs == {"home", "elsewhere"}
Looks == 1..3
Chunks == 2
Closed == [i \in Looks |-> Nothing]

Named(r) == entry[way.dir][r]
Recorded == [dir |-> "home", reparse |-> FALSE, root |-> TRUE]

(* Every file has its unnamed data stream. *)
NamedStreams(f) == Cardinality(file[f].streams \ {"data"})

(* fileSnapshot: all that is compared of a file; its bytes are not.         *)
Snapshot(f) == [id |-> f, stamp |-> file[f].stamp, links |-> file[f].links,
                streams |-> NamedStreams(f)]
ScannedAs(r) == [id |-> r, stamp |-> 0, links |-> 1, streams |-> 0]

--------------------------------------------------------------------------------
Init ==
  /\ file \in {[f \in Files |->
                 [bytes |-> IF f = Stranger THEN b ELSE 0,
                  stamp |-> 0, links |-> 1, streams |-> {"data"}]] : b \in {0, 9}}
  /\ entry = [d \in Dirs |-> [r \in Records |->
                IF d = "home" THEN r ELSE IF r = Group[1] THEN Stranger
                ELSE Nothing]]
  /\ way = Recorded /\ bin = {}
  /\ purpose \in Purposes
  /\ adapter \in IF purpose = "recycle" THEN Adapters ELSE {"refuse"}
  /\ todo \in IF purpose = "recycle" THEN Selections ELSE {<<>>}
  /\ items = [r \in Records |-> "none"]
  /\ role = "target" /\ subject = Group[1] /\ candidates = {} /\ saw = {}
  /\ pc = IF purpose = "recycle" THEN "next" ELSE "begin"
  /\ look = 1 /\ handle = Closed /\ snap = Closed
  /\ got = <<>> /\ shown = <<>> /\ keeper = Nothing /\ receipt = Nothing
  /\ error = "none" /\ result = "none"
  /\ cancelled = FALSE /\ changes = 0 /\ faults = 0

Goto(label) == pc' = label
Fault == faults < MaxFaults /\ faults' = faults + 1

(* Every error return closes what the chain opened.  verifyStableSnapshot-  *)
(* InScope reports what goes wrong on its second look as a changed file,    *)
(* unless it is the root.                                                   *)
Refuse(e) ==
  /\ Goto("refused")
  /\ error' = IF look = 3 /\ e # "root" THEN "changed" ELSE e
  /\ handle' = Closed /\ look' = 1
  /\ UNCHANGED snap

Go(label) == Goto(label) /\ UNCHANGED <<error, looking>>

Begin ==
  /\ pc = "begin"
  /\ IF cancelled /\ purpose # "preview" THEN Refuse("cancelled")
                                         ELSE Go("root")
  /\ UNCHANGED <<disk, request, recycling, yield, bounds>>

(* validateAuthorizedScope, before and after the open and at the very end:  *)
(* the path of the root still leads, without a redirection, to the object   *)
(* the user selected.                                                       *)
AuthorizedRoot == way.root

CheckRoot ==
  /\ pc \in {"root", "root-again", "root-last"}
  /\ \/ /\ IF ~AuthorizedRoot THEN Refuse("root")
           ELSE Go(CASE pc = "root" -> "components"
                     [] pc = "root-again" -> "accept"
                     [] pc = "root-last" -> "verified")
        /\ UNCHANGED faults
     \/ Fault /\ Refuse("root")
  /\ UNCHANGED <<disk, request, recycling, yield, cancelled, changes>>

(* validateNoTraversalReparseComponents *)
CheckComponents ==
  /\ pc = "components"
  /\ IF way.reparse THEN Refuse("reparse")
     ELSE IF Named(subject) = Nothing THEN Refuse("missing") ELSE Go("open")
  /\ UNCHANGED <<disk, request, recycling, yield, bounds>>

Open ==
  /\ pc = "open"
  /\ \/ /\ IF Named(subject) = Nothing THEN Refuse("missing")
           ELSE /\ handle' = [handle EXCEPT ![look] = Named(subject)]
                /\ Goto("bind")
                /\ UNCHANGED <<look, snap, error>>
        /\ UNCHANGED faults
     \/ Fault /\ Refuse("failed")
  /\ UNCHANGED <<disk, request, recycling, yield, cancelled, changes>>

(* validateOpenPathScope: the final path of the handle is the path asked.   *)
FinalPathMatches(f) == Named(subject) = f /\ ~way.reparse
Diverted == IF way.dir = "home" THEN "reparse" ELSE "escape"

Bind ==
  /\ pc = "bind"
  /\ IF ~FinalPathMatches(handle[look]) THEN Refuse(Diverted)
     ELSE /\ snap' = [snap EXCEPT ![look] = Snapshot(handle[look])]
          /\ Goto("root-again")
          /\ UNCHANGED <<look, handle, error>>
  /\ UNCHANGED <<disk, request, recycling, yield, bounds>>

\* mutant: times are not compared
SameExceptTime(left, right) == [left EXCEPT !.stamp = right.stamp] = right
SnapshotsEqual(left, right) == left = right

(* The hashes compare with the record first; preview does too, openVerified-*)
(* Record looks at links and streams before it does.                        *)
RecordVerdict(s) ==
  LET matches == SnapshotsEqual(ScannedAs(subject), s)
      protection == IF s.links # 1 THEN "hardlink"
                    ELSE IF s.streams # 0 THEN "stream" ELSE "none"
  IN IF purpose = "recycle" /\ protection # "none" THEN protection
     ELSE IF ~matches THEN "changed" ELSE protection

Accept ==
  /\ pc = "accept"
  /\ CASE look = 1 ->
            IF RecordVerdict(snap[1]) # "none"
              THEN Refuse(RecordVerdict(snap[1]))
              ELSE Go(IF purpose = "preview" THEN "shell" ELSE "read")
       [] look = 2 ->
            IF SnapshotsEqual(ScannedAs(subject), snap[2])
              THEN Go("stable") ELSE Refuse("changed")
       [] look = 3 ->
            LET expected == IF purpose = "preview" THEN snap[2] ELSE snap[1]
            IN IF SnapshotsEqual(expected, snap[3])
                 THEN /\ handle' = [handle EXCEPT ![3] = Nothing]
                      /\ Goto("root-last")
                      /\ UNCHANGED <<look, snap, error>>
                 ELSE Refuse("changed")
  /\ UNCHANGED <<disk, request, recycling, yield, bounds>>

(* copyWithContext looks at the context before every read, the last one     *)
(* included; boundaryHash between the head and the tail only.               *)
LooksAtContext == purpose # "boundary" \/ Len(got) = 1

Read ==
  /\ pc = "read"
  /\ \/ /\ cancelled /\ LooksAtContext /\ Refuse("cancelled")
        /\ UNCHANGED <<got, faults>>
     \/ /\ ~(cancelled /\ LooksAtContext) /\ Len(got) < Chunks
        /\ got' = Append(got, file[handle[1]].bytes)
        /\ Go("read") /\ UNCHANGED faults
     \/ /\ ~(cancelled /\ LooksAtContext) /\ Len(got) = Chunks
        /\ Go("stable") /\ UNCHANGED <<got, faults>>
     \/ Fault /\ Refuse("failed") /\ UNCHANGED got
  /\ UNCHANGED <<disk, request, recycling, shown, result, cancelled, changes>>

(* verifyStableSnapshotInScope: the handle again, then the path again.      *)
CheckStable ==
  /\ pc = "stable"
  /\ LET held == IF purpose = "preview" THEN 2 ELSE 1 IN
       IF ~SnapshotsEqual(snap[held], Snapshot(handle[held]))
         THEN Refuse("changed")
         ELSE IF ~FinalPathMatches(handle[held]) THEN Refuse(Diverted)
         ELSE look' = 3 /\ Goto("root") /\ UNCHANGED <<handle, snap, error>>
  /\ UNCHANGED <<disk, request, recycling, yield, bounds>>

(* The Shell renders whatever the path names while the handle is held; then *)
(* ValidateRecordScope.                                                     *)
RenderByPath ==
  /\ pc = "shell"
  /\ \/ /\ Named(subject) # Nothing
        /\ shown' = <<Named(subject), file[Named(subject)].bytes>>
        /\ look' = 2 /\ Goto("root")
        /\ UNCHANGED <<handle, snap, error, faults>>
     \/ /\ Named(subject) = Nothing /\ Refuse("failed")
        /\ UNCHANGED <<shown, faults>>
     \/ Fault /\ Refuse("failed") /\ UNCHANGED shown
  /\ UNCHANGED <<disk, request, recycling, got, result, cancelled, changes>>


(* The bytes read are those the record's hash stands for. *)
HashMatches == \A i \in DOMAIN got : got[i] = 0

Yield(r) == Goto("return") /\ result' = r

Verified ==
  /\ pc = "verified"
  /\ \/ /\ purpose # "recycle"
        /\ Yield(IF purpose = "preview" THEN "shown" ELSE "hashed")
        /\ UNCHANGED <<recycling, looking, got, error>>
     \/ /\ purpose = "recycle" /\ ~HashMatches /\ Refuse("changed")
        /\ UNCHANGED <<recycling, got, result>>
     \/ /\ purpose = "recycle" /\ HashMatches /\ role = "keeper"
        /\ keeper' = handle[1] /\ handle' = Closed /\ look' = 1 /\ got' = <<>>
        /\ role' = "target" /\ subject' = Head(todo)
        /\ Goto("begin")
        /\ UNCHANGED <<todo, items, candidates, saw, receipt, snap, error,
                       result>>
     \/ /\ purpose = "recycle" /\ HashMatches /\ role = "target"
        /\ Goto("adapter")
        /\ UNCHANGED <<recycling, looking, got, error, result>>
  /\ UNCHANGED <<disk, request, shown, bounds>>

--------------------------------------------------------------------------------
(* recycleExactDuplicates: one target after the other, each with a keeper   *)
(* found anew among the records that are not selected, by their place in    *)
(* the group; the first of them is tried first.                             *)
Keepers == {k \in DOMAIN Group : /\ items[Group[k]] = "none"
                                 /\ \A i \in DOMAIN todo : todo[i] # Group[k]}

TryFirst(places) ==
  \E k \in places :
    /\ \A other \in places : k <= other
    /\ subject' = Group[k] /\ candidates' = places \ {k}
    /\ Goto("begin")

NextTarget ==
  /\ pc = "next"
  /\ \/ /\ todo = <<>> /\ Goto("done")
        /\ UNCHANGED <<todo, items, role, subject, candidates, saw>>
     \/ /\ todo # <<>> /\ cancelled
        /\ items' = [items EXCEPT ![Head(todo)] = "cancelled"]
        /\ todo' = Tail(todo)
        /\ UNCHANGED <<pc, role, subject, candidates, saw>>
     \/ /\ todo # <<>> /\ ~cancelled
        /\ role' = "keeper" /\ saw' = {}
        /\ TryFirst(Keepers)
        /\ UNCHANGED <<todo, items>>
  /\ UNCHANGED <<disk, request, keeper, receipt, looking, error, yield, bounds>>

(* verificationStatus *)
Status(e) ==
  CASE e = "cancelled" -> "cancelled"
    [] e \in {"hardlink", "stream", "reparse"} -> "skipped-protected"
    [] e \in {"changed", "missing"} -> "skipped-changed"
    [] OTHER -> "failed"

Settle(status) ==
  /\ items' = [items EXCEPT ![Head(todo)] = status]
  /\ Goto("return")

(* openVerifiedKeeper tries the next record after any error but a           *)
(* cancellation, and in the end reports the gentlest reason it saw.         *)
KeeperStatus(seen) ==
  IF "skipped-changed" \in seen THEN "skipped-changed"
  ELSE IF "skipped-protected" \in seen THEN "skipped-protected" ELSE "failed"

Refused ==
  /\ pc = "refused" /\ got' = <<>>
  /\ \/ /\ purpose # "recycle" /\ Yield(error)
        /\ UNCHANGED <<items, subject, candidates, saw>>
     \/ /\ purpose = "recycle"
        /\ role = "target" \/ Status(error) = "cancelled"
        /\ Settle(Status(error))
        /\ UNCHANGED <<subject, candidates, saw, result>>
     \/ /\ purpose = "recycle" /\ role = "keeper" /\ Status(error) # "cancelled"
        /\ saw' = saw \cup {Status(error)}
        /\ \/ TryFirst(candidates) /\ UNCHANGED items
           \/ /\ candidates = {} /\ Settle(KeeperStatus(saw'))
              /\ UNCHANGED <<subject, candidates>>
        /\ UNCHANGED result
  /\ error' = "none"
  /\ UNCHANGED <<disk, request, todo, role, keeper, receipt, looking, shown,
                 bounds>>

Drop(f) == [d \in Dirs |-> [r \in Records |->
              IF entry[d][r] = f THEN Nothing ELSE entry[d][r]]]

(* A keeper and a hashing handle share no deletion, a recycled target does. *)
SharesDelete == role = "target" /\ purpose = "recycle"
\* mutant: the keeper's handle shares deletion too
KeeperSharesDelete(f) ==
  (f = handle[1] /\ ~SharesDelete) \/ f \in {handle[2], handle[3]}
DeniesDelete(f) ==
  \/ f = keeper
  \/ f = handle[1] /\ ~SharesDelete
  \/ f \in {handle[2], handle[3]}

(* The adapters: the production one refuses; one acts on what the path      *)
(* names now, as the Shell does; one on the file behind the handle.         *)
Sunk == IF adapter = "path" THEN Named(Head(todo)) ELSE handle[1]

CallAdapter ==
  /\ pc = "adapter"
  /\ \/ /\ cancelled /\ Settle("cancelled")
        /\ UNCHANGED <<entry, bin, receipt, faults>>
     \/ /\ ~cancelled
        /\ adapter = "refuse" \/ Sunk = Nothing \/ DeniesDelete(Sunk)
        /\ Settle("failed")
        /\ UNCHANGED <<entry, bin, receipt, faults>>
     \/ /\ ~cancelled /\ adapter # "refuse"
        /\ Sunk # Nothing /\ ~DeniesDelete(Sunk)
        /\ entry' = Drop(Sunk) /\ bin' = bin \cup {Sunk}
        /\ \/ receipt' = Sunk /\ UNCHANGED faults
           \/ receipt' = Nothing /\ Fault
        /\ Goto("receipt") /\ UNCHANGED items
     \/ /\ ~cancelled /\ adapter # "refuse" /\ Fault
        /\ (Settle("cancelled") \/ Settle("failed"))
        /\ UNCHANGED <<entry, bin, receipt>>
  /\ UNCHANGED <<file, way, request, todo, role, subject, candidates, saw,
                 keeper, looking, error, yield, cancelled, changes>>

\* mutant: any confirmed receipt will do
AnyReceipt == receipt # Nothing
ReceiptMatches == receipt = Head(todo)

CheckReceipt ==
  /\ pc = "receipt"
  /\ IF ~ReceiptMatches THEN Settle("failed")
     ELSE IF cancelled THEN Settle("cancelled")
     ELSE Goto("absent") /\ UNCHANGED items
  /\ UNCHANGED <<disk, request, todo, role, subject, candidates, saw, keeper,
                 receipt, looking, error, yield, bounds>>

VerifyAbsent ==
  /\ pc = "absent"
  /\ \/ Settle(IF Named(Head(todo)) = Nothing THEN "recycled" ELSE "failed")
        /\ UNCHANGED faults
     \/ Fault /\ Settle("failed")
  /\ UNCHANGED <<disk, request, todo, role, subject, candidates, saw, keeper,
                 receipt, looking, error, yield, cancelled, changes>>

(* The deferred closes. *)
Return ==
  /\ pc = "return"
  /\ handle' = Closed /\ keeper' = Nothing /\ receipt' = Nothing /\ look' = 1
  /\ IF purpose = "recycle" THEN Goto("next") /\ todo' = Tail(todo)
                            ELSE Goto("done") /\ UNCHANGED todo
  /\ got' = <<>> /\ snap' = Closed
  /\ UNCHANGED <<disk, request, items, role, subject, candidates, saw, error,
                 shown, result, bounds>>

Call ==
  \/ Begin \/ CheckRoot \/ CheckComponents \/ Open \/ Bind \/ Accept \/ Read
  \/ CheckStable \/ RenderByPath \/ Verified \/ NextTarget \/ Refused
  \/ CallAdapter \/ CheckReceipt \/ VerifyAbsent \/ Return

--------------------------------------------------------------------------------
(* Other programs. *)
DeniesWrite(f) ==
  \/ f = keeper
  \/ f = handle[1] /\ purpose \in {"preview", "recycle"}

OpenFiles == ({keeper} \cup {handle[i] : i \in Looks}) \ {Nothing}
Pinned(d) == \E f \in OpenFiles, r \in Records : entry[d][r] = f

Change == pc # "done" /\ changes < MaxChanges /\ changes' = changes + 1

Write(f) ==
  /\ ~DeniesWrite(f)
  /\ file' = [file EXCEPT ![f].bytes = file[f].stamp + 1,
                          ![f].stamp = @ + 1]
  /\ UNCHANGED <<entry, way>>

AddLink(f) ==
  /\ \/ file' = [file EXCEPT ![f].links = 2]
     \/ file' = [file EXCEPT ![f].streams = @ \cup {"zone"}]
  /\ UNCHANGED <<entry, way>>

Rename(d, r) ==
  /\ entry[d][r] # Nothing /\ ~DeniesDelete(entry[d][r])
  /\ entry' = [entry EXCEPT ![d][r] = Nothing]
  /\ UNCHANGED <<file, way>>

Place(d, r) ==
  /\ entry[d][r] = Nothing
  /\ entry' = [Drop(Stranger) EXCEPT ![d][r] = Stranger]
  /\ ~DeniesDelete(Stranger) /\ Stranger \notin bin
  /\ UNCHANGED <<file, way>>

(* The path leads elsewhere: a junction, another directory of that name, or *)
(* another root; never by renaming a directory above an open file.          *)
SwapDirectory(w) ==
  /\ w # way
  /\ Pinned(way.dir) => way.reparse
  /\ Pinned(w.dir) => w.reparse
  /\ way' = w
  /\ UNCHANGED <<file, entry>>

OtherPrograms ==
  /\ Change
  /\ \/ \E f \in Files : Write(f) \/ AddLink(f)
     \/ \E d \in Dirs, r \in Records : Rename(d, r) \/ Place(d, r)
     \/ \E w \in [dir : Dirs, reparse : BOOLEAN, root : BOOLEAN] :
          SwapDirectory(w)
  /\ UNCHANGED <<bin, request, recycling, pc, looking, error, yield, cancelled,
                 faults>>

Cancel ==
  /\ ~cancelled /\ pc # "done" /\ cancelled' = TRUE
  /\ UNCHANGED <<disk, request, recycling, pc, looking, error, yield, changes,
                 faults>>

Next == Call \/ OtherPrograms \/ Cancel

Spec == Init /\ [][Next]_vars

--------------------------------------------------------------------------------
(* What is read is the file the scan recorded.  A hash is of its bytes as   *)
(* they were, all of one version, and while the handle is open the recorded *)
(* path leads to that file, through no redirection (engine.go 716-772,      *)
(* 886-921; file_snapshot.go 186-216, 413-441).  A thumbnail is of that     *)
(* file and version too, although the Shell opened it by its path           *)
(* (preview_worker_windows.go 192-207).                                     *)
ReadsAreOfTheRecord ==
  /\ pc = "return" /\ result = "hashed" =>
       /\ got = <<0, 0>> /\ handle[1] = subject
       /\ FinalPathMatches(subject)
  /\ result = "shown" => shown = <<subject, 0>>

(* Whatever an adapter does and however its item ends, when it has taken a  *)
(* file, the file is the content that was verified and not a later one, and *)
(* a keeper of the same content is in place and stays until the item is     *)
(* settled (delete.go 145-157; file_snapshot_windows.go 147-151).           *)
KeeperOutlivesTheFile ==
  /\ pc \in {"receipt", "absent", "return"} /\ todo # <<>>
  /\ Head(todo) \in bin \/ receipt # Nothing
  => /\ Head(todo) \in bin => file[Head(todo)].bytes = 0
     /\ keeper \in Records \ {Head(todo)}
     /\ entry["home"][keeper] = keeper /\ file[keeper].bytes = 0

(* "Recycled" is said only of the very file that was scanned, and only an   *)
(* adapter that acts on paths ever takes another one (delete.go 156-178;    *)
(* recycle_windows.go 10-13).                                               *)
RecycledIsTheRecord ==
  /\ \A r \in Records : items[r] = "recycled" => r \in bin
  /\ adapter # "path" =>
       \A f \in bin : \/ f \in Records /\ items[f] # "none"
                      \/ todo # <<>> /\ f = Head(todo)

================================================================================
