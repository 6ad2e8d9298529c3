--------------------------- MODULE VerifiedFileProofs ---------------------------
(***************************************************************************)
(* Theorems about verified reads and recycling, for every group, request,  *)
(* adapter and number of changes by other programs: what is hashed, shown  *)
(* or recycled is the recorded file as it was scanned, and the keeper of a *)
(* recycled file stays until its item is settled.                          *)
(***************************************************************************)
EXTENDS VerifiedFile, SequenceTheorems, TLAPS

Seeking == {"begin", "root", "components", "open"}
Bound == {"root-again", "accept"}
Using == {"read", "shell", "stable"}
Acting == {"adapter", "receipt", "absent"}
Final == {"root-last", "verified"} \cup Acting
Later == (Seeking \ {"begin"}) \cup {"bind", "stable", "return"} \cup Bound \cup Final
Labels == Seeking \cup {"bind", "return", "refused", "next", "done"} \cup Bound
            \cup Using \cup Final

Errors == {"none", "cancelled", "root", "reparse", "escape", "missing", "failed",
           "changed", "hardlink", "stream"}

(* The first handle has been found to be of the record, and is still open.  *)
Accepted == look # 1 \/ pc \in Using

DiskTypes ==
  /\ file \in [Files -> [bytes : Nat, stamp : Nat, links : Nat,
                         streams : SUBSET {"data", "zone"}]]
  /\ entry \in [Dirs -> [Records -> Files \cup {Nothing}]]
  /\ way \in [dir : Dirs, reparse : BOOLEAN, root : BOOLEAN]
  /\ bin \subseteq Files

CallTypes ==
  /\ purpose \in Hashing \cup {"preview", "recycle"}
  /\ adapter \in {"refuse", "path", "handle"}
  /\ pc \in Labels
  /\ look \in Looks
  /\ handle \in [Looks -> Files \cup {Nothing}]
  /\ DOMAIN snap = Looks
  /\ got \in Seq(Nat)
  /\ error \in Errors
  /\ result \in Errors \cup {"shown", "hashed"}

ItemStates == {"none", "cancelled", "failed", "skipped-protected",
               "skipped-changed", "recycled"}
RequestTypes ==
  /\ todo \in Seq(Records)
  /\ items \in [Records -> ItemStates]
  /\ role \in {"keeper", "target"}
  /\ subject \in Records
  /\ candidates \subseteq DOMAIN Group
  /\ keeper \in Records \cup {Nothing}
  /\ receipt \in Files \cup {Nothing}

Types == DiskTypes /\ CallTypes /\ RequestTypes

(* Records lie under their own names in their own directory or nowhere; a   *)
(* write always moves the time stamp.                                       *)
DiskInv ==
  /\ \A r \in Records : file[r].stamp = 0 => file[r].bytes = 0
  /\ \A r \in Records : /\ entry["home"][r] \in {r, Stranger, Nothing}
                        /\ entry["elsewhere"][r] \in {Stranger, Nothing}

(* Which handle a label has, and which purpose comes to it.                 *)
LookInv ==
  /\ look # 1 => pc \in Later
  /\ pc \in Final => look = 3
  /\ look = 2 => purpose = "preview"
  /\ pc = "stable" => look = IF purpose = "preview" THEN 2 ELSE 1
  /\ pc = "shell" => purpose = "preview"
  /\ pc = "read" => purpose # "preview"
  /\ pc \in Acting \cup {"next"} => purpose = "recycle"
  /\ look = 1 /\ pc \in {"bind"} \cup Bound => handle[1] # Nothing
  /\ look = 1 /\ pc \notin {"bind"} \cup Bound \cup Using => handle[1] = Nothing

(* The file behind the first handle: what the snapshot says of it, and that *)
(* it stays so while the handle denies writing.                             *)
AcceptInv ==
  /\ look = 1 /\ pc \in Bound =>
       /\ snap[1].id = handle[1]
       /\ snap[1].stamp \in Nat /\ snap[1].stamp <= file[handle[1]].stamp
       /\ purpose \notin Hashing => snap[1].stamp = file[handle[1]].stamp
  /\ Accepted => handle[1] = subject /\ snap[1] = ScannedAs(subject)
  /\ Accepted /\ purpose \notin Hashing => file[subject].stamp = 0
  /\ keeper # Nothing => file[keeper].stamp = 0

(* A handle that denies deletion pins its path.                             *)
PinInv ==
  /\ (Accepted \/ pc \in Bound) /\ ~SharesDelete => FinalPathMatches(handle[1])
  /\ keeper # Nothing => entry[way.dir][keeper] = keeper /\ way.reparse = FALSE

(* The bytes that were read or rendered.                                    *)
ReadInv ==
  /\ look = 1 /\ pc \in Seeking \cup {"next", "bind"} \cup Bound => got = <<>>
  /\ Len(got) <= 2
  /\ Accepted => \A i \in DOMAIN got : got[i] = 0 \/ file[subject].stamp > 0
  /\ purpose \in Hashing /\ (pc = "stable" \/ look = 3) => Len(got) = 2
  /\ purpose \in Hashing /\ look = 3 => got[1] = 0 /\ got[2] = 0
  /\ purpose = "preview" /\ look # 1 => shown = <<subject, 0>>
  /\ result = "shown" => /\ shown = <<subject, 0>> /\ purpose = "preview"
                         /\ pc \in {"return", "done"}
  /\ result = "hashed" => /\ purpose \in Hashing
                          /\ pc \in {"return", "done"}
                          /\ pc = "return" => look = 3

(* The request: whom a target may take for its keeper.                      *)
KeeperInv ==
  /\ purpose = "recycle" /\ pc \notin {"next", "done"} => todo # <<>>
  /\ purpose # "recycle" => todo = <<>>
  /\ keeper # Nothing => /\ role = "target" /\ purpose = "recycle"
                         /\ pc \notin {"next", "done"}
                         /\ \A i \in DOMAIN todo : todo[i] # keeper
  /\ purpose = "recycle" /\ role = "target" /\ pc \notin {"next", "done"} =>
       subject = Head(todo) /\ keeper # Nothing
  /\ purpose = "recycle" /\ role = "keeper" /\ pc \notin {"next", "done"} =>
       /\ \A i \in DOMAIN todo : todo[i] # subject
       /\ \A k \in candidates, i \in DOMAIN todo : todo[i] # Group[k]
  /\ pc \in Acting => role = "target"
  /\ pc = "return" /\ purpose = "recycle" /\ look # 1 => role = "target"

(* The request: what has been taken, and who answers for it.                *)
BinInv ==
  /\ \A i, j \in DOMAIN todo : todo[i] = todo[j] => i = j
  /\ \A i \in DOMAIN todo : items[todo[i]] = "none" \/ (i = 1 /\ pc = "return")
  /\ \A r \in Records : items[r] = "recycled" => r \in bin
  /\ \A f \in bin : \/ f = Stranger /\ adapter = "path"
                    \/ /\ f \in Records
                       /\ \/ items[f] # "none"
                          \/ pc \in {"receipt", "absent"} /\ f = Head(todo)
  /\ receipt # Nothing => receipt \in bin /\ pc \in {"receipt", "absent", "return"}
  /\ pc = "absent" => receipt = Head(todo)
  /\ pc = "return" /\ look = 1 =>
       receipt = Nothing /\ (todo # <<>> => Head(todo) \notin bin)

IInv == /\ Types /\ DiskInv /\ LookInv /\ AcceptInv /\ PinInv /\ ReadInv
        /\ KeeperInv /\ BinInv

--------------------------------------------------------------------------------
LEMMA GroupFacts ==
  /\ \A k \in DOMAIN Group : Group[k] \in Records
  /\ Group[1] \in Records /\ 1 \in DOMAIN Group
  /\ Records \subseteq Files /\ Stranger \in Files /\ Nothing \notin Files
BY VerifiedFileAssumption DEF Records, Files

LEMMA InitIInv == Init => IInv
<1> SUFFICES ASSUME Init PROVE IInv
  OBVIOUS
<1>1. /\ file \in [Files -> [bytes : Nat, stamp : Nat, links : Nat,
                             streams : SUBSET {"data", "zone"}]]
      /\ \A r \in Records : file[r].bytes = 0
  <2>1. PICK b \in {0, 9} :
          file = [f \in Files |-> [bytes |-> IF f = Stranger THEN b ELSE 0,
                                  stamp |-> 0, links |-> 1, streams |-> {"data"}]]
    BY DEF Init
  <2> QED BY <2>1, GroupFacts, VerifiedFileAssumption
<1>2. /\ todo \in Seq(Records)
      /\ purpose # "recycle" => todo = <<>>
      /\ \A i, j \in DOMAIN todo : todo[i] = todo[j] => i = j
  <2>1. CASE purpose = "recycle"
    <3>1. todo \in Selections
      BY <2>1 DEF Init
    <3> QED BY <2>1, <3>1, VerifiedFileAssumption
  <2>2. CASE purpose # "recycle"
    <3>1. todo = <<>>
      BY <2>2 DEF Init
    <3> QED BY <3>1
  <2> QED BY <2>1, <2>2
<1>3. /\ purpose \in Hashing \cup {"preview", "recycle"}
      /\ adapter \in {"refuse", "path", "handle"}
  BY VerifiedFileAssumption DEF Init
<1>4. entry \in [Dirs -> [Records -> Files \cup {Nothing}]]
  BY GroupFacts DEF Init
<1>5. Types
  <2>1. DiskTypes
    BY <1>1, <1>4, GroupFacts DEF Init, DiskTypes, Recorded, Dirs
  <2>2. CallTypes
    BY <1>3 DEF Init, CallTypes, Looks, Closed, Errors, Labels, Seeking
  <2>3. RequestTypes
    BY <1>2, GroupFacts DEF Init, RequestTypes, ItemStates
  <2> QED BY <2>1, <2>2, <2>3 DEF Types
<1>6. DiskInv
  BY <1>1, GroupFacts DEF Init, DiskInv, Dirs
<1>7. LookInv /\ AcceptInv /\ PinInv
  BY GroupFacts DEF Init, LookInv, AcceptInv, PinInv, Accepted, Using, Bound, Final, Acting, Closed,
     Looks
<1>8. ReadInv
  BY DEF Init, ReadInv, Accepted, Using, Errors
<1>9. KeeperInv /\ BinInv
  BY <1>2 DEF Init, KeeperInv, BinInv, Acting
<1> QED BY <1>5, <1>6, <1>7, <1>8, <1>9 DEF IInv

LEMMA RefusedErrors ==
  ASSUME NEW e \in Errors
  PROVE  (IF look = 3 /\ e # "root" THEN "changed" ELSE e) \in Errors
BY DEF Errors

LEMMA DiskTypesStep == IInv /\ [Next]_vars => DiskTypes'
<1> SUFFICES ASSUME IInv, [Next]_vars PROVE DiskTypes'
  OBVIOUS
<1>0. Types /\ DiskTypes /\ RequestTypes /\ LookInv /\ KeeperInv
  BY DEF IInv, Types
<1> USE GroupFacts
<1>1. CASE UNCHANGED disk
  BY <1>0, <1>1 DEF disk, DiskTypes
<1>2. CASE CallAdapter
  <2>1. UNCHANGED <<file, way>>
    BY <1>2 DEF CallAdapter
  <2>2. CASE entry' = Drop(Sunk) /\ bin' = bin \cup {Sunk} /\ Sunk # Nothing
    <3>1. todo # <<>>
      BY <1>0, <1>2 DEF CallAdapter, KeeperInv, LookInv, Acting
    <3>2. Head(todo) \in Records /\ way.dir \in Dirs
      BY <1>0, <3>1 DEF DiskTypes, RequestTypes
    <3>3. handle[1] \in Files \cup {Nothing}
      BY <1>0 DEF Types, CallTypes, Looks
    <3>4. Sunk \in Files
      BY <1>0, <2>2, <3>2, <3>3 DEF Sunk, Named, DiskTypes
    <3>5. Drop(Sunk) \in [Dirs -> [Records -> Files \cup {Nothing}]]
      BY <1>0 DEF Drop, DiskTypes
    <3> QED BY <1>0, <2>1, <2>2, <3>4, <3>5 DEF DiskTypes
  <2> QED BY <1>0, <1>1, <1>2, <2>1, <2>2 DEF CallAdapter, DiskTypes
<1>3. CASE OtherPrograms
  <2>0. bin' = bin
    BY <1>3 DEF OtherPrograms
  <2>1. CASE \E f \in Files : Write(f)
    BY <1>0, <2>0, <2>1 DEF DiskTypes, Write
  <2>2. CASE \E f \in Files : AddLink(f)
    <3>1. PICK f \in Files : AddLink(f)
      BY <2>2
    <3>2. CASE file' = [file EXCEPT ![f].links = 2]
      BY <1>0, <2>0, <3>1, <3>2 DEF DiskTypes, AddLink
    <3>3. CASE file' = [file EXCEPT ![f].streams = @ \cup {"zone"}]
      BY <1>0, <2>0, <3>1, <3>3 DEF DiskTypes, AddLink
    <3> QED BY <3>1, <3>2, <3>3 DEF AddLink
  <2>3. CASE \E d \in Dirs, r \in Records : Rename(d, r)
    BY <1>0, <2>0, <2>3 DEF DiskTypes, Rename
  <2>4. CASE \E d \in Dirs, r \in Records : Place(d, r)
    <3>1. Drop(Stranger) \in [Dirs -> [Records -> Files \cup {Nothing}]]
      BY <1>0 DEF Drop, DiskTypes
    <3>2. entry' \in [Dirs -> [Records -> Files \cup {Nothing}]]
      BY <2>4, <3>1 DEF Place
    <3> QED BY <1>0, <2>0, <2>4, <3>2 DEF DiskTypes, Place
  <2>5. CASE \E w \in [dir : Dirs, reparse : BOOLEAN, root : BOOLEAN] : SwapDirectory(w)
    BY <1>0, <2>0, <2>5 DEF DiskTypes, SwapDirectory
  <2> QED BY <1>3, <2>1, <2>2, <2>3, <2>4, <2>5 DEF OtherPrograms
<1>4. CASE Cancel \/ UNCHANGED vars
  BY <1>1, <1>4 DEF Cancel, vars, disk
<1>5. CASE Call /\ ~CallAdapter
  <2>1. CASE Begin \/ CheckRoot \/ CheckComponents \/ Open \/ Bind \/ Accept \/ Read \/ CheckStable
    BY <1>1, <2>1 DEF Begin, CheckRoot, CheckComponents, Open, Bind, Accept, Read, CheckStable
  <2>2. CASE RenderByPath \/ Verified \/ NextTarget \/ Refused \/ CheckReceipt \/ VerifyAbsent
             \/ Return
    BY <1>1, <2>2 DEF RenderByPath, Verified, NextTarget, Refused, CheckReceipt, VerifyAbsent, Return
  <2> QED BY <1>5, <2>1, <2>2 DEF Call
<1> QED BY <1>2, <1>3, <1>4, <1>5 DEF Next

LEMMA CallTypesStep == IInv /\ [Next]_vars => CallTypes'
<1> SUFFICES ASSUME IInv, [Next]_vars PROVE CallTypes'
  OBVIOUS
<1>0. CallTypes /\ DiskTypes /\ RequestTypes
  BY DEF IInv, Types
<1> USE GroupFacts DEF Looks
<1> HIDE DEF Labels, Errors
<1>l. /\ \A l \in Seeking \cup Bound \cup Using \cup Final : l \in Labels
      /\ {"bind", "return", "refused", "next", "done"} \subseteq Labels
      /\ Seeking = {"begin", "root", "components", "open"}
      /\ Bound = {"root-again", "accept"} /\ Using = {"read", "shell", "stable"}
      /\ Final = {"root-last", "verified", "adapter", "receipt", "absent"}
  BY DEF Labels, Seeking, Bound, Using, Final, Acting
<1>e. {"none", "cancelled", "root", "reparse", "escape", "missing", "failed", "changed",
       "hardlink", "stream"} = Errors
  BY DEF Errors
<1>a. ASSUME NEW e \in Errors, Refuse(e), got' \in Seq(Nat), UNCHANGED <<request, result>>
      PROVE  CallTypes'
  BY <1>0, <1>a, <1>l, RefusedErrors DEF CallTypes, Refuse, Goto, Closed, request
<1>b. ASSUME NEW label \in Labels, Go(label), got' \in Seq(Nat), UNCHANGED <<request, result>>
      PROVE  CallTypes'
  BY <1>0, <1>b DEF CallTypes, Go, Goto, request, looking
<1>c. ASSUME pc' \in Labels, look' \in Looks, handle' \in [Looks -> Files \cup {Nothing}],
             DOMAIN snap' = Looks, error' = error, got' \in Seq(Nat),
             UNCHANGED <<request, result>>
      PROVE  CallTypes'
  BY <1>0, <1>c DEF CallTypes, request
<1>d. Diverted \in Errors
  BY <1>e DEF Diverted
<1>1. CASE Begin \/ CheckRoot \/ CheckComponents
  <2>1. (\E e \in Errors : Refuse(e)) \/ (\E label \in Labels : Go(label))
    BY <1>1, <1>l, <1>e DEF Begin, CheckRoot, CheckComponents
  <2>2. UNCHANGED <<request, result>> /\ got' \in Seq(Nat)
    BY <1>0, <1>1 DEF Begin, CheckRoot, CheckComponents, yield, CallTypes
  <2> QED BY <1>a, <1>b, <2>1, <2>2
<1>2. CASE Open \/ Bind \/ Accept
  <2>1. UNCHANGED <<request, result>> /\ got' \in Seq(Nat)
    BY <1>0, <1>2 DEF Open, Bind, Accept, yield, CallTypes
  <2>2. CASE Open
    <3>1. Named(subject) \in Files \cup {Nothing}
      BY <1>0 DEF DiskTypes, RequestTypes, Named
    <3>2. CASE \E e \in Errors : Refuse(e)
      BY <1>a, <2>1, <3>2
    <3>3. CASE ~ \E e \in Errors : Refuse(e)
      BY <1>0, <1>c, <1>e, <1>l, <2>1, <2>2, <3>1, <3>3 DEF Open, CallTypes, Goto
    <3> QED BY <3>2, <3>3
  <2>3. CASE Bind
    BY <1>0, <1>a, <1>c, <1>d, <1>l, <2>1, <2>3 DEF Bind, CallTypes, Goto
  <2>4. CASE Accept
    <3>1. RecordVerdict(snap[1]) \in Errors /\ "changed" \in Errors
      BY <1>e DEF RecordVerdict
    <3>2. look \in {1, 2, 3}
      BY <1>0 DEF CallTypes
    <3>3. CASE look = 1
      BY <1>a, <1>b, <1>l, <2>1, <2>4, <3>1, <3>3 DEF Accept
    <3>4. CASE look = 2
      BY <1>a, <1>b, <1>l, <2>1, <2>4, <3>1, <3>4 DEF Accept
    <3>5. CASE look = 3
      <4>1. \/ Refuse("changed")
            \/ /\ handle' = [handle EXCEPT ![3] = Nothing]
               /\ Goto("root-last") /\ UNCHANGED <<look, snap, error>>
        BY <2>4, <3>5 DEF Accept
      <4> QED BY <1>0, <1>a, <1>c, <1>l, <2>1, <3>1, <4>1 DEF CallTypes, Goto
    <3> QED BY <3>2, <3>3, <3>4, <3>5
  <2> QED BY <1>2, <2>2, <2>3, <2>4
<1>3. CASE Read
  <2>1. UNCHANGED <<request, result>>
    BY <1>3 DEF Read
  <2>2. handle[1] \in Files
    BY <1>0, <1>3 DEF Read, IInv, AcceptInv, Accepted, RequestTypes, Using
  <2>3. file[handle[1]].bytes \in Nat
    BY <1>0, <2>2 DEF DiskTypes
  <2>4. got' \in Seq(Nat)
    <3>1. got' = got \/ got' = Append(got, file[handle[1]].bytes)
      BY <1>3 DEF Read
    <3>2. got \in Seq(Nat)
      BY <1>0 DEF CallTypes
    <3> QED BY <2>3, <3>1, <3>2, AppendProperties
  <2>5. (\E e \in Errors : Refuse(e)) \/ (\E label \in Labels : Go(label))
    BY <1>3, <1>l, <1>e DEF Read
  <2> QED BY <1>a, <1>b, <2>1, <2>4, <2>5
<1>4. CASE CheckStable \/ RenderByPath
  <2>1. UNCHANGED <<request, result>> /\ got' \in Seq(Nat)
    BY <1>0, <1>4 DEF CheckStable, RenderByPath, yield, CallTypes
  <2> QED BY <1>0, <1>a, <1>c, <1>d, <1>e, <1>l, <1>4, <2>1 DEF CheckStable, RenderByPath, CallTypes,
       Goto
<1>5. CASE Verified
  <2>1. "changed" \in Errors
    BY <1>e
  <2>2. CASE Refuse("changed") /\ UNCHANGED <<got, result>>
    BY <1>0, <1>a, <1>5, <2>1, <2>2 DEF Verified, CallTypes
  <2>3. CASE purpose # "recycle"
    BY <1>0, <1>5, <1>l, <2>3 DEF Verified, Yield, Goto, CallTypes, request, looking
  <2>4. CASE ~(purpose # "recycle") /\ ~(Refuse("changed") /\ UNCHANGED <<got, result>>)
    <3>1. UNCHANGED <<request, error, result>> /\ purpose = "recycle"
      BY <1>5, <2>4 DEF Verified
    <3>2. \/ UNCHANGED <<looking, got>> /\ pc' = "adapter"
          \/ pc' = "begin" /\ handle' = Closed /\ look' = 1 /\ snap' = snap /\ got' = <<>>
      BY <1>5, <2>4 DEF Verified, Goto
    <3>3. got' \in Seq(Nat)
      <4>1. CASE got' = got
        BY <1>0, <4>1 DEF CallTypes
      <4>2. CASE got' = <<>>
        BY <4>2
      <4> QED BY <3>2, <4>1, <4>2
    <3> QED BY <1>0, <1>c, <1>l, <3>1, <3>2, <3>3 DEF CallTypes, looking, Closed
  <2> QED BY <2>2, <2>3, <2>4
<1>6. CASE NextTarget
  BY <1>0, <1>c, <1>6, <1>l DEF NextTarget, TryFirst, Goto, CallTypes, looking, yield
<1>7. CASE Refused
  <2>1. pc' \in Labels /\ UNCHANGED <<request, looking>> /\ got' = <<>> /\ error' = "none"
    BY <1>7, <1>l DEF Refused, Yield, Goto, Settle, TryFirst
  <2>2. result' \in {error, result}
    BY <1>0, <1>7 DEF Refused, Yield, RequestTypes
  <2> QED BY <1>0, <1>e, <2>1, <2>2 DEF CallTypes, request, looking
<1>8. CASE CallAdapter \/ CheckReceipt \/ VerifyAbsent
  <2>1. pc' \in Labels
    BY <1>8, <1>l DEF CallAdapter, CheckReceipt, VerifyAbsent, Settle, Goto
  <2>2. UNCHANGED <<request, looking, error, got, result>>
    BY <1>8 DEF CallAdapter, CheckReceipt, VerifyAbsent, yield
  <2> QED BY <1>0, <1>c, <2>1, <2>2 DEF CallTypes, looking
<1>9. CASE Return
  BY <1>0, <1>c, <1>9, <1>l DEF Return, Goto, CallTypes, Closed
<1>10. CASE OtherPrograms \/ Cancel \/ UNCHANGED vars
  BY <1>0, <1>10 DEF OtherPrograms, Cancel, vars, CallTypes, request, looking, yield
<1> QED BY <1>1, <1>2, <1>3, <1>4, <1>5, <1>6, <1>7, <1>8, <1>9, <1>10 DEF Next, Call

LEMMA RequestTypesStep == IInv /\ [Next]_vars => RequestTypes'
<1> SUFFICES ASSUME IInv, [Next]_vars PROVE RequestTypes'
  OBVIOUS
<1>0. RequestTypes /\ CallTypes /\ KeeperInv /\ LookInv
  BY DEF IInv, Types
<1> USE GroupFacts
<1>1. CASE UNCHANGED recycling
  BY <1>0, <1>1 DEF recycling, RequestTypes
<1>c. ASSUME NEW places \in SUBSET DOMAIN Group, TryFirst(places)
      PROVE  subject' \in Records /\ candidates' \subseteq DOMAIN Group
  BY <1>c DEF TryFirst
<1>d. ASSUME NEW status \in ItemStates, Settle(status)
      PROVE  items' \in [Records -> ItemStates]
  BY <1>0, <1>d DEF RequestTypes, Settle
<1>i. ItemStates = {"none", "cancelled", "failed", "skipped-protected", "skipped-changed",
                    "recycled"}
  BY DEF ItemStates
<1> HIDE DEF ItemStates
<1>2. CASE Verified
  <2>1. CASE UNCHANGED recycling
    BY <1>1, <2>1
  <2>2. CASE purpose = "recycle" /\ keeper' = handle[1] /\ role' = "target"
             /\ subject' = Head(todo) /\ UNCHANGED <<todo, items, candidates, receipt>>
    <3>1. handle[1] = subject /\ todo # <<>>
      BY <1>2, <2>2 DEF Verified, IInv, LookInv, AcceptInv, Accepted, KeeperInv, Final
    <3>2. Head(todo) \in Records
      BY <1>0, <3>1 DEF RequestTypes
    <3> QED BY <1>0, <2>2, <3>1, <3>2 DEF RequestTypes
  <2> QED BY <1>2, <2>1, <2>2 DEF Verified
<1>3. CASE NextTarget
  <2>1. UNCHANGED <<keeper, receipt>>
    BY <1>3 DEF NextTarget
  <2>2. CASE todo = <<>>
    BY <1>0, <1>3, <2>1, <2>2 DEF NextTarget, RequestTypes
  <2>3. CASE todo # <<>> /\ cancelled
    <3>1. Head(todo) \in Records /\ Tail(todo) \in Seq(Records)
      BY <1>0, <2>3 DEF RequestTypes
    <3> QED BY <1>0, <1>3, <1>i, <2>1, <2>3, <3>1 DEF NextTarget, RequestTypes
  <2>4. CASE todo # <<>> /\ ~cancelled
    <3>1. Keepers \subseteq DOMAIN Group
      BY DEF Keepers
    <3> QED BY <1>0, <1>3, <1>c, <2>1, <2>4, <3>1 DEF NextTarget, RequestTypes
  <2> QED BY <2>2, <2>3, <2>4
<1>4. CASE Refused
  <2>1. UNCHANGED <<todo, role, keeper, receipt>>
    BY <1>4 DEF Refused
  <2>2. Status(error) \in ItemStates /\ KeeperStatus(saw') \in ItemStates
    BY <1>i DEF Status, KeeperStatus
  <2>3. /\ items' = items \/ \E status \in ItemStates : Settle(status)
        /\ \/ UNCHANGED <<subject, candidates>>
           \/ TryFirst(candidates)
    BY <1>0, <1>4, <2>2 DEF Refused, RequestTypes
  <2> QED BY <1>0, <1>c, <1>d, <2>1, <2>3 DEF RequestTypes
<1>5. CASE CallAdapter \/ CheckReceipt \/ VerifyAbsent
  <2>1. UNCHANGED <<todo, role, subject, candidates, keeper>>
    BY <1>5 DEF CallAdapter, CheckReceipt, VerifyAbsent
  <2>2. items' = items \/ \E status \in ItemStates : Settle(status)
    BY <1>5, <1>i DEF CallAdapter, CheckReceipt, VerifyAbsent
  <2>3. bin' \subseteq Files
    BY DiskTypesStep DEF DiskTypes
  <2>4. receipt' \in {receipt, Nothing} \cup bin'
    BY <1>5 DEF CallAdapter, CheckReceipt, VerifyAbsent
  <2>5. receipt' \in Files \cup {Nothing}
    BY <1>0, <2>3, <2>4 DEF RequestTypes
  <2> QED BY <1>0, <1>d, <2>1, <2>2, <2>5 DEF RequestTypes
<1>6. CASE Return
  <2>1. purpose = "recycle" => todo # <<>>
    BY <1>0, <1>6 DEF Return, KeeperInv
  <2>2. todo' \in Seq(Records)
    <3>1. CASE purpose = "recycle"
      <4>1. todo # <<>> /\ todo' = Tail(todo) /\ todo \in Seq(Records)
        BY <1>0, <1>6, <2>1, <3>1 DEF Return, RequestTypes
      <4> QED BY <4>1, HeadTailProperties
    <3>2. CASE purpose # "recycle"
      BY <1>0, <1>6, <3>2 DEF Return, RequestTypes
    <3> QED BY <3>1, <3>2
  <2> QED BY <1>0, <1>6, <2>2 DEF Return, RequestTypes
<1>7. CASE Begin \/ CheckRoot \/ CheckComponents \/ Open \/ Bind \/ Accept \/ Read \/ CheckStable
           \/ RenderByPath
  BY <1>1, <1>7 DEF Begin, CheckRoot, CheckComponents, Open, Bind, Accept, Read, CheckStable,
     RenderByPath
<1>8. CASE OtherPrograms \/ Cancel \/ UNCHANGED vars
  BY <1>1, <1>8 DEF OtherPrograms, Cancel, vars, recycling
<1> QED BY <1>2, <1>3, <1>4, <1>5, <1>6, <1>7, <1>8 DEF Next, Call

LEMMA TypesStep == IInv /\ [Next]_vars => Types'
BY DiskTypesStep, CallTypesStep, RequestTypesStep DEF Types

--------------------------------------------------------------------------------
(* What other programs can do to a file: a write moves its stamp, and no    *)
(* handle may deny it.                                                      *)
LEMMA FilesAge ==
  ASSUME IInv, OtherPrograms, NEW f \in Files
  PROVE  /\ file'[f].stamp \in Nat /\ file[f].stamp <= file'[f].stamp
         /\ file'[f].stamp # file[f].stamp => ~DeniesWrite(f)
         /\ file'[f].stamp = file[f].stamp => file'[f].bytes = file[f].bytes
<1>0. DiskTypes
  BY DEF IInv, Types
<1>1. ASSUME NEW g \in Files, Write(g)
      PROVE  /\ f # g => file'[f] = file[f]
             /\ file'[g].stamp = file[g].stamp + 1
             /\ ~DeniesWrite(g)
  BY <1>0, <1>1 DEF DiskTypes, Write
<1>2. ASSUME NEW g \in Files, AddLink(g)
      PROVE  file'[f].stamp = file[f].stamp /\ file'[f].bytes = file[f].bytes
  <2>1. CASE file' = [file EXCEPT ![g].links = 2]
    BY <1>0, <2>1 DEF DiskTypes
  <2>2. CASE file' = [file EXCEPT ![g].streams = @ \cup {"zone"}]
    BY <1>0, <2>2 DEF DiskTypes
  <2> QED BY <1>2, <2>1, <2>2 DEF AddLink
<1>3. file[f].stamp \in Nat
  BY <1>0 DEF DiskTypes
<1>4. CASE \E g \in Files : Write(g)
  <2>1. PICK g \in Files : Write(g)
    BY <1>4
  <2>2. CASE f = g
    BY <1>1, <1>3, <2>1, <2>2
  <2>3. CASE f # g
    BY <1>1, <1>3, <2>1, <2>3
  <2> QED BY <2>2, <2>3
<1>5. CASE \E g \in Files : AddLink(g)
  BY <1>2, <1>3, <1>5
<1>6. CASE file' = file
  BY <1>3, <1>6
<1> QED BY <1>4, <1>5, <1>6 DEF OtherPrograms, Rename, Place, SwapDirectory

LEMMA CallsLeaveFiles ==
  ASSUME Call \/ Cancel \/ UNCHANGED vars
  PROVE  /\ file' = file /\ way' = way
         /\ entry' # entry => CallAdapter /\ entry' = Drop(Sunk) /\ ~DeniesDelete(Sunk)
<1> USE DEF disk
<1>1. CASE Begin \/ CheckRoot \/ CheckComponents \/ Open \/ Bind \/ Accept \/ Read \/ CheckStable
  BY <1>1 DEF Begin, CheckRoot, CheckComponents, Open, Bind, Accept, Read, CheckStable
<1>2. CASE RenderByPath \/ Verified \/ NextTarget \/ Refused \/ CheckReceipt \/ VerifyAbsent \/ Return
  BY <1>2 DEF RenderByPath, Verified, NextTarget, Refused, CheckReceipt, VerifyAbsent, Return
<1>3. CASE CallAdapter
  BY <1>3 DEF CallAdapter
<1>4. CASE Cancel \/ UNCHANGED vars
  BY <1>4 DEF Cancel, vars
<1> QED BY <1>1, <1>2, <1>3, <1>4 DEF Call

(* A name that leads to a file goes on doing so, unless the file may be     *)
(* deleted or moved.                                                        *)
LEMMA NamesStay ==
  ASSUME IInv, [Next]_vars, NEW d \in Dirs, NEW r \in Records, entry[d][r] # Nothing,
         DeniesDelete(entry[d][r])
  PROVE  entry'[d][r] = entry[d][r]
<1>0. DiskTypes
  BY DEF IInv, Types
<1>1. ASSUME NEW f, ~DeniesDelete(f), entry' = Drop(f) PROVE entry'[d][r] = entry[d][r]
  BY <1>0, <1>1 DEF Drop, DiskTypes
<1>2. CASE OtherPrograms
  <2>1. CASE \E e \in Dirs, s \in Records : Rename(e, s)
    BY <1>0, <2>1 DEF Rename, DiskTypes
  <2>2. CASE \E e \in Dirs, s \in Records : Place(e, s)
    <3>1. PICK e \in Dirs, s \in Records : Place(e, s)
      BY <2>2
    <3>2. ~(e = d /\ s = r)
      BY <3>1 DEF Place
    <3>3. Drop(Stranger) \in [Dirs -> [Records -> Files \cup {Nothing}]]
      BY <1>0, GroupFacts DEF Drop, DiskTypes
    <3>4. entry'[d][r] = Drop(Stranger)[d][r]
      BY <3>1, <3>2, <3>3 DEF Place
    <3>5. Drop(Stranger)[d][r] = entry[d][r]
      BY <3>1 DEF Drop, Place
    <3> QED BY <3>4, <3>5
  <2>3. CASE entry' = entry
    BY <2>3
  <2> QED BY <1>2, <2>1, <2>2, <2>3 DEF OtherPrograms, Write, AddLink, SwapDirectory
<1>3. CASE Call \/ Cancel \/ UNCHANGED vars
  BY <1>1, <1>3, CallsLeaveFiles
<1> QED BY <1>2, <1>3 DEF Next

LEMMA DiskInvStep == IInv /\ [Next]_vars => DiskInv'
<1> SUFFICES ASSUME IInv, [Next]_vars PROVE DiskInv'
  OBVIOUS
<1>0. DiskTypes /\ DiskInv
  BY DEF IInv, Types
<1>1. ASSUME NEW r \in Records PROVE file'[r].stamp = 0 => file'[r].bytes = 0
  <2>1. r \in Files
    BY GroupFacts
  <2>2. CASE OtherPrograms
    <3>1. file[r].stamp \in Nat
      BY <1>0, <2>1 DEF DiskTypes
    <3> QED BY <1>0, <2>1, <2>2, <3>1, FilesAge DEF DiskInv
  <2>3. CASE Call \/ Cancel \/ UNCHANGED vars
    BY <1>0, <2>3, CallsLeaveFiles DEF DiskInv
  <2> QED BY <2>2, <2>3 DEF Next
<1>2. ASSUME NEW d \in Dirs, NEW r \in Records
      PROVE  entry'[d][r] \in {entry[d][r], Stranger, Nothing}
  <2>1. ASSUME NEW f PROVE Drop(f)[d][r] \in {entry[d][r], Nothing}
    BY DEF Drop
  <2>2. CASE OtherPrograms
    <3>1. CASE \E e \in Dirs, s \in Records : Rename(e, s)
      BY <1>0, <3>1 DEF Rename, DiskTypes
    <3>2. CASE \E e \in Dirs, s \in Records : Place(e, s)
      <4>1. PICK e \in Dirs, s \in Records : entry' = [Drop(Stranger) EXCEPT ![e][s] = Stranger]
        BY <3>2 DEF Place
      <4>2. Drop(Stranger) \in [Dirs -> [Records -> Files \cup {Nothing}]]
        BY <1>0, GroupFacts DEF Drop, DiskTypes
      <4>3. entry'[d][r] \in {Drop(Stranger)[d][r], Stranger}
        BY <4>1, <4>2
      <4> QED BY <2>1, <4>3
    <3>3. CASE entry' = entry
      BY <3>3
    <3> QED BY <2>2, <3>1, <3>2, <3>3 DEF OtherPrograms, Write, AddLink, SwapDirectory
  <2>3. CASE Call \/ Cancel \/ UNCHANGED vars
    BY <2>1, <2>3, CallsLeaveFiles
  <2> QED BY <2>2, <2>3 DEF Next
<1>3. "home" \in Dirs /\ "elsewhere" \in Dirs
  BY DEF Dirs
<1> QED BY <1>0, <1>1, <1>2, <1>3 DEF DiskInv

(* What Accept does when it does not refuse.                                *)
LEMMA Acceptance ==
  ASSUME Accept, look \in Looks, ~ \E e : Refuse(e)
  PROVE  /\ pc = "accept" /\ UNCHANGED <<look, snap, error>>
         /\ \/ /\ look = 1 /\ RecordVerdict(snap[1]) = "none" /\ handle' = handle
               /\ pc' = IF purpose = "preview" THEN "shell" ELSE "read"
            \/ look = 2 /\ pc' = "stable" /\ handle' = handle
            \/ look = 3 /\ pc' = "root-last" /\ handle' = [handle EXCEPT ![3] = Nothing]
<1> USE DEF Go, Goto, looking
<1>1. CASE look = 1
  BY <1>1 DEF Accept
<1>2. CASE look = 2
  BY <1>2 DEF Accept
<1>3. CASE look = 3
  BY <1>3 DEF Accept
<1> QED BY <1>1, <1>2, <1>3 DEF Looks

LEMMA LookInvStep == IInv /\ [Next]_vars => LookInv'
<1> SUFFICES ASSUME IInv, [Next]_vars PROVE LookInv'
  OBVIOUS
<1>0. LookInv /\ CallTypes
  BY DEF IInv, Types
<1> USE DEF Looks, Seeking, Bound, Using, Acting, Final, Later
<1>a. ASSUME NEW e, Refuse(e), UNCHANGED request PROVE LookInv'
  BY <1>0, <1>a DEF LookInv, Refuse, Goto, Closed, request
<1>1. CASE Begin \/ CheckRoot \/ CheckComponents
  <2>1. UNCHANGED request
    BY <1>1 DEF Begin, CheckRoot, CheckComponents
  <2>2. CASE \E e : Refuse(e)
    BY <1>a, <2>1, <2>2
  <2>3. CASE ~ \E e : Refuse(e)
    <3>1. /\ UNCHANGED <<purpose, look, handle>>
          /\ \/ pc = "begin" /\ pc' = "root"
             \/ pc = "root" /\ pc' = "components"
             \/ pc = "root-again" /\ pc' = "accept"
             \/ pc = "root-last" /\ pc' = "verified"
             \/ pc = "components" /\ pc' = "open"
      BY <1>1, <2>1, <2>3 DEF Begin, CheckRoot, CheckComponents, Go, Goto, looking, request
    <3> QED BY <1>0, <3>1 DEF LookInv, CallTypes
  <2> QED BY <2>2, <2>3
<1>2. CASE Open \/ Bind
  <2>1. UNCHANGED request
    BY <1>2 DEF Open, Bind
  <2>2. CASE \E e : Refuse(e)
    BY <1>a, <2>1, <2>2
  <2>3. CASE ~ \E e : Refuse(e)
    BY <1>0, <1>2, <2>1, <2>3 DEF LookInv, Open, Bind, Goto, request, CallTypes
  <2> QED BY <2>2, <2>3
<1>3. CASE Accept
  <2>1. UNCHANGED request
    BY <1>3 DEF Accept
  <2>2. CASE \E e : Refuse(e)
    BY <1>a, <2>1, <2>2
  <2>3. CASE ~ \E e : Refuse(e)
    <3>1. look \in {1, 2, 3}
      BY <1>0 DEF CallTypes
    <3>2. /\ purpose' = purpose /\ look' = look /\ pc = "accept" /\ handle'[1] = handle[1]
          /\ \/ look = 1 /\ pc' = IF purpose = "preview" THEN "shell" ELSE "read"
             \/ look = 2 /\ pc' = "stable"
             \/ look = 3 /\ pc' = "root-last"
      BY <1>0, <1>3, <2>1, <2>3, <3>1, Acceptance DEF request, CallTypes
    <3> QED BY <1>0, <3>2 DEF LookInv, CallTypes
  <2> QED BY <2>2, <2>3
<1>4. CASE Read \/ CheckStable \/ RenderByPath
  <2>1. UNCHANGED request
    BY <1>4 DEF Read, CheckStable, RenderByPath
  <2>2. CASE \E e : Refuse(e)
    BY <1>a, <2>1, <2>2
  <2>3. CASE ~ \E e : Refuse(e)
    <3>1. /\ purpose' = purpose /\ handle' = handle
          /\ \/ pc = "read" /\ pc' \in {"read", "stable"} /\ look' = look
             \/ pc = "stable" /\ pc' = "root" /\ look' = 3
             \/ pc = "shell" /\ pc' = "root" /\ look' = 2
      BY <1>4, <2>1, <2>3 DEF Read, CheckStable, RenderByPath, Go, Goto, looking, request
    <3> QED BY <1>0, <3>1 DEF LookInv, CallTypes
  <2> QED BY <2>2, <2>3
<1>5. CASE Verified
  <2>1. CASE \E e : Refuse(e)
    BY <1>a, <1>5, <2>1 DEF Verified
  <2>2. CASE ~ \E e : Refuse(e)
    <3>1. /\ purpose' = purpose /\ pc = "verified"
          /\ \/ pc' = "return" /\ UNCHANGED <<look, handle>>
             \/ pc' = "adapter" /\ UNCHANGED <<look, handle>> /\ purpose = "recycle"
             \/ pc' = "begin" /\ look' = 1 /\ handle' = Closed
      BY <1>5, <2>2 DEF Verified, Yield, Goto, looking, request
    <3> QED BY <1>0, <3>1 DEF LookInv, CallTypes, Closed
  <2> QED BY <2>1, <2>2
<1>6. CASE NextTarget \/ Refused
  <2>1. /\ purpose' = purpose /\ pc \in {"next", "refused"} /\ UNCHANGED <<look, handle>>
        /\ \/ pc' \in {"begin", "return", "done"}
           \/ pc' = pc /\ pc = "next"
    <3>1. CASE NextTarget
      BY <3>1 DEF NextTarget, TryFirst, Goto, looking, request
    <3>2. CASE Refused
      <4>1. pc = "refused" /\ UNCHANGED <<request, looking>>
        BY <3>2 DEF Refused
      <4>2. (\E r : Yield(r)) \/ (\E status : Settle(status)) \/ TryFirst(candidates)
        BY <3>2, Zenon DEF Refused
      <4>3. pc' \in {"return", "begin"}
        BY <4>2 DEF Yield, Settle, TryFirst, Goto
      <4> QED BY <4>1, <4>3 DEF looking, request
    <3> QED BY <1>6, <3>1, <3>2
  <2> QED BY <1>0, <2>1 DEF LookInv, CallTypes
<1>7. CASE CallAdapter \/ CheckReceipt \/ VerifyAbsent
  <2>1. /\ purpose' = purpose /\ pc \in Acting /\ pc' \in {"receipt", "absent", "return"}
        /\ UNCHANGED <<look, handle>>
    BY <1>7 DEF CallAdapter, CheckReceipt, VerifyAbsent, Settle, Goto, looking, request
  <2> QED BY <1>0, <2>1 DEF LookInv, CallTypes
<1>8. CASE Return
  BY <1>0, <1>8 DEF Return, LookInv, Goto, request, Closed
<1>9. CASE OtherPrograms \/ Cancel \/ UNCHANGED vars
  <2>1. UNCHANGED <<purpose, pc, look, handle>>
    BY <1>9 DEF OtherPrograms, Cancel, vars, request, looking
  <2> QED BY <1>0, <2>1 DEF LookInv
<1> QED BY <1>1, <1>2, <1>3, <1>4, <1>5, <1>6, <1>7, <1>8, <1>9 DEF Next, Call

(* A refusal closes the handle; only a keeper's handle outlives it.         *)
LEMMA RefusalKeeps ==
  ASSUME IInv, NEW e, Refuse(e), file' = file, UNCHANGED <<keeper, purpose, subject>>
  PROVE  AcceptInv'
BY DEF IInv, AcceptInv, Refuse, Goto, Accepted, Bound, Using

LEMMA AcceptInvStep == IInv /\ [Next]_vars => AcceptInv'
<1> SUFFICES ASSUME IInv, [Next]_vars PROVE AcceptInv'
  OBVIOUS
<1>0. AcceptInv /\ LookInv /\ DiskTypes /\ CallTypes /\ RequestTypes /\ KeeperInv
  BY DEF IInv, Types
<1> USE GroupFacts DEF Looks, Bound, Using
<1>1. CASE Begin \/ CheckRoot \/ CheckComponents
  <2>1. UNCHANGED <<file, request, recycling>>
    BY <1>1 DEF Begin, CheckRoot, CheckComponents, disk
  <2>2. CASE \E e : Refuse(e)
    BY <2>1, <2>2, RefusalKeeps DEF request, recycling
  <2>3. CASE ~ \E e : Refuse(e)
    <3>1. UNCHANGED <<look, handle, snap, purpose, subject, keeper>>
      BY <1>1, <2>1, <2>3 DEF Begin, CheckRoot, CheckComponents, Go, looking, request, recycling
    <3>2. \/ pc = "begin" /\ pc' = "root"
          \/ pc = "root" /\ pc' = "components"
          \/ pc = "root-again" /\ pc' = "accept"
          \/ pc = "root-last" /\ pc' = "verified"
          \/ pc = "components" /\ pc' = "open"
      BY <1>1, <2>3 DEF Begin, CheckRoot, CheckComponents, Go, Goto
    <3> QED BY <1>0, <2>1, <3>1, <3>2 DEF AcceptInv, Accepted
  <2> QED BY <2>2, <2>3
<1>2. CASE Open
  <2>1. UNCHANGED <<file, purpose, subject, keeper>>
    BY <1>2 DEF Open, disk, request, recycling
  <2>2. CASE \E e : Refuse(e)
    BY <2>1, <2>2, RefusalKeeps
  <2>3. CASE ~ \E e : Refuse(e)
    <3>1. /\ pc = "open" /\ pc' = "bind" /\ UNCHANGED <<look, snap>>
          /\ look # 1 => handle'[1] = handle[1]
      BY <1>0, <1>2, <2>3 DEF Open, Goto, CallTypes
    <3> QED BY <1>0, <2>1, <3>1 DEF AcceptInv, Accepted
  <2> QED BY <2>2, <2>3
<1>3. CASE Bind
  <2>1. UNCHANGED <<file, purpose, subject, keeper>>
    BY <1>3 DEF Bind, disk, request, recycling
  <2>2. CASE \E e : Refuse(e)
    BY <2>1, <2>2, RefusalKeeps
  <2>3. CASE ~ \E e : Refuse(e)
    <3>1. /\ pc = "bind" /\ pc' = "root-again" /\ UNCHANGED <<look, handle>>
          /\ look # 1 => snap'[1] = snap[1]
          /\ look = 1 => snap'[1] = Snapshot(handle[1])
      BY <1>0, <1>3, <2>3 DEF Bind, Goto, CallTypes
    <3>2. look = 1 => handle[1] \in Files
      BY <1>0, <3>1 DEF LookInv, CallTypes
    <3>3. look = 1 => file[handle[1]].stamp \in Nat
      BY <1>0, <3>2 DEF DiskTypes
    <3> QED BY <1>0, <2>1, <3>1, <3>3 DEF AcceptInv, Accepted, Snapshot
  <2> QED BY <2>2, <2>3
<1>4. CASE Accept
  <2>1. UNCHANGED <<file, purpose, subject, keeper>>
    BY <1>4 DEF Accept, disk, request, recycling
  <2>2. CASE \E e : Refuse(e)
    BY <2>1, <2>2, RefusalKeeps
  <2>3. CASE ~ \E e : Refuse(e)
    <3>1. /\ pc = "accept" /\ UNCHANGED <<look, snap>> /\ handle'[1] = handle[1]
          /\ pc' \notin Bound
          /\ look = 1 => RecordVerdict(snap[1]) = "none"
      BY <1>0, <1>4, <2>3, Acceptance DEF CallTypes
    <3>2. look = 1 => snap[1] = ScannedAs(subject)
      BY <3>1 DEF RecordVerdict, SnapshotsEqual
    <3>3. look = 1 => snap[1].id = subject /\ snap[1].stamp = 0
      BY <3>2 DEF ScannedAs
    <3> QED BY <1>0, <2>1, <3>1, <3>2, <3>3 DEF AcceptInv, Accepted
  <2> QED BY <2>2, <2>3
<1>5. CASE Read \/ CheckStable \/ RenderByPath
  <2>1. UNCHANGED <<file, purpose, subject, keeper>>
    BY <1>5 DEF Read, CheckStable, RenderByPath, disk, request, recycling
  <2>2. CASE \E e : Refuse(e)
    BY <2>1, <2>2, RefusalKeeps
  <2>3. CASE ~ \E e : Refuse(e)
    <3>1. /\ pc \in Using /\ pc' \notin Bound /\ UNCHANGED <<snap, handle>>
      BY <1>5, <2>3 DEF Read, CheckStable, RenderByPath, Go, Goto, looking
    <3> QED BY <1>0, <2>1, <3>1 DEF AcceptInv, Accepted
  <2> QED BY <2>2, <2>3
<1>6. CASE Verified
  <2>0. file' = file /\ purpose' = purpose /\ pc = "verified" /\ look = 3
    BY <1>0, <1>6 DEF Verified, disk, request, LookInv, Final
  <2>1. CASE \E e : Refuse(e)
    <3>1. UNCHANGED recycling
      BY <1>6, <2>1 DEF Verified, Refuse, Yield, Goto
    <3> QED BY <2>0, <2>1, <3>1, RefusalKeeps DEF recycling
  <2>2. CASE ~ \E e : Refuse(e)
    <3>1. \/ /\ pc' \in {"return", "adapter"} /\ UNCHANGED <<look, handle, snap, subject, keeper>>
          \/ /\ pc' = "begin" /\ look' = 1 /\ keeper' = handle[1] /\ purpose = "recycle"
      BY <1>6, <2>2 DEF Verified, Yield, Goto, looking, recycling
    <3>2. handle[1] = subject /\ (purpose = "recycle" => file[subject].stamp = 0)
      BY <1>0, <2>0 DEF AcceptInv, Accepted, Hashing
    <3> QED BY <1>0, <2>0, <3>1, <3>2 DEF AcceptInv, Accepted
  <2> QED BY <2>1, <2>2
<1>7. CASE NextTarget \/ Refused
  <2>1. /\ file' = file /\ purpose' = purpose /\ pc \in {"next", "refused"}
        /\ UNCHANGED <<look, handle, snap, keeper>>
    <3>1. CASE NextTarget
      BY <3>1 DEF NextTarget, looking, request, disk
    <3>2. CASE Refused
      BY <3>2 DEF Refused, looking, request, disk
    <3> QED BY <1>7, <3>1, <3>2
  <2>2. pc' \in {"next", "begin", "return", "done"}
    <3>1. CASE NextTarget
      BY <3>1 DEF NextTarget, TryFirst, Goto
    <3>2. CASE Refused
      <4>1. (\E r : Yield(r)) \/ (\E status : Settle(status)) \/ TryFirst(candidates)
        BY <3>2, Zenon DEF Refused
      <4> QED BY <4>1 DEF Yield, Settle, TryFirst, Goto
    <3> QED BY <1>7, <3>1, <3>2
  <2>3. look = 1
    BY <1>0, <2>1 DEF LookInv, Later, Seeking, Final, Acting
  <2> QED BY <1>0, <2>1, <2>2, <2>3 DEF AcceptInv, Accepted
<1>8. CASE CallAdapter \/ CheckReceipt \/ VerifyAbsent
  <2>1. /\ pc \in Acting /\ pc' \in {"receipt", "absent", "return"}
        /\ UNCHANGED <<file, purpose, look, handle, snap, subject, keeper>>
    BY <1>8 DEF CallAdapter, CheckReceipt, VerifyAbsent, Settle, Goto, looking, request, disk, Acting
  <2>2. look = 3
    BY <1>0, <2>1 DEF LookInv, Final
  <2> QED BY <1>0, <2>1, <2>2 DEF AcceptInv, Accepted
<1>9. CASE Return
  <2>1. file' = file /\ look' = 1 /\ keeper' = Nothing /\ pc' \in {"next", "done"}
    BY <1>9 DEF Return, disk, Goto
  <2> QED BY <2>1 DEF AcceptInv, Accepted
<1>10. CASE Cancel \/ UNCHANGED vars
  <2>1. UNCHANGED <<file, purpose, pc, look, handle, snap, subject, keeper>>
    BY <1>10 DEF Cancel, vars, disk, request, looking, recycling
  <2> QED BY <1>0, <2>1 DEF AcceptInv, Accepted
<1>11. CASE OtherPrograms
  <2>1. UNCHANGED <<purpose, pc, look, handle, snap, subject, keeper>>
    BY <1>11 DEF OtherPrograms, request, looking, recycling
  <2>2. ASSUME NEW f \in Files, f = keeper \/ (f = handle[1] /\ purpose \notin Hashing)
        PROVE  file'[f].stamp = file[f].stamp
    <3>1. DeniesWrite(f)
      BY <1>0, <2>2 DEF DeniesWrite, CallTypes
    <3> QED BY <1>11, <3>1, FilesAge
  <2>3. keeper # Nothing => file'[keeper].stamp = 0
    BY <1>0, <2>2 DEF AcceptInv, RequestTypes
  <2>4. CASE Accepted
    <3>1. handle[1] = subject /\ subject \in Files
      BY <1>0, <2>4 DEF AcceptInv, RequestTypes
    <3> QED BY <1>0, <2>1, <2>2, <2>3, <2>4, <3>1 DEF AcceptInv, Accepted, LookInv
  <2>5. CASE look = 1 /\ pc \in Bound
    <3>1. handle[1] \in Files
      BY <1>0, <2>5 DEF LookInv, CallTypes
    <3>2. /\ file'[handle[1]].stamp \in Nat
          /\ file[handle[1]].stamp <= file'[handle[1]].stamp
          /\ file[handle[1]].stamp \in Nat
      BY <1>0, <1>11, <3>1, FilesAge DEF DiskTypes
    <3> QED BY <1>0, <2>1, <2>2, <2>3, <2>5, <3>1, <3>2 DEF AcceptInv, Accepted
  <2>6. CASE ~Accepted /\ ~(look = 1 /\ pc \in Bound)
    BY <2>1, <2>3, <2>6 DEF AcceptInv, Accepted
  <2> QED BY <2>4, <2>5, <2>6
<1> QED BY <1>1, <1>2, <1>3, <1>4, <1>5, <1>6, <1>7, <1>8, <1>9, <1>10, <1>11 DEF Next, Call

(* Pinned: a name that leads to an open file that denies deletion, on a way *)
(* without redirection, goes on leading to it.                              *)
LEMMA PinnedStays ==
  ASSUME IInv, [Next]_vars, NEW r \in Records, NEW f \in Files,
         entry[way.dir][r] = f, way.reparse = FALSE, DeniesDelete(f),
         f = keeper \/ f = handle[1]
  PROVE  way' = way /\ entry'[way.dir][r] = f
<1>0. DiskTypes /\ CallTypes
  BY DEF IInv, Types
<1>1. way.dir \in Dirs
  BY <1>0 DEF DiskTypes
<1>2. entry'[way.dir][r] = f
  BY <1>1, GroupFacts, NamesStay
<1>3. way' = way
  <2>1. CASE OtherPrograms
    <3>1. f \in OpenFiles
      BY GroupFacts DEF OpenFiles, Looks
    <3>2. Pinned(way.dir)
      BY <3>1 DEF Pinned
    <3>3. ~ \E w : SwapDirectory(w)
      BY <3>2 DEF SwapDirectory
    <3> QED BY <2>1, <3>3 DEF OtherPrograms, Write, AddLink, Rename, Place
  <2>2. CASE Call \/ Cancel \/ UNCHANGED vars
    BY <2>2, CallsLeaveFiles
  <2> QED BY <2>1, <2>2 DEF Next
<1> QED BY <1>2, <1>3

LEMMA KeeperPinStays ==
  ASSUME IInv, [Next]_vars, keeper' = keeper, keeper # Nothing
  PROVE  entry'[way'.dir][keeper] = keeper /\ way'.reparse = FALSE
<1>1. keeper \in Records /\ keeper \in Files
  BY GroupFacts DEF IInv, Types, RequestTypes
<1>2. entry[way.dir][keeper] = keeper /\ way.reparse = FALSE /\ DeniesDelete(keeper)
  BY DEF IInv, PinInv, DeniesDelete
<1>3. way' = way /\ entry'[way.dir][keeper] = keeper
  BY <1>1, <1>2, PinnedStays
<1> QED BY <1>2, <1>3

LEMMA HandlePinStays ==
  ASSUME IInv, [Next]_vars, handle'[1] = handle[1], handle[1] # Nothing,
         subject' = subject, ~SharesDelete, FinalPathMatches(handle[1])
  PROVE  FinalPathMatches(handle[1])'
<1>1. subject \in Records /\ handle[1] \in Files /\ way.reparse \in BOOLEAN
  BY DEF IInv, Types, RequestTypes, CallTypes, DiskTypes, Looks
<1>2. entry[way.dir][subject] = handle[1] /\ way.reparse = FALSE /\ DeniesDelete(handle[1])
  BY <1>1 DEF FinalPathMatches, Named, DeniesDelete
<1>3. way' = way /\ entry'[way.dir][subject] = handle[1]
  BY <1>1, <1>2, PinnedStays
<1> QED BY <1>2, <1>3 DEF FinalPathMatches, Named

(* When the first handle serves, what it is comes from before the step.     *)
LEMMA PinInvStep == IInv /\ [Next]_vars => PinInv'
<1> SUFFICES ASSUME IInv, [Next]_vars PROVE PinInv'
  OBVIOUS
<1>0. PinInv /\ LookInv /\ AcceptInv /\ DiskTypes /\ CallTypes /\ RequestTypes /\ KeeperInv
  BY DEF IInv, Types
<1> USE GroupFacts DEF Bound, Using
<1>k. ASSUME keeper' = keeper
      PROVE  keeper' # Nothing => entry'[way'.dir][keeper'] = keeper' /\ way'.reparse = FALSE
  BY <1>k, KeeperPinStays
<1>h. ASSUME keeper' = keeper, handle'[1] = handle[1], handle[1] # Nothing, subject' = subject,
             Accepted \/ pc \in Bound, role' = role, purpose' = purpose
      PROVE  PinInv'
  BY <1>0, <1>h, <1>k, HandlePinStays DEF PinInv, SharesDelete
<1>n. ASSUME keeper' = keeper, ~Accepted', pc' \notin Bound
      PROVE  PinInv'
  BY <1>k, <1>n DEF PinInv
<1>f. ASSUME Accepted \/ pc \in Bound
      PROVE  handle[1] # Nothing
  BY <1>0, <1>f DEF LookInv, AcceptInv, Accepted, RequestTypes
<1>r. ASSUME NEW e, Refuse(e), keeper' = keeper
      PROVE  PinInv'
  BY <1>n, <1>r DEF Refuse, Goto, Accepted
<1>1. CASE Begin \/ CheckRoot \/ CheckComponents \/ Open \/ Bind \/ Accept \/ Read \/ CheckStable
           \/ RenderByPath
  <2>1. UNCHANGED <<purpose, role, subject, keeper>>
    BY <1>1 DEF Begin, CheckRoot, CheckComponents, Open, Bind, Accept, Read, CheckStable,
       RenderByPath, request, recycling
  <2>2. CASE \E e : Refuse(e)
    BY <1>r, <2>1, <2>2
  <2>3. CASE ~ (\E e : Refuse(e)) /\ (Accepted \/ pc \in Bound)
    <3>1. handle'[1] = handle[1]
      <4>1. CASE Begin \/ CheckRoot \/ CheckComponents
        BY <2>3, <4>1 DEF Begin, CheckRoot, CheckComponents, Go, looking
      <4>2. CASE Open \/ Bind
        <5>1. look # 1 \/ handle' = handle
          BY <2>3, <4>2 DEF Open, Bind, Accepted
        <5>2. handle' = handle \/ \E f : handle' = [handle EXCEPT ![look] = f]
          BY <2>3, <4>2 DEF Open, Bind
        <5> QED BY <1>0, <5>1, <5>2 DEF CallTypes, Looks
      <4>3. CASE Accept
        BY <1>0, <2>3, <4>3, Acceptance DEF CallTypes
      <4>4. CASE Read \/ CheckStable \/ RenderByPath
        BY <2>3, <4>4 DEF Read, CheckStable, RenderByPath, Go, looking
      <4> QED BY <1>1, <4>1, <4>2, <4>3, <4>4
    <3> QED BY <1>f, <1>h, <2>1, <2>3, <3>1
  <2>4. CASE ~ (\E e : Refuse(e)) /\ ~Accepted /\ pc \notin Bound /\ ~Bind
    <3>1. look' = look /\ pc' \notin Bound \cup Using
      <4>1. pc \in {"begin", "root", "components", "open", "root-last"}
        BY <1>1, <2>4 DEF Begin, CheckRoot, CheckComponents, Open, Accept, Read, CheckStable,
           RenderByPath, Accepted
      <4>2. pc # "root-last"
        BY <1>0, <2>4 DEF LookInv, Final, Accepted
      <4>3. CASE Begin \/ CheckRoot \/ CheckComponents \/ Open
        BY <2>4, <4>1, <4>2, <4>3 DEF Begin, CheckRoot, CheckComponents, Open, Go, Goto, looking
      <4> QED BY <1>1, <2>4, <4>1, <4>3 DEF Accept, Read, CheckStable, RenderByPath
    <3>2. ~Accepted'
      BY <2>4, <3>1 DEF Accepted
    <3> QED BY <1>n, <2>1, <3>1, <3>2
  <2>5. CASE ~ (\E e : Refuse(e)) /\ ~Accepted /\ Bind
    <3>1. look = 1 /\ FinalPathMatches(handle[1]) /\ handle' = handle /\ UNCHANGED disk
      BY <2>5 DEF Bind, Accepted
    <3>2. FinalPathMatches(handle[1])'
      BY <2>1, <3>1 DEF FinalPathMatches, Named, disk
    <3> QED BY <1>k, <2>1, <3>2 DEF PinInv
  <2> QED BY <2>2, <2>3, <2>4, <2>5
<1>2. CASE Verified
  <2>0. look = 3
    BY <1>0, <1>2 DEF Verified, LookInv, Final
  <2>1. CASE UNCHANGED <<looking, recycling>>
    BY <1>f, <1>h, <1>2, <2>0, <2>1 DEF Verified, looking, recycling, request, Accepted
  <2>2. CASE \E e : Refuse(e)
    <3>1. UNCHANGED recycling
      BY <1>2, <2>2 DEF Verified, Refuse, Yield, Goto
    <3> QED BY <1>r, <2>2, <3>1 DEF recycling
  <2>3. CASE ~UNCHANGED <<looking, recycling>> /\ ~ \E e : Refuse(e)
    <3>1. /\ pc' = "begin" /\ look' = 1 /\ keeper' = handle[1] /\ role = "keeper" /\ UNCHANGED disk
      BY <1>2, <2>3 DEF Verified, Goto
    <3>2. handle[1] = subject /\ FinalPathMatches(subject)
      BY <1>0, <2>0, <3>1 DEF AcceptInv, PinInv, Accepted, SharesDelete
    <3>3. way.reparse \in BOOLEAN
      BY <1>0 DEF DiskTypes
    <3>4. entry'[way'.dir][keeper'] = keeper' /\ way'.reparse = FALSE
      BY <3>1, <3>2, <3>3 DEF FinalPathMatches, Named, disk
    <3> QED BY <3>1, <3>4 DEF PinInv, Accepted
  <2> QED BY <2>1, <2>2, <2>3
<1>3. CASE NextTarget \/ Refused
  <2>1. /\ pc \in {"next", "refused"} /\ look' = look /\ keeper' = keeper
    <3>1. CASE NextTarget
      BY <3>1 DEF NextTarget, looking
    <3>2. CASE Refused
      BY <3>2 DEF Refused, looking
    <3> QED BY <1>3, <3>1, <3>2
  <2>2. pc' \in {"next", "begin", "return", "done"}
    <3>1. CASE NextTarget
      BY <3>1 DEF NextTarget, TryFirst, Goto
    <3>2. CASE Refused
      <4>1. (\E r : Yield(r)) \/ (\E status : Settle(status)) \/ TryFirst(candidates)
        BY <3>2, Zenon DEF Refused
      <4> QED BY <4>1 DEF Yield, Settle, TryFirst, Goto
    <3> QED BY <1>3, <3>1, <3>2
  <2>3. look = 1
    BY <1>0, <2>1 DEF LookInv, Later, Seeking, Final, Acting
  <2>4. ~Accepted' /\ pc' \notin Bound
    BY <2>1, <2>2, <2>3 DEF Accepted
  <2> QED BY <1>n, <2>1, <2>4
<1>4. CASE CallAdapter \/ CheckReceipt \/ VerifyAbsent
  <2>1. /\ pc \in Acting /\ pc' \in {"receipt", "absent", "return"}
        /\ UNCHANGED <<keeper, role, purpose, role>>
    BY <1>4 DEF CallAdapter, CheckReceipt, VerifyAbsent, Settle, Goto, request, Acting
  <2>2. role = "target" /\ purpose = "recycle"
    BY <1>0, <2>1 DEF KeeperInv, LookInv
  <2> QED BY <1>k, <2>1, <2>2 DEF PinInv, SharesDelete
<1>5. CASE Return
  <2>1. look' = 1 /\ keeper' = Nothing /\ pc' \in {"next", "done"}
    BY <1>5 DEF Return, Goto
  <2> QED BY <2>1 DEF PinInv, Accepted
<1>6. CASE OtherPrograms \/ Cancel \/ UNCHANGED vars
  <2>1. UNCHANGED <<purpose, pc, look, handle, subject, keeper, role>>
    BY <1>6 DEF OtherPrograms, Cancel, vars, request, looking, recycling
  <2>2. CASE Accepted \/ pc \in Bound
    BY <1>f, <1>h, <2>1, <2>2
  <2>3. CASE ~Accepted /\ pc \notin Bound
    BY <1>n, <2>1, <2>3 DEF Accepted
  <2> QED BY <2>2, <2>3
<1> QED BY <1>1, <1>2, <1>3, <1>4, <1>5, <1>6 DEF Next, Call

LEMMA ReadInvStep == IInv /\ [Next]_vars => ReadInv'
<1> SUFFICES ASSUME IInv, [Next]_vars PROVE ReadInv'
  OBVIOUS
<1>0. ReadInv /\ LookInv /\ AcceptInv /\ PinInv /\ DiskInv /\ DiskTypes /\ CallTypes /\ RequestTypes
  BY DEF IInv, Types
<1> USE GroupFacts DEF Bound, Using, Seeking, Looks
<1>q. got \in Seq(Nat) /\ Len(got) \in Nat /\ DOMAIN got = 1..Len(got)
  BY <1>0 DEF CallTypes
<1>s. subject \in Files /\ subject \in Records /\ file[subject].stamp \in Nat
  BY <1>0 DEF RequestTypes, DiskTypes
<1>r. ASSUME NEW e, Refuse(e), UNCHANGED <<got, result, purpose>>, pc \notin {"return", "done"}
      PROVE  ReadInv'
  BY <1>0, <1>r DEF ReadInv, Refuse, Goto, Accepted
<1>1. CASE Begin \/ CheckRoot \/ CheckComponents \/ Open \/ Bind \/ Accept
  <2>1. /\ UNCHANGED <<file, purpose, subject, got, shown, result>>
        /\ pc \in Seeking \cup {"bind", "root-last"} \cup Bound
    BY <1>1 DEF Begin, CheckRoot, CheckComponents, Open, Bind, Accept, disk, request, recycling, yield
  <2>2. CASE \E e : Refuse(e)
    BY <1>r, <2>1, <2>2
  <2>3. CASE ~ \E e : Refuse(e)
    <3>1. /\ look' = look
          /\ \/ pc = "begin" /\ pc' = "root"
             \/ pc = "root" /\ pc' = "components"
             \/ pc = "root-again" /\ pc' = "accept"
             \/ pc = "root-last" /\ pc' = "verified"
             \/ pc = "components" /\ pc' = "open"
             \/ pc = "open" /\ pc' = "bind"
             \/ pc = "bind" /\ pc' = "root-again"
             \/ pc = "accept" /\ look = 1 /\ pc' \in {"shell", "read"}
             \/ pc = "accept" /\ look = 2 /\ pc' = "stable"
             \/ pc = "accept" /\ look = 3 /\ pc' = "root-last"
      <4>1. CASE Begin \/ CheckRoot \/ CheckComponents
        BY <2>3, <4>1 DEF Begin, CheckRoot, CheckComponents, Go, Goto, looking
      <4>2. CASE Open \/ Bind
        BY <2>3, <4>2 DEF Open, Bind, Goto
      <4>3. CASE Accept
        BY <1>0, <2>3, <4>3, Acceptance DEF CallTypes
      <4> QED BY <1>1, <4>1, <4>2, <4>3
    <3>2. pc' = "stable" => purpose \notin Hashing
      BY <1>0, <3>1 DEF LookInv, Hashing
    <3>3. Accepted' => Accepted \/ got = <<>>
      BY <1>0, <2>1, <3>1 DEF Accepted, ReadInv, LookInv, Final
    <3>4. pc \notin {"return", "done"}
      BY <3>1
    <3> QED BY <1>0, <2>1, <3>1, <3>2, <3>3, <3>4 DEF ReadInv, Accepted
  <2> QED BY <2>2, <2>3
<1>2. CASE Read
  <2>0. /\ pc = "read" /\ look = 1 /\ UNCHANGED <<file, purpose, subject, shown, result>>
        /\ purpose # "preview" /\ handle[1] = subject
    BY <1>0, <1>2 DEF Read, LookInv, Later, Final, Acting, disk, request, recycling, AcceptInv,
       Accepted
  <2>1. CASE \E e : Refuse(e)
    <3>1. got' = got
      BY <1>2, <2>1 DEF Read, Refuse, Go, Goto
    <3> QED BY <1>r, <2>0, <2>1, <3>1
  <2>2. CASE ~ \E e : Refuse(e)
    <3>1. look' = look
      BY <1>2, <2>2 DEF Read, Go, looking
    <3>2. CASE pc' = "read" /\ Len(got) < 2 /\ got' = Append(got, file[subject].bytes)
      <4>1. file[subject].bytes \in Nat
        BY <1>0, <1>s DEF DiskTypes
      <4>2. /\ Len(got') = Len(got) + 1 /\ DOMAIN got' = 1..(Len(got) + 1)
            /\ \A i \in 1..Len(got) : got'[i] = got[i]
            /\ got'[Len(got) + 1] = file[subject].bytes
        BY <1>q, <3>2, <4>1, AppendProperties
      <4>3. \A i \in DOMAIN got' : got'[i] = 0 \/ file[subject].stamp > 0
        BY <1>0, <1>q, <1>s, <2>0, <4>2 DEF DiskInv, ReadInv, Accepted
      <4> QED BY <1>0, <1>q, <2>0, <3>1, <3>2, <4>2, <4>3 DEF ReadInv, Accepted
    <3>3. CASE pc' = "stable" /\ Len(got) = 2 /\ got' = got
      BY <1>0, <2>0, <3>1, <3>3 DEF ReadInv, Accepted
    <3>4. \/ pc' = "read" /\ Len(got) < 2 /\ got' = Append(got, file[subject].bytes)
          \/ pc' = "stable" /\ Len(got) = 2 /\ got' = got
      BY <1>2, <2>0, <2>2, Zenon DEF Read, Go, Goto, Chunks
    <3> QED BY <3>2, <3>3, <3>4
  <2> QED BY <2>1, <2>2
<1>3. CASE CheckStable
  <2>0. pc = "stable" /\ UNCHANGED <<file, purpose, subject, got, shown, result>>
    BY <1>3 DEF CheckStable, disk, request, recycling, yield
  <2>1. CASE \E e : Refuse(e)
    BY <1>r, <2>0, <2>1
  <2>2. CASE ~ \E e : Refuse(e)
    <3>1. look' = 3 /\ pc' = "root"
      BY <1>3, <2>2 DEF CheckStable, Goto
    <3>2. Accepted /\ snap[1] = ScannedAs(subject) /\ handle[1] = subject
      BY <1>0, <2>0 DEF AcceptInv, Accepted
    <3>3. purpose \in Hashing => snap[1] = Snapshot(handle[1])
      BY <1>3, <2>2 DEF CheckStable, SnapshotsEqual, Hashing
    <3>4. purpose \in Hashing => file[subject].stamp = 0
      BY <3>2, <3>3 DEF ScannedAs, Snapshot
    <3>5. purpose \in Hashing => Len(got) = 2 /\ got[1] = 0 /\ got[2] = 0
      BY <1>0, <1>q, <2>0, <3>2, <3>4 DEF ReadInv
    <3>6. purpose = "preview" => shown = <<subject, 0>>
      BY <1>0, <2>0 DEF ReadInv, LookInv
    <3> QED BY <1>0, <2>0, <3>1, <3>2, <3>5, <3>6 DEF ReadInv, Accepted
  <2> QED BY <2>1, <2>2
<1>4. CASE RenderByPath
  <2>0. /\ pc = "shell" /\ UNCHANGED <<file, purpose, subject, got, result>> /\ purpose = "preview"
    BY <1>0, <1>4 DEF RenderByPath, disk, request, recycling, LookInv
  <2>1. CASE \E e : Refuse(e)
    BY <1>r, <2>0, <2>1
  <2>2. CASE ~ \E e : Refuse(e)
    <3>1. look' = 2 /\ pc' = "root" /\ shown' = <<Named(subject), file[Named(subject)].bytes>>
      BY <1>4, <2>2 DEF RenderByPath, Goto
    <3>2. handle[1] = subject /\ FinalPathMatches(handle[1]) /\ file[subject].stamp = 0
      BY <1>0, <2>0 DEF AcceptInv, PinInv, Accepted, SharesDelete, Hashing
    <3>3. shown' = <<subject, 0>>
      BY <1>0, <1>s, <3>1, <3>2 DEF FinalPathMatches, DiskInv
    <3> QED BY <1>0, <2>0, <3>1, <3>3 DEF ReadInv, Accepted, Hashing
  <2> QED BY <2>1, <2>2
<1>5. CASE Verified
  <2>0. pc = "verified" /\ look = 3 /\ UNCHANGED <<file, purpose, shown>>
    BY <1>0, <1>5 DEF Verified, LookInv, Final, disk, request
  <2>1. CASE \E e : Refuse(e)
    <3>1. UNCHANGED <<got, result>>
      BY <1>5, <2>1 DEF Verified, Refuse, Yield, Goto
    <3> QED BY <1>r, <2>0, <2>1, <3>1
  <2>2. CASE purpose # "recycle"
    <3>1. /\ pc' = "return" /\ UNCHANGED <<look, subject, got>>
          /\ result' = IF purpose = "preview" THEN "shown" ELSE "hashed"
      BY <1>5, <2>2 DEF Verified, Yield, Goto, looking, recycling
    <3>2. purpose \in Hashing \cup {"preview"}
      BY <1>0, <2>2 DEF CallTypes
    <3> QED BY <1>0, <2>0, <3>1, <3>2 DEF ReadInv, Accepted, Hashing
  <2>3. CASE purpose = "recycle" /\ ~ \E e : Refuse(e)
    <3>1. result' = result
      BY <1>5, <2>3 DEF Verified
    <3>2. \/ pc' = "adapter" /\ UNCHANGED <<look, subject, got>>
          \/ pc' = "begin" /\ look' = 1 /\ got' = <<>>
      BY <1>5, <2>3 DEF Verified, Goto, looking, recycling
    <3>3. CASE pc' = "begin" /\ look' = 1 /\ got' = <<>>
      BY <1>0, <2>0, <2>3, <3>1, <3>3 DEF ReadInv, Accepted, Hashing
    <3>4. CASE pc' = "adapter" /\ UNCHANGED <<look, subject, got>>
      BY <1>0, <2>0, <2>3, <3>1, <3>4 DEF ReadInv, Accepted, Hashing
    <3> QED BY <3>2, <3>3, <3>4
  <2> QED BY <2>1, <2>2, <2>3
<1>6. CASE NextTarget
  <2>1. /\ UNCHANGED <<purpose, look, got, shown, result>> /\ pc = "next"
        /\ pc' \in {"next", "begin", "done"}
    BY <1>6 DEF NextTarget, TryFirst, Goto, looking, request, yield
  <2>2. look = 1 /\ purpose = "recycle"
    BY <1>0, <2>1 DEF LookInv, Later, Seeking, Final, Acting
  <2>3. got = <<>>
    BY <1>0, <2>1, <2>2 DEF ReadInv
  <2> QED BY <1>0, <2>1, <2>2, <2>3 DEF ReadInv, Accepted, Hashing
<1>7. CASE Refused
  <2>1. pc = "refused" /\ UNCHANGED <<purpose, look, shown>> /\ got' = <<>>
    BY <1>7 DEF Refused, looking, request
  <2>2. pc' \in {"begin", "return"}
    <3>1. (\E r : Yield(r)) \/ (\E status : Settle(status)) \/ TryFirst(candidates)
      BY <1>7, Zenon DEF Refused
    <3> QED BY <3>1 DEF Yield, Settle, TryFirst, Goto
  <2>3. look = 1
    BY <1>0, <2>1 DEF LookInv, Later, Seeking, Final, Acting
  <2>4. result' \in {error, result}
    BY <1>0, <1>7 DEF Refused, Yield, RequestTypes
  <2>5. result' \notin {"shown", "hashed"}
    BY <1>0, <2>1, <2>4 DEF ReadInv, CallTypes, Errors
  <2> QED BY <2>1, <2>2, <2>3, <2>5 DEF ReadInv, Accepted
<1>8. CASE CallAdapter \/ CheckReceipt \/ VerifyAbsent
  <2>1. /\ pc \in Acting /\ pc' \in {"receipt", "absent", "return"}
        /\ UNCHANGED <<file, purpose, look, subject, got, shown, result>>
    BY <1>8 DEF CallAdapter, CheckReceipt, VerifyAbsent, Settle, Goto, looking, request, disk, Acting,
       yield
  <2>2. look = 3 /\ purpose = "recycle"
    BY <1>0, <2>1 DEF LookInv, Final
  <2> QED BY <1>0, <2>1, <2>2 DEF ReadInv, Accepted, Hashing, Acting
<1>9. CASE Return
  <2>1. /\ look' = 1 /\ pc = "return" /\ pc' \in {"next", "done"} /\ got' = <<>>
        /\ pc' = "next" => purpose = "recycle"
        /\ UNCHANGED <<purpose, subject, shown, result>>
    BY <1>9 DEF Return, Goto, request
  <2> QED BY <1>0, <2>1 DEF ReadInv, Accepted, Hashing
<1>10. CASE OtherPrograms \/ Cancel \/ UNCHANGED vars
  <2>1. UNCHANGED <<purpose, pc, look, subject, got, shown, result>>
    BY <1>10 DEF OtherPrograms, Cancel, vars, request, looking, recycling, yield
  <2>2. file'[subject].stamp \in Nat /\ file[subject].stamp <= file'[subject].stamp
    BY <1>s, <1>10, FilesAge, CallsLeaveFiles
  <2>3. Accepted => \A i \in DOMAIN got : got[i] = 0 \/ file'[subject].stamp > 0
    BY <1>0, <1>s, <2>2 DEF ReadInv
  <2> QED BY <1>0, <2>1, <2>3 DEF ReadInv, Accepted
<1> QED BY <1>1, <1>2, <1>3, <1>4, <1>5, <1>6, <1>7, <1>8, <1>9, <1>10 DEF Next, Call

--------------------------------------------------------------------------------
(* What the steps do to the request.                                        *)
LEMMA CallsKeepTheRequest ==
  ASSUME IInv, [Next]_vars,
         ~(Verified \/ NextTarget \/ Refused \/ CallAdapter \/ CheckReceipt \/ VerifyAbsent \/ Return)
  PROVE  /\ UNCHANGED <<purpose, adapter, todo, items, role, subject, candidates, keeper, receipt, bin>>
         /\ pc' \in Acting \cup {"return", "next", "done"} => pc' = pc
         /\ pc \in Acting \cup {"return", "next", "done"} => pc' = pc
         /\ pc \in Acting \cup {"return"} => look' = look
<1>0. LookInv /\ CallTypes
  BY DEF IInv, Types
<1> USE DEF Acting, Go, Goto, Refuse, looking
<1>1. UNCHANGED <<purpose, adapter, todo, items, role, subject, candidates, keeper, receipt, bin>>
  BY DEF Next, Call, Begin, CheckRoot, CheckComponents, Open, Bind, Accept, Read, CheckStable,
     RenderByPath, OtherPrograms, Cancel, vars, request, recycling, disk
<1>2. CASE Begin \/ CheckRoot \/ CheckComponents \/ Open \/ Bind
  BY <1>1, <1>2 DEF Begin, CheckRoot, CheckComponents, Open, Bind
<1>3. CASE Accept
  <2>1. CASE \E e : Refuse(e)
    BY <1>1, <1>3, <2>1 DEF Accept
  <2>2. CASE ~ \E e : Refuse(e)
    <3>1. pc = "accept" /\ pc' \in {"shell", "read", "stable", "root-last"}
      <4> HIDE DEF Refuse
      <4> QED BY <1>0, <1>3, <2>2, Acceptance DEF CallTypes
    <3> QED BY <1>1, <3>1
  <2> QED BY <2>1, <2>2
<1>4. CASE Read \/ CheckStable \/ RenderByPath
  BY <1>1, <1>4 DEF Read, CheckStable, RenderByPath
<1>5. CASE OtherPrograms \/ Cancel \/ UNCHANGED vars
  BY <1>1, <1>5 DEF OtherPrograms, Cancel, vars
<1> QED BY <1>2, <1>3, <1>4, <1>5 DEF Next, Call

LEMMA KeeperInvStep == IInv /\ [Next]_vars => KeeperInv'
<1> SUFFICES ASSUME IInv, [Next]_vars PROVE KeeperInv'
  OBVIOUS
<1>0. KeeperInv /\ LookInv /\ AcceptInv /\ CallTypes /\ RequestTypes
  BY DEF IInv, Types
<1> USE GroupFacts
<1>t. \A i \in DOMAIN todo : todo[i] \in Records
  BY <1>0 DEF RequestTypes
<1>1. CASE Verified
  <2>0. pc = "verified" /\ look = 3 /\ UNCHANGED <<purpose, todo>>
    BY <1>0, <1>1 DEF Verified, LookInv, Final, request, recycling
  <2>1. CASE \E e : Refuse(e)
    <3>1. UNCHANGED recycling /\ pc' = "refused"
      BY <1>1, <2>1 DEF Verified, Refuse, Yield, Goto
    <3> QED BY <1>0, <2>0, <3>1 DEF KeeperInv, recycling, Acting
  <2>2. CASE purpose # "recycle"
    <3>1. UNCHANGED recycling /\ pc' = "return"
      BY <1>1, <2>2 DEF Verified, Yield, Goto
    <3> QED BY <1>0, <2>0, <2>2, <3>1 DEF KeeperInv, recycling, Acting
  <2>3. CASE purpose = "recycle" /\ ~ \E e : Refuse(e)
    <3>1. CASE role = "target"
      <4>1. UNCHANGED recycling /\ pc' = "adapter"
        BY <1>1, <2>3, <3>1 DEF Verified, Goto
      <4> QED BY <1>0, <2>0, <3>1, <4>1 DEF KeeperInv, recycling, Acting
    <3>2. CASE role = "keeper"
      <4>1. /\ keeper' = handle[1] /\ role' = "target" /\ subject' = Head(todo) /\ pc' = "begin"
            /\ candidates' = candidates
        BY <1>1, <2>3, <3>2 DEF Verified, Goto
      <4>2. handle[1] = subject /\ subject # Nothing
        BY <1>0, <2>0 DEF AcceptInv, Accepted, RequestTypes
      <4>3. todo # <<>> /\ \A i \in DOMAIN todo : todo[i] # subject
        BY <1>0, <2>0, <2>3, <3>2 DEF KeeperInv
      <4> QED BY <2>0, <2>3, <4>1, <4>2, <4>3 DEF KeeperInv, Acting
    <3> QED BY <1>0, <3>1, <3>2 DEF RequestTypes
  <2> QED BY <2>1, <2>2, <2>3
<1>2. CASE NextTarget
  <2>0. pc = "next" /\ UNCHANGED <<purpose, keeper>> /\ purpose = "recycle" /\ keeper = Nothing
    BY <1>0, <1>2 DEF NextTarget, LookInv, request, KeeperInv
  <2>1. CASE pc' \in {"next", "done"}
    BY <2>0, <2>1 DEF KeeperInv, Acting
  <2>2. CASE pc' \notin {"next", "done"}
    <3>1. todo # <<>> /\ role' = "keeper" /\ TryFirst(Keepers) /\ todo' = todo
      BY <1>2, <2>0, <2>2 DEF NextTarget, Goto
    <3>2. PICK k \in Keepers : subject' = Group[k] /\ candidates' = Keepers \ {k} /\ pc' = "begin"
      BY <3>1 DEF TryFirst, Goto
    <3>3. \A c \in Keepers, i \in DOMAIN todo : todo[i] # Group[c]
      BY DEF Keepers
    <3>4. \A c \in candidates', i \in DOMAIN todo : todo[i] # Group[c]
      BY <3>2, <3>3
    <3>5. \A i \in DOMAIN todo : todo[i] # subject'
      BY <3>2, <3>3
    <3> QED BY <2>0, <3>1, <3>2, <3>4, <3>5 DEF KeeperInv, Acting
  <2> QED BY <2>1, <2>2
<1>3. CASE Refused
  <2>0. pc = "refused" /\ UNCHANGED <<purpose, todo, role, keeper, look>>
    BY <1>3 DEF Refused, request, looking
  <2>1. look = 1
    BY <1>0, <2>0 DEF LookInv, Later, Seeking, Final, Acting, Bound
  <2>2. CASE pc' = "return" /\ UNCHANGED <<subject, candidates>>
    BY <1>0, <2>0, <2>1, <2>2 DEF KeeperInv, Acting
  <2>3. CASE purpose = "recycle" /\ role = "keeper" /\ TryFirst(candidates)
    <3>1. PICK k \in candidates :
            subject' = Group[k] /\ candidates' = candidates \ {k} /\ pc' = "begin"
      BY <2>3 DEF TryFirst, Goto
    <3>2. \A c \in candidates, i \in DOMAIN todo : todo[i] # Group[c]
      BY <1>0, <2>0, <2>3 DEF KeeperInv
    <3>3. \A i \in DOMAIN todo : todo[i] # subject'
      BY <3>1, <3>2
    <3>4. \A c \in candidates', i \in DOMAIN todo : todo[i] # Group[c]
      BY <3>1, <3>2
    <3>5. keeper = Nothing /\ todo # <<>>
      BY <1>0, <2>0, <2>3 DEF KeeperInv
    <3> QED BY <2>0, <2>3, <3>1, <3>3, <3>4, <3>5 DEF KeeperInv, Acting
  <2>4. \/ ((\E r : Yield(r)) \/ (\E status : Settle(status))) /\ UNCHANGED <<subject, candidates>>
        \/ purpose = "recycle" /\ role = "keeper" /\ TryFirst(candidates)
    BY <1>3, Zenon DEF Refused
  <2> QED BY <2>2, <2>3, <2>4 DEF Yield, Settle, Goto
<1>4. CASE CallAdapter \/ CheckReceipt \/ VerifyAbsent
  <2>1. /\ pc \in Acting /\ pc' \in {"receipt", "absent", "return"}
        /\ UNCHANGED <<purpose, todo, role, subject, candidates, keeper>>
    BY <1>4 DEF CallAdapter, CheckReceipt, VerifyAbsent, Settle, Goto, request, Acting
  <2>2. role = "target" /\ purpose = "recycle"
    BY <1>0, <2>1 DEF KeeperInv, LookInv
  <2> QED BY <1>0, <2>1, <2>2 DEF KeeperInv, Acting
<1>5. CASE Return
  <2>1. /\ keeper' = Nothing /\ purpose' = purpose /\ look' = 1 /\ pc = "return"
        /\ \/ purpose = "recycle" /\ pc' = "next"
           \/ purpose # "recycle" /\ pc' = "done" /\ todo' = todo
    BY <1>5 DEF Return, Goto, request
  <2> QED BY <1>0, <2>1 DEF KeeperInv, Acting
<1>6. CASE ~(Verified \/ NextTarget \/ Refused \/ CallAdapter \/ CheckReceipt \/ VerifyAbsent
             \/ Return)
  <2>1. /\ UNCHANGED <<purpose, todo, role, subject, candidates, keeper>>
        /\ pc' \in Acting \cup {"return", "next", "done"} => pc' = pc
        /\ pc \in Acting \cup {"return", "next", "done"} => pc' = pc
        /\ pc \in Acting \cup {"return"} => look' = look
    BY <1>6, CallsKeepTheRequest
  <2> HIDE DEF Acting
  <2> QED BY <1>0, <2>1 DEF KeeperInv
<1> QED BY <1>1, <1>2, <1>3, <1>4, <1>5, <1>6

LEMMA BinInvStep == IInv /\ [Next]_vars => BinInv'
<1> SUFFICES ASSUME IInv, [Next]_vars PROVE BinInv'
  OBVIOUS
<1>0. BinInv /\ KeeperInv /\ LookInv /\ AcceptInv /\ CallTypes /\ RequestTypes /\ DiskTypes /\ DiskInv
  BY DEF IInv, Types
<1> USE GroupFacts
<1>t. /\ todo \in Seq(Records) /\ Len(todo) \in Nat /\ DOMAIN todo = 1..Len(todo)
      /\ todo # <<>> => /\ Head(todo) = todo[1] /\ Head(todo) \in Records /\ 1 \in DOMAIN todo
                        /\ Tail(todo) \in Seq(Records)
                        /\ DOMAIN Tail(todo) = 1..(Len(todo) - 1)
                        /\ \A i \in 1..(Len(todo) - 1) : Tail(todo)[i] = todo[i + 1]
  <2>1. todo \in Seq(Records)
    BY <1>0 DEF RequestTypes
  <2>2. todo # <<>> => /\ Head(todo) \in Records /\ Tail(todo) \in Seq(Records)
                       /\ Len(Tail(todo)) = Len(todo) - 1
                       /\ \A i \in 1..Len(Tail(todo)) : Tail(todo)[i] = todo[i + 1]
    BY <2>1, HeadTailProperties
  <2> QED BY <2>1, <2>2
(* The head of the queue ends.                                              *)
<1>d. ASSUME NEW status \in ItemStates, Settle(status), UNCHANGED <<todo, bin, adapter>>,
             todo # <<>>, status = "recycled" => Head(todo) \in bin,
             receipt' # Nothing => receipt' \in bin,
             look' = 1 => receipt' = Nothing /\ Head(todo) \notin bin,
             status # "none"
      PROVE  BinInv'
  <2>1. /\ items' = [items EXCEPT ![Head(todo)] = status] /\ pc' = "return"
        /\ items \in [Records -> ItemStates]
    BY <1>0, <1>d DEF Settle, Goto, RequestTypes
  <2>2. \A r \in Records : items'[r] = IF r = Head(todo) THEN status ELSE items[r]
    BY <1>d, <1>t, <2>1
  <2>3. \A i \in DOMAIN todo' : items'[todo'[i]] = "none" \/ (i = 1 /\ pc' = "return")
    <3> SUFFICES ASSUME NEW i \in DOMAIN todo, i # 1
                 PROVE  items'[todo[i]] = "none"
      BY <1>d, <2>1
    <3>1. todo[i] # Head(todo) /\ todo[i] \in Records /\ items[todo[i]] = "none"
      BY <1>0, <1>d, <1>t DEF BinInv
    <3> QED BY <2>2, <3>1
  <2>4. \A r \in Records : items'[r] = "recycled" => r \in bin
    BY <1>0, <1>d, <2>2 DEF BinInv
  <2>5. \A f \in bin : \/ f = Stranger /\ adapter = "path"
                       \/ f \in Records /\ items'[f] # "none"
    BY <1>0, <1>d, <2>2 DEF BinInv
  <2> QED BY <1>0, <1>d, <2>1, <2>3, <2>4, <2>5 DEF BinInv
<1>1. CASE Verified
  <2>0. pc = "verified" /\ look = 3 /\ UNCHANGED <<todo, items, adapter, bin, receipt>>
    BY <1>0, <1>1 DEF Verified, LookInv, Final, request, recycling, disk
  <2>1. receipt = Nothing
    BY <1>0, <2>0 DEF BinInv
  <2>2. pc' \in {"return", "refused", "begin", "adapter"} /\ (pc' = "return" => look' = 3)
    BY <1>1, <2>0 DEF Verified, Refuse, Yield, Goto, looking
  <2>3. \A i \in DOMAIN todo : items[todo[i]] = "none"
    BY <1>0, <2>0 DEF BinInv
  <2> QED BY <1>0, <2>0, <2>1, <2>2, <2>3 DEF BinInv
<1>2. CASE NextTarget
  <2>0. pc = "next" /\ UNCHANGED <<adapter, bin, receipt, look>> /\ receipt = Nothing
    BY <1>0, <1>2 DEF NextTarget, request, disk, looking, BinInv
  <2>1. CASE UNCHANGED <<todo, items>>
    <3>1. pc' \in {"next", "begin", "done"}
      BY <1>2 DEF NextTarget, TryFirst, Goto
    <3> QED BY <1>0, <2>0, <2>1, <3>1 DEF BinInv
  <2>2. CASE todo # <<>> /\ items' = [items EXCEPT ![Head(todo)] = "cancelled"]
             /\ todo' = Tail(todo) /\ pc' = pc
    <3>1. items \in [Records -> ItemStates]
      BY <1>0 DEF RequestTypes
    <3>2. \A r \in Records : items'[r] = IF r = Head(todo) THEN "cancelled" ELSE items[r]
      BY <1>t, <2>2, <3>1
    <3>3. \A i \in DOMAIN todo' : i + 1 \in DOMAIN todo /\ todo'[i] = todo[i + 1] /\ i + 1 # 1
                                  /\ i \in Nat
      BY <1>t, <2>2
    <3>4. \A i \in DOMAIN todo' : items'[todo'[i]] = "none"
      BY <1>0, <1>t, <2>0, <2>2, <3>2, <3>3 DEF BinInv
    <3>5. \A i, j \in DOMAIN todo' : todo'[i] = todo'[j] => i = j
      <4> TAKE i, j \in DOMAIN todo'
      <4>1. todo[i + 1] = todo[j + 1] => i + 1 = j + 1
        BY <1>0, <3>3 DEF BinInv
      <4> QED BY <3>3, <4>1
    <3>6. \A f \in bin : \/ f = Stranger /\ adapter = "path"
                         \/ f \in Records /\ items'[f] # "none"
      BY <1>0, <2>0, <3>2 DEF BinInv
    <3>7. \A r \in Records : items'[r] = "recycled" => r \in bin
      BY <1>0, <3>2 DEF BinInv
    <3> QED BY <2>0, <2>2, <3>4, <3>5, <3>6, <3>7 DEF BinInv
  <2> QED BY <1>2, <2>1, <2>2 DEF NextTarget
<1>3. CASE Refused
  <2>0. /\ pc = "refused" /\ UNCHANGED <<adapter, purpose, bin, todo, receipt, look>>
        /\ receipt = Nothing
    BY <1>0, <1>3 DEF Refused, request, disk, looking, BinInv
  <2>1. look = 1
    BY <1>0, <2>0 DEF LookInv, Later, Seeking, Final, Acting, Bound
  <2>2. CASE items' = items /\ (pc' = "return" => purpose # "recycle")
             /\ pc' \in {"begin", "return"}
    BY <1>0, <2>0, <2>1, <2>2 DEF BinInv, KeeperInv
  <2>3. CASE purpose = "recycle" /\ \E status \in ItemStates \ {"none", "recycled"} : Settle(status)
    <3>1. todo # <<>>
      BY <1>0, <2>0, <2>3 DEF KeeperInv
    <3>2. Head(todo) \notin bin
      <4>1. items[Head(todo)] = "none"
        BY <1>0, <1>t, <2>0, <3>1 DEF BinInv
      <4> QED BY <1>0, <1>t, <2>0, <3>1, <4>1, VerifiedFileAssumption DEF BinInv
    <3> QED BY <1>d, <2>0, <2>1, <2>3, <3>1, <3>2
  <2>4. Status(error) \in ItemStates \ {"none", "recycled"}
        /\ KeeperStatus(saw') \in ItemStates \ {"none", "recycled"}
    BY DEF Status, KeeperStatus, ItemStates
  <2>5. \/ (\E r : Yield(r)) /\ items' = items /\ purpose # "recycle"
        \/ purpose = "recycle" /\ (Settle(Status(error)) \/ Settle(KeeperStatus(saw')))
        \/ TryFirst(candidates) /\ items' = items
    BY <1>3, Zenon DEF Refused
  <2> QED BY <2>2, <2>3, <2>4, <2>5 DEF Yield, TryFirst, Goto
<1>4. CASE CallAdapter \/ CheckReceipt \/ VerifyAbsent
  <2>0. /\ pc \in Acting /\ UNCHANGED <<adapter, todo, look>> /\ look = 3 /\ purpose = "recycle"
        /\ todo # <<>> /\ subject = Head(todo) /\ handle[1] = subject
    <3>1. pc \in Acting /\ UNCHANGED <<adapter, todo, look>>
      BY <1>4 DEF CallAdapter, CheckReceipt, VerifyAbsent, request, looking, Acting
    <3>2. look = 3 /\ purpose = "recycle" /\ role = "target"
      BY <1>0, <3>1 DEF LookInv, Final, KeeperInv
    <3>3. todo # <<>> /\ subject = Head(todo)
      BY <1>0, <3>1, <3>2 DEF KeeperInv, Acting
    <3>4. handle[1] = subject
      BY <1>0, <3>2 DEF AcceptInv, Accepted
    <3> QED BY <3>1, <3>2, <3>3, <3>4
  <2>1. CASE CallAdapter
    <3>0. pc = "adapter" /\ receipt = Nothing
      BY <1>0, <2>1 DEF CallAdapter, BinInv
    <3>1. CASE UNCHANGED <<bin, receipt>> /\ (Settle("cancelled") \/ Settle("failed"))
      BY <1>d, <2>0, <3>0, <3>1 DEF ItemStates
    <3>2. CASE /\ Sunk # Nothing /\ bin' = bin \cup {Sunk} /\ receipt' \in {Sunk, Nothing}
               /\ pc' = "receipt" /\ items' = items
      <4>1. Sunk = Head(todo) \/ (Sunk = Stranger /\ adapter = "path")
        <5>1. way.dir \in {"home", "elsewhere"}
          BY <1>0 DEF DiskTypes, Dirs
        <5> QED BY <1>0, <1>t, <2>0, <3>2, <5>1 DEF Sunk, Named, DiskInv
      <4>2. \A i \in DOMAIN todo : items[todo[i]] = "none"
        BY <1>0, <3>0 DEF BinInv
      <4> QED BY <1>0, <1>t, <2>0, <3>0, <3>2, <4>1, <4>2 DEF BinInv
    <3> QED BY <2>1, <3>1, <3>2 DEF CallAdapter, Goto
  <2>2. CASE CheckReceipt
    <3>0. pc = "receipt" /\ UNCHANGED <<bin, receipt>> /\ (receipt # Nothing => receipt \in bin)
      BY <1>0, <2>2 DEF CheckReceipt, disk, BinInv
    <3>1. CASE Settle("cancelled") \/ Settle("failed")
      BY <1>d, <2>0, <3>0, <3>1 DEF ItemStates
    <3>2. CASE receipt = Head(todo) /\ pc' = "absent" /\ items' = items
      BY <1>0, <2>0, <3>0, <3>2 DEF BinInv
    <3> QED BY <2>2, <3>1, <3>2 DEF CheckReceipt, ReceiptMatches, Goto
  <2>3. CASE VerifyAbsent
    <3>0. /\ pc = "absent" /\ UNCHANGED <<bin, receipt>> /\ (receipt # Nothing => receipt \in bin)
          /\ receipt = Head(todo)
      BY <1>0, <2>3 DEF VerifyAbsent, disk, BinInv
    <3>1. Head(todo) \in bin
      BY <1>t, <2>0, <3>0
    <3>2. Settle("recycled") \/ Settle("failed")
      BY <2>3 DEF VerifyAbsent
    <3> QED BY <1>d, <2>0, <3>0, <3>1, <3>2 DEF ItemStates
  <2> QED BY <1>4, <2>1, <2>2, <2>3
<1>5. CASE Return
  <2>1. /\ pc = "return" /\ receipt' = Nothing /\ UNCHANGED <<adapter, bin, items>>
        /\ \/ purpose = "recycle" /\ pc' = "next" /\ todo' = Tail(todo) /\ todo # <<>>
           \/ purpose # "recycle" /\ pc' = "done" /\ todo' = todo /\ todo = <<>>
    BY <1>0, <1>5 DEF Return, Goto, request, disk, KeeperInv
  <2>2. \A f \in bin : \/ f = Stranger /\ adapter = "path"
                       \/ f \in Records /\ items[f] # "none"
    BY <1>0, <2>1 DEF BinInv
  <2>3. CASE todo = <<>> /\ todo' = todo
    BY <1>0, <2>1, <2>2, <2>3 DEF BinInv
  <2>4. CASE todo # <<>> /\ todo' = Tail(todo)
    <3>1. \A i \in DOMAIN todo' : i + 1 \in DOMAIN todo /\ todo'[i] = todo[i + 1] /\ i + 1 # 1
                                  /\ i \in Nat
      BY <1>t, <2>4
    <3>2. \A i \in DOMAIN todo' : items[todo'[i]] = "none"
      BY <1>0, <3>1 DEF BinInv
    <3>3. \A i, j \in DOMAIN todo' : todo'[i] = todo'[j] => i = j
      <4> TAKE i, j \in DOMAIN todo'
      <4>1. todo[i + 1] = todo[j + 1] => i + 1 = j + 1
        BY <1>0, <3>1 DEF BinInv
      <4> QED BY <3>1, <4>1
    <3> QED BY <1>0, <2>1, <2>2, <3>2, <3>3 DEF BinInv
  <2> QED BY <2>1, <2>3, <2>4
<1>6. CASE ~(Verified \/ NextTarget \/ Refused \/ CallAdapter \/ CheckReceipt \/ VerifyAbsent
             \/ Return)
  <2>1. /\ UNCHANGED <<todo, items, adapter, receipt, bin>>
        /\ pc' \in {"adapter", "receipt", "absent", "return"} => pc' = pc
        /\ pc \in {"adapter", "receipt", "absent", "return"} => pc' = pc /\ (pc = "return" => look' = look)
    BY <1>6, CallsKeepTheRequest DEF Acting
  <2> QED BY <1>0, <2>1 DEF BinInv
<1> QED BY <1>1, <1>2, <1>3, <1>4, <1>5, <1>6

--------------------------------------------------------------------------------
(* The inductive invariant of one call holds in every reachable state.      *)
THEOREM Invariance == Spec => []IInv
<1>1. IInv /\ [Next]_vars => IInv'
  BY TypesStep, DiskInvStep, LookInvStep, AcceptInvStep, PinInvStep, ReadInvStep, KeeperInvStep,
     BinInvStep DEF IInv
<1> QED BY <1>1, InitIInv, PTL DEF Spec

(* A hash is of the recorded file in the recorded version, and while its    *)
(* handle is open the recorded path leads there; a thumbnail is of that     *)
(* file too, although the Shell opened it by its path (engine.go 716-772,   *)
(* preview_worker_windows.go 192-207).                                      *)
THEOREM OnlyTheRecordIsRead == Spec => []ReadsAreOfTheRecord
<1>1. IInv => ReadsAreOfTheRecord
  <2> SUFFICES ASSUME IInv PROVE ReadsAreOfTheRecord
    OBVIOUS
  <2>0. ReadInv /\ AcceptInv /\ PinInv /\ CallTypes
    BY DEF IInv, Types
  <2>1. ASSUME pc = "return", result = "hashed"
        PROVE  got = <<0, 0>> /\ handle[1] = subject /\ FinalPathMatches(subject)
    <3>1. purpose \in Hashing /\ look = 3
      BY <2>0, <2>1 DEF ReadInv
    <3>2. got \in Seq(Nat) /\ Len(got) = 2 /\ got[1] = 0 /\ got[2] = 0
      BY <2>0, <3>1 DEF ReadInv, CallTypes
    <3>3. handle[1] = subject /\ FinalPathMatches(subject)
      BY <2>0, <3>1 DEF AcceptInv, PinInv, Accepted, SharesDelete, Hashing
    <3>4. got = <<0, 0>>
      BY <3>2
    <3> QED BY <3>3, <3>4
  <2>2. result = "shown" => shown = <<subject, 0>>
    BY <2>0 DEF ReadInv
  <2> QED BY <2>1, <2>2 DEF ReadsAreOfTheRecord
<1> QED BY <1>1, Invariance, PTL

(* Until the item of a file that an adapter took is settled, the file is    *)
(* the version that was verified and another member with the same content   *)
(* is in place (delete.go 145-157).                                         *)
THEOREM KeeperStays == Spec => []KeeperOutlivesTheFile
<1>1. IInv => KeeperOutlivesTheFile
  <2> SUFFICES ASSUME IInv, pc \in {"receipt", "absent", "return"}, todo # <<>>,
                      Head(todo) \in bin \/ receipt # Nothing
               PROVE  /\ Head(todo) \in bin => file[Head(todo)].bytes = 0
                      /\ keeper \in Records \ {Head(todo)}
                      /\ entry["home"][keeper] = keeper /\ file[keeper].bytes = 0
    BY Zenon DEF KeeperOutlivesTheFile
  <2>0. AcceptInv /\ PinInv /\ LookInv /\ KeeperInv /\ BinInv /\ DiskInv /\ DiskTypes /\ CallTypes
        /\ RequestTypes
    BY DEF IInv, Types
  <2>1. purpose = "recycle"
    BY <2>0 DEF KeeperInv
  <2>2. look # 1
    BY <2>0 DEF BinInv, LookInv, Final, Acting
  <2>3. role = "target" /\ subject = Head(todo) /\ keeper # Nothing
    BY <2>0, <2>1, <2>2 DEF KeeperInv, Acting
  <2>4. file[subject].stamp = 0 /\ subject \in Records
    BY <2>0, <2>1, <2>2 DEF AcceptInv, Accepted, Hashing, RequestTypes
  <2>5. keeper \in Records /\ file[keeper].stamp = 0 /\ entry[way.dir][keeper] = keeper
    BY <2>0, <2>3 DEF AcceptInv, PinInv, RequestTypes
  <2>6. keeper # Head(todo)
    <3>1. 1 \in DOMAIN todo /\ Head(todo) = todo[1]
      BY <2>0 DEF RequestTypes
    <3> QED BY <2>0, <2>3, <3>1 DEF KeeperInv
  <2>7. entry["home"][keeper] = keeper
    <3>1. way.dir \in {"home", "elsewhere"}
      BY <2>0 DEF DiskTypes, Dirs
    <3>2. keeper # Stranger /\ keeper # Nothing
      BY <2>3, <2>5, VerifiedFileAssumption
    <3> QED BY <2>0, <2>5, <3>1, <3>2 DEF DiskInv
  <2> QED BY <2>0, <2>3, <2>4, <2>5, <2>6, <2>7 DEF DiskInv
<1> QED BY <1>1, Invariance, PTL

(* "Recycled" is said only of the file that was scanned, and an adapter     *)
(* that acts on the handle takes nothing else (delete.go 156-178).          *)
THEOREM OnlyTheRecordIsRecycled == Spec => []RecycledIsTheRecord
<1>1. IInv => RecycledIsTheRecord
  <2> SUFFICES ASSUME IInv PROVE RecycledIsTheRecord
    OBVIOUS
  <2>1. BinInv /\ KeeperInv /\ LookInv
    BY DEF IInv
  <2>2. pc \in {"receipt", "absent"} => todo # <<>>
    BY <2>1 DEF KeeperInv, LookInv, Acting
  <2> QED BY <2>1, <2>2 DEF RecycledIsTheRecord, BinInv
<1> QED BY <1>1, Invariance, PTL

================================================================================
