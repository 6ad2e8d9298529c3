--------------------------- MODULE ReportExportProofs ---------------------------
(***************************************************************************)
(* Theorems about the export of a report, for every report, path, number   *)
(* of errors and of writes by other programs: only whole reports are ever  *)
(* at a destination, what the caller is told is what happened, the window  *)
(* replaces only what its user agreed to lose, and the columns of a report *)
(* add up once.                                                            *)
(***************************************************************************)
EXTENDS ReportExport, SequenceTheorems, WellFoundedInduction, TLAPS

Places == Nat \X Nat
Cells == {CellAt(place) : place \in Places}

Errors == {"none", "canceled", "failed", "panic"}
Finishing == {"sync", "close", "rename"}
Exporting == {"create", "write"} \cup Finishing
Asking == {"dialog", "confirm", "scan"}
Steps == Asking \cup Exporting \cup {"cleanup", "returned", "declined", "crashed"}

RequestTypes ==
  /\ mode \in {"gui", "cli", "stdout"}
  /\ typed \in TypedPaths /\ format \in Formats /\ groups \in GroupLists
  /\ step \in Steps
  /\ DOMAIN dest = Paths
  /\ err \in Errors
  /\ cancelled \in BOOLEAN

WriterTypes ==
  /\ next \in Places
  /\ buffered \in Seq(Cells) /\ staged \in Seq(Cells)
  /\ staging \in {"none", "open", "closed"}
  /\ synced \in BOOLEAN /\ published \in BOOLEAN /\ stuck \in BOOLEAN

Types == RequestTypes /\ WriterTypes

(* Where an export goes: the typed path, and from the confirmation of the   *)
(* window on the one that fits the format.                                  *)
FinalInv ==
  /\ final = IF mode = "gui" /\ step # "dialog" THEN Resolve(typed, format) ELSE typed
  /\ step \in {"dialog", "confirm"} => mode = "gui"
  /\ step = "scan" => mode # "gui"

(* The cells so far are the document up to a place.                         *)
UpTo(cells, place) ==
  /\ cells = <<>> => place = Header
  /\ cells # <<>> =>
       /\ cells[1] = CellAt(Header)
       /\ \A k \in 1..(Len(cells) - 1) :
            cells[k + 1] = CellAt(After(cells[k].place))
       /\ After(cells[Len(cells)].place) = place

(* What was handed to the writer is in the file or in the buffer; behind    *)
(* the last cell and the last flush it is all in the file.                  *)
WriterInv ==
  /\ step \in Asking \cup {"create"} =>
       next = Header /\ buffered = <<>> /\ staged = <<>>
  /\ format = "json" => buffered = <<>>
  /\ step = "write" => UpTo(staged \o buffered, next)
  /\ step \in Finishing => Whole(staged)

(* Errors lead through the clean-up, and the rename is the last step.       *)
OutcomeInv ==
  /\ step \in Asking \cup Exporting \cup {"declined"} => err = "none"
  /\ step = "cleanup" => err # "none"
  /\ published => step \in {"returned", "crashed"} /\ synced
  /\ step \in {"close", "rename"} => synced
  /\ mode = "stdout" => step \notin {"dialog", "confirm", "create"} \cup Finishing
  /\ step = "returned" /\ err = "none" => (published <=> mode # "stdout")
  /\ published => mode # "stdout" /\ err = "none"
  /\ step \in Asking \cup {"create"} \/ mode = "stdout" => staging = "none"
  /\ step = "returned" /\ err = "none" => Whole(staged)
  /\ step = "returned" => staging = "none" \/ stuck

ExitInv ==
  exit # -1 => step = "returned" /\ exit = ExitCode

DestInv ==
  \A p \in Paths : dest[p].kind = "report" => synced /\ Whole(dest[p].cells)

(* What the user of the window was asked about is still there, or another   *)
(* program wrote there since.                                               *)
ConsentInv ==
  mode = "gui" /\ step \in {"confirm"} \cup Exporting =>
    /\ consent.path = IF step = "confirm" THEN typed ELSE final
    /\ dest[consent.path] = consent.content \/ consent.path \in touched

IInv ==
  /\ Types /\ FinalInv /\ WriterInv /\ OutcomeInv /\ ExitInv /\ DestInv
  /\ ConsentInv

--------------------------------------------------------------------------------
(* The document *)
LEMMA SameDocument ==
  ASSUME UNCHANGED request
  PROVE  /\ Paths' = Paths /\ End' = End /\ Cells' = Cells
         /\ \A place : CellAt(place)' = CellAt(place)
         /\ \A place : After(place)' = After(place)
         /\ \A cells : Whole(cells)' = Whole(cells)
         /\ \A cells, place : UpTo(cells, place)' = UpTo(cells, place)
<1>1. UNCHANGED <<mode, typed, format, groups>>
  BY DEF request
<1>2. Paths' = Paths /\ End' = End
  BY <1>1 DEF Paths, Resolve, Extension, End
<1>3. Total' = Total
  BY <1>1 DEF Total, Reclaimable
<1>4. \A place : CellAt(place)' = CellAt(place)
  BY <1>1, <1>3 DEF CellAt, Row, GroupEstimate, ReportEstimate, Reclaimable
<1>5. \A place : After(place)' = After(place)
  BY <1>1 DEF After
<1>6. Cells' = Cells
  BY <1>4 DEF Cells
<1>7. \A cells : Whole(cells)' = Whole(cells)
  BY <1>2, <1>4, <1>5 DEF Whole
<1>8. \A cells, place : UpTo(cells, place)' = UpTo(cells, place)
  BY <1>4, <1>5 DEF UpTo
<1> QED
  BY <1>2, <1>4, <1>5, <1>6, <1>7, <1>8

LEMMA PlaceOfCell ==
  ASSUME Types, NEW place \in Places
  PROVE  CellAt(place).place = place /\ CellAt(place) \in Cells
<1>1. place = <<place[1], place[2]>>
  BY DEF Places
<1>2. CASE place = Header
  <2>1. CellAt(place) =
          Cell(Header, {}, IF format = "json" THEN {Total} ELSE {})
    <3>1. groups \in Seq([size : Nat, files : Nat \ {0, 1}])
      BY ReportAssumption DEF Types, RequestTypes, ReportAssumption
    <3>2. place[1] \notin DOMAIN groups
      BY <1>2, <3>1, LenProperties DEF Header
    <3> QED
      BY <1>2, <3>2, Zenon DEF CellAt
  <2> QED
    BY <1>2, <2>1 DEF Cell, Cells
<1>3. CASE place # Header /\ place[1] \in DOMAIN groups
  <2>1. CellAt(place) = Row(place[1], place[2])
    BY <1>3 DEF CellAt
  <2> QED
    BY <1>1, <2>1 DEF Row, Cell, Cells
<1>4. CASE place # Header /\ place[1] \notin DOMAIN groups
  <2>1. CellAt(place) = Cell(place, {}, {})
    BY <1>4 DEF CellAt
  <2> QED
    BY <2>1 DEF Cell, Cells
<1> QED
  BY <1>2, <1>3, <1>4

LEMMA NextPlace ==
  ASSUME NEW place \in Places
  PROVE  After(place) \in Places
BY DEF Places, After

(* Writing the cell of the next place goes on with the document. *)
LEMMA OneCellMore ==
  ASSUME Types, NEW cells \in Seq(Cells), NEW place \in Places, UpTo(cells, place)
  PROVE  UpTo(Append(cells, CellAt(place)), After(place))
<1> DEFINE c == CellAt(place)
           more == Append(cells, c)
<1>1. c \in Cells /\ c.place = place
  BY PlaceOfCell
<1> HIDE DEF c
<1>2. /\ more # <<>> /\ Len(more) = Len(cells) + 1 /\ Len(cells) \in Nat
      /\ \A i \in 1..Len(cells) : more[i] = cells[i]
      /\ more[Len(cells) + 1] = c
  BY <1>1, AppendProperties, LenProperties
<1> HIDE DEF more
<1>3. CASE cells = <<>>
  <2>1. place = Header /\ Len(cells) = 0
    BY <1>3 DEF UpTo
  <2> QED
    BY <1>1, <1>2, <2>1 DEF UpTo, c, more
<1>4. CASE cells # <<>>
  <2>1. Len(cells) > 0
    BY <1>2, <1>4, EmptySeq
  <2>2. more[1] = CellAt(Header)
    BY <1>2, <1>4, <2>1 DEF UpTo
  <2>3. ASSUME NEW k \in 1..Len(cells)
        PROVE  more[k + 1] = CellAt(After(more[k].place))
    <3>1. CASE k < Len(cells)
      BY <1>2, <1>4, <3>1 DEF UpTo
    <3>2. CASE k = Len(cells)
      BY <1>2, <1>4, <2>1, <3>2 DEF UpTo, c
    <3> QED
      BY <1>2, <3>1, <3>2
  <2>4. Len(more) - 1 = Len(cells) /\ more[Len(more)].place = place
    BY <1>1, <1>2
  <2>5. UpTo(more, After(place))
    BY <1>2, <2>2, <2>3, <2>4 DEF UpTo
  <2> QED
    BY <2>5 DEF more, c
<1> QED
  BY <1>3, <1>4

(* At the end it is the whole document. *)
LEMMA WholeAtTheEnd ==
  ASSUME Types, NEW cells, UpTo(cells, End)
  PROVE  Whole(cells)
<1>1. Len(groups) \in Nat
  BY ReportAssumption DEF Types, RequestTypes, ReportAssumption
<1>2. End # Header
  BY <1>1 DEF End, Header
<1> QED
  BY <1>2 DEF UpTo, Whole

(* Paths *)
LEMMA PathFacts ==
  ASSUME Types
  PROVE  /\ typed \in Paths
         /\ mode = "gui" => Resolve(typed, format) \in Paths
         /\ Extension(Resolve(typed, format)) = format
<1>1. typed \in Seq(STRING) /\ typed # <<>> /\ format \in {"csv", "json"}
  BY ReportAssumption DEF Types, RequestTypes, ReportAssumption, Formats
<1>2. Len(typed) \in Nat \ {0}
  BY <1>1, EmptySeq
<1>6. typed \in Paths /\ (mode = "gui" => Resolve(typed, format) \in Paths)
  BY DEF Paths
<1> SUFFICES Extension(Resolve(typed, format)) = format
  BY <1>6
<1>3. CASE Extension(typed) = format
  <2>1. Resolve(typed, format) = typed
    BY <1>3 DEF Resolve
  <2> QED
    BY <1>3, <2>1
<1>4. CASE Extension(typed) # format /\ Extension(typed) \in Formats
  <2>1. Resolve(typed, format) = Append(Front(typed), format)
    BY <1>4 DEF Resolve
  <2>2. Len(typed) > 1
    BY <1>2, <1>4 DEF Extension, Formats
  <2>3. Front(typed) \in Seq(STRING) /\ Len(Front(typed)) = Len(typed) - 1
    BY <1>1, <1>2, <2>2, SubSeqProperties DEF Front
  <2>4. /\ Len(Append(Front(typed), format)) = Len(typed)
        /\ Append(Front(typed), format)[Len(typed)] = format
    BY <1>1, <1>2, <2>3, AppendProperties
  <2> QED
    BY <1>2, <2>1, <2>2, <2>4 DEF Extension, Last
<1>5. CASE Extension(typed) # format /\ Extension(typed) \notin Formats
  <2>1. Resolve(typed, format) = Append(typed, format)
    BY <1>5 DEF Resolve
  <2>2. /\ Len(Resolve(typed, format)) = Len(typed) + 1
        /\ Resolve(typed, format)[Len(typed) + 1] = format
    BY <1>1, <2>1, AppendProperties
  <2>3. Len(typed) + 1 > 1
    BY <1>2
  <2> QED
    BY <2>2, <2>3 DEF Extension, Last
<1> QED
  BY <1>3, <1>4, <1>5

--------------------------------------------------------------------------------
LEMMA RequestStays == [Next]_vars => UNCHANGED request
BY DEF Next, SaveDialog, ConfirmOverwrite, CliScan, CreateTemp, WriteCell, Flush,
       Written, Sync, Close, Rename, CleanUp, Exit, Cancel, Crash, OtherProgram,
       vars

LEMMA TypesStep ==
  ASSUME Types, FinalInv, [Next]_vars
  PROVE  Types'
<1>1. UNCHANGED request /\ Paths' = Paths /\ Cells' = Cells
  BY RequestStays, SameDocument
<1>2. final \in Paths
  BY PathFacts DEF FinalInv
<1>3. ASSUME step' \in Steps, DOMAIN dest' = Paths, err' \in Errors,
             cancelled' \in BOOLEAN
      PROVE  RequestTypes'
  BY <1>1, <1>3 DEF Types, RequestTypes, request
<1>4. ASSUME UNCHANGED <<next, buffered, staged>>,
             staging' \in {"none", "open", "closed"}, synced' \in BOOLEAN,
             published' \in BOOLEAN, stuck' \in BOOLEAN
      PROVE  WriterTypes'
  BY <1>1, <1>4 DEF Types, WriterTypes
<1> USE DEF writer, file, world
<1>5. CASE SaveDialog \/ ConfirmOverwrite \/ CliScan
  <2>1. /\ step' \in Steps /\ UNCHANGED <<dest, cancelled>>
        /\ err' \in {err, "canceled", "failed", "panic"}
    BY <1>5 DEF SaveDialog, ConfirmOverwrite, CliScan, Steps, Asking, Exporting
  <2>2. UNCHANGED <<next, buffered, staged, staging, synced, published, stuck>>
    BY <1>5 DEF SaveDialog, ConfirmOverwrite, CliScan
  <2> QED
    BY <1>3, <1>4, <2>1, <2>2 DEF Types, RequestTypes, WriterTypes, Errors
<1>6. CASE CreateTemp \/ Written \/ Sync \/ Close
  <2>1. /\ step' \in Steps /\ UNCHANGED <<dest, cancelled>>
        /\ err' \in {err, "canceled", "failed"}
    BY <1>6 DEF CreateTemp, Written, Sync, Close, Stopped, Broken, Fail, Fault,
                Steps, Asking, Exporting, Finishing
  <2>2. /\ UNCHANGED <<next, buffered, staged, published, stuck>>
        /\ staging' \in {staging, "open", "closed"} /\ synced' \in {synced, TRUE}
    BY <1>6 DEF CreateTemp, Written, Sync, Close
  <2> QED
    BY <1>3, <1>4, <2>1, <2>2 DEF Types, RequestTypes, WriterTypes, Errors
<1>7. CASE WriteCell
  <2>1. /\ step' \in Steps /\ UNCHANGED <<dest, cancelled>> /\ err' \in Errors
    BY <1>7 DEF WriteCell, Stopped, Broken, Fail, Fault, Steps, Exporting, Errors,
                Types, RequestTypes
  <2>2. CellAt(next) \in Cells /\ After(next) \in Places
    BY PlaceOfCell, NextPlace DEF Types, WriterTypes
  <2>3. UNCHANGED <<staging, synced, published, stuck>>
    BY <1>7 DEF WriteCell
  <2>4. CASE /\ next' = After(next)
             /\ \/ buffered' = Append(buffered, CellAt(next)) /\ UNCHANGED staged
                \/ staged' = Append(staged, CellAt(next)) /\ UNCHANGED buffered
    <3>1. buffered' \in Seq(Cells) /\ staged' \in Seq(Cells)
      <4>1. /\ Append(buffered, CellAt(next)) \in Seq(Cells)
            /\ Append(staged, CellAt(next)) \in Seq(Cells)
        BY <2>2, AppendProperties DEF Types, WriterTypes
      <4> QED
        BY <2>4, <4>1 DEF Types, WriterTypes
    <3> QED
      BY <1>1, <1>3, <2>1, <2>2, <2>3, <2>4, <3>1 DEF Types, RequestTypes, WriterTypes
  <2>5. CASE UNCHANGED writer
    BY <1>3, <1>4, <2>1, <2>3, <2>5 DEF Types, RequestTypes, WriterTypes
  <2> QED
    BY <1>7, <2>4, <2>5 DEF WriteCell
<1>8. CASE Flush
  <2>1. /\ step' \in Steps /\ UNCHANGED <<dest, cancelled>> /\ err' \in Errors
    BY <1>8 DEF Flush, Stopped, Broken, Fail, Fault, Steps, Exporting, Errors,
                Types, RequestTypes
  <2>2. UNCHANGED <<next, staging, synced, published, stuck>>
    BY <1>8 DEF Flush
  <2>3. /\ buffered \in Seq(Cells) /\ staged \in Seq(Cells)
        /\ Len(buffered) \in Nat
        /\ \A i \in 1..Len(buffered) : buffered[i] \in Cells
    BY LenProperties, ElementOfSeq DEF Types, WriterTypes
  <2>4. ASSUME NEW k \in 0..(Len(buffered) - 1)
        PROVE  /\ SubSeq(buffered, 1, k) \in Seq(Cells)
               /\ SubSeq(buffered, k + 1, Len(buffered)) \in Seq(Cells)
               /\ staged \o SubSeq(buffered, 1, k) \in Seq(Cells)
    <3>1. /\ 1 \in 1..(Len(buffered) + 1) /\ k \in 0..Len(buffered)
          /\ k + 1 \in 1..(Len(buffered) + 1) /\ Len(buffered) \in 0..Len(buffered)
      BY <2>3
    <3>2. /\ SubSeq(buffered, 1, k) \in Seq(Cells)
          /\ SubSeq(buffered, k + 1, Len(buffered)) \in Seq(Cells)
      BY <2>3, <3>1, SubSeqProperties
    <3> QED
      BY <2>3, <3>2, ConcatProperties
  <2>5. staged' \in Seq(Cells) /\ buffered' \in Seq(Cells)
    <3>1. CASE staged' = staged \o buffered /\ buffered' = <<>>
      <4>1. staged \o buffered \in Seq(Cells)
        BY <2>3, ConcatProperties
      <4> QED
        BY <3>1, <4>1, EmptySeq
    <3>2. CASE UNCHANGED <<staged, buffered>>
      BY <2>3, <3>2
    <3>3. CASE \E k \in 0..(Len(buffered) - 1) :
                 /\ staged' = staged \o SubSeq(buffered, 1, k)
                 /\ buffered' = SubSeq(buffered, k + 1, Len(buffered))
      BY <2>4, <3>3
    <3> QED
      BY <1>8, <3>1, <3>2, <3>3 DEF Flush
  <2> QED
    BY <1>1, <1>3, <2>1, <2>2, <2>5 DEF Types, RequestTypes, WriterTypes
<1>9. CASE Rename
  <2>1. /\ step' \in Steps /\ DOMAIN dest' = Paths /\ UNCHANGED cancelled
        /\ err' \in {err, "canceled", "failed"}
    BY <1>9 DEF Rename, Stopped, Broken, Fail, Fault, Steps, Types, RequestTypes
  <2>2. /\ UNCHANGED <<next, buffered, staged, synced, stuck>>
        /\ staging' \in {staging, "none"} /\ published' \in {published, TRUE}
    BY <1>9 DEF Rename
  <2> QED
    BY <1>3, <1>4, <2>1, <2>2 DEF Types, RequestTypes, WriterTypes, Errors
<1>10. CASE CleanUp
  <2>1. /\ step' \in Steps /\ UNCHANGED <<dest, cancelled, err>>
        /\ UNCHANGED <<next, buffered, staged, synced, published>>
        /\ staging' \in {"none", "closed"} /\ stuck' \in {stuck, TRUE}
    BY <1>10 DEF CleanUp, CleanUpStaging, Steps
  <2> QED
    BY <1>3, <1>4, <2>1 DEF Types, RequestTypes, WriterTypes
<1>11. CASE Exit \/ Cancel \/ UNCHANGED vars
  <2>1. /\ UNCHANGED <<step, dest, err>> /\ cancelled' \in {cancelled, TRUE}
        /\ UNCHANGED <<next, buffered, staged, staging, synced, published, stuck>>
    BY <1>11 DEF Exit, Cancel, vars
  <2> QED
    BY <1>3, <1>4, <2>1 DEF Types, RequestTypes, WriterTypes
<1>12. CASE Crash \/ OtherProgram
  <2>1. /\ UNCHANGED <<err, cancelled>>
        /\ UNCHANGED <<next, buffered, staged, staging, synced, published, stuck>>
    BY <1>12 DEF Crash, OtherProgram
  <2>2. CASE Crash
    <3>1. step' = "crashed" /\ DOMAIN dest' = Paths
      BY <2>2 DEF Crash
    <3> QED
      BY <1>3, <1>4, <2>1, <3>1 DEF Types, RequestTypes, WriterTypes, Steps
  <2>3. CASE OtherProgram
    <3>1. step' = step
      BY <2>3 DEF OtherProgram
    <3>2. PICK p \in Paths, content \in {Absent, Other(foreign')} :
            dest' = [dest EXCEPT ![p] = content]
      BY <2>3 DEF OtherProgram
    <3>3. DOMAIN dest' = DOMAIN dest
      BY <3>2
    <3> QED
      BY <1>3, <1>4, <2>1, <3>1, <3>3 DEF Types, RequestTypes, WriterTypes
  <2> QED
    BY <1>12, <2>2, <2>3
<1> QED
  BY <1>5, <1>6, <1>7, <1>8, <1>9, <1>10, <1>11, <1>12 DEF Next

LEMMA FinalStep ==
  ASSUME Types, FinalInv, [Next]_vars
  PROVE  FinalInv'
<1>1. UNCHANGED <<mode, typed, format>>
  BY RequestStays DEF request
<1>2. Resolve(typed, format)' = Resolve(typed, format)
  BY <1>1
<1>3. CASE SaveDialog
  <2>1. final' = Resolve(typed, format) /\ step' = "confirm" /\ mode = "gui"
    BY <1>3 DEF SaveDialog, FinalInv
  <2> QED
    BY <1>1, <1>2, <2>1 DEF FinalInv
<1>4. ASSUME UNCHANGED final, step # "dialog", step' \notin Asking
      PROVE  FinalInv'
  BY <1>1, <1>2, <1>4 DEF FinalInv, Asking
<1>5. CASE ConfirmOverwrite \/ CliScan \/ CreateTemp \/ Written \/ Sync \/ Close
  BY <1>4, <1>5
  DEF ConfirmOverwrite, CliScan, CreateTemp, Written, Sync, Close, Stopped, Broken,
      Fail, Asking
<1>6. CASE WriteCell \/ Flush \/ Rename \/ CleanUp \/ Crash
  BY <1>4, <1>6
  DEF WriteCell, Flush, Rename, CleanUp, Crash, Stopped, Broken, Fail, Asking
<1>7. CASE Exit \/ Cancel \/ OtherProgram \/ UNCHANGED vars
  <2>1. UNCHANGED <<final, step>>
    BY <1>7 DEF Exit, Cancel, OtherProgram, vars
  <2> QED
    BY <1>1, <1>2, <2>1 DEF FinalInv
<1> QED
  BY <1>3, <1>5, <1>6, <1>7 DEF Next

(* The writer neither loses a cell nor writes one twice. *)
LEMMA WriterStep ==
  ASSUME Types, WriterInv, [Next]_vars
  PROVE  WriterInv'
<1>1. /\ UNCHANGED <<request, format>> /\ Cells' = Cells
      /\ \A cells : Whole(cells)' = Whole(cells)
      /\ \A cells, place : UpTo(cells, place)' = UpTo(cells, place)
  BY RequestStays, SameDocument DEF request
<1>2. /\ Whole(staged)' = Whole(staged')
      /\ UpTo(staged \o buffered, next)' = UpTo(staged' \o buffered', next')
  BY SameDocument, RequestStays DEF Whole, UpTo
<1>3. ASSUME UNCHANGED <<next, buffered, staged>>,
             \/ step' \in {step, "returned", "cleanup", "crashed", "declined"}
             \/ step = "dialog" /\ step' = "confirm"
             \/ step \in {"confirm", "scan"} /\ step' = "create"
             \/ step \in Finishing /\ step' \in Finishing
      PROVE  WriterInv'
  BY <1>1, <1>3 DEF WriterInv, Asking, Finishing
<1>4. ASSUME UNCHANGED <<next, buffered, staged>>,
             step \in {"create", "scan"}, step' = "write"
      PROVE  WriterInv'
  <2>1. staged \o buffered = <<>>
    BY <1>4, ConcatEmptySeq DEF WriterInv, Asking, Types, WriterTypes
  <2>2. UpTo(<<>>, Header)
    BY DEF UpTo
  <2> QED
    BY <1>1, <1>4, <2>1, <2>2 DEF WriterInv, Asking, Finishing
<1> USE DEF writer
<1>5. CASE SaveDialog \/ ConfirmOverwrite
  BY <1>3, <1>5 DEF SaveDialog, ConfirmOverwrite
<1>6. CASE CliScan \/ CreateTemp
  BY <1>3, <1>4, <1>6 DEF CliScan, CreateTemp, Stopped, Broken, Fail
<1>7. CASE Sync \/ Close \/ Rename \/ CleanUp
  BY <1>3, <1>7 DEF Sync, Close, Rename, CleanUp, Stopped, Broken, Fail, Finishing
<1>8. CASE Exit \/ Cancel \/ Crash \/ OtherProgram \/ UNCHANGED vars
  BY <1>3, <1>8 DEF Exit, Cancel, Crash, OtherProgram, vars
<1>9. CASE Written
  <2>1. CASE step' = "cleanup" \/ mode = "stdout"
    BY <1>3, <1>9, <2>1 DEF Written, Stopped, Fail
  <2>2. CASE step' = "sync"
    <3>1. /\ step = "write" /\ next = End /\ buffered = <<>>
          /\ UNCHANGED <<next, buffered, staged>>
      BY <1>9 DEF Written
    <3>2. staged \o buffered = staged
      BY <3>1, ConcatEmptySeq DEF Types, WriterTypes
    <3>3. Whole(staged)
      BY <3>1, <3>2, WholeAtTheEnd DEF WriterInv
    <3> QED
      BY <1>1, <2>2, <3>1, <3>3 DEF WriterInv, Asking, Finishing
  <2> QED
    BY <1>9, <2>1, <2>2 DEF Written, Stopped, Fail
<1>10. CASE WriteCell
  <2>1. CASE UNCHANGED writer
    BY <1>3, <1>10, <2>1 DEF WriteCell, Stopped, Broken, Fail
  <2>2. CASE /\ next' = After(next) /\ UNCHANGED step
             /\ IF format = "csv"
                THEN buffered' = Append(buffered, CellAt(next)) /\ UNCHANGED staged
                ELSE staged' = Append(staged, CellAt(next)) /\ UNCHANGED buffered
    <3>1. /\ step = "write" /\ UpTo(staged \o buffered, next)
          /\ format \in {"csv", "json"}
          /\ next \in Places /\ staged \in Seq(Cells) /\ buffered \in Seq(Cells)
          /\ CellAt(next) \in Cells
      BY <1>10, PlaceOfCell DEF WriteCell, WriterInv, Types, RequestTypes,
         WriterTypes, Formats
    <3>2. staged \o buffered \in Seq(Cells)
      BY <3>1, ConcatProperties
    <3>3. UpTo(Append(staged \o buffered, CellAt(next)), After(next))
      BY <3>1, <3>2, OneCellMore
    <3>4. staged' \o buffered' = Append(staged \o buffered, CellAt(next))
      <4>1. CASE format = "csv"
        <5>1. staged \o Append(buffered, CellAt(next))
                = Append(staged \o buffered, CellAt(next))
          BY <3>1
        <5> QED
          BY <2>2, <4>1, <5>1
      <4>2. CASE format = "json"
        <5>1. buffered = <<>>
          BY <4>2 DEF WriterInv
        <5>2. staged \o <<>> = staged
              /\ Append(staged, CellAt(next)) \o <<>> = Append(staged, CellAt(next))
          BY <3>1, ConcatEmptySeq, AppendProperties
        <5> QED
          BY <2>2, <4>2, <5>1, <5>2
      <4> QED
        BY <3>1, <4>1, <4>2
    <3>5. format = "json" => buffered' = <<>>
      BY <2>2 DEF WriterInv
    <3>6. step' = "write"
      BY <2>2, <3>1
    <3> QED
      BY <1>1, <1>2, <2>2, <3>3, <3>4, <3>5, <3>6 DEF WriterInv, Asking, Finishing
  <2> QED
    BY <1>10, <2>1, <2>2 DEF WriteCell
<1>11. CASE Flush
  <2>1. CASE UNCHANGED <<staged, buffered>>
    BY <1>3, <1>11, <2>1 DEF Flush, Stopped, Broken, Fail
  <2>2. CASE staged' = staged \o buffered /\ buffered' = <<>> /\ UNCHANGED step
    <3>1. step = "write" /\ UNCHANGED next /\ UpTo(staged \o buffered, next)
      BY <1>11 DEF Flush, WriterInv
    <3>2. (staged \o buffered) \o <<>> = staged \o buffered
      BY ConcatProperties, ConcatEmptySeq DEF Types, WriterTypes
    <3>3. UpTo(staged' \o buffered', next')
      BY <2>2, <3>1, <3>2
    <3> QED
      BY <1>1, <1>2, <2>2, <3>1, <3>3 DEF WriterInv, Asking, Finishing
  <2>3. CASE step' = "cleanup" /\ format = "csv"
    BY <1>1, <2>3 DEF WriterInv, Asking, Finishing
  <2>4. format = "csv"
    BY <1>11 DEF Flush, WriterInv, Types, RequestTypes, Formats
  <2> QED
    BY <1>11, <2>1, <2>2, <2>3, <2>4 DEF Flush, Broken, Fail
<1> QED
  BY <1>5, <1>6, <1>7, <1>8, <1>9, <1>10, <1>11 DEF Next

(* How an export ends. *)
LEMMA OutcomeStep ==
  ASSUME Types, FinalInv, WriterInv, OutcomeInv, [Next]_vars
  PROVE  OutcomeInv'
<1>1. UNCHANGED <<mode, format>> /\ (\A cells : Whole(cells)' = Whole(cells))
  BY RequestStays, SameDocument DEF request
<1>2. Whole(staged)' = Whole(staged')
  BY SameDocument, RequestStays DEF Whole
<1>3. /\ err \in Errors /\ step \in Steps /\ synced \in BOOLEAN
      /\ published \in BOOLEAN /\ stuck \in BOOLEAN
  BY DEF Types, RequestTypes, WriterTypes
<1> USE DEF writer, file, Errors, Steps, Asking, Exporting, Finishing
<1>4. CASE SaveDialog \/ ConfirmOverwrite
  <2>1. /\ mode = "gui" /\ step \in {"dialog", "confirm"}
        /\ step' \in {"confirm", "create", "declined"}
        /\ UNCHANGED <<staged, staging, synced, stuck, published, err>>
    BY <1>4 DEF SaveDialog, ConfirmOverwrite, FinalInv
  <2> QED
    BY <1>1, <2>1 DEF OutcomeInv
<1>5. CASE CliScan
  <2>1. /\ step = "scan" /\ UNCHANGED <<staged, staging, synced, stuck, published>>
        /\ \/ step' = (IF mode = "cli" THEN "create" ELSE "write") /\ err' = err
           \/ step' = "returned" /\ err' \in {"canceled", "failed", "panic"}
    BY <1>5 DEF CliScan
  <2> QED
    BY <1>1, <2>1 DEF OutcomeInv
<1>6. CASE CreateTemp
  <2>1. /\ step = "create" /\ UNCHANGED <<staged, synced, stuck, published>>
        /\ \/ staging' = staging /\ step' = "cleanup" /\ err' \in {"canceled", "failed"}
           \/ staging' = "open" /\ step' = "write" /\ err' = err
    BY <1>6 DEF CreateTemp, Stopped, Broken, Fail
  <2> QED
    BY <1>1, <2>1 DEF OutcomeInv
<1>7. CASE WriteCell \/ Flush
  <2>1. /\ step = "write" /\ UNCHANGED <<staging, synced, stuck, published>>
        /\ \/ step' = step /\ err' = err
           \/ step' = "cleanup" /\ err' \in {"canceled", "failed", "panic"}
    BY <1>7 DEF WriteCell, Flush, Stopped, Broken, Fail
  <2> QED
    BY <1>1, <2>1 DEF OutcomeInv
<1>8. CASE Written
  <2>1. /\ step = "write" /\ UNCHANGED <<staged, staging, synced, stuck, published>>
        /\ next = End /\ buffered = <<>>
        /\ \/ step' = "cleanup" /\ err' = "canceled"
           \/ step' = (IF mode = "stdout" THEN "returned" ELSE "sync") /\ err' = err
    BY <1>8 DEF Written, Stopped, Fail
  <2>2. staged \o buffered = staged
    BY <2>1, ConcatEmptySeq DEF Types, WriterTypes
  <2>3. Whole(staged)
    BY <2>1, <2>2, WholeAtTheEnd DEF WriterInv
  <2> QED
    BY <1>1, <2>1, <2>3 DEF OutcomeInv
<1>9. CASE Sync \/ Close
  <2>1. /\ step \in {"sync", "close"} /\ UNCHANGED <<staged, stuck, published>>
        /\ mode # "stdout"
        /\ \/ step' = "cleanup" /\ err' \in {"canceled", "failed"} /\ synced' = synced
           \/ step = "sync" /\ step' = "close" /\ err' = err /\ synced' = TRUE
           \/ step = "close" /\ step' = "rename" /\ err' = err /\ synced' = synced
    BY <1>9 DEF Sync, Close, Stopped, Broken, Fail, OutcomeInv
  <2> QED
    BY <1>1, <1>3, <2>1 DEF OutcomeInv
<1>10. CASE Rename
  <2>1. /\ step = "rename" /\ UNCHANGED <<staged, stuck, synced>>
        /\ mode # "stdout" /\ synced /\ err = "none" /\ Whole(staged)
        /\ \/ step' = "cleanup" /\ err' \in {"canceled", "failed"}
                /\ UNCHANGED <<staging, published>>
           \/ step' = "returned" /\ err' = err /\ published' /\ staging' = "none"
    BY <1>10 DEF Rename, Stopped, Broken, Fail, OutcomeInv, WriterInv
  <2> QED
    BY <1>1, <1>3, <2>1 DEF OutcomeInv
<1>11. CASE CleanUp
  <2>1. /\ step = "cleanup" /\ step' = "returned"
        /\ UNCHANGED <<staged, synced, published, err>>
        /\ \/ staging' = "none" /\ UNCHANGED stuck
           \/ staging # "none" /\ stuck'
    BY <1>11 DEF CleanUp, CleanUpStaging
  <2> QED
    BY <1>1, <1>3, <2>1 DEF OutcomeInv
<1>12. CASE Exit \/ Cancel \/ OtherProgram \/ UNCHANGED vars
  <2>1. UNCHANGED <<step, staged, staging, synced, stuck, published, err>>
    BY <1>12 DEF Exit, Cancel, OtherProgram, vars
  <2> QED
    BY <1>1, <2>1 DEF OutcomeInv
<1>13. CASE Crash
  <2>1. /\ step' = "crashed"
        /\ UNCHANGED <<staged, staging, synced, stuck, published, err>>
    BY <1>13 DEF Crash
  <2> QED
    BY <1>1, <1>3, <2>1 DEF OutcomeInv
<1> QED
  BY <1>4, <1>5, <1>6, <1>7, <1>8, <1>9, <1>10, <1>11, <1>12, <1>13 DEF Next

LEMMA ExitStep ==
  ASSUME ExitInv, [Next]_vars
  PROVE  ExitInv'
<1>1. CASE exit # -1
  <2>1. step = "returned"
    BY <1>1 DEF ExitInv
  <2>2. UNCHANGED <<exit, step, err, groups>>
    BY <1>1, <2>1
    DEF Next, SaveDialog, ConfirmOverwrite, CliScan, CreateTemp, WriteCell, Flush,
        Written, Sync, Close, Rename, CleanUp, Exit, Cancel, Crash, OtherProgram,
        Running, vars, request
  <2>3. ExitCode' = ExitCode
    BY <2>2 DEF ExitCode
  <2> QED
    BY <2>2, <2>3 DEF ExitInv
<1>2. CASE Exit
  <2>1. ExitCode' = ExitCode
    BY <1>2 DEF Exit, ExitCode, request
  <2> QED
    BY <1>2, <2>1 DEF Exit, ExitInv
<1>3. CASE UNCHANGED exit /\ exit = -1
  BY <1>3 DEF ExitInv
<1>4. UNCHANGED exit \/ Exit
  BY DEF Next, SaveDialog, ConfirmOverwrite, CliScan, CreateTemp, WriteCell, Flush,
         Written, Sync, Close, Rename, CleanUp, Cancel, Crash, OtherProgram, vars
<1> QED
  BY <1>1, <1>2, <1>3, <1>4

(* Only a rename brings a report to a destination, and then the data of the *)
(* staging file is on the disk.                                             *)
LEMMA DestStep ==
  ASSUME Types, FinalInv, WriterInv, OutcomeInv, DestInv, [Next]_vars
  PROVE  DestInv'
<1>1. Paths' = Paths /\ (\A cells : Whole(cells)' = Whole(cells))
  BY RequestStays, SameDocument
<1>2. ASSUME NEW p \in Paths,
             dest'[p].kind = "report" =>
               \/ dest'[p] = dest[p] /\ (synced => synced')
               \/ dest'[p] = Report(staged) /\ synced' /\ Whole(staged)
      PROVE  dest'[p].kind = "report" => synced' /\ Whole(dest'[p].cells)
  BY <1>2 DEF DestInv, Report
<1>3. ASSUME NEW p \in Paths
      PROVE  dest'[p].kind = "report" =>
               \/ dest'[p] = dest[p] /\ (synced => synced')
               \/ dest'[p] = Report(staged) /\ synced' /\ Whole(staged)
  <2>1. CASE UNCHANGED dest /\ (synced => synced')
    BY <2>1
  <2>2. CASE Rename
    <3>1. UNCHANGED synced /\ synced /\ Whole(staged)
      BY <2>2 DEF Rename, OutcomeInv, WriterInv, Finishing
    <3>2. \/ UNCHANGED dest
          \/ dest' = [dest EXCEPT ![final] = Report(staged)]
      BY <2>2 DEF Rename
    <3> QED
      BY <1>3, <3>1, <3>2 DEF Types, RequestTypes
  <2>3. CASE Crash
    <3>1. /\ dest'[p] = (IF dest[p].kind = "report" /\ ~synced
                         THEN Report(<<>>) ELSE dest[p])
          /\ UNCHANGED synced
      BY <1>3, <2>3 DEF Crash, file
    <3>2. dest[p].kind = "report" => synced
      BY <1>3 DEF DestInv
    <3> QED
      BY <3>1, <3>2
  <2>4. CASE OtherProgram
    <3>1. PICK q \in Paths, content \in {Absent, Other(foreign')} :
            dest' = [dest EXCEPT ![q] = content]
      BY <2>4 DEF OtherProgram
    <3>2. content.kind # "report"
      BY DEF Absent, Other
    <3>3. UNCHANGED synced
      BY <2>4 DEF OtherProgram, file
    <3> QED
      BY <1>3, <3>1, <3>2, <3>3 DEF Types, RequestTypes
  <2>5. CASE Sync
    BY <2>5 DEF Sync, world
  <2> QED
    BY <2>1, <2>2, <2>3, <2>4, <2>5
    DEF Next, SaveDialog, ConfirmOverwrite, CliScan, CreateTemp, WriteCell, Flush,
        Written, Close, CleanUp, Exit, Cancel, vars, world, file
<1>4. \A p \in Paths : dest'[p].kind = "report" => synced' /\ Whole(dest'[p].cells)
  BY <1>2, <1>3
<1>5. \A cells : Whole(cells) => Whole(cells)'
  BY <1>1
<1>6. ASSUME NEW p \in Paths', dest'[p].kind = "report"
      PROVE  synced' /\ Whole(dest[p].cells)'
  <2>1. synced' /\ Whole(dest'[p].cells)
    BY <1>1, <1>4, <1>6
  <2>2. Whole(dest[p].cells)' = Whole(dest'[p].cells)
    BY SameDocument, RequestStays DEF Whole
  <2> QED
    BY <2>1, <2>2
<1> QED
  BY <1>6 DEF DestInv

LEMMA ConsentStep ==
  ASSUME Types, FinalInv, ConsentInv, [Next]_vars
  PROVE  ConsentInv'
<1>1. UNCHANGED mode /\ UNCHANGED typed
  BY RequestStays DEF request
<1>2. typed \in Paths /\ final \in Paths /\ DOMAIN dest = Paths
  BY PathFacts DEF FinalInv, Types, RequestTypes
<1> SUFFICES ASSUME mode = "gui", step' \in {"confirm"} \cup Exporting
             PROVE  ConsentInv'
  BY <1>1 DEF ConsentInv
<1> USE DEF Exporting, Finishing
<1>3. CASE SaveDialog
  BY <1>1, <1>3 DEF SaveDialog, Agree, ConsentInv
<1>4. CASE ConfirmOverwrite
  <2>1. /\ step = "confirm" /\ step' = "create" /\ UNCHANGED <<final, dest>>
        /\ \/ final = typed /\ UNCHANGED <<consent, touched>>
           \/ Agree(final)
    BY <1>4 DEF ConfirmOverwrite
  <2>2. CASE final = typed /\ UNCHANGED <<consent, touched>>
    BY <1>1, <2>1, <2>2 DEF ConsentInv
  <2>3. CASE Agree(final)
    BY <1>1, <2>1, <2>3 DEF ConsentInv, Agree
  <2> QED
    BY <2>1, <2>2, <2>3
<1>5. CASE CliScan
  BY <1>5 DEF CliScan, FinalInv
<1>6. ASSUME step \in Exporting, step' \in Exporting,
             UNCHANGED <<final, consent, dest, touched>>
      PROVE  ConsentInv'
  BY <1>1, <1>6 DEF ConsentInv
<1>7. CASE CreateTemp \/ WriteCell \/ Flush \/ Written \/ Sync \/ Close
  BY <1>6, <1>7
  DEF CreateTemp, WriteCell, Flush, Written, Sync, Close, Stopped, Broken, Fail, world
<1>8. CASE Rename \/ CleanUp \/ Crash
  BY <1>8 DEF Rename, CleanUp, Crash, Stopped, Broken, Fail
<1>9. CASE Exit \/ Cancel \/ UNCHANGED vars
  <2>1. UNCHANGED <<step, final, consent, dest, touched>>
    BY <1>9 DEF Exit, Cancel, vars, world
  <2> QED
    BY <1>1, <2>1 DEF ConsentInv
<1>10. CASE OtherProgram
  <2>1. PICK p \in Paths, content \in {Absent, Other(foreign')} :
          dest' = [dest EXCEPT ![p] = content] /\ touched' = touched \cup {p}
    BY <1>10 DEF OtherProgram
  <2>2. UNCHANGED <<step, final, consent>>
    BY <1>10 DEF OtherProgram
  <2>3. /\ consent.path = IF step = "confirm" THEN typed ELSE final
        /\ dest[consent.path] = consent.content \/ consent.path \in touched
    BY <2>2 DEF ConsentInv
  <2>4. consent.path = p \/ dest'[consent.path] = dest[consent.path]
    BY <1>2, <2>1, <2>3
  <2>5. dest'[consent'.path] = consent'.content \/ consent'.path \in touched'
    BY <2>1, <2>2, <2>3, <2>4
  <2> QED
    BY <1>1, <2>2, <2>3, <2>5 DEF ConsentInv
<1> QED
  BY <1>3, <1>4, <1>5, <1>7, <1>8, <1>9, <1>10 DEF Next

LEMMA InitIInv == Init => IInv
<1> SUFFICES ASSUME Init
             PROVE  IInv
  OBVIOUS
<1>1. mode \in {"gui", "cli", "stdout"} /\ groups \in GroupLists
  BY DEF Init
<1>2. RequestTypes
  BY <1>1 DEF Init, RequestTypes, Steps, Asking, Errors, Formats
<1>3. WriterTypes
  BY EmptySeq DEF Init, WriterTypes, Places, Header
<1>4. FinalInv /\ ExitInv
  BY <1>1 DEF Init, FinalInv, ExitInv
<1>5. WriterInv
  BY <1>1 DEF Init, WriterInv, Finishing
<1>6. OutcomeInv
  BY <1>1 DEF Init, OutcomeInv, Asking, Exporting, Finishing
<1>7. DestInv
  <2>1. \A p \in Paths : dest[p] \in {Absent, Directory, Other(0)}
    BY DEF Init
  <2>2. \A content \in {Absent, Directory, Other(0)} : content.kind # "report"
    BY DEF Absent, Directory, Other
  <2> QED
    BY <2>1, <2>2 DEF DestInv
<1>8. ConsentInv
  BY <1>1 DEF Init, ConsentInv, Exporting, Finishing
<1> QED
  BY <1>2, <1>3, <1>4, <1>5, <1>6, <1>7, <1>8 DEF IInv, Types

THEOREM Invariance == Spec => []IInv
<1>1. IInv /\ [Next]_vars => IInv'
  BY TypesStep, FinalStep, WriterStep, OutcomeStep, ExitStep, DestStep, ConsentStep
  DEF IInv
<1> QED
  BY InitIInv, <1>1, PTL DEF Spec

--------------------------------------------------------------------------------
(* Whatever fails, is cancelled or loses power, a report at a destination   *)
(* is a whole one: report.go:216-219.                                       *)
THEOREM WholeReportsOnly == Spec => []DestinationIsWhole
<1>1. IInv => DestinationIsWhole
  BY DEF IInv, DestInv, DestinationIsWhole
<1> QED
  BY Invariance, <1>1, PTL

(* No error means the complete report is out, an error that the destination *)
(* was left alone: report.go:216-280.                                       *)
THEOREM OutcomesAreHonest == Spec => []OutcomeIsHonest
<1>1. IInv => OutcomeIsHonest
  BY DEF IInv, Types, WriterTypes, OutcomeInv, OutcomeIsHonest
<1> QED
  BY Invariance, <1>1, PTL

(* Short of a panic, 0 and 1 as exit codes come with the whole report and   *)
(* tell what was found: scan.go:17-22.                                      *)
THEOREM ExitCodesAreHonest == Spec => []ExitCodeIsHonest
<1>1. ASSUME IInv, exit # -1, err # "panic"
      PROVE  /\ exit \in {0, 1} => Whole(staged)
             /\ exit = 0 => groups = <<>>
             /\ exit = 1 => groups # <<>>
             /\ exit = 2 <=> err # "none"
  <2>1. step = "returned" /\ exit = ExitCode /\ err \in Errors
    BY <1>1 DEF IInv, ExitInv, Types, RequestTypes
  <2>2. CASE err = "none"
    <3>1. ExitCode = IF groups = <<>> THEN 0 ELSE 1
      BY <2>2, Zenon DEF ExitCode
    <3>2. Whole(staged)
      BY <1>1, <2>1, <2>2 DEF IInv, OutcomeInv
    <3> QED
      BY <2>1, <2>2, <3>1, <3>2
  <2>3. CASE err \in {"canceled", "failed"}
    <3>1. ExitCode = 2
      BY <1>1, <2>3, Zenon DEF ExitCode
    <3> QED
      BY <2>1, <2>3, <3>1
  <2> QED
    BY <1>1, <2>1, <2>2, <2>3 DEF Errors
<1>2. IInv => ExitCodeIsHonest
  BY <1>1 DEF ExitCodeIsHonest
<1> QED
  BY Invariance, <1>2, PTL

(* The window replaces a file only if its user agreed to lose that one, or  *)
(* if it came there after the question: app_report_windows.go:59-114.       *)
THEOREM OnlyByConsent == Spec => OnlyConsentedIsReplaced
<1>1. ASSUME IInv, [Next]_vars, mode = "gui", ~published, published'
      PROVE  /\ Extension(final) = format
             /\ \/ dest[final] \in {Absent, consent.content} /\ consent.path = final
                \/ final \in touched
  <2>1. Rename
    BY <1>1
    DEF Next, SaveDialog, ConfirmOverwrite, CliScan, CreateTemp, WriteCell, Flush,
        Written, Sync, Close, CleanUp, Exit, Cancel, Crash, OtherProgram, vars, file
  <2>2. step = "rename"
    BY <2>1 DEF Rename
  <2>3. final = Resolve(typed, format)
    BY <1>1, <2>2 DEF IInv, FinalInv
  <2>4. /\ consent.path = final
        /\ dest[consent.path] = consent.content \/ consent.path \in touched
    BY <1>1, <2>2 DEF IInv, ConsentInv, Exporting, Finishing
  <2> QED
    BY <1>1, <2>3, <2>4, PathFacts DEF IInv
<1>2. IInv /\ [Next]_vars =>
        [mode = "gui" /\ ~published /\ published' =>
           /\ Extension(final) = format
           /\ \/ dest[final] \in {Absent, consent.content} /\ consent.path = final
              \/ final \in touched]_vars
  BY <1>1
<1> QED
  BY Invariance, <1>2, PTL DEF Spec, OnlyConsentedIsReplaced

--------------------------------------------------------------------------------
(* Sums.                                                                    *)
(* A set that holds a number's successor with the number holds them all.    *)
LEMMA UpToEveryNumber ==
  ASSUME NEW S, 0 \in S, \A n \in Nat : n \in S => n + 1 \in S
  PROVE  Nat \subseteq S
<1> SUFFICES ASSUME Nat \ S # {}
             PROVE  FALSE
  OBVIOUS
<1> DEFINE R == OpToRel(<, Nat)
<1>1. IsWellFoundedOn(R, Nat)
  BY NatLessThanWellFounded DEF R
<1> HIDE DEF R
<1>2. PICK n \in Nat \ S : \A m \in Nat \ S : ~(<<m, n>> \in R)
  BY <1>1, WFMin
<1>3. n # 0 /\ n - 1 \in Nat /\ (n - 1) + 1 = n
  OBVIOUS
<1>4. n - 1 \notin S
  BY <1>2, <1>3
<1>5. <<n - 1, n>> \in R
  BY <1>3 DEF R, OpToRel
<1> QED
  BY <1>2, <1>3, <1>4, <1>5

(* A sum is the last of its partial sums.                                   *)
Partial(seq, g) ==
  /\ g[0] = 0
  /\ \A n \in 1..Len(seq) : g[n] = g[n - 1] + seq[n]
  /\ \A n \in 0..Len(seq) : g[n] \in Int

LEMMA SumIsTheLastPartial ==
  ASSUME NEW seq \in Seq(Int)
  PROVE  \E g : Partial(seq, g) /\ Sum(seq) = g[Len(seq)]
<1> DEFINE Is(g, n) ==
             g = [m \in 0..n |-> IF m = 0 THEN 0 ELSE g[m - 1] + seq[m]]
           S == {n \in Nat : \E g : Is(g, n)}
           upTo == CHOOSE g : Is(g, Len(seq))
<1>1. Len(seq) \in Nat /\ \A n \in 1..Len(seq) : seq[n] \in Int
  BY LenProperties, ElementOfSeq
<1>2. 0 \in S
  <2>1. Is([m \in 0..0 |-> 0], 0)
    OBVIOUS
  <2> QED
    BY <2>1
<1>3. ASSUME NEW n \in Nat, n \in S
      PROVE  n + 1 \in S
  <2>1. PICK g : Is(g, n)
    BY <1>3
  <2> DEFINE h == [m \in 0..(n + 1) |-> IF m = n + 1 THEN g[n] + seq[n + 1] ELSE g[m]]
  <2>2. ASSUME NEW m \in 0..(n + 1)
        PROVE  h[m] = IF m = 0 THEN 0 ELSE h[m - 1] + seq[m]
    <3>1. CASE m = n + 1
      BY <3>1
    <3>2. CASE m # n + 1
      <4>1. m \in 0..n /\ h[m] = g[m] /\ (m # 0 => m - 1 \in 0..n /\ h[m - 1] = g[m - 1])
        BY <3>2
      <4>2. g[m] = IF m = 0 THEN 0 ELSE g[m - 1] + seq[m]
        BY <2>1, <4>1
      <4> QED
        BY <4>1, <4>2
    <3> QED
      BY <3>1, <3>2
  <2>3. Is(h, n + 1)
    BY <2>2, Zenon
  <2>4. \E x : Is(x, n + 1)
    <3> HIDE DEF h, Is
    <3> QED
      BY <2>3
  <2> HIDE DEF Is
  <2> QED
    BY <2>4
<1>4. Is(upTo, Len(seq))
  <2> HIDE DEF Is
  <2>1. Nat \subseteq S
    BY <1>2, <1>3, UpToEveryNumber
  <2>2. \E g : Is(g, Len(seq))
    BY <1>1, <2>1
  <2> QED
    BY <2>2
<1>5. Sum(seq) = upTo[Len(seq)]
  BY DEF Sum
<1> HIDE DEF upTo, S
<1>6. upTo[0] = 0 /\ \A n \in 1..Len(seq) : upTo[n] = upTo[n - 1] + seq[n]
  BY <1>1, <1>4
<1>7. \A n \in 0..Len(seq) : upTo[n] \in Int
  <2> DEFINE T == {n \in Nat : n \in 0..Len(seq) => upTo[n] \in Int}
  <2>1. 0 \in T
    BY <1>6
  <2>2. ASSUME NEW n \in Nat, n \in T
        PROVE  n + 1 \in T
    <3>1. SUFFICES ASSUME n + 1 \in 0..Len(seq)
                   PROVE  upTo[n + 1] \in Int
      OBVIOUS
    <3>2. n \in 0..Len(seq) /\ n + 1 \in 1..Len(seq) /\ (n + 1) - 1 = n
      BY <1>1, <3>1
    <3>3. upTo[n + 1] = upTo[n] + seq[n + 1] /\ seq[n + 1] \in Int
      BY <1>1, <1>6, <3>2
    <3> QED
      BY <2>2, <3>2, <3>3
  <2> HIDE DEF T
  <2>3. Nat \subseteq T
    BY <2>1, <2>2, UpToEveryNumber
  <2> QED
    BY <1>1, <2>3 DEF T
<1> QED
  BY <1>5, <1>6, <1>7 DEF Partial

(* A list of amounts.                                                       *)
LEMMA AmountsAreASeq ==
  ASSUME NEW n \in Nat, NEW f, f \in [1..n -> Int]
  PROVE  f \in Seq(Int) /\ Len(f) = n
<1>1. f \in Seq(Int)
  BY SeqDef
<1>2. 1..Len(f) = 1..n /\ Len(f) \in Nat
  BY <1>1, LenProperties
<1> QED
  BY <1>1, <1>2

Groups == [size : Nat, files : Nat \ {0, 1}]

LEMMA GroupFacts ==
  ASSUME Types
  PROVE  /\ Len(groups) \in Nat /\ DOMAIN groups = 1..Len(groups)
         /\ groups # <<>> => Len(groups) > 0
         /\ \A g \in 1..Len(groups) :
              /\ groups[g] \in Groups
              /\ Reclaimable(groups[g]) \in Int
              /\ Reclaimable(groups[g]) =
                   groups[g].files * groups[g].size - groups[g].size
              /\ groups[g].files * groups[g].size \in Int
<1>1. groups \in Seq(Groups)
  BY ReportAssumption DEF Types, RequestTypes, ReportAssumption, Groups
<1>2. /\ Len(groups) \in Nat /\ DOMAIN groups = 1..Len(groups)
      /\ groups # <<>> => Len(groups) > 0
      /\ \A g \in 1..Len(groups) : groups[g] \in Groups
  BY <1>1, LenProperties, EmptySeq, ElementOfSeq
<1>3. \A a \in Nat, b \in Nat :
        (a - 1) * b = a * b - b /\ a * b \in Int /\ (a - 1) * b \in Int
  OBVIOUS
<1>4. \A g \in 1..Len(groups) : groups[g].files \in Nat /\ groups[g].size \in Nat
  BY <1>2 DEF Groups
<1> QED
  BY <1>2, <1>3, <1>4 DEF Reclaimable

(* What all groups up to one free: at the last one it is the total, and     *)
(* that is all files without the one that is kept of each group.            *)
Frees(r) ==
  /\ r[0] = 0
  /\ \A g \in 1..Len(groups) : r[g] = r[g - 1] + Reclaimable(groups[g])
  /\ \A g \in 0..Len(groups) : r[g] \in Int
  /\ Total = r[Len(groups)] /\ Total \in Int /\ Total = Sizes - Kept

LEMMA TotalIsFreed ==
  ASSUME Types
  PROVE  \E r : Frees(r)
<1> DEFINE N == Len(groups)
           free == [i \in DOMAIN groups |-> Reclaimable(groups[i])]
           size == [i \in DOMAIN groups |-> groups[i].files * groups[i].size]
           kept == [i \in DOMAIN groups |-> groups[i].size]
<1>1. /\ N \in Nat /\ DOMAIN groups = 1..N
      /\ \A g \in 1..N : free[g] = size[g] - kept[g]
      /\ \A g \in 1..N : free[g] \in Int /\ size[g] \in Int /\ kept[g] \in Int
  BY GroupFacts DEF Groups
<1>2. \A g \in 1..N : free[g] = Reclaimable(groups[g])
  BY <1>1
<1>3. free \in [1..N -> Int] /\ size \in [1..N -> Int] /\ kept \in [1..N -> Int]
  BY <1>1
<1>4. Total = Sum(free) /\ Sizes = Sum(size) /\ Kept = Sum(kept)
  BY DEF Total, Sizes, Kept
<1> HIDE DEF free, size, kept, N
<1>5. PICK r : Partial(free, r) /\ Sum(free) = r[N]
  BY <1>1, <1>3, AmountsAreASeq, SumIsTheLastPartial
<1>6. PICK s : Partial(size, s) /\ Sum(size) = s[N]
  BY <1>1, <1>3, AmountsAreASeq, SumIsTheLastPartial
<1>7. PICK k : Partial(kept, k) /\ Sum(kept) = k[N]
  BY <1>1, <1>3, AmountsAreASeq, SumIsTheLastPartial
<1>8. Len(free) = N /\ Len(size) = N /\ Len(kept) = N
  BY <1>1, <1>3, AmountsAreASeq
<1>9. /\ \A g \in 1..N : r[g] = r[g - 1] + free[g]
      /\ \A g \in 1..N : s[g] = s[g - 1] + size[g]
      /\ \A g \in 1..N : k[g] = k[g - 1] + kept[g]
      /\ \A g \in 0..N : r[g] \in Int /\ s[g] \in Int /\ k[g] \in Int
      /\ r[0] = 0 /\ s[0] = 0 /\ k[0] = 0
  BY <1>5, <1>6, <1>7, <1>8 DEF Partial
<1>10. r[N] = s[N] - k[N]
  <2> DEFINE T == {g \in Nat : g \in 0..N => r[g] = s[g] - k[g]}
  <2>1. 0 \in T
    BY <1>9
  <2>2. ASSUME NEW g \in Nat, g \in T
        PROVE  g + 1 \in T
    <3>1. SUFFICES ASSUME g + 1 \in 0..N
                   PROVE  r[g + 1] = s[g + 1] - k[g + 1]
      OBVIOUS
    <3>2. g + 1 \in 1..N /\ g \in 0..N /\ (g + 1) - 1 = g
      BY <1>1, <3>1
    <3>3. r[g] = s[g] - k[g] /\ free[g + 1] = size[g + 1] - kept[g + 1]
      BY <1>1, <2>2, <3>2
    <3>4. /\ r[g + 1] = r[g] + free[g + 1]
          /\ s[g + 1] = s[g] + size[g + 1]
          /\ k[g + 1] = k[g] + kept[g + 1]
      BY <1>9, <3>2
    <3>5. r[g] \in Int /\ s[g] \in Int /\ k[g] \in Int
      BY <1>9, <3>2
    <3>6. free[g + 1] \in Int /\ size[g + 1] \in Int /\ kept[g + 1] \in Int
      BY <1>1, <3>2
    <3> QED
      BY <3>3, <3>4, <3>5, <3>6
  <2> HIDE DEF T
  <2>3. Nat \subseteq T
    BY <2>1, <2>2, UpToEveryNumber
  <2> QED
    BY <1>1, <2>3 DEF T
<1>11. r[N] \in Int
  BY <1>1, <1>9
<1>12. \A g \in 1..N : r[g] = r[g - 1] + Reclaimable(groups[g])
  BY <1>2, <1>9
<1> QED
  BY <1>4, <1>5, <1>6, <1>7, <1>9, <1>10, <1>11, <1>12 DEF Frees, N

(* The cell that carries the estimate of the whole report.                  *)
First == IF format = "json" THEN Header ELSE <<1, 1>>

LEMMA EstimatesOfACell ==
  ASSUME Types, groups # <<>>, NEW place \in Places
  PROVE  /\ CellAt(place).reportEstimate = IF place = First THEN {Total} ELSE {}
         /\ format = "csv" =>
              CellAt(place).groupEstimate =
                IF place[1] \in 1..Len(groups) /\ place[2] = 1
                  THEN {Reclaimable(groups[place[1]])} ELSE {}
<1>1. /\ DOMAIN groups = 1..Len(groups) /\ Len(groups) \in Nat /\ Len(groups) > 0
      /\ format \in {"csv", "json"}
  BY GroupFacts DEF Types, RequestTypes, Formats
<1>2. place = <<place[1], place[2]>> /\ place[1] \in Nat /\ place[2] \in Nat
  BY DEF Places
<1>3. CASE place = Header
  <2>1. place[1] \notin DOMAIN groups /\ Header # <<1, 1>>
    BY <1>1, <1>3 DEF Header
  <2>2. CellAt(place) = Cell(Header, {}, IF format = "json" THEN {Total} ELSE {})
    BY <1>3, <2>1, Zenon DEF CellAt
  <2> QED
    BY <1>1, <1>3, <2>1, <2>2 DEF Cell, First
<1>4. CASE place # Header /\ place[1] \in DOMAIN groups
  <2>1. CellAt(place) = Row(place[1], place[2])
    BY <1>4 DEF CellAt
  <2>2. place = <<1, 1>> <=> place[1] = 1 /\ place[2] = 1
    BY <1>2
  <2> QED
    BY <1>1, <1>4, <2>1, <2>2 DEF Row, Cell, First, GroupEstimate, ReportEstimate
<1>5. CASE place # Header /\ place[1] \notin DOMAIN groups
  <2>1. CellAt(place) = Cell(place, {}, {})
    BY <1>5 DEF CellAt
  <2>2. place # <<1, 1>>
    BY <1>1, <1>5
  <2> QED
    BY <1>1, <1>5, <2>1, <2>2 DEF Cell, First
<1> QED
  BY <1>3, <1>4, <1>5

(* The places of a whole document, cell after cell.                         *)
PlaceOf(k) == staged[k].place

LEMMA PlacesOfTheWhole ==
  ASSUME Types, Whole(staged), groups # <<>>
  PROVE  /\ Len(staged) \in Nat \ {0}
         /\ \A k \in 1..Len(staged) : PlaceOf(k) \in Places /\ staged[k] = CellAt(PlaceOf(k))
         /\ PlaceOf(1) = Header
         /\ \A k \in 1..(Len(staged) - 1) : PlaceOf(k + 1) = After(PlaceOf(k))
         /\ After(PlaceOf(Len(staged))) = End
<1>1. staged \in Seq(Cells) /\ staged # <<>>
  BY DEF Types, WriterTypes, Whole
<1>2. Len(staged) \in Nat \ {0} /\ \A k \in 1..Len(staged) : staged[k] \in Cells
  BY <1>1, LenProperties, EmptySeq, ElementOfSeq
<1>3. ASSUME NEW k \in 1..Len(staged)
      PROVE  PlaceOf(k) \in Places /\ staged[k] = CellAt(PlaceOf(k))
  <2>1. PICK place \in Places : staged[k] = CellAt(place)
    BY <1>2 DEF Cells
  <2> QED
    BY <2>1, PlaceOfCell DEF PlaceOf
<1>4. Header \in Places
  BY DEF Header, Places
<1>5. PlaceOf(1) = Header
  BY <1>4, PlaceOfCell DEF PlaceOf, Whole
<1>6. ASSUME NEW k \in 1..(Len(staged) - 1)
      PROVE  PlaceOf(k + 1) = After(PlaceOf(k))
  <2>1. staged[k + 1] = CellAt(After(PlaceOf(k))) /\ k \in 1..Len(staged)
    BY <1>2 DEF Whole, PlaceOf
  <2>2. After(PlaceOf(k)) \in Places
    BY <1>3, <2>1, NextPlace
  <2> QED
    BY <2>1, <2>2, PlaceOfCell DEF PlaceOf
<1> QED
  BY <1>2, <1>3, <1>5, <1>6 DEF Whole, PlaceOf

(* Behind the header there is only one row that begins the document, and no *)
(* place is the header again.                                               *)
LEMMA FirstIsOnce ==
  ASSUME Types, Whole(staged), groups # <<>>, NEW k \in 1..Len(staged)
  PROVE  /\ PlaceOf(k) = Header <=> k = 1
         /\ PlaceOf(k) = <<1, 1>> <=> k = 2
<1> DEFINE Late(p) == p[1] >= 1 /\ p[2] >= 1
           T == {n \in Nat : n + 2 \in 1..Len(staged) =>
                   /\ Late(PlaceOf(n + 2))
                   /\ PlaceOf(n + 2) = <<1, 1>> <=> n = 0}
<1>1. /\ DOMAIN groups = 1..Len(groups) /\ Len(groups) \in Nat /\ Len(groups) > 0
      /\ \A g \in 1..Len(groups) : groups[g].files \in Nat
  BY GroupFacts DEF Groups
<1>2. /\ Len(staged) \in Nat /\ PlaceOf(1) = Header
      /\ \A i \in 1..Len(staged) : PlaceOf(i) \in Places
      /\ \A i \in 1..(Len(staged) - 1) : PlaceOf(i + 1) = After(PlaceOf(i))
  BY PlacesOfTheWhole
<1>3. After(Header) = <<1, 1>>
  BY <1>1 DEF After, Header
<1>4. ASSUME NEW p \in Places, Late(p)
      PROVE  Late(After(p)) /\ After(p) # <<1, 1>>
  BY <1>1, <1>4 DEF After, Places
<1>5. 0 \in T
  BY <1>2, <1>3
<1>6. ASSUME NEW n \in Nat, n \in T
      PROVE  n + 1 \in T
  <2>1. SUFFICES ASSUME (n + 1) + 2 \in 1..Len(staged)
                 PROVE  Late(PlaceOf((n + 1) + 2)) /\ PlaceOf((n + 1) + 2) # <<1, 1>>
    OBVIOUS
  <2>2. n + 2 \in 1..(Len(staged) - 1) /\ n + 2 \in 1..Len(staged) /\ (n + 1) + 2 = (n + 2) + 1
    BY <1>2, <2>1
  <2>3. Late(PlaceOf(n + 2)) /\ PlaceOf(n + 2) \in Places
    BY <1>2, <1>6, <2>2
  <2>4. PlaceOf((n + 1) + 2) = After(PlaceOf(n + 2))
    BY <1>2, <2>2
  <2> HIDE DEF Late
  <2> QED
    BY <1>4, <2>3, <2>4
<1>7. Nat \subseteq T
  <2> HIDE DEF T
  <2> QED
    BY <1>5, <1>6, UpToEveryNumber
<1>8. CASE k = 1
  BY <1>2, <1>8 DEF Header
<1>9. CASE k # 1
  <2>1. k - 2 \in Nat /\ (k - 2) + 2 = k
    BY <1>2, <1>9
  <2>2. k - 2 \in T
    BY <1>7, <2>1
  <2>3. Late(PlaceOf(k)) /\ (PlaceOf(k) = <<1, 1>> <=> k - 2 = 0)
    BY <2>1, <2>2
  <2> QED
    BY <1>9, <2>1, <2>3 DEF Header
<1> QED
  BY <1>8, <1>9

(* A CSV document is the header and then rows of groups.                    *)
InGroup(p) ==
  /\ p[1] \in 1..Len(groups) /\ p[2] \in 1..groups[p[1]].files

LEMMA RowsAreInGroups ==
  ASSUME Types, Whole(staged), groups # <<>>, format = "csv",
         NEW k \in 1..Len(staged), k # 1
  PROVE  InGroup(PlaceOf(k))
<1> DEFINE N == Len(groups)
           Beyond(p) == p[1] > N
           Good(p) == InGroup(p) \/ Beyond(p)
           G == {n \in Nat : n + 2 \in 1..Len(staged) => Good(PlaceOf(n + 2))}
           B == {n \in Nat : k + n \in 1..Len(staged) => PlaceOf(k + n)[1] >= N + 1}
<1>1. /\ DOMAIN groups = 1..N /\ N \in Nat /\ N > 0
      /\ \A g \in 1..N : groups[g].files \in Nat /\ groups[g].files >= 2
  BY GroupFacts DEF Groups
<1>2. /\ Len(staged) \in Nat /\ PlaceOf(1) = Header
      /\ \A i \in 1..Len(staged) : PlaceOf(i) \in Places
      /\ \A i \in 1..(Len(staged) - 1) : PlaceOf(i + 1) = After(PlaceOf(i))
      /\ After(PlaceOf(Len(staged))) = End
  BY PlacesOfTheWhole
<1>3. After(Header) = <<1, 1>>
  BY <1>1 DEF After, Header
<1>4. ASSUME NEW p \in Places, Good(p)
      PROVE  Good(After(p))
  <2>1. p[1] \in Nat /\ p[2] \in Nat
    BY DEF Places
  <2>2. CASE p[1] \in 1..N /\ p[2] < groups[p[1]].files
    BY <1>1, <2>1, <2>2 DEF After, InGroup
  <2>3. CASE ~(p[1] \in 1..N /\ p[2] < groups[p[1]].files)
    <3>1. After(p) = <<p[1] + 1, 1>> /\ p[1] + 1 >= 2
      BY <1>1, <1>4, <2>1, <2>3 DEF After, InGroup
    <3>2. p[1] + 1 \in 1..N \/ p[1] + 1 > N
      BY <1>1, <2>1
    <3> QED
      BY <1>1, <3>1, <3>2 DEF InGroup
  <2> QED
    BY <2>2, <2>3
<1>5. Nat \subseteq G
  <2>1. 0 \in G
    BY <1>1, <1>2, <1>3 DEF InGroup
  <2>2. ASSUME NEW n \in Nat, n \in G
        PROVE  n + 1 \in G
    <3>1. SUFFICES ASSUME (n + 1) + 2 \in 1..Len(staged)
                   PROVE  Good(PlaceOf((n + 1) + 2))
      OBVIOUS
    <3>2. n + 2 \in 1..(Len(staged) - 1) /\ n + 2 \in 1..Len(staged)
          /\ (n + 1) + 2 = (n + 2) + 1
      BY <1>2, <3>1
    <3>3. Good(PlaceOf(n + 2)) /\ PlaceOf(n + 2) \in Places
          /\ PlaceOf((n + 1) + 2) = After(PlaceOf(n + 2))
      BY <1>2, <2>2, <3>2
    <3> HIDE DEF Good
    <3> QED
      BY <1>4, <3>3
  <2> HIDE DEF G
  <2> QED
    BY <2>1, <2>2, UpToEveryNumber
<1>6. Good(PlaceOf(k))
  <2>1. k - 2 \in Nat /\ (k - 2) + 2 = k
    BY <1>2
  <2> HIDE DEF Good
  <2>2. k - 2 \in G
    BY <1>5, <2>1
  <2> QED
    BY <2>1, <2>2
<1>7. SUFFICES ASSUME Beyond(PlaceOf(k))
               PROVE  FALSE
  BY <1>6
<1>8. ASSUME NEW p \in Places, p[1] >= N + 1
      PROVE  After(p)[1] >= N + 2
  BY <1>1, <1>8 DEF After, Places
<1>9. Nat \subseteq B
  <2>1. 0 \in B
    BY <1>1, <1>2, <1>7 DEF Places
  <2>2. ASSUME NEW n \in Nat, n \in B
        PROVE  n + 1 \in B
    <3>1. SUFFICES ASSUME k + (n + 1) \in 1..Len(staged)
                   PROVE  PlaceOf(k + (n + 1))[1] >= N + 1
      OBVIOUS
    <3>2. k + n \in 1..(Len(staged) - 1) /\ k + n \in 1..Len(staged)
          /\ k + (n + 1) = (k + n) + 1
      BY <1>2, <3>1
    <3>3. PlaceOf(k + n)[1] >= N + 1 /\ PlaceOf(k + n) \in Places
      BY <1>2, <2>2, <3>2
    <3>4. PlaceOf(k + (n + 1)) = After(PlaceOf(k + n)) /\ After(PlaceOf(k + n)) \in Places
      BY <1>2, <3>2, <3>3, NextPlace
    <3>5. After(PlaceOf(k + n))[1] >= N + 2 /\ After(PlaceOf(k + n))[1] \in Nat
      BY <1>8, <3>3, <3>4 DEF Places
    <3> QED
      BY <1>1, <3>4, <3>5
  <2> HIDE DEF B
  <2> QED
    BY <2>1, <2>2, UpToEveryNumber
<1>10. PlaceOf(Len(staged))[1] >= N + 1 /\ PlaceOf(Len(staged)) \in Places
  <2>1. Len(staged) - k \in Nat /\ k + (Len(staged) - k) = Len(staged)
    BY <1>2
  <2>2. Len(staged) - k \in B
    BY <1>9, <2>1
  <2> QED
    BY <1>2, <2>1, <2>2
<1>11. End[1] >= N + 2
  BY <1>2, <1>8, <1>10
<1>12. End[1] = N + 1
  BY DEF End
<1> QED
  BY <1>1, <1>11, <1>12

(* A column of a document has partial sums too.                             *)
Accumulates(c, n, estimates) ==
  /\ c[0] = 0
  /\ \A k \in 1..n : c[k] = c[k - 1] + Amount(estimates[k])
  /\ \A k \in 0..n : c[k] \in Int
  /\ Column(estimates) = c[n]

LEMMA ColumnsAccumulate ==
  ASSUME NEW n \in Nat, NEW estimates, DOMAIN estimates = 1..n,
         \A k \in 1..n : Amount(estimates[k]) \in Int
  PROVE  \E c : Accumulates(c, n, estimates)
<1> DEFINE f == [i \in DOMAIN estimates |-> Amount(estimates[i])]
<1>1. f \in [1..n -> Int] /\ Column(estimates) = Sum(f)
  BY DEF Column
<1>2. \A k \in 1..n : f[k] = Amount(estimates[k])
  OBVIOUS
<1> HIDE DEF f
<1>3. f \in Seq(Int) /\ Len(f) = n
  BY <1>1, AmountsAreASeq
<1>4. PICK c : Partial(f, c) /\ Sum(f) = c[n]
  BY <1>3, SumIsTheLastPartial
<1>5. Accumulates(c, n, estimates)
  BY <1>1, <1>2, <1>3, <1>4 DEF Accumulates, Partial
<1> QED
  BY <1>5

LEMMA AmountOfOne ==
  /\ Amount({}) = 0
  /\ \A x : Amount({x}) = x
BY DEF Amount

(* The column of the report estimates: one cell has the total.              *)
LEMMA ReportColumn ==
  ASSUME Types, Whole(staged), groups # <<>>
  PROVE  Column([i \in DOMAIN staged |-> staged[i].reportEstimate]) = Sizes - Kept
<1> DEFINE K == Len(staged)
           estimates == [i \in DOMAIN staged |-> staged[i].reportEstimate]
           F == IF format = "json" THEN 1 ELSE 2
<1>1. /\ K \in Nat \ {0} /\ DOMAIN staged = 1..K
      /\ \A k \in 1..K : PlaceOf(k) \in Places /\ staged[k] = CellAt(PlaceOf(k))
      /\ PlaceOf(1) = Header /\ After(PlaceOf(K)) = End
  BY PlacesOfTheWhole, LenProperties DEF Types, WriterTypes
<1>2. PICK r : Frees(r)
  BY TotalIsFreed
<1>3. Total \in Int /\ Total = Sizes - Kept
  BY <1>2 DEF Frees
<1>4. format \in {"csv", "json"} /\ F \in {1, 2}
  BY DEF Types, RequestTypes, Formats
<1>5. ASSUME NEW k \in 1..K
      PROVE  Amount(estimates[k]) = IF k = F THEN Total ELSE 0
  <2>1. estimates[k] = CellAt(PlaceOf(k)).reportEstimate
    BY <1>1
  <2>2. PlaceOf(k) = First <=> k = F
    BY <1>4, FirstIsOnce DEF First
  <2>3. estimates[k] = IF k = F THEN {Total} ELSE {}
    BY <1>1, <2>1, <2>2, EstimatesOfACell
  <2>4. Amount({Total}) = Total /\ Amount({}) = 0
    BY AmountOfOne
  <2> HIDE DEF estimates, F
  <2> QED
    BY <2>3, <2>4
<1>6. F <= K
  <2>1. SUFFICES ASSUME format = "csv", K = 1
                 PROVE  FALSE
    BY <1>1, <1>4
  <2>2. /\ DOMAIN groups = 1..Len(groups) /\ Len(groups) \in Nat /\ Len(groups) > 0
    BY GroupFacts
  <2>3. After(Header) = <<1, 1>> /\ End = <<Len(groups) + 1, 1>>
    BY <2>1, <2>2 DEF After, Header, End
  <2> QED
    BY <1>1, <2>1, <2>2, <2>3
<1>7. DOMAIN estimates = 1..K
  BY <1>1
<1> HIDE DEF estimates, F, K
<1>8. PICK c : Accumulates(c, K, estimates)
  BY <1>1, <1>3, <1>5, <1>7, ColumnsAccumulate
<1> DEFINE T == {n \in Nat : n \in 0..K => c[n] = IF n >= F THEN Total ELSE 0}
<1>9. 0 \in T
  BY <1>4, <1>8 DEF Accumulates
<1>10. ASSUME NEW n \in Nat, n \in T
       PROVE  n + 1 \in T
  <2>1. SUFFICES ASSUME n + 1 \in 0..K
                 PROVE  c[n + 1] = IF n + 1 >= F THEN Total ELSE 0
    OBVIOUS
  <2>2. n + 1 \in 1..K /\ n \in 0..K /\ (n + 1) - 1 = n
    BY <1>1, <2>1
  <2>3. c[n + 1] = c[n] + Amount(estimates[n + 1])
    BY <1>8, <2>2 DEF Accumulates
  <2>4. c[n] = IF n >= F THEN Total ELSE 0
    BY <1>10, <2>2
  <2> QED
    BY <1>3, <1>4, <1>5, <2>2, <2>3, <2>4
<1>11. K \in T
  <2> HIDE DEF T
  <2> QED
    BY <1>1, <1>9, <1>10, UpToEveryNumber
<1>12. c[K] = Total
  BY <1>1, <1>6, <1>11
<1> QED
  BY <1>3, <1>8, <1>12 DEF Accumulates, estimates

(* The column of the group estimates: up to a row it has what the groups up *)
(* to that of the row free.                                                 *)
LEMMA GroupColumn ==
  ASSUME Types, Whole(staged), groups # <<>>, format = "csv"
  PROVE  Column([i \in DOMAIN staged |-> staged[i].groupEstimate]) = Sizes - Kept
<1> DEFINE K == Len(staged)
           N == Len(groups)
           estimates == [i \in DOMAIN staged |-> staged[i].groupEstimate]
<1>1. /\ K \in Nat \ {0} /\ DOMAIN staged = 1..K
      /\ \A k \in 1..K : PlaceOf(k) \in Places /\ staged[k] = CellAt(PlaceOf(k))
      /\ \A k \in 1..(K - 1) : PlaceOf(k + 1) = After(PlaceOf(k))
      /\ PlaceOf(1) = Header /\ After(PlaceOf(K)) = End
  BY PlacesOfTheWhole, LenProperties DEF Types, WriterTypes
<1>2. /\ DOMAIN groups = 1..N /\ N \in Nat /\ N > 0
      /\ \A g \in 1..N : /\ groups[g].files \in Nat /\ groups[g].files >= 2
                         /\ Reclaimable(groups[g]) \in Int
  BY GroupFacts DEF Groups
<1>3. PICK r : Frees(r)
  BY TotalIsFreed
<1>4. ASSUME NEW k \in 1..K
      PROVE  Amount(estimates[k]) =
               IF PlaceOf(k)[1] \in 1..N /\ PlaceOf(k)[2] = 1
                 THEN Reclaimable(groups[PlaceOf(k)[1]]) ELSE 0
  <2>1. estimates[k] = CellAt(PlaceOf(k)).groupEstimate
    BY <1>1
  <2>2. estimates[k] = IF PlaceOf(k)[1] \in 1..N /\ PlaceOf(k)[2] = 1
                         THEN {Reclaimable(groups[PlaceOf(k)[1]])} ELSE {}
    BY <1>1, <2>1, EstimatesOfACell
  <2>3. /\ Amount({}) = 0
        /\ Amount({Reclaimable(groups[PlaceOf(k)[1]])}) = Reclaimable(groups[PlaceOf(k)[1]])
    BY AmountOfOne
  <2> HIDE DEF estimates
  <2> QED
    BY <2>2, <2>3
<1>5. DOMAIN estimates = 1..K
  BY <1>1
<1> HIDE DEF estimates, K, N
<1>6. PICK c : Accumulates(c, K, estimates)
  BY <1>1, <1>2, <1>4, <1>5, ColumnsAccumulate
<1>7. ASSUME NEW k \in 1..K, k # 1
      PROVE  /\ PlaceOf(k)[1] \in 1..N
             /\ PlaceOf(k)[2] \in 1..groups[PlaceOf(k)[1]].files
  BY <1>7, RowsAreInGroups DEF InGroup, K, N
<1> DEFINE At(k) == IF k = 1 THEN 0 ELSE PlaceOf(k)[1]
           T == {n \in Nat : n + 1 \in 1..K => c[n + 1] = r[At(n + 1)]}
<1>8. r[0] = 0 /\ \A g \in 1..N : r[g] = r[g - 1] + Reclaimable(groups[g])
  BY <1>3 DEF Frees, N
<1>9. \A g \in 0..N : r[g] \in Int
  BY <1>3 DEF Frees, N
<1>10. c[0] = 0 /\ \A k \in 1..K : c[k] = c[k - 1] + Amount(estimates[k])
  BY <1>6 DEF Accumulates
<1>11. 0 \in T
  <2>1. PlaceOf(1)[1] \notin 1..N /\ 1 \in 1..K
    BY <1>1, <1>2 DEF Header
  <2>2. Amount(estimates[1]) = 0
    BY <1>4, <2>1
  <2>3. c[1] = c[0] + 0 /\ c[0] = 0
    BY <1>10, <2>1, <2>2
  <2> QED
    BY <1>8, <2>3
<1>12. ASSUME NEW n \in Nat, n \in T
       PROVE  n + 1 \in T
  <2>1. SUFFICES ASSUME (n + 1) + 1 \in 1..K
                 PROVE  c[(n + 1) + 1] = r[At((n + 1) + 1)]
    OBVIOUS
  <2> DEFINE k == n + 1
             p == PlaceOf(k)
             q == PlaceOf(k + 1)
  <2>2. k \in 1..(K - 1) /\ k \in 1..K /\ k + 1 \in 1..K /\ k + 1 # 1 /\ (k + 1) - 1 = k
    BY <1>1, <2>1
  <2>3. c[k] = r[At(k)] /\ c[k + 1] = c[k] + Amount(estimates[k + 1])
    BY <1>10, <1>12, <2>2
  <2>4. q = After(p) /\ p \in Places /\ q[1] \in 1..N
    BY <1>1, <1>7, <2>2
  <2>5. Amount(estimates[k + 1]) =
          IF q[1] \in 1..N /\ q[2] = 1 THEN Reclaimable(groups[q[1]]) ELSE 0
    BY <1>4, <2>2
  <2>6. k = 1 => p = Header
    BY <1>1
  <2>7. k # 1 => p[1] \in 1..N /\ p[2] \in 1..groups[p[1]].files
    BY <1>7, <2>2
  <2>8. At(k + 1) = q[1] /\ At(k) = IF k = 1 THEN 0 ELSE p[1]
    BY <2>2
  <2> HIDE DEF k, p, q, At
  <2>9. CASE p[1] \in 1..N /\ p[2] < groups[p[1]].files
    <3>1. q = <<p[1], p[2] + 1>>
      BY <1>2, <2>4, <2>9 DEF After
    <3>2. k # 1
      BY <2>6, <2>9 DEF Header
    <3>3. q[1] = p[1] /\ q[2] # 1 /\ p[1] \in 0..N
      BY <1>2, <2>7, <2>9, <3>1, <3>2
    <3>4. c[k + 1] = r[p[1]] + 0 /\ r[p[1]] \in Int
      BY <1>9, <2>3, <2>5, <2>8, <3>2, <3>3
    <3> QED
      BY <2>8, <3>3, <3>4 DEF k
  <2>10. CASE ~(p[1] \in 1..N /\ p[2] < groups[p[1]].files)
    <3>1. q = <<p[1] + 1, 1>>
      BY <1>2, <2>4, <2>10 DEF After
    <3>2. q[1] = p[1] + 1 /\ q[2] = 1 /\ At(k) = p[1] /\ p[1] \in Nat
      BY <2>4, <2>6, <2>8, <3>1 DEF Header, Places
    <3>3. c[k + 1] = r[p[1]] + Reclaimable(groups[q[1]])
      BY <2>3, <2>4, <2>5, <3>2
    <3>4. r[q[1]] = r[q[1] - 1] + Reclaimable(groups[q[1]]) /\ q[1] - 1 = p[1]
      BY <1>8, <2>4, <3>2
    <3> QED
      BY <2>8, <3>3, <3>4 DEF k
  <2> QED
    BY <2>9, <2>10
<1>13. K - 1 \in T
  <2>1. K - 1 \in Nat
    BY <1>1
  <2> HIDE DEF T
  <2> QED
    BY <1>11, <1>12, <2>1, UpToEveryNumber
<1>14. c[K] = r[At(K)]
  BY <1>1, <1>13
<1>15. K # 1 /\ PlaceOf(K)[1] = N
  <2>1. End = <<N + 1, 1>>
    BY DEF End, N
  <2>2. PlaceOf(K) \in Places /\ 1 \in 1..K /\ K \in 1..K
    BY <1>1
  <2>3. After(PlaceOf(K))[1] = N + 1
    BY <1>1, <2>1
  <2>4. K # 1
    BY <1>1, <1>2, <2>3 DEF After, Header
  <2>5. PlaceOf(K)[1] \in 1..N
    BY <1>7, <2>2, <2>4
  <2> QED
    BY <1>2, <2>2, <2>3, <2>4, <2>5 DEF After, Places
<1>16. c[K] = r[N]
  BY <1>14, <1>15
<1> QED
  BY <1>3, <1>6, <1>16 DEF Accumulates, Frees, estimates, N

(* The columns of a whole report add up once: report.go:132-135.            *)
THEOREM TotalsAreCountedOnce == Spec => []TotalsCountOnce
<1>1. ASSUME IInv, step = "returned", err = "none", groups # <<>>
      PROVE  /\ Column([i \in DOMAIN staged |-> staged[i].reportEstimate]) = Sizes - Kept
             /\ format = "csv" =>
                  Column([i \in DOMAIN staged |-> staged[i].groupEstimate]) = Sizes - Kept
  <2>1. Types /\ Whole(staged)
    BY <1>1 DEF IInv, OutcomeInv
  <2> QED
    BY <1>1, <2>1, ReportColumn, GroupColumn
<1>2. IInv => TotalsCountOnce
  BY <1>1 DEF TotalsCountOnce
<1> QED
  BY Invariance, <1>2, PTL

================================================================================
