---------------------------- MODULE HardlinkContract ----------------------------
(***************************************************************************)
(* What a consolidation request promises about each selected file, without *)
(* saying how (internal/scanner/hardlink.go 12-16 and 31-38): its bytes    *)
(* stay at the original path, sit at a backup path that is reported, or    *)
(* have been replaced by a link to the keeper; at most one file is between *)
(* those states, and what is reported is where the bytes are.              *)
(***************************************************************************)
CONSTANT Items

VARIABLES
  fate,      \* where the operation left each file's own bytes
  report,    \* what the caller has been told of each file
  crashed

vars == <<fate, report, crashed>>

Fates == {"home", "aside", "replaced"}
Reports == {"none", "kept", "retained", "consolidated"}

TypeOK ==
  /\ fate \in [Items -> Fates]
  /\ report \in [Items -> Reports]
  /\ crashed \in BOOLEAN

Honest(where) ==
  CASE where = "home"     -> "kept"
    [] where = "aside"    -> "retained"
    [] where = "replaced" -> "consolidated"

Init ==
  /\ fate = [i \in Items |-> "home"]
  /\ report = [i \in Items |-> "none"]
  /\ crashed = FALSE

(* A file leaves its path only while every other file is settled. *)
Settled(i) == fate[i] = "home" \/ report[i] # "none"

SetAside(i) ==
  /\ fate[i] = "home" /\ report[i] = "none"
  /\ \A j \in Items \ {i} : Settled(j)
  /\ fate' = [fate EXCEPT ![i] = "aside"]
  /\ UNCHANGED <<report, crashed>>

Conclude(i, where) ==
  /\ fate[i] = "aside" /\ report[i] = "none"
  /\ fate' = [fate EXCEPT ![i] = where]
  /\ UNCHANGED <<report, crashed>>

Tell(i) ==
  /\ report[i] = "none"
  /\ report' = [report EXCEPT ![i] = Honest(fate[i])]
  /\ UNCHANGED <<fate, crashed>>

(* The request is refused as a whole: every file it named is kept. *)
Reject(named) ==
  /\ \A i \in Items : fate[i] = "home" /\ report[i] = "none"
  /\ report' = [i \in Items |-> IF i \in named THEN "kept" ELSE "none"]
  /\ UNCHANGED <<fate, crashed>>

Crash == crashed' = TRUE /\ UNCHANGED <<fate, report>>

Next ==
  /\ ~crashed
  /\ \/ \E i \in Items : SetAside(i) \/ Tell(i)
     \/ \E i \in Items, where \in {"home", "replaced"} : Conclude(i, where)
     \/ \E named \in SUBSET Items : Reject(named)
     \/ Crash

Spec == Init /\ [][Next]_vars

================================================================================
