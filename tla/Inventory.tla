-------------------------------- MODULE Inventory --------------------------------
(***************************************************************************)
(* What a surface scan promises to its caller, without saying how          *)
(* (internal/scanner/engine.go 243-464): it takes roots one at a time,     *)
(* records a file at most once for each root it took that reaches the      *)
(* file, counts what it passes over, and answers once.  It answers "ok"    *)
(* only if it was not told to stop and, when nothing was passed over,      *)
(* every file is recorded as often as it should be; "cancelled" only if it *)
(* was told to stop.  After the answer nothing changes.                    *)
(***************************************************************************)
EXTENDS Naturals, FiniteSets

CONSTANTS Nodes, Files, Below   \* Below[r]: the nodes that a root reaches

VARIABLES
  asked,       \* the roots taken
  inventory,   \* how often each file is recorded
  lost,        \* how much was passed over
  stop,        \* the caller does not want the answer any more
  answer

vars == <<asked, inventory, lost, stop, answer>>

Failures == {"nothing-readable", "unsafe-root", "root-changed", "limit", "cancelled"}

Due(f) == Cardinality({r \in asked : f \in Below[r]})
Complete == \A f \in Files : inventory[f] = Due(f)

Init ==
  /\ asked = {} /\ inventory = [f \in Files |-> 0] /\ lost = 0
  /\ stop = FALSE /\ answer = "none"

(* A root may be one too many. *)
Admit(r) ==
  /\ r \notin asked
  /\ asked' = asked \cup {r}
  /\ answer' \in {"none", "limit"}
  /\ UNCHANGED <<inventory, lost, stop>>

Record(f) ==
  /\ inventory[f] < Due(f)
  /\ inventory' = [inventory EXCEPT ![f] = @ + 1]
  /\ UNCHANGED <<asked, lost, stop, answer>>

PassOver == lost' = lost + 1 /\ UNCHANGED <<asked, inventory, stop, answer>>

Stop == stop' = TRUE /\ UNCHANGED <<asked, inventory, lost, answer>>

Succeed ==
  /\ ~stop /\ (lost = 0 => Complete)
  /\ answer' = "ok"
  /\ UNCHANGED <<asked, inventory, lost, stop>>

GiveUp(failure) ==
  /\ failure = "cancelled" => stop
  /\ answer' = failure
  /\ UNCHANGED <<asked, inventory, lost, stop>>

Next ==
  /\ answer = "none"
  /\ \/ \E r \in Nodes : Admit(r)
     \/ \E f \in Files : Record(f)
     \/ PassOver \/ Stop \/ Succeed
     \/ \E failure \in Failures : GiveUp(failure)

Spec == Init /\ [][Next]_vars

================================================================================
