-------------------------- MODULE ForegroundOperation --------------------------
(***************************************************************************)
(* What the desktop application promises about foreground work, without    *)
(* its phases, tokens, generations or cancellation functions: one unit of  *)
(* work at a time; work with effects outside the process (a report file, a *)
(* destructive batch) is guarded, and the window does not go away under    *)
(* guarded work; once it goes away nothing starts again.                   *)
(*                                                                         *)
(* OperationState is shown to implement this module.                       *)
(***************************************************************************)

VARIABLES
  work,     \* "idle", "scan" or "guarded": the foreground operation
  window    \* "open", "closing" (close is owed) or "closed"

vars == <<work, window>>

TypeOK ==
  /\ work \in {"idle", "scan", "guarded"}
  /\ window \in {"open", "closing", "closed"}

Init == work = "idle" /\ window = "open"

(* Only an idle, open window starts work. *)
Start == /\ work = "idle"
         /\ window = "open"
         /\ work' \in {"scan", "guarded"}
         /\ UNCHANGED window

(* The worker acknowledges; a close that was owed is paid at that moment. *)
Finish == /\ work # "idle"
          /\ work' = "idle"
          /\ window' = IF window = "closing" THEN "closed" ELSE window

(* The user closes the window.  A scan is abandoned, guarded work is not. *)
CloseNow == /\ work # "guarded"
            /\ window = "open"
            /\ work' = "idle"
            /\ window' = "closed"

CloseLater == /\ work = "guarded"
              /\ window = "open"
              /\ window' = "closing"
              /\ UNCHANGED work

Next == Start \/ Finish \/ CloseNow \/ CloseLater

Spec == Init /\ [][Next]_vars

================================================================================
