------------------------------ MODULE MCGuiWorkflow ------------------------------
(* A match finds nothing, or three equal files of which the first two are   *)
(* one physical file; b is the newest, a and c are equally old.             *)
EXTENDS GuiWorkflow

CONSTANTS a, b, c

MCFiles == {a, b, c}
MCModifiedAt == [f \in MCFiles |-> IF f = b THEN 2 ELSE 1]
MCPathRank == [f \in MCFiles |-> CASE f = a -> 1 [] f = b -> 2 [] f = c -> 3]
MCCopy == [f \in MCFiles |-> IF f = c THEN c ELSE a]
MCOutcomes == {{}, {{a, b, c}}}
MCBelow == [p \in {} |-> {}]

================================================================================
