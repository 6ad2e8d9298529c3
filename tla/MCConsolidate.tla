----------------------------- MODULE MCConsolidate -----------------------------
(* A group of three files: requests for one and two of them in either       *)
(* order, and the requests that must be refused.                            *)
EXTENDS Consolidate

CONSTANTS a, b, c

MCGroup == <<a, b, c>>
MCRequests == {<<c>>, <<b, c>>, <<c, a>>, <<>>, <<a, b, c>>, <<b, b>>,
               <<b, Alien>>}
MCVolumes == {{}, {b}}

================================================================================
