------------------------------ MODULE MCVerifiedFile ------------------------------
(* A group of three records, of which the first or the first two are to be  *)
(* recycled; the first is hashed or shown.  Two changes by other programs   *)
(* replace a file or swap a directory and put it back.                      *)
EXTENDS VerifiedFile

CONSTANTS a, b, c

MCGroup == <<a, b, c>>
MCPurposes == {"boundary", "full", "preview", "recycle"}
MCSelections == {<<a>>, <<a, b>>}
MCAdapters == {"refuse", "path", "handle"}

================================================================================
