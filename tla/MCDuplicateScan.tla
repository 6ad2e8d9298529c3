----------------------------- MODULE MCDuplicateScan -----------------------------
(* Three records.  In the layouts all are equal, one differs in the middle, *)
(* one differs at its end.  SameFile has two records of one file, which is  *)
(* what SurfaceScan reports of a root and a directory below it.             *)
EXTENDS DuplicateScan

CONSTANTS r1, r2, r3

MCRecords == {r1, r2, r3}
MCFileOf == [r \in MCRecords |-> r]
SameFile == [r \in MCRecords |-> IF r = r3 THEN r3 ELSE r1]

Content(s, e, b) == [size |-> s, edge |-> e, body |-> b]
X == Content(1, 0, 0)
Middle == Content(1, 0, 1)
End == Content(1, 1, 0)
MCContents == {X, Middle, End}
Lay(c) == [f \in TheFiles |-> IF f = r3 THEN c ELSE X]
MCLayouts == {Lay(X), Lay(Middle), Lay(End)}
OneLayout == {Lay(Middle)}

================================================================================
