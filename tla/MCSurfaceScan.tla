------------------------------ MODULE MCSurfaceScan ------------------------------
(* A root with two subdirectories of one file each; root lists that name a  *)
(* directory twice, a directory and its parent, and a file.                 *)
EXTENDS SurfaceScan

CONSTANTS top, left, right, f, g

MCDirs == {top, left, right}
MCFiles == {f, g}
MCSubDirs == [d \in MCDirs |-> IF d = top THEN {left, right} ELSE {}]
MCFilesIn == [d \in MCDirs |-> IF d = left THEN {f}
                               ELSE IF d = right THEN {g} ELSE {}]
MCRootLists == {<<top>>, <<left, left>>, <<left, f>>, <<f>>, <<top, left>>,
                <<left, right, f>>}

================================================================================
