-------------------------------- MODULE MCPreview --------------------------------
(* One row that can be selected alone, and one selection of several rows.   *)
EXTENDS Preview

CONSTANTS row, several

MCSingles == {row}
MCComparisons == {several}

================================================================================
