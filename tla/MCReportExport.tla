----------------------------- MODULE MCReportExport -----------------------------
(* A name typed without, with the right, and with the wrong extension; no   *)
(* groups, or two of different sizes.                                       *)
EXTENDS ReportExport

MCTypedPaths == {<<"report">>, <<"report", "json">>, <<"report", "txt">>}
MCGroupLists == {<<>>, <<[size |-> 5, files |-> 2], [size |-> 3, files |-> 3]>>}

================================================================================
