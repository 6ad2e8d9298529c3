-------------------------------- MODULE MCSession --------------------------------
(* Two sessions that overlap in any way, or follow one another: enough for  *)
(* one to read what another saves.  The placement of one is off screen.     *)
EXTENDS Session

CONSTANTS s1, s2

MCSessions == {s1, s2}
MCOnScreen == {s1}

================================================================================
