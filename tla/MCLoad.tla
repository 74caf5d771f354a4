------------------------------ MODULE MCLoad -------------------------------
(***************************************************************************)
(* Small instances of Load.  With three services and a table of two the    *)
(* limit is reached and hsv_unregister() has an entry to move.  The third  *)
(* pid is for the HSV that would be one too many.  Services only differ in *)
(* their names, so one whose directory comes and goes is enough.           *)
(***************************************************************************)
EXTENDS Load
=============================================================================
