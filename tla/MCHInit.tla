------------------------------ MODULE MCHInit ------------------------------
(***************************************************************************)
(* Small instances of HInit.  Three pids let a mode program, a dying       *)
(* orphan and a freshly adopted one coexist, and let a pid be recycled.    *)
(***************************************************************************)
EXTENDS HInit
=============================================================================
