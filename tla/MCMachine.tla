----------------------------- MODULE MCMachine -----------------------------
(***************************************************************************)
(* Two services: one can lose its HSV while the other is still being       *)
(* loaded.                                                                 *)
(***************************************************************************)
EXTENDS Machine
=============================================================================
