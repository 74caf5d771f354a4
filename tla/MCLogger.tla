------------------------------ MODULE MCLogger -----------------------------
(***************************************************************************)
(* A buffer of four lines with up to five written: it fills, overflows and, *)
(* in a terminal of one or two rows, has positions away from both ends.    *)
(***************************************************************************)
EXTENDS Logger
=============================================================================
