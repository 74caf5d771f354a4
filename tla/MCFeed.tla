------------------------------- MODULE MCFeed ------------------------------
(***************************************************************************)
(* Three clients and a backlog of two: one is served while two wait, and a *)
(* served one can come back ahead of nobody.                               *)
(***************************************************************************)
EXTENDS Feed
=============================================================================
