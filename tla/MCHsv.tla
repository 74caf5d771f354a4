------------------------------- MODULE MCHsv -------------------------------
(***************************************************************************)
(* Small instances of Hsv.  Two pids let an instance that was left behind  *)
(* coexist with a new one and let a pid be recycled; three polls stand for *)
(* the fifty of hsv_stop_service().                                        *)
(***************************************************************************)
EXTENDS Hsv

\* What HSV inherits from HInit through MD1: SIGTERM is blocked.
HInitMask == {"TERM"}

\* HSV below HInit, and HSV started from a process with a clean mask.
AllMasks == {HInitMask, {}}

BelowHInit == {HInitMask}
=============================================================================
