----------------------------- MODULE Supervisor ----------------------------
(***************************************************************************)
(* What HSV promises to those who start and stop it, without its polling   *)
(* loop, its grace period, its scripts or its pids: at most one instance   *)
(* of the service exists; the next one is started only when the last one   *)
(* has been collected; once told to stop HSV starts at most the instance   *)
(* it had already decided to start; once it supervises it ends only when   *)
(* it is told to, and it leaves nothing behind.  Hsv.tla is shown to       *)
(* implement this.                                                         *)
(***************************************************************************)

VARIABLES
  stage,      \* what HSV is doing: "new", "supervising", "starting", "ending"
              \* or "ended"
  service,    \* the instance of the run script: "none", "running" or "exited"
  told        \* HSV has recorded a SIGTERM

supVars == <<stage, service, told>>

SupInit == stage = "new" /\ service = "none" /\ told = FALSE

-----------------------------------------------------------------------------

\* The setup is done, or it fails or is cut short.
BeginSupervision ==
  /\ stage = "new"
  /\ stage' \in {"supervising", "ended"}
  /\ UNCHANGED <<service, told>>

\* HSV has seen that it is not told to stop and will start an instance.
DecideToStart ==
  /\ stage = "supervising"
  /\ service = "none"
  /\ ~told
  /\ stage' = "starting"
  /\ UNCHANGED <<service, told>>

\* The instance is started, or the attempt fails.
StartService ==
  /\ stage = "starting"
  /\ stage' = "supervising"
  /\ service' \in {"none", "running"}
  /\ UNCHANGED told

ServiceEnds ==
  /\ service = "running"
  /\ service' = "exited"
  /\ UNCHANGED <<stage, told>>

CollectService ==
  /\ stage = "supervising"
  /\ service = "exited"
  /\ service' = "none"
  /\ UNCHANGED <<stage, told>>

\* A SIGTERM is recorded, at any time before the end.
TellToStop ==
  /\ stage # "ended"
  /\ told' = TRUE
  /\ UNCHANGED <<stage, service>>

\* HSV has seen that it is told to stop, and nothing is left to stop.
BeginEnd ==
  /\ stage = "supervising"
  /\ service = "none"
  /\ told
  /\ stage' = "ending"
  /\ UNCHANGED <<service, told>>

End ==
  /\ stage = "ending"
  /\ stage' = "ended"
  /\ UNCHANGED <<service, told>>

SupNext ==
  \/ BeginSupervision \/ DecideToStart \/ StartService \/ ServiceEnds
  \/ CollectService \/ TellToStop \/ BeginEnd \/ End

SupSpec == SupInit /\ [][SupNext]_supVars
=============================================================================
