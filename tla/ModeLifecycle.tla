--------------------------- MODULE ModeLifecycle ---------------------------
(***************************************************************************)
(* What HInit's mode controller promises, without signals, pids or the     *)
(* order of system calls: a machine starts up once, operates at most once, *)
(* shuts down at most once, and never runs two mode programs together.     *)
(* A failed startup and the loss of MD2 both end in a phase that nothing   *)
(* leaves.  HInit.tla is shown to implement this specification.            *)
(***************************************************************************)

VARIABLES
  phase,      \* where the machine is in its life
  programs    \* mode programs HInit has started and not yet collected

lifeVars == <<phase, programs>>

Phases == {"fresh", "startup", "started", "operating", "failed",
           "stopping", "shutdown"}

LifeTypeOK == phase \in Phases /\ programs \in SUBSET {"md0", "md1", "md2"}

LifeInit == phase = "fresh" /\ programs = {}

-----------------------------------------------------------------------------

BeginStartup ==
  /\ phase = "fresh"
  /\ phase' = "startup"
  /\ UNCHANGED programs

\* One run of MD1: it is started, it ends well or badly, or it never starts.
RunStartup ==
  /\ phase = "startup"
  /\ \/ /\ programs = {}
        /\ \/ programs' = {"md1"} /\ phase' = "startup"
           \/ programs' = {}      /\ phase' = "failed"
     \/ /\ programs = {"md1"}
        /\ programs' = {}
        /\ phase' \in {"started", "failed"}

BeginOperating ==
  /\ phase = "started"
  /\ programs = {}
  /\ \/ programs' = {"md2"} /\ phase' = "operating"
     \/ programs' = {}      /\ phase' = "failed"

\* MD2 is collected either because it died or because it was asked to leave.
LeaveOperating ==
  /\ phase = "operating"
  /\ programs = {"md2"}
  /\ programs' = {}
  /\ phase' \in {"failed", "stopping"}

\* One run of MD0, which is only started once MD2 has been collected.
RunShutdown ==
  \/ /\ phase = "stopping"
     /\ programs = {}
     /\ programs' \in {{}, {"md0"}}
     /\ phase' = "shutdown"
  \/ /\ phase = "shutdown"
     /\ programs = {"md0"}
     /\ programs' = {}
     /\ UNCHANGED phase

LifeNext == \/ BeginStartup
            \/ RunStartup
            \/ BeginOperating
            \/ LeaveOperating
            \/ RunShutdown

LifeSpec == LifeInit /\ [][LifeNext]_lifeVars
=============================================================================
