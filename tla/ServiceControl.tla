--------------------------- MODULE ServiceControl --------------------------
(***************************************************************************)
(* What the loader promises to those who call it, without its table, its   *)
(* pids, its signals or its files: every service has at most one           *)
(* supervisor, with a life of its own; a call changes the supervisor of    *)
(* the service it names and of no other; the answer to a start or restart  *)
(* says whether there is a supervisor, though it may be stopping or dead;  *)
(* and no supervisor is forgotten while a call is in progress.  Load.tla   *)
(* is shown to implement this specification.                               *)
(***************************************************************************)

CONSTANTS Services, NoService

VARIABLES
  status,     \* each service's supervisor: none ("free"), "up", told to stop
              \* ("stopping"), or dead and not collected ("zombie")
  cmd, svc,   \* the call in progress and the service it is about
  reply       \* its answer

controlVars == <<status, cmd, svc, reply>>

ControlInit ==
  /\ status = [s \in Services |-> "free"]
  /\ cmd = "none" /\ svc = NoService /\ reply = "none"

-----------------------------------------------------------------------------

Quiet == cmd = "none" /\ svc = NoService

Request(c, s) ==
  /\ Quiet
  /\ cmd' = c
  /\ svc' = s

\* A start is refused, finds a supervisor, or is to launch one.
StartCall(s) ==
  /\ Request("start", s)
  /\ \/ reply' = "ERR"
     \/ status[s] # "free" /\ reply' = "OK"
     \/ status[s] = "free" /\ UNCHANGED reply
  /\ UNCHANGED status

\* A service in the onboot directory is to be launched.
OnbootCall(s) ==
  /\ Quiet
  /\ status[s] = "free"
  /\ svc' = s
  /\ UNCHANGED <<status, cmd, reply>>

Launching == svc \in Services /\ cmd \in {"start", "none"} /\ reply = "none"

Launch ==
  /\ Launching
  /\ status[svc] = "free"
  /\ status' = [status EXCEPT ![svc] = "up"]
  /\ UNCHANGED <<cmd, svc, reply>>

\* The answer is OK exactly when there is a supervisor.
LaunchEnds ==
  /\ Launching
  /\ IF cmd = "start"
     THEN reply' = (IF status[svc] = "free" THEN "ERR" ELSE "OK") /\ UNCHANGED svc
     ELSE svc' = NoService /\ UNCHANGED reply
  /\ UNCHANGED <<status, cmd>>

ToldToStop(s) == [status EXCEPT ![s] = IF @ = "up" THEN "stopping" ELSE @]

StopCall(s) ==
  /\ Request("stop", s)
  /\ status' = ToldToStop(s)
  /\ reply' = "OK"

RestartCall(s) ==
  /\ Request("restart", s)
  /\ reply' = IF status[s] = "free" THEN "ERR" ELSE "OK"
  /\ UNCHANGED status

\* Enabling and disabling has nothing to do with what is running.
LinkCall(s) ==
  /\ \/ Request("enable", s) /\ reply' \in {"none", "ERR"}
     \/ Request("disable", s) /\ reply' \in {"OK", "ERR"}
  /\ UNCHANGED status

LinkEnds ==
  /\ cmd = "enable" /\ reply = "none"
  /\ reply' \in {"OK", "ERR"}
  /\ UNCHANGED <<status, cmd, svc>>

Answer ==
  /\ reply # "none"
  /\ cmd' = "none" /\ svc' = NoService /\ reply' = "none"
  /\ UNCHANGED status

\* One of the supervisors that are all to be stopped.
ShutdownOne(s) ==
  /\ Quiet
  /\ status' = ToldToStop(s)
  /\ UNCHANGED <<cmd, svc, reply>>

Forget(s) ==
  /\ Quiet
  /\ status[s] = "zombie"
  /\ status' = [status EXCEPT ![s] = "free"]
  /\ UNCHANGED <<cmd, svc, reply>>

Die(s) ==
  /\ status[s] \in {"up", "stopping"}
  /\ status' = [status EXCEPT ![s] = "zombie"]
  /\ UNCHANGED <<cmd, svc, reply>>

ControlNext ==
  \/ Launch \/ LaunchEnds \/ LinkEnds \/ Answer
  \/ \E s \in Services :
       \/ StartCall(s) \/ OnbootCall(s) \/ StopCall(s) \/ RestartCall(s) \/ LinkCall(s)
       \/ ShutdownOne(s) \/ Forget(s) \/ Die(s)

ControlSpec == ControlInit /\ [][ControlNext]_controlVars
=============================================================================
