-------------------------------- MODULE Hsv --------------------------------
(***************************************************************************)
(* HSV, the supervisor of one service (hsv.c).                             *)
(*                                                                         *)
(* HSV is a sequential process that starts the service's run script, polls *)
(* it, restarts it when it exits or when SIGUSR1 asks for it, and ends     *)
(* through the stop and finish scripts when SIGTERM asks for it.  Signals, *)
(* the exits of the service and the ends of the scripts interleave with    *)
(* it between any two of its system calls.                                 *)
(***************************************************************************)
EXTENDS Naturals

CONSTANTS
  Pids,       \* pids of instances of the run script
  NoPid,
  Masks,      \* the signal masks that HSV can inherit from its parent
  StopTicks   \* polls of hsv_stop_service(): HSV_STOP_TIMEOUT * 10

ASSUME HsvAssumption ==
  /\ NoPid \notin Pids
  /\ Masks \subseteq SUBSET {"TERM", "USR1"}
  /\ StopTicks \in Nat

VARIABLES
  pc,
  shutting_down,
  restart_requested,
  mask,           \* signals blocked since before the exec; never changed
  pending,        \* signals held back by mask
  pid,            \* the local variable pid of main()
  alive,          \* instances of the run script that execute
  dead,           \* instances that exited and are not collected
  elapsed,        \* the loop counter of hsv_stop_service()
  why,            \* why the inner supervision loop is being left
  in_hook         \* a stop or finish script is executing

flagVars == <<shutting_down, restart_requested, mask, pending>>
svcVars  == <<pid, alive, dead>>
vars     == <<pc, flagVars, svcVars, elapsed, why, in_hook>>

Setup      == {"args", "install_term", "install_usr1"}
Polling    == {"poll", "restart?", "shutdown?"}
Stopping   == {"kill", "grace", "wait_kill"}
HookPoints == {"restart_hook", "stop_hook", "finish_hook"}
Ended      == {"exit", "failed", "killed"}
Locations  == Setup \cup Polling \cup Stopping \cup HookPoints \cup Ended
                \cup {"top", "spawn", "backoff", "after", "delay"}

TypeOK ==
  /\ pc \in Locations
  /\ shutting_down \in BOOLEAN
  /\ restart_requested \in BOOLEAN
  /\ mask \in Masks
  /\ pending \in SUBSET {"TERM", "USR1"}
  /\ pid \in Pids \cup {NoPid}
  /\ alive \in SUBSET Pids
  /\ dead \in SUBSET Pids
  /\ elapsed \in 0..StopTicks
  /\ why \in {"none", "exit", "restart", "shutdown"}
  /\ in_hook \in BOOLEAN

Init ==
  /\ pc = "args"
  /\ shutting_down = FALSE
  /\ restart_requested = FALSE
  /\ mask \in Masks
  /\ pending = {}
  /\ pid = NoPid
  /\ alive = {}
  /\ dead = {}
  /\ elapsed = 0
  /\ why = "none"
  /\ in_hook = FALSE

Goto(loc) == pc' = loc

\* waitpid(pid) hands out a dead instance.
Collect ==
  /\ pid \in dead
  /\ dead' = dead \ {pid}
  /\ UNCHANGED <<pid, alive>>

-----------------------------------------------------------------------------
(***************************************************************************)
(* main() before the supervision loop.  Each step can fail and end HSV.    *)
(***************************************************************************)

SetupStep ==
  /\ pc \in Setup
  /\ \/ Goto([args         |-> "install_term",
              install_term |-> "install_usr1",
              install_usr1 |-> "top"][pc])
     \/ Goto("failed")
  /\ UNCHANGED <<flagVars, svcVars, elapsed, why, in_hook>>

-----------------------------------------------------------------------------
(***************************************************************************)
(* The supervision loop.                                                   *)
(***************************************************************************)

\* Mutant: the head of the loop is for (;;).
TopAlwaysStarts ==
  /\ pc = "top"
  /\ Goto("spawn")
  /\ UNCHANGED <<flagVars, svcVars, elapsed, why, in_hook>>

\* The head of the outer loop.
Top ==
  /\ pc = "top"
  /\ Goto(IF shutting_down THEN "stop_hook" ELSE "spawn")
  /\ UNCHANGED <<flagVars, svcVars, elapsed, why, in_hook>>

\* process_spawn(run_path).  A run script that cannot be executed is a child
\* that exits at once; only fork() failing is seen here.
SpawnService ==
  /\ pc = "spawn"
  /\ \/ /\ \E p \in Pids \ (alive \cup dead) :
             /\ pid' = p
             /\ alive' = alive \cup {p}
        /\ Goto("poll")
        /\ UNCHANGED dead
     \/ /\ Goto("backoff")
        /\ UNCHANGED svcVars
  /\ UNCHANGED <<flagVars, elapsed, why, in_hook>>

\* hsv_sleep_ms(1000), after a failed spawn or after the service exited.
Sleep ==
  /\ pc \in {"backoff", "delay"}
  /\ Goto("top")
  /\ UNCHANGED <<flagVars, svcVars, elapsed, why, in_hook>>

\* Mutant: a collected service does not end the polling loop.
PollNoBreak ==
  /\ pc = "poll"
  /\ IF pid \in dead THEN Collect ELSE UNCHANGED svcVars
  /\ Goto("restart?")
  /\ UNCHANGED <<flagVars, elapsed, why, in_hook>>

\* Mutant: the service's own exit is taken for the end of supervision.
PollGivesUp ==
  /\ pc = "poll"
  /\ \/ Collect /\ why' = "exit" /\ Goto("stop_hook")
     \/ pid \notin dead /\ Goto("restart?") /\ UNCHANGED <<svcVars, why>>
  /\ UNCHANGED <<flagVars, elapsed, in_hook>>

\* waitpid(pid, WNOHANG) of the inner loop.
Poll ==
  /\ pc = "poll"
  /\ \/ Collect /\ why' = "exit" /\ Goto("after")
     \/ pid \notin dead /\ Goto("restart?") /\ UNCHANGED <<svcVars, why>>
  /\ UNCHANGED <<flagVars, elapsed, in_hook>>

\* Mutant: the request is cleared, the running instance is kept.
CheckRestartLost ==
  /\ pc = "restart?"
  /\ restart_requested' = FALSE
  /\ Goto("shutdown?")
  /\ UNCHANGED <<shutting_down, mask, pending, svcVars, elapsed, why, in_hook>>

CheckRestart ==
  /\ pc = "restart?"
  /\ restart_requested' = FALSE
  /\ IF restart_requested
     THEN Goto("kill") /\ why' = "restart"
     ELSE Goto("shutdown?") /\ UNCHANGED why
  /\ UNCHANGED <<shutting_down, mask, pending, svcVars, elapsed, in_hook>>

\* Mutant: the polling loop does not look at shutting_down.
CheckShutdownNever ==
  /\ pc = "shutdown?"
  /\ Goto("poll")
  /\ UNCHANGED <<flagVars, svcVars, elapsed, why, in_hook>>

\* The shutdown check, or the 100 ms nap that ends one round of polling.
CheckShutdown ==
  /\ pc = "shutdown?"
  /\ IF shutting_down
     THEN Goto("kill") /\ why' = "shutdown"
     ELSE Goto("poll") /\ UNCHANGED why
  /\ UNCHANGED <<flagVars, svcVars, elapsed, in_hook>>

\* What follows the inner loop.
After ==
  /\ pc = "after"
  /\ Goto(IF shutting_down THEN "stop_hook"
          ELSE IF restart_requested THEN "top"
          ELSE "delay")
  /\ UNCHANGED <<flagVars, svcVars, elapsed, why, in_hook>>

-----------------------------------------------------------------------------
(***************************************************************************)
(* hsv_stop_service(pid): SIGTERM, a bounded number of polls, SIGKILL.     *)
(***************************************************************************)

\* hsv_stop_service() returns to its caller.
StopReturns ==
  Goto(IF why = "restart" THEN "restart_hook" ELSE "after")

SendTerm ==
  /\ pc = "kill"
  /\ elapsed' = 0
  /\ Goto("grace")
  /\ UNCHANGED <<flagVars, svcVars, why, in_hook>>

\* Mutant: one poll too many, and the counter is not reset.
GraceOffByOne ==
  /\ pc = "grace"
  /\ \/ Collect /\ StopReturns /\ UNCHANGED elapsed
     \/ pid \notin dead /\ elapsed' = elapsed + 1 /\ UNCHANGED <<pc, svcVars>>
  /\ UNCHANGED <<flagVars, why, in_hook>>

\* One poll of the grace period.
Grace ==
  /\ pc = "grace"
  /\ elapsed < StopTicks
  /\ \/ Collect /\ StopReturns /\ UNCHANGED elapsed
     \/ pid \notin dead /\ elapsed' = elapsed + 1 /\ UNCHANGED <<pc, svcVars>>
  /\ UNCHANGED <<flagVars, why, in_hook>>

\* Mutant: SIGKILL is sent and the instance is not waited for.
SendKillNoWait ==
  /\ pc = "grace"
  /\ elapsed = StopTicks
  /\ StopReturns
  /\ UNCHANGED <<flagVars, svcVars, elapsed, why, in_hook>>

\* The grace period is over: SIGKILL.
SendKill ==
  /\ pc = "grace"
  /\ elapsed = StopTicks
  /\ Goto("wait_kill")
  /\ UNCHANGED <<flagVars, svcVars, elapsed, why, in_hook>>

WaitKill ==
  /\ pc = "wait_kill"
  /\ Collect
  /\ StopReturns
  /\ UNCHANGED <<flagVars, elapsed, why, in_hook>>

-----------------------------------------------------------------------------
(***************************************************************************)
(* hsv_exec_script(): the optional stop and finish scripts.                *)
(***************************************************************************)

HookReturns ==
  Goto([restart_hook |-> "after",
        stop_hook    |-> "finish_hook",
        finish_hook  |-> "exit"][pc])

StartHook ==
  /\ pc \in HookPoints /\ ~in_hook
  /\ in_hook' = TRUE
  /\ UNCHANGED <<pc, flagVars, svcVars, elapsed, why>>

\* The script is missing, is not executable, or fork() fails.
SkipHook ==
  /\ pc \in HookPoints /\ ~in_hook
  /\ HookReturns
  /\ UNCHANGED <<flagVars, svcVars, elapsed, why, in_hook>>

-----------------------------------------------------------------------------
(***************************************************************************)
(* The rest of the machine.                                                *)
(***************************************************************************)

\* The script ends and process_wait() collects it; its status is not used.
EndHook ==
  /\ in_hook
  /\ in_hook' = FALSE
  /\ HookReturns
  /\ UNCHANGED <<flagVars, svcVars, elapsed, why>>

\* The service exits: by itself, on SIGTERM, or on SIGKILL.
ServiceExit(p) ==
  /\ p \in alive
  /\ pc \notin Ended
  /\ alive' = alive \ {p}
  /\ dead' = dead \cup {p}
  /\ UNCHANGED <<pc, flagVars, pid, elapsed, why, in_hook>>

\* sigaction() for the signal has been called.
Handled(s) ==
  IF s = "TERM" THEN pc \notin {"args", "install_term"} ELSE pc \notin Setup

\* HSV is sent SIGTERM (stop) or SIGUSR1 (restart).  A blocked signal stays
\* pending, hsv_signal() records a handled one, and without a handler the
\* default action ends HSV.
Receive(s) ==
  /\ pc \notin Ended
  /\ \/ /\ s \in mask
        /\ pending' = pending \cup {s}
        /\ UNCHANGED <<pc, shutting_down, restart_requested, mask>>
     \/ /\ s \notin mask /\ Handled(s)
        /\ shutting_down' = (shutting_down \/ s = "TERM")
        /\ restart_requested' = (restart_requested \/ s = "USR1")
        /\ UNCHANGED <<pc, mask, pending>>
     \/ /\ s \notin mask /\ ~Handled(s)
        /\ Goto("killed")
        /\ UNCHANGED flagVars
  /\ UNCHANGED <<svcVars, elapsed, why, in_hook>>

Stopped == pc \in Ended /\ UNCHANGED vars

-----------------------------------------------------------------------------

HsvStep ==
  \/ SetupStep
  \/ Top \/ SpawnService \/ Sleep
  \/ Poll \/ CheckRestart \/ CheckShutdown \/ After
  \/ SendTerm \/ Grace \/ SendKill \/ WaitKill
  \/ StartHook \/ SkipHook

Environment ==
  \/ EndHook
  \/ \E p \in Pids : ServiceExit(p)
  \/ \E s \in {"TERM", "USR1"} : Receive(s)
  \/ Stopped

Next == HsvStep \/ Environment

Spec == Init /\ [][Next]_vars

\* The kernel schedules HSV and SIGKILL ends a process.  Nothing makes the
\* service obey SIGTERM, and nothing makes a script end.
Fairness ==
  /\ WF_vars(HsvStep)
  /\ \A p \in Pids : WF_vars(pc = "wait_kill" /\ ServiceExit(p))

FairSpec == Spec /\ Fairness

-----------------------------------------------------------------------------
(***************************************************************************)
(* Properties.                                                             *)
(***************************************************************************)

\* Outside the polling loop and hsv_stop_service() no instance of the run
\* script exists, executing or uncollected: the stop and finish scripts run
\* and the next instance is started only when the last one is gone, and HSV
\* leaves nothing behind.
NoInstanceLeft ==
  pc \notin Polling \cup Stopping => alive \cup dead = {}

\* The pid that hsv_stop_service() signals and waits for is an instance that
\* HSV has not collected yet: SIGTERM and SIGKILL hit no recycled pid.
SignalsOwnChild == pc \in Stopping => pid \in alive \cup dead

\* hsv.c: SIGKILL is used "so HSV itself cannot remain permanently stuck".
\* Once hsv_signal() has recorded a SIGTERM, HSV ends, whatever the service
\* does with its own SIGTERM and whatever was going on, unless a script never
\* ends.
TermEndsHsv == shutting_down ~> (pc \in Ended \/ []in_hook)

\* A recorded restart request leads to the start of a new instance, whatever
\* the running one does, unless HSV is told to stop or the stop script never
\* ends.
RestartTakesEffect ==
  restart_requested ~> (pc = "spawn" \/ shutting_down \/ []in_hook)

\* hsv.c: "The service exited while the system was operating.  HSV supervises
\* it and restarts it".  An exit of the service leads to the start of a new
\* instance, unless HSV is told to stop or the stop script never ends.
ExitIsRestarted ==
  pid \in dead ~> (pc = "spawn" \/ shutting_down \/ []in_hook)

Stage ==
  CASE pc \in Setup                        -> "new"
    [] pc = "spawn"                        -> "starting"
    [] pc \in {"stop_hook", "finish_hook"} -> "ending"
    [] pc \in Ended                        -> "ended"
    [] OTHER                               -> "supervising"

ServiceStatus ==
  IF alive # {} THEN "running" ELSE IF dead # {} THEN "exited" ELSE "none"

Sup == INSTANCE Supervisor WITH
         stage <- Stage, service <- ServiceStatus, told <- shutting_down

\* HSV keeps the promise of Supervisor, in whatever order the exits of the
\* service, the signals and the end of the grace period come: in particular a
\* SIGTERM that is recorded between the head of the loop and the spawn lets one
\* more instance start and no second one, and HSV ends before it is told to
\* only while it sets itself up, when there is no instance to leave behind.
ImplementsSupervisor == Sup!SupSpec

\* hsv.c, at the check that follows the inner loop: "Restart was explicitly
\* requested.  Do not wait the normal crash-restart delay."
RestartSkipsDelay == pc = "delay" => why # "restart"
=============================================================================
