------------------------------- MODULE HInit -------------------------------
(***************************************************************************)
(* PID 1 of Hail2: the main loop (hinit.c), the signal layer (signal.c),   *)
(* the machine modes (mode.c) and the process primitives (process.c).      *)
(*                                                                         *)
(* HInit is one sequential process.  What runs beside it is the kernel,    *)
(* which raises signals and hands it orphans, and its children: the three  *)
(* mode programs and every process whose parent died.  pc is the place     *)
(* between two system calls where the rest of the machine can interfere.   *)
(***************************************************************************)
EXTENDS Naturals

CONSTANTS
  Pids,       \* pids the kernel can give to a child of PID 1
  NoPid       \* the value -1 of a pid_t

ASSUME NoPidAssumption == NoPid \notin Pids

Signals == {"CHLD", "TERM", "INT"}

\* MODE_NONE, MODE_MD0, MODE_MD1, MODE_MD2
Modes == {"NONE", "MD0", "MD1", "MD2"}

ModePrograms == {"md0", "md1", "md2"}

\* What a pid is running: nothing, a mode program, or an adopted orphan.
Programs == ModePrograms \cup {"none", "orphan"}

Locations ==
  {"start", "setup", "spawn_md1", "wait_md1", "spawn_md2", "term", "wait_md2",
   "spawn_md0", "wait_md0", "chld", "reap", "suspend", "off", "exited"}

VARIABLES
  pc,
  \* static variables of mode.c
  current_mode,
  md2_pid,
  md2_shutdown_requested,
  wait_pid,    \* the pid process_wait() is called with
  \* the signals of PID 1
  mask,        \* blocked by sigprocmask()
  pending,     \* raised while blocked, not yet delivered
  recorded,    \* delivered: sigchld_pending, sigterm_pending, sigint_pending
  \* the children of PID 1
  prog,        \* what each pid runs; "none" is a pid that is free
  zombie,      \* children that exited and have not been waited for
  failed,      \* zombies whose wait status is not a zero exit
  \* the MD2 process
  md2_mask,    \* the signal mask it inherited over fork and exec
  md2_sig      \* signals sent to it and not delivered

modeVars == <<current_mode, md2_pid, md2_shutdown_requested>>
sigVars  == <<mask, pending, recorded>>
procVars == <<prog, zombie, failed>>
md2Vars  == <<md2_mask, md2_sig>>
vars     == <<pc, modeVars, wait_pid, sigVars, procVars, md2Vars>>

TypeOK ==
  /\ pc \in Locations
  /\ current_mode \in Modes
  /\ md2_pid \in Pids \cup {NoPid}
  /\ md2_shutdown_requested \in BOOLEAN
  /\ wait_pid \in Pids \cup {NoPid}
  /\ mask \in SUBSET Signals
  /\ pending \in SUBSET Signals
  /\ recorded \in SUBSET Signals
  /\ prog \in [Pids -> Programs]
  /\ zombie \in SUBSET Pids
  /\ failed \in SUBSET Pids
  /\ md2_mask \in SUBSET Signals
  /\ md2_sig \in SUBSET Signals

Init ==
  /\ pc = "start"
  /\ current_mode = "NONE"
  /\ md2_pid = NoPid
  /\ md2_shutdown_requested = FALSE
  /\ wait_pid = NoPid
  /\ mask = {}
  /\ pending = {}
  /\ recorded = {}
  /\ prog = [p \in Pids |-> "none"]
  /\ zombie = {}
  /\ failed = {}
  /\ md2_mask = {}
  /\ md2_sig = {}

Halted == pc \in {"off", "exited"}

-----------------------------------------------------------------------------
(***************************************************************************)
(* System calls.                                                           *)
(***************************************************************************)

\* A signal for PID 1: kept by the kernel while blocked, otherwise
\* signal_handler() runs at once and records it.
Raise(s) ==
  IF s \in mask
  THEN pending' = pending \cup {s} /\ UNCHANGED <<mask, recorded>>
  ELSE recorded' = recorded \cup {s} /\ UNCHANGED <<mask, pending>>

\* process_spawn(): fork() gives the child a free pid.  A failing exec is a
\* child that exits with a failure, so it is not seen here.
Spawn(p, program) ==
  /\ prog[p] = "none"
  /\ prog' = [prog EXCEPT ![p] = program]
  /\ UNCHANGED <<zombie, failed>>

\* process_wait(wait_pid) returns: the child is a zombie, or it is no child
\* of PID 1 and waitpid() fails with ECHILD.
WaitReturns == wait_pid \in zombie \/ prog[wait_pid] = "none"

\* The wait status read by process_wait() is not a zero exit.
WaitFailed == wait_pid \in failed \/ prog[wait_pid] = "none"

Reap(p) ==
  /\ prog' = [prog EXCEPT ![p] = "none"]
  /\ zombie' = zombie \ {p}
  /\ failed' = failed \ {p}

-----------------------------------------------------------------------------
(***************************************************************************)
(* main(): everything before the main loop.                                *)
(***************************************************************************)

\* log_init() and signal_setup().  Without a log file PID 1 returns.
LogInit ==
  /\ pc = "start"
  /\ pc' \in {"setup", "exited"}
  /\ UNCHANGED <<modeVars, wait_pid, sigVars, procVars, md2Vars>>

\* The transitions mode_start() accepts; every other request is refused
\* with a warning and changes nothing.
Accepts(mode) ==
  <<current_mode, mode>> \in
    {<<"NONE", "MD1">>, <<"MD1", "MD2">>, <<"MD2", "MD0">>}

\* sigprocmask(SIG_BLOCK), mode_init() and the entry of mode_start(MD1).
BlockSignals ==
  /\ pc = "setup"
  /\ \/ /\ Accepts("MD1")
        /\ mask' = {"CHLD", "TERM", "INT"}
        /\ current_mode' = "MD1"
        /\ pc' = "spawn_md1"
     \/ /\ pc' = "exited"
        /\ UNCHANGED <<mask, current_mode>>
  /\ UNCHANGED <<md2_pid, md2_shutdown_requested, wait_pid, pending, recorded,
                 procVars, md2Vars>>

-----------------------------------------------------------------------------
(***************************************************************************)
(* mode_start(MD1) and mode_start(MD2).                                    *)
(***************************************************************************)

\* mode_exec(MD1_PATH), up to the wait.
SpawnMd1 ==
  /\ pc = "spawn_md1"
  /\ \/ /\ \E p \in Pids : Spawn(p, "md1") /\ wait_pid' = p
        /\ pc' = "wait_md1"
        /\ UNCHANGED current_mode
     \/ /\ current_mode' = "NONE"
        /\ pc' = "term"
        /\ UNCHANGED <<wait_pid, procVars>>
  /\ UNCHANGED <<md2_pid, md2_shutdown_requested, sigVars, md2Vars>>

\* mode_exec(MD1_PATH) returns; only a zero exit leads on to MD2.
WaitMd1 ==
  /\ pc = "wait_md1"
  /\ WaitReturns
  /\ Reap(wait_pid)
  /\ IF WaitFailed
     THEN pc' = "term" /\ current_mode' = "NONE"
     ELSE pc' = "spawn_md2" /\ UNCHANGED current_mode
  /\ UNCHANGED <<md2_pid, md2_shutdown_requested, wait_pid, sigVars, md2Vars>>

\* Mutant: the program's name is published in place of the mode.
SpawnMd2WrongMode ==
  /\ pc = "spawn_md2"
  /\ Accepts("MD2")
  /\ md2_shutdown_requested' = FALSE
  /\ \E p \in Pids : Spawn(p, "md2") /\ md2_pid' = p
  /\ current_mode' = "md2"
  /\ md2_mask' = mask
  /\ md2_sig' = {}
  /\ pc' = "term"
  /\ UNCHANGED <<wait_pid, sigVars>>

\* mode_start(MD2): MD2 is published once the child exists and is tracked.
SpawnMd2 ==
  /\ pc = "spawn_md2"
  /\ Accepts("MD2")
  /\ md2_shutdown_requested' = FALSE
  /\ \/ \E p \in Pids :
          /\ Spawn(p, "md2")
          /\ md2_pid' = p
          /\ current_mode' = "MD2"
          /\ md2_mask' = mask
          /\ md2_sig' = {}
     \/ /\ md2_pid' = NoPid
        /\ current_mode' = "NONE"
        /\ UNCHANGED <<procVars, md2Vars>>
  /\ pc' = "term"
  /\ UNCHANGED <<wait_pid, sigVars>>

-----------------------------------------------------------------------------
(***************************************************************************)
(* signal_process(), first part: SIGTERM and mode_start(MD0).              *)
(***************************************************************************)

NoSigterm ==
  /\ pc = "term"
  /\ "TERM" \notin recorded
  /\ pc' = "chld"
  /\ UNCHANGED <<modeVars, wait_pid, sigVars, procVars, md2Vars>>

\* mode_start(MD0) refuses: the machine is not in MD2.
RefuseShutdown ==
  /\ pc = "term"
  /\ "TERM" \in recorded
  /\ ~Accepts("MD0")
  /\ recorded' = recorded \ {"TERM"}
  /\ pc' = "chld"
  /\ UNCHANGED <<modeVars, wait_pid, mask, pending, procVars, md2Vars>>

\* kill(md2_pid, SIGTERM); a zombie takes no signal.
SignalMd2 ==
  md2_sig' = IF md2_pid \in zombie THEN md2_sig ELSE md2_sig \cup {"TERM"}

\* Mutant: MD0 is entered without waiting for MD2 to leave.
BeginShutdownNoWait ==
  /\ pc = "term"
  /\ "TERM" \in recorded
  /\ Accepts("MD0")
  /\ recorded' = recorded \ {"TERM"}
  /\ SignalMd2
  /\ current_mode' = "MD0"
  /\ md2_pid' = NoPid
  /\ pc' = "spawn_md0"
  /\ UNCHANGED <<md2_shutdown_requested, wait_pid, mask, pending, procVars,
                 md2_mask>>

\* mode_start(MD0) accepts, and mode_stop_md2() up to its process_wait().
\* A md2_pid that is not positive skips the wait.
BeginShutdown ==
  /\ pc = "term"
  /\ "TERM" \in recorded
  /\ Accepts("MD0")
  /\ recorded' = recorded \ {"TERM"}
  /\ IF md2_pid = NoPid
     THEN /\ current_mode' = "MD0"
          /\ pc' = "spawn_md0"
          /\ UNCHANGED <<md2_shutdown_requested, wait_pid, md2_sig>>
     ELSE /\ md2_shutdown_requested' = TRUE
          /\ SignalMd2
          /\ wait_pid' = md2_pid
          /\ pc' = "wait_md2"
          /\ UNCHANGED current_mode
  /\ UNCHANGED <<md2_pid, mask, pending, procVars, md2_mask>>

\* mode_stop_md2() collects MD2.  Whatever its status, shutdown continues.
WaitMd2 ==
  /\ pc = "wait_md2"
  /\ WaitReturns
  /\ Reap(wait_pid)
  /\ md2_pid' = NoPid
  /\ md2_shutdown_requested' = FALSE
  /\ current_mode' = "MD0"
  /\ pc' = "spawn_md0"
  /\ UNCHANGED <<wait_pid, sigVars, md2Vars>>

\* mode_exec(MD0_PATH), up to the wait.
SpawnMd0 ==
  /\ pc = "spawn_md0"
  /\ \/ /\ \E p \in Pids : Spawn(p, "md0") /\ wait_pid' = p
        /\ pc' = "wait_md0"
     \/ /\ pc' = "chld"
        /\ UNCHANGED <<wait_pid, procVars>>
  /\ UNCHANGED <<modeVars, sigVars, md2Vars>>

\* mode_exec(MD0_PATH) returns: the machine is still on.
WaitMd0 ==
  /\ pc = "wait_md0"
  /\ WaitReturns
  /\ Reap(wait_pid)
  /\ pc' = "chld"
  /\ UNCHANGED <<modeVars, wait_pid, sigVars, md2Vars>>

-----------------------------------------------------------------------------
(***************************************************************************)
(* signal_process(), second part: SIGINT, SIGCHLD and the reap loop, and   *)
(* sigsuspend() in main().                                                 *)
(***************************************************************************)

\* SIGINT is consumed without effect; SIGCHLD opens the reap loop.
CheckSigchld ==
  /\ pc = "chld"
  /\ recorded' = recorded \ {"INT", "CHLD"}
  /\ pc' = IF "CHLD" \in recorded THEN "reap" ELSE "suspend"
  /\ UNCHANGED <<modeVars, wait_pid, mask, pending, procVars, md2Vars>>

\* Mutant: the exit of MD2 is not noticed.
ModeChildExitIgnored(p) == UNCHANGED modeVars

\* mode_child_exit(p): only MD2 is tracked.
ModeChildExit(p) ==
  IF p = md2_pid
  THEN /\ md2_pid' = NoPid
       /\ md2_shutdown_requested' = FALSE
       /\ current_mode' = IF ~md2_shutdown_requested /\ current_mode = "MD2"
                          THEN "NONE" ELSE current_mode
  ELSE UNCHANGED modeVars

\* Mutant: one child is collected for each SIGCHLD.
ReapChildOnce(p) ==
  /\ pc = "reap"
  /\ p \in zombie
  /\ Reap(p)
  /\ ModeChildExit(p)
  /\ pc' = "suspend"
  /\ UNCHANGED <<wait_pid, sigVars, md2Vars>>

\* process_reap() finds a child.  load_child_exit() finds nothing in the
\* table of PID 1, which no code of the hinit program ever fills.
ReapChild(p) ==
  /\ pc = "reap"
  /\ p \in zombie
  /\ Reap(p)
  /\ ModeChildExit(p)
  /\ UNCHANGED <<pc, wait_pid, sigVars, md2Vars>>

ReapDone ==
  /\ pc = "reap"
  /\ zombie = {}
  /\ pc' = "suspend"
  /\ UNCHANGED <<modeVars, wait_pid, sigVars, procVars, md2Vars>>

\* sigsuspend() swaps in the empty mask, lets every pending signal run its
\* handler, and restores the blocked mask when it returns.
Sigsuspend ==
  /\ pc = "suspend"
  /\ pending # {}
  /\ recorded' = recorded \cup pending
  /\ pending' = {}
  /\ pc' = "term"
  /\ UNCHANGED <<modeVars, wait_pid, mask, procVars, md2Vars>>

-----------------------------------------------------------------------------
(***************************************************************************)
(* The rest of the machine.                                                *)
(***************************************************************************)

\* SIGTERM or SIGINT is sent to PID 1.  Before signal_setup() the kernel
\* drops it: init has no handler for it yet.
SendSignal(s) ==
  /\ ~Halted /\ pc # "start"
  /\ Raise(s)
  /\ UNCHANGED <<pc, modeVars, wait_pid, procVars, md2Vars>>

\* A child ends, well or badly: a mode program returns or is killed, MD2's
\* check fails or it obeys SIGTERM, an orphan is done.
ChildExit(p, bad) ==
  /\ ~Halted
  /\ prog[p] # "none" /\ p \notin zombie
  /\ zombie' = zombie \cup {p}
  /\ failed' = IF bad THEN failed \cup {p} ELSE failed
  /\ Raise("CHLD")
  /\ UNCHANGED <<pc, modeVars, wait_pid, prog, md2Vars>>

\* A process whose parent died becomes a child of PID 1, possibly as a
\* zombie.  There are such processes once MD1 has run.
Adopt(p, dead) ==
  /\ ~Halted /\ pc \notin {"start", "setup", "spawn_md1"}
  /\ prog[p] = "none"
  /\ prog' = [prog EXCEPT ![p] = "orphan"]
  /\ IF dead
     THEN zombie' = zombie \cup {p} /\ Raise("CHLD")
     ELSE UNCHANGED <<zombie, sigVars>>
  /\ UNCHANGED <<pc, modeVars, wait_pid, failed, md2Vars>>

\* reboot(RB_POWER_OFF) in MD0 succeeds and does not return.
PowerOff ==
  /\ pc = "wait_md0"
  /\ wait_pid \notin zombie
  /\ pc' = "off"
  /\ UNCHANGED <<modeVars, wait_pid, sigVars, procVars, md2Vars>>

Stopped == Halted /\ UNCHANGED vars

-----------------------------------------------------------------------------

HInitStep ==
  \/ LogInit \/ BlockSignals
  \/ SpawnMd1 \/ WaitMd1 \/ SpawnMd2
  \/ NoSigterm \/ RefuseShutdown \/ BeginShutdown
  \/ WaitMd2 \/ SpawnMd0 \/ WaitMd0
  \/ CheckSigchld \/ (\E p \in Pids : ReapChild(p)) \/ ReapDone
  \/ Sigsuspend

Environment ==
  \/ \E s \in {"TERM", "INT"} : SendSignal(s)
  \/ \E p \in Pids, b \in BOOLEAN : ChildExit(p, b) \/ Adopt(p, b)
  \/ PowerOff
  \/ Stopped

Next == HInitStep \/ Environment

Spec == Init /\ [][Next]_vars

\* MD2 leaves its loop when SIGTERM reaches its handler.
Md2Obeys(p) ==
  /\ prog[p] = "md2"
  /\ "TERM" \in md2_sig \ md2_mask
  /\ ChildExit(p, FALSE)

\* The kernel schedules PID 1, hands out each zombie in turn and delivers
\* MD2's unblocked signals.  No mode program has to end by itself.
Fairness ==
  /\ WF_vars(HInitStep)
  /\ \A p \in Pids : WF_vars(ReapChild(p)) /\ WF_vars(Md2Obeys(p))

FairSpec == Spec /\ Fairness

-----------------------------------------------------------------------------
(***************************************************************************)
(* Properties.                                                             *)
(***************************************************************************)

\* No wakeup is lost: when PID 1 goes to sleep in sigsuspend() with a child
\* still uncollected, SIGCHLD is pending and wakes it, although several
\* exits share one SIGCHLD and process_wait() takes children out of turn.
NoLostChild == pc = "suspend" /\ zombie # {} => "CHLD" \in pending

\* The pid that mode.c signals and waits for still belongs to the program
\* it started: md2_pid while MD2 is published, the local pid of mode_exec()
\* and mode_stop_md2() while they wait.  No recycled pid is ever used.
PidsAreOwn ==
  /\ current_mode = "MD2" => md2_pid \in Pids /\ prog[md2_pid] = "md2"
  /\ pc = "wait_md1" => wait_pid \in Pids /\ prog[wait_pid] = "md1"
  /\ pc = "wait_md2" => wait_pid \in Pids /\ prog[wait_pid] = "md2"
  /\ pc = "wait_md0" => wait_pid \in Pids /\ prog[wait_pid] = "md0"

\* Two mode programs never exist together: in particular MD2 has left and
\* has been collected before MD0 is started.
OneModeProgram ==
  \A p, q \in Pids :
    prog[p] \in ModePrograms /\ prog[q] \in ModePrograms => p = q

\* HInit implements the mode lifecycle: the phase is read off current_mode,
\* off the step mode_start() has reached, and off the uncollected programs.
Phase ==
  CASE pc \in {"start", "setup", "exited"} -> "fresh"
    [] pc = "spawn_md2" -> "started"
    [] pc = "spawn_md0" -> "stopping"
    [] OTHER -> CASE current_mode = "MD1" -> "startup"
                  [] current_mode = "MD2" -> "operating"
                  [] current_mode = "MD0" -> "shutdown"
                  [] OTHER -> "failed"

RunningPrograms == {m \in ModePrograms : \E p \in Pids : prog[p] = m}

Life == INSTANCE ModeLifecycle WITH phase <- Phase, programs <- RunningPrograms

\* Refinement: every step of PID 1 and of the machine around it is a step
\* of the abstract lifecycle or leaves it unchanged.
ImplementsLifecycle == Life!LifeSpec

WaitingForMode == pc \in {"wait_md1", "wait_md2", "wait_md0"}

\* Every zombie of PID 1 is eventually collected, by process_wait() or by the
\* reap loop, although a SIGCHLD stands for any number of exits.  PID 1 can
\* only stop collecting inside process_wait(), for a mode program that never
\* ends, and once the machine is off.
ZombiesCollected ==
  \A p \in Pids :
    p \in zombie ~> (p \notin zombie \/ Halted \/ []WaitingForMode)

\* signal.c: "SIGTERM requests normal system shutdown", "mode_start(MD0)
\* owns the complete transition: MD2 -> stop MD2 -> MD0".  A SIGTERM taken
\* up in MD2 leads to MD0.
ShutdownReachesMd0 == pc = "wait_md2" ~> current_mode = "MD0"

\* signal.c: "SIGTERM requests normal system shutdown".  A SIGTERM that is
\* taken up outside MD0 starts the shutdown transition.
SigtermStartsShutdown ==
  [][ "TERM" \in recorded /\ "TERM" \notin recorded' /\ current_mode # "MD0"
        => pc' \in {"wait_md2", "spawn_md0"} ]_vars
=============================================================================
