-------------------------------- MODULE Load -------------------------------
(***************************************************************************)
(* The service loader (load.c): the table of HSV processes and the calls   *)
(* that start, stop, restart, enable and disable a service, start the      *)
(* onboot services and stop everything, as one process executes them, with *)
(* feed_command() (feed.c) as the caller that answers OK or ERR.           *)
(*                                                                         *)
(* The process is sequential: a call runs to its end, and signal_process() *)
(* collects children between two calls.  HSV processes die and the         *)
(* administrator changes the service directory at any time.                *)
(***************************************************************************)
EXTENDS Naturals, Sequences

CONSTANTS
  Services,
  NoService,
  Removable,  \* bound: services whose directory is added and removed
  Pids,       \* pids the kernel can give to a HSV
  MaxHsv      \* MAX_HSV

ASSUME LoadAssumption ==
  /\ NoService \notin Services
  /\ Removable \subseteq Services
  /\ MaxHsv \in Nat

VARIABLES
  pc,
  hsv_table,  \* the first hsv_count entries: [pid, service]
  cmd,        \* the command feed_command() is executing
  svc,        \* the service a call in progress is about
  reply,      \* feed_reply()
  todo,       \* directory entries load_directory() has not read
  hsv,        \* the HSV children of this process
  serves,     \* the argument each HSV was started with
  sigchld,    \* sigchld_pending
  dirs,       \* services with a directory in SERVICE_DIR
  onboot      \* services with a link in ONBOOT_DIR

callVars == <<cmd, svc, reply, todo>>
procVars == <<hsv, serves, sigchld>>
fileVars == <<dirs, onboot>>
vars     == <<pc, hsv_table, callVars, procVars, fileVars>>

Locations == {"idle", "fork", "register", "scan", "scan_fork", "scan_register",
              "symlink", "reply", "shutdown", "wait", "reap"}

Commands == {"start", "stop", "restart", "enable", "disable"}

Entries == [pid : Pids, service : Services]

TypeOK ==
  /\ pc \in Locations
  /\ hsv_table \in Seq(Entries)
  /\ Len(hsv_table) <= MaxHsv
  /\ cmd \in Commands \cup {"none"}
  /\ svc \in Services \cup {NoService}
  /\ reply \in {"none", "OK", "ERR"}
  /\ todo \in SUBSET Services
  /\ hsv \in [Pids -> {"free", "up", "stopping", "zombie"}]
  /\ serves \in [Pids -> Services \cup {NoService}]
  /\ sigchld \in BOOLEAN
  /\ dirs \in SUBSET Services
  /\ onboot \in SUBSET Services

Init ==
  /\ pc = "idle"
  /\ hsv_table = <<>>
  /\ cmd = "none"
  /\ svc = NoService
  /\ reply = "none"
  /\ todo = {}
  /\ hsv = [p \in Pids |-> "free"]
  /\ serves = [p \in Pids |-> NoService]
  /\ sigchld = FALSE
  /\ \E away \in SUBSET Removable : dirs = Services \ away
  /\ onboot \in SUBSET Services

-----------------------------------------------------------------------------
(***************************************************************************)
(* The table.                                                              *)
(***************************************************************************)

Indices == 1..Len(hsv_table)

\* hsv_find(s) >= 0
Found(s) == \E i \in Indices : hsv_table[i].service = s

\* Mutant: the index that hsv_find() returned is not used.
PidOfFirst(s) == hsv_table[1].pid

\* hsv_table[hsv_find(s)].pid
PidOf(s) == hsv_table[CHOOSE i \in Indices : hsv_table[i].service = s].pid

\* Mutant: the last entry is dropped and nothing is moved down.
UnregisterLast(i) == SubSeq(hsv_table, 1, Len(hsv_table) - 1)

\* hsv_unregister(i): the entries behind i move down by one.
Unregister(i) ==
  [j \in 1..(Len(hsv_table) - 1) |->
     IF j < i THEN hsv_table[j] ELSE hsv_table[j + 1]]

\* The table after load_child_exit(p).
ChildExit(p) ==
  LET owned == {i \in Indices : hsv_table[i].pid = p}
  IN  IF owned = {} THEN hsv_table
      ELSE Unregister(CHOOSE i \in owned : \A j \in owned : i <= j)

-----------------------------------------------------------------------------
(***************************************************************************)
(* feed_command().                                                         *)
(***************************************************************************)

\* feed_command() gets command c about service s and calls the loader.
Command(c, s) ==
  /\ pc = "idle"
  /\ cmd' = c
  /\ svc' = s

Return(r) ==
  /\ pc' = "reply"
  /\ reply' = r

Reply ==
  /\ pc = "reply"
  /\ pc' = "idle"
  /\ cmd' = "none"
  /\ svc' = NoService
  /\ reply' = "none"
  /\ UNCHANGED <<hsv_table, todo, procVars, fileVars>>

-----------------------------------------------------------------------------
(***************************************************************************)
(* load_start_service(), called alone or by load_directory().              *)
(***************************************************************************)

\* Mutant: the table is not looked at.
CannotStartNoLimit(s) == s \notin dirs

\* No such directory, or the table is full: the call returns -1.
CannotStart(s) == s \notin dirs \/ (~Found(s) /\ Len(hsv_table) >= MaxHsv)

\* The checks.  When they pass, SIGCHLD is blocked and fork() comes next.
StartService(s) ==
  /\ Command("start", s)
  /\ CASE CannotStart(s)               -> Return("ERR")
       [] ~CannotStart(s) /\ Found(s)  -> Return("OK")
       [] ~CannotStart(s) /\ ~Found(s) -> pc' = "fork" /\ UNCHANGED reply
  /\ UNCHANGED <<hsv_table, todo, procVars, fileVars>>

\* load_start_service() returns to feed_command() or to load_directory().
StartReturns(r) ==
  IF pc \in {"fork", "register"}
  THEN Return(r) /\ UNCHANGED svc
  ELSE pc' = "scan" /\ svc' = NoService /\ UNCHANGED reply

\* fork() and, in the child, execl() of HSV.  sigprocmask() or fork() fails.
Fork ==
  /\ pc \in {"fork", "scan_fork"}
  /\ \/ \E p \in Pids :
          /\ hsv[p] = "free"
          /\ hsv' = [hsv EXCEPT ![p] = "up"]
          /\ serves' = [serves EXCEPT ![p] = svc]
          /\ pc' = IF pc = "fork" THEN "register" ELSE "scan_register"
          /\ UNCHANGED <<svc, reply>>
     \/ StartReturns("ERR") /\ UNCHANGED <<hsv, serves>>
  /\ UNCHANGED <<hsv_table, cmd, todo, sigchld, fileVars>>

\* The HSV that was forked and is not in the table.
Unregistered(p) ==
  /\ hsv[p] # "free" /\ serves[p] = svc
  /\ \A i \in Indices : hsv_table[i].pid # p

\* The table after hsv_register(p, svc).  That hsv_register() cannot refuse is
\* the invariant RegisterSucceeds.
Registered(p) == Append(hsv_table, [pid |-> p, service |-> svc])

\* hsv_register() and the end of load_start_service().
Register ==
  /\ pc \in {"register", "scan_register"}
  /\ \E p \in Pids :
       /\ Unregistered(p)
       /\ hsv_table' = Registered(p)
  /\ StartReturns("OK")
  /\ UNCHANGED <<cmd, todo, procVars, fileVars>>

-----------------------------------------------------------------------------
(***************************************************************************)
(* load_onboot(): load_directory() over ONBOOT_DIR.                        *)
(***************************************************************************)

\* Mutant: the entries "." and ".." are taken for services.
LoadOnbootDots ==
  /\ pc = "idle"
  /\ pc' = "scan"
  /\ todo' \in {{}, onboot \cup {NoService}}
  /\ UNCHANGED <<hsv_table, cmd, svc, reply, procVars, fileVars>>

\* opendir() fails, or the entries are read one after the other.
LoadOnboot ==
  /\ pc = "idle"
  /\ pc' = "scan"
  /\ todo' \in {{}, onboot}
  /\ UNCHANGED <<hsv_table, cmd, svc, reply, procVars, fileVars>>

\* Mutant: load_directory() does not look for a running HSV.
ScanEntryTwice(s) ==
  /\ pc = "scan"
  /\ s \in todo
  /\ todo' = todo \ {s}
  /\ \/ /\ s \in onboot /\ s \in dirs /\ Len(hsv_table) < MaxHsv
        /\ pc' = "scan_fork" /\ svc' = s
     \/ UNCHANGED <<pc, svc>>
  /\ UNCHANGED <<hsv_table, cmd, reply, procVars, fileVars>>

\* One entry.  It is skipped when it has gone, is no link or cannot be read,
\* when its target is no directory, when the service runs and when the table
\* is full.
ScanEntry(s) ==
  /\ pc = "scan"
  /\ s \in todo
  /\ todo' = todo \ {s}
  /\ \/ /\ s \in onboot /\ ~CannotStart(s) /\ ~Found(s)
        /\ pc' = "scan_fork" /\ svc' = s
     \/ UNCHANGED <<pc, svc>>
  /\ UNCHANGED <<hsv_table, cmd, reply, procVars, fileVars>>

ScanDone ==
  /\ pc = "scan"
  /\ todo = {}
  /\ pc' = "idle"
  /\ UNCHANGED <<hsv_table, callVars, procVars, fileVars>>

-----------------------------------------------------------------------------
(***************************************************************************)
(* load_stop_service() and load_restart_service().                         *)
(***************************************************************************)

\* kill(p, SIGTERM); a zombie takes the signal without effect.
Terminate(p) ==
  hsv' = [hsv EXCEPT ![p] = IF @ = "up" THEN "stopping" ELSE @]

\* A service that is not in the table counts as stopped.  A kill() of one's own
\* uncollected child does not fail (RegistryExact), so -1 is not returned.
StopService(s) ==
  /\ Command("stop", s)
  /\ IF Found(s) THEN Terminate(PidOf(s)) ELSE UNCHANGED hsv
  /\ Return("OK")
  /\ UNCHANGED <<hsv_table, todo, serves, sigchld, fileVars>>

\* SIGUSR1 is a matter between HSV and its service; see Hsv.
RestartService(s) ==
  /\ Command("restart", s)
  /\ Return(IF Found(s) THEN "OK" ELSE "ERR")
  /\ UNCHANGED <<hsv_table, todo, procVars, fileVars>>

-----------------------------------------------------------------------------
(***************************************************************************)
(* load_enable_service() and load_disable_service().                       *)
(***************************************************************************)

\* load_enable_service() up to symlink(): the service has no directory, the
\* old link cannot be removed, or there is none any more.
EnableService(s) ==
  /\ Command("enable", s)
  /\ \/ Return("ERR") /\ UNCHANGED onboot
     \/ /\ s \in dirs
        /\ onboot' = onboot \ {s}
        /\ pc' = "symlink"
        /\ UNCHANGED reply
  /\ UNCHANGED <<hsv_table, todo, procVars, dirs>>

\* symlink() succeeds or fails.
Symlink ==
  /\ pc = "symlink"
  /\ \/ onboot' = onboot \cup {svc} /\ Return("OK")
     \/ UNCHANGED onboot /\ Return("ERR")
  /\ UNCHANGED <<hsv_table, cmd, svc, todo, procVars, dirs>>

\* unlink() removes the link, finds none, or fails.
DisableService(s) ==
  /\ Command("disable", s)
  /\ \/ onboot' = onboot \ {s} /\ Return("OK")
     \/ UNCHANGED onboot /\ Return("ERR")
  /\ UNCHANGED <<hsv_table, todo, procVars, dirs>>

-----------------------------------------------------------------------------
(***************************************************************************)
(* hsv_shutdown_all().                                                     *)
(***************************************************************************)

BeginShutdownAll ==
  /\ pc = "idle"
  /\ pc' = "shutdown"
  /\ UNCHANGED <<hsv_table, callVars, procVars, fileVars>>

LastPid == hsv_table[Len(hsv_table)].pid

\* SIGTERM to the HSV of the last entry.
ShutdownKill ==
  /\ pc = "shutdown"
  /\ hsv_table # <<>>
  /\ Terminate(LastPid)
  /\ pc' = "wait"
  /\ UNCHANGED <<hsv_table, callVars, serves, sigchld, fileVars>>

Reap(p) ==
  /\ hsv' = [hsv EXCEPT ![p] = "free"]
  /\ serves' = [serves EXCEPT ![p] = NoService]

\* Mutant: the entry is dropped without waiting for its HSV.
ShutdownNoWait ==
  /\ pc = "wait"
  /\ hsv_table' = Unregister(Len(hsv_table))
  /\ pc' = "shutdown"
  /\ UNCHANGED <<callVars, procVars, fileVars>>

\* Mutant: the entry stays in the table.
ShutdownWaitKeeps ==
  /\ pc = "wait"
  /\ hsv[LastPid] \in {"zombie", "free"}
  /\ Reap(LastPid)
  /\ pc' = "shutdown"
  /\ UNCHANGED <<hsv_table, callVars, sigchld, fileVars>>

\* process_wait() returns, with the HSV collected or with an error because
\* it is no child; the last entry goes.
ShutdownWait ==
  /\ pc = "wait"
  /\ hsv[LastPid] \in {"zombie", "free"}
  /\ Reap(LastPid)
  /\ hsv_table' = Unregister(Len(hsv_table))
  /\ pc' = "shutdown"
  /\ UNCHANGED <<callVars, sigchld, fileVars>>

ShutdownDone ==
  /\ pc = "shutdown"
  /\ hsv_table = <<>>
  /\ pc' = "idle"
  /\ UNCHANGED <<hsv_table, callVars, procVars, fileVars>>

-----------------------------------------------------------------------------
(***************************************************************************)
(* The reap loop of signal_process().                                      *)
(***************************************************************************)

BeginReap ==
  /\ pc = "idle"
  /\ sigchld
  /\ sigchld' = FALSE
  /\ pc' = "reap"
  /\ UNCHANGED <<hsv_table, callVars, hsv, serves, fileVars>>

\* Mutant: one child is collected for each SIGCHLD.
ReapChildOnce(p) ==
  /\ pc = "reap"
  /\ hsv[p] = "zombie"
  /\ Reap(p)
  /\ hsv_table' = ChildExit(p)
  /\ pc' = "idle"
  /\ UNCHANGED <<callVars, sigchld, fileVars>>

ReapChild(p) ==
  /\ pc = "reap"
  /\ hsv[p] = "zombie"
  /\ Reap(p)
  /\ hsv_table' = ChildExit(p)
  /\ UNCHANGED <<pc, callVars, sigchld, fileVars>>

ReapDone ==
  /\ pc = "reap"
  /\ \A p \in Pids : hsv[p] # "zombie"
  /\ pc' = "idle"
  /\ UNCHANGED <<hsv_table, callVars, procVars, fileVars>>

-----------------------------------------------------------------------------
(***************************************************************************)
(* The rest of the machine.                                                *)
(***************************************************************************)

\* A HSV ends: it obeyed SIGTERM, its exec failed, or it was killed.
HsvExit(p) ==
  /\ hsv[p] \in {"up", "stopping"}
  /\ hsv' = [hsv EXCEPT ![p] = "zombie"]
  /\ sigchld' = TRUE
  /\ UNCHANGED <<pc, hsv_table, callVars, serves, fileVars>>

\* The administrator adds or removes a service directory.
ChangeDirs(s) ==
  /\ dirs' \in {dirs \cup {s}, dirs \ {s}}
  /\ UNCHANGED <<pc, hsv_table, callVars, procVars, onboot>>

-----------------------------------------------------------------------------

Call ==
  \/ LoadOnboot \/ BeginShutdownAll
  \/ \E s \in Services :
       \/ StartService(s) \/ StopService(s) \/ RestartService(s)
       \/ EnableService(s) \/ DisableService(s)

\* The steps of a call or of the reap loop that has begun.
Continue ==
  \/ Fork \/ Register \/ (\E s \in Services : ScanEntry(s)) \/ ScanDone
  \/ Symlink \/ Reply \/ ShutdownKill \/ ShutdownWait \/ ShutdownDone
  \/ (\E p \in Pids : ReapChild(p)) \/ ReapDone

Environment ==
  \/ \E p \in Pids : HsvExit(p)
  \/ \E s \in Removable : ChangeDirs(s)

Next == Call \/ Continue \/ BeginReap \/ Environment

Spec == Init /\ [][Next]_vars

\* The kernel schedules the process, and its loop reaches signal_process()
\* again and again between two calls.  No HSV has to obey SIGTERM.
Fairness ==
  /\ WF_vars(Continue)
  /\ \A p \in Pids : WF_vars(ReapChild(p))
  /\ SF_vars(BeginReap)

FairSpec == Spec /\ Fairness

-----------------------------------------------------------------------------
(***************************************************************************)
(* Properties.                                                             *)
(***************************************************************************)

Registering == pc \in {"register", "scan_register"}

\* The table is exactly the set of HSV children that have not been collected,
\* each with the service it was started for and each once; the only child
\* outside it is the one between fork() and hsv_register().  So every kill()
\* of load.c hits the HSV of the service it is meant for, and no HSV escapes.
RegistryExact ==
  /\ \A i \in Indices :
       /\ hsv[hsv_table[i].pid] # "free"
       /\ serves[hsv_table[i].pid] = hsv_table[i].service
  /\ \A i, j \in Indices : hsv_table[i].pid = hsv_table[j].pid => i = j
  /\ \A p \in Pids :
       hsv[p] # "free" /\ ~(Registering /\ serves[p] = svc)
         => \E i \in Indices : hsv_table[i].pid = p

\* A service never has two supervisors, whatever is started, stopped and
\* loaded while HSV processes die.
OneSupervisor ==
  \A p, q \in Pids :
    hsv[p] # "free" /\ hsv[q] # "free" /\ serves[p] = serves[q] => p = q

\* The checks made before fork() still hold at hsv_register(): the branch
\* that kills and waits for an HSV that could not be registered, with SIGCHLD
\* blocked, is never taken.
RegisterSucceeds ==
  Registering => ~Found(svc) /\ Len(hsv_table) < MaxHsv

\* load.c: "ALL HSV STOPPED".  When hsv_shutdown_all() returns, no HSV is
\* left, neither executing nor uncollected.
AllHsvStopped ==
  [][pc = "shutdown" /\ pc' = "idle" => \A p \in Pids : hsv'[p] = "free"]_vars

\* A dead HSV is eventually collected and leaves the table, so its service can
\* be started again, although one SIGCHLD stands for any number of exits.  Only
\* a HSV that ignores SIGTERM can stop this, by holding up hsv_shutdown_all().
DeadHsvForgotten ==
  \A p \in Pids :
    hsv[p] = "zombie" ~> (hsv[p] = "free" \/ [](pc = "wait"))

\* hsv_shutdown_all() gets through the table, unless some HSV never ends.
ShutdownAllEnds == pc = "shutdown" ~> (pc = "idle" \/ [](pc = "wait"))

ServedBy(s) == {p \in Pids : hsv[p] # "free" /\ serves[p] = s}

Status ==
  [s \in Services |->
     IF ServedBy(s) = {} THEN "free" ELSE hsv[CHOOSE p \in ServedBy(s) : TRUE]]

Control == INSTANCE ServiceControl WITH status <- Status

\* The loader keeps the promise of ServiceControl, whatever HSV processes do
\* meanwhile: the entry that hsv_find() returns, the pid that is signalled and
\* the entry that is dropped belong to the service that is meant, an answer says
\* whether the service has a HSV, and nothing is collected between the checks
\* of a call and its end.
ImplementsServiceControl == Control!ControlSpec

\* load.c, where load_start_service() returns 0 without starting anything:
\* "Already running."  The HSV found in the table has not been told to stop.
StartFindsRunning ==
  [][pc = "idle" /\ cmd' = "start" /\ reply' = "OK"
       => hsv[PidOf(svc')] # "stopping"]_vars
=============================================================================
