# HInit: a TLA+ model of Hail2's init system

HInit is PID 1 of Hail2, together with the programs it starts: the mode
programs MD1, MD2 and MD0, one HSV supervisor per service, and the log viewer.
This directory models its control logic in TLA+, checks small instances with
TLC and proves every safety property and three refinements with TLAPS for every
instance.

`PROJECT.json` lists components, runs, mutants, source lines of every
definition, findings, hazards and theorems.

## Inventory

| Part | State it keeps | Operations | Talks to |
|---|---|---|---|
| HInit main loop, signals (`hinit.c`, `signal.c`) | signal mask, three pending flags | `main`, `signal_handler`, `signal_process` | kernel signals; calls modes and loader |
| Machine modes (`mode.c`) | `current_mode`, `md2_pid`, `md2_shutdown_requested` | `mode_start`, `mode_stop_md2`, `mode_child_exit` | forks and waits for MD1, MD2, MD0 |
| Process primitives (`process.c`) | none | spawn, wait, signal, reap | kernel |
| HSV (`hsv.c`) | `shutting_down`, `restart_requested`, pid of the service | supervision loop, `hsv_stop_service`, `hsv_exec_script` | SIGTERM and SIGUSR1 from the loader; service and scripts as children |
| Loader (`load.c`) | `hsv_table`, `hsv_count`; onboot links on disk | start, stop, restart, enable, disable, onboot, `hsv_shutdown_all`, `load_child_exit` | forks and signals HSVs |
| Feed (`feed.c`) | listening socket, one connection | `feed_prepare`, `feed_loop`, `feed_command` | clients; calls modes and loader; linked into no program by the Makefile |
| MD1, MD2, MD0 (`md*.c`) | MD2: `running` | one-shot startup, operating loop, one-shot shutdown | started by HInit; MD1 calls Sysload and `load_onboot`, MD0 calls `hsv_shutdown_all` and Sysdown |
| Sysload, Sysdown | none | ordered preparation steps | mounts, devices, `reboot` |
| Log (`log.c`) | the log file | `log_init`, `log_write` | every program |
| Logger (`logger.c`) | buffer of the newest lines, scroll position | load, scroll, draw, follow | log file, terminal |

All processes are single-threaded.  What is hard is what happens between two
system calls: signals that coalesce or are blocked, children that die in any
order, pids that are recycled, requests that arrive while another one is being
served, waits without a timeout.

What makes each part correct:

* HInit: no child is lost, no recycled pid is used, mode programs never
  overlap, modes only go forward, a shutdown request leads to a shutdown.
* HSV: one instance of the service at a time, requests take effect, HSV ends
  when it is told to.
* Loader: the table is exactly the set of HSV children, one supervisor per
  service, stopping everything stops everything.
* Machine (mode programs, Sysload, Sysdown): a preparation is not undone by a
  later one, a service runs once, MD2 does not operate without its runtime
  directory, startup and shutdown come to an end, shutdown stops the services.
* Logger: the buffer holds the newest lines, the position stays inside it, the
  view follows the end of the log and leaves a reader alone.
* Feed: no connection is leaked or starved, a command that has arrived is
  answered, the loop returns to its caller.

## Modules

| Module | Models | Extends |
|---|---|---|
| `ModeLifecycle` | what the mode controller promises (abstract) | |
| `HInit` | `hinit.c`, `signal.c`, `mode.c`, `process.c` | instantiates `ModeLifecycle` |
| `Supervisor` | what HSV promises (abstract) | |
| `Hsv` | `hsv.c` | instantiates `Supervisor` |
| `ServiceControl` | what the loader promises (abstract) | |
| `Load` | `load.c`, the service commands of `feed.c` | instantiates `ServiceControl` |
| `Machine` | `md1.c`, `md2.c`, `md0.c`, `sysload.c`, `sysdown.c`, with the HSVs MD1 leaves behind | instantiates `ModeLifecycle` for PID 1 |
| `Logger` | `logger.c`, `log_write` of `log.c` | |
| `Feed` | `feed_prepare`, `feed_loop` of `feed.c` and their clients | |
| `MCHInit`, `MCHsv`, `MCLoad`, `MCMachine`, `MCLogger`, `MCFeed` | small instances for TLC | the module they are named after |
| `HInitProofs`, `HsvProofs`, `LoadProofs`, `MachineProofs`, `LoggerProofs`, `FeedProofs` | theorems | the component and `TLAPS` |
| `LoadRefinement` | that `Load` implements `ServiceControl` | `LoadProofs` |

### HInit

`pc` is the place between two system calls.  `mask`, `pending` and `recorded`
are the signal mask of PID 1, the signals the kernel holds back, and the flags
`sigchld_pending`, `sigterm_pending`, `sigint_pending`.  `prog`, `zombie` and
`failed` are the children of PID 1, including orphans that the kernel gives it
(every HSV becomes one when MD1 exits).  `mode_start(MD1)` is
`BlockSignals`, `SpawnMd1`, `WaitMd1`, and it goes on to `SpawnMd2` as in the code.
`mode_start(MD0)` is `RefuseShutdown`, or `BeginShutdown`, `WaitMd2`,
`SpawnMd0`, `WaitMd0`.  `signal_process` is the pair of places `term` and `chld`
plus the loop `ReapChild`, `ReapDone`; `Sigsuspend` delivers everything pending.
The environment sends signals, ends children, hands over orphans and powers off.
`md2_mask` and `md2_sig` are MD2's inherited mask and undelivered signals.

`ModeLifecycle` has only a phase and the set of mode programs in existence.
`Phase` and `RunningPrograms` are the refinement mapping.  The phases "started"
and "stopping" are the moments between collecting one mode program and starting
the next.

### Hsv

One action per system call or test of a flag.  `alive` and `dead` are the
instances of the run script, kept as sets so that a second instance would
show; `pid` is the local variable of `main`.  `why` remembers from which branch
`hsv_stop_service` was called, that is, where it returns to.  `mask` is the
signal mask HSV has inherited.  Sleeps may end at any moment; the grace period
is a number of polls, `StopTicks`.  The error returns of `waitpid` other than
"exited" are left out: they need a pid that is no child, and `SignalsOwnChild`
says that there is none.

`Supervisor` has a stage, the state of the only instance and whether HSV has been
told to stop.  Its steps say that an instance is started only when none is left,
that the decision to start is made before a stop request is recorded or not at all,
so that at most the instance already decided on still starts, and that HSV ends
untold only during its setup.  That last case is real: a SIGUSR1 that comes before
the handler is installed ends HSV.  `Stage` and `ServiceStatus` are the refinement
mapping.

### Load

`hsv_table` is a sequence of records.  A call goes through its system calls
while HSVs die (`HsvExit`) and the administrator adds and removes service
directories (`ChangeDirs`).  `hsv_unregister` is modelled by what `memmove`
does.  `hsv` gives each HSV's state as the loader can affect it: up, stopping
(SIGTERM was sent), zombie.  SIGUSR1 changes nothing here; its effect is in
`Hsv`.  `cmd`, `svc` and `reply` are `feed_command` in progress.  The branch
behind a failing `hsv_register` is not an action: `RegisterSucceeds` shows that
it cannot be reached.  `onboot` is the set of services that have a link; enable
unlinks and links in two steps, and each of unlink, symlink and readlink may
fail.  Load describes one process that makes all the calls; `Machine` has the
loader in MD1 and in MD0, each with a table of its own, as they are built.

`ServiceControl` has no table and no pids: each service's supervisor is free, up,
stopping or zombie, and a call changes the one it names and no other.  The answer
to a start or restart says whether there is a supervisor; that it may be a stopping
or dead one is the finding of `load_start`.  `Status` maps the HSV processes to that.  The table is left out of
the mapping on purpose: what the loader does through the table must come out right
for the processes.

### Machine

The mode programs as processes of one machine.  PID 1 is not modelled again: it
takes the steps of `ModeLifecycle`, which `HInit` is proved to implement, and
`PidOneStep` adds that a program it starts begins at its `main()` with an empty
`hsv_table` and that the exit status of MD1 decides how PID 1 goes on.  At most
one mode program exists (`OneModeProgram`), so one `pc` serves for the three.

`Essential` is the list of paths that `sysload_prepare` makes and mounts, in its
order.  `Prepare` is one of them: `mkdir` makes the directory, a mount hides the
directories and mounts below its mount point, EBUSY changes nothing, and the first failure ends the
preparation while MD1 goes on to `load_onboot` and returns 0, as `md1.c` does.
`Fsck`, `Mounts`, `Swap`, `Swapoff` and `Umount` wait for an external program, whose
result the code ignores.  `mount -a` may cover any of the mount points and hide what
was prepared below, so `PreparedStays` speaks of the time before it; that MD2 notices
a hidden `/run/hinit` is part of `LostRuntimeEndsMd2`.  `Md2Check` looks for `/run/hinit`.  MD2 has inherited
SIGTERM blocked (`HInit`), so `md2_signal` never runs, and MD2 ends when the check
fails or when it is killed.  `HsvShutdownAll` is `hsv_shutdown_all` on the table of
the program that calls it.  `hsv`, `own` and `instances` are the HSVs, those with
a live instance, and the live instances; a killed HSV leaves its instance.
Any program may be killed and `/run/hinit` removed at any point.

### Logger

The lines ever written are numbered, so a line of the buffer is its number and
"newest, in order, without a gap" can be said.  The file holds `first + 1 .. last`;
`LogWrite` appends and `Truncate` empties it, though not in the middle of a load:
what `fgets` then returns depends on stdio's buffer and on offsets.  A load is `Rewind` and one
`ReadLine` per `fgets`, with writers in between; `KeepNewest` is the buffer that
moves up when it is full.  `ReadKey` takes bytes as `logger_read_key` does: after an
escape byte it takes up to three more, whatever they belong to.  Single bytes may
arrive too, so an escape can come alone, as the key or as the first piece of a
sequence; the bytes of a key can still be completed before they are read.  `Draw` clamps the
position and shows the window; `Follows` is the condition of `main`, which compares
the old position with the new number of lines.  `visible` changes at any time.

### Feed

`queue` is the kernel's backlog, `client` the connection that `feed_loop` serves.
`sent` says how much of its command a client has written when `recv` looks.  The
socket does not block: a client that has sent nothing is closed without an answer,
and half a command is executed as it is.  A client that hangs up after writing is
one that stops writing: the socket keeps the data, and `feed_reply` ignores errors.
What a command does is in `Load` and `HInit`; here it has an answer, if it ends.

## Runs

Bounds are chosen so that every branch is taken.

| Run | Instance | Shows |
|---|---|---|
| `hinit` | 3 pids | `NoLostChild`, `PidsAreOwn`, `OneModeProgram`, the refinement `ImplementsLifecycle`, `ZombiesCollected` |
| `hinit_shutdown` | 2 pids | violation: shutdown hangs in the wait for MD2 |
| `hinit_sigterm` | 2 pids | violation: SIGTERM is dropped in mode NONE |
| `hsv` | 2 pids, 3 polls, with and without HInit's mask | `NoInstanceLeft`, `SignalsOwnChild`, the refinement `ImplementsSupervisor`, `TermEndsHsv`, `RestartTakesEffect`, `ExitIsRestarted` |
| `hsv_delay` | HInit's mask | violation: an explicit restart waits the crash delay |
| `load` | 3 services, 3 pids, table of 2, one directory that comes and goes | `RegistryExact`, `OneSupervisor`, `RegisterSucceeds`, `AllHsvStopped`, the refinement `ImplementsServiceControl`, `DeadHsvForgotten`, `ShutdownAllEnds` |
| `load_start` | 2 services, 2 pids | violation: start after stop answers OK and starts nothing |
| `machine` | 2 services | `PreparedStays`, `AtMostOneInstance`, `LostRuntimeEndsMd2`, `ModeProgramEnds` |
| `machine_stopped` | 2 services | violation: MD0 stops no HSV |
| `logger` | buffer of 4, 1 or 2 rows, 5 lines, 5 bytes waiting | `BufferNewest`, `ViewInBounds`, `FollowsSlowLog`, `ReaderUndisturbed`, `QuitObeyed` |
| `logger_follow` | the same | violation: the view is moved although it was not at the end |
| `feed` | 3 clients, backlog of 2 | `ConnectionsKnown`, `EarlyAnswered`, `Served`, `LoopReturns` |

Three pids let a mode program, a dying orphan and a new orphan coexist and let
pids be reused.  A table of two with three services reaches the limit and gives
`hsv_unregister` an entry to move, and the third pid leaves room for the HSV that
`MAX_HSV` must keep out.  Services differ only in their names, so one of them with a
directory that is added and removed (`Removable`) is enough.  Two services give the machine one whose HSV is
killed beside one that goes on; `MaxInstances` = 2 leaves room for the second
instance that must not come.  Five lines overflow a buffer of four, and with one
or two rows there are positions away from both ends.  Five bytes hold the longest
key with a q behind it, or two keys that run into each other; Home stands for g and
End for G, which do the same.  A backlog of two with three clients
lets one wait behind another and one be refused.  The proofs remove the bounds for
the safety properties of every component.  Deadlock is checked in every run; the states in which
a program has ended stutter explicitly.  No run uses symmetry.

### Fairness

* HInit, HSV and the loader's process are scheduled (`WF` of their steps).
* The kernel hands out every zombie (`WF` of `ReapChild`), delivers unblocked
  signals to MD2, which then leaves its loop (`Md2Obeys`), and SIGKILL ends a
  process (`Hsv`).
* The loader's process gets to `signal_process` between calls again and again
  (`SF` of `BeginReap`).
* PID 1 and the mode programs are scheduled (`Machine`); no external program and
  no service has to end.
* The viewer is scheduled (`Logger`); nobody has to type or to write.
* The process comes back to `feed_loop`, and `accept` does not fail for ever while
  connections are waiting (`Feed`).  No command has to end: `hinit_shutdown` shows
  one, setmode to MD0, that does not, and after it nobody is served.

Nothing is assumed about services, scripts, commands, mode programs or HSVs ending
by themselves: where the code waits for one without a timeout, the liveness
property says "or it waits for ever".

### What the violations mean

* **The signal mask is inherited.**  HInit blocks SIGTERM before it forks.
  Neither `process_spawn` nor MD2 nor HSV clears the mask, so MD2 and HSV never
  get their SIGTERM, and `mode_stop_md2` waits for ever (`hinit_shutdown`).
* **SIGTERM without MD2 is dropped.**  After a failed startup or the death of MD2
  no signal shuts the machine down (`hinit_sigterm`).
* **An explicit restart is delayed** because the flag is cleared before the test
  that would skip the delay (`hsv_delay`).
* **Stop, then start** answers OK to both and leaves the service down: the start
  finds the entry of the HSV that has been told to stop (`load_start`).
* **MD0 does not know the HSVs.**  `hsv_table` is static in every program.  MD1 fills
  its copy and exits; MD0 walks through its own, empty one and logs "HSV STOPPED".
  The HSVs and their services run on up to the power-off (`machine_stopped`).
* **Follow mode is off by one.**  A viewer one line above the end, as after one key
  Up, is taken back to the end by the next reload although nothing was written, so
  a single key Up has no effect.  A viewer at the end loses it when two lines or
  more arrive at once (`logger_follow`; `FollowsSlowLog` and `ReaderUndisturbed` state
  what does hold).

## Proofs

`HInitProofs`, for any set of pids, from the single assumption that the value -1
is no pid:

* `TypeCorrect`: `Spec => []TypeOK`.
* `Inductive`: `Spec => []IInv`.  None of the properties is inductive alone.
  `SigchldKept` carries the news of a dead child through the whole loop (pending,
  recorded, or being reaped), `Started` says that the signals stay blocked so that
  nothing is recorded behind the loop's back, `ModeAtPc` ties the mode to the place
  in the code, and `ProgramsKnown` says that a mode program can only be the one
  that PID 1 waits for or tracks.
* `NoLostChildHolds`, `PidsAreOwnHolds`, `OneModeProgramHolds`: the three safety
  properties of the run, from `IInv`.
* `Refinement`: `Spec => ImplementsLifecycle`.  `RunningAtPc` and `PhaseAtPc` say
  what the refinement mapping is at each place; every action is then a step of
  `ModeLifecycle` or leaves it unchanged.

`HsvProofs`, for any pids, any inherited masks and any length of the grace period:

* `Inductive`, with `InstanceIsPid` (the only instance is the one in `pid`, alive
  or dead, and there is one exactly while HSV polls or stops it) and `HookAtPoint`.
* `TypeCorrect`, `NoInstanceLeftHolds`, `SignalsOwnChildHolds`.
* `Refinement`: `Spec => ImplementsSupervisor`.  `InstanceIsPid` turns the sets of
  instances into the one instance of `Supervisor`; every action is then one of its
  steps or leaves stage, instance and `told` alone.

`LoadProofs`, for any services, any pids and any MAX_HSV:

* `IInv` is `TypeOK`, `RegistryExact`, `OneSupervisor`, `CallShape` (a call has the
  service that it is about; `hsv_shutdown_all` only waits for an entry) and
  `ChecksHold` (what was checked before `fork` holds up to `hsv_register`).
  `RegistryExact` and `OneSupervisor` need each other: a forked HSV is the only one of
  its service because the table is exact, and the table is exact after
  `hsv_register` because there is only one HSV that can have been missing.
* `UnregisterProperties` says what the moving down of entries yields,
  `ForgetKeepsRegistry` that collecting a HSV and dropping its entry keeps the table
  exact; the reap loop and `hsv_shutdown_all` both rest on it.  The other steps
  leave the table alone (`QuietSteps`).
* `TypeCorrect`, `TableExact`, `SupervisorUnique`, `RegistrationSucceeds` and
  `ShutdownLeavesNone` follow.

`LoadRefinement`, from the same assumptions:

* `Refinement`: `Spec => ImplementsServiceControl`.  `CallState` says which call is in
  progress at each place; without it an answer could not be told from a leftover.
  `StatusExact` says that `Status` of a service is the state of its one HSV; it
  follows from `RegistryExact` and `OneSupervisor`.  Each action then changes the
  status of the service that `ServiceControl` allows it to change.

`MachineProofs`, for any services:

* `IInv` ties the place in the code to the mode program (`ProgramPhase`, `PcProgram`)
  and says that MD1 runs the preparation from its first path and gets to fsck only
  after the last (`PrepareFromFirst`), and that no service exists before
  `load_onboot` (`NothingBeforeLoad`).
  `AtMostOneInstance` alone is not inductive: a HSV that restarts its service is
  safe only because it owns the one instance (`HsvOwnsInstance`), and a new HSV is
  safe only because an entry still to be read has neither HSV nor instance.
* `MountHidesNothingDone` is the fact about the order of `sysload_prepare`: no path
  of the list is below the mount point of a later one.  `PreparedStays` rests on it.
* `TypeCorrect`, `PreparationStays`, `OneInstance`.

`LoggerProofs`, for any LOGGER_MAX_LINES, any terminal and any amount of lines and
keys:

* `IInv` is `TypeOK`, `BufferNewest`, `ViewInBounds` and `ReadInFile` (during a load
  the lines read are in the file).  `KeepNewestProperties` and `DrawProperties` are
  the lemmas on the buffer and on the window.
* `TypeCorrect`, `NewestKept`, `ViewStaysInBounds`, `SlowLogFollowed`.
* `ReaderIsUndisturbed` needs more.  What is on the screen was drawn from a buffer
  that the reload has thrown away.  `ReaderInv` keeps the tie: `ScreenTop` (the first
  line on the screen is the one at `top_line`), `BufferOfFile` (the buffer is the file
  up to some line unless the file has outgrown it or was emptied) and
  `ScreenOfFile`, the same for the old screen while the new buffer is read.

`FeedProofs`, for any clients and any FEED_BACKLOG:

* `IInv` is `TypeOK`, `ConnectionsKnown`, `EarlyAnswered`, `ClientAtPc` (there is a
  connection exactly between `accept` and `close`) and `EarlyStays` (what had arrived
  at `accept` is still there for `recv`; without it nothing says that `recv` finds it).
* `TypeCorrect`, `ConnectionsAreKnown`, `EarlyIsAnswered`.

Only model-checked are the liveness properties, because fairness is out of the
prover's reach: `ZombiesCollected`, `TermEndsHsv`, `RestartTakesEffect`,
`ExitIsRestarted`, `DeadHsvForgotten`, `ShutdownAllEnds`, `LostRuntimeEndsMd2`,
`ModeProgramEnds`, `QuitObeyed`, `Served` and `LoopReturns`.

## Plan

1. Done: `ModeLifecycle`, `HInit`, `Supervisor`, `Hsv`, `ServiceControl`, `Load`,
   `Machine`, `Logger`, `Feed`; all their invariants, safety action properties and
   refinements are proved.
2. Next: `Machine` takes the loader and the HSVs at the level of sets; a proof that
   its HSV and loader steps are steps of `Supervisor` and `ServiceControl`, as its
   PID 1 steps are of `ModeLifecycle`, would close the composition.

## Not modelled

* The Makefile.  It was read for the process boundaries: which objects, and so
  which static variables, each program has.
* What fsck, swapon, swapoff and umount do to the disk, and what `mount -a` does other
  than cover a mount point: the code looks neither at it nor at their exit status.
* The text of log lines, messages and commands, and the lengths of paths; a command
  cut off by `recv` is any command to `Feed`.
* A log file that is emptied while it is being read.
* The terminal: the layout of the screen, and the raw mode that a killed viewer
  leaves behind.
* Time: sleeps have no length.  Paths: a service is its name, and an onboot link
  points to the service of its own name, as `load_enable_service` makes it.
* Two flaws seen while reading have no run of their own: a failing symlink in
  `load_enable_service` leaves a service disabled that was enabled before, and a HSV
  that inherits HInit's mask never gets its SIGTERM (the cause of `hinit_shutdown`,
  which shows it for MD2).
