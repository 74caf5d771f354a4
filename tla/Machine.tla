------------------------------ MODULE Machine ------------------------------
(***************************************************************************)
(* The machine as a whole: the mode programs MD1 (md1.c, sysload.c), MD2   *)
(* (md2.c) and MD0 (md0.c, sysdown.c), each a process with a hsv_table of  *)
(* its own, the HSVs that MD1 leaves behind, and their services.           *)
(*                                                                         *)
(* PID 1 enters by what it promises: it takes the steps of ModeLifecycle,  *)
(* which HInit implements.  At most one mode program exists, so one pc     *)
(* serves for the three.  MD2 inherits SIGTERM blocked (see HInit), so     *)
(* md2_signal() never runs and MD2 ends only by failing or being killed.   *)
(***************************************************************************)
EXTENDS Naturals, Sequences

CONSTANT Services   \* services with a link in the onboot directory

VARIABLES
  phase, programs,  \* PID 1: the variables of ModeLifecycle
  requested,        \* mode_stop_md2() waits for MD2
  pc,               \* the place in the mode program that exists
  step,             \* the essential preparation that comes next
  dirs,             \* the paths that are a directory now
  mounted,          \* mount points with a mount on them that can be seen
  todo,             \* onboot entries MD1 has not read
  hsv_table,        \* services in the table of the running mode program
  hsv,              \* services that have a HSV
  own,              \* services whose HSV has a live instance
  instances         \* live instances of each service

lifeVars == <<phase, programs, requested>>
fileVars == <<dirs, mounted>>
loadVars == <<todo, hsv_table>>
svcVars  == <<hsv, own, instances>>
vars == <<lifeVars, pc, step, fileVars, loadVars, svcVars>>

PidOne == INSTANCE ModeLifecycle

-----------------------------------------------------------------------------
(***************************************************************************)
(* The file system as sysload_prepare() wants it.                          *)
(***************************************************************************)

VirtualFs == <<"/proc", "/sys", "/run">>

Devices == <<"/dev", "/dev/pts", "/dev/shm">>

Runtime == <<"/run/hinit", "/run/lock", "/run/user">>

\* Mutant: the runtime directories come before the virtual filesystems.
RuntimeFirst == Runtime \o VirtualFs \o Devices

\* The essential phases, in the order of sysload_prepare().
Essential == VirtualFs \o Devices \o Runtime

Elements(seq) == {seq[i] : i \in 1..Len(seq)}

MountPoints == Elements(VirtualFs) \cup Elements(Devices)

Paths == MountPoints \cup Elements(Runtime)

RootPaths == {"/proc", "/sys", "/run", "/dev"}

\* The paths that a new filesystem on p hides.
Below(p) == CASE p = "/run" -> Elements(Runtime)
              [] p = "/dev" -> {"/dev/pts", "/dev/shm"}
              [] OTHER      -> {}

MaxInstances == 2

Locations ==
  {"none", "log", "prepare", "fsck", "mounts", "swap", "load", "check", "sleep",
   "hsv_shutdown", "swapoff", "umount", "sync", "reboot", "exit_ok",
   "exit_failed", "off"}

TypeOK ==
  /\ PidOne!LifeTypeOK
  /\ requested \in BOOLEAN
  /\ pc \in Locations
  /\ step \in 1..(Len(Essential) + 1)
  /\ dirs \in SUBSET Paths
  /\ mounted \in SUBSET MountPoints
  /\ todo \in SUBSET Services
  /\ hsv_table \in SUBSET Services
  /\ hsv \in SUBSET Services
  /\ own \in SUBSET hsv
  /\ instances \in [Services -> 0..MaxInstances]

\* An initramfs may have mounted and made some of it; a /run/hinit may be
\* left on the disk from an earlier boot.
Init ==
  /\ PidOne!LifeInit
  /\ requested = FALSE
  /\ pc = "none"
  /\ step = 1
  /\ dirs \in {{}, RootPaths, RootPaths \cup {"/run/hinit"}}
  /\ mounted \in IF dirs = {} THEN {{}} ELSE {{}, {"/proc", "/run"}, RootPaths}
  /\ todo = {}
  /\ hsv_table = {}
  /\ hsv = {}
  /\ own = {}
  /\ instances = [s \in Services |-> 0]

-----------------------------------------------------------------------------
(***************************************************************************)
(* PID 1.                                                                  *)
(***************************************************************************)

Exited == pc \in {"exit_ok", "exit_failed"}

\* A mode program exists and has not exited.
Executing == programs # {} /\ ~Exited /\ pc # "off"

\* PID 1 collects the mode program: MD1's exit status counts, MD2's does not,
\* and nobody looks at MD0's.
Collect ==
  phase' = CASE phase = "startup"   -> IF pc = "exit_ok" THEN "started" ELSE "failed"
             [] phase = "operating" -> IF requested THEN "stopping" ELSE "failed"
             [] phase = "shutdown"  -> "shutdown"

\* One step of PID 1.  A new mode program begins with its main() and an
\* empty hsv_table; one that has exited is collected.
PidOneStep ==
  /\ PidOne!LifeNext
  /\ \/ programs = {} /\ pc' = (IF programs' = {} THEN "none" ELSE "log")
     \/ programs # {} /\ Exited /\ Collect /\ pc' = "none"
  /\ hsv_table' = {}
  /\ requested' = (requested /\ phase' = "operating")
  /\ UNCHANGED <<step, fileVars, todo, svcVars>>

\* A SIGTERM is taken up in MD2 and mode_stop_md2() begins to wait.
RequestShutdown ==
  /\ phase = "operating"
  /\ ~requested
  /\ requested' = TRUE
  /\ UNCHANGED <<phase, programs, pc, step, fileVars, loadVars, svcVars>>

-----------------------------------------------------------------------------
(***************************************************************************)
(* MD1: main() and sysload_prepare().                                      *)
(***************************************************************************)

Goto(from, to) ==
  /\ pc = from
  /\ pc' = to

\* Only pc changes.
NoStateChange == UNCHANGED <<lifeVars, step, fileVars, loadVars, svcVars>>

\* log_init() at the start of main(); without a log the program exits with 1.
LogInit(program, begin) ==
  /\ programs = {program}
  /\ pc = "log"
  /\ pc' \in {begin, "exit_failed"}

Md1Begin == LogInit("md1", "prepare") /\ NoStateChange

\* What is a directory once sysload_mkdir(p) has succeeded: p was made, or it
\* was a directory already.
Mkdir(p) == dirs \cup {p}

\* mount() on p: a new filesystem hides what was below p, directories and
\* mounts; EBUSY, which needs something mounted there, changes nothing.
Mount(p) ==
  \/ /\ mounted' = (mounted \ Below(p)) \cup {p}
     /\ dirs' = Mkdir(p) \ Below(p)
  \/ /\ p \in mounted
     /\ dirs' = Mkdir(p)
     /\ UNCHANGED mounted

\* MD1 calls load_onboot().  opendir() fails, or there are entries to read.
BeginLoad == pc' = "load" /\ todo' \in {{}, Services}

\* One path of the essential phases.  The first failure of mkdir() or mount()
\* ends sysload_prepare(), and MD1 goes on to load_onboot() all the same.
Prepare ==
  /\ pc = "prepare"
  /\ LET p == Essential[step] IN
     \/ /\ IF p \in MountPoints THEN Mount(p)
           ELSE dirs' = Mkdir(p) /\ UNCHANGED mounted
        /\ step' = step + 1
        /\ pc' = IF step = Len(Essential) THEN "fsck" ELSE pc
        /\ UNCHANGED todo
     \/ /\ BeginLoad
        /\ dirs' \in {dirs} \cup (IF p \in MountPoints THEN {Mkdir(p)} ELSE {})
        /\ UNCHANGED <<step, mounted>>
  /\ UNCHANGED <<lifeVars, hsv_table, svcVars>>

\* sysload_exec(): the program is waited for without a timeout, and neither
\* its status nor a failure to run it keeps the sequence from going on.
SysloadExec(from, to) == Goto(from, to) /\ NoStateChange

Fsck == SysloadExec("fsck", "mounts")

\* mount -a mounts what fstab has, which may cover a path that was prepared and
\* hide what is below it.  Nobody looks.
Mounts ==
  /\ Goto("mounts", "swap")
  /\ \E ps \in SUBSET MountPoints :
       LET hidden == UNION {Below(p) : p \in ps} IN
       /\ dirs' = dirs \ hidden
       /\ mounted' = (mounted \ hidden) \cup ps
  /\ UNCHANGED <<lifeVars, step, loadVars, svcVars>>

Swap ==
  /\ pc = "swap"
  /\ BeginLoad
  /\ UNCHANGED <<lifeVars, step, fileVars, hsv_table, svcVars>>

\* Mutant: the entry is read again after its HSV is gone.
LoadEntryAgain(s) ==
  /\ pc = "load"
  /\ s \in todo
  /\ s \notin hsv
  /\ hsv_table' = hsv_table \cup {s}
  /\ hsv' = hsv \cup {s}
  /\ UNCHANGED <<lifeVars, pc, step, fileVars, todo, own, instances>>

\* load_onboot() reads an entry.  It starts a HSV for a service that is not in
\* the table, or some step of that fails (see Load).
LoadEntry(s) ==
  /\ pc = "load"
  /\ s \in todo
  /\ todo' = todo \ {s}
  /\ \/ /\ s \notin hsv_table
        /\ hsv_table' = hsv_table \cup {s}
        /\ hsv' = hsv \cup {s}
     \/ UNCHANGED <<hsv_table, hsv>>
  /\ UNCHANGED <<lifeVars, pc, step, fileVars, own, instances>>

\* Mutant: MD1 waits until every HSV has started its service.
Md1EndWaits ==
  /\ todo = {} /\ own = hsv
  /\ Goto("load", "exit_ok")
  /\ NoStateChange

\* main() of MD1 returns 0, whatever happened before.
Md1End ==
  /\ todo = {}
  /\ Goto("load", "exit_ok")
  /\ NoStateChange

-----------------------------------------------------------------------------
(***************************************************************************)
(* MD2.                                                                    *)
(***************************************************************************)

Md2Begin == LogInit("md2", "check") /\ NoStateChange

\* Mutant: MD2 looks for /run only.
RunPresent == "/run" \in dirs

\* md2_check_runtime() returns 0.
RuntimePresent == "/run/hinit" \in dirs

\* Mutant: a failing check leads to a place that main() does not have.
Md2CheckLost ==
  /\ Goto("check", IF RuntimePresent THEN "sleep" ELSE "failed")
  /\ NoStateChange

\* md2_check().  md2_check_hinit() has nothing to find: the parent of MD2 is
\* PID 1, and a machine does not go on without PID 1.
Md2Check ==
  /\ Goto("check", IF RuntimePresent THEN "sleep" ELSE "exit_failed")
  /\ NoStateChange

Md2Sleep == Goto("sleep", "check") /\ NoStateChange

-----------------------------------------------------------------------------
(***************************************************************************)
(* MD0: main() and sysdown_prepare().                                      *)
(***************************************************************************)

Md0Begin == LogInit("md0", "hsv_shutdown") /\ NoStateChange

\* hsv_shutdown_all() stops the HSVs in the table of this program, and a HSV
\* that is stopped has stopped its service (see Load and Hsv).
HsvShutdownAll ==
  /\ Goto("hsv_shutdown", "swapoff")
  /\ hsv_table' = {}
  /\ hsv' = hsv \ hsv_table
  /\ own' = own \ hsv_table
  /\ instances' = [s \in Services |->
       IF s \in own \cap hsv_table THEN instances[s] - 1 ELSE instances[s]]
  /\ UNCHANGED <<lifeVars, step, fileVars, todo>>

\* sysdown_exec(): as sysload_exec(), nothing depends on the result.
SysdownExec(from, to) == Goto(from, to) /\ NoStateChange

Swapoff == SysdownExec("swapoff", "umount")

\* Nothing reads the file system any more.
Umount == SysdownExec("umount", "sync")

Sync == Goto("sync", "reboot") /\ NoStateChange

\* reboot() succeeds and does not return, or MD0 ignores that it failed and
\* returns 0.
Reboot ==
  /\ pc = "reboot"
  /\ pc' \in {"off", "exit_ok"}
  /\ NoStateChange

-----------------------------------------------------------------------------
(***************************************************************************)
(* HSVs, services and the rest of the machine.                             *)
(***************************************************************************)

Running == pc # "off"

\* A HSV starts its service when it has no instance of it.
HsvStartsService(s) ==
  /\ Running
  /\ s \in hsv \ own
  /\ instances[s] < MaxInstances
  /\ own' = own \cup {s}
  /\ instances' = [instances EXCEPT ![s] = @ + 1]
  /\ UNCHANGED <<lifeVars, pc, step, fileVars, loadVars, hsv>>

\* An instance ends: the one of the HSV, or one that no HSV knows.
ServiceExits(s) ==
  /\ Running
  /\ instances[s] > 0
  /\ instances' = [instances EXCEPT ![s] = @ - 1]
  /\ \/ s \in own /\ own' = own \ {s}
     \/ instances[s] > (IF s \in own THEN 1 ELSE 0) /\ UNCHANGED own
  /\ UNCHANGED <<lifeVars, pc, step, fileVars, loadVars, hsv>>

\* A HSV is killed: it does not stop its service, and no one starts another
\* (no program of this repository calls feed_loop(), see Feed).
HsvKilled(s) ==
  /\ Running
  /\ s \in hsv
  /\ hsv' = hsv \ {s}
  /\ own' = own \ {s}
  /\ UNCHANGED <<lifeVars, pc, step, fileVars, loadVars, instances>>

\* A mode program is killed.
ProgramKilled ==
  /\ Executing
  /\ pc' = "exit_failed"
  /\ NoStateChange

\* Somebody removes /run/hinit.
RuntimeLost ==
  /\ Running
  /\ "/run/hinit" \in dirs
  /\ dirs' = dirs \ {"/run/hinit"}
  /\ UNCHANGED <<lifeVars, pc, step, mounted, loadVars, svcVars>>

\* The machine is off, or PID 1 has nothing left to do.
Settled ==
  /\ pc = "off" \/ (programs = {} /\ phase \in {"failed", "shutdown"})
  /\ UNCHANGED vars

-----------------------------------------------------------------------------

\* Steps of the mode programs that do not wait for another program.
OwnStep ==
  \/ Md1Begin \/ Prepare \/ (\E s \in Services : LoadEntry(s)) \/ Md1End
  \/ Md2Begin \/ Md2Check \/ Md2Sleep
  \/ Md0Begin \/ HsvShutdownAll \/ Sync \/ Reboot

ToolStep == Fsck \/ Mounts \/ Swap \/ Swapoff \/ Umount

Environment ==
  \/ RequestShutdown \/ ProgramKilled \/ RuntimeLost \/ Settled
  \/ \E s \in Services : HsvStartsService(s) \/ ServiceExits(s) \/ HsvKilled(s)

Next == PidOneStep \/ OwnStep \/ ToolStep \/ Environment

Spec == Init /\ [][Next]_vars

\* PID 1 and the mode programs are scheduled.  No tool has to end.
FairSpec == Spec /\ WF_vars(PidOneStep) /\ WF_vars(OwnStep)

-----------------------------------------------------------------------------
(***************************************************************************)
(* Properties.                                                             *)
(***************************************************************************)

Done == {Essential[i] : i \in 1..(step - 1)}

\* mount -a has not been run.
OwnMountsOnly == step <= Len(Essential) \/ pc \in {"fsck", "mounts"}

\* A preparation that succeeded is not undone by a later one: no mount covers
\* a directory or a mount that sysload_prepare() has already made, so when it
\* gets to mount -a everything essential is in place.  Only the removal of
\* /run/hinit from outside can take something away.
PreparedStays ==
  OwnMountsOnly => /\ Done \ {"/run/hinit"} \subseteq dirs
                   /\ Done \cap MountPoints \subseteq mounted

\* A service is never run twice at once, although HSVs are killed and leave
\* their instance behind, and although no program after MD1 knows the HSVs.
AtMostOneInstance == \A s \in Services : instances[s] <= 1

\* MD2 does not go on operating without the runtime directory, be it that the
\* preparation failed before it was made or that it vanished later.
LostRuntimeEndsMd2 ==
  phase = "operating" /\ "/run/hinit" \notin dirs ~> phase # "operating"

\* Startup and shutdown come to an end, powered off or collected by PID 1,
\* unless one of the external programs they wait for never ends.
ModeProgramEnds ==
  /\ phase = "startup" ~> (phase # "startup" \/ [](pc \in {"fsck", "mounts", "swap"}))
  /\ phase = "stopping" ~>
       (pc = "off" \/ (phase = "shutdown" /\ programs = {})
                   \/ [](pc \in {"swapoff", "umount"}))

\* md0.c: "HSV STOPPED".  Once MD0 is past hsv_shutdown_all() no HSV is left.
HsvStopped == pc \in {"swapoff", "umount", "sync", "reboot", "off"} => hsv = {}
=============================================================================
