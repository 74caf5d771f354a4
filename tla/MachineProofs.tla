--------------------------- MODULE MachineProofs ---------------------------
(***************************************************************************)
(* Proofs about Machine, for any set of services: its type, that no mount  *)
(* undoes what sysload_prepare() has done, and that no service is run      *)
(* twice at once.                                                          *)
(***************************************************************************)
EXTENDS Machine, TLAPS

\* MD1 has not been started yet.
BeforeMd1 == programs = {} /\ phase \in {"fresh", "startup"}

\* A mode program belongs to the phase that has started it.
ProgramPhase ==
  \/ programs = {}
  \/ programs = {"md1"} /\ phase = "startup"
  \/ programs = {"md2"} /\ phase = "operating"
  \/ programs = {"md0"} /\ phase = "shutdown"

\* The places of MD1 are reached by MD1, hsv_shutdown_all() by MD0.
PcProgram ==
  /\ programs = {} <=> pc = "none"
  /\ pc \in {"prepare", "fsck", "mounts", "swap", "load"} => programs = {"md1"}
  /\ pc = "hsv_shutdown" => programs # {"md1"}

\* The preparation begins with the first path, has one to go while it runs and
\* none when it gets to fsck.
PrepareFromFirst ==
  /\ BeforeMd1 \/ (programs = {"md1"} /\ pc = "log") => step = 1
  /\ pc = "prepare" => step <= Len(Essential)
  /\ pc \in {"fsck", "mounts"} => step > Len(Essential)

\* No service exists before load_onboot().
NothingBeforeLoad ==
  BeforeMd1 \/ (programs = {"md1"} /\ pc \in {"log", "prepare", "fsck", "mounts", "swap"})
    => hsv = {} /\ \A s \in Services : instances[s] = 0

\* A HSV has the only instance of its service, if there is one, and an entry
\* that load_onboot() has still to read has neither HSV nor instance.
HsvOwnsInstance ==
  \A s \in Services :
    /\ s \in own => instances[s] = 1
    /\ s \in hsv \ own => instances[s] = 0
    /\ pc = "load" /\ s \in todo => s \notin hsv /\ instances[s] = 0

\* MD1 alone puts HSVs in its table, and takes it along when it ends.
TableOfMd1 == programs # {"md1"} => hsv_table = {}

\* The inductive invariant.
IInv ==
  /\ TypeOK /\ ProgramPhase /\ PcProgram /\ PrepareFromFirst /\ PreparedStays
  /\ NothingBeforeLoad /\ HsvOwnsInstance /\ AtMostOneInstance /\ TableOfMd1

-----------------------------------------------------------------------------

\* The paths of sysload_prepare() in their order.
LEMMA EssentialFacts ==
  /\ Len(Essential) = 9
  /\ Essential[1] = "/proc" /\ Essential[2] = "/sys" /\ Essential[3] = "/run"
  /\ Essential[4] = "/dev" /\ Essential[5] = "/dev/pts" /\ Essential[6] = "/dev/shm"
  /\ Essential[7] = "/run/hinit" /\ Essential[8] = "/run/lock"
  /\ Essential[9] = "/run/user"
  BY DEF Essential, VirtualFs, Devices, Runtime

\* What a path of the sequence is, and what mounting on it hides.
LEMMA PathFacts ==
  /\ Elements(Runtime) = {"/run/hinit", "/run/lock", "/run/user"}
  /\ MountPoints = {"/proc", "/sys", "/run", "/dev", "/dev/pts", "/dev/shm"}
  /\ Paths = MountPoints \cup {"/run/hinit", "/run/lock", "/run/user"}
<1>1. Elements(Runtime) = {"/run/hinit", "/run/lock", "/run/user"}
  BY DEF Elements, Runtime
<1>2. Elements(VirtualFs) = {"/proc", "/sys", "/run"}
  BY DEF Elements, VirtualFs
<1>3. Elements(Devices) = {"/dev", "/dev/pts", "/dev/shm"}
  BY DEF Elements, Devices
<1>4. MountPoints = {"/proc", "/sys", "/run", "/dev", "/dev/pts", "/dev/shm"}
  BY <1>2, <1>3 DEF MountPoints
<1> QED
  BY <1>1, <1>4 DEF Paths

\* A mount hides nothing that an earlier step of the sequence has made.
LEMMA MountHidesNothingDone ==
  ASSUME NEW i \in 1..9, NEW j \in 1..(i - 1)
  PROVE  Essential[j] \notin Below(Essential[i])
<1>1. CASE i = 3
  BY <1>1, EssentialFacts, PathFacts DEF Below
<1>2. CASE i = 4
  BY <1>2, EssentialFacts, PathFacts DEF Below
<1>3. CASE i \notin {3, 4}
  <2>1. Essential[i] # "/run" /\ Essential[i] # "/dev"
    BY <1>3, EssentialFacts
  <2> QED
    BY <2>1 DEF Below
<1> QED
  BY <1>1, <1>2, <1>3

\* Every element of the sequence is one of the paths.
LEMMA EssentialInPaths ==
  ASSUME NEW i \in 1..9
  PROVE  Essential[i] \in Paths
  BY EssentialFacts, PathFacts

-----------------------------------------------------------------------------

\* Before PID 1 does anything nothing is loaded and nothing is prepared.
LEMMA InitIInv == Init => IInv
<1> SUFFICES ASSUME Init PROVE IInv
  OBVIOUS
<1>1. phase = "fresh" /\ programs = {}
  BY DEF Init, PidOne!LifeInit
<1>2. TypeOK
  <2>1. PidOne!LifeTypeOK
    BY <1>1 DEF PidOne!LifeTypeOK, PidOne!Phases
  <2>2. dirs \in SUBSET Paths
    BY PathFacts DEF Init, RootPaths
  <2>3. mounted \in SUBSET MountPoints
    BY PathFacts DEF Init, RootPaths
  <2>4. instances \in [Services -> 0..MaxInstances]
    BY DEF Init, MaxInstances
  <2> QED
    <3>1. pc \in Locations /\ step \in 1..(Len(Essential) + 1)
      BY EssentialFacts DEF Init, Locations
    <3> QED
      BY <2>1, <2>2, <2>3, <2>4, <3>1 DEF Init, TypeOK
<1>3. ProgramPhase /\ PcProgram /\ PrepareFromFirst /\ TableOfMd1
  BY <1>1, EssentialFacts DEF Init, ProgramPhase, PcProgram, PrepareFromFirst, TableOfMd1
<1>4. Done = {}
  BY DEF Init, Done
<1>5. PreparedStays
  BY <1>4 DEF PreparedStays
<1>6. NothingBeforeLoad /\ HsvOwnsInstance /\ AtMostOneInstance
  BY DEF Init, NothingBeforeLoad, HsvOwnsInstance, AtMostOneInstance
<1> QED
  BY <1>2, <1>3, <1>5, <1>6 DEF IInv

\* A mode program goes on to another place and does nothing else.
LEMMA MoveStep ==
  ASSUME IInv, NoStateChange, programs # {},
         pc' \in Locations \ {"none", "log", "load"},
         pc' \in {"prepare", "fsck", "mounts", "swap"} =>
           programs = {"md1"} /\ pc \in {"log", "prepare", "fsck", "mounts", "swap"},
         pc' = "prepare" => pc = "log",
         pc' \in {"fsck", "mounts"} => pc = "fsck",
         pc' = "hsv_shutdown" => programs # {"md1"}
  PROVE  IInv'
<1> USE DEF IInv
<1>1. /\ UNCHANGED <<phase, programs, requested, step, dirs, mounted, todo, hsv_table>>
      /\ UNCHANGED <<hsv, own, instances>>
  BY DEF NoStateChange, lifeVars, fileVars, loadVars, svcVars
<1>2. TypeOK'
  BY <1>1 DEF TypeOK, PidOne!LifeTypeOK
<1>3. ProgramPhase' /\ PcProgram' /\ TableOfMd1'
  BY <1>1 DEF ProgramPhase, PcProgram, TableOfMd1
<1>4. PrepareFromFirst'
  BY <1>1, EssentialFacts DEF PrepareFromFirst, BeforeMd1
<1>5. PreparedStays' /\ AtMostOneInstance'
  BY <1>1 DEF PreparedStays, OwnMountsOnly, Done, AtMostOneInstance
<1>6. NothingBeforeLoad'
  BY <1>1 DEF NothingBeforeLoad, BeforeMd1
<1>7. HsvOwnsInstance'
  BY <1>1 DEF HsvOwnsInstance
<1> QED
  BY <1>2, <1>3, <1>4, <1>5, <1>6, <1>7

\* mount -a may hide what was prepared, and nothing is claimed of it from then on.
LEMMA MountsStep ==
  ASSUME IInv, Mounts
  PROVE  IInv'
<1> USE DEF IInv
<1>1. /\ pc = "mounts" /\ pc' = "swap"
      /\ UNCHANGED <<phase, programs, requested, step, todo, hsv_table>>
      /\ UNCHANGED <<hsv, own, instances>>
  BY DEF Mounts, Goto, lifeVars, loadVars, svcVars
<1>2. TypeOK'
  <2>1. dirs' \in SUBSET Paths /\ mounted' \in SUBSET MountPoints
    BY DEF Mounts, TypeOK
  <2> QED
    BY <1>1, <2>1 DEF TypeOK, PidOne!LifeTypeOK, Locations
<1>3. programs = {"md1"} /\ step > Len(Essential)
  BY <1>1 DEF PcProgram, PrepareFromFirst
<1>4. ProgramPhase' /\ PcProgram' /\ TableOfMd1' /\ PrepareFromFirst'
  BY <1>1, <1>3 DEF ProgramPhase, PcProgram, TableOfMd1, PrepareFromFirst, BeforeMd1
<1>5. PreparedStays' /\ AtMostOneInstance'
  <2>1. ~OwnMountsOnly'
    BY <1>1, <1>3, EssentialFacts DEF OwnMountsOnly, TypeOK
  <2> QED
    BY <1>1, <2>1 DEF PreparedStays, AtMostOneInstance
<1>6. NothingBeforeLoad' /\ HsvOwnsInstance'
  BY <1>1, <1>3 DEF NothingBeforeLoad, BeforeMd1, HsvOwnsInstance
<1> QED
  BY <1>2, <1>4, <1>5, <1>6

\* PID 1 starts a mode program, or collects the one that has exited.
LEMMA PidOneStepIInv ==
  ASSUME IInv, PidOneStep
  PROVE  IInv'
<1> USE DEF IInv
<1>1. /\ hsv_table' = {} /\ requested' \in BOOLEAN
      /\ UNCHANGED <<step, dirs, mounted, todo>> /\ UNCHANGED <<hsv, own, instances>>
  BY DEF PidOneStep, fileVars, svcVars
<1>2. pc' \in {"none", "log"}
  BY DEF PidOneStep
<1>3. /\ programs' = {} <=> pc' = "none"
      /\ programs # {} => programs' = {}
      /\ programs' \in {{}, {"md0"}, {"md1"}, {"md2"}} /\ phase' \in PidOne!Phases
      /\ programs' = {"md1"} => phase' = "startup"
      /\ programs' = {"md2"} => phase' = "operating"
      /\ programs' = {"md0"} => phase' = "shutdown"
      /\ BeforeMd1' \/ programs' = {"md1"} => BeforeMd1
  <2>1. CASE PidOne!BeginStartup
    BY <2>1 DEF PidOneStep, PidOne!BeginStartup, PidOne!Phases, BeforeMd1, ProgramPhase
  <2>2. CASE PidOne!RunStartup
    BY <2>2 DEF PidOneStep, PidOne!RunStartup, PidOne!Phases, BeforeMd1
  <2>3. CASE PidOne!BeginOperating
    BY <2>3 DEF PidOneStep, PidOne!BeginOperating, PidOne!Phases, BeforeMd1
  <2>4. CASE PidOne!LeaveOperating
    BY <2>4 DEF PidOneStep, PidOne!LeaveOperating, PidOne!Phases, BeforeMd1
  <2>5. CASE PidOne!RunShutdown
    BY <2>5 DEF PidOneStep, PidOne!RunShutdown, PidOne!Phases, BeforeMd1
  <2> QED
    BY <2>1, <2>2, <2>3, <2>4, <2>5 DEF PidOneStep, PidOne!LifeNext
<1>4. TypeOK'
  BY <1>1, <1>2, <1>3 DEF TypeOK, PidOne!LifeTypeOK, Locations
<1>5. ProgramPhase' /\ PcProgram' /\ TableOfMd1'
  BY <1>1, <1>2, <1>3 DEF ProgramPhase, PcProgram, TableOfMd1
<1>6. PrepareFromFirst'
  BY <1>1, <1>2, <1>3 DEF PrepareFromFirst
<1>7. PreparedStays' /\ AtMostOneInstance'
  BY <1>1, <1>2 DEF PreparedStays, OwnMountsOnly, Done, AtMostOneInstance
<1>8. NothingBeforeLoad'
  BY <1>1, <1>3 DEF NothingBeforeLoad
<1>9. HsvOwnsInstance'
  BY <1>1, <1>2 DEF HsvOwnsInstance
<1> QED
  BY <1>4, <1>5, <1>6, <1>7, <1>8, <1>9

\* MD1 comes to load_onboot(), prepared or not.  The directories are those it
\* had, or one more.
LEMMA BeginLoadStep ==
  ASSUME IInv, pc \in {"prepare", "swap"}, BeginLoad,
         UNCHANGED <<lifeVars, step, mounted, hsv_table, svcVars>>,
         dirs \subseteq dirs', dirs' \subseteq Paths
  PROVE  IInv'
<1> USE DEF IInv
<1>1. /\ pc' = "load" /\ todo' \in {{}, Services}
      /\ UNCHANGED <<phase, programs, requested, step, mounted, hsv_table>>
      /\ UNCHANGED <<hsv, own, instances>>
  BY DEF BeginLoad, lifeVars, svcVars
<1>2. TypeOK'
  BY <1>1 DEF TypeOK, PidOne!LifeTypeOK, Locations
<1>3. programs = {"md1"}
  BY DEF PcProgram
<1>4. ProgramPhase' /\ PcProgram' /\ TableOfMd1' /\ PrepareFromFirst'
  BY <1>1, <1>3 DEF ProgramPhase, PcProgram, TableOfMd1, PrepareFromFirst, BeforeMd1
<1>5. PreparedStays' /\ AtMostOneInstance'
  BY <1>1 DEF PreparedStays, OwnMountsOnly, Done, AtMostOneInstance
<1>6. NothingBeforeLoad'
  BY <1>1, <1>3 DEF NothingBeforeLoad, BeforeMd1
<1>7. hsv = {} /\ \A s \in Services : instances[s] = 0
  BY <1>3 DEF NothingBeforeLoad
<1>8. own = {}
  BY <1>7 DEF TypeOK
<1>9. HsvOwnsInstance'
  BY <1>1, <1>7, <1>8 DEF HsvOwnsInstance
<1> QED
  BY <1>2, <1>4, <1>5, <1>6, <1>9

\* One path of the essential phases: it is added to what is done, and what was
\* done before stays.
LEMMA PrepareStep ==
  ASSUME IInv, Prepare
  PROVE  IInv'
<1> USE DEF IInv
<1> DEFINE p == Essential[step]
<1>1. /\ pc = "prepare" /\ programs = {"md1"} /\ step \in 1..9
      /\ UNCHANGED <<lifeVars, hsv_table, svcVars>>
  BY EssentialFacts DEF Prepare, PcProgram, PrepareFromFirst, TypeOK
<1>2. UNCHANGED <<phase, programs, requested, hsv, own, instances>>
  BY <1>1 DEF lifeVars, svcVars
<1>3. p \in Paths
  BY <1>1, EssentialInPaths
<1>4. CASE /\ IF p \in MountPoints THEN Mount(p)
              ELSE dirs' = Mkdir(p) /\ UNCHANGED mounted
           /\ step' = step + 1
           /\ pc' = IF step = Len(Essential) THEN "fsck" ELSE pc
           /\ UNCHANGED todo
  <2>1. /\ mounted' \in {mounted, mounted \cup {p}, (mounted \ Below(p)) \cup {p}}
        /\ dirs' \in {dirs \cup {p}, (dirs \cup {p}) \ Below(p)}
        /\ p \in MountPoints => p \in mounted'
        /\ p \notin MountPoints => mounted' = mounted
    BY <1>4 DEF Mount, Mkdir
  <2>2. p \notin Below(p)
    BY <1>1, EssentialFacts, PathFacts DEF Below
  <2>3. TypeOK'
    <3>1. pc' \in Locations /\ step' \in 1..(Len(Essential) + 1)
      BY <1>1, <1>4, EssentialFacts DEF Locations
    <3>2. dirs' \in SUBSET Paths /\ mounted' \in SUBSET MountPoints
      BY <1>3, <2>1 DEF TypeOK
    <3> QED
      BY <1>1, <1>2, <1>4, <3>1, <3>2 DEF TypeOK, PidOne!LifeTypeOK
  <2>4. /\ pc' \in {"prepare", "fsck"}
        /\ pc' = "prepare" => step' <= Len(Essential)
        /\ pc' = "fsck" => step' > Len(Essential)
    BY <1>1, <1>4, EssentialFacts
  <2>5. ProgramPhase' /\ PcProgram' /\ TableOfMd1' /\ PrepareFromFirst'
    BY <1>1, <1>2, <2>4 DEF ProgramPhase, PcProgram, TableOfMd1, PrepareFromFirst, BeforeMd1
  <2>6. NothingBeforeLoad' /\ AtMostOneInstance'
    BY <1>1, <1>2, <2>4 DEF NothingBeforeLoad, AtMostOneInstance, BeforeMd1
  <2>7. HsvOwnsInstance'
    BY <1>2, <2>4 DEF HsvOwnsInstance
  <2>8. Done' = Done \cup {p}
    <3>1. Done' = {Essential[i] : i \in 1..step}
      BY <1>1, <1>4 DEF Done
    <3>2. \A i \in 1..step : i \in 1..(step - 1) \/ i = step
      BY <1>1
    <3>3. \A i \in 1..(step - 1) : i \in 1..step
      BY <1>1
    <3>4. step \in 1..step
      BY <1>1
    <3> QED
      BY <3>1, <3>2, <3>3, <3>4 DEF Done
  <2>9. \A q \in Done : q \notin Below(p)
    BY <1>1, MountHidesNothingDone DEF Done
  <2>10. PreparedStays'
    <3>0. /\ Done \ {"/run/hinit"} \subseteq dirs
          /\ Done \cap MountPoints \subseteq mounted
      BY <1>1, EssentialFacts DEF PreparedStays, OwnMountsOnly
    <3>1. Done' \ {"/run/hinit"} \subseteq dirs'
      BY <2>1, <2>2, <2>8, <2>9, <3>0
    <3>2. Done' \cap MountPoints \subseteq mounted'
      BY <2>1, <2>8, <2>9, <3>0
    <3> QED
      BY <3>1, <3>2 DEF PreparedStays
  <2> QED
    BY <2>3, <2>5, <2>6, <2>7, <2>10
<1>5. CASE /\ BeginLoad
           /\ dirs' \in {dirs} \cup (IF p \in MountPoints THEN {Mkdir(p)} ELSE {})
           /\ UNCHANGED <<step, mounted>>
  <2>1. dirs' \in {dirs, dirs \cup {p}}
    BY <1>5 DEF Mkdir
  <2>2. dirs \subseteq dirs' /\ dirs' \subseteq Paths
    BY <1>3, <2>1 DEF TypeOK
  <2> QED
    BY <1>1, <1>5, <2>2, BeginLoadStep
<1> QED
  BY <1>4, <1>5 DEF Prepare

\* load_onboot() reads an entry that has neither HSV nor instance.
LEMMA LoadEntryStep ==
  ASSUME IInv, NEW s \in Services, LoadEntry(s)
  PROVE  IInv'
<1> USE DEF IInv
<1>1. /\ pc = "load" /\ pc' = "load" /\ s \in todo /\ todo' = todo \ {s}
      /\ hsv' \in {hsv, hsv \cup {s}} /\ hsv_table' \in {hsv_table, hsv_table \cup {s}}
      /\ UNCHANGED <<phase, programs, requested, step, dirs, mounted, own, instances>>
  BY DEF LoadEntry, lifeVars, fileVars
<1>2. TypeOK'
  BY <1>1 DEF TypeOK, PidOne!LifeTypeOK
<1>3. programs = {"md1"}
  BY <1>1 DEF PcProgram
<1>4. ProgramPhase' /\ PcProgram' /\ TableOfMd1' /\ PrepareFromFirst'
  BY <1>1, <1>3 DEF ProgramPhase, PcProgram, TableOfMd1, PrepareFromFirst, BeforeMd1
<1>5. PreparedStays' /\ AtMostOneInstance' /\ NothingBeforeLoad'
  BY <1>1, <1>3 DEF PreparedStays, OwnMountsOnly, Done, AtMostOneInstance,
                    NothingBeforeLoad, BeforeMd1
<1>6. HsvOwnsInstance'
  BY <1>1 DEF HsvOwnsInstance
<1> QED
  BY <1>2, <1>4, <1>5, <1>6

\* A HSV starts its service, or an instance ends.
LEMMA InstanceStep ==
  ASSUME IInv, NEW s \in Services, HsvStartsService(s) \/ ServiceExits(s)
  PROVE  IInv'
<1> USE DEF IInv
<1>1. UNCHANGED <<phase, programs, requested, pc, step, dirs, mounted, todo, hsv_table, hsv>>
  BY DEF HsvStartsService, ServiceExits, lifeVars, fileVars, loadVars
<1>2. \/ s \in hsv \ own /\ own' = own \cup {s} /\ instances' = [instances EXCEPT ![s] = 1]
      \/ instances[s] = 1 /\ own' = own \ {s} /\ instances' = [instances EXCEPT ![s] = 0]
  <2>0. instances[s] \in 0..1
    BY DEF TypeOK, AtMostOneInstance, MaxInstances
  <2>1. CASE HsvStartsService(s)
    <3>1. s \in hsv \ own /\ instances[s] = 0 /\ own' = own \cup {s}
      BY <2>1 DEF HsvStartsService, HsvOwnsInstance
    <3>2. instances' = [instances EXCEPT ![s] = instances[s] + 1]
      BY <2>1 DEF HsvStartsService
    <3>3. instances' = [instances EXCEPT ![s] = 1]
      BY <3>1, <3>2
    <3> QED
      BY <3>1, <3>3
  <2>2. CASE ServiceExits(s)
    <3>1. instances[s] = 1
      BY <2>0, <2>2 DEF ServiceExits
    <3>2. instances' = [instances EXCEPT ![s] = instances[s] - 1]
      BY <2>2 DEF ServiceExits
    <3>3. instances' = [instances EXCEPT ![s] = 0]
      BY <3>1, <3>2
    <3>4. own' = own \ {s}
      BY <2>2, <3>1 DEF ServiceExits
    <3> QED
      BY <3>1, <3>3, <3>4
  <2> QED
    BY <2>1, <2>2
<1>3. TypeOK'
  BY <1>1, <1>2 DEF TypeOK, PidOne!LifeTypeOK, MaxInstances
<1>4. ProgramPhase' /\ PcProgram' /\ TableOfMd1' /\ PrepareFromFirst' /\ PreparedStays'
  BY <1>1 DEF ProgramPhase, PcProgram, TableOfMd1, PrepareFromFirst, BeforeMd1,
              PreparedStays, OwnMountsOnly, Done
<1>5. AtMostOneInstance'
  BY <1>2 DEF AtMostOneInstance, TypeOK
<1>6. NothingBeforeLoad'
  BY <1>1, <1>2 DEF NothingBeforeLoad, BeforeMd1, TypeOK
<1>7. HsvOwnsInstance'
  BY <1>1, <1>2 DEF HsvOwnsInstance, TypeOK
<1> QED
  BY <1>3, <1>4, <1>5, <1>6, <1>7

\* A killed HSV leaves its instance behind; no entry is left to load it again.
LEMMA HsvKilledStep ==
  ASSUME IInv, NEW s \in Services, HsvKilled(s)
  PROVE  IInv'
<1> USE DEF IInv
<1>1. /\ UNCHANGED <<phase, programs, requested, pc, step, dirs, mounted, todo, hsv_table>>
      /\ instances' = instances /\ hsv' = hsv \ {s} /\ own' = own \ {s}
  BY DEF HsvKilled, lifeVars, fileVars, loadVars
<1>2. TypeOK'
  BY <1>1 DEF TypeOK, PidOne!LifeTypeOK
<1>3. ProgramPhase' /\ PcProgram' /\ TableOfMd1' /\ PrepareFromFirst' /\ PreparedStays'
  BY <1>1 DEF ProgramPhase, PcProgram, TableOfMd1, PrepareFromFirst, BeforeMd1,
              PreparedStays, OwnMountsOnly, Done
<1>4. NothingBeforeLoad' /\ HsvOwnsInstance' /\ AtMostOneInstance'
  BY <1>1 DEF NothingBeforeLoad, BeforeMd1, HsvOwnsInstance, AtMostOneInstance
<1> QED
  BY <1>2, <1>3, <1>4

\* hsv_shutdown_all() in MD0 finds an empty table and stops nothing.
LEMMA HsvShutdownAllStep ==
  ASSUME IInv, HsvShutdownAll
  PROVE  IInv'
<1> USE DEF IInv
<1>1. hsv_table = {} /\ pc = "hsv_shutdown" /\ programs # {} /\ programs # {"md1"}
  BY DEF HsvShutdownAll, Goto, PcProgram, TableOfMd1
<1>2. instances' = [s \in Services |-> instances[s]]
  BY <1>1 DEF HsvShutdownAll
<1>3. instances' = instances /\ hsv' = hsv /\ own' = own /\ hsv_table' = hsv_table
  BY <1>1, <1>2 DEF HsvShutdownAll, TypeOK
<1>4. NoStateChange /\ pc' = "swapoff"
  BY <1>3 DEF HsvShutdownAll, Goto, NoStateChange, loadVars, svcVars
<1> QED
  BY <1>1, <1>4, MoveStep DEF Locations

\* The removal of /run/hinit is the one thing that takes something away.
LEMMA RuntimeLostStep ==
  ASSUME IInv, RuntimeLost
  PROVE  IInv'
<1> USE DEF IInv
<1>1. /\ UNCHANGED <<phase, programs, requested, pc, step, mounted, todo, hsv_table>>
      /\ UNCHANGED <<hsv, own, instances>> /\ dirs' = dirs \ {"/run/hinit"}
  BY DEF RuntimeLost, lifeVars, loadVars, svcVars
<1>2. TypeOK'
  BY <1>1 DEF TypeOK, PidOne!LifeTypeOK
<1>3. ProgramPhase' /\ PcProgram' /\ TableOfMd1' /\ PrepareFromFirst'
  BY <1>1 DEF ProgramPhase, PcProgram, TableOfMd1, PrepareFromFirst, BeforeMd1
<1>4. PreparedStays' /\ NothingBeforeLoad' /\ HsvOwnsInstance' /\ AtMostOneInstance'
  BY <1>1 DEF PreparedStays, OwnMountsOnly, Done, NothingBeforeLoad, BeforeMd1,
              HsvOwnsInstance, AtMostOneInstance
<1> QED
  BY <1>2, <1>3, <1>4

\* The steps of the mode programs keep the invariant.
LEMMA OwnStepIInv ==
  ASSUME IInv, OwnStep
  PROVE  IInv'
<1>0. /\ programs = {} <=> pc = "none"
      /\ pc \in {"prepare", "fsck", "mounts", "swap", "load"} => programs = {"md1"}
  BY DEF IInv, PcProgram
<1>1. CASE Md1Begin
  BY <1>1, MoveStep DEF Md1Begin, LogInit, Locations
<1>2. CASE Prepare
  BY <1>2, PrepareStep
<1>3. ASSUME NEW s \in Services, LoadEntry(s) PROVE IInv'
  BY <1>3, LoadEntryStep
<1>4. CASE Md1End
  BY <1>0, <1>4, MoveStep DEF Md1End, Goto, Locations
<1>5. CASE Md2Begin
  BY <1>5, MoveStep DEF Md2Begin, LogInit, Locations
<1>6. CASE Md2Check
  BY <1>0, <1>6, MoveStep DEF Md2Check, Goto, Locations
<1>7. CASE Md2Sleep
  BY <1>0, <1>7, MoveStep DEF Md2Sleep, Goto, Locations
<1>8. CASE Md0Begin
  BY <1>8, MoveStep DEF Md0Begin, LogInit, Locations
<1>9. CASE HsvShutdownAll
  BY <1>9, HsvShutdownAllStep
<1>10. CASE Sync
  BY <1>0, <1>10, MoveStep DEF Sync, Goto, Locations
<1>11. CASE Reboot
  BY <1>0, <1>11, MoveStep DEF Reboot, Locations
<1> QED
  BY <1>1, <1>2, <1>3, <1>4, <1>5, <1>6, <1>7, <1>8, <1>9, <1>10, <1>11 DEF OwnStep

\* The steps that wait for another program keep the invariant.
LEMMA ToolStepIInv ==
  ASSUME IInv, ToolStep
  PROVE  IInv'
<1>0. /\ programs = {} <=> pc = "none"
      /\ pc \in {"prepare", "fsck", "mounts", "swap", "load"} => programs = {"md1"}
  BY DEF IInv, PcProgram
<1>1. CASE Fsck
  BY <1>0, <1>1, MoveStep DEF Fsck, SysloadExec, Goto, Locations
<1>2. CASE Mounts
  BY <1>2, MountsStep
<1>3. CASE Swap
  <2>1. pc = "swap" /\ BeginLoad
        /\ UNCHANGED <<lifeVars, step, mounted, hsv_table, svcVars>> /\ dirs' = dirs
    BY <1>3 DEF Swap, fileVars
  <2>2. dirs' \subseteq Paths
    BY <2>1 DEF IInv, TypeOK
  <2> QED
    BY <2>1, <2>2, BeginLoadStep
<1>4. CASE Swapoff
  BY <1>0, <1>4, MoveStep DEF Swapoff, SysdownExec, Goto, Locations
<1>5. CASE Umount
  BY <1>0, <1>5, MoveStep DEF Umount, SysdownExec, Goto, Locations
<1> QED
  BY <1>1, <1>2, <1>3, <1>4, <1>5 DEF ToolStep

\* A request, and steps that change nothing.
LEMMA RequestStep ==
  ASSUME IInv, RequestShutdown \/ UNCHANGED vars
  PROVE  IInv'
<1>1. /\ requested' \in {requested, TRUE}
      /\ UNCHANGED <<phase, programs, pc, step, dirs, mounted, todo, hsv_table>>
      /\ UNCHANGED <<hsv, own, instances>>
  BY DEF RequestShutdown, vars, lifeVars, fileVars, loadVars, svcVars
<1>2. requested' \in BOOLEAN
  BY <1>1 DEF IInv, TypeOK
<1> QED
  BY <1>1, <1>2 DEF IInv, TypeOK, PidOne!LifeTypeOK, ProgramPhase, PcProgram, TableOfMd1,
     PrepareFromFirst, BeforeMd1, PreparedStays, OwnMountsOnly, Done, NothingBeforeLoad,
     HsvOwnsInstance, AtMostOneInstance

\* Every step keeps the inductive invariant.
LEMMA NextIInv == IInv /\ [Next]_vars => IInv'
<1> SUFFICES ASSUME IInv, [Next]_vars PROVE IInv'
  OBVIOUS
<1>1. CASE PidOneStep
  BY <1>1, PidOneStepIInv
<1>2. CASE OwnStep
  BY <1>2, OwnStepIInv
<1>3. CASE ToolStep
  BY <1>3, ToolStepIInv
<1>4. CASE ProgramKilled
  BY <1>4, MoveStep DEF ProgramKilled, Executing, Locations
<1>5. CASE RuntimeLost
  BY <1>5, RuntimeLostStep
<1>6. CASE RequestShutdown \/ Settled \/ UNCHANGED vars
  BY <1>6, RequestStep DEF Settled
<1>7. ASSUME NEW s \in Services, HsvStartsService(s) \/ ServiceExits(s) PROVE IInv'
  BY <1>7, InstanceStep
<1>8. ASSUME NEW s \in Services, HsvKilled(s) PROVE IInv'
  BY <1>8, HsvKilledStep
<1> QED
  BY <1>1, <1>2, <1>3, <1>4, <1>5, <1>6, <1>7, <1>8 DEF Next, Environment

\* The inductive invariant holds in every reachable state.
LEMMA Invariance == Spec => []IInv
  BY InitIInv, NextIInv, PTL DEF Spec

\* Every state of PID 1, of the mode programs and of the services has its type.
THEOREM TypeCorrect == Spec => []TypeOK
<1>1. IInv => TypeOK
  BY DEF IInv
<1> QED
  BY <1>1, Invariance, PTL

\* No later step of sysload_prepare() undoes an earlier one, from whatever an
\* initramfs has left, and wherever the sequence stops.
THEOREM PreparationStays == Spec => []PreparedStays
<1>1. IInv => PreparedStays
  BY DEF IInv
<1> QED
  BY <1>1, Invariance, PTL

\* No service is ever run twice at once, for any set of services in onboot.
THEOREM OneInstance == Spec => []AtMostOneInstance
<1>1. IInv => AtMostOneInstance
  BY DEF IInv
<1> QED
  BY <1>1, Invariance, PTL
=============================================================================
