--------------------------- MODULE LoadRefinement --------------------------
(***************************************************************************)
(* Load implements ServiceControl, for any services, any pids and any      *)
(* MAX_HSV.  The table is exact (LoadProofs), so what load.c does to an    *)
(* entry or to a pid it does to the supervisor of the service that is      *)
(* meant.                                                                  *)
(***************************************************************************)
EXTENDS LoadProofs

\* What feed_command() is executing at each place.
CallState ==
  /\ pc \in {"idle", "scan", "shutdown", "wait", "reap"}
       => cmd = "none" /\ svc = NoService /\ reply = "none"
  /\ pc \in {"fork", "register"} => cmd = "start" /\ reply = "none"
  /\ pc \in {"scan_fork", "scan_register"} => cmd = "none" /\ reply = "none"
  /\ pc = "symlink" => cmd = "enable" /\ reply = "none"
  /\ pc = "reply" => reply # "none"

\* What the refinement mapping is: Status is the state of the service's HSV.
StatusExact ==
  /\ \A s \in Services : ServedBy(s) = {} => Status[s] = "free"
  /\ \A p \in Pids :
       hsv[p] # "free" => serves[p] \in Services /\ Status[serves[p]] = hsv[p]

\* The invariant under which the steps are compared.
Mapped == IInv /\ CallState /\ StatusExact

-----------------------------------------------------------------------------

\* Every step leads from one of these places to another.
LEMMA CallStateStep ==
  ASSUME IInv, CallState, [Next]_vars
  PROVE  CallState'
<1> USE DEF CallState, Command, Return, callVars
<1>1. CASE Call
  BY <1>1 DEF Call, LoadOnboot, BeginShutdownAll, StartService, StopService,
              RestartService, EnableService, DisableService
<1>2. CASE Fork \/ Register
  BY <1>2 DEF Fork, Register, StartReturns
<1>3. CASE (\E s \in Services : ScanEntry(s)) \/ ScanDone \/ Symlink \/ Reply
  BY <1>3 DEF ScanEntry, ScanDone, Symlink, Reply
<1>4. CASE ShutdownKill \/ ShutdownWait \/ ShutdownDone
  BY <1>4 DEF ShutdownKill, ShutdownWait, ShutdownDone
<1>5. CASE (\E p \in Pids : ReapChild(p)) \/ ReapDone \/ BeginReap
  BY <1>5 DEF ReapChild, ReapDone, BeginReap
<1>6. CASE Environment \/ UNCHANGED vars
  BY <1>6 DEF Environment, HsvExit, ChangeDirs, vars
<1> QED
  BY <1>1, <1>2, <1>3, <1>4, <1>5, <1>6 DEF Next, Continue

\* An uncollected HSV serves a service, and it is the only one that does.
LEMMA StatusIsExact == IInv => StatusExact
<1> SUFFICES ASSUME IInv PROVE StatusExact
  OBVIOUS
<1>1. \A s \in Services : ServedBy(s) = {} => Status[s] = "free"
  BY DEF Status
<1>2. ASSUME NEW p \in Pids, hsv[p] # "free"
      PROVE  serves[p] \in Services /\ Status[serves[p]] = hsv[p]
  <2>1. serves[p] \in Services
    <3>1. CASE Registering /\ serves[p] = svc
      BY <3>1 DEF IInv, CallShape, Starting, Registering
    <3>2. CASE \E i \in Indices : hsv_table[i].pid = p
      <4>1. PICK i \in Indices : hsv_table[i].pid = p
        BY <3>2
      <4>2. hsv_table[i].service = serves[p] /\ hsv_table[i] \in Entries
        BY <4>1, TableEntries DEF IInv, RegistryExact
      <4> QED
        BY <4>2 DEF Entries
    <3> QED
      BY <1>2, <3>1, <3>2 DEF IInv, RegistryExact
  <2>2. ServedBy(serves[p]) = {p}
    BY <1>2 DEF ServedBy, IInv, OneSupervisor
  <2>3. (CHOOSE q \in ServedBy(serves[p]) : TRUE) = p
    BY <2>2
  <2> QED
    BY <2>1, <2>2, <2>3 DEF Status
<1> QED
  BY <1>1, <1>2 DEF StatusExact

\* A step that is about one HSV, of service s, changes the status of s only.
LEMMA StatusChanges ==
  ASSUME StatusExact, StatusExact', NEW p \in Pids, NEW s \in Services,
         \A q \in Pids \ {p} : hsv'[q] = hsv[q] /\ serves'[q] = serves[q],
         \A q \in Pids \ {p} : hsv[q] # "free" => serves[q] # s,
         hsv[p] # "free" => serves[p] = s,
         hsv'[p] # "free" => serves'[p] = s
  PROVE  Status' = [Status EXCEPT ![s] = hsv'[p]]
<1>1. /\ Status = [t \in Services |-> Status[t]]
      /\ Status' = [t \in Services |-> Status'[t]]
  BY DEF Status
<1>2. Status'[s] = hsv'[p]
  <2>1. CASE hsv'[p] # "free"
    BY <2>1 DEF StatusExact
  <2>2. CASE hsv'[p] = "free"
    <3>1. ServedBy(s)' = {}
      BY <2>2 DEF ServedBy
    <3> QED
      BY <2>2, <3>1 DEF StatusExact
  <2> QED
    BY <2>1, <2>2
<1>3. ASSUME NEW t \in Services \ {s} PROVE Status'[t] = Status[t]
  <2>1. CASE ServedBy(t) = {}
    <3>1. ServedBy(t)' = {}
      BY <1>3, <2>1 DEF ServedBy
    <3> QED
      BY <2>1, <3>1 DEF StatusExact
  <2>2. CASE ServedBy(t) # {}
    <3>1. PICK q \in Pids : hsv[q] # "free" /\ serves[q] = t
      BY <2>2 DEF ServedBy
    <3>2. q # p
      BY <3>1
    <3> QED
      BY <3>1, <3>2 DEF StatusExact
  <2> QED
    BY <2>1, <2>2
<1> QED
  BY <1>1, <1>2, <1>3

\* A step that is about no HSV.
LEMMA StatusUnchanged ==
  ASSUME UNCHANGED <<hsv, serves>>
  PROVE  Status' = Status
BY DEF Status, ServedBy

\* hsv_find() finds an entry exactly when the service has a supervisor.
LEMMA FoundIsSupervised ==
  ASSUME Mapped, NEW s \in Services, ~Registering
  PROVE  Found(s) <=> Status[s] # "free"
<1>1. ASSUME Found(s) PROVE Status[s] # "free"
  <2>1. PICK i \in Indices : hsv_table[i].service = s
    BY <1>1 DEF Found
  <2>2. hsv_table[i].pid \in Pids
    BY TableEntries DEF Mapped, IInv
  <2> QED
    BY <2>1, <2>2 DEF Mapped, IInv, RegistryExact, StatusExact
<1>2. ASSUME Status[s] # "free" PROVE Found(s)
  <2>1. PICK p \in Pids : hsv[p] # "free" /\ serves[p] = s
    BY <1>2 DEF Mapped, StatusExact, ServedBy
  <2>2. PICK i \in Indices : hsv_table[i].pid = p
    BY <2>1 DEF Mapped, IInv, RegistryExact
  <2> QED
    BY <2>1, <2>2 DEF Mapped, IInv, RegistryExact, Found
<1> QED
  BY <1>1, <1>2

\* kill(p, SIGTERM) tells the supervisor of the service that p serves.
LEMMA TerminateTells ==
  ASSUME Mapped, StatusExact', NEW p \in Pids, hsv[p] # "free",
         Terminate(p), UNCHANGED serves
  PROVE  serves[p] \in Services /\ Status' = Control!ToldToStop(serves[p])
<1> DEFINE s == serves[p]
<1>1. s \in Services /\ Status[s] = hsv[p]
  BY DEF Mapped, StatusExact
<1>2. /\ hsv'[p] = IF hsv[p] = "up" THEN "stopping" ELSE hsv[p]
      /\ \A q \in Pids \ {p} : hsv'[q] = hsv[q] /\ serves'[q] = serves[q]
  BY DEF Terminate, Mapped, IInv, TypeOK
<1>3. \A q \in Pids \ {p} : hsv[q] # "free" => serves[q] # s
  BY DEF Mapped, IInv, OneSupervisor
<1>4. Status' = [Status EXCEPT ![s] = hsv'[p]]
  BY <1>1, <1>2, <1>3, StatusChanges DEF Mapped
<1> QED
  BY <1>1, <1>2, <1>4 DEF Control!ToldToStop

-----------------------------------------------------------------------------

\* load_start_service(), up to fork().
LEMMA StartRefines ==
  ASSUME Mapped, NEW s \in Services, StartService(s)
  PROVE  Control!ControlNext
<1>1. /\ pc = "idle" /\ cmd' = "start" /\ svc' = s
      /\ cmd = "none" /\ svc = NoService /\ reply = "none"
  BY DEF StartService, Command, Mapped, CallState
<1>2. Status' = Status
  BY StatusUnchanged DEF StartService, procVars
<1>3. Found(s) <=> Status[s] # "free"
  BY <1>1, FoundIsSupervised DEF Registering
<1>4. \/ reply' = "ERR"
      \/ Found(s) /\ reply' = "OK"
      \/ ~Found(s) /\ reply' = reply
  BY DEF StartService, Return
<1>5. Control!StartCall(s)
  BY <1>1, <1>2, <1>3, <1>4 DEF Control!StartCall, Control!Request, Control!Quiet
<1> QED
  BY <1>5 DEF Control!ControlNext

\* load_stop_service() signals the HSV of the service it is asked to stop.
LEMMA StopRefines ==
  ASSUME Mapped, StatusExact', NEW s \in Services, StopService(s)
  PROVE  Control!ControlNext
<1>1. /\ pc = "idle" /\ cmd' = "stop" /\ svc' = s /\ reply' = "OK"
      /\ cmd = "none" /\ svc = NoService /\ serves' = serves
  BY DEF StopService, Command, Return, Mapped, CallState
<1>2. Found(s) <=> Status[s] # "free"
  BY <1>1, FoundIsSupervised DEF Registering
<1>3. Status' = Control!ToldToStop(s)
  <2>1. CASE Found(s)
    <3> DEFINE i == CHOOSE k \in Indices : hsv_table[k].service = s
               p == hsv_table[i].pid
    <3>1. i \in Indices /\ hsv_table[i].service = s
      BY <2>1 DEF Found
    <3>2. PidOf(s) = p
      BY DEF PidOf
    <3> HIDE DEF i
    <3>3. p \in Pids /\ hsv[p] # "free" /\ serves[p] = s
      BY <3>1, TableEntries DEF Mapped, IInv, RegistryExact
    <3>4. Terminate(p)
      BY <2>1, <3>2 DEF StopService
    <3> QED
      BY <1>1, <3>3, <3>4, TerminateTells
  <2>2. CASE ~Found(s)
    <3>1. Status' = Status
      BY <1>1, <2>2, StatusUnchanged DEF StopService
    <3>2. Status[s] = "free" /\ Status = [t \in Services |-> Status[t]]
      BY <1>2, <2>2 DEF Status
    <3>3. [Status EXCEPT ![s] = "free"] = Status
      BY <3>2
    <3> QED
      BY <3>1, <3>2, <3>3 DEF Control!ToldToStop
  <2> QED
    BY <2>1, <2>2
<1>4. Control!StopCall(s)
  BY <1>1, <1>3 DEF Control!StopCall, Control!Request, Control!Quiet
<1> QED
  BY <1>4 DEF Control!ControlNext

\* The calls that change no supervisor.
LEMMA OtherCallsRefine ==
  ASSUME Mapped, NEW s \in Services,
         RestartService(s) \/ EnableService(s) \/ DisableService(s)
  PROVE  Control!ControlNext
<1>1. /\ pc = "idle" /\ svc' = s /\ cmd = "none" /\ svc = NoService /\ reply = "none"
      /\ UNCHANGED <<hsv, serves>>
  BY DEF RestartService, EnableService, DisableService, Command, procVars, Mapped, CallState
<1>2. Status' = Status
  BY <1>1, StatusUnchanged
<1>3. Found(s) <=> Status[s] # "free"
  BY <1>1, FoundIsSupervised DEF Registering
<1>4. CASE RestartService(s)
  <2>1. Control!RestartCall(s)
    BY <1>1, <1>2, <1>3, <1>4 DEF RestartService, Command, Return, Control!RestartCall,
                                  Control!Request, Control!Quiet
  <2> QED
    BY <2>1 DEF Control!ControlNext
<1>5. CASE EnableService(s)
  <2>1. Control!LinkCall(s)
    BY <1>1, <1>2, <1>5 DEF EnableService, Command, Return, Control!LinkCall,
                            Control!Request, Control!Quiet
  <2> QED
    BY <2>1 DEF Control!ControlNext
<1>6. CASE DisableService(s)
  <2>1. Control!LinkCall(s)
    BY <1>1, <1>2, <1>6 DEF DisableService, Command, Return, Control!LinkCall,
                            Control!Request, Control!Quiet
  <2> QED
    BY <2>1 DEF Control!ControlNext
<1> QED
  BY <1>4, <1>5, <1>6

\* fork() launches the supervisor, or the call ends without one.
LEMMA ForkRefines ==
  ASSUME Mapped, StatusExact', Fork
  PROVE  Control!ControlNext
<1>1. /\ pc \in {"fork", "scan_fork"} /\ reply = "none" /\ cmd' = cmd
      /\ cmd = IF pc = "fork" THEN "start" ELSE "none"
      /\ svc \in Services /\ ~Found(svc)
  BY DEF Fork, Mapped, CallState, IInv, CallShape, ChecksHold, Starting
<1>2. Status[svc] = "free"
  BY <1>1, FoundIsSupervised DEF Registering
<1>3. CASE StartReturns("ERR") /\ UNCHANGED <<hsv, serves>>
  <2>1. Status' = Status
    BY <1>3, StatusUnchanged
  <2>2. IF cmd = "start" THEN reply' = "ERR" /\ svc' = svc
        ELSE svc' = NoService /\ reply' = reply
    BY <1>1, <1>3 DEF StartReturns, Return
  <2>3. Control!LaunchEnds
    BY <1>1, <1>2, <2>1, <2>2 DEF Control!LaunchEnds, Control!Launching
  <2> QED
    BY <2>3 DEF Control!ControlNext
<1>4. ASSUME NEW p \in Pids, hsv[p] = "free", UNCHANGED <<svc, reply>>,
             hsv' = [hsv EXCEPT ![p] = "up"], serves' = [serves EXCEPT ![p] = svc]
      PROVE  Control!ControlNext
  <2>1. /\ \A q \in Pids \ {p} : hsv'[q] = hsv[q] /\ serves'[q] = serves[q]
        /\ hsv'[p] = "up" /\ serves'[p] = svc
    BY <1>4 DEF Mapped, IInv, TypeOK
  <2>2. \A q \in Pids \ {p} : hsv[q] # "free" => serves[q] # svc
    BY <1>2 DEF Mapped, StatusExact
  <2>3. Status' = [Status EXCEPT ![svc] = "up"]
    BY <1>1, <1>4, <2>1, <2>2, StatusChanges DEF Mapped
  <2>4. Control!Launch
    BY <1>1, <1>2, <1>4, <2>3 DEF Control!Launch, Control!Launching
  <2> QED
    BY <2>4 DEF Control!ControlNext
<1> QED
  BY <1>3, <1>4 DEF Fork

\* hsv_register(): the call ends with a supervisor.
LEMMA RegisterRefines ==
  ASSUME Mapped, Register
  PROVE  Control!ControlNext
<1>1. /\ pc \in {"register", "scan_register"} /\ reply = "none" /\ cmd' = cmd
      /\ cmd = IF pc = "register" THEN "start" ELSE "none"
      /\ svc \in Services
  BY DEF Register, Mapped, CallState, IInv, CallShape, Starting
<1>2. Status' = Status
  BY StatusUnchanged DEF Register, procVars
<1>3. PICK p \in Pids : hsv[p] # "free" /\ serves[p] = svc
  BY DEF Register, Unregistered
<1>4. Status[svc] # "free"
  BY <1>3 DEF Mapped, StatusExact
<1>5. IF cmd = "start" THEN reply' = "OK" /\ svc' = svc
      ELSE svc' = NoService /\ reply' = reply
  BY <1>1 DEF Register, StartReturns, Return
<1>6. Control!LaunchEnds
  BY <1>1, <1>2, <1>4, <1>5 DEF Control!LaunchEnds, Control!Launching
<1> QED
  BY <1>6 DEF Control!ControlNext

\* An entry of the onboot directory.
LEMMA ScanRefines ==
  ASSUME Mapped, NEW s \in Services, ScanEntry(s)
  PROVE  [Control!ControlNext]_(Control!controlVars)
<1>1. /\ pc = "scan" /\ cmd = "none" /\ svc = NoService
      /\ UNCHANGED <<cmd, reply, hsv, serves>>
  BY DEF ScanEntry, procVars, Mapped, CallState
<1>2. Status' = Status
  BY <1>1, StatusUnchanged
<1>3. CASE ~Found(s) /\ svc' = s
  <2>1. Status[s] = "free"
    BY <1>1, <1>3, FoundIsSupervised DEF Registering
  <2>2. Control!OnbootCall(s)
    BY <1>1, <1>2, <1>3, <2>1 DEF Control!OnbootCall, Control!Quiet
  <2> QED
    BY <2>2 DEF Control!ControlNext
<1>4. CASE svc' = svc
  BY <1>1, <1>2, <1>4 DEF Control!controlVars
<1> QED
  BY <1>3, <1>4 DEF ScanEntry

\* hsv_shutdown_all() signals the HSV of the last entry.
LEMMA ShutdownKillRefines ==
  ASSUME Mapped, StatusExact', ShutdownKill
  PROVE  Control!ControlNext
<1>1. /\ pc = "shutdown" /\ cmd = "none" /\ svc = NoService
      /\ UNCHANGED <<cmd, svc, reply, serves>> /\ Terminate(LastPid) /\ hsv_table # <<>>
  BY DEF ShutdownKill, callVars, Mapped, CallState
<1>2. Len(hsv_table) \in Indices
  BY <1>1, LenProperties, EmptySeq DEF Mapped, IInv, TypeOK, Indices
<1>3. LastPid \in Pids /\ hsv[LastPid] # "free"
  BY <1>2, TableEntries DEF LastPid, Mapped, IInv, RegistryExact
<1>4. serves[LastPid] \in Services /\ Status' = Control!ToldToStop(serves[LastPid])
  BY <1>1, <1>3, TerminateTells
<1>5. Control!ShutdownOne(serves[LastPid])
  BY <1>1, <1>4 DEF Control!ShutdownOne, Control!Quiet
<1> QED
  BY <1>4, <1>5 DEF Control!ControlNext

\* A dead HSV is collected and its entry dropped.
LEMMA ForgetRefines ==
  ASSUME Mapped, StatusExact', NEW p \in Pids, hsv[p] = "zombie", Reap(p),
         pc \in {"wait", "reap"}, UNCHANGED callVars
  PROVE  Control!ControlNext
<1> DEFINE s == serves[p]
<1>1. s \in Services /\ Status[s] = "zombie"
  BY DEF Mapped, StatusExact
<1>2. /\ hsv'[p] = "free"
      /\ \A q \in Pids \ {p} : hsv'[q] = hsv[q] /\ serves'[q] = serves[q]
  BY DEF Reap, Mapped, IInv, TypeOK
<1>3. \A q \in Pids \ {p} : hsv[q] # "free" => serves[q] # s
  BY DEF Mapped, IInv, OneSupervisor
<1>4. Status' = [Status EXCEPT ![s] = "free"]
  BY <1>1, <1>2, <1>3, StatusChanges DEF Mapped
<1>5. cmd = "none" /\ svc = NoService /\ UNCHANGED <<cmd, svc, reply>>
  BY DEF Mapped, CallState, callVars
<1>6. Control!Forget(s)
  BY <1>1, <1>4, <1>5 DEF Control!Forget, Control!Quiet
<1> QED
  BY <1>1, <1>6 DEF Control!ControlNext

\* A HSV dies.
LEMMA ExitRefines ==
  ASSUME Mapped, StatusExact', NEW p \in Pids, HsvExit(p)
  PROVE  Control!ControlNext
<1> DEFINE s == serves[p]
<1>1. /\ hsv[p] \in {"up", "stopping"} /\ serves' = serves
      /\ hsv' = [hsv EXCEPT ![p] = "zombie"] /\ UNCHANGED <<cmd, svc, reply>>
  BY DEF HsvExit, callVars
<1>2. s \in Services /\ Status[s] = hsv[p]
  BY <1>1 DEF Mapped, StatusExact
<1>3. /\ hsv'[p] = "zombie"
      /\ \A q \in Pids \ {p} : hsv'[q] = hsv[q] /\ serves'[q] = serves[q]
  BY <1>1 DEF Mapped, IInv, TypeOK
<1>4. \A q \in Pids \ {p} : hsv[q] # "free" => serves[q] # s
  BY <1>1 DEF Mapped, IInv, OneSupervisor
<1>5. Status' = [Status EXCEPT ![s] = "zombie"]
  BY <1>1, <1>2, <1>3, <1>4, StatusChanges DEF Mapped
<1>6. Control!Die(s)
  BY <1>1, <1>2, <1>5 DEF Control!Die
<1> QED
  BY <1>2, <1>6 DEF Control!ControlNext

\* Every step of Load is a step of ServiceControl or changes nothing there.
LEMMA StepRefines ==
  ASSUME Mapped, StatusExact', [Next]_vars
  PROVE  [Control!ControlNext]_(Control!controlVars)
<1> DEFINE Refined == [Control!ControlNext]_(Control!controlVars)
<1>1. ASSUME NEW s \in Services,
             \/ StartService(s) \/ StopService(s) \/ RestartService(s)
             \/ EnableService(s) \/ DisableService(s)
      PROVE  Refined
  BY <1>1, StartRefines, StopRefines, OtherCallsRefine
<1>2. CASE Fork
  BY <1>2, ForkRefines
<1>3. CASE Register
  BY <1>3, RegisterRefines
<1>4. ASSUME NEW s \in Services, ScanEntry(s) PROVE Refined
  BY <1>4, ScanRefines
<1>5. CASE Symlink
  <2>1. /\ cmd = "enable" /\ reply = "none" /\ UNCHANGED <<cmd, svc, hsv, serves>>
        /\ reply' \in {"OK", "ERR"}
    BY <1>5 DEF Symlink, Return, procVars, Mapped, CallState
  <2>2. Control!LinkEnds
    BY <2>1, StatusUnchanged DEF Control!LinkEnds
  <2> QED
    BY <2>2 DEF Control!ControlNext
<1>6. CASE Reply
  <2>1. /\ reply # "none" /\ UNCHANGED <<hsv, serves>>
        /\ cmd' = "none" /\ svc' = NoService /\ reply' = "none"
    BY <1>6 DEF Reply, procVars, Mapped, CallState
  <2>2. Control!Answer
    BY <2>1, StatusUnchanged DEF Control!Answer
  <2> QED
    BY <2>2 DEF Control!ControlNext
<1>7. CASE ShutdownKill
  BY <1>7, ShutdownKillRefines
<1>8. CASE ShutdownWait
  <2>1. pc = "wait" /\ hsv[LastPid] \in {"zombie", "free"} /\ Reap(LastPid)
        /\ UNCHANGED callVars
    BY <1>8 DEF ShutdownWait
  <2>2. Len(hsv_table) \in Indices
    BY <2>1, LenProperties, EmptySeq DEF Mapped, IInv, TypeOK, CallShape, Indices
  <2>3. LastPid \in Pids /\ hsv[LastPid] # "free"
    BY <2>2, TableEntries DEF LastPid, Mapped, IInv, RegistryExact
  <2> QED
    BY <2>1, <2>3, ForgetRefines
<1>9. ASSUME NEW p \in Pids, ReapChild(p) PROVE Refined
  BY <1>9, ForgetRefines DEF ReapChild
<1>10. ASSUME NEW p \in Pids, HsvExit(p) PROVE Refined
  BY <1>10, ExitRefines
<1>11. CASE \/ LoadOnboot \/ BeginShutdownAll \/ ScanDone \/ ShutdownDone \/ ReapDone
            \/ BeginReap \/ (\E s \in Removable : ChangeDirs(s)) \/ UNCHANGED vars
  <2>1. UNCHANGED <<cmd, svc, reply, hsv, serves>>
    BY <1>11 DEF LoadOnboot, BeginShutdownAll, ScanDone, ShutdownDone, ReapDone,
                 BeginReap, ChangeDirs, vars, callVars, procVars
  <2> QED
    BY <2>1, StatusUnchanged DEF Control!controlVars
<1> QED
  BY <1>1, <1>2, <1>3, <1>4, <1>5, <1>6, <1>7, <1>8, <1>9, <1>10, <1>11
     DEF Next, Call, Continue, Environment

\* The loader keeps the promise of ServiceControl: every call acts on the
\* service it names and answers with the truth, for any services, any pids and
\* any MAX_HSV.
THEOREM Refinement == Spec => ImplementsServiceControl
<1>1. Init => CallState
  BY DEF Init, CallState
<1>2. Init => Control!ControlInit
  <2> SUFFICES ASSUME Init PROVE Control!ControlInit
    OBVIOUS
  <2>1. \A s \in Services : ServedBy(s) = {}
    BY DEF Init, ServedBy
  <2>2. Status = [s \in Services |-> "free"]
    BY <2>1 DEF Status
  <2> QED
    BY <2>2 DEF Init, Control!ControlInit
<1>3. IInv /\ CallState /\ [Next]_vars => CallState'
  BY CallStateStep
<1>4. /\ IInv /\ CallState /\ StatusExact /\ StatusExact' /\ [Next]_vars
      => [Control!ControlNext]_(Control!controlVars)
  BY StepRefines DEF Mapped
<1> QED
  BY <1>1, <1>2, <1>3, <1>4, StatusIsExact, Invariance, PTL
     DEF Spec, ImplementsServiceControl, Control!ControlSpec
=============================================================================
