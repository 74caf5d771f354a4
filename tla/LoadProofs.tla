----------------------------- MODULE LoadProofs ----------------------------
(***************************************************************************)
(* Proofs about Load, for any services, any pids and any MAX_HSV: its      *)
(* type, that the table is exactly the set of uncollected HSVs, that a     *)
(* service has at most one HSV, that hsv_register() never refuses, and     *)
(* that hsv_shutdown_all() leaves no HSV.                                  *)
(***************************************************************************)
EXTENDS Load, SequenceTheorems, TLAPS

Starting == {"fork", "scan_fork", "register", "scan_register"}

\* A call that is about a service has one, and the wait of hsv_shutdown_all()
\* is for the HSV of an entry.
CallShape ==
  /\ pc \in Starting \cup {"symlink"} => svc \in Services
  /\ pc = "wait" => hsv_table # <<>>

\* What load_start_service() has checked stays true up to hsv_register().
ChecksHold == pc \in Starting => ~Found(svc) /\ Len(hsv_table) < MaxHsv

\* The inductive invariant.
IInv == TypeOK /\ CallShape /\ ChecksHold /\ RegistryExact /\ OneSupervisor

-----------------------------------------------------------------------------

\* The process starts with an empty table and without a HSV.
LEMMA InitIInv == Init => IInv
<1> SUFFICES ASSUME Init PROVE IInv
  OBVIOUS
<1> USE LoadAssumption DEF Init
<1>1. hsv_table \in Seq(Entries) /\ Len(hsv_table) = 0
  BY EmptySeq
<1>2. TypeOK
  <2>1. Len(hsv_table) <= MaxHsv
    BY <1>1
  <2>2. sigchld \in BOOLEAN
    OBVIOUS
  <2>3. hsv \in [Pids -> {"free", "up", "stopping", "zombie"}]
    OBVIOUS
  <2>4. dirs \in SUBSET Services
    OBVIOUS
  <2> QED
    BY <1>1, <2>1, <2>2, <2>3, <2>4, Zenon DEF TypeOK, Locations, Commands
<1>3. CallShape /\ ChecksHold
  BY DEF CallShape, ChecksHold, Starting
<1>4. RegistryExact
  BY <1>1 DEF RegistryExact, Indices
<1>5. OneSupervisor
  BY DEF OneSupervisor
<1> QED
  BY <1>2, <1>3, <1>4, <1>5 DEF IInv

\* The elements of the table are entries.
LEMMA TableEntries ==
  ASSUME TypeOK
  PROVE  /\ Len(hsv_table) \in Nat
         /\ \A j \in Indices : hsv_table[j] \in Entries
         /\ \A j \in Indices : hsv_table[j].pid \in Pids
<1>1. hsv_table \in Seq(Entries)
  BY DEF TypeOK
<1>2. \A j \in Indices : hsv_table[j] \in Entries
  BY <1>1, ElementOfSeq DEF Indices
<1> QED
  BY <1>1, <1>2, LenProperties DEF Entries

\* hsv_unregister(i) yields a table that is one shorter, in which every entry
\* but the one at i is left and every entry was there before.
LEMMA UnregisterProperties ==
  ASSUME TypeOK, NEW i \in Indices
  PROVE  /\ Unregister(i) \in Seq(Entries)
         /\ Len(Unregister(i)) = Len(hsv_table) - 1
         /\ \A j \in 1..(Len(hsv_table) - 1) :
              Unregister(i)[j] = hsv_table[IF j < i THEN j ELSE j + 1]
<1> DEFINE n == Len(hsv_table) - 1
<1>1. Len(hsv_table) \in Nat
  BY TableEntries
<1>2. n \in Nat /\ i \in 1..(n + 1)
  BY <1>1 DEF Indices
<1>3. \A j \in Indices : hsv_table[j] \in Entries
  BY TableEntries
<1>4. \A j \in 1..n : j \in Indices /\ j + 1 \in Indices
  BY <1>1, <1>2 DEF Indices
<1>5. Unregister(i) \in [1..n -> Entries]
  BY <1>3, <1>4 DEF Unregister
<1>6. Unregister(i) \in Seq(Entries)
  BY <1>2, <1>5, SeqDef
<1>7. DOMAIN Unregister(i) = 1..n
  BY <1>5
<1>8. Len(Unregister(i)) = n
  BY <1>2, <1>6, <1>7, LenProperties
<1>9. \A j \in 1..n : Unregister(i)[j] = hsv_table[IF j < i THEN j ELSE j + 1]
  BY DEF Unregister
<1> QED
  BY <1>6, <1>8, <1>9

\* Collecting the HSV of an entry together with dropping the entry, as the reap
\* loop and hsv_shutdown_all() do, keeps the table exact.
LEMMA ForgetKeepsRegistry ==
  ASSUME TypeOK, RegistryExact, OneSupervisor, ~Registering, pc' \notin Starting,
         NEW i \in Indices,
         Reap(hsv_table[i].pid), hsv_table' = Unregister(i)
  PROVE  RegistryExact' /\ OneSupervisor'
<1> DEFINE q == hsv_table[i].pid
           n == Len(hsv_table) - 1
           old(j) == IF j < i THEN j ELSE j + 1
<1>1. /\ Len(hsv_table) \in Nat
      /\ \A j \in Indices : hsv_table[j].pid \in Pids
  BY TableEntries
<1>2. Indices' = 1..n /\ \A j \in 1..n : hsv_table'[j] = hsv_table[old(j)]
  BY UnregisterProperties DEF Indices
<1>3. \A j \in 1..n : old(j) \in Indices /\ old(j) # i
  BY <1>1 DEF Indices
<1>4. /\ \A p \in Pids \ {q} : hsv'[p] = hsv[p] /\ serves'[p] = serves[p]
      /\ hsv'[q] = "free"
  BY <1>1 DEF Reap, TypeOK
<1>5. \A j \in 1..n : hsv_table'[j].pid \in Pids \ {q}
  BY <1>1, <1>2, <1>3 DEF RegistryExact
<1>6. ASSUME NEW j \in Indices'
      PROVE  /\ hsv'[hsv_table'[j].pid] # "free"
             /\ serves'[hsv_table'[j].pid] = hsv_table'[j].service
  BY <1>2, <1>3, <1>4, <1>5, <1>6 DEF RegistryExact
<1>7. ASSUME NEW j \in Indices', NEW k \in Indices',
             hsv_table'[j].pid = hsv_table'[k].pid
      PROVE  j = k
  <2>1. old(j) = old(k)
    BY <1>2, <1>3, <1>7 DEF RegistryExact
  <2> QED
    BY <2>1, <1>1, <1>2, <1>7 DEF Indices
<1>8. ASSUME NEW p \in Pids, hsv'[p] # "free"
      PROVE  \E j \in Indices' : hsv_table'[j].pid = p
  <2>1. p # q /\ hsv[p] # "free"
    BY <1>4, <1>8
  <2>2. PICK k \in Indices : hsv_table[k].pid = p
    BY <2>1 DEF RegistryExact
  <2>3. k # i
    BY <2>1, <2>2
  <2> DEFINE j == IF k < i THEN k ELSE k - 1
  <2>4. j \in 1..n /\ old(j) = k
    BY <2>3, <1>1 DEF Indices
  <2> QED
    BY <2>2, <2>4, <1>2
<1>9. RegistryExact'
  BY <1>6, <1>7, <1>8 DEF RegistryExact
<1>10. OneSupervisor'
  BY <1>1, <1>4 DEF OneSupervisor
<1> QED
  BY <1>9, <1>10

\* The step leaves the table alone, neither makes nor collects a HSV, and does
\* not come between fork() and hsv_register().
TableUntouched ==
  /\ UNCHANGED <<hsv_table, serves>>
  /\ \A p \in Pids : hsv'[p] = "free" <=> hsv[p] = "free"
  /\ Registering => Registering' /\ svc' = svc

\* Such a step keeps the table exact.
LEMMA UntouchedKeepsRegistry ==
  ASSUME TypeOK, RegistryExact, OneSupervisor, TableUntouched
  PROVE  RegistryExact' /\ OneSupervisor'
<1>1. Indices' = Indices /\ \A j \in Indices : hsv_table[j].pid \in Pids
  BY TableEntries DEF TableUntouched, Indices
<1>2. RegistryExact'
  BY <1>1 DEF RegistryExact, TableUntouched
<1>3. OneSupervisor'
  BY DEF OneSupervisor, TableUntouched
<1> QED
  BY <1>2, <1>3

-----------------------------------------------------------------------------

\* The steps that do not touch the table keep the rest of IInv.
LEMMA QuietSteps ==
  ASSUME IInv,
         \/ Call \/ BeginReap \/ Environment
         \/ (\E s \in Services : ScanEntry(s)) \/ ScanDone \/ Symlink \/ Reply
         \/ ShutdownKill \/ ShutdownDone \/ ReapDone
  PROVE  TypeOK' /\ CallShape' /\ ChecksHold' /\ TableUntouched
<1> DEFINE Kept == TypeOK' /\ CallShape' /\ ChecksHold' /\ TableUntouched
<1>t. /\ Len(hsv_table) \in Nat
      /\ \A j \in Indices : hsv_table[j].pid \in Pids
  BY TableEntries DEF IInv
<1> USE <1>t, LoadAssumption
    DEF IInv, TypeOK, CallShape, ChecksHold, TableUntouched, Registering, Starting,
        Locations, Commands, Found, Indices, Command, Return, callVars,
        procVars, fileVars
<1>1. ASSUME NEW s \in Services, StartService(s) PROVE Kept
  <2>1. CASE CannotStart(s) \/ Found(s)
    BY <1>1, <2>1 DEF StartService
  <2>2. CASE ~CannotStart(s) /\ ~Found(s)
    BY <1>1, <2>2 DEF StartService, CannotStart
  <2> QED
    BY <2>1, <2>2
<1>2. ASSUME NEW s \in Services, StopService(s) PROVE Kept
  BY <1>2 DEF StopService, Terminate, PidOf
<1>3. ASSUME NEW s \in Services, RestartService(s) PROVE Kept
  BY <1>3 DEF RestartService
<1>4. ASSUME NEW s \in Services, EnableService(s) PROVE Kept
  BY <1>4 DEF EnableService
<1>5. ASSUME NEW s \in Services, DisableService(s) PROVE Kept
  BY <1>5 DEF DisableService
<1>6. CASE LoadOnboot
  BY <1>6 DEF LoadOnboot
<1>7. CASE BeginShutdownAll
  BY <1>7 DEF BeginShutdownAll
<1>8. CASE Reply
  BY <1>8 DEF Reply
<1>9. ASSUME NEW s \in Services, ScanEntry(s) PROVE Kept
  BY <1>9 DEF ScanEntry, CannotStart
<1>10. CASE ScanDone
  BY <1>10 DEF ScanDone
<1>11. CASE Symlink
  BY <1>11 DEF Symlink
<1>12. CASE ShutdownKill
  BY <1>12 DEF ShutdownKill, Terminate, LastPid
<1>13. CASE ShutdownDone
  BY <1>13 DEF ShutdownDone
<1>14. CASE BeginReap
  BY <1>14 DEF BeginReap
<1>15. CASE ReapDone
  BY <1>15 DEF ReapDone
<1>16. ASSUME NEW p \in Pids, HsvExit(p) PROVE Kept
  BY <1>16 DEF HsvExit
<1>17. ASSUME NEW s \in Removable, ChangeDirs(s) PROVE Kept
  BY <1>17 DEF ChangeDirs
<1> QED
  BY <1>1, <1>2, <1>3, <1>4, <1>5, <1>6, <1>7, <1>8, <1>9, <1>10, <1>11, <1>12, <1>13, <1>14, <1>15, <1>16, <1>17 DEF Call, Environment

\* fork() adds a HSV of a service that has none.
LEMMA ForkStep ==
  ASSUME IInv, Fork
  PROVE  IInv'
<1> USE LoadAssumption DEF IInv
<1>t. /\ Len(hsv_table) \in Nat
      /\ \A j \in Indices : hsv_table[j].pid \in Pids
  BY TableEntries
<1>1. CASE UNCHANGED <<hsv, serves>>
  <2>1. pc' \in {"reply", "scan"} /\ TypeOK'
    BY <1>1 DEF Fork, StartReturns, Return, TypeOK, Locations, fileVars
  <2>2. CallShape' /\ ChecksHold'
    BY <2>1 DEF CallShape, ChecksHold, Starting
  <2>3. TableUntouched
    BY <1>1 DEF Fork, TableUntouched, Registering, fileVars
  <2> QED
    BY <2>1, <2>2, <2>3, UntouchedKeepsRegistry
<1>2. ASSUME NEW p \in Pids, hsv[p] = "free",
             hsv' = [hsv EXCEPT ![p] = "up"],
             serves' = [serves EXCEPT ![p] = svc],
             pc' = IF pc = "fork" THEN "register" ELSE "scan_register",
             UNCHANGED <<svc, reply>>
      PROVE  IInv'
  <2>1. /\ UNCHANGED <<hsv_table, cmd, todo, sigchld, fileVars>>
        /\ pc \in {"fork", "scan_fork"}
    BY DEF Fork
  <2>2. svc \in Services /\ ~Found(svc) /\ Len(hsv_table) < MaxHsv
    BY <2>1 DEF CallShape, ChecksHold, Starting
  <2>3. TypeOK'
    BY <1>2, <2>1, <2>2 DEF TypeOK, Locations, fileVars
  <2>4. CallShape' /\ ChecksHold'
    BY <1>2, <2>1, <2>2 DEF CallShape, ChecksHold, Starting, Found, Indices
  <2>5. /\ \A q \in Pids \ {p} : hsv'[q] = hsv[q] /\ serves'[q] = serves[q]
        /\ hsv'[p] = "up" /\ serves'[p] = svc
        /\ Indices' = Indices /\ hsv_table' = hsv_table
        /\ ~Registering /\ Registering' /\ svc' = svc
    BY <1>2, <2>1 DEF TypeOK, Indices, Registering
  <2>6. \A i \in Indices : hsv_table[i].pid \in Pids \ {p}
    BY <1>t, <1>2 DEF RegistryExact
  <2>7. RegistryExact'
    BY <2>5, <2>6 DEF RegistryExact
  <2>8. ASSUME NEW q \in Pids \ {p}, hsv[q] # "free" PROVE serves[q] # svc
    <3>1. PICK i \in Indices : hsv_table[i].pid = q
      BY <2>5, <2>8 DEF RegistryExact
    <3> QED
      BY <3>1, <2>2 DEF RegistryExact, Found
  <2>9. OneSupervisor'
    BY <2>5, <2>8 DEF OneSupervisor
  <2> QED
    BY <2>3, <2>4, <2>7, <2>9
<1> QED
  BY <1>1, <1>2 DEF Fork

\* hsv_register() adds the one HSV that was missing.
LEMMA RegisterStep ==
  ASSUME IInv, Register
  PROVE  IInv'
<1> USE LoadAssumption DEF IInv
<1>t. /\ hsv_table \in Seq(Entries) /\ Len(hsv_table) \in Nat
      /\ \A j \in Indices : hsv_table[j].pid \in Pids
  BY TableEntries DEF TypeOK
<1>1. PICK p \in Pids : /\ Unregistered(p)
                        /\ hsv_table' = Append(hsv_table, [pid |-> p, service |-> svc])
  BY DEF Register, Registered
<1> DEFINE n == Len(hsv_table)
           e == [pid |-> p, service |-> svc]
<1>2. /\ pc \in {"register", "scan_register"} /\ pc' \in {"reply", "scan"}
      /\ UNCHANGED <<cmd, todo, hsv, serves, sigchld, dirs, onboot>>
      /\ svc' \in {svc, NoService} /\ reply' \in {reply, "OK"}
  BY DEF Register, StartReturns, Return, procVars, fileVars
<1>3. svc \in Services /\ n < MaxHsv
  BY <1>2 DEF CallShape, ChecksHold, Starting
<1>4. e \in Entries
  BY <1>3 DEF Entries
<1>5. /\ hsv_table' \in Seq(Entries) /\ Len(hsv_table') = n + 1
      /\ \A i \in 1..n : hsv_table'[i] = hsv_table[i]
      /\ hsv_table'[n + 1] = e
  BY <1>t, <1>1, <1>4, AppendProperties
<1>6. TypeOK'
  BY <1>t, <1>2, <1>3, <1>5 DEF TypeOK, Locations
<1>7. CallShape' /\ ChecksHold'
  BY <1>2 DEF CallShape, ChecksHold, Starting
<1>8. Indices' = Indices \cup {n + 1}
  BY <1>t, <1>5 DEF Indices
<1>9. e.pid = p /\ e.service = svc
  OBVIOUS
<1>10. /\ hsv[p] # "free" /\ serves[p] = svc
       /\ \A i \in Indices : hsv_table[i].pid # p
  BY <1>1 DEF Unregistered
<1>11. \A q \in Pids : hsv[q] # "free" /\ serves[q] = svc => q = p
  BY <1>10 DEF OneSupervisor
<1>12. RegistryExact'
  <2>1. \A i \in Indices' : /\ hsv'[hsv_table'[i].pid] # "free"
                            /\ serves'[hsv_table'[i].pid] = hsv_table'[i].service
    BY <1>2, <1>5, <1>8, <1>9, <1>10 DEF RegistryExact, Indices
  <2>2. \A i, j \in Indices' : hsv_table'[i].pid = hsv_table'[j].pid => i = j
    BY <1>5, <1>8, <1>9, <1>10 DEF RegistryExact, Indices
  <2>3. ASSUME NEW q \in Pids, hsv'[q] # "free"
        PROVE  \E i \in Indices' : hsv_table'[i].pid = q
    <3>1. CASE q = p
      BY <3>1, <1>5, <1>8, <1>9
    <3>2. CASE q # p
      <4>1. PICK i \in Indices : hsv_table[i].pid = q
        BY <2>3, <3>2, <1>2, <1>11 DEF RegistryExact
      <4> QED
        BY <4>1, <1>5, <1>8 DEF Indices
    <3> QED
      BY <3>1, <3>2
  <2> QED
    BY <2>1, <2>2, <2>3 DEF RegistryExact
<1>13. OneSupervisor'
  BY <1>2 DEF OneSupervisor
<1> QED
  BY <1>6, <1>7, <1>12, <1>13
\* The common part of the two steps that collect a HSV of the table.
LEMMA ForgetStep ==
  ASSUME IInv, NEW i \in Indices,
         Reap(hsv_table[i].pid), hsv_table' = Unregister(i),
         pc \in {"wait", "reap"}, pc' \in {"shutdown", "reap"},
         UNCHANGED <<callVars, sigchld, fileVars>>
  PROVE  IInv'
<1> USE LoadAssumption DEF IInv
<1>1. /\ hsv_table' \in Seq(Entries) /\ Len(hsv_table) \in Nat
      /\ Len(hsv_table') = Len(hsv_table) - 1
      /\ hsv_table[i].pid \in Pids
  BY UnregisterProperties, TableEntries
<1>2. TypeOK'
  BY <1>1 DEF TypeOK, Locations, Reap, callVars, fileVars
<1>3. CallShape' /\ ChecksHold'
  BY DEF CallShape, ChecksHold, Starting
<1>4. ~Registering /\ pc' \notin Starting
  BY DEF Registering, Starting
<1> QED
  BY <1>2, <1>3, <1>4, ForgetKeepsRegistry

\* hsv_shutdown_all() collects the HSV of the last entry and drops it.
LEMMA ShutdownWaitStep ==
  ASSUME IInv, ShutdownWait
  PROVE  IInv'
<1> DEFINE n == Len(hsv_table)
<1>1. hsv_table \in Seq(Entries) /\ hsv_table # <<>>
  BY DEF IInv, TypeOK, CallShape, ShutdownWait
<1>2. n \in Indices
  BY <1>1, LenProperties, EmptySeq DEF Indices
<1>3. /\ Reap(hsv_table[n].pid) /\ hsv_table' = Unregister(n)
      /\ pc = "wait" /\ pc' = "shutdown"
      /\ UNCHANGED <<callVars, sigchld, fileVars>>
  BY DEF ShutdownWait, LastPid
<1> QED
  BY <1>2, <1>3, ForgetStep

\* The reap loop finds the entry of the HSV that it has collected.
LEMMA ReapChildStep ==
  ASSUME IInv, NEW p \in Pids, ReapChild(p)
  PROVE  IInv'
<1> USE DEF IInv
<1>1. pc = "reap" /\ hsv[p] # "free" /\ ~Registering
  BY DEF ReapChild, Registering
<1>2. PICK i \in Indices : hsv_table[i].pid = p
  BY <1>1 DEF RegistryExact
<1> DEFINE owned == {j \in Indices : hsv_table[j].pid = p}
<1>3. owned = {i}
  BY <1>2 DEF RegistryExact
<1>4. i <= i
  BY <1>2, TableEntries DEF Indices
<1>5. (CHOOSE j \in owned : \A k \in owned : j <= k) = i
  BY <1>3, <1>4
<1>6. ChildExit(p) = Unregister(i)
  BY <1>3, <1>5 DEF ChildExit
<1>7. /\ Reap(hsv_table[i].pid) /\ hsv_table' = Unregister(i)
      /\ pc' = "reap" /\ UNCHANGED <<callVars, sigchld, fileVars>>
  BY <1>2, <1>6, <1>1 DEF ReapChild
<1> QED
  BY <1>1, <1>7, ForgetStep

\* Every step of the loader, of a HSV and of the administrator keeps IInv.
LEMMA NextIInv == IInv /\ [Next]_vars => IInv'
<1> SUFFICES ASSUME IInv, [Next]_vars PROVE IInv'
  OBVIOUS
<1>1. CASE \/ Call \/ BeginReap \/ Environment
           \/ (\E s \in Services : ScanEntry(s)) \/ ScanDone \/ Symlink \/ Reply
           \/ ShutdownKill \/ ShutdownDone \/ ReapDone
  <2>1. TypeOK' /\ CallShape' /\ ChecksHold' /\ TableUntouched
    BY <1>1, QuietSteps
  <2> QED
    BY <2>1, UntouchedKeepsRegistry DEF IInv
<1>2. CASE Fork
  BY <1>2, ForkStep
<1>3. CASE Register
  BY <1>3, RegisterStep
<1>4. CASE ShutdownWait
  BY <1>4, ShutdownWaitStep
<1>5. CASE \E p \in Pids : ReapChild(p)
  BY <1>5, ReapChildStep
<1>6. CASE UNCHANGED vars
  BY <1>6 DEF IInv, TypeOK, CallShape, ChecksHold, RegistryExact, OneSupervisor,
              Found, Indices, Registering, vars, callVars, procVars, fileVars
<1> QED
  BY <1>1, <1>2, <1>3, <1>4, <1>5, <1>6 DEF Next, Continue

\* IInv is an invariant.
LEMMA Invariance == Spec => []IInv
BY InitIInv, NextIInv, PTL DEF Spec

-----------------------------------------------------------------------------
(***************************************************************************)
(* The theorems.                                                           *)
(***************************************************************************)

\* The variables of load.c keep their types; in particular hsv_count never
\* exceeds MAX_HSV.
THEOREM TypeCorrect == Spec => []TypeOK
<1>1. IInv => TypeOK
  BY DEF IInv
<1> QED
  BY <1>1, Invariance, PTL

\* hsv_table is exactly the set of HSVs that have not been collected, so every
\* kill() and waitpid() of load.c is about the HSV that it is meant for.
THEOREM TableExact == Spec => []RegistryExact
<1>1. IInv => RegistryExact
  BY DEF IInv
<1> QED
  BY <1>1, Invariance, PTL

\* load_start_service() and load_onboot() never give a service a second HSV.
THEOREM SupervisorUnique == Spec => []OneSupervisor
<1>1. IInv => OneSupervisor
  BY DEF IInv
<1> QED
  BY <1>1, Invariance, PTL

\* hsv_register() never refuses: what was checked before fork() still holds.
THEOREM RegistrationSucceeds == Spec => []RegisterSucceeds
<1>1. IInv => RegisterSucceeds
  BY DEF IInv, ChecksHold, RegisterSucceeds, Registering, Starting
<1> QED
  BY <1>1, Invariance, PTL

\* When hsv_shutdown_all() returns, no HSV is left.
THEOREM ShutdownLeavesNone == Spec => AllHsvStopped
<1> DEFINE A == pc = "shutdown" /\ pc' = "idle" => \A p \in Pids : hsv'[p] = "free"
<1>1. ASSUME IInv, [Next]_vars PROVE [A]_vars
  <2> SUFFICES ASSUME Next, pc = "shutdown", pc' = "idle"
               PROVE  \A p \in Pids : hsv'[p] = "free"
    BY <1>1
  <2>1. ShutdownDone
    BY DEF Next, Call, Continue, Environment, LoadOnboot, BeginShutdownAll,
           StartService, StopService, RestartService, EnableService,
           DisableService, Command, Fork, Register, ScanEntry, ScanDone, Symlink,
           Reply, ShutdownKill, ShutdownWait, ReapChild, ReapDone, BeginReap,
           HsvExit, ChangeDirs
  <2>2. hsv_table = <<>> /\ hsv' = hsv /\ ~Registering
    BY <2>1 DEF ShutdownDone, procVars, Registering
  <2>3. Indices = {}
    BY <2>2 DEF Indices
  <2> QED
    BY <1>1, <2>2, <2>3 DEF IInv, RegistryExact
<1> QED
  BY <1>1, Invariance, PTL DEF Spec, AllHsvStopped
=============================================================================
