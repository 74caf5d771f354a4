----------------------------- MODULE HsvProofs -----------------------------
(***************************************************************************)
(* Proofs about Hsv, for any pids, any inherited signal mask and any       *)
(* length of the grace period: its type, that HSV never has more than one  *)
(* instance of its service and signals no other process, and that it       *)
(* implements Supervisor.                                                  *)
(***************************************************************************)
EXTENDS Hsv, TLAPS

\* While HSV polls or stops its service, the only instance is the one in pid;
\* at every other place there is none.  An instance is alive or dead.
InstanceIsPid ==
  /\ IF pc \in Polling \cup Stopping
     THEN pid \in Pids /\ alive \cup dead = {pid}
     ELSE alive \cup dead = {}
  /\ alive \cap dead = {}

\* A script only executes where hsv_exec_script() is called.
HookAtPoint == in_hook => pc \in HookPoints

IInv == TypeOK /\ InstanceIsPid /\ HookAtPoint

\* HSV starts without an instance and outside any script.
LEMMA InitIInv == Init => IInv
<1> SUFFICES ASSUME Init PROVE IInv
  OBVIOUS
<1> USE HsvAssumption
    DEF Init, Locations, Setup, Polling, Stopping, HookPoints, Ended
<1>1. elapsed \in 0..StopTicks
  OBVIOUS
<1>2. TypeOK
  BY <1>1 DEF TypeOK
<1>3. InstanceIsPid /\ HookAtPoint
  BY DEF InstanceIsPid, HookAtPoint
<1> QED
  BY <1>2, <1>3 DEF IInv

\* Collecting the instance in pid leaves no instance.
LEMMA CollectEmpties ==
  ASSUME IInv, pc \in Polling \cup Stopping, Collect
  PROVE  /\ pid' \in Pids
         /\ alive' = {} /\ dead' = {}
BY DEF IInv, InstanceIsPid, Collect

\* Every step of HSV, of its service and of its scripts keeps IInv.
LEMMA NextIInv == IInv /\ [Next]_vars => IInv'
<1> SUFFICES ASSUME IInv, [Next]_vars PROVE IInv'
  OBVIOUS
<1> USE HsvAssumption
    DEF IInv, TypeOK, InstanceIsPid, HookAtPoint, Locations, Setup, Polling,
        Stopping, HookPoints, Ended, Goto, flagVars, svcVars
<1>1. CASE SetupStep
  BY <1>1 DEF SetupStep
<1>2. CASE Top
  BY <1>2 DEF Top
<1>3. CASE SpawnService
  BY <1>3 DEF SpawnService
<1>4. CASE Sleep
  BY <1>4 DEF Sleep
<1>5. CASE Poll
  <2>1. CASE pid \in dead
    BY <1>5, <2>1, CollectEmpties DEF Poll, Collect
  <2>2. CASE pid \notin dead
    BY <1>5, <2>2 DEF Poll, Collect
  <2> QED
    BY <2>1, <2>2
<1>6. CASE CheckRestart
  BY <1>6 DEF CheckRestart
<1>7. CASE CheckShutdown
  BY <1>7 DEF CheckShutdown
<1>8. CASE After
  BY <1>8 DEF After
<1>9. CASE SendTerm
  BY <1>9 DEF SendTerm
<1>10. CASE Grace
  <2>1. CASE pid \in dead
    BY <1>10, <2>1, CollectEmpties DEF Grace, Collect, StopReturns
  <2>2. CASE pid \notin dead
    BY <1>10, <2>2 DEF Grace, Collect
  <2> QED
    BY <2>1, <2>2
<1>11. CASE SendKill
  BY <1>11 DEF SendKill
<1>12. CASE WaitKill
  BY <1>12, CollectEmpties DEF WaitKill, Collect, StopReturns
<1>13. CASE StartHook
  BY <1>13 DEF StartHook
<1>14. CASE SkipHook
  BY <1>14 DEF SkipHook, HookReturns
<1>15. CASE EndHook
  <2>1. pc \in HookPoints
    BY <1>15, Zenon DEF EndHook
  <2>2. pc' \in {"after", "finish_hook", "exit"}
    BY <1>15, <2>1 DEF EndHook, HookReturns
  <2>3. in_hook' = FALSE /\ UNCHANGED <<flagVars, svcVars, elapsed, why>>
    BY <1>15 DEF EndHook
  <2>4. TypeOK'
    BY <2>2, <2>3
  <2>5. InstanceIsPid'
    BY <2>1, <2>2, <2>3
  <2> QED
    BY <2>3, <2>4, <2>5
<1>16. ASSUME NEW p \in Pids, ServiceExit(p) PROVE IInv'
  BY <1>16 DEF ServiceExit
<1>17. ASSUME NEW s \in {"TERM", "USR1"}, Receive(s) PROVE IInv'
  BY <1>17 DEF Receive, Handled
<1>18. CASE UNCHANGED vars
  BY <1>18 DEF vars
<1> HIDE DEF IInv
<1> QED
  BY <1>1, <1>2, <1>3, <1>4, <1>5, <1>6, <1>7, <1>8, <1>9, <1>10, <1>11,
     <1>12, <1>13, <1>14, <1>15, <1>16, <1>17, <1>18
     DEF Next, HsvStep, Environment, Stopped

\* IInv is inductive.
THEOREM Inductive == Spec => []IInv
BY InitIInv, NextIInv, PTL DEF Spec

\* Every step keeps the type of every variable; in particular the counter of
\* hsv_stop_service() stays within the grace period.
THEOREM TypeCorrect == Spec => []TypeOK
<1>1. IInv => TypeOK
  BY DEF IInv
<1> QED
  BY <1>1, Inductive, PTL

\* The service's scripts and its next instance only ever run without an
\* earlier instance, and HSV ends without leaving one.
THEOREM NoInstanceLeftHolds == Spec => []NoInstanceLeft
<1>1. IInv => NoInstanceLeft
  BY DEF IInv, InstanceIsPid, NoInstanceLeft
<1> QED
  BY <1>1, Inductive, PTL

\* hsv_stop_service() signals and waits for HSV's own uncollected child.
THEOREM SignalsOwnChildHolds == Spec => []SignalsOwnChild
<1>1. IInv => SignalsOwnChild
  BY DEF IInv, InstanceIsPid, SignalsOwnChild
<1> QED
  BY <1>1, Inductive, PTL

-----------------------------------------------------------------------------
(***************************************************************************)
(* Hsv implements Supervisor.                                              *)
(***************************************************************************)

\* What Stage is at each place.
LEMMA StageAt ==
  /\ pc \in Setup => Stage = "new"
  /\ pc = "spawn" => Stage = "starting"
  /\ pc \in {"stop_hook", "finish_hook"} => Stage = "ending"
  /\ pc \in Ended => Stage = "ended"
  /\ pc \in Polling \cup Stopping \cup {"top", "backoff", "after", "delay", "restart_hook"}
       => Stage = "supervising"
BY DEF Stage, Setup, Ended, Polling, Stopping

\* The same after a step.
LEMMA StageAtNext ==
  /\ pc' \in Setup => Stage' = "new"
  /\ pc' = "spawn" => Stage' = "starting"
  /\ pc' \in {"stop_hook", "finish_hook"} => Stage' = "ending"
  /\ pc' \in Ended => Stage' = "ended"
  /\ pc' \in Polling \cup Stopping \cup {"top", "backoff", "after", "delay", "restart_hook"}
       => Stage' = "supervising"
BY DEF Stage, Setup, Ended, Polling, Stopping

\* Steps that change neither the instance nor shutting_down, by what they do
\* to the stage.
LEMMA MoveRefines ==
  ASSUME IInv, UNCHANGED <<svcVars, shutting_down>>,
         \/ Stage' = Stage
         \/ Stage = "new" /\ Stage' \in {"supervising", "ended"}
         \/ pc \in {"top", "after"} /\ shutting_down /\ Stage = "supervising" /\ Stage' = "ending"
         \/ pc = "top" /\ ~shutting_down /\ Stage = "supervising" /\ Stage' = "starting"
         \/ Stage = "starting" /\ pc = "spawn" /\ Stage' = "supervising"
         \/ Stage = "ending" /\ Stage' = "ended"
  PROVE  [Sup!SupNext]_(Sup!supVars)
<1>1. ServiceStatus' = ServiceStatus /\ shutting_down' = shutting_down
  BY DEF ServiceStatus, svcVars
<1>2. pc \in {"top", "after", "spawn"} => ServiceStatus = "none"
  BY DEF IInv, InstanceIsPid, Polling, Stopping, ServiceStatus
<1>3. CASE Stage' = Stage
  BY <1>1, <1>3 DEF Sup!supVars
<1>4. CASE Stage = "new" /\ Stage' \in {"supervising", "ended"}
  BY <1>1, <1>4 DEF Sup!SupNext, Sup!BeginSupervision
<1>5. CASE pc \in {"top", "after"} /\ shutting_down /\ Stage = "supervising" /\ Stage' = "ending"
  BY <1>1, <1>2, <1>5 DEF Sup!SupNext, Sup!BeginEnd
<1>6. CASE pc = "top" /\ ~shutting_down /\ Stage = "supervising" /\ Stage' = "starting"
  BY <1>1, <1>2, <1>6 DEF Sup!SupNext, Sup!DecideToStart
<1>7. CASE Stage = "starting" /\ pc = "spawn" /\ Stage' = "supervising"
  BY <1>1, <1>2, <1>7 DEF Sup!SupNext, Sup!StartService
<1>8. CASE Stage = "ending" /\ Stage' = "ended"
  BY <1>1, <1>8 DEF Sup!SupNext, Sup!End
<1> QED
  BY <1>3, <1>4, <1>5, <1>6, <1>7, <1>8

\* waitpid() of a dead instance, wherever it is called.
LEMMA CollectRefines ==
  ASSUME IInv, pc \in Polling \cup Stopping, Collect, shutting_down' = shutting_down,
         pc' \in {"after", "restart_hook"}
  PROVE  [Sup!SupNext]_(Sup!supVars)
<1>1. Stage = "supervising" /\ Stage' = "supervising"
  BY StageAt, StageAtNext
<1>2. alive = {} /\ dead # {}
  BY DEF IInv, InstanceIsPid, Collect
<1>3. alive' = {} /\ dead' = {}
  BY CollectEmpties
<1>4. ServiceStatus = "exited" /\ ServiceStatus' = "none"
  BY <1>2, <1>3 DEF ServiceStatus
<1> QED
  BY <1>1, <1>4 DEF Sup!SupNext, Sup!CollectService

\* process_spawn(), when fork() succeeds.
LEMMA SpawnRefines ==
  ASSUME IInv, pc = "spawn", pc' = "poll", alive' # {}, shutting_down' = shutting_down
  PROVE  [Sup!SupNext]_(Sup!supVars)
<1>1. Stage = "starting" /\ Stage' = "supervising"
  BY StageAt, StageAtNext DEF Polling
<1>2. ServiceStatus' = "running"
  BY DEF ServiceStatus
<1> QED
  BY <1>1, <1>2 DEF Sup!SupNext, Sup!StartService

\* The exit of the instance.
LEMMA ExitRefines ==
  ASSUME IInv, NEW p \in Pids, ServiceExit(p)
  PROVE  [Sup!SupNext]_(Sup!supVars)
<1>1. pc' = pc /\ shutting_down' = shutting_down /\ p \in alive
      /\ alive' = alive \ {p} /\ dead' = dead \cup {p}
  BY DEF ServiceExit, flagVars
<1>2. Stage' = Stage
  BY <1>1 DEF Stage
<1>3. alive = {p}
  BY <1>1 DEF IInv, InstanceIsPid
<1>4. ServiceStatus = "running" /\ ServiceStatus' = "exited"
  BY <1>1, <1>3 DEF ServiceStatus
<1> QED
  BY <1>1, <1>2, <1>4 DEF Sup!SupNext, Sup!ServiceEnds

\* A signal: held back, recorded or, during the setup, the end of HSV.
LEMMA ReceiveRefines ==
  ASSUME IInv, NEW s \in {"TERM", "USR1"}, Receive(s)
  PROVE  [Sup!SupNext]_(Sup!supVars)
<1>0. pc \notin Ended /\ UNCHANGED svcVars
  BY DEF Receive
<1>1. ServiceStatus' = ServiceStatus
  BY <1>0 DEF ServiceStatus, svcVars
<1>2. CASE UNCHANGED <<pc, shutting_down>>
  BY <1>1, <1>2 DEF Stage, Sup!supVars
<1>3. CASE pc' = pc /\ shutting_down' = (shutting_down \/ s = "TERM")
  <2>1. Stage' = Stage
    BY <1>3 DEF Stage
  <2>2. Stage # "ended"
    BY <1>0 DEF Stage
  <2>3. shutting_down \in BOOLEAN
    BY DEF IInv, TypeOK
  <2>4. shutting_down' = shutting_down \/ shutting_down' = TRUE
    BY <1>3, <2>3
  <2> QED
    BY <1>1, <2>1, <2>2, <2>4 DEF Sup!SupNext, Sup!TellToStop, Sup!supVars
<1>4. CASE ~Handled(s) /\ pc' = "killed" /\ shutting_down' = shutting_down
  <2>1. pc \in Setup
    BY <1>4 DEF Handled, Setup
  <2>2. Stage = "new" /\ Stage' = "ended"
    BY <1>4, <2>1, StageAt, StageAtNext DEF Ended
  <2> QED
    BY <1>0, <1>4, <2>2, MoveRefines
<1> QED
  BY <1>2, <1>3, <1>4 DEF Receive, Goto, flagVars

\* Every step of Hsv is a step of Supervisor or changes nothing there.
LEMMA StepRefines ==
  ASSUME IInv, [Next]_vars
  PROVE  [Sup!SupNext]_(Sup!supVars)
<1> USE DEF Goto, flagVars
<1>0. pc \in Locations
  BY DEF IInv, TypeOK
<1>1. CASE SetupStep
  <2>1. pc \in Setup /\ pc' \in Setup \cup {"top", "failed"}
    BY <1>1 DEF SetupStep, Setup
  <2>2. Stage = "new" /\ Stage' \in {"new", "supervising", "ended"}
    BY <2>1, StageAt, StageAtNext DEF Ended
  <2> QED
    BY <1>1, <2>2, MoveRefines DEF SetupStep
<1>2. CASE Top
  BY <1>2, StageAt, StageAtNext, MoveRefines DEF Top
<1>3. CASE SpawnService
  <2>1. CASE pc' = "poll" /\ alive' # {}
    BY <1>3, <2>1, SpawnRefines DEF SpawnService
  <2>2. CASE pc' = "backoff" /\ UNCHANGED svcVars
    BY <1>3, <2>2, StageAt, StageAtNext, MoveRefines DEF SpawnService
  <2> QED
    BY <1>3, <2>1, <2>2 DEF SpawnService
<1>4. CASE Sleep
  BY <1>4, StageAt, StageAtNext, MoveRefines DEF Sleep
<1>5. CASE Poll
  <2>1. CASE Collect /\ pc' = "after"
    BY <1>5, <2>1, CollectRefines DEF Poll, Polling
  <2>2. CASE pc' = "restart?" /\ UNCHANGED svcVars
    BY <1>5, <2>2, StageAt, StageAtNext, MoveRefines DEF Poll, Polling
  <2> QED
    BY <1>5, <2>1, <2>2 DEF Poll
<1>6. CASE CheckRestart
  BY <1>6, StageAt, StageAtNext, MoveRefines DEF CheckRestart, Polling, Stopping
<1>7. CASE CheckShutdown
  BY <1>7, StageAt, StageAtNext, MoveRefines DEF CheckShutdown, Polling, Stopping
<1>8. CASE After
  BY <1>8, StageAt, StageAtNext, MoveRefines DEF After
<1>9. CASE SendTerm
  BY <1>9, StageAt, StageAtNext, MoveRefines DEF SendTerm, Stopping
<1>10. CASE Grace
  <2>1. CASE Collect /\ pc' \in {"after", "restart_hook"}
    BY <1>10, <2>1, CollectRefines DEF Grace, Stopping
  <2>2. CASE UNCHANGED <<pc, svcVars>>
    BY <1>10, <2>2, StageAt, StageAtNext, MoveRefines DEF Grace, Stopping
  <2> QED
    BY <1>10, <2>1, <2>2 DEF Grace, StopReturns
<1>11. CASE SendKill
  BY <1>11, StageAt, StageAtNext, MoveRefines DEF SendKill, Stopping
<1>12. CASE WaitKill
  BY <1>12, CollectRefines DEF WaitKill, StopReturns, Stopping
<1>13. CASE StartHook
  <2>1. Stage' = Stage
    BY <1>13 DEF StartHook, Stage
  <2> QED
    BY <1>13, <2>1, MoveRefines DEF StartHook
<1>14. CASE SkipHook \/ EndHook
  <2>1. pc \in HookPoints /\ HookReturns /\ UNCHANGED <<svcVars, shutting_down>>
    BY <1>14, Zenon DEF SkipHook, EndHook, IInv, HookAtPoint
  <2>2. \/ pc = "restart_hook" /\ pc' = "after"
        \/ pc = "stop_hook" /\ pc' = "finish_hook"
        \/ pc = "finish_hook" /\ pc' = "exit"
    BY <2>1 DEF HookReturns, HookPoints
  <2> QED
    BY <2>1, <2>2, StageAt, StageAtNext, MoveRefines DEF Ended
<1>15. ASSUME NEW p \in Pids, ServiceExit(p) PROVE [Sup!SupNext]_(Sup!supVars)
  BY <1>15, ExitRefines
<1>16. ASSUME NEW s \in {"TERM", "USR1"}, Receive(s) PROVE [Sup!SupNext]_(Sup!supVars)
  BY <1>16, ReceiveRefines
<1>17. CASE UNCHANGED vars
  BY <1>17 DEF vars, svcVars, Stage, ServiceStatus, Sup!supVars
<1> QED
  BY <1>1, <1>2, <1>3, <1>4, <1>5, <1>6, <1>7, <1>8, <1>9, <1>10, <1>11,
     <1>12, <1>13, <1>14, <1>15, <1>16, <1>17
     DEF Next, HsvStep, Environment, Stopped

\* HSV keeps the promise of Supervisor, for any pids, any inherited signal mask
\* and any length of the grace period.
THEOREM Refinement == Spec => ImplementsSupervisor
<1>1. Init => Sup!SupInit
  BY StageAt DEF Init, Sup!SupInit, Setup, ServiceStatus
<1>2. IInv /\ [Next]_vars => [Sup!SupNext]_(Sup!supVars)
  BY StepRefines
<1> QED
  BY <1>1, <1>2, Inductive, PTL DEF Spec, ImplementsSupervisor, Sup!SupSpec
=============================================================================
