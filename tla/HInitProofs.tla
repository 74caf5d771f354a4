---------------------------- MODULE HInitProofs ----------------------------
(***************************************************************************)
(* Proofs about HInit, for any set of pids: its type, and that PID 1 loses *)
(* no child, uses no recycled pid and never runs two mode programs.        *)
(***************************************************************************)
EXTENDS HInit, TLAPS

(***************************************************************************)
(* The inductive invariant.  SafeHInit names what the runs check; the      *)
(* other parts say which mode and which programs go with each place in the *)
(* code, and where the news of a dead child is.                            *)
(***************************************************************************)

\* Before mode_start(MD1) there is nothing; afterwards the signals are
\* blocked and signal_handler() only runs inside sigsuspend().
Started ==
  IF pc \in {"start", "setup", "exited"}
  THEN current_mode = "NONE" /\ \A p \in Pids : prog[p] = "none"
  ELSE mask = Signals

\* The mode that goes with each place in mode_start().
ModeAtPc ==
  /\ pc \in {"spawn_md1", "wait_md1", "spawn_md2"} <=> current_mode = "MD1"
  /\ pc = "wait_md2" => current_mode = "MD2" /\ wait_pid = md2_pid
  /\ pc \in {"spawn_md0", "wait_md0", "off"} => current_mode = "MD0"
  /\ md2_shutdown_requested => pc = "wait_md2"

\* A mode program is the one that PID 1 waits for or tracks.
ProgramsKnown ==
  \A p \in Pids :
    /\ prog[p] = "md1" => pc = "wait_md1" /\ p = wait_pid
    /\ prog[p] = "md2" => current_mode = "MD2" /\ p = md2_pid
    /\ prog[p] = "md0" => pc \in {"wait_md0", "off"} /\ p = wait_pid
    /\ p \in zombie => prog[p] # "none"

\* The news of a dead child is pending, recorded or being dealt with, and
\* the record is empty when the reap loop ends and PID 1 goes to sleep.
SigchldKept ==
  /\ zombie # {} => "CHLD" \in pending \cup recorded \/ pc = "reap"
  /\ pc \in {"reap", "suspend"} => "CHLD" \notin recorded

IInv ==
  /\ TypeOK
  /\ Started
  /\ ModeAtPc
  /\ ProgramsKnown
  /\ PidsAreOwn
  /\ SigchldKept

\* Every step keeps the type of every variable.
THEOREM TypeCorrect == Spec => []TypeOK
<1>1. Init => TypeOK
  BY DEF Init, TypeOK, Locations, Modes, Signals, Programs, ModePrograms
<1>2. TypeOK /\ [Next]_vars => TypeOK'
  <2> SUFFICES ASSUME TypeOK, [Next]_vars PROVE TypeOK'
    OBVIOUS
  <2> USE NoPidAssumption
      DEF TypeOK, Locations, Modes, Signals, Programs, ModePrograms
  <2>1. CASE LogInit
    BY <2>1 DEF LogInit, modeVars, sigVars, procVars, md2Vars
  <2>2. CASE BlockSignals
    BY <2>2 DEF BlockSignals, procVars, md2Vars
  <2>3. CASE SpawnMd1
    BY <2>3 DEF SpawnMd1, Spawn, sigVars, procVars, md2Vars
  <2>4. CASE WaitMd1
    BY <2>4 DEF WaitMd1, Reap, sigVars, md2Vars
  <2>5. CASE SpawnMd2
    BY <2>5 DEF SpawnMd2, Spawn, sigVars, procVars, md2Vars
  <2>6. CASE NoSigterm \/ RefuseShutdown
    BY <2>6 DEF NoSigterm, RefuseShutdown, modeVars, sigVars, procVars, md2Vars
  <2>7. CASE BeginShutdown
    BY <2>7 DEF BeginShutdown, SignalMd2, procVars
  <2>8. CASE WaitMd2
    BY <2>8 DEF WaitMd2, Reap, sigVars, md2Vars
  <2>9. CASE SpawnMd0
    BY <2>9 DEF SpawnMd0, Spawn, modeVars, sigVars, procVars, md2Vars
  <2>10. CASE WaitMd0
    BY <2>10 DEF WaitMd0, Reap, modeVars, sigVars, md2Vars
  <2>11. CASE CheckSigchld
    BY <2>11 DEF CheckSigchld, modeVars, procVars, md2Vars
  <2>12. ASSUME NEW p \in Pids, ReapChild(p) PROVE TypeOK'
    BY <2>12 DEF ReapChild, Reap, ModeChildExit, modeVars, sigVars, md2Vars
  <2>13. CASE ReapDone \/ Sigsuspend
    BY <2>13 DEF ReapDone, Sigsuspend, modeVars, sigVars, procVars, md2Vars
  <2>14. ASSUME NEW s \in {"TERM", "INT"}, SendSignal(s) PROVE TypeOK'
    BY <2>14 DEF SendSignal, Raise, modeVars, procVars, md2Vars
  <2>15. ASSUME NEW p \in Pids, NEW b \in BOOLEAN, ChildExit(p, b)
         PROVE TypeOK'
    BY <2>15 DEF ChildExit, Raise, modeVars, md2Vars
  <2>16. ASSUME NEW p \in Pids, NEW b \in BOOLEAN, Adopt(p, b)
         PROVE TypeOK'
    BY <2>16 DEF Adopt, Raise, modeVars, sigVars, md2Vars
  <2>17. CASE PowerOff
    BY <2>17 DEF PowerOff, modeVars, sigVars, procVars, md2Vars
  <2>18. CASE UNCHANGED vars
    BY <2>18 DEF vars, modeVars, sigVars, procVars, md2Vars
  <2> HIDE DEF TypeOK
  <2> QED
    BY <2>1, <2>2, <2>3, <2>4, <2>5, <2>6, <2>7, <2>8, <2>9, <2>10, <2>11,
       <2>12, <2>13, <2>14, <2>15, <2>16, <2>17, <2>18
       DEF Next, HInitStep, Environment, Stopped
<1> QED
  BY <1>1, <1>2, PTL DEF Spec

\* IInv is inductive.
THEOREM Inductive == Spec => []IInv
<1> DEFINE Rest == /\ Started
                   /\ ModeAtPc
                   /\ ProgramsKnown
                   /\ PidsAreOwn
                   /\ SigchldKept
<1>1. Init => Rest
  BY DEF Init, Started, ModeAtPc, ProgramsKnown, PidsAreOwn, SigchldKept
<1>2. TypeOK /\ TypeOK' /\ Rest /\ [Next]_vars => Rest'
  <2> SUFFICES ASSUME TypeOK, TypeOK', Rest, [Next]_vars PROVE Rest'
    OBVIOUS
  <2> USE NoPidAssumption
      DEF TypeOK, Locations, Modes, Signals, Programs, ModePrograms,
          Started, ModeAtPc, ProgramsKnown, PidsAreOwn, SigchldKept,
          modeVars, sigVars, procVars, md2Vars
  <2>1. CASE LogInit
    BY <2>1 DEF LogInit
  <2>2. CASE BlockSignals
    BY <2>2 DEF BlockSignals, Accepts
  <2>3. CASE SpawnMd1
    BY <2>3 DEF SpawnMd1, Spawn
  <2>4. CASE WaitMd1
    BY <2>4 DEF WaitMd1, Reap, WaitReturns, WaitFailed
  <2>5. CASE SpawnMd2
    BY <2>5 DEF SpawnMd2, Spawn, Accepts
  <2>6. CASE NoSigterm
    BY <2>6 DEF NoSigterm
  <2>7. CASE RefuseShutdown
    BY <2>7 DEF RefuseShutdown
  <2>8. CASE BeginShutdown
    BY <2>8 DEF BeginShutdown, Accepts, SignalMd2
  <2>9. CASE WaitMd2
    BY <2>9 DEF WaitMd2, Reap, WaitReturns
  <2>10. CASE SpawnMd0
    BY <2>10 DEF SpawnMd0, Spawn
  <2>11. CASE WaitMd0
    BY <2>11 DEF WaitMd0, Reap, WaitReturns
  <2>12. CASE CheckSigchld
    BY <2>12 DEF CheckSigchld
  <2>13. ASSUME NEW p \in Pids, ReapChild(p) PROVE Rest'
    BY <2>13 DEF ReapChild, Reap, ModeChildExit
  <2>14. CASE ReapDone
    BY <2>14 DEF ReapDone
  <2>15. CASE Sigsuspend
    BY <2>15 DEF Sigsuspend
  <2>16. ASSUME NEW s \in {"TERM", "INT"}, SendSignal(s) PROVE Rest'
    BY <2>16 DEF SendSignal, Raise, Halted
  <2>17. ASSUME NEW p \in Pids, NEW b \in BOOLEAN, ChildExit(p, b)
         PROVE Rest'
    BY <2>17 DEF ChildExit, Raise, Halted
  <2>18. ASSUME NEW p \in Pids, NEW b \in BOOLEAN, Adopt(p, b)
         PROVE Rest'
    BY <2>18 DEF Adopt, Raise, Halted
  <2>19. CASE PowerOff
    BY <2>19 DEF PowerOff
  <2>20. CASE UNCHANGED vars
    BY <2>20 DEF vars
  <2> HIDE DEF TypeOK, Rest
  <2> QED
    BY <2>1, <2>2, <2>3, <2>4, <2>5, <2>6, <2>7, <2>8, <2>9, <2>10, <2>11,
       <2>12, <2>13, <2>14, <2>15, <2>16, <2>17, <2>18, <2>19, <2>20
       DEF Next, HInitStep, Environment, Stopped
<1> QED
  BY <1>1, <1>2, TypeCorrect, PTL DEF Spec, IInv

\* PID 1 never sleeps in sigsuspend() with an uncollected child and no SIGCHLD
\* pending, with any number of children.
THEOREM NoLostChildHolds == Spec => []NoLostChild
<1>1. IInv => NoLostChild
  BY DEF IInv, SigchldKept, NoLostChild
<1> QED
  BY <1>1, Inductive, PTL

\* No kill() and no waitpid() of mode.c uses a pid that has been collected.
THEOREM PidsAreOwnHolds == Spec => []PidsAreOwn
<1>1. IInv => PidsAreOwn
  BY DEF IInv
<1> QED
  BY <1>1, Inductive, PTL

\* MD1, MD2 and MD0 never exist together, and none of them exists twice.
THEOREM OneModeProgramHolds == Spec => []OneModeProgram
<1>1. IInv => OneModeProgram
  <2> SUFFICES ASSUME IInv, NEW p \in Pids, NEW q \in Pids,
                      prog[p] \in ModePrograms, prog[q] \in ModePrograms
               PROVE  p = q
    BY DEF OneModeProgram
  <2>1. CASE current_mode = "MD2"
    BY <2>1 DEF IInv, ModeAtPc, ProgramsKnown, ModePrograms
  <2>2. CASE current_mode # "MD2"
    BY <2>2 DEF IInv, ModeAtPc, ProgramsKnown, ModePrograms
  <2> QED
    BY <2>1, <2>2
<1> QED
  BY <1>1, Inductive, PTL

-----------------------------------------------------------------------------
(***************************************************************************)
(* HInit implements ModeLifecycle.                                         *)
(***************************************************************************)

\* The mode programs that exist, by the place in the code and the mode.
RunningAtPc ==
  /\ pc \in {"start", "setup", "exited", "spawn_md1", "spawn_md2", "spawn_md0"}
       => RunningPrograms = {}
  /\ pc = "wait_md1" => RunningPrograms = {"md1"}
  /\ current_mode = "MD2" => RunningPrograms = {"md2"}
  /\ pc = "wait_md0" => RunningPrograms = {"md0"}
  /\ pc \in {"term", "chld", "reap", "suspend"} /\ current_mode # "MD2"
       => RunningPrograms = {}

\* mode_start() and mode_child_exit() keep current_mode and the place in the
\* code in step with the programs that exist.
LEMMA ProgramsFollowMode == Spec => []RunningAtPc
<1>1. IInv => RunningAtPc
  <2> SUFFICES ASSUME IInv PROVE RunningAtPc
    OBVIOUS
  <2> USE DEF IInv, Started, ModeAtPc, ProgramsKnown, PidsAreOwn, ModePrograms
  <2>1. \A m : m \in RunningPrograms <=>
                 m \in ModePrograms /\ \E p \in Pids : prog[p] = m
    BY DEF RunningPrograms
  <2>2. pc \in {"start", "setup", "exited", "spawn_md1", "spawn_md2",
                "spawn_md0"} => RunningPrograms = {}
    BY <2>1
  <2>3. pc = "wait_md1" => RunningPrograms = {"md1"}
    BY <2>1
  <2>4. current_mode = "MD2" => RunningPrograms = {"md2"}
    BY <2>1
  <2>5. pc = "wait_md0" => RunningPrograms = {"md0"}
    BY <2>1
  <2>6. pc \in {"term", "chld", "reap", "suspend"} /\ current_mode # "MD2"
          => RunningPrograms = {}
    BY <2>1
  <2> QED
    BY <2>2, <2>3, <2>4, <2>5, <2>6 DEF RunningAtPc
<1> QED
  BY <1>1, Inductive, PTL

\* The abstract phase, by the place in the code and the mode.
PhaseAtPc ==
  /\ pc \in {"start", "setup", "exited"} => Phase = "fresh"
  /\ pc \in {"spawn_md1", "wait_md1"} => Phase = "startup"
  /\ pc = "spawn_md2" => Phase = "started"
  /\ current_mode = "MD2" => Phase = "operating"
  /\ pc = "spawn_md0" => Phase = "stopping"
  /\ pc \in {"wait_md0", "off"} => Phase = "shutdown"
  /\ pc \in {"term", "chld", "reap", "suspend"}
       => /\ current_mode = "NONE" => Phase = "failed"
          /\ current_mode = "MD0" => Phase = "shutdown"

\* The cases of Phase, spelled out.
LEMMA PhaseCases == Spec => []PhaseAtPc
<1>1. IInv => PhaseAtPc
  <2> SUFFICES ASSUME IInv PROVE PhaseAtPc
    OBVIOUS
  <2> USE DEF Phase, IInv, Started, ModeAtPc
  <2>1. pc \in {"start", "setup", "exited"} => Phase = "fresh"
    OBVIOUS
  <2>2. pc \in {"spawn_md1", "wait_md1"} => Phase = "startup"
    OBVIOUS
  <2>3. pc = "spawn_md2" => Phase = "started"
    OBVIOUS
  <2>4. current_mode = "MD2" => Phase = "operating"
    OBVIOUS
  <2>5. pc = "spawn_md0" => Phase = "stopping"
    OBVIOUS
  <2>6. pc \in {"wait_md0", "off"} => Phase = "shutdown"
    OBVIOUS
  <2>7. pc \in {"term", "chld", "reap", "suspend"}
          => /\ current_mode = "NONE" => Phase = "failed"
             /\ current_mode = "MD0" => Phase = "shutdown"
    OBVIOUS
  <2> QED
    BY <2>1, <2>2, <2>3, <2>4, <2>5, <2>6, <2>7 DEF PhaseAtPc
<1> QED
  BY <1>1, Inductive, PTL

\* Every step of PID 1 and of the machine around it is a step of the abstract
\* lifecycle or leaves it unchanged.
THEOREM Refinement == Spec => ImplementsLifecycle
<1>1. Init => Life!LifeInit
  BY DEF Init, Life!LifeInit, Phase, RunningPrograms, ModePrograms
<1> DEFINE Mapped == TypeOK /\ ModeAtPc /\ RunningAtPc /\ PhaseAtPc
<1>2. Mapped /\ Mapped' /\ [Next]_vars => [Life!LifeNext]_(Life!lifeVars)
  <2> SUFFICES ASSUME Mapped, Mapped', [Next]_vars
               PROVE  [Life!LifeNext]_(Life!lifeVars)
    OBVIOUS
  <2> USE DEF TypeOK, Modes, ModeAtPc, RunningAtPc, PhaseAtPc,
          Life!LifeNext, Life!lifeVars
  <2>1. UNCHANGED prog => UNCHANGED RunningPrograms
    BY DEF RunningPrograms
  <2>0. UNCHANGED <<pc, current_mode>> => UNCHANGED Phase
    BY DEF Phase
  <2>2. CASE LogInit
    BY <2>1, <2>2 DEF LogInit, modeVars, procVars
  <2>3. CASE BlockSignals
    BY <2>1, <2>3 DEF BlockSignals, Accepts, procVars, Life!BeginStartup
  <2>4. CASE SpawnMd1
    BY <2>1, <2>4 DEF SpawnMd1, Life!RunStartup
  <2>5. CASE WaitMd1
    BY <2>1, <2>5 DEF WaitMd1, Life!RunStartup
  <2>6. CASE SpawnMd2
    BY <2>1, <2>6 DEF SpawnMd2, Accepts, Life!BeginOperating
  <2>7. CASE NoSigterm \/ RefuseShutdown
    BY <2>1, <2>7 DEF NoSigterm, RefuseShutdown, modeVars
  <2>8. CASE BeginShutdown
    BY <2>1, <2>8 DEF BeginShutdown, Accepts, procVars, Life!LeaveOperating
  <2>9. CASE WaitMd2
    BY <2>1, <2>9 DEF WaitMd2, Life!LeaveOperating
  <2>10. CASE SpawnMd0
    BY <2>1, <2>10 DEF SpawnMd0, modeVars, Life!RunShutdown
  <2>11. CASE WaitMd0
    BY <2>1, <2>11 DEF WaitMd0, modeVars, Life!RunShutdown
  <2>12. CASE CheckSigchld
    BY <2>1, <2>12 DEF CheckSigchld, modeVars, procVars
  <2>13. ASSUME NEW p \in Pids, ReapChild(p)
         PROVE  [Life!LifeNext]_(Life!lifeVars)
    BY <2>1, <2>13 DEF ReapChild, ModeChildExit, modeVars, Life!LeaveOperating
  <2>14. CASE ReapDone \/ Sigsuspend
    BY <2>1, <2>14 DEF ReapDone, Sigsuspend, modeVars, procVars
  <2>15. ASSUME NEW s \in {"TERM", "INT"}, SendSignal(s)
         PROVE  [Life!LifeNext]_(Life!lifeVars)
    BY <2>0, <2>1, <2>15 DEF SendSignal, modeVars, procVars
  <2>16. ASSUME NEW p \in Pids, NEW b \in BOOLEAN, ChildExit(p, b)
         PROVE  [Life!LifeNext]_(Life!lifeVars)
    BY <2>0, <2>1, <2>16 DEF ChildExit, modeVars
  <2>17. ASSUME NEW p \in Pids, NEW b \in BOOLEAN, Adopt(p, b)
         PROVE  [Life!LifeNext]_(Life!lifeVars)
    BY <2>0, <2>1, <2>17 DEF Adopt, modeVars, Halted, Locations
  <2>18. CASE PowerOff
    BY <2>1, <2>18 DEF PowerOff, modeVars, procVars
  <2>19. CASE UNCHANGED vars
    BY <2>0, <2>1, <2>19 DEF vars, modeVars, procVars
  <2> HIDE DEF Life!LifeNext, Life!lifeVars, Mapped
  <2> QED
    BY <2>2, <2>3, <2>4, <2>5, <2>6, <2>7, <2>8, <2>9, <2>10, <2>11,
       <2>12, <2>13, <2>14, <2>15, <2>16, <2>17, <2>18, <2>19
       DEF Next, HInitStep, Environment, Stopped
<1> QED
  BY <1>1, <1>2, Inductive, ProgramsFollowMode, PhaseCases, PTL
     DEF Spec, IInv, ImplementsLifecycle, Life!LifeSpec
=============================================================================
