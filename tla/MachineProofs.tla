--------------------------- MODULE MachineProofs ----------------------------
(* Safety of the QEMU driver for any number of machines and pids. *)
EXTENDS Machine, TLAPS

\* Zenon is tried first, then SMT.
USE ZenonT(20), SMTT(20)

-----------------------------------------------------------------------------
(* The types. *)

\* How an invocation moves on keeps its fields within their types.
LEMMA GotoTypes ==
  ASSUME RunTypes, NEW m \in Machines, NEW l \in Labels, Goto(m, l),
         l = "select" => polls[m] > 0
  PROVE  RunTypes'
BY DEF RunTypes, Goto, At

LEMMA EndTypes ==
  ASSUME RunTypes, NEW m \in Machines, NEW v \in AllVerbs \cup {"failed"}, End(m, v)
  PROVE  RunTypes'
BY SMT, MachineAssumption DEF RunTypes, End, At, MaybePid, Labels

LEMMA WaitTypes ==
  ASSUME RunTypes, NEW m \in Machines, NEW r \in {"guest", "SIGTERM", "SIGKILL"},
         StartWait(m, r)
  PROVE  RunTypes'
BY SMT, MachineAssumption DEF RunTypes, StartWait, At, Labels

\* No step of any actor takes a variable out of its type.
LEMMA TypeStep == TypeOK /\ [Next]_vars => TypeOK'
<1> SUFFICES ASSUME TypeOK, [Next]_vars PROVE TypeOK'
  OBVIOUS
<1> USE MachineAssumption, GotoTypes, EndTypes, WaitTypes
    DEF TypeOK, MaybePid, Labels, AllVerbs, procVars, dirVars, runVars
<1>1. ASSUME NEW m \in Machines, NEW v \in Verbs, Begin(m, v) PROVE TypeOK'
  <2>1. RunTypes'
    BY <1>1 DEF Begin, RunTypes, At
  <2>2. ProcTypes' /\ DirTypes' /\ struck' \subseteq {"ladder", "vtpm"}
    BY <1>1 DEF Begin, ProcTypes, DirTypes
  <2> QED
    BY <2>1, <2>2
<1>2. ASSUME NEW m \in Machines, Standalone(m) PROVE TypeOK'
  <2>1. RunTypes'
    BY <1>2 DEF Standalone, Dispatch, Succeed, RunTypes, At
  <2>2. ProcTypes' /\ DirTypes' /\ struck' \subseteq {"ladder", "vtpm"}
    BY <1>2 DEF Standalone, ProcTypes, DirTypes
  <2> QED
    BY <2>1, <2>2
<1>3. ASSUME NEW m \in Machines, CreateDir(m) PROVE TypeOK'
  <2>1. RunTypes'
    BY <1>3 DEF CreateDir, RunTypes, At
  <2>2. ProcTypes' /\ DirTypes' /\ struck' \subseteq {"ladder", "vtpm"}
    BY <1>3 DEF CreateDir, ProcTypes, DirTypes
  <2> QED
    BY <2>1, <2>2
<1>4. ASSUME NEW m \in Machines, EnsureDisks(m) PROVE TypeOK'
  <2>1. RunTypes'
    BY <1>4 DEF EnsureDisks, RunTypes, At
  <2>2. ProcTypes' /\ DirTypes' /\ struck' \subseteq {"ladder", "vtpm"}
    BY <1>4 DEF EnsureDisks, ProcTypes, DirTypes
  <2> QED
    BY <2>1, <2>2
<1>5. ASSUME NEW m \in Machines, EnsureSWTPM(m) PROVE TypeOK'
  <2>1. RunTypes'
    BY <1>5 DEF EnsureSWTPM, Start, RunTypes, At
  <2>2. ProcTypes' /\ DirTypes' /\ struck' \subseteq {"ladder", "vtpm"}
    BY SMT, <1>5 DEF EnsureSWTPM, Start, ProcTypes, DirTypes
  <2> QED
    BY <2>1, <2>2
<1>6. ASSUME NEW m \in Machines, LaunchQemu(m) PROVE TypeOK'
  <2>1. RunTypes'
    BY <1>6 DEF LaunchQemu, Start, Succeed, Fail, RunTypes, At
  <2>2. ProcTypes' /\ DirTypes' /\ struck' \subseteq {"ladder", "vtpm"}
    BY SMT, <1>6 DEF LaunchQemu, Start, ProcTypes, DirTypes
  <2> QED
    BY <2>1, <2>2
<1>7. ASSUME NEW m \in Machines, LaunchFails(m) PROVE TypeOK'
  <2>1. RunTypes'
    BY <1>7 DEF LaunchFails, Fail, RunTypes, At
  <2>2. ProcTypes' /\ DirTypes' /\ struck' \subseteq {"ladder", "vtpm"}
    BY <1>7 DEF LaunchFails, ProcTypes, DirTypes
  <2> QED
    BY <2>1, <2>2
<1>8. ASSUME NEW m \in Machines, WriteTalosconfig(m) PROVE TypeOK'
  <2>1. RunTypes'
    BY <1>8 DEF WriteTalosconfig, Succeed, RunTypes, At
  <2>2. ProcTypes' /\ DirTypes' /\ struck' \subseteq {"ladder", "vtpm"}
    BY <1>8 DEF WriteTalosconfig, ProcTypes, DirTypes
  <2> QED
    BY <2>1, <2>2
<1>9. ASSUME NEW m \in Machines, StepFails(m) PROVE TypeOK'
  <2>1. RunTypes'
    BY <1>9 DEF StepFails, Fail, RunTypes, At
  <2>2. ProcTypes' /\ DirTypes' /\ struck' \subseteq {"ladder", "vtpm"}
    BY <1>9 DEF StepFails, ProcTypes, DirTypes
  <2> QED
    BY <2>1, <2>2
<1>10. ASSUME NEW m \in Machines, StopObserve(m) PROVE TypeOK'
  <2>1. RunTypes'
    BY <1>10 DEF StopObserve, Succeed, RunTypes, At
  <2>2. ProcTypes' /\ DirTypes' /\ struck' \subseteq {"ladder", "vtpm"}
    BY <1>10 DEF StopObserve, ProcTypes, DirTypes
  <2> QED
    BY <2>1, <2>2
<1>11. ASSUME NEW m \in Machines, StopReadPid(m) PROVE TypeOK'
  <2>1. RunTypes'
    BY <1>11 DEF StopReadPid, ReadPid, RunTypes, At, DirTypes
  <2>2. ProcTypes' /\ DirTypes' /\ struck' \subseteq {"ladder", "vtpm"}
    BY <1>11 DEF StopReadPid, ProcTypes, DirTypes
  <2> QED
    BY <2>1, <2>2
<1>12. ASSUME NEW m \in Machines, ShutdownAccepted(m) PROVE TypeOK'
  <2>1. RunTypes'
    BY <1>12 DEF ShutdownAccepted, RunTypes, At
  <2>2. ProcTypes' /\ DirTypes' /\ struck' \subseteq {"ladder", "vtpm"}
    BY <1>12 DEF ShutdownAccepted, ProcTypes, DirTypes
  <2> QED
    BY <2>1, <2>2
<1>13. ASSUME NEW m \in Machines, ShutdownUnavailable(m) PROVE TypeOK'
  <2>1. RunTypes'
    BY <1>13 DEF ShutdownUnavailable, RunTypes, At
  <2>2. ProcTypes' /\ DirTypes' /\ struck' \subseteq {"ladder", "vtpm"}
    BY <1>13 DEF ShutdownUnavailable, ProcTypes, DirTypes
  <2> QED
    BY <2>1, <2>2
<1>14. ASSUME NEW m \in Machines, HaltTerm(m) PROVE TypeOK'
  <2>1. CASE MayHalt(m)
    <3>1. RunTypes'
      BY <1>14, <2>1 DEF HaltTerm
    <3>2. ProcTypes' /\ struck' \subseteq {"ladder", "vtpm"}
      <4>1. Signal("ladder", pid[m], "SIGTERM", m)
        BY <1>14, <2>1 DEF HaltTerm
      <4> QED
        BY <4>1 DEF Signal, ProcTypes
    <3>3. DirTypes'
      BY <1>14, <2>1 DEF HaltTerm, DirTypes
    <3> QED
      BY <3>1, <3>2, <3>3
  <2>2. CASE ~MayHalt(m)
    <3>1. RunTypes'
      BY <1>14, <2>2 DEF HaltTerm, Halted, Succeed, RunTypes
    <3>2. ProcTypes' /\ DirTypes' /\ struck' = struck
      BY <1>14, <2>2 DEF HaltTerm, ProcTypes, DirTypes
    <3> QED
      BY <3>1, <3>2
  <2> QED
    BY <2>1, <2>2
<1>15. ASSUME NEW m \in Machines, WaitSeesGone(m) PROVE TypeOK'
  <2>1. RunTypes'
    BY <1>15 DEF WaitSeesGone, Halted, Succeed, RunTypes, At
  <2>2. ProcTypes' /\ DirTypes' /\ struck' \subseteq {"ladder", "vtpm"}
    BY <1>15, SMTT(30) DEF WaitSeesGone, ProcTypes, DirTypes
  <2> QED
    BY <2>1, <2>2
<1>16. ASSUME NEW m \in Machines, WaitExpires(m) PROVE TypeOK'
  <2>1. RunTypes'
    BY <1>16, SMTT(30) DEF WaitExpires, Signal, Fail, RunTypes, At
  <2>2. ProcTypes' /\ DirTypes' /\ struck' \subseteq {"ladder", "vtpm"}
    BY <1>16 DEF WaitExpires, Signal, ProcTypes, DirTypes
  <2> QED
    BY <2>1, <2>2
<1>17. ASSUME NEW m \in Machines, WaitPolls(m) PROVE TypeOK'
  <2>1. RunTypes'
    BY <1>17 DEF WaitPolls, RunTypes, At
  <2>2. ProcTypes' /\ DirTypes' /\ struck' \subseteq {"ladder", "vtpm"}
    BY <1>17 DEF WaitPolls, ProcTypes, DirTypes
  <2> QED
    BY <2>1, <2>2
<1>18. ASSUME NEW m \in Machines, SelectTick(m) PROVE TypeOK'
  <2>1. RunTypes'
    BY SMT, <1>18 DEF SelectTick, RunTypes, At
  <2>2. ProcTypes' /\ DirTypes' /\ struck' \subseteq {"ladder", "vtpm"}
    BY <1>18 DEF SelectTick, ProcTypes, DirTypes
  <2> QED
    BY <2>1, <2>2
<1>19. ASSUME NEW m \in Machines, SelectDone(m) PROVE TypeOK'
  <2>1. RunTypes'
    BY <1>19 DEF SelectDone, Fail, RunTypes, At
  <2>2. ProcTypes' /\ DirTypes' /\ struck' \subseteq {"ladder", "vtpm"}
    BY <1>19 DEF SelectDone, ProcTypes, DirTypes
  <2> QED
    BY <2>1, <2>2
<1>20. ASSUME NEW m \in Machines, DestroySWTPM(m) PROVE TypeOK'
  <2>1. RunTypes'
    BY <1>20 DEF DestroySWTPM, Signal, RunTypes, At
  <2>2. ProcTypes' /\ DirTypes' /\ struck' \subseteq {"ladder", "vtpm"}
    BY <1>20, SMTT(30) DEF DestroySWTPM, Signal, ProcTypes, DirTypes
  <2> QED
    BY <2>1, <2>2
<1>21. ASSUME NEW m \in Machines, DestroyReadPid(m) PROVE TypeOK'
  <2>1. RunTypes'
    BY <1>21 DEF DestroyReadPid, ReadPid, RunTypes, At, DirTypes
  <2>2. ProcTypes' /\ DirTypes' /\ struck' \subseteq {"ladder", "vtpm"}
    BY <1>21, SMTT(30) DEF DestroyReadPid, ProcTypes, DirTypes
  <2> QED
    BY <2>1, <2>2
<1>22. ASSUME NEW m \in Machines, Sweep(m) PROVE TypeOK'
  <2>1. RunTypes'
    BY <1>22 DEF Sweep, Unlink, Succeed, RunTypes, At
  <2>2. ProcTypes' /\ DirTypes' /\ struck' \subseteq {"ladder", "vtpm"}
    BY <1>22, SMTT(30) DEF Sweep, Unlink, ProcTypes, DirTypes
  <2> QED
    BY <2>1, <2>2
<1>23. ASSUME NEW m \in Machines, SweepFails(m) PROVE TypeOK'
  <2>1. RunTypes'
    BY <1>23 DEF SweepFails, Unlink, Fail, RunTypes, At
  <2>2. ProcTypes' /\ DirTypes' /\ struck' \subseteq {"ladder", "vtpm"}
    <3>1. ProcTypes' /\ struck' = struck
      BY <1>23 DEF SweepFails, Unlink, ProcTypes
    <3>2. DirTypes'
      BY <1>23, Zenon DEF SweepFails, DirTypes
    <3> QED
      BY <3>1, <3>2
  <2> QED
    BY <2>1, <2>2
<1>24. ASSUME NEW m \in Machines, Cancel(m) PROVE TypeOK'
  <2>1. RunTypes'
    BY <1>24 DEF Cancel, RunTypes, At
  <2>2. ProcTypes' /\ DirTypes' /\ struck' \subseteq {"ladder", "vtpm"}
    BY <1>24 DEF Cancel, ProcTypes, DirTypes
  <2> QED
    BY <2>1, <2>2
<1>25. ASSUME NEW m \in Machines, TinqKilled(m) PROVE TypeOK'
  <2>1. RunTypes'
    BY <1>25 DEF TinqKilled, Fail, RunTypes, At
  <2>2. ProcTypes' /\ DirTypes' /\ struck' \subseteq {"ladder", "vtpm"}
    BY <1>25 DEF TinqKilled, ProcTypes, DirTypes
  <2> QED
    BY <2>1, <2>2
<1>26. ASSUME NEW p \in Pids, ProcessExits(p) PROVE TypeOK'
  <2>1. RunTypes'
    BY <1>26 DEF ProcessExits, RunTypes, At
  <2>2. ProcTypes' /\ DirTypes' /\ struck' \subseteq {"ladder", "vtpm"}
    BY <1>26, SMTT(30) DEF ProcessExits, ProcTypes, DirTypes
  <2> QED
    BY <2>1, <2>2
<1>27. ASSUME NEW p \in Pids, StrangerStarts(p) PROVE TypeOK'
  <2>1. RunTypes'
    BY <1>27 DEF StrangerStarts, Start, RunTypes, At
  <2>2. ProcTypes' /\ DirTypes' /\ struck' \subseteq {"ladder", "vtpm"}
    BY <1>27 DEF StrangerStarts, Start, ProcTypes, DirTypes
  <2> QED
    BY <2>1, <2>2
<1>28. ASSUME HostReboots PROVE TypeOK'
  <2>1. RunTypes'
    BY SMT, <1>28 DEF HostReboots, RunTypes, At
  <2>2. ProcTypes' /\ DirTypes' /\ struck' \subseteq {"ladder", "vtpm"}
    BY <1>28, SMTT(30) DEF HostReboots, ProcTypes, DirTypes
  <2> QED
    BY <2>1, <2>2
<1>29. ASSUME NEW p \in Pids, SwtpmWritesPidfile(p) PROVE TypeOK'
  <2>1. RunTypes'
    BY <1>29 DEF SwtpmWritesPidfile, RunTypes, At
  <2>2. ProcTypes' /\ DirTypes' /\ struck' \subseteq {"ladder", "vtpm"}
    BY <1>29 DEF SwtpmWritesPidfile, ProcTypes, DirTypes
  <2> QED
    BY <2>1, <2>2
<1>30. ASSUME NEW m \in Machines, AwaitPidfile(m) \/ PidfileTimeout(m) PROVE TypeOK'
  <2>1. RunTypes'
    BY <1>30 DEF AwaitPidfile, PidfileTimeout, Fail, RunTypes, At
  <2>2. ProcTypes' /\ DirTypes' /\ struck' \subseteq {"ladder", "vtpm"}
    BY <1>30 DEF AwaitPidfile, PidfileTimeout, ProcTypes, DirTypes
  <2> QED
    BY <2>1, <2>2
<1>31. CASE UNCHANGED vars
  BY <1>31 DEF vars, ProcTypes, DirTypes, RunTypes, At
<1> QED
  BY <1>1, <1>2, <1>3, <1>4, <1>5, <1>6, <1>7, <1>8, <1>9, <1>10, <1>11, <1>12,
     <1>13, <1>14, <1>15, <1>16, <1>17, <1>18, <1>19, <1>20, <1>21, <1>22, <1>23,
        <1>24, <1>25, <1>26, <1>27, <1>28, <1>29, <1>30, <1>31
     DEF Next, TinqStep, UserStep, HostStep, Decides, Creates, Waits, Signals, Sweeps


-----------------------------------------------------------------------------
(* The steps of an invocation that change neither a process nor a file. *)

\* Such a step leaves every fact about processes and files as it was.
LEMMA Frame ==
  ASSUME Inv, UNCHANGED <<procVars, dirVars, struck>>
  PROVE  /\ LadderSparesStrangers'
         /\ WriterIsTracked'
         /\ \A p \in Pids : ProcInv(p)'
BY DEF Inv, procVars, dirVars, LadderSparesStrangers, WriterIsTracked, ProcInv,
       Writes

\* Starting, cancelling and killing an invocation.
LEMMA UserKeepsInv ==
  ASSUME Inv, TypeOK', NEW m0 \in Machines, UserStep(m0)
  PROVE  Inv'
<1> USE MachineAssumption DEF Inv, procVars, dirVars, runVars, At, Destroying, Reported
<1>1. ASSUME NEW v0 \in Verbs, Begin(m0, v0) PROVE Inv'
  <2>1. LadderSparesStrangers' /\ WriterIsTracked' /\ \A p \in Pids : ProcInv(p)'
    BY <1>1, Frame DEF Begin
  <2>2. \A m \in Machines : VerbInv(m)'
    BY SMT, <1>1 DEF Begin, VerbInv, AllVerbs, TypeOK, ProcTypes, DirTypes, RunTypes
  <2>3. \A m \in Machines : LadderInv(m)'
    BY SMT, <1>1 DEF Begin, LadderInv, VerbInv, WriterIsTracked, ProcInv, Writes, TypeOK, ProcTypes, DirTypes, RunTypes
  <2>4. StopMeansStopped' /\ DeleteLeavesNothing'
    BY SMT, <1>1 DEF Begin, StopMeansStopped, VerbInv, LadderInv, WriterIsTracked, Writes,
       DeleteLeavesNothing, ProcInv, TypeOK, ProcTypes, DirTypes, RunTypes
  <2> QED
    BY <2>1, <2>2, <2>3, <2>4
<1>2. CASE Cancel(m0)
  <2>1. LadderSparesStrangers' /\ WriterIsTracked' /\ \A p \in Pids : ProcInv(p)'
    BY <1>2, Frame DEF Cancel
  <2>2. \A m \in Machines : VerbInv(m)'
    BY <1>2 DEF Cancel, VerbInv, AllVerbs, TypeOK, ProcTypes, DirTypes, RunTypes
  <2>3. \A m \in Machines : LadderInv(m)'
    BY SMT, <1>2 DEF Cancel, LadderInv, VerbInv, WriterIsTracked, ProcInv, Writes, TypeOK, ProcTypes, DirTypes, RunTypes
  <2>4. StopMeansStopped' /\ DeleteLeavesNothing'
    BY SMT, <1>2 DEF Cancel, StopMeansStopped, VerbInv, LadderInv, WriterIsTracked,
       Writes, DeleteLeavesNothing, ProcInv, TypeOK, ProcTypes, DirTypes, RunTypes
  <2> QED
    BY <2>1, <2>2, <2>3, <2>4
<1>3. CASE TinqKilled(m0)
  <2>1. LadderSparesStrangers' /\ WriterIsTracked' /\ \A p \in Pids : ProcInv(p)'
    BY <1>3, Frame DEF TinqKilled
  <2>2. \A m \in Machines : VerbInv(m)'
    BY SMT, <1>3 DEF TinqKilled, Fail, End, VerbInv, AllVerbs, TypeOK, ProcTypes,
       DirTypes, RunTypes
  <2>3. \A m \in Machines : LadderInv(m)'
    BY SMT, <1>3 DEF TinqKilled, Fail, End, LadderInv, VerbInv, WriterIsTracked, ProcInv,
       Writes, TypeOK, ProcTypes, DirTypes, RunTypes
  <2>4. StopMeansStopped' /\ DeleteLeavesNothing'
    BY SMT, <1>3 DEF TinqKilled, Fail, End, StopMeansStopped, VerbInv, LadderInv,
       WriterIsTracked, Writes, DeleteLeavesNothing, ProcInv, TypeOK, ProcTypes, DirTypes, RunTypes
  <2> QED
    BY <2>1, <2>2, <2>3, <2>4
<1> QED
  BY <1>1, <1>2, <1>3 DEF UserStep

\* Observing, reading the pidfile, and failing before anything changed.
LEMMA DecidesKeepsInv ==
  ASSUME Inv, TypeOK', NEW m0 \in Machines, Decides(m0)
  PROVE  Inv'
<1> USE MachineAssumption DEF Inv, procVars, dirVars, runVars, At, Destroying, Reported
<1>1. CASE Standalone(m0)
  <2>1. LadderSparesStrangers' /\ WriterIsTracked' /\ \A p \in Pids : ProcInv(p)'
    BY <1>1, Frame DEF Standalone
  <2>2. \A m \in Machines : VerbInv(m)'
    BY SMT, <1>1 DEF Standalone, Dispatch, Observe, ProcessMatches, Goto, Succeed, End,
       VerbInv, AllVerbs, TypeOK, ProcTypes, DirTypes, RunTypes
  <2>3. \A m \in Machines : LadderInv(m)'
    BY SMT, <1>1 DEF Standalone, Dispatch, Observe, ProcessMatches, Goto, Succeed, End,
       LadderInv, VerbInv, WriterIsTracked, ProcInv, Writes, TypeOK, ProcTypes, DirTypes, RunTypes
  <2>4. StopMeansStopped' /\ DeleteLeavesNothing'
    BY SMT, <1>1 DEF Standalone, Dispatch, Observe, ProcessMatches, Goto, Succeed, End,
       StopMeansStopped, VerbInv, LadderInv, WriterIsTracked, Writes, DeleteLeavesNothing, ProcInv, TypeOK, ProcTypes, DirTypes, RunTypes
  <2> QED
    BY <2>1, <2>2, <2>3, <2>4
<1>2. CASE StopObserve(m0)
  <2>1. LadderSparesStrangers' /\ WriterIsTracked' /\ \A p \in Pids : ProcInv(p)'
    BY <1>2, Frame DEF StopObserve
  <2>2. \A m \in Machines : VerbInv(m)'
    BY SMT, <1>2 DEF StopObserve, Observe, ProcessMatches, Goto, Succeed, End, VerbInv,
       AllVerbs, TypeOK, ProcTypes, DirTypes, RunTypes
  <2>3. \A m \in Machines : LadderInv(m)'
    BY SMT, <1>2 DEF StopObserve, Observe, ProcessMatches, Goto, Succeed, End, LadderInv,
       VerbInv, WriterIsTracked, ProcInv, Writes, TypeOK, ProcTypes, DirTypes, RunTypes
  <2>4. StopMeansStopped' /\ DeleteLeavesNothing'
    BY <1>2, SMTT(30) DEF StopObserve, Observe, ProcessMatches, Goto, Succeed, End,
       StopMeansStopped, VerbInv, LadderInv, WriterIsTracked, Writes, DeleteLeavesNothing, ProcInv, TypeOK, ProcTypes, DirTypes, RunTypes
  <2> QED
    BY <2>1, <2>2, <2>3, <2>4
<1>3. CASE StopReadPid(m0)
  <2>1. LadderSparesStrangers' /\ WriterIsTracked' /\ \A p \in Pids : ProcInv(p)'
    BY <1>3, Frame DEF StopReadPid
  <2>2. \A m \in Machines : VerbInv(m)'
    BY SMT, <1>3 DEF StopReadPid, ReadPid, VerbInv, AllVerbs, TypeOK, ProcTypes, DirTypes,
       RunTypes
  <2>3. \A m \in Machines : LadderInv(m)'
    BY SMT, <1>3 DEF StopReadPid, ReadPid, LadderInv, VerbInv, WriterIsTracked, ProcInv,
       Writes, TypeOK, ProcTypes, DirTypes, RunTypes
  <2>4. StopMeansStopped' /\ DeleteLeavesNothing'
    BY SMT, <1>3 DEF StopReadPid, ReadPid, StopMeansStopped, VerbInv, LadderInv,
       WriterIsTracked, Writes, DeleteLeavesNothing, ProcInv, TypeOK, ProcTypes, DirTypes, RunTypes
  <2> QED
    BY <2>1, <2>2, <2>3, <2>4
<1>4. CASE DestroyReadPid(m0)
  <2>1. LadderSparesStrangers' /\ WriterIsTracked' /\ \A p \in Pids : ProcInv(p)'
    BY <1>4, Frame DEF DestroyReadPid
  <2>2. \A m \in Machines : VerbInv(m)'
    BY SMT, <1>4 DEF DestroyReadPid, ReadPid, VerbInv, AllVerbs, TypeOK, ProcTypes,
       DirTypes, RunTypes
  <2>3. \A m \in Machines : LadderInv(m)'
    BY SMT, <1>4 DEF DestroyReadPid, ReadPid, LadderInv, VerbInv, WriterIsTracked,
       ProcInv, Writes, TypeOK, ProcTypes, DirTypes, RunTypes
  <2>4. StopMeansStopped' /\ DeleteLeavesNothing'
    BY SMT, <1>4 DEF DestroyReadPid, ReadPid, StopMeansStopped, VerbInv, LadderInv,
       WriterIsTracked, Writes, DeleteLeavesNothing, ProcInv, TypeOK, ProcTypes, DirTypes, RunTypes
  <2> QED
    BY <2>1, <2>2, <2>3, <2>4
<1>5. CASE StepFails(m0)
  <2>1. LadderSparesStrangers' /\ WriterIsTracked' /\ \A p \in Pids : ProcInv(p)'
    BY <1>5, Frame DEF StepFails
  <2>2. \A m \in Machines : VerbInv(m)'
    BY SMT, <1>5 DEF StepFails, Fail, End, VerbInv, AllVerbs, TypeOK, ProcTypes, DirTypes,
       RunTypes
  <2>3. \A m \in Machines : LadderInv(m)'
    BY SMT, <1>5 DEF StepFails, Fail, End, LadderInv, VerbInv, WriterIsTracked, ProcInv,
       Writes, TypeOK, ProcTypes, DirTypes, RunTypes
  <2>4. StopMeansStopped' /\ DeleteLeavesNothing'
    BY SMT, <1>5 DEF StepFails, Fail, End, StopMeansStopped, VerbInv, LadderInv,
       WriterIsTracked, Writes, DeleteLeavesNothing, ProcInv, TypeOK, ProcTypes, DirTypes, RunTypes
  <2> QED
    BY <2>1, <2>2, <2>3, <2>4
<1> QED
  BY <1>1, <1>2, <1>3, <1>4, <1>5 DEF Decides

\* Asking the guest, and waitGone as long as it does not escalate.
LEMMA WaitsKeepsInv ==
  ASSUME Inv, TypeOK', NEW m0 \in Machines, Waits(m0)
  PROVE  Inv'
<1> USE MachineAssumption DEF Inv, procVars, dirVars, runVars, At, Destroying, Reported
<1>1. CASE ShutdownAccepted(m0)
  <2>1. LadderSparesStrangers' /\ WriterIsTracked' /\ \A p \in Pids : ProcInv(p)'
    BY <1>1, Frame DEF ShutdownAccepted
  <2>2. \A m \in Machines : VerbInv(m)'
    BY SMT, <1>1 DEF ShutdownAccepted, StartWait, VerbInv, AllVerbs, TypeOK, ProcTypes,
       DirTypes, RunTypes
  <2>3. \A m \in Machines : LadderInv(m)'
    BY SMT, <1>1 DEF ShutdownAccepted, StartWait, LadderInv, VerbInv, WriterIsTracked,
       ProcInv, Writes, TypeOK, ProcTypes, DirTypes, RunTypes
  <2>4. StopMeansStopped' /\ DeleteLeavesNothing'
    BY SMT, <1>1 DEF ShutdownAccepted, StartWait, StopMeansStopped, VerbInv, LadderInv,
       WriterIsTracked, Writes, DeleteLeavesNothing, ProcInv, TypeOK, ProcTypes, DirTypes, RunTypes
  <2> QED
    BY <2>1, <2>2, <2>3, <2>4
<1>2. CASE ShutdownUnavailable(m0)
  <2>1. LadderSparesStrangers' /\ WriterIsTracked' /\ \A p \in Pids : ProcInv(p)'
    BY <1>2, Frame DEF ShutdownUnavailable
  <2>2. \A m \in Machines : VerbInv(m)'
    BY SMT, <1>2 DEF ShutdownUnavailable, Goto, VerbInv, AllVerbs, TypeOK, ProcTypes,
       DirTypes, RunTypes
  <2>3. \A m \in Machines : LadderInv(m)'
    BY SMT, <1>2 DEF ShutdownUnavailable, Goto, LadderInv, VerbInv, WriterIsTracked,
       ProcInv, Writes, TypeOK, ProcTypes, DirTypes, RunTypes
  <2>4. StopMeansStopped' /\ DeleteLeavesNothing'
    BY <1>2, SMTT(30) DEF ShutdownUnavailable, Goto, StopMeansStopped, VerbInv, LadderInv,
       WriterIsTracked, Writes, DeleteLeavesNothing, ProcInv, TypeOK, ProcTypes, DirTypes, RunTypes
  <2> QED
    BY <2>1, <2>2, <2>3, <2>4
<1>3. CASE WaitSeesGone(m0)
  <2>1. LadderSparesStrangers' /\ WriterIsTracked' /\ \A p \in Pids : ProcInv(p)'
    BY <1>3, Frame DEF WaitSeesGone
  <2>2. \A m \in Machines : VerbInv(m)'
    BY SMT, <1>3 DEF WaitSeesGone, Gone, ProcessMatches, Halted, Goto, Succeed, End,
       VerbInv, AllVerbs, TypeOK, ProcTypes, DirTypes, RunTypes
  <2>3. \A m \in Machines : LadderInv(m)'
    BY SMT, <1>3 DEF WaitSeesGone, Gone, ProcessMatches, Halted, Goto, Succeed, End,
       LadderInv, VerbInv, WriterIsTracked, ProcInv, Writes, TypeOK, ProcTypes, DirTypes, RunTypes
  <2>4. StopMeansStopped' /\ DeleteLeavesNothing'
    BY <1>3, SMTT(30) DEF WaitSeesGone, Gone, ProcessMatches, Halted, Goto, Succeed, End,
       StopMeansStopped, VerbInv, LadderInv, WriterIsTracked, Writes, DeleteLeavesNothing, ProcInv, TypeOK, ProcTypes, DirTypes, RunTypes
  <2> QED
    BY <2>1, <2>2, <2>3, <2>4
<1>4. CASE WaitPolls(m0)
  <2>1. LadderSparesStrangers' /\ WriterIsTracked' /\ \A p \in Pids : ProcInv(p)'
    BY <1>4, Frame DEF WaitPolls
  <2>2. \A m \in Machines : VerbInv(m)'
    BY SMT, <1>4 DEF WaitPolls, Goto, VerbInv, AllVerbs, TypeOK, ProcTypes, DirTypes,
       RunTypes
  <2>3. \A m \in Machines : LadderInv(m)'
    BY SMT, <1>4 DEF WaitPolls, Goto, LadderInv, VerbInv, WriterIsTracked, ProcInv,
       Writes, TypeOK, ProcTypes, DirTypes, RunTypes
  <2>4. StopMeansStopped' /\ DeleteLeavesNothing'
    BY SMT, <1>4 DEF WaitPolls, Goto, StopMeansStopped, VerbInv, LadderInv,
       WriterIsTracked, Writes, DeleteLeavesNothing, ProcInv, TypeOK, ProcTypes, DirTypes, RunTypes
  <2> QED
    BY <2>1, <2>2, <2>3, <2>4
<1>5. CASE SelectTick(m0)
  <2>1. LadderSparesStrangers' /\ WriterIsTracked' /\ \A p \in Pids : ProcInv(p)'
    BY <1>5, Frame DEF SelectTick
  <2>2. \A m \in Machines : VerbInv(m)'
    BY SMT, <1>5 DEF SelectTick, VerbInv, AllVerbs, TypeOK, ProcTypes, DirTypes, RunTypes
  <2>3. \A m \in Machines : LadderInv(m)'
    BY SMT, <1>5 DEF SelectTick, LadderInv, VerbInv, WriterIsTracked, ProcInv, Writes, TypeOK, ProcTypes, DirTypes, RunTypes
  <2>4. StopMeansStopped' /\ DeleteLeavesNothing'
    BY <1>5, SMTT(30) DEF SelectTick, StopMeansStopped, VerbInv, LadderInv, WriterIsTracked,
       Writes, DeleteLeavesNothing, ProcInv, TypeOK, ProcTypes, DirTypes, RunTypes
  <2> QED
    BY <2>1, <2>2, <2>3, <2>4
<1>6. CASE SelectDone(m0)
  <2>1. LadderSparesStrangers' /\ WriterIsTracked' /\ \A p \in Pids : ProcInv(p)'
    BY <1>6, Frame DEF SelectDone
  <2>2. \A m \in Machines : VerbInv(m)'
    BY <1>6, SMTT(30) DEF SelectDone, Fail, End, VerbInv, AllVerbs, TypeOK, ProcTypes,
       DirTypes, RunTypes
  <2>3. \A m \in Machines : LadderInv(m)'
    BY <1>6, SMTT(30) DEF SelectDone, Fail, End, LadderInv, VerbInv, WriterIsTracked, ProcInv,
       Writes, TypeOK, ProcTypes, DirTypes, RunTypes
  <2>4. StopMeansStopped' /\ DeleteLeavesNothing'
    BY SMT, <1>6 DEF SelectDone, Fail, End, StopMeansStopped, VerbInv, LadderInv,
       WriterIsTracked, Writes, DeleteLeavesNothing, ProcInv, TypeOK, ProcTypes, DirTypes, RunTypes
  <2> QED
    BY <2>1, <2>2, <2>3, <2>4
<1> QED
  BY <1>1, <1>2, <1>3, <1>4, <1>5, <1>6 DEF Waits

-----------------------------------------------------------------------------
(* The world around tinq. *)

\* Nothing gains the power to write, no process changes hands, and no pidfile
\* comes to a directory that is gone, outside every run.
Dwindles ==
  /\ UNCHANGED <<made, disk, talosconfig, runVars, struck>>
  /\ \A m \in Machines : \A p \in Pids :
       /\ Writes(p, m)' => Writes(p, m)
       /\ owner'[p] = m => /\ owner[p] = m /\ unlinked'[p] = unlinked[p] /\ told'[p] = told[p]
                           /\ kind'[p] = "qemu" => kind[p] = "qemu"
  /\ \A m \in Machines : ~made[m] /\ swtpmPid[m] = NoPid => swtpmPid'[m] = NoPid

LEMMA DwindlingKeeps ==
  ASSUME Inv, Dwindles
  PROVE  /\ \A m \in Machines : VerbInv(m)' /\ LadderInv(m)'
         /\ StopMeansStopped' /\ DeleteLeavesNothing' /\ LadderSparesStrangers'
<1>1. \A m \in Machines : VerbInv(m)'
  BY DEF Inv, VerbInv, Dwindles, runVars
<1>2. \A m \in Machines : LadderInv(m)'
  BY DEF Inv, LadderInv, Dwindles, runVars, Destroying
<1>3. \A m \in Machines : \A v : Reported(m, v)' = Reported(m, v)
  BY DEF Reported, At, Dwindles, runVars
<1>4. StopMeansStopped'
  BY <1>3 DEF Inv, StopMeansStopped, Dwindles
<1>5. DeleteLeavesNothing'
  BY SMT, <1>3 DEF Inv, DeleteLeavesNothing, Dwindles
<1> QED
  BY <1>1, <1>2, <1>4, <1>5 DEF Inv, LadderSparesStrangers, Dwindles

\* Processes exit, strangers start and the host reboots: pidfiles go stale, but
\* nothing gains the power to write.
LEMMA HostKeepsInv ==
  ASSUME Inv, TypeOK', HostStep
  PROVE  Inv'
<1> USE MachineAssumption DEF Inv, procVars, dirVars, runVars, At, Destroying, Reported
<1>1. ASSUME NEW q \in Pids, ProcessExits(q) PROVE Inv'
  <2>1. Dwindles
    <3>1. UNCHANGED <<made, disk, talosconfig, runVars, struck>>
      BY <1>1 DEF ProcessExits
    <3>2. kind'[q] = "free" /\ owner'[q] = Host
      BY <1>1 DEF ProcessExits, TypeOK, ProcTypes
    <3>3. \A p \in Pids \ {q} : /\ kind'[p] = kind[p] /\ owner'[p] = owner[p]
                               /\ unlinked'[p] = unlinked[p] /\ told'[p] = told[p]
      BY <1>1 DEF ProcessExits, TypeOK, ProcTypes
    <3>4. \A m \in Machines : m # Host
      OBVIOUS
    <3>5. \A m \in Machines : swtpmPid'[m] \in {swtpmPid[m], NoPid}
      BY <1>1 DEF ProcessExits, TypeOK, DirTypes
    <3> QED
      BY <3>1, <3>2, <3>3, <3>4, <3>5 DEF Dwindles, Writes
  <2>2. WriterIsTracked'
    BY SMT, <1>1 DEF ProcessExits, WriterIsTracked, Writes, TypeOK, ProcTypes, DirTypes
  <2>3. \A p \in Pids : ProcInv(p)'
    BY SMT, <1>1 DEF ProcessExits, ProcInv, TypeOK, ProcTypes, DirTypes
  <2> QED
    BY <2>1, <2>2, <2>3, DwindlingKeeps
<1>2. ASSUME NEW q \in Pids, StrangerStarts(q) PROVE Inv'
  <2>1. Dwindles
    BY <1>2 DEF StrangerStarts, Start, Dwindles, Writes, TypeOK, ProcTypes
  <2>2. WriterIsTracked'
    BY SMT, <1>2, <2>1 DEF StrangerStarts, WriterIsTracked, Dwindles
  <2>3. \A p \in Pids : ProcInv(p)'
    BY <1>2 DEF StrangerStarts, Start, ProcInv, TypeOK, ProcTypes
  <2> QED
    BY <2>1, <2>2, <2>3, DwindlingKeeps
<1>3. CASE HostReboots
  BY <1>3 DEF HostReboots, LadderSparesStrangers, WriterIsTracked, ProcInv, VerbInv,
     LadderInv, StopMeansStopped, DeleteLeavesNothing, Writes
<1>4. ASSUME NEW q \in Pids, SwtpmWritesPidfile(q) PROVE Inv'
  <2>1. /\ UNCHANGED <<made, disk, talosconfig, qemuPid, runVars, struck, owner, unlinked, told>>
        /\ kind[q] = "starting" /\ kind'[q] = "swtpm" /\ owner[q] \in Machines /\ made[owner[q]]
        /\ \A p \in Pids \ {q} : kind'[p] = kind[p]
        /\ \A m \in Machines \ {owner[q]} : swtpmPid'[m] = swtpmPid[m]
    BY <1>4 DEF SwtpmWritesPidfile, ProcInv, TypeOK, ProcTypes, DirTypes
  <2>2. Dwindles
    BY <2>1 DEF Dwindles, Writes
  <2>3. WriterIsTracked'
    BY <2>1, <2>2 DEF WriterIsTracked, Dwindles
  <2>4. \A p \in Pids : ProcInv(p)'
    BY <2>1 DEF ProcInv
  <2> QED
    BY <2>2, <2>3, <2>4, DwindlingKeeps
<1> QED
  BY <1>1, <1>2, <1>3, <1>4 DEF HostStep

-----------------------------------------------------------------------------
(* Steps that touch processes or files. *)

\* create meets no writer, and the qemu it starts is what the pidfile names.
LEMMA CreatesKeepsInv ==
  ASSUME Inv, TypeOK', NEW m0 \in Machines, Creates(m0)
  PROVE  Inv'
<1> USE MachineAssumption DEF Inv, procVars, dirVars, runVars, At, Destroying, Reported
<1>1. CASE CreateDir(m0)
  <2>1. LadderSparesStrangers' /\ WriterIsTracked'
    BY SMT, <1>1 DEF CreateDir, Goto, LadderSparesStrangers, WriterIsTracked, LadderInv,
       Writes, TypeOK, ProcTypes, DirTypes, RunTypes
  <2>2. \A p \in Pids : ProcInv(p)'
    BY <1>1 DEF CreateDir, Goto, ProcInv, LadderInv, Writes, TypeOK,
       ProcTypes, DirTypes, RunTypes
  <2>3. \A m \in Machines : VerbInv(m)'
    BY SMT, <1>1 DEF CreateDir, Goto, VerbInv, AllVerbs, TypeOK, ProcTypes, DirTypes,
       RunTypes
  <2>4. \A m \in Machines : LadderInv(m)'
    BY SMT, <1>1 DEF CreateDir, Goto, LadderInv, VerbInv, WriterIsTracked, ProcInv,
       Writes, TypeOK, ProcTypes, DirTypes, RunTypes
  <2>5. StopMeansStopped' /\ DeleteLeavesNothing'
    BY SMT, <1>1 DEF CreateDir, Goto, StopMeansStopped, VerbInv, LadderInv,
       WriterIsTracked, Writes, DeleteLeavesNothing, ProcInv, TypeOK, ProcTypes, DirTypes, RunTypes
  <2> QED
    BY <2>1, <2>2, <2>3, <2>4, <2>5
<1>2. CASE EnsureDisks(m0)
  <2>1. LadderSparesStrangers' /\ WriterIsTracked'
    BY SMT, <1>2 DEF EnsureDisks, Goto, LadderSparesStrangers, WriterIsTracked, LadderInv,
       Writes, TypeOK, ProcTypes, DirTypes, RunTypes
  <2>2. \A p \in Pids : ProcInv(p)'
    BY <1>2 DEF EnsureDisks, Goto, ProcInv, LadderInv, Writes, TypeOK,
       ProcTypes, DirTypes, RunTypes
  <2>3. \A m \in Machines : VerbInv(m)'
    BY SMT, <1>2 DEF EnsureDisks, Goto, VerbInv, AllVerbs, TypeOK, ProcTypes, DirTypes,
       RunTypes
  <2>4. \A m \in Machines : LadderInv(m)'
    BY SMT, <1>2 DEF EnsureDisks, Goto, LadderInv, VerbInv, WriterIsTracked, ProcInv,
       Writes, TypeOK, ProcTypes, DirTypes, RunTypes
  <2>5. StopMeansStopped' /\ DeleteLeavesNothing'
    BY SMT, <1>2 DEF EnsureDisks, Goto, StopMeansStopped, VerbInv, LadderInv,
       WriterIsTracked, Writes, DeleteLeavesNothing, ProcInv, TypeOK, ProcTypes, DirTypes, RunTypes
  <2> QED
    BY <2>1, <2>2, <2>3, <2>4, <2>5
<1>3. CASE EnsureSWTPM(m0)
  <2>1. LadderSparesStrangers' /\ WriterIsTracked'
    BY SMT, <1>3 DEF EnsureSWTPM, HasSWTPM, ProcessMatches, Start, Goto,
       LadderSparesStrangers, WriterIsTracked, LadderInv, Writes, TypeOK, ProcTypes, DirTypes, RunTypes
  <2>2. \A p \in Pids : ProcInv(p)'
    BY SMT, <1>3 DEF EnsureSWTPM, HasSWTPM, ProcessMatches, Start, Goto, ProcInv,
       LadderInv, Writes, TypeOK, ProcTypes, DirTypes, RunTypes
  <2>3. \A m \in Machines : VerbInv(m)'
    BY SMT, <1>3 DEF EnsureSWTPM, HasSWTPM, ProcessMatches, Start, Goto, VerbInv,
       AllVerbs, TypeOK, ProcTypes, DirTypes, RunTypes
  <2>4. ASSUME NEW m \in Machines PROVE LadderInv(m)'
    <3>1. \A p \in Pids : Writes(p, m)' => Writes(p, m)
      BY <1>3 DEF EnsureSWTPM, Start, Writes, TypeOK, ProcTypes
    <3>2. CASE m = m0
      BY <1>3, <3>1, <3>2 DEF EnsureSWTPM, Goto, LadderInv, TypeOK, RunTypes
    <3>3. CASE m # m0
      <4>1. pc'[m] = pc[m]
        BY <1>3, <3>3 DEF EnsureSWTPM, Goto, TypeOK, RunTypes
      <4>2. disk' = disk /\ pid' = pid /\ rung' = rung /\ verb' = verb
        BY <1>3 DEF EnsureSWTPM, Goto
      <4> QED
        BY <3>1, <4>1, <4>2 DEF LadderInv
    <3> QED
      BY <3>2, <3>3
  <2>5. StopMeansStopped' /\ DeleteLeavesNothing'
    BY SMT, <1>3 DEF EnsureSWTPM, HasSWTPM, ProcessMatches, Start, Goto, StopMeansStopped,
       VerbInv, LadderInv, WriterIsTracked, Writes, DeleteLeavesNothing, ProcInv, TypeOK, ProcTypes, DirTypes, RunTypes
  <2> QED
    BY <2>1, <2>2, <2>3, <2>4, <2>5
<1>4. CASE LaunchQemu(m0)
  <2>1. LadderSparesStrangers' /\ WriterIsTracked'
    BY SMT, <1>4 DEF LaunchQemu, Start, Goto, Succeed, Fail, End, LadderSparesStrangers,
       WriterIsTracked, LadderInv, Writes, TypeOK, ProcTypes, DirTypes, RunTypes
  <2>2. \A p \in Pids : ProcInv(p)'
    BY SMT, <1>4 DEF LaunchQemu, Start, Goto, Succeed, Fail, End, ProcInv, LadderInv, Writes, TypeOK, ProcTypes, DirTypes, RunTypes
  <2>3. \A m \in Machines : VerbInv(m)'
    BY SMT, <1>4 DEF LaunchQemu, Start, Goto, Succeed, Fail, End, VerbInv, AllVerbs, TypeOK,
       ProcTypes, DirTypes, RunTypes
  <2>4. \A m \in Machines : LadderInv(m)'
    BY SMT, <1>4 DEF LaunchQemu, Start, Goto, Succeed, Fail, End, LadderInv, VerbInv,
       WriterIsTracked, ProcInv, Writes, TypeOK, ProcTypes, DirTypes, RunTypes
  <2>5. StopMeansStopped' /\ DeleteLeavesNothing'
    BY SMT, <1>4 DEF LaunchQemu, Start, Goto, Succeed, Fail, End, StopMeansStopped, VerbInv,
       LadderInv, WriterIsTracked, Writes, DeleteLeavesNothing, ProcInv, TypeOK, ProcTypes, DirTypes, RunTypes
  <2> QED
    BY <2>1, <2>2, <2>3, <2>4, <2>5
<1>5. CASE LaunchFails(m0)
  <2>1. LadderSparesStrangers' /\ WriterIsTracked'
    BY SMT, <1>5 DEF LaunchFails, Fail, End, LadderSparesStrangers, WriterIsTracked,
       LadderInv, Writes, TypeOK, ProcTypes, DirTypes, RunTypes
  <2>2. \A p \in Pids : ProcInv(p)'
    BY <1>5 DEF LaunchFails, Fail, End, ProcInv, LadderInv, Writes,
       TypeOK, ProcTypes, DirTypes, RunTypes
  <2>3. \A m \in Machines : VerbInv(m)'
    BY SMT, <1>5 DEF LaunchFails, Fail, End, VerbInv, AllVerbs, TypeOK, ProcTypes,
       DirTypes, RunTypes
  <2>4. \A m \in Machines : LadderInv(m)'
    BY SMT, <1>5 DEF LaunchFails, Fail, End, LadderInv, VerbInv, WriterIsTracked, ProcInv,
       Writes, TypeOK, ProcTypes, DirTypes, RunTypes
  <2>5. StopMeansStopped' /\ DeleteLeavesNothing'
    BY SMT, <1>5 DEF LaunchFails, Fail, End, StopMeansStopped, VerbInv, LadderInv,
       WriterIsTracked, Writes, DeleteLeavesNothing, ProcInv, TypeOK, ProcTypes, DirTypes, RunTypes
  <2> QED
    BY <2>1, <2>2, <2>3, <2>4, <2>5
<1>6. CASE WriteTalosconfig(m0)
  <2>1. LadderSparesStrangers' /\ WriterIsTracked'
    BY SMT, <1>6 DEF WriteTalosconfig, Succeed, End, LadderSparesStrangers,
       WriterIsTracked, LadderInv, Writes, TypeOK, ProcTypes, DirTypes, RunTypes
  <2>2. \A p \in Pids : ProcInv(p)'
    BY <1>6 DEF WriteTalosconfig, Succeed, End, ProcInv, LadderInv, Writes, TypeOK, ProcTypes, DirTypes, RunTypes
  <2>3. \A m \in Machines : VerbInv(m)'
    BY <1>6, SMTT(30) DEF WriteTalosconfig, Succeed, End, VerbInv, AllVerbs, TypeOK, ProcTypes,
       DirTypes, RunTypes
  <2>4. \A m \in Machines : LadderInv(m)'
    BY SMT, <1>6 DEF WriteTalosconfig, Succeed, End, LadderInv, VerbInv, WriterIsTracked,
       ProcInv, Writes, TypeOK, ProcTypes, DirTypes, RunTypes
  <2>5. StopMeansStopped' /\ DeleteLeavesNothing'
    BY SMT, <1>6 DEF WriteTalosconfig, Succeed, End, StopMeansStopped, VerbInv, LadderInv,
       WriterIsTracked, Writes, DeleteLeavesNothing, ProcInv, TypeOK, ProcTypes, DirTypes, RunTypes
  <2> QED
    BY <2>1, <2>2, <2>3, <2>4, <2>5
<1>7. CASE AwaitPidfile(m0) \/ PidfileTimeout(m0)
  <2>1. LadderSparesStrangers' /\ WriterIsTracked'
    BY <1>7 DEF AwaitPidfile, PidfileTimeout, LadderSparesStrangers, WriterIsTracked, Writes
  <2>2. \A p \in Pids : ProcInv(p)'
    BY <1>7 DEF AwaitPidfile, PidfileTimeout, ProcInv
  <2>3. \A m \in Machines : VerbInv(m)'
    BY SMT, <1>7 DEF AwaitPidfile, PidfileTimeout, Goto, Fail, End, VerbInv, TypeOK, RunTypes
  <2>4. \A m \in Machines : LadderInv(m)'
    BY SMT, <1>7 DEF AwaitPidfile, PidfileTimeout, Goto, Fail, End, LadderInv, Writes, TypeOK, RunTypes
  <2>5. StopMeansStopped' /\ DeleteLeavesNothing'
    BY SMT, <1>7 DEF AwaitPidfile, PidfileTimeout, Goto, Fail, End, StopMeansStopped,
       Writes, DeleteLeavesNothing, TypeOK, RunTypes
  <2> QED
    BY <2>1, <2>2, <2>3, <2>4, <2>5
<1> QED
  BY <1>1, <1>2, <1>3, <1>4, <1>5, <1>6, <1>7 DEF Creates

\* The ladder hits its own machine, and past SIGKILL nothing writes.
LEMMA SignalsKeepsInv ==
  ASSUME Inv, TypeOK', NEW m0 \in Machines, Signals(m0)
  PROVE  Inv'
<1> USE MachineAssumption DEF Inv, procVars, dirVars, runVars, At, Destroying, Reported
<1>1. CASE HaltTerm(m0)
  <2>1. LadderSparesStrangers'
    BY <1>1 DEF HaltTerm, MayHalt, Halted, ProcessMatches, Signal, StartWait, Goto,
       Succeed, End, LadderSparesStrangers, TypeOK, ProcTypes, DirTypes, RunTypes
  <2>2. WriterIsTracked' /\ (\A p \in Pids : ProcInv(p)')
    BY SMT, <1>1 DEF HaltTerm, MayHalt, Halted, ProcessMatches, Signal, StartWait, Goto,
       Succeed, End, WriterIsTracked, LadderInv, Writes, ProcInv, TypeOK, ProcTypes, DirTypes, RunTypes
  <2>3. \A m \in Machines : VerbInv(m)'
    BY SMT, <1>1 DEF HaltTerm, MayHalt, Halted, ProcessMatches, Signal, StartWait, Goto,
       Succeed, End, VerbInv, AllVerbs, TypeOK, ProcTypes, DirTypes, RunTypes
  <2>4. \A m \in Machines : LadderInv(m)'
    BY SMT, <1>1 DEF HaltTerm, MayHalt, Halted, ProcessMatches, Signal, StartWait, Goto,
       Succeed, End, LadderInv, VerbInv, WriterIsTracked, ProcInv, Writes, TypeOK, ProcTypes, DirTypes, RunTypes
  <2>5. StopMeansStopped'
    BY SMT, <1>1 DEF HaltTerm, MayHalt, Halted, ProcessMatches, Signal, StartWait, Goto,
       Succeed, End, StopMeansStopped, VerbInv, LadderInv, WriterIsTracked, Writes, TypeOK, ProcTypes, DirTypes, RunTypes
  <2>6. DeleteLeavesNothing'
    BY SMT, <1>1 DEF HaltTerm, MayHalt, Halted, ProcessMatches, Signal, StartWait, Goto,
       Succeed, End, DeleteLeavesNothing, VerbInv, LadderInv, ProcInv, Writes, TypeOK, ProcTypes, DirTypes, RunTypes
  <2> QED
    BY <2>1, <2>2, <2>3, <2>4, <2>5, <2>6
<1>2. CASE WaitExpires(m0)
  <2>1. LadderSparesStrangers'
    BY SMT, <1>2 DEF WaitExpires, Gone, ProcessMatches, Signal, StartWait, Goto, Fail,
       End, LadderSparesStrangers, TypeOK, ProcTypes, DirTypes, RunTypes
  <2>2. WriterIsTracked' /\ (\A p \in Pids : ProcInv(p)')
    BY SMT, <1>2 DEF WaitExpires, Gone, ProcessMatches, Signal, StartWait, Goto, Fail,
       End, WriterIsTracked, LadderInv, Writes, ProcInv, TypeOK, ProcTypes, DirTypes, RunTypes
  <2>3. \A m \in Machines : VerbInv(m)'
    BY SMT, <1>2 DEF WaitExpires, Gone, ProcessMatches, Signal, StartWait, Goto, Fail,
       End, VerbInv, AllVerbs, TypeOK, ProcTypes, DirTypes, RunTypes
  <2>4. \A m \in Machines : LadderInv(m)'
    BY <1>2, SMTT(30) DEF WaitExpires, Gone, ProcessMatches, Signal, StartWait, Goto, Fail,
       End, LadderInv, VerbInv, WriterIsTracked, ProcInv, Writes, TypeOK, ProcTypes, DirTypes, RunTypes
  <2>5. StopMeansStopped'
    BY SMT, <1>2 DEF WaitExpires, Gone, ProcessMatches, Signal, StartWait, Goto, Fail,
       End, StopMeansStopped, VerbInv, LadderInv, WriterIsTracked, Writes, TypeOK, ProcTypes, DirTypes, RunTypes
  <2>6. DeleteLeavesNothing'
    BY SMT, <1>2 DEF WaitExpires, Gone, ProcessMatches, Signal, StartWait, Goto, Fail,
       End, DeleteLeavesNothing, VerbInv, LadderInv, ProcInv, Writes, TypeOK, ProcTypes, DirTypes, RunTypes
  <2> QED
    BY <2>1, <2>2, <2>3, <2>4, <2>5, <2>6
<1>3. CASE DestroySWTPM(m0)
  <2>1. LadderSparesStrangers'
    BY <1>3 DEF DestroySWTPM, Signal, Goto, LadderSparesStrangers, TypeOK, ProcTypes,
       DirTypes, RunTypes
  <2>2. WriterIsTracked' /\ (\A p \in Pids : ProcInv(p)')
    BY SMT, <1>3 DEF DestroySWTPM, Signal, Goto, WriterIsTracked, LadderInv, Writes,
       ProcInv, TypeOK, ProcTypes, DirTypes, RunTypes
  <2>3. \A m \in Machines : VerbInv(m)'
    BY <1>3, SMTT(30) DEF DestroySWTPM, Signal, Goto, VerbInv, AllVerbs, TypeOK, ProcTypes,
       DirTypes, RunTypes
  <2>4. \A m \in Machines : LadderInv(m)'
    BY <1>3, SMTT(30) DEF DestroySWTPM, Signal, Goto, LadderInv, VerbInv, WriterIsTracked,
       ProcInv, Writes, TypeOK, ProcTypes, DirTypes, RunTypes
  <2>5. StopMeansStopped'
    BY SMT, <1>3 DEF DestroySWTPM, Signal, Goto, StopMeansStopped, VerbInv, LadderInv,
       WriterIsTracked, Writes, TypeOK, ProcTypes, DirTypes, RunTypes
  <2>6. DeleteLeavesNothing'
    BY SMT, <1>3 DEF DestroySWTPM, Signal, Goto, DeleteLeavesNothing, VerbInv, LadderInv,
       ProcInv, Writes, TypeOK, ProcTypes, DirTypes, RunTypes
  <2> QED
    BY <2>1, <2>2, <2>3, <2>4, <2>5, <2>6
<1> QED
  BY <1>1, <1>2, <1>3 DEF Signals

\* Unlinking files gives nobody a disk to write to.
LEMMA UnlinkOnlyRemoves ==
  ASSUME ProcTypes, NEW m0 \in Machines, NEW K, Unlink(m0, K),
         NEW p \in Pids, NEW m \in Machines
  PROVE  Writes(p, m)' => Writes(p, m)
BY DEF ProcTypes, Unlink, Writes

\* What the sweep unlinks is nobody's to write to.
LEMMA SweepsKeepsInv ==
  ASSUME Inv, TypeOK', NEW m0 \in Machines, Sweeps(m0)
  PROVE  Inv'
<1> USE DEF procVars, dirVars, runVars, At, Destroying, Reported
<1>1. /\ \A p \in Pids : ~Writes(p, m0)
      /\ verb[m0] \in {"destroy", "delete"}
  BY DEF Inv, Sweeps, Sweep, SweepFails, LadderInv, VerbInv
<1>2. PICK K \in SUBSET {"qemu", "starting", "swtpm"} : Unlink(m0, K)
  BY DEF Sweeps, Sweep, SweepFails
<1>3. \A p \in Pids : \A m \in Machines : Writes(p, m)' => Writes(p, m)
  BY <1>2, UnlinkOnlyRemoves, SMTT(30) DEF Inv, TypeOK
<1>4. /\ \A m \in Machines \ {m0} :
           /\ disk'[m] = disk[m] /\ qemuPid'[m] = qemuPid[m] /\ swtpmPid'[m] = swtpmPid[m]
           /\ made'[m] = made[m] /\ talosconfig'[m] = talosconfig[m]
           /\ pc'[m] = pc[m] /\ verb'[m] = verb[m] /\ pid'[m] = pid[m] /\ rung'[m] = rung[m]
      /\ pc'[m0] = "idle"
      /\ verb'[m0] \in {verb[m0], "failed"}
      /\ struck' = struck
  <2>1. DirTypes /\ RunTypes
    BY DEF Inv, TypeOK
  <2>2. CASE Sweep(m0)
    BY <2>1, <2>2 DEF DirTypes, RunTypes, Sweep, Succeed, End
  <2>3. CASE SweepFails(m0)
    BY <2>1, <2>3 DEF DirTypes, RunTypes, SweepFails, Fail, End
  <2> QED
    BY <2>2, <2>3 DEF Sweeps
<1>5. LadderSparesStrangers' /\ WriterIsTracked'
  BY <1>1, <1>3, <1>4 DEF Inv, LadderSparesStrangers, WriterIsTracked
<1>6. ASSUME NEW p \in Pids PROVE ProcInv(p)'
  <2>1. CASE unlinked'[p] = unlinked[p]
    BY <1>2, <2>1 DEF Inv, ProcInv, Unlink
  <2>2. CASE unlinked'[p] # unlinked[p]
    <3>1. kind[p] \in {"qemu", "starting", "swtpm"} /\ owner[p] = m0 /\ ~unlinked[p] /\ unlinked'[p]
      BY <1>2, <2>2, Zenon DEF Inv, TypeOK, ProcTypes, Unlink
    <3>2. kind[p] = "qemu" => told[p] = "SIGKILL"
      BY <1>1, <3>1 DEF Writes
    <3> QED
      BY <1>2, <3>1, <3>2 DEF Inv, ProcInv, Unlink
  <2> QED
    BY <2>1, <2>2
<1>7. \A m \in Machines : VerbInv(m)'
  BY <1>4, SMTT(30) DEF Inv, VerbInv
<1>8. ASSUME NEW m \in Machines PROVE LadderInv(m)'
  BY <1>3, <1>4 DEF Inv, LadderInv
<1>9. StopMeansStopped'
  BY <1>1, <1>3, <1>4 DEF Inv, StopMeansStopped
<1>10. DeleteLeavesNothing'
  <2> SUFFICES ASSUME NEW m \in Machines, Reported(m, "delete")'
               PROVE  /\ ~made'[m] /\ ~disk'[m] /\ ~talosconfig'[m] /\ swtpmPid'[m] = NoPid
                      /\ \A p \in Pids : owner'[p] = m =>
                           unlinked'[p] /\ (kind'[p] = "qemu" => told'[p] = "SIGKILL")
    BY DEF DeleteLeavesNothing
  <2>1. CASE m # m0
    <3>1. \A p \in Pids : owner'[p] = m =>
            /\ owner[p] = m /\ unlinked'[p] = unlinked[p] /\ told'[p] = told[p] /\ kind'[p] = kind[p]
      BY <1>2, <2>1 DEF Inv, TypeOK, ProcTypes, Unlink
    <3>2. /\ Reported(m, "delete") /\ swtpmPid'[m] = swtpmPid[m]
          /\ made'[m] = made[m] /\ disk'[m] = disk[m] /\ talosconfig'[m] = talosconfig[m]
      BY <1>4, <2>1 DEF Reported, At
    <3>3. /\ ~made[m] /\ ~disk[m] /\ ~talosconfig[m] /\ swtpmPid[m] = NoPid
          /\ \A p \in Pids : owner[p] = m => unlinked[p] /\ (kind[p] = "qemu" => told[p] = "SIGKILL")
      BY <3>2 DEF Inv, DeleteLeavesNothing
    <3> QED
      BY <3>1, <3>2, <3>3
  <2>2. CASE m = m0
    <3>1. Sweep(m0)
      BY <1>1, <2>2, SMTT(30) DEF Sweeps, SweepFails, Fail, End, Inv, TypeOK, RunTypes
    <3>2. ~made'[m0] /\ ~disk'[m0] /\ ~talosconfig'[m0] /\ swtpmPid'[m0] = NoPid
      BY <3>1 DEF Sweep, Inv, TypeOK, DirTypes
    <3>3. ASSUME NEW p \in Pids, owner'[p] = m0
          PROVE  unlinked'[p] /\ (kind'[p] = "qemu" => told'[p] = "SIGKILL")
      <4>1. owner[p] = m0 /\ told'[p] = told[p] /\ kind'[p] = kind[p]
        BY <3>1, <3>3 DEF Sweep, Unlink
      <4>2. kind[p] \in {"qemu", "starting", "swtpm"}
        BY <4>1, MachineAssumption DEF Inv, ProcInv, TypeOK, ProcTypes
      <4>3. unlinked'[p]
        BY <3>1, <4>1, <4>2, Zenon DEF Sweep, Unlink
      <4>4. kind[p] = "qemu" => told[p] = "SIGKILL"
        BY <1>1, <4>1 DEF Inv, ProcInv, Writes
      <4> QED
        BY <4>1, <4>3, <4>4
    <3> QED
      BY <2>2, <3>2, <3>3
  <2> QED
    BY <2>1, <2>2
<1> QED
  BY <1>5, <1>6, <1>7, <1>8, <1>9, <1>10 DEF Inv

-----------------------------------------------------------------------------
(* The theorems. *)

LEMMA InvInit == Init => Inv
BY SMT, MachineAssumption
   DEF Init, Inv, TypeOK, ProcTypes, DirTypes, RunTypes, MaybePid, Labels, At,
       LadderSparesStrangers, WriterIsTracked, ProcInv, VerbInv, LadderInv,
       StopMeansStopped, DeleteLeavesNothing, Reported, Writes

LEMMA InvStep == Inv /\ [Next]_vars => Inv'
<1> SUFFICES ASSUME Inv, [Next]_vars PROVE Inv'
  OBVIOUS
<1>1. TypeOK'
  BY TypeStep, SMTT(30) DEF Inv
<1>2. CASE UNCHANGED vars
  BY SMT, <1>2 DEF vars, procVars, dirVars, runVars, Inv, TypeOK, ProcTypes, DirTypes,
     RunTypes, At, LadderSparesStrangers, WriterIsTracked, ProcInv, VerbInv, LadderInv,
     StopMeansStopped, DeleteLeavesNothing, Reported, Writes, Destroying
<1>3. ASSUME NEW m \in Machines, TinqStep(m) \/ UserStep(m) PROVE Inv'
  BY <1>1, <1>3, UserKeepsInv, DecidesKeepsInv, WaitsKeepsInv, CreatesKeepsInv,
     SignalsKeepsInv, SweepsKeepsInv DEF TinqStep
<1>4. CASE HostStep
  BY <1>1, <1>4, HostKeepsInv
<1> QED
  BY <1>2, <1>3, <1>4 DEF Next

\* The invariant holds for any number of machines, pids and polls.
THEOREM Invariance == Spec => []Inv
BY InvInit, InvStep, PTL DEF Spec

\* Every variable keeps its type.
THEOREM TypeCorrect == Spec => []TypeOK
<1>1. Inv => TypeOK
  BY DEF Inv
<1> QED
  BY <1>1, Invariance, PTL

\* halt: no signal of the ladder ever reaches a process of another owner.
THEOREM LadderIsGated == Spec => []LadderSparesStrangers
<1>1. Inv => LadderSparesStrangers
  BY DEF Inv
<1> QED
  BY <1>1, Invariance, PTL

\* create and Observe: whatever writes to a disk is what its pidfile names.
THEOREM WritersTracked == Spec => []WriterIsTracked
<1>1. Inv => WriterIsTracked
  BY DEF Inv
<1> QED
  BY <1>1, Invariance, PTL

\* destroy: no disk is removed under a qemu that has not been sent SIGKILL.
THEOREM NoSweepUnderLiveQemu == Spec => []SweepsOnlyTheDead
<1>1. Inv => SweepsOnlyTheDead
  BY DEF Inv, ProcInv, SweepsOnlyTheDead
<1> QED
  BY <1>1, Invariance, PTL

\* Stop and Destroy: what they report is true.
THEOREM ReportsAreTrue == Spec => []TrueReports
<1>1. Inv => TrueReports
  BY DEF Inv, TrueReports
<1> QED
  BY <1>1, Invariance, PTL

-----------------------------------------------------------------------------
(* The driver implements DiskCustody: every step of Machine creates a disk,    *)
(* starts its one writer, discards a disk nothing writes to, takes writers     *)
(* away, or changes neither.                                                   *)

\* Steps that touch no disk and give no process the power to write only take
\* writers away.
LEMMA OnlyStops ==
  ASSUME UNCHANGED disk,
         \A m \in Machines : \A p \in Pids : Writes(p, m)' => Writes(p, m)
  PROVE  Custody!Stop
BY DEF Custody!Stop, Writers

\* What decides, waits and signals touches no disk and starts no qemu.
LEMMA QuietStop ==
  ASSUME Inv, NEW m0 \in Machines,
         Decides(m0) \/ Waits(m0) \/ Signals(m0) \/ UserStep(m0)
  PROVE  Custody!Stop
<1> USE DEF procVars, dirVars, runVars
<1>1. UNCHANGED disk
  BY DEF Decides, Waits, Signals, UserStep, Standalone, StopObserve, StopReadPid,
     DestroyReadPid, StepFails, ShutdownAccepted, ShutdownUnavailable, WaitSeesGone,
     WaitPolls, SelectTick, SelectDone, HaltTerm, WaitExpires, DestroySWTPM, Begin,
     Cancel, TinqKilled
<1>2. /\ UNCHANGED <<kind, owner, unlinked>>
      /\ \A p \in Pids : told[p] = "SIGKILL" => told'[p] = "SIGKILL"
  <2>1. CASE Signals(m0)
    BY <2>1 DEF Inv, TypeOK, ProcTypes, Signals, HaltTerm, WaitExpires, DestroySWTPM,
       Signal
  <2>2. CASE Decides(m0) \/ Waits(m0) \/ UserStep(m0)
    BY <2>2 DEF Decides, Waits, UserStep, Standalone, StopObserve, StopReadPid,
       DestroyReadPid, StepFails, ShutdownAccepted, ShutdownUnavailable, WaitSeesGone,
       WaitPolls, SelectTick, SelectDone, Begin, Cancel, TinqKilled
  <2> QED
    BY <2>1, <2>2
<1>3. \A m \in Machines : \A p \in Pids : Writes(p, m)' => Writes(p, m)
  BY <1>2 DEF Writes
<1> QED
  BY <1>1, <1>3, OnlyStops

\* So does the rest of the host.
LEMMA HostStop ==
  ASSUME Inv, HostStep
  PROVE  Custody!Stop
<1>1. UNCHANGED disk
  BY DEF HostStep, ProcessExits, SwtpmWritesPidfile, StrangerStarts, HostReboots, dirVars
<1>2. \A m \in Machines : \A p \in Pids : Writes(p, m)' => Writes(p, m)
  <2>1. ProcTypes
    BY DEF Inv, TypeOK
  <2>2. ASSUME NEW q \in Pids, ProcessExits(q), NEW m \in Machines, NEW p \in Pids, Writes(p, m)'
        PROVE  Writes(p, m)
    <3>1. p # q
      BY <2>1, <2>2 DEF ProcTypes, ProcessExits, Writes
    <3> QED
      BY <2>1, <2>2, <3>1 DEF ProcTypes, ProcessExits, Writes
  <2>3. ASSUME NEW q \in Pids, StrangerStarts(q), NEW m \in Machines, NEW p \in Pids, Writes(p, m)'
        PROVE  Writes(p, m)
    <3>1. p # q
      BY <2>1, <2>3 DEF ProcTypes, StrangerStarts, Start, Writes
    <3> QED
      BY <2>1, <2>3, <3>1 DEF ProcTypes, StrangerStarts, Start, Writes
  <2>4. ASSUME HostReboots, NEW m \in Machines, NEW p \in Pids
        PROVE  ~Writes(p, m)'
    BY <2>4 DEF HostReboots, Writes
  <2>5. ASSUME NEW q \in Pids, SwtpmWritesPidfile(q), NEW m \in Machines, NEW p \in Pids, Writes(p, m)'
        PROVE  Writes(p, m)
    BY <2>1, <2>5 DEF ProcTypes, SwtpmWritesPidfile, Writes
  <2> QED
    BY <2>2, <2>3, <2>4, <2>5 DEF HostStep
<1> QED
  BY <1>1, <1>2, OnlyStops

\* create makes the disk, and then starts its one writer.
LEMMA CreatesRefines ==
  ASSUME Inv, NEW m0 \in Machines, Creates(m0)
  PROVE  Custody!Stop \/ Custody!Create(m0) \/ \E p \in Pids : Custody!Start(m0, p)
<1> USE DEF procVars, dirVars
<1>1. CASE CreateDir(m0) \/ AwaitPidfile(m0) \/ PidfileTimeout(m0) \/ LaunchFails(m0) \/ WriteTalosconfig(m0)
  BY <1>1, OnlyStops DEF CreateDir, AwaitPidfile, PidfileTimeout, LaunchFails, WriteTalosconfig, Writes
<1>2. CASE EnsureDisks(m0)
  <2>1. [m \in Machines |-> Writers(m)]' = [m \in Machines |-> Writers(m)]
    BY <1>2 DEF EnsureDisks, Writers, Writes
  <2>2. CASE disk[m0]
    <3>1. UNCHANGED disk
      BY <1>2, <2>2 DEF EnsureDisks, Inv, TypeOK, DirTypes
    <3> QED
      BY <1>2, <3>1, OnlyStops DEF EnsureDisks, Writes
  <2>3. CASE ~disk[m0]
    BY <1>2, <2>1, <2>3 DEF EnsureDisks, Custody!Create
  <2> QED
    BY <2>2, <2>3
<1>3. CASE EnsureSWTPM(m0)
  <2>1. \A m \in Machines : \A p \in Pids : Writes(p, m)' => Writes(p, m)
    BY <1>3 DEF Inv, TypeOK, ProcTypes, EnsureSWTPM, Start, Writes
  <2> QED
    BY <1>3, <2>1, OnlyStops DEF EnsureSWTPM
<1>4. CASE LaunchQemu(m0)
  <2>1. PICK q \in Pids : Start(q, "qemu", m0)
    BY <1>4 DEF LaunchQemu
  <2>2. disk[m0] /\ UNCHANGED disk /\ \A p \in Pids : ~Writes(p, m0)
    BY <1>4 DEF LaunchQemu, At, Inv, LadderInv
  <2>3. \A m \in Machines : \A p \in Pids :
          Writes(p, m)' <=> Writes(p, m) \/ (p = q /\ m = m0)
    BY <2>1 DEF Inv, TypeOK, ProcTypes, ProcInv, Start, Writes
  <2>4. Writers(m0) = {} /\ Writers(m0)' = {q}
    BY <2>2, <2>3 DEF Writers
  <2>5. \A m \in Machines \ {m0} : Writers(m)' = Writers(m)
    BY <2>3 DEF Writers
  <2>6. [m \in Machines |-> Writers(m)]'
          = [[m \in Machines |-> Writers(m)] EXCEPT ![m0] = {q}]
    BY <2>4, <2>5, Zenon
  <2>7. Custody!Start(m0, q)
    BY <2>2, <2>4, <2>6 DEF Custody!Start
  <2> QED
    BY <2>7
<1> QED
  BY <1>1, <1>2, <1>3, <1>4 DEF Creates

\* destroy discards only what nothing writes to.
LEMMA SweepsRefines ==
  ASSUME Inv, NEW m0 \in Machines, Sweeps(m0)
  PROVE  Custody!Stop \/ Custody!Discard(m0)
<1>1. PICK K \in SUBSET {"qemu", "starting", "swtpm"} : Unlink(m0, K)
  BY DEF Sweeps, Sweep, SweepFails
<1>2. \A p \in Pids : ~Writes(p, m0)
  BY DEF Inv, Sweeps, Sweep, SweepFails, At, LadderInv
<1>3. \A m \in Machines : \A p \in Pids : Writes(p, m)' <=> Writes(p, m)
  BY <1>1, <1>2 DEF Inv, TypeOK, ProcTypes, Unlink, Writes
<1>4. Writers(m0) = {} /\ [m \in Machines |-> Writers(m)]' = [m \in Machines |-> Writers(m)]
  BY <1>2, <1>3 DEF Writers
<1>5. disk' \in {disk, [disk EXCEPT ![m0] = FALSE]}
  BY DEF Sweeps, Sweep, SweepFails
<1>6. CASE UNCHANGED disk
  BY <1>3, <1>6, OnlyStops
<1>7. CASE disk' = [disk EXCEPT ![m0] = FALSE]
  BY <1>4, <1>7 DEF Custody!Discard
<1> QED
  BY <1>5, <1>6, <1>7

LEMMA StepRefines ==
  ASSUME Inv, [Next]_vars
  PROVE  [Custody!Next]_(Custody!custody)
<1>1. CASE UNCHANGED vars
  BY <1>1 DEF vars, procVars, dirVars, Custody!custody, Writers, Writes
<1>2. ASSUME NEW m \in Machines, TinqStep(m) \/ UserStep(m)
      PROVE  Custody!Next
  BY <1>2, QuietStop, CreatesRefines, SweepsRefines DEF TinqStep, Custody!Next
<1>3. CASE HostStep
  BY <1>3, HostStop DEF Custody!Next
<1> QED
  BY <1>1, <1>2, <1>3 DEF Next

\* The driver keeps custody of every disk: never two writers on one disk, none
\* without a disk, and no disk discarded under a writer, for any number of
\* machines, pids and polls.
THEOREM DriverKeepsCustody == Spec => CustodyKept
<1>1. Init => Custody!Init
  BY DEF Init, Custody!Init, Writers, Writes
<1> QED
  BY <1>1, Invariance, StepRefines, PTL DEF Spec, CustodyKept, Custody!Spec

-----------------------------------------------------------------------------
(* How long a run can last. *)

\* The budget at each label, read off the definition once.
LEMMA Budget ==
  ASSUME NEW l \in Labels, NEW r \in {"guest", "SIGTERM", "SIGKILL"}, NEW n \in 0..MaxPolls
  PROVE  /\ Ahead(l, r, n) \in Nat
         /\ l = "idle" <=> Ahead(l, r, n) = 0
         /\ l \in {"sweep", "config"} => Ahead(l, r, n) = 1
         /\ l = "launch" => Ahead(l, r, n) = 2
         /\ l = "await" => Ahead(l, r, n) = 3
         /\ l = "swtpm" => Ahead(l, r, n) = 4
         /\ l = "disk" => Ahead(l, r, n) = 5
         /\ l = "mkdir" => Ahead(l, r, n) = 6
         /\ l = "select" => Ahead(l, r, n) = RungSteps(r) + 2 * n
         /\ l = "check" => Ahead(l, r, n) = RungSteps(r) + 2 * n + 1
         /\ l = "term" => Ahead(l, r, n) = 4 + 4 * MaxPolls
         /\ l = "shutdown" => Ahead(l, r, n) = 6 + 6 * MaxPolls
         /\ l \in {"stopPid", "destroyPid"} => Ahead(l, r, n) = 7 + 6 * MaxPolls
         /\ l \in {"stopObserve", "vtpm"} => Ahead(l, r, n) = 8 + 6 * MaxPolls
         /\ l = "observe" => Ahead(l, r, n) = 9 + 6 * MaxPolls
<1>1. n \in Nat /\ MaxPolls \in Nat /\ RungSteps(r) \in Nat /\ RungSteps(r) > 0
  BY SMT, MachineAssumption DEF RungSteps, WaitSteps
<1> QED
  BY SMT, <1>1 DEF Ahead, WaitSteps, Labels

\* The arguments a run gives it.
LEMMA BudgetTypes ==
  ASSUME RunTypes, NEW m \in Machines
  PROVE  pc[m] \in Labels /\ rung[m] \in {"guest", "SIGTERM", "SIGKILL"} /\ polls[m] \in 0..MaxPolls
BY DEF RunTypes

\* A step that ends the run leaves nothing of its budget.
LEMMA EndUses ==
  ASSUME RunTypes, NEW m \in Machines, ~At(m, "idle"), NEW v, End(m, v)
  PROVE  StepsLeft(m)' < StepsLeft(m)
<1>1. pc'[m] = "idle" /\ rung'[m] = "guest" /\ polls'[m] = 0
  BY DEF End, RunTypes
<1>2. "idle" \in Labels /\ 0 \in 0..MaxPolls
  BY SMT, MachineAssumption DEF Labels
<1>3. Ahead("idle", "guest", 0) = 0
  BY <1>2, Budget
<1>4. StepsLeft(m) \in Nat /\ StepsLeft(m) # 0
  BY Budget, BudgetTypes DEF StepsLeft, At
<1>5. StepsLeft(m)' = 0
  BY <1>1, <1>3 DEF StepsLeft
<1>6. \A n \in Nat : n # 0 => 0 < n
  BY SMT
<1> QED
  BY <1>4, <1>5, <1>6, Zenon

\* A step that only moves on to label l.
LEMMA GotoUses ==
  ASSUME RunTypes, NEW m \in Machines, NEW l, Goto(m, l)
  PROVE  StepsLeft(m)' = Ahead(l, rung[m], polls[m])
BY DEF Goto, RunTypes, StepsLeft

\* A step that enters a wait.
LEMMA WaitUses ==
  ASSUME RunTypes, NEW m \in Machines, NEW r \in {"guest", "SIGTERM", "SIGKILL"},
         StartWait(m, r)
  PROVE  StepsLeft(m)' = RungSteps(r) + 2 * MaxPolls + 1
<1>1. pc'[m] = "check" /\ rung'[m] = r /\ polls'[m] = MaxPolls
  BY DEF StartWait, RunTypes
<1>2. "check" \in Labels /\ MaxPolls \in 0..MaxPolls
  BY SMT, MachineAssumption DEF Labels
<1> QED
  BY <1>1, <1>2, Budget DEF StepsLeft

\* Every step of an invocation uses up some of its budget.
LEMMA StepUses ==
  ASSUME RunTypes, NEW m \in Machines, TinqStep(m)
  PROVE  StepsLeft(m)' < StepsLeft(m)
<1> DEFINE B(l) == Ahead(l, rung[m], polls[m])
<1>1. /\ MaxPolls \in Nat /\ polls[m] \in Nat /\ polls[m] <= MaxPolls
      /\ rung[m] \in {"guest", "SIGTERM", "SIGKILL"}
      /\ At(m, "select") => polls[m] > 0
  BY SMT, MachineAssumption DEF RunTypes
<1>2. /\ B("sweep") = 1 /\ B("config") = 1 /\ B("launch") = 2 /\ B("await") = 3
      /\ B("swtpm") = 4 /\ B("disk") = 5 /\ B("mkdir") = 6
      /\ B("select") = RungSteps(rung[m]) + 2 * polls[m]
      /\ B("check") = RungSteps(rung[m]) + 2 * polls[m] + 1
      /\ B("term") = 4 + 4 * MaxPolls /\ B("shutdown") = 6 + 6 * MaxPolls
      /\ B("stopPid") = 7 + 6 * MaxPolls /\ B("destroyPid") = 7 + 6 * MaxPolls
      /\ B("stopObserve") = 8 + 6 * MaxPolls /\ B("vtpm") = 8 + 6 * MaxPolls
      /\ B("observe") = 9 + 6 * MaxPolls
  BY Budget, BudgetTypes DEF Labels
<1>3. /\ RungSteps("SIGKILL") = 1 /\ RungSteps("SIGTERM") = 2 + 2 * MaxPolls
      /\ RungSteps("guest") = 4 + 4 * MaxPolls
      /\ RungSteps(rung[m]) \in Nat /\ RungSteps(rung[m]) > 0
  BY SMT, <1>1 DEF RungSteps, WaitSteps
<1>4. StepsLeft(m) = B(pc[m])
  BY DEF StepsLeft
<1>5. \A l : Goto(m, l) => StepsLeft(m)' = B(l)
  BY GotoUses
<1>6. \A l : ReadPid(m, l) => StepsLeft(m)' = B(l)
  BY DEF ReadPid, RunTypes, StepsLeft
<1>7. \A v : End(m, v) /\ ~At(m, "idle") => StepsLeft(m)' < StepsLeft(m)
  BY EndUses
<1>8. \A r \in {"guest", "SIGTERM", "SIGKILL"} :
        StartWait(m, r) => StepsLeft(m)' = RungSteps(r) + 2 * MaxPolls + 1
  BY WaitUses
<1> HIDE DEF B
<1>9. CASE Decides(m)
  <2>1. CASE Standalone(m)
    <3>1. Dispatch(verb[m], Observe(m)) \in {"idle", "mkdir", "config", "stopObserve", "vtpm"}
      BY DEF Dispatch
    <3>2. CASE Dispatch(verb[m], Observe(m)) = "idle"
      BY <2>1, <3>2, <1>7 DEF Standalone, Succeed, At
    <3>3. CASE Dispatch(verb[m], Observe(m)) # "idle"
      <4>1. Goto(m, Dispatch(verb[m], Observe(m))) /\ pc[m] = "observe"
        BY <2>1, <3>3 DEF Standalone, At
      <4> QED
        BY SMT, <4>1, <3>1, <3>3, <1>1, <1>2, <1>4, <1>5
    <3> QED
      BY <3>2, <3>3
  <2>2. CASE StopObserve(m)
    <3>1. CASE Observe(m) = "Running"
      <4>1. pc[m] = "stopObserve" /\ Goto(m, "stopPid")
        BY <2>2, <3>1 DEF StopObserve, At
      <4> QED
        BY SMT, <4>1, <1>1, <1>2, <1>4, <1>5
    <3>2. CASE Observe(m) # "Running"
      BY <2>2, <3>2, <1>7 DEF StopObserve, Succeed, At
    <3> QED
      BY <3>1, <3>2
  <2>3. CASE StopReadPid(m)
    BY SMT, <2>3, <1>1, <1>2, <1>4, <1>6 DEF StopReadPid, At
  <2>4. CASE DestroyReadPid(m)
    BY SMT, <2>4, <1>1, <1>2, <1>4, <1>6 DEF DestroyReadPid, At
  <2>5. CASE StepFails(m)
    BY <2>5, <1>7 DEF StepFails, Fail, At
  <2> QED
    BY <1>9, <2>1, <2>2, <2>3, <2>4, <2>5 DEF Decides
<1>10. CASE Creates(m)
  <2>1. CASE CreateDir(m)
    BY SMT, <2>1, <1>2, <1>4, <1>5 DEF CreateDir, At
  <2>2. CASE EnsureDisks(m)
    BY SMT, <2>2, <1>2, <1>4, <1>5 DEF EnsureDisks, At
  <2>3. CASE EnsureSWTPM(m)
    <3>1. pc[m] = "swtpm" /\ (Goto(m, "launch") \/ Goto(m, "await"))
      BY <2>3 DEF EnsureSWTPM, At
    <3> QED
      BY SMT, <3>1, <1>2, <1>4, <1>5
  <2>4. CASE LaunchQemu(m)
    <3>1. pc[m] = "launch" /\ (Goto(m, "config") \/ Succeed(m) \/ Fail(m))
      BY <2>4 DEF LaunchQemu, At
    <3>2. CASE Goto(m, "config")
      BY SMT, <3>1, <3>2, <1>2, <1>4, <1>5
    <3>3. CASE Succeed(m) \/ Fail(m)
      BY <3>1, <3>3, <1>7 DEF Succeed, Fail, At
    <3> QED
      BY <3>1, <3>2, <3>3
  <2>5. CASE LaunchFails(m) \/ WriteTalosconfig(m)
    BY <2>5, <1>7 DEF LaunchFails, WriteTalosconfig, Succeed, Fail, At
  <2>6. CASE AwaitPidfile(m)
    BY SMT, <2>6, <1>2, <1>4, <1>5 DEF AwaitPidfile, At
  <2>7. CASE PidfileTimeout(m)
    BY <2>7, <1>7 DEF PidfileTimeout, Fail, At
  <2> QED
    BY <1>10, <2>1, <2>2, <2>3, <2>4, <2>5, <2>6, <2>7 DEF Creates
<1>11. ASSUME Halted(m), pc[m] \in {"term", "check"} PROVE StepsLeft(m)' < StepsLeft(m)
  <2>1. CASE Goto(m, "sweep")
    BY SMT, <1>11, <2>1, <1>1, <1>2, <1>3, <1>4, <1>5
  <2>2. CASE Succeed(m)
    BY <1>11, <2>2, <1>7 DEF Succeed, At
  <2> QED
    BY <1>11, <2>1, <2>2 DEF Halted
<1>12. CASE Waits(m)
  <2>1. CASE ShutdownAccepted(m)
    BY SMT, <2>1, <1>1, <1>2, <1>3, <1>4, <1>8 DEF ShutdownAccepted, At
  <2>2. CASE ShutdownUnavailable(m)
    BY SMT, <2>2, <1>1, <1>2, <1>4, <1>5 DEF ShutdownUnavailable, At
  <2>3. CASE WaitSeesGone(m)
    BY <2>3, <1>7, <1>11 DEF WaitSeesGone, Succeed, At
  <2>4. CASE WaitPolls(m)
    BY SMT, <2>4, <1>1, <1>2, <1>3, <1>4, <1>5 DEF WaitPolls, At
  <2>5. CASE SelectTick(m)
    <3>1. /\ pc[m] = "select" /\ pc'[m] = "check" /\ rung'[m] = rung[m]
          /\ polls'[m] = polls[m] - 1 /\ polls[m] - 1 \in 0..MaxPolls
      BY SMT, <2>5, <1>1 DEF SelectTick, RunTypes, At
    <3>2. "check" \in Labels
      BY DEF Labels
    <3>3. \A n \in 0..MaxPolls : Ahead("check", rung[m], n) = RungSteps(rung[m]) + 2 * n + 1
      BY <3>2, <1>1, Budget
    <3> QED
      BY SMT, <3>1, <3>3, <1>1, <1>2, <1>3, <1>4 DEF StepsLeft
  <2>6. CASE SelectDone(m)
    BY <2>6, <1>7 DEF SelectDone, Fail, At
  <2> QED
    BY <1>12, <2>1, <2>2, <2>3, <2>4, <2>5, <2>6 DEF Waits
<1>13. CASE Signals(m)
  <2>1. CASE HaltTerm(m)
    <3>1. CASE MayHalt(m)
      <4>1. pc[m] = "term" /\ StartWait(m, "SIGTERM")
        BY <2>1, <3>1 DEF HaltTerm, At
      <4> QED
        BY SMT, <4>1, <1>1, <1>2, <1>3, <1>4, <1>8
    <3>2. CASE ~MayHalt(m)
      BY <2>1, <3>2, <1>11 DEF HaltTerm, At
    <3> QED
      BY <3>1, <3>2
  <2>2. CASE WaitExpires(m)
    <3>1. pc[m] = "check" /\ polls[m] = 0
      BY <2>2 DEF WaitExpires, At
    <3>2. CASE rung[m] = "guest"
      <4>1. Goto(m, "term")
        BY <2>2, <3>2 DEF WaitExpires
      <4> QED
        BY SMT, <4>1, <3>1, <3>2, <1>1, <1>2, <1>3, <1>4, <1>5
    <3>3. CASE rung[m] = "SIGTERM"
      <4>1. StartWait(m, "SIGKILL")
        BY <2>2, <3>3 DEF WaitExpires
      <4> QED
        BY SMT, <4>1, <3>1, <3>3, <1>1, <1>2, <1>3, <1>4, <1>8
    <3>4. CASE rung[m] = "SIGKILL"
      <4>1. Goto(m, "sweep") \/ Fail(m)
        BY <2>2, <3>4 DEF WaitExpires
      <4>2. CASE Goto(m, "sweep")
        BY SMT, <4>2, <3>1, <3>4, <1>1, <1>2, <1>3, <1>4, <1>5
      <4>3. CASE Fail(m)
        BY <4>3, <3>1, <1>7 DEF Fail, At
      <4> QED
        BY <4>1, <4>2, <4>3
    <3> QED
      BY <3>2, <3>3, <3>4, <1>1
  <2>3. CASE DestroySWTPM(m)
    BY SMT, <2>3, <1>1, <1>2, <1>4, <1>5 DEF DestroySWTPM, At
  <2> QED
    BY <1>13, <2>1, <2>2, <2>3 DEF Signals
<1>14. CASE Sweeps(m)
  BY <1>14, <1>7 DEF Sweeps, Sweep, SweepFails, Succeed, Fail, At
<1> QED
  BY <1>9, <1>10, <1>12, <1>13, <1>14 DEF TinqStep

\* Where pc, rung and polls stay, the budget stays.
LEMMA BystanderKeeps ==
  ASSUME NEW m \in Machines, pc'[m] = pc[m], rung'[m] = rung[m], polls'[m] = polls[m]
  PROVE  StepsLeft(m)' = StepsLeft(m)
BY DEF StepsLeft

\* An invocation's own variables are all its steps change of the run's.
LEMMA StepIsOwn ==
  ASSUME RunTypes, NEW m \in Machines, TinqStep(m), NEW n \in Machines \ {m}
  PROVE  pc'[n] = pc[n] /\ rung'[n] = rung[n] /\ polls'[n] = polls[n]
<1> DEFINE Own == pc'[n] = pc[n] /\ rung'[n] = rung[n] /\ polls'[n] = polls[n]
<1>1. \A l : Goto(m, l) => Own
  BY DEF Goto, RunTypes
<1>2. \A v : End(m, v) => Own
  BY DEF End, RunTypes
<1>3. \A r : StartWait(m, r) => Own
  BY DEF StartWait, RunTypes
<1>4. \A l : ReadPid(m, l) => Own
  BY DEF ReadPid, RunTypes
<1>5. SelectTick(m) => Own
  BY DEF SelectTick, RunTypes
<1> HIDE DEF Own
<1>6. Decides(m) => Own
  BY <1>1, <1>2, <1>4
     DEF Decides, Standalone, StopObserve, StopReadPid, DestroyReadPid, StepFails, Succeed, Fail
<1>7. Creates(m) => Own
  BY <1>1, <1>2
     DEF Creates, CreateDir, EnsureDisks, EnsureSWTPM, AwaitPidfile, PidfileTimeout,
         LaunchQemu, LaunchFails, WriteTalosconfig, Succeed, Fail
<1>8. Waits(m) => Own
  BY <1>1, <1>2, <1>3, <1>5
     DEF Waits, ShutdownAccepted, ShutdownUnavailable, WaitSeesGone, WaitPolls, SelectDone,
         Halted, Succeed, Fail
<1>9. Signals(m) => Own
  BY <1>1, <1>2, <1>3 DEF Signals, HaltTerm, WaitExpires, DestroySWTPM, Halted, Succeed, Fail
<1>10. Sweeps(m) => Own
  BY <1>2 DEF Sweeps, Sweep, SweepFails, Succeed, Fail
<1> QED
  BY <1>6, <1>7, <1>8, <1>9, <1>10 DEF TinqStep, Own

\* What the user and the host do to a run is to end it, or nothing.
LEMMA OthersKeep ==
  ASSUME RunTypes, UNCHANGED vars \/ HostStep \/ (\E u \in Machines : UserStep(u)),
         NEW m \in Machines, ~At(m, "idle")
  PROVE  StepsLeft(m)' <= StepsLeft(m)
<1>1. StepsLeft(m) \in Nat
  BY Budget, BudgetTypes DEF StepsLeft
<1>2. CASE pc'[m] = pc[m] /\ rung'[m] = rung[m] /\ polls'[m] = polls[m]
  BY SMT, <1>1, <1>2, BystanderKeeps
<1>3. CASE pc'[m] = "idle" /\ rung'[m] = "guest" /\ polls'[m] = 0
  <2>1. "idle" \in Labels /\ 0 \in 0..MaxPolls
    BY SMT, MachineAssumption DEF Labels
  <2>2. StepsLeft(m)' = 0
    BY <1>3, <2>1, Budget DEF StepsLeft
  <2> QED
    BY SMT, <1>1, <2>2
<1>4. ASSUME NEW u \in Machines, NEW v \in Verbs, Begin(u, v)
      PROVE  pc'[m] = pc[m] /\ rung'[m] = rung[m] /\ polls'[m] = polls[m]
  BY <1>4 DEF Begin, At, RunTypes
<1>5. ASSUME NEW u \in Machines, TinqKilled(u)
      PROVE  \/ pc'[m] = pc[m] /\ rung'[m] = rung[m] /\ polls'[m] = polls[m]
             \/ pc'[m] = "idle" /\ rung'[m] = "guest" /\ polls'[m] = 0
  BY <1>5 DEF TinqKilled, Fail, End, RunTypes
<1> QED
  BY <1>2, <1>3, <1>4, <1>5
     DEF UserStep, Cancel, HostStep, ProcessExits, SwtpmWritesPidfile, StrangerStarts, HostReboots, vars, runVars

\* No invocation can be kept going, whatever guests, other invocations and the
\* host do: it takes at most 9 + 6 * MaxPolls steps from its first to its last.
\* Of RunEnds only the scheduler's part, that a run does take its steps, is left
\* to the model checker.
THEOREM RunsAreBounded ==
  Spec => RunIsBounded /\ [](\A m \in Machines : StepsLeft(m) \in 0..(9 + 6 * MaxPolls))
<1> DEFINE Bounded(m) == /\ TinqStep(m) => StepsLeft(m)' < StepsLeft(m)
                         /\ ~At(m, "idle") => StepsLeft(m)' <= StepsLeft(m)
<1>1. ASSUME Inv, [Next]_vars, NEW m \in Machines PROVE Bounded(m)
  <2>1. RunTypes
    BY <1>1 DEF Inv, TypeOK
  <2>2. TinqStep(m) => StepsLeft(m)' < StepsLeft(m)
    BY <2>1, StepUses
  <2>3. ASSUME ~At(m, "idle") PROVE StepsLeft(m)' <= StepsLeft(m)
    <3>1. ASSUME NEW n \in Machines \ {m}, TinqStep(n) PROVE StepsLeft(m)' = StepsLeft(m)
      BY <2>1, <3>1, StepIsOwn, BystanderKeeps
    <3>2. StepsLeft(m) \in Nat
      BY <2>1, Budget, BudgetTypes DEF StepsLeft
    <3>3. CASE \E n \in Machines \ {m} : TinqStep(n)
      BY SMT, <3>1, <3>2, <3>3
    <3>4. CASE TinqStep(m)
      <4> DEFINE before == StepsLeft(m)
                 after == StepsLeft(m)'
      <4>1. before \in Nat /\ after < before
        BY <2>2, <3>2, <3>4
      <4>2. after \in Nat
        <5>1. RunTypes'
          BY <1>1, TypeStep DEF Inv, TypeOK
        <5>2. pc'[m] \in Labels /\ rung'[m] \in {"guest", "SIGTERM", "SIGKILL"}
              /\ polls'[m] \in 0..MaxPolls
          BY <5>1 DEF RunTypes
        <5> QED
          BY <5>2, Budget DEF StepsLeft
      <4> HIDE DEF before, after
      <4>3. after <= before
        BY SMT, <4>1, <4>2
      <4> QED
        BY <4>3 DEF before, after
    <3> QED
      BY <1>1, <2>1, <2>3, <3>3, <3>4, OthersKeep DEF Next
  <2> QED
    BY <2>2, <2>3
<1>2. ASSUME Inv, NEW m \in Machines PROVE StepsLeft(m) \in 0..(9 + 6 * MaxPolls)
  <2>1. /\ pc[m] \in Labels /\ rung[m] \in {"guest", "SIGTERM", "SIGKILL"}
        /\ polls[m] \in 0..MaxPolls /\ MaxPolls \in Nat
    BY <1>2, MachineAssumption DEF Inv, TypeOK, RunTypes
  <2>2. RungSteps(rung[m]) \in 0..(4 + 4 * MaxPolls)
    BY SMT, <2>1 DEF RungSteps, WaitSteps
  <2> DEFINE n == StepsLeft(m)
  <2>3. /\ n \in Nat
        /\ \/ n \in {0, 1, 2, 3, 4, 5, 6}
           \/ n = RungSteps(rung[m]) + 2 * polls[m]
           \/ n = RungSteps(rung[m]) + 2 * polls[m] + 1
           \/ n = 4 + 4 * MaxPolls \/ n = 6 + 6 * MaxPolls \/ n = 7 + 6 * MaxPolls
           \/ n = 8 + 6 * MaxPolls \/ n = 9 + 6 * MaxPolls
    BY <2>1, Budget DEF StepsLeft, Labels
  <2> HIDE DEF n
  <2>4. n \in 0..(9 + 6 * MaxPolls)
    BY SMT, <2>1, <2>2, <2>3
  <2> QED
    BY <2>4 DEF n
<1>3. Inv /\ [Next]_vars => [\A m \in Machines : Bounded(m)]_vars
  BY <1>1
<1>4. Inv => \A m \in Machines : StepsLeft(m) \in 0..(9 + 6 * MaxPolls)
  BY <1>2
<1> QED
  BY <1>3, <1>4, Invariance, PTL DEF Spec, RunIsBounded
=============================================================================
