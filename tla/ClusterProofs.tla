---------------------------- MODULE ClusterProofs ----------------------------
(****************************************************************************)
(* What holds of up and destroy for any machines, joins, bundles, flags and  *)
(* failures: the files of a node that holds a config, and its one bootstrap. *)
(* Each conjunct of Inv is shown to be kept by every step.                   *)
(****************************************************************************)
EXTENDS Cluster, TLAPS

\* Zenon is tried first, then SMT.
USE ZenonT(20), SMTT(20)

-----------------------------------------------------------------------------
(* The types. *)

LEMMA DirFrame ==
  ASSUME DirTypes, UNCHANGED dirVars
  PROVE  DirTypes'
BY DEF DirTypes, dirVars

LEMMA NodeFrame ==
  ASSUME NodeTypes, UNCHANGED nodeVars
  PROVE  NodeTypes'
BY DEF NodeTypes, nodeVars

LEMMA ClusterFrame ==
  ASSUME ClusterTypes, UNCHANGED clusterVars
  PROVE  ClusterTypes'
BY DEF ClusterTypes, clusterVars

LEMMA UpFrame ==
  ASSUME UpTypes, UNCHANGED upVars
  PROVE  UpTypes'
BY DEF UpTypes, upVars

LEMMA DestroyFrame ==
  ASSUME DestroyTypes, UNCHANGED destroyVars
  PROVE  DestroyTypes'
BY DEF DestroyTypes, destroyVars

\* The run, its step and what it reports.
RunTypes ==
  /\ UpTypes /\ DestroyTypes
  /\ pc \in {"idle"} \cup UpSteps \cup DestroySteps /\ cur \in Machines
  /\ report \in Reports

BudgetTypes == kills \in 0..MaxKills /\ stops \in 0..MaxStops /\ cuts \in 0..MaxCuts

LEMMA BudgetFrame ==
  ASSUME BudgetTypes, UNCHANGED budgets
  PROVE  BudgetTypes'
BY DEF BudgetTypes, budgets

LEMMA Types ==
  TypeOK <=> DirTypes /\ NodeTypes /\ ClusterTypes /\ RunTypes /\ BudgetTypes
BY DEF TypeOK, RunTypes, BudgetTypes

LEMMA EndTypes ==
  ASSUME RunTypes, NEW r \in Reports, End(r)
  PROVE  RunTypes'
BY DEF RunTypes, End, UpTypes, DestroyTypes, AllFlags

LEMMA StayTypes ==
  ASSUME TypeOK, NEW r \in Reports, Stay(r)
  PROVE  TypeOK'
<1>1. DirTypes' /\ NodeTypes' /\ ClusterTypes'
  BY DirFrame, NodeFrame, ClusterFrame DEF TypeOK, Stay
<1>2. RunTypes' /\ BudgetTypes'
  BY EndTypes, BudgetFrame DEF TypeOK, RunTypes, BudgetTypes, Stay
<1> QED
  BY <1>1, <1>2 DEF TypeOK, RunTypes, BudgetTypes

LEMMA GotoTypes ==
  ASSUME RunTypes, NEW l \in UpSteps \cup DestroySteps, Goto(l), UpTypes', DestroyTypes'
  PROVE  RunTypes'
BY DEF RunTypes, Goto

LEMMA ReplaceTypes ==
  ASSUME DirTypes, cur \in Machines, NEW f, NEW b \in Bundles \cup {NoBundle}, Replace(f, b)
  PROVE  DirTypes'
BY DEF DirTypes, Files, Replace

LEMMA RemainsTypes ==
  ASSUME DirTypes, NodeTypes, NEW m \in Machines, NEW left, Remains(m, left)
  PROVE  DirTypes' /\ NodeTypes'
<1>1. DirTypes'
  BY DEF DirTypes, Files, Remains
<1>2. NodeTypes'
  BY DEF NodeTypes, Files, Remains
<1> QED
  BY <1>1, <1>2

LEMMA DiskGoesTypes ==
  ASSUME TypeOK, DiskGoes
  PROVE  /\ members' \in [Bundles -> SUBSET Machines] /\ nodes' \in [Bundles -> SUBSET Machines]
         /\ excused' \subseteq (Bundles \cup {NoBundle}) \X Machines
<1>1. members' \in [Bundles -> SUBSET Machines] /\ nodes' \in [Bundles -> SUBSET Machines]
  BY DEF DiskGoes, TypeOK, ClusterTypes
<1>2. Asked \subseteq (Bundles \cup {NoBundle}) \X Machines
  BY SMT DEF Asked, TypeOK, NodeTypes, DestroyTypes, Files
<1>3. excused' \subseteq excused \cup Asked
  BY DEF DiskGoes
<1> QED
  BY <1>1, <1>2, <1>3 DEF TypeOK, ClusterTypes

LEMMA HaltTypes ==
  ASSUME TypeOK, NEW ms \in SUBSET Machines, Halt(ms)
  PROVE  DirTypes' /\ NodeTypes' /\ ClusterTypes' /\ RunTypes' /\ kills' = kills
<1>1. DirTypes' /\ ClusterTypes'
  BY DirFrame, ClusterFrame DEF TypeOK, Halt
<1>2. NodeTypes'
  BY DEF TypeOK, NodeTypes, Files, Halt
<1>3. RunTypes'
  BY Types, UpFrame, DestroyFrame DEF RunTypes, Halt
<1> QED
  BY <1>1, <1>2, <1>3 DEF Halt

\* The machines a destroy takes along are joiners.
LEMMA JoinersAreJoiners ==
  ASSUME NEW m \in Machines
  PROVE  AllJoinersOf(m) \subseteq {j \in Machines : Joins[j] # NoMachine}
<1> DEFINE J == {j \in Machines : Joins[j] # NoMachine}
<1> SUFFICES ASSUME NEW j \in AllJoinersOf(m)
             PROVE  j \in J
  OBVIOUS
<1>1. \A k \in J \cup {m} : JoinersOf(k) \subseteq J
  <2> SUFFICES ASSUME NEW k \in J \cup {m}, NEW i \in JoinersOf(k)
               PROVE  i \in J
    OBVIOUS
  <2> QED
    BY ClusterAssumption DEF JoinersOf
<1> QED
  BY <1>1 DEF AllJoinersOf

\* A step of a run that goes on, put together from its parts.
LEMMA MoveTypes ==
  ASSUME TypeOK, NEW l \in UpSteps \cup DestroySteps, Goto(l), UNCHANGED budgets,
         DirTypes', NodeTypes', ClusterTypes', UpTypes', DestroyTypes'
  PROVE  TypeOK'
BY BudgetFrame DEF TypeOK, BudgetTypes, Goto

\* A step of a run that ends.
LEMMA OverTypes ==
  ASSUME TypeOK, NEW r \in Reports, End(r), UNCHANGED budgets,
         DirTypes', NodeTypes', ClusterTypes'
  PROVE  TypeOK'
BY EndTypes, BudgetFrame DEF TypeOK, RunTypes, BudgetTypes

\* The steps of up before it writes a file.
LEMMA FirstStepsTypes ==
  ASSUME TypeOK,
         UpOptions \/ Boot \/ BootFails \/ ReadTalosconfig \/ WaitMaintenance \/ Generate
  PROVE  TypeOK'
<1> USE DEF UpSteps, Reports
<1>1. CASE UpOptions
  <2>1. UpTypes'
    <3>1. CASE Joins[cur] = NoMachine
      <4>1. StoppedMembers(cur) \subseteq Machines
        BY DEF StoppedMembers, AllJoinersOf
      <4> QED
        BY <1>1, <3>1, <4>1 DEF UpOptions, TypeOK, UpTypes
    <3>2. CASE Joins[cur] # NoMachine
      <4>1. Joins[cur] \in Machines
        BY <3>2, ClusterAssumption DEF TypeOK
      <4> QED
        BY SMT, <1>1, <3>2, <4>1 DEF UpOptions, TypeOK, UpTypes, DirTypes, Files
    <3> QED
      BY <3>1, <3>2
  <2> QED
    BY <1>1, <2>1, MoveTypes, DestroyFrame, DirFrame, NodeFrame, ClusterFrame
       DEF TypeOK, UpOptions
<1>2. CASE Boot
  <2>1. DirTypes' /\ NodeTypes'
    BY <1>2 DEF Boot, TypeOK, DirTypes, NodeTypes
  <2> QED
    BY <1>2, <2>1, MoveTypes, UpFrame, DestroyFrame, ClusterFrame DEF TypeOK, Boot
<1>3. CASE BootFails
  <2>1. DirTypes' /\ NodeTypes'
    BY <1>3 DEF BootFails, TypeOK, DirTypes, NodeTypes
  <2> QED
    BY <1>3, <2>1, OverTypes, ClusterFrame DEF TypeOK, BootFails
<1>4. CASE ReadTalosconfig
  <2>1. UpTypes'
    BY <1>4 DEF ReadTalosconfig, TypeOK, UpTypes, DirTypes, Files
  <2>2. Goto("maintenance") \/ Goto("installed")
    BY <1>4 DEF ReadTalosconfig, Goto
  <2> QED
    BY <1>4, <2>1, <2>2, MoveTypes, DestroyFrame, DirFrame, NodeFrame, ClusterFrame
       DEF TypeOK, ReadTalosconfig
<1>5. CASE WaitMaintenance
  BY <1>5, StayTypes, MoveTypes, UpFrame, DestroyFrame, DirFrame, NodeFrame, ClusterFrame
     DEF TypeOK, WaitMaintenance
<1>6. CASE Generate
  <2>1. UpTypes' /\ ClusterTypes'
    BY <1>6 DEF Generate, TypeOK, UpTypes, ClusterTypes
  <2> QED
    BY <1>6, <2>1, MoveTypes, DestroyFrame, DirFrame, NodeFrame DEF TypeOK, Generate
<1> QED
  BY <1>1, <1>2, <1>3, <1>4, <1>5, <1>6

\* The steps of up that write files and apply the config.
LEMMA WritingStepsTypes ==
  ASSUME TypeOK,
         \/ \E f \in Artifacts \cup {"kubeconfig"} : RemoveArtifact(f)
         \/ WriteArtifact \/ Apply \/ StepFails
  PROVE  TypeOK'
<1> USE DEF UpSteps, Reports
<1>1. ASSUME NEW f \in Artifacts \cup {"kubeconfig"}, RemoveArtifact(f)
      PROVE  TypeOK'
  <2>1. DirTypes'
    BY <1>1, ReplaceTypes DEF TypeOK, RemoveArtifact
  <2>2. UpTypes'
    BY <1>1 DEF RemoveArtifact, TypeOK, UpTypes
  <2> QED
    BY <1>1, <2>1, <2>2, MoveTypes, DestroyFrame, NodeFrame, ClusterFrame
       DEF TypeOK, RemoveArtifact
<1>2. CASE WriteArtifact
  <2>1. DirTypes'
    BY <1>2, ReplaceTypes DEF TypeOK, UpTypes, WriteArtifact
  <2>2. Goto("write") \/ Goto("ready") \/ Goto("apply")
    BY <1>2 DEF WriteArtifact
  <2> QED
    BY <1>2, <2>1, <2>2, MoveTypes, UpFrame, DestroyFrame, NodeFrame, ClusterFrame
       DEF TypeOK, WriteArtifact
<1>3. CASE Apply
  <2>1. NodeTypes'
    BY <1>3 DEF Apply, TypeOK, NodeTypes, UpTypes, Files
  <2>2. DirTypes' /\ ClusterTypes' /\ UNCHANGED budgets
    BY <1>3, DirFrame, ClusterFrame DEF TypeOK, Apply
  <2> QED
    BY <1>3, <2>1, <2>2, MoveTypes, OverTypes, UpFrame, DestroyFrame DEF TypeOK, Apply
<1>4. CASE StepFails
  BY <1>4, StayTypes DEF StepFails
<1> QED
  BY <1>1, <1>2, <1>3, <1>4

\* The steps of up on the installed system.
LEMMA LastStepsTypes ==
  ASSUME TypeOK,
         \/ WaitInstalled \/ Bootstrap \/ AlreadyBootstrapped \/ BootstrapFails
         \/ FetchKubeconfig \/ WaitReady \/ InstallStorage
  PROVE  TypeOK'
<1> USE DEF UpSteps, Reports
<1>1. CASE WaitInstalled
  <2>1. CASE TalosAnswers(cur, conf)
    <3>1. UpTypes'
      BY <1>1, <2>1, StayTypes DEF WaitInstalled, GivesUp, TypeOK, UpTypes
    <3>2. Goto("bootstrap") \/ Goto("write")
      BY <1>1, <2>1 DEF WaitInstalled, GivesUp
    <3> QED
      BY <1>1, <2>1, <3>1, <3>2, MoveTypes, DestroyFrame, DirFrame, NodeFrame, ClusterFrame
         DEF TypeOK, WaitInstalled, GivesUp
  <2>2. CASE ~TalosAnswers(cur, conf)
    BY <1>1, <2>2, StayTypes DEF WaitInstalled
  <2> QED
    BY <2>1, <2>2
<1>2. CASE Bootstrap
  <2>1. NodeTypes' /\ ClusterTypes'
    <3>1. etcd' \in [Machines -> {"empty", "data", "left"}]
      BY <1>2 DEF Bootstrap, TypeOK, NodeTypes
    <3>2. members' \in [Bundles -> SUBSET Machines]
      BY <1>2 DEF Bootstrap, TypeOK, ClusterTypes
    <3>3. boots' \in [Bundles -> Nat]
      <4>1. boots \in [Bundles -> Nat] /\ boots' = [boots EXCEPT ![conf] = boots[conf] + 1]
        BY <1>2 DEF Bootstrap, TypeOK, ClusterTypes
      <4>2. conf \in Bundles
        BY <1>2 DEF Bootstrap, TalosAnswers, TypeOK, UpTypes
      <4> QED
        BY SMT, <4>1, <4>2
    <3> QED
      BY <1>2, <3>1, <3>2, <3>3 DEF Bootstrap, TypeOK, NodeTypes, ClusterTypes
  <2> QED
    BY <1>2, <2>1, MoveTypes, UpFrame, DestroyFrame, DirFrame DEF TypeOK, Bootstrap
<1>3. CASE AlreadyBootstrapped
  BY <1>3, StayTypes, MoveTypes, UpFrame, DestroyFrame, DirFrame, NodeFrame, ClusterFrame
     DEF TypeOK, AlreadyBootstrapped
<1>4. CASE BootstrapFails
  BY <1>4, StayTypes DEF BootstrapFails
<1>5. CASE FetchKubeconfig
  <2>1. CASE TalosAnswers(cur, conf) /\ etcd[cur] = "data"
    <3>1. UpTypes'
      BY <1>5, <2>1 DEF FetchKubeconfig, GivesUp, TypeOK, UpTypes
    <3> QED
      BY <1>5, <2>1, <3>1, MoveTypes, DestroyFrame, DirFrame, NodeFrame, ClusterFrame
         DEF TypeOK, FetchKubeconfig, GivesUp
  <2>2. CASE ~(TalosAnswers(cur, conf) /\ etcd[cur] = "data")
    BY <1>5, <2>2, StayTypes DEF FetchKubeconfig
  <2> QED
    BY <2>1, <2>2
<1>6. CASE WaitReady
  BY <1>6, StayTypes, MoveTypes, UpFrame, DestroyFrame, DirFrame, NodeFrame, ClusterFrame
     DEF TypeOK, WaitReady
<1>7. CASE InstallStorage
  BY <1>7, StayTypes DEF InstallStorage
<1> QED
  BY <1>1, <1>2, <1>3, <1>4, <1>5, <1>6, <1>7

LEMMA DestroyStepsTypes ==
  ASSUME TypeOK, DestroyStep
  PROVE  TypeOK'
<1> USE DEF DestroySteps, Reports
<1>1. ASSUME NEW j \in Machines, DestroyNext(j)
      PROVE  TypeOK'
  <2>1. DestroyTypes'
    BY <1>1 DEF DestroyNext, TypeOK, DestroyTypes
  <2>2. Goto("leave") \/ Goto("sweep")
    BY <1>1 DEF DestroyNext
  <2> QED
    BY <1>1, <2>1, <2>2, MoveTypes, UpFrame, DirFrame, NodeFrame, ClusterFrame
       DEF TypeOK, DestroyNext
<1>2. CASE LeaveEtcd
  <2>1. NodeTypes' /\ ClusterTypes'
    BY <1>2 DEF LeaveEtcd, TypeOK, NodeTypes, ClusterTypes
  <2>2. DirTypes' /\ UNCHANGED budgets
    BY <1>2, DirFrame DEF TypeOK, LeaveEtcd
  <2> QED
    BY <1>2, <2>1, <2>2, MoveTypes, OverTypes, UpFrame, DestroyFrame DEF TypeOK, LeaveEtcd
<1>3. CASE LeaveFails
  <2>1. CASE Forced
    <3>1. ClusterTypes'
      BY SMT, <1>3, <2>1 DEF LeaveFails, TypeOK, ClusterTypes, DirTypes, DestroyTypes, Files
    <3> QED
      BY <1>3, <2>1, <3>1, MoveTypes, UpFrame, DestroyFrame, DirFrame, NodeFrame
         DEF TypeOK, LeaveFails
  <2>2. CASE ~Forced
    BY <1>3, <2>2, StayTypes DEF LeaveFails
  <2> QED
    BY <2>1, <2>2
<1>4. CASE DeleteNode
  <2>1. ClusterTypes'
    BY <1>4 DEF DeleteNode, TypeOK, ClusterTypes
  <2> QED
    BY <1>4, <2>1, MoveTypes, UpFrame, DestroyFrame, DirFrame, NodeFrame DEF TypeOK, DeleteNode
<1>5. CASE Sweep
  <2>1. DirTypes' /\ NodeTypes'
    BY <1>5, RemainsTypes, DirFrame, NodeFrame DEF Sweep, Wipe, TypeOK, DestroyTypes
  <2>2. ClusterTypes'
    BY <1>5, DiskGoesTypes DEF Sweep, TypeOK, ClusterTypes
  <2>3. CASE doomed = {item}
    BY <1>5, <2>1, <2>2, <2>3, OverTypes DEF TypeOK, Sweep
  <2>4. CASE doomed # {item}
    <3>1. UpTypes' /\ DestroyTypes'
      BY <1>5, <2>4, UpFrame DEF Sweep, TypeOK, DestroyTypes
    <3> QED
      BY <1>5, <2>1, <2>2, <2>4, <3>1, MoveTypes DEF Sweep
  <2> QED
    BY <2>3, <2>4
<1>6. CASE SweepFails
  <2>1. PICK left \in SUBSET Contents :
          /\ Remains(item, left)
          /\ IF "disk" \in left THEN UNCHANGED <<members, nodes, excused>> ELSE DiskGoes
          /\ torn' = IF left = Contents THEN torn ELSE torn \cup (BundlesOf(item) \X {item})
    BY <1>6 DEF SweepFails
  <2>2. DirTypes' /\ NodeTypes'
    BY <2>1, RemainsTypes DEF TypeOK, DestroyTypes
  <2>3. BundlesOf(item) \subseteq Bundles /\ item \in Machines
    BY SMT DEF BundlesOf, TypeOK, DirTypes, NodeTypes, DestroyTypes, Files
  <2>4. torn' \subseteq Bundles \X Machines
    BY <2>1, <2>3 DEF TypeOK, ClusterTypes
  <2>5. ClusterTypes'
    BY <1>6, <2>1, <2>4, DiskGoesTypes DEF SweepFails, TypeOK, ClusterTypes
  <2>6. RunTypes'
    BY <1>6, EndTypes DEF SweepFails, TypeOK, RunTypes
  <2>7. BudgetTypes'
    BY SMT, <1>6, ClusterAssumption DEF SweepFails, TypeOK, BudgetTypes
  <2> QED
    BY <2>2, <2>5, <2>6, <2>7 DEF TypeOK, RunTypes, BudgetTypes
<1> QED
  BY <1>1, <1>2, <1>3, <1>4, <1>5, <1>6 DEF DestroyStep

\* A step of a node, which no run takes part in.
LEMMA NodeStepTypes ==
  ASSUME TypeOK, NEW m \in Machines, NodeStep(m)
  PROVE  TypeOK'
<1>1. NodeTypes' /\ ClusterTypes'
  <2>1. CASE NodeBoots(m)
    BY <2>1, ClusterFrame DEF NodeBoots, TypeOK, NodeTypes
  <2>2. CASE NodeInstalls(m)
    BY <2>2, ClusterFrame DEF NodeInstalls, TypeOK, NodeTypes
  <2>3. CASE NodeJoins(m)
    BY <2>3 DEF NodeJoins, TypeOK, NodeTypes, ClusterTypes
  <2>4. CASE NodeRegisters(m)
    BY <2>4, NodeFrame DEF NodeRegisters, TypeOK, ClusterTypes
  <2> QED
    BY <2>1, <2>2, <2>3, <2>4 DEF NodeStep
<1>2. UNCHANGED <<dirVars, pc, cur, upVars, destroyVars, report, budgets>>
  BY DEF NodeStep, NodeBoots, NodeInstalls, NodeJoins, NodeRegisters
<1> QED
  BY <1>1, <1>2, DirFrame, UpFrame, DestroyFrame, BudgetFrame DEF TypeOK, BudgetTypes

\* The beginning of a run, and what happens to tinq and to the VMs.
LEMMA WorldTypes ==
  ASSUME TypeOK,
         \/ \E m \in Machines : \/ UpBegin(m) \/ VMStops(m)
                                \/ \E f \in DestroyFlags : DestroyBegin(m, f)
         \/ PowerCut \/ TinqKilled
  PROVE  TypeOK'
<1>1. ASSUME NEW m \in Machines, UpBegin(m)
      PROVE  TypeOK'
  <2>1. UpTypes' /\ DestroyTypes'
    BY <1>1 DEF UpBegin, TypeOK, UpTypes, DestroyTypes
  <2> QED
    BY <1>1, <2>1, DirFrame, NodeFrame, ClusterFrame, BudgetFrame
       DEF UpBegin, TypeOK, BudgetTypes, UpSteps, Reports
<1>2. ASSUME NEW m \in Machines, VMStops(m)
      PROVE  TypeOK'
  <2>1. Halt({m}) /\ stops' \in 0..MaxStops /\ UNCHANGED cuts
    BY SMT, <1>2, ClusterAssumption DEF VMStops, TypeOK
  <2> QED
    BY <2>1, HaltTypes DEF TypeOK, RunTypes
<1>3. ASSUME NEW m \in Machines, NEW f \in DestroyFlags, DestroyBegin(m, f)
      PROVE  TypeOK'
  <2>1. AllJoinersOf(m) \subseteq Machines /\ f \in AllFlags
    BY JoinersAreJoiners, ClusterAssumption
  <2>2. DestroyTypes'
    BY <1>3, <2>1 DEF DestroyBegin, TypeOK, DestroyTypes
  <2> QED
    BY <1>3, <2>2, UpFrame, DirFrame, NodeFrame, ClusterFrame, BudgetFrame
       DEF DestroyBegin, TypeOK, BudgetTypes, DestroySteps, Reports
<1>4. CASE PowerCut
  <2>1. Halt(Machines) /\ cuts' \in 0..MaxCuts /\ UNCHANGED stops
    BY SMT, <1>4, ClusterAssumption DEF PowerCut, TypeOK
  <2> QED
    BY <2>1, HaltTypes DEF TypeOK, RunTypes
<1>5. CASE TinqKilled
  <2>1. End("killed") /\ kills' \in 0..MaxKills /\ UNCHANGED <<stops, cuts>>
    BY SMT, <1>5, ClusterAssumption DEF TinqKilled, TypeOK
  <2>2. RunTypes'
    BY <2>1, EndTypes DEF TypeOK, RunTypes, Reports
  <2> QED
    BY <1>5, <2>1, <2>2, DirFrame, NodeFrame, ClusterFrame DEF TinqKilled, TypeOK, RunTypes
<1> QED
  BY <1>1, <1>2, <1>3, <1>4, <1>5

LEMMA InitTypes == Init => TypeOK
<1> SUFFICES ASSUME Init
             PROVE  TypeOK
  OBVIOUS
<1>1. DirTypes /\ NodeTypes /\ ClusterTypes
  BY DEF Init, DirTypes, NodeTypes, ClusterTypes, Files
<1>2. RunTypes
  BY DEF Init, RunTypes, UpTypes, DestroyTypes, AllFlags, Reports
<1>3. BudgetTypes
  BY SMT, ClusterAssumption DEF Init, BudgetTypes
<1> QED
  BY <1>1, <1>2, <1>3 DEF TypeOK, RunTypes, BudgetTypes

LEMMA TypeStep ==
  ASSUME TypeOK, [Next]_vars
  PROVE  TypeOK'
<1>1. CASE Next
  BY <1>1, FirstStepsTypes, WritingStepsTypes, LastStepsTypes, DestroyStepsTypes,
     NodeStepTypes, WorldTypes, StayTypes DEF Next, UpStep, UpRefused, Reports
<1>2. CASE UNCHANGED vars
  BY <1>2, DirFrame, NodeFrame, ClusterFrame, UpFrame, DestroyFrame, BudgetFrame
     DEF TypeOK, BudgetTypes, vars
<1> QED
  BY <1>1, <1>2

-----------------------------------------------------------------------------
(* The files and the bootstrap. *)

LEMMA InitInv == Init => Inv
<1> SUFFICES ASSUME Init
             PROVE  Inv
  OBVIOUS
<1>1. RunInv
  BY DEF Init, RunInv, DestroySteps
<1>2. CredentialsInv
  BY DEF Init, CredentialsInv, CredentialsOnDisk, FirstRun, WritingArtifacts
<1>3. BootstrapInv
  BY DEF Init, BootstrapInv, WritingArtifacts
<1>4. PlacedInv /\ ConfInv
  BY DEF Init, PlacedInv, ConfInv, Resumed, WritingArtifacts, WritingKubeconfig
<1> QED
  BY <1>1, <1>2, <1>3, <1>4, InitTypes DEF Inv

-----------------------------------------------------------------------------
(* Where a run is. *)

LEMMA IdleRun ==
  ASSUME pc' = "idle"
  PROVE  RunInv' /\ ~FirstRun' /\ ~Resumed'
BY DEF RunInv, DestroySteps, FirstRun, Resumed, WritingArtifacts, WritingKubeconfig

LEMMA RunStep ==
  ASSUME Inv, [Next]_vars
  PROVE  RunInv'
<1> USE DEF DestroySteps
<1>1. ASSUME NEW m \in Machines, UpBegin(m)
      PROVE  RunInv'
  BY <1>1 DEF UpBegin, RunInv
<1>2. CASE UpOptions
  BY <1>2 DEF UpOptions, Goto, RunInv
<1>3. CASE Boot
  BY <1>3 DEF Boot, Goto, RunInv
<1>4. CASE ReadTalosconfig
  BY <1>4 DEF ReadTalosconfig, Goto, RunInv
<1>5. CASE WaitMaintenance
  BY <1>5, IdleRun DEF WaitMaintenance, Goto, Stay, End, RunInv
<1>6. CASE Generate
  BY <1>6 DEF Generate, Goto, RunInv, WritingArtifacts
<1>7. ASSUME NEW f \in Artifacts \cup {"kubeconfig"}, RemoveArtifact(f)
      PROVE  RunInv'
  BY <1>7 DEF RemoveArtifact, Goto, Inv, RunInv, WritingArtifacts, WritingKubeconfig, Artifacts
<1>8. CASE WriteArtifact
  BY <1>8 DEF WriteArtifact, Goto, upVars, Inv, TypeOK, UpTypes, RunInv, WritingArtifacts,
              WritingKubeconfig
<1>9. CASE Apply
  BY <1>9, IdleRun DEF Apply, Goto, End, RunInv
<1>10. CASE WaitInstalled
  BY <1>10, IdleRun DEF WaitInstalled, Goto, Stay, End, RunInv, WritingKubeconfig, Creator
<1>11. CASE Bootstrap
  BY <1>11 DEF Bootstrap, Goto, Inv, RunInv, Creator
<1>12. CASE AlreadyBootstrapped
  BY <1>12, IdleRun DEF AlreadyBootstrapped, Goto, Stay, End, RunInv
<1>13. CASE FetchKubeconfig
  BY <1>13, IdleRun DEF FetchKubeconfig, Goto, Stay, End, RunInv, WritingKubeconfig
<1>14. CASE WaitReady
  BY <1>14, IdleRun DEF WaitReady, Goto, Stay, End, RunInv
<1>15. CASE UpRefused \/ BootFails \/ StepFails \/ BootstrapFails \/ InstallStorage
            \/ SweepFails \/ TinqKilled
  BY <1>15, IdleRun DEF UpRefused, BootFails, StepFails, BootstrapFails, InstallStorage,
                        SweepFails, TinqKilled, Stay, End
<1>16. ASSUME NEW m \in Machines, NEW f \in DestroyFlags, DestroyBegin(m, f)
       PROVE  RunInv'
  <2>1. \A j \in AllJoinersOf(m) : ~Creator(j)
    BY JoinersAreJoiners DEF Creator
  <2> QED
    BY <1>16, <2>1 DEF DestroyBegin, RunInv, Creator
<1>17. ASSUME NEW j \in Machines, DestroyNext(j)
       PROVE  RunInv'
  <2>1. pc' = "leave" => ~Creator(item')
    BY <1>17 DEF DestroyNext, Leaves, Goto, Inv, RunInv, Creator
  <2> QED
    BY <1>17, <2>1 DEF DestroyNext, Goto, Inv, RunInv, Creator
<1>18. CASE LeaveEtcd
  BY <1>18, IdleRun DEF LeaveEtcd, Goto, End, destroyVars, Inv, RunInv, Creator
<1>19. CASE LeaveFails
  BY <1>19, IdleRun DEF LeaveFails, Goto, Stay, End, destroyVars, Inv, RunInv, Creator
<1>20. CASE DeleteNode
  BY <1>20 DEF DeleteNode, Goto, destroyVars, Inv, RunInv, Creator
<1>21. CASE Sweep
  BY <1>21, IdleRun DEF Sweep, Goto, End, Inv, RunInv, Creator
<1>22. ASSUME UNCHANGED <<pc, cur, upVars, destroyVars>>
       PROVE  RunInv'
  BY <1>22 DEF upVars, destroyVars, Inv, RunInv, WritingArtifacts, WritingKubeconfig, Creator
<1>23. ASSUME NEW m \in Machines, NodeStep(m) \/ VMStops(m)
       PROVE  RunInv'
  BY <1>22, <1>23 DEF NodeStep, NodeBoots, NodeInstalls, NodeJoins, NodeRegisters, VMStops, Halt
<1>24. CASE PowerCut
  BY <1>22, <1>24 DEF PowerCut, Halt
<1>25. CASE UNCHANGED vars
  BY <1>22, <1>25 DEF vars
<1> QED
  BY <1>1, <1>2, <1>3, <1>4, <1>5, <1>6, <1>7, <1>8, <1>9, <1>10, <1>11, <1>12, <1>13, <1>14,
     <1>15, <1>16, <1>17, <1>18, <1>19, <1>20, <1>21, <1>23, <1>24, <1>25
     DEF Next, UpStep, DestroyStep

-----------------------------------------------------------------------------
(* Who holds which bundle. *)

\* A config goes only with its files; the etcd of a creator changes only from
\* empty to data.
Fewer ==
  /\ UNCHANGED <<talosconfig, secrets, minted, boots, torn>>
  /\ \A m \in Machines : pki'[m] \in {pki[m], NoBundle}
  /\ \A m \in Machines : Creator(m) => etcd'[m] \in {etcd[m], "data"}

LEMMA FewerHolders ==
  ASSUME Inv, Fewer
  PROVE  /\ CredentialsOnDisk'
         /\ \A b \in Bundles : boots'[b] <= 1 /\ (boots'[b] > 0 => b \in minted')
         /\ \A m \in Machines : Creator(m) =>
              /\ etcd'[m] # "left"
              /\ pki'[m] # NoBundle =>
                   /\ pki'[m] \in minted'
                   /\ etcd'[m] = "empty" => boots'[pki'[m]] = 0
                   /\ \A n \in Machines : Creator(n) /\ pki'[n] = pki'[m] => n = m
<1>1. CredentialsOnDisk'
  BY DEF Inv, CredentialsInv, CredentialsOnDisk, Fewer
<1>2. \A b \in Bundles : boots'[b] <= 1 /\ (boots'[b] > 0 => b \in minted')
  BY DEF Inv, BootstrapInv, Fewer
<1>3. ASSUME NEW m \in Machines, Creator(m)
      PROVE  /\ etcd'[m] # "left"
             /\ pki'[m] # NoBundle =>
                  /\ pki'[m] \in minted'
                  /\ etcd'[m] = "empty" => boots'[pki'[m]] = 0
                  /\ \A n \in Machines : Creator(n) /\ pki'[n] = pki'[m] => n = m
  BY <1>3 DEF Inv, BootstrapInv, Fewer
<1> QED
  BY <1>1, <1>2, <1>3

\* A step after which no first run is on its way.
LEMMA Calm ==
  ASSUME Inv, Fewer, ~FirstRun'
  PROVE  CredentialsInv' /\ BootstrapInv'
<1>1. ~WritingArtifacts' /\ pc' # "apply"
  BY DEF FirstRun
<1>2. CredentialsInv'
  BY <1>1, FewerHolders DEF CredentialsInv
<1>3. BootstrapInv'
  BY <1>1, FewerHolders DEF BootstrapInv, Creator
<1> QED
  BY <1>2, <1>3

\* A step that leaves a first run where it is.
LEMMA Beside ==
  ASSUME Inv, Fewer, UNCHANGED <<pc, cur, upVars>>
  PROVE  CredentialsInv' /\ BootstrapInv'
<1>1. /\ FirstRun' = FirstRun /\ WritingArtifacts' = WritingArtifacts /\ Written' = Written
      /\ cur \in Machines
  BY DEF FirstRun, WritingArtifacts, Written, upVars, Inv, TypeOK
<1>2. CredentialsInv'
  BY <1>1, FewerHolders DEF Inv, CredentialsInv, Fewer, upVars
<1>3. Creator(cur)' = Creator(cur)
  BY DEF Creator
<1>4. ASSUME Creator(cur), WritingArtifacts \/ pc = "apply"
      PROVE  /\ conf' \in minted' /\ boots'[conf'] = 0
             /\ \A n \in Machines : Creator(n) => pki'[n] # conf'
  <2>1. /\ conf \in minted /\ boots[conf] = 0
        /\ \A n \in Machines : Creator(n) => pki[n] # conf
    BY <1>4 DEF Inv, BootstrapInv
  <2>2. conf # NoBundle
    BY <2>1, ClusterAssumption DEF Inv, TypeOK, ClusterTypes
  <2> QED
    BY <2>1, <2>2 DEF Fewer, upVars
<1>5. BootstrapInv'
  BY <1>1, <1>3, <1>4, FewerHolders DEF BootstrapInv, Creator
<1> QED
  BY <1>2, <1>5

\* Nothing that matters here changes.
LEMMA NothingFewer ==
  ASSUME Inv, UNCHANGED <<talosconfig, secrets, pki, etcd, minted, boots, torn>>
  PROVE  Fewer
BY DEF Fewer

LEMMA ReadKeeps ==
  ASSUME Inv, ReadTalosconfig
  PROVE  CredentialsInv' /\ BootstrapInv'
<1>1. Fewer
  BY NothingFewer DEF ReadTalosconfig, dirVars, nodeVars, clusterVars
<1>2. ~WritingArtifacts' /\ pc' # "apply" /\ (FirstRun' => pc' = "maintenance")
  BY DEF ReadTalosconfig, Goto, FirstRun, WritingArtifacts
<1>4. CredentialsInv'
  BY <1>1, <1>2, FewerHolders DEF CredentialsInv
<1>5. BootstrapInv'
  BY <1>1, <1>2, FewerHolders DEF BootstrapInv, Creator
<1> QED
  BY <1>4, <1>5

LEMMA WaitMaintenanceKeeps ==
  ASSUME Inv, WaitMaintenance
  PROVE  CredentialsInv' /\ BootstrapInv'
<1>1. Fewer
  BY NothingFewer DEF WaitMaintenance, Stay, dirVars, nodeVars, clusterVars
<1>2. ~WritingArtifacts' /\ pc' # "apply"
  BY DEF WaitMaintenance, Goto, Stay, End, WritingArtifacts
<1>3. FirstRun' => pki'[cur'] = NoBundle
  BY IdleRun DEF Inv, TypeOK, PlacedInv, WaitMaintenance, Goto, Stay, End, nodeVars
<1>4. CredentialsInv'
  BY <1>1, <1>2, <1>3, FewerHolders DEF CredentialsInv
<1>5. BootstrapInv'
  BY <1>1, <1>2, FewerHolders DEF BootstrapInv, Creator
<1> QED
  BY <1>4, <1>5

\* A creator mints a bundle nobody has.
LEMMA GenerateKeeps ==
  ASSUME Inv, Generate
  PROVE  CredentialsInv' /\ BootstrapInv'
<1>1. /\ UNCHANGED <<talosconfig, secrets, pki, etcd, boots, torn, cur>>
      /\ pc' = "write" /\ todo' = Artifacts
  BY DEF Generate, Goto, dirVars, nodeVars
<1>2. CredentialsInv'
  <2>1. Written' = {} /\ pki[cur] = NoBundle
    BY <1>1 DEF Written, Inv, CredentialsInv, FirstRun, Generate
  <2> QED
    BY <1>1, <2>1 DEF Inv, CredentialsInv, CredentialsOnDisk
<1>3. minted \subseteq minted' /\ minted' \subseteq Bundles
  BY DEF Generate, Inv, TypeOK, ClusterTypes
<1>4. ASSUME Creator(cur)
      PROVE  /\ conf' \in minted' /\ boots[conf'] = 0
             /\ \A n \in Machines : Creator(n) => pki[n] # conf'
  <2>1. conf' \in Bundles \ minted /\ conf' \in minted' /\ conf' # NoBundle
    BY <1>4, ClusterAssumption DEF Generate, Creator
  <2>2. boots[conf'] = 0
    <3>1. boots[conf'] \in Nat /\ ~(boots[conf'] > 0)
      BY <2>1 DEF Inv, BootstrapInv, TypeOK, ClusterTypes
    <3> QED
      BY <3>1
  <2> QED
    BY <2>1, <2>2 DEF Inv, BootstrapInv
<1>5. BootstrapInv'
  <2>1. \A b \in Bundles : boots[b] <= 1 /\ (boots[b] > 0 => b \in minted')
    BY <1>3 DEF Inv, BootstrapInv
  <2>2. \A m \in Machines : Creator(m) =>
          /\ etcd[m] # "left"
          /\ pki[m] # NoBundle => /\ pki[m] \in minted'
                                  /\ etcd[m] = "empty" => boots[pki[m]] = 0
                                  /\ \A n \in Machines : Creator(n) /\ pki[n] = pki[m] => n = m
    BY <1>3 DEF Inv, BootstrapInv
  <2> QED
    BY <1>1, <1>4, <2>1, <2>2 DEF BootstrapInv, Creator
<1> QED
  BY <1>2, <1>5

\* Files change only while the node holds no config.
LEMMA FilesKeep ==
  ASSUME Inv, WritingArtifacts, UNCHANGED <<nodeVars, clusterVars, cur, conf>>,
         NEW f \in Artifacts, NEW b, Replace(f, b),
         \A g \in Written' : (g \in Written /\ g # f) \/ (g = f /\ b = conf)
  PROVE  CredentialsInv' /\ BootstrapInv'
<1>1. pki[cur] = NoBundle /\ cur \in Machines
  BY DEF Inv, CredentialsInv, FirstRun, WritingArtifacts, TypeOK
<1>2. UNCHANGED <<pki, etcd, minted, boots, torn, conf, cur>>
  BY DEF nodeVars, clusterVars
<1>3. /\ \A m \in Machines \ {cur} : talosconfig'[m] = talosconfig[m] /\ secrets'[m] = secrets[m]
      /\ IF f = "talosconfig" THEN talosconfig'[cur] = b ELSE talosconfig' = talosconfig
      /\ IF f = "secrets" THEN secrets'[cur] = b ELSE secrets' = secrets
  BY <1>1 DEF Replace, Inv, TypeOK, DirTypes, Files
<1>4. CredentialsInv'
  BY <1>1, <1>2, <1>3 DEF Inv, CredentialsInv, CredentialsOnDisk
<1>5. BootstrapInv'
  BY <1>2 DEF Inv, BootstrapInv, Creator
<1> QED
  BY <1>4, <1>5

LEMMA RemoveKeeps ==
  ASSUME Inv, NEW f \in Artifacts \cup {"kubeconfig"}, RemoveArtifact(f)
  PROVE  CredentialsInv' /\ BootstrapInv'
<1>1. CASE f \in Artifacts
  <2>1. WritingArtifacts
    BY <1>1 DEF Inv, RunInv, RemoveArtifact, WritingKubeconfig, Artifacts
  <2>2. Written' = Written /\ f \notin Written
    BY <1>1 DEF RemoveArtifact, Goto, Written
  <2> QED
    BY <1>1, <2>1, <2>2, FilesKeep DEF RemoveArtifact, Goto
<1>2. CASE f = "kubeconfig"
  <2>1. Fewer
    BY <1>2, NothingFewer DEF RemoveArtifact, Replace, nodeVars, clusterVars
  <2>2. ~FirstRun'
    BY <1>2 DEF RemoveArtifact, Goto, FirstRun, WritingArtifacts, Artifacts
  <2> QED
    BY <2>1, <2>2, Calm
<1> QED
  BY <1>1, <1>2

LEMMA WriteKeeps ==
  ASSUME Inv, WriteArtifact
  PROVE  CredentialsInv' /\ BootstrapInv'
<1>1. CASE file \in Artifacts
  <2>1. WritingArtifacts /\ file # "kubeconfig" /\ todo \subseteq Artifacts \ {file}
    BY <1>1 DEF Inv, RunInv, WriteArtifact, WritingArtifacts, Artifacts
  <2>2. Written' \subseteq Written \cup {file}
    BY <1>1, <2>1 DEF WriteArtifact, Goto, upVars, Written
  <2>3. Replace(file, conf) /\ UNCHANGED <<nodeVars, clusterVars, cur, conf>>
    BY <2>1 DEF WriteArtifact, Goto, upVars
  <2> QED
    BY <1>1, <2>1, <2>2, <2>3, FilesKeep
<1>2. CASE file \notin Artifacts
  <2>1. file = "kubeconfig" /\ todo = {}
    BY <1>2 DEF Inv, RunInv, TypeOK, UpTypes, WriteArtifact
  <2>2. Fewer
    BY <2>1, NothingFewer DEF WriteArtifact, Replace, nodeVars, clusterVars
  <2>3. ~FirstRun'
    BY <2>1 DEF WriteArtifact, Goto, FirstRun, WritingArtifacts
  <2> QED
    BY <2>2, <2>3, Calm
<1> QED
  BY <1>1, <1>2

\* The config that is applied is the one on disk.
LEMMA ApplyKeeps ==
  ASSUME Inv, Apply
  PROVE  CredentialsInv' /\ BootstrapInv'
<1>1. cur \in Machines /\ ~FirstRun' /\ ~WritingArtifacts' /\ pc' # "apply"
  BY DEF Inv, TypeOK, Apply, Goto, End, FirstRun, WritingArtifacts
<1>2. /\ UNCHANGED <<talosconfig, secrets, etcd, minted, boots, torn>>
      /\ pki'[cur] = conf /\ \A m \in Machines \ {cur} : pki'[m] = pki[m]
  BY <1>1 DEF Apply, dirVars, clusterVars, Inv, TypeOK, NodeTypes, Files
<1>3. talosconfig[cur] = conf /\ secrets[cur] = conf
  BY DEF Inv, CredentialsInv, Apply, Written, Artifacts
<1>4. CredentialsInv'
  BY <1>1, <1>2, <1>3 DEF Inv, CredentialsInv, CredentialsOnDisk
<1>5. Creator(cur) => /\ conf \in minted /\ boots[conf] = 0
                      /\ \A n \in Machines : Creator(n) => pki[n] # conf
  BY DEF Inv, BootstrapInv, Apply
<1>6. ASSUME NEW m \in Machines, Creator(m)
      PROVE  /\ etcd'[m] # "left"
             /\ pki'[m] # NoBundle =>
                  /\ pki'[m] \in minted'
                  /\ etcd'[m] = "empty" => boots'[pki'[m]] = 0
                  /\ \A n \in Machines : Creator(n) /\ pki'[n] = pki'[m] => n = m
  BY <1>2, <1>5, <1>6 DEF Inv, BootstrapInv
<1>7. BootstrapInv'
  BY <1>1, <1>2, <1>6 DEF Inv, BootstrapInv, Creator
<1> QED
  BY <1>4, <1>7

\* Only a creator with an empty etcd is bootstrapped, and no other has its bundle.
LEMMA BootstrapKeeps ==
  ASSUME Inv, Bootstrap
  PROVE  CredentialsInv' /\ BootstrapInv'
<1>1. cur \in Machines /\ Creator(cur) /\ ~FirstRun' /\ ~WritingArtifacts' /\ pc' # "apply"
  BY DEF Inv, TypeOK, RunInv, Bootstrap, Goto, FirstRun, WritingArtifacts
<1>2. pki[cur] = conf /\ conf # NoBundle /\ etcd[cur] = "empty"
  BY DEF Bootstrap, TalosAnswers
<1>3. conf \in minted /\ boots[conf] = 0 /\ conf \in Bundles
  BY <1>1, <1>2 DEF Inv, BootstrapInv, TypeOK, ClusterTypes
<1>4. /\ UNCHANGED <<talosconfig, secrets, pki, minted, torn>>
      /\ etcd'[cur] = "data" /\ \A m \in Machines \ {cur} : etcd'[m] = etcd[m]
  BY <1>1 DEF Bootstrap, dirVars, Inv, TypeOK, NodeTypes
<1>5. boots'[conf] = 1 /\ \A b \in Bundles \ {conf} : boots'[b] = boots[b]
  BY <1>3 DEF Bootstrap, Inv, TypeOK, ClusterTypes
<1>6. CredentialsInv'
  BY <1>1, <1>4 DEF Inv, CredentialsInv, CredentialsOnDisk
<1>7. \A b \in Bundles : boots'[b] <= 1 /\ (boots'[b] > 0 => b \in minted')
  BY SMT, <1>3, <1>4, <1>5 DEF Inv, BootstrapInv
<1>8. ASSUME NEW m \in Machines, Creator(m)
      PROVE  /\ etcd'[m] # "left"
             /\ pki'[m] # NoBundle =>
                  /\ pki'[m] \in minted'
                  /\ etcd'[m] = "empty" => boots'[pki'[m]] = 0
                  /\ \A n \in Machines : Creator(n) /\ pki'[n] = pki'[m] => n = m
  <2>1. m # cur /\ pki[m] # NoBundle => pki[m] # conf /\ pki[m] \in Bundles
    BY <1>1, <1>2, <1>8 DEF Inv, BootstrapInv, TypeOK, ClusterTypes
  <2> QED
    BY <1>2, <1>4, <1>5, <1>8, <2>1 DEF Inv, BootstrapInv
<1>9. BootstrapInv'
  BY <1>1, <1>7, <1>8 DEF BootstrapInv, Creator
<1> QED
  BY <1>6, <1>9

\* What is left of the machine that is swept, and the others.
LEMMA Remaining ==
  ASSUME Inv, NEW left, Remains(item, left)
  PROVE  /\ item \in Machines
         /\ \A m \in Machines \ {item} :
              /\ record'[m] = record[m] /\ talosconfig'[m] = talosconfig[m]
              /\ secrets'[m] = secrets[m] /\ kubeconfig'[m] = kubeconfig[m]
              /\ vm'[m] = vm[m] /\ stage'[m] = stage[m] /\ pki'[m] = pki[m]
              /\ installed'[m] = installed[m] /\ etcd'[m] = etcd[m]
         /\ record'[item] <=> record[item] /\ "record" \in left
         /\ talosconfig'[item] = (IF "talosconfig" \in left THEN talosconfig[item] ELSE NoBundle)
         /\ secrets'[item] = (IF "secrets" \in left THEN secrets[item] ELSE NoBundle)
         /\ kubeconfig'[item] = (IF "kubeconfig" \in left THEN kubeconfig[item] ELSE NoBundle)
         /\ vm'[item] = (IF "disk" \in left /\ vm[item] # "absent" THEN "stopped" ELSE "absent")
         /\ stage'[item] = "off" /\ installed'[item] = (installed[item] /\ "disk" \in left)
         /\ pki'[item] = (IF installed[item] /\ "disk" \in left THEN pki[item] ELSE NoBundle)
         /\ etcd'[item] = (IF "disk" \in left THEN etcd[item] ELSE "empty")
<1>1. item \in Machines
  BY DEF Inv, TypeOK, DestroyTypes
<1> QED
  BY <1>1 DEF Remains, Inv, TypeOK, DirTypes, NodeTypes, Files

\* A sweep, whole or not: what is left of a machine is its own, and it is torn
\* where anything of it may be missing.
LEMMA RemainsKeep ==
  ASSUME Inv, ~FirstRun', NEW left \in SUBSET Contents, Remains(item, left),
         UNCHANGED <<minted, boots>>,
         torn \subseteq torn', left = {} \/ left = Contents \/ BundlesOf(item) \X {item} \subseteq torn'
  PROVE  CredentialsInv' /\ BootstrapInv'
<1>1. item \in Machines /\ ~WritingArtifacts' /\ pc' # "apply"
  BY DEF Inv, TypeOK, DestroyTypes, FirstRun
<1>2. \A m \in Machines \ {item} : /\ talosconfig'[m] = talosconfig[m] /\ secrets'[m] = secrets[m]
                                   /\ pki'[m] = pki[m] /\ etcd'[m] = etcd[m]
  BY Remaining
<1>3. /\ talosconfig'[item] = (IF "talosconfig" \in left THEN talosconfig[item] ELSE NoBundle)
      /\ secrets'[item] = (IF "secrets" \in left THEN secrets[item] ELSE NoBundle)
      /\ pki'[item] \in {pki[item], NoBundle}
      /\ "disk" \notin left => pki'[item] = NoBundle /\ etcd'[item] = "empty"
      /\ "disk" \in left => etcd'[item] = etcd[item]
  BY Remaining
<1>4. CredentialsOnDisk'
  <2>1. ASSUME NEW m \in Machines \ {item}, pki'[m] # NoBundle
        PROVE  /\ {talosconfig'[m], secrets'[m]} \subseteq {pki'[m], NoBundle}
               /\ <<pki'[m], m>> \notin torn' => talosconfig'[m] = pki'[m] /\ secrets'[m] = pki'[m]
    BY <1>2, <2>1 DEF Inv, CredentialsInv, CredentialsOnDisk
  <2>2. ASSUME pki'[item] # NoBundle
        PROVE  /\ {talosconfig'[item], secrets'[item]} \subseteq {pki'[item], NoBundle}
               /\ <<pki'[item], item>> \notin torn' =>
                    talosconfig'[item] = pki'[item] /\ secrets'[item] = pki'[item]
    <3>1. /\ pki'[item] = pki[item] /\ left # {}
          /\ {talosconfig[item], secrets[item]} \subseteq {pki[item], NoBundle}
          /\ <<pki[item], item>> \notin torn => talosconfig[item] = pki[item] /\ secrets[item] = pki[item]
      BY <1>1, <1>3, <2>2 DEF Inv, CredentialsInv, CredentialsOnDisk
    <3>2. ASSUME <<pki[item], item>> \notin torn'
          PROVE  left = Contents /\ <<pki[item], item>> \notin torn
      BY <2>2, <3>1, <3>2 DEF BundlesOf
    <3> QED
      BY <1>3, <3>1, <3>2 DEF Contents
  <2> QED
    BY <1>1, <2>1, <2>2 DEF CredentialsOnDisk
<1>5. ASSUME NEW m \in Machines, Creator(m)
      PROVE  /\ etcd'[m] # "left"
             /\ pki'[m] # NoBundle =>
                  /\ pki'[m] \in minted'
                  /\ etcd'[m] = "empty" => boots'[pki'[m]] = 0
                  /\ \A n \in Machines : Creator(n) /\ pki'[n] = pki'[m] => n = m
  BY <1>1, <1>2, <1>3, <1>5 DEF Inv, BootstrapInv
<1>6. BootstrapInv'
  BY <1>1, <1>5 DEF Inv, BootstrapInv, Creator
<1> QED
  BY <1>1, <1>4, <1>6 DEF CredentialsInv

LEMMA SweepKeeps ==
  ASSUME Inv, Sweep
  PROVE  CredentialsInv' /\ BootstrapInv'
<1>1. ~FirstRun' /\ UNCHANGED <<minted, boots, torn>>
  BY DEF Sweep, Goto, End, FirstRun, WritingArtifacts
<1>2. CASE NothingToSweep
  BY <1>1, <1>2, NothingFewer, Calm DEF Sweep, dirVars, nodeVars
<1>3. CASE ~NothingToSweep
  BY <1>1, <1>3, RemainsKeep DEF Sweep, Wipe
<1> QED
  BY <1>2, <1>3

LEMMA SweepFailsKeeps ==
  ASSUME Inv, SweepFails
  PROVE  CredentialsInv' /\ BootstrapInv'
<1>1. ~FirstRun' /\ UNCHANGED <<minted, boots>>
  BY IdleRun DEF SweepFails, End
<1>2. PICK left \in SUBSET Contents :
        /\ Remains(item, left)
        /\ torn' = IF left = Contents THEN torn ELSE torn \cup (BundlesOf(item) \X {item})
  BY DEF SweepFails
<1> QED
  BY <1>1, <1>2, RemainsKeep

LEMMA HoldersStep ==
  ASSUME Inv, [Next]_vars
  PROVE  CredentialsInv' /\ BootstrapInv'
<1> DEFINE Kept == CredentialsInv' /\ BootstrapInv'
<1> USE DEF dirVars, nodeVars, clusterVars
<1>1. ASSUME UNCHANGED <<talosconfig, secrets, pki, etcd, minted, boots, torn>>, ~FirstRun'
      PROVE  Kept
  BY <1>1, NothingFewer, Calm
<1>2. ASSUME NEW r, Stay(r)
      PROVE  Kept
  BY <1>1, <1>2, IdleRun DEF Stay, End
<1>3. ASSUME NEW m \in Machines,
             UpBegin(m) \/ \E f \in DestroyFlags : DestroyBegin(m, f)
      PROVE  Kept
  BY <1>1, <1>3 DEF UpBegin, DestroyBegin, FirstRun, WritingArtifacts
<1>4. CASE UpOptions \/ Boot
  BY <1>1, <1>4 DEF UpOptions, Boot, Goto, FirstRun, WritingArtifacts
<1>5. CASE BootFails \/ TinqKilled
  BY <1>1, <1>5, IdleRun DEF BootFails, TinqKilled, End
<1>6. CASE UpRefused \/ StepFails \/ BootstrapFails \/ InstallStorage
  BY <1>2, <1>6 DEF UpRefused, StepFails, BootstrapFails, InstallStorage
<1>7. CASE WaitInstalled
  BY <1>1, <1>2, <1>7 DEF WaitInstalled, Goto, FirstRun, WritingArtifacts, Artifacts
<1>8. CASE AlreadyBootstrapped \/ WaitReady
  BY <1>1, <1>2, <1>8 DEF AlreadyBootstrapped, WaitReady, Goto, FirstRun, WritingArtifacts
<1>9. CASE FetchKubeconfig
  BY <1>1, <1>2, <1>9 DEF FetchKubeconfig, Goto, FirstRun, WritingArtifacts, Artifacts
<1>10. ASSUME NEW j \in Machines, DestroyNext(j)
       PROVE  Kept
  BY <1>1, <1>10 DEF DestroyNext, Goto, FirstRun, WritingArtifacts
<1>11. CASE LeaveFails
  BY <1>1, <1>2, <1>11 DEF LeaveFails, Goto, FirstRun, WritingArtifacts
<1>12. CASE DeleteNode
  BY <1>1, <1>12 DEF DeleteNode, Goto, FirstRun, WritingArtifacts
<1>13. CASE LeaveEtcd
  <2>1. Fewer
    BY <1>13 DEF LeaveEtcd, Fewer, Inv, RunInv, TypeOK, NodeTypes, DestroyTypes
  <2>2. ~FirstRun'
    BY <1>13, IdleRun DEF LeaveEtcd, Goto, End, FirstRun, WritingArtifacts
  <2> QED
    BY <2>1, <2>2, Calm
<1>15. ASSUME NEW m \in Machines, NodeStep(m)
       PROVE  Kept
  <2>1. Fewer
    <3>1. CASE NodeBoots(m)
      BY <3>1 DEF NodeBoots, Fewer, Inv, BootstrapInv, TypeOK, NodeTypes
    <3>2. CASE NodeInstalls(m)
      BY <3>2, NothingFewer DEF NodeInstalls
    <3>3. CASE NodeJoins(m)
      BY <3>3 DEF NodeJoins, Fewer, Inv, TypeOK, NodeTypes
    <3>4. CASE NodeRegisters(m)
      BY <3>4, NothingFewer DEF NodeRegisters
    <3> QED
      BY <1>15, <3>1, <3>2, <3>3, <3>4 DEF NodeStep
  <2>2. UNCHANGED <<pc, cur, upVars>>
    BY <1>15 DEF NodeStep, NodeBoots, NodeInstalls, NodeJoins, NodeRegisters
  <2> QED
    BY <2>1, <2>2, Beside
<1>16. ASSUME NEW ms, Halt(ms)
       PROVE  Kept
  <2>1. Fewer
    BY <1>16 DEF Halt, Fewer
  <2> QED
    BY <1>16, <2>1, Beside DEF Halt
<1>17. CASE UNCHANGED vars
  BY <1>17, NothingFewer, Beside DEF vars
<1>18. CASE Next
  BY <1>3, <1>4, <1>5, <1>6, <1>7, <1>8, <1>9, <1>10, <1>11, <1>12, <1>13, <1>15, <1>16, <1>18,
     ReadKeeps, WaitMaintenanceKeeps, GenerateKeeps, RemoveKeeps, WriteKeeps, ApplyKeeps,
     BootstrapKeeps, SweepKeeps, SweepFailsKeeps
     DEF Next, UpStep, DestroyStep, VMStops, PowerCut
<1> QED
  BY <1>17, <1>18

-----------------------------------------------------------------------------
(* Where the config of a node is, and the talosconfig of a run. *)

LEMMA PlacedStep ==
  ASSUME Inv, [Next]_vars
  PROVE  PlacedInv'
<1> USE DEF PlacedInv
<1>1. ASSUME UNCHANGED <<stage, pki, installed>>
      PROVE  PlacedInv'
  BY <1>1 DEF Inv
<1>2. CASE Apply
  BY <1>2 DEF Apply, Inv, TypeOK, NodeTypes, Files
<1>3. ASSUME NEW left, Remains(item, left)
      PROVE  PlacedInv'
  BY <1>3 DEF Remains, Inv, TypeOK, NodeTypes, DestroyTypes, Files
<1>4. CASE Sweep \/ SweepFails
  BY <1>1, <1>3, <1>4 DEF Sweep, SweepFails, Wipe, nodeVars
<1>5. ASSUME NEW m \in Machines, NodeStep(m)
      PROVE  PlacedInv'
  <2>1. CASE NodeBoots(m)
    BY <2>1 DEF NodeBoots, MayBoot, Inv, TypeOK, NodeTypes
  <2>2. CASE NodeInstalls(m)
    BY <2>2 DEF NodeInstalls, Inv, TypeOK, NodeTypes
  <2> QED
    BY <1>1, <1>5, <2>1, <2>2 DEF NodeStep, NodeJoins, NodeRegisters, nodeVars
<1>6. ASSUME NEW ms, Halt(ms)
      PROVE  PlacedInv'
  BY <1>6 DEF Halt, Inv
<1>7. ASSUME NEW m \in Machines,
             UpBegin(m) \/ \E f \in DestroyFlags : DestroyBegin(m, f)
      PROVE  PlacedInv'
  BY <1>1, <1>7 DEF UpBegin, DestroyBegin, nodeVars
<1>8. CASE UpStep
  BY <1>1, <1>2, <1>8
     DEF UpStep, UpOptions, UpRefused, Boot, BootFails, ReadTalosconfig, WaitMaintenance,
         Generate, RemoveArtifact, WriteArtifact, StepFails, WaitInstalled, Bootstrap,
         AlreadyBootstrapped, BootstrapFails, FetchKubeconfig, WaitReady, InstallStorage, Stay,
         nodeVars
<1>9. CASE DestroyStep
  BY <1>1, <1>4, <1>9 DEF DestroyStep, DestroyNext, LeaveEtcd, LeaveFails, DeleteNode, Stay, nodeVars
<1>10. CASE TinqKilled \/ UNCHANGED vars
  BY <1>1, <1>10 DEF TinqKilled, vars, nodeVars
<1> QED
  BY <1>5, <1>6, <1>7, <1>8, <1>9, <1>10 DEF Next, VMStops, PowerCut

LEMMA ConfStep ==
  ASSUME Inv, [Next]_vars
  PROVE  ConfInv'
<1> USE DEF ConfInv
<1>1. ASSUME ~FirstRun', ~Resumed'
      PROVE  ConfInv'
  BY <1>1 DEF FirstRun
<1>2. ASSUME Resumed, UNCHANGED <<talosconfig, cur, conf>>, ~FirstRun'
      PROVE  ConfInv'
  BY <1>2 DEF Inv, FirstRun
<1>3. ASSUME UNCHANGED <<talosconfig, cur, conf, pc, todo, file>>
      PROVE  ConfInv'
  BY <1>3 DEF Inv, Resumed, WritingKubeconfig, WritingArtifacts
<1>4. ASSUME pc' \in {"idle", "options", "boot", "read"} \cup DestroySteps
      PROVE  ConfInv'
  BY <1>1, <1>4 DEF FirstRun, Resumed, WritingArtifacts, WritingKubeconfig, DestroySteps
<1>5. ASSUME WritingArtifacts' \/ pc' = "apply", talosconfig'[cur'] \in {NoBundle, conf'}, ~Resumed'
      PROVE  ConfInv'
  BY <1>5 DEF WritingArtifacts
<1>6. CASE ReadTalosconfig
  BY <1>6 DEF ReadTalosconfig, Goto, dirVars, WritingArtifacts, Resumed, WritingKubeconfig
<1>7. CASE WaitMaintenance
  BY <1>4, <1>7 DEF WaitMaintenance, Goto, Stay, End, dirVars, Inv, WritingArtifacts, Resumed,
     WritingKubeconfig
<1>8. CASE Generate
  BY <1>5, <1>8 DEF Generate, Goto, dirVars, Inv, WritingArtifacts, Resumed, WritingKubeconfig, Artifacts
<1>9. ASSUME NEW f \in Artifacts \cup {"kubeconfig"}, RemoveArtifact(f)
      PROVE  ConfInv'
  <2>1. CASE f = "kubeconfig"
    BY <1>2, <1>9, <2>1 DEF RemoveArtifact, Replace, Goto, Inv, RunInv, Resumed, FirstRun, WritingArtifacts, Artifacts
  <2>2. CASE f # "kubeconfig"
    <3>1. WritingArtifacts /\ WritingArtifacts' /\ ~Resumed'
      BY <1>9, <2>2 DEF RemoveArtifact, Goto, Inv, RunInv, WritingArtifacts, Resumed, WritingKubeconfig
    <3>2. talosconfig'[cur'] \in {NoBundle, conf'}
      BY <1>9, <3>1 DEF RemoveArtifact, Replace, Goto, Inv, TypeOK, DirTypes, Files
    <3> QED
      BY <1>5, <3>1, <3>2
  <2> QED
    BY <2>1, <2>2
<1>10. CASE WriteArtifact
  <2>1. CASE file = "kubeconfig"
    BY <1>2, <1>10, <2>1 DEF WriteArtifact, Replace, Goto, upVars, Inv, RunInv, Resumed, FirstRun,
       WritingKubeconfig, WritingArtifacts
  <2>2. CASE file # "kubeconfig"
    <3>1. file \in Artifacts /\ todo \subseteq Artifacts
      BY <1>10, <2>2 DEF WriteArtifact, Inv, RunInv, TypeOK, UpTypes
    <3>2. WritingArtifacts /\ (WritingArtifacts' \/ pc' = "apply") /\ ~Resumed'
      BY <1>10, <2>2, <3>1 DEF WriteArtifact, Goto, upVars, WritingArtifacts, Resumed, WritingKubeconfig, Artifacts
    <3>3. talosconfig'[cur'] \in {NoBundle, conf'}
      BY <1>10, <2>2, <3>2 DEF WriteArtifact, Replace, Goto, upVars, Inv, TypeOK, DirTypes, Files
    <3> QED
      BY <1>5, <3>2, <3>3
  <2> QED
    BY <2>1, <2>2
<1>11. CASE Apply
  BY <1>4, <1>11 DEF Apply, Goto, End, dirVars, upVars, Inv, CredentialsInv, Written, Artifacts, WritingArtifacts
<1>12. CASE WaitInstalled \/ Bootstrap \/ AlreadyBootstrapped \/ FetchKubeconfig \/ WaitReady
  BY <1>2, <1>4, <1>12
     DEF WaitInstalled, Bootstrap, AlreadyBootstrapped, FetchKubeconfig, WaitReady, Goto, Stay,
         End, dirVars, upVars, Resumed, FirstRun, WritingArtifacts, Artifacts
<1>13. CASE UpOptions \/ UpRefused \/ Boot \/ BootFails \/ StepFails \/ BootstrapFails
            \/ InstallStorage \/ TinqKilled
  BY <1>4, <1>13
     DEF UpOptions, UpRefused, Boot, BootFails, StepFails, BootstrapFails, InstallStorage,
         TinqKilled, Goto, Stay, End
<1>14. CASE DestroyStep
  BY <1>4, <1>14
     DEF DestroyStep, DestroyNext, LeaveEtcd, LeaveFails, DeleteNode, Sweep, SweepFails, Goto,
         Stay, End, DestroySteps
<1>15. ASSUME NEW m \in Machines,
             UpBegin(m) \/ \E f \in DestroyFlags : DestroyBegin(m, f)
       PROVE  ConfInv'
  BY <1>4, <1>15 DEF UpBegin, DestroyBegin, DestroySteps
<1>16. ASSUME NEW m \in Machines, NodeStep(m)
       PROVE  ConfInv'
  BY <1>3, <1>16 DEF NodeStep, NodeBoots, NodeInstalls, NodeJoins, NodeRegisters, dirVars, upVars
<1>17. ASSUME NEW ms, Halt(ms)
       PROVE  ConfInv'
  BY <1>3, <1>17 DEF Halt, dirVars, upVars
<1>18. CASE UNCHANGED vars
  BY <1>3, <1>18 DEF vars, dirVars, upVars
<1> QED
  BY <1>6, <1>7, <1>8, <1>9, <1>10, <1>11, <1>12, <1>13, <1>14, <1>15, <1>16, <1>17, <1>18
     DEF Next, UpStep, VMStops, PowerCut

-----------------------------------------------------------------------------
\* Inv holds of every run of up and destroy, with any flags and any failures of
\* tinq, of the VMs and of the requests, and whatever os.RemoveAll leaves of a
\* state directory when it fails or is killed: in particular every variable keeps to
\* its type, a joiner never gets as far as the bootstrap of up.go, and
\* destroyMachine takes no creator but the machine of its file.
THEOREM InvHolds == Spec => []Inv
<1>1. Inv /\ [Next]_vars => Inv'
  BY TypeStep, RunStep, PlacedStep, HoldersStep, ConfStep DEF Inv
<1> QED
  BY <1>1, InitInv, PTL DEF Spec

\* The talosconfig and the secrets of a node that holds a config are on disk,
\* and are the config's: writeArtifacts comes before applyConfiguration, a run
\* that finds a talosconfig generates nothing, one that finds none waits for
\* maintenance mode, in which an installed node never is, and destroy takes the
\* files with the node.  A destroy that stopped part-way may leave the node
\* without them, and never with those of another cluster.
THEOREM CredentialsAreOnDisk == Spec => []CredentialsOnDisk
<1>1. Inv => CredentialsOnDisk
  BY DEF Inv, CredentialsInv, CredentialsOnDisk
<1> QED
  BY <1>1, InvHolds, PTL

\* bootstrapEtcd succeeds at most once per secrets bundle.
THEOREM EtcdIsBootstrappedOnce == Spec => []OneEtcdPerBundle
<1>1. Inv => OneEtcdPerBundle
  BY DEF Inv, BootstrapInv, OneEtcdPerBundle
<1> QED
  BY <1>1, InvHolds, PTL
=============================================================================
