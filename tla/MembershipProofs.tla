-------------------------- MODULE MembershipProofs --------------------------
(****************************************************************************)
(* What Cluster keeps of a cluster, over the invariant of ClusterProofs.      *)
(* When nobody destroys with --force: every voter of an etcd still has its    *)
(* data, whoever is joined still has the secrets the joiner was built from,   *)
(* and a kubeconfig is for the cluster of its machine.  They are proved       *)
(* together, as KeptInv, one section for each conjunct.  The section after    *)
(* them does the same for StarInv: with any flags, where every joiner joins   *)
(* a creator, every voter still has its data.  Either is enough for Cluster   *)
(* to implement EtcdMembership.  All of it is about the clusters that no      *)
(* removal left part-way, at every moment: such a removal in one cluster      *)
(* takes nothing from what is proved of the others.                           *)
(****************************************************************************)
EXTENDS ClusterProofs, ClusterEtcd

\* Zenon is tried first, then SMT.
USE ZenonT(20), SMTT(20)

-----------------------------------------------------------------------------
(* Clusters that no removal left part-way. *)

USE DEF Intact

LEMMA SparedNone ==
  ASSUME Inv
  PROVE  Spared(NoBundle, torn)
BY SMT, ClusterAssumption DEF Spared, Inv, TypeOK, ClusterTypes

LEMMA SparedBefore ==
  ASSUME torn \subseteq torn', NEW b, Spared(b, torn')
  PROVE  Spared(b, torn)
BY DEF Spared

\* A node of such a cluster has its files.
LEMMA HeldFiles ==
  ASSUME Inv, NEW m \in Machines, pki[m] # NoBundle, Spared(pki[m], torn)
  PROVE  talosconfig[m] = pki[m] /\ secrets[m] = pki[m]
BY DEF Spared, Inv, CredentialsInv, CredentialsOnDisk

\* What a removal leaves: nothing, all, or some of a cluster it tears.
Tears(left) ==
  /\ left \in SUBSET Contents /\ Remains(item, left) /\ torn \subseteq torn'
  /\ left = {} \/ left = Contents \/ \A b \in BundlesOf(item) : ~Spared(b, torn')

LEMMA SweepTears ==
  ASSUME Sweep, ~NothingToSweep
  PROVE  Tears({})
BY DEF Sweep, Wipe, Tears

LEMMA SweepFailsTears ==
  ASSUME Inv, SweepFails
  PROVE  \E left : /\ Tears(left) /\ (left # {} \/ \A b \in BundlesOf(item) : ~Spared(b, torn'))
                   /\ IF "disk" \in left THEN UNCHANGED <<members, nodes, excused>> ELSE DiskGoes
<1>1. PICK left \in SUBSET Contents :
        /\ Remains(item, left)
        /\ IF "disk" \in left THEN UNCHANGED <<members, nodes, excused>> ELSE DiskGoes
        /\ torn' = IF left = Contents THEN torn ELSE torn \cup (BundlesOf(item) \X {item})
  BY DEF SweepFails
<1>2. item \in Machines /\ Contents # {}
  BY DEF Inv, TypeOK, DestroyTypes, Contents
<1>3. left # Contents => \A b \in BundlesOf(item) : ~Spared(b, torn')
  BY <1>1, <1>2 DEF Spared
<1> QED
  BY <1>1, <1>2, <1>3 DEF Tears

-----------------------------------------------------------------------------
(* Nodes and records. *)

LEMMA NodesFrame ==
  ASSUME NodesOK, UNCHANGED <<record, talosconfig, secrets, nodeVars, torn>>
  PROVE  NodesOK'
BY DEF NodesOK, nodeVars

LEMMA NodesRemain ==
  ASSUME Inv, NodesOK, NEW left, Tears(left)
  PROVE  NodesOK'
<1>1. /\ item \in Machines
      /\ \A b : Spared(b, torn') => Spared(b, torn)
  BY SparedBefore DEF Tears, Inv, TypeOK, DestroyTypes
<1>2. ASSUME NEW m \in Machines \ {item}
      PROVE  /\ etcd'[m] = "data" \/ stage'[m] = "serving" => installed'[m]
             /\ installed'[m] \/ stage'[m] = "installing" => pki'[m] # NoBundle
             /\ installed'[m] => vm'[m] # "absent"
             /\ stage'[m] # "off" => vm'[m] = "running"
             /\ vm'[m] = "running" => record'[m]
             /\ \A b \in {talosconfig'[m], secrets'[m]} \ {NoBundle} : Spared(b, torn') => record'[m]
  BY <1>1, <1>2, Remaining DEF NodesOK, Tears
<1>3. /\ etcd'[item] = "data" \/ stage'[item] = "serving" => installed'[item]
      /\ installed'[item] \/ stage'[item] = "installing" => pki'[item] # NoBundle
      /\ installed'[item] => vm'[item] # "absent"
      /\ stage'[item] = "off" /\ vm'[item] # "running"
  BY <1>1, Remaining DEF NodesOK, Tears
<1>4. ASSUME NEW b \in {talosconfig'[item], secrets'[item]} \ {NoBundle}, Spared(b, torn')
      PROVE  record'[item]
  <2>1. b \in {talosconfig[item], secrets[item]} /\ left # {}
    BY <1>4, Remaining DEF Tears
  <2>2. left = Contents
    BY <1>4, <2>1 DEF Tears, BundlesOf
  <2> QED
    BY <1>1, <1>4, <2>1, <2>2, Remaining DEF NodesOK, Tears, Contents
<1> QED
  BY <1>2, <1>3, <1>4 DEF NodesOK

LEMMA IdleRecord ==
  ASSUME pc' \in {"idle"} \cup DestroySteps
  PROVE  RecordRun'
BY DEF RecordRun, UpSteps, DestroySteps

LEMMA NodesStep ==
  ASSUME Inv, NodesOK, RecordRun, pc = "apply" => conf # NoBundle, [Next]_vars
  PROVE  NodesOK'
<1> USE DEF dirVars, clusterVars
<1>1. ASSUME UNCHANGED <<record, talosconfig, secrets, nodeVars, torn>>
      PROVE  NodesOK'
  BY <1>1, NodesFrame DEF NodesOK
<1>2. cur \in Machines /\ item \in Machines
  BY DEF Inv, TypeOK, DestroyTypes
<1>3. ASSUME NEW m \in Machines, UpBegin(m) \/ \E f \in DestroyFlags : DestroyBegin(m, f)
      PROVE  NodesOK'
  BY <1>1, <1>3 DEF UpBegin, DestroyBegin
<1>4. CASE UpOptions \/ ReadTalosconfig \/ Generate
  BY <1>1, <1>4 DEF UpOptions, ReadTalosconfig, Generate
<1>5. CASE UpRefused \/ WaitMaintenance \/ StepFails \/ WaitInstalled \/ AlreadyBootstrapped
           \/ BootstrapFails \/ FetchKubeconfig \/ WaitReady \/ InstallStorage
  BY <1>1, <1>5 DEF UpRefused, WaitMaintenance, StepFails, WaitInstalled, AlreadyBootstrapped,
     BootstrapFails, FetchKubeconfig, WaitReady, InstallStorage, Stay
<1>6. CASE Boot
  BY SMT, <1>2, <1>6 DEF Boot, Inv, TypeOK, DirTypes, NodeTypes, NodesOK, RecordRun
<1>7. CASE BootFails
  BY <1>2, <1>7 DEF BootFails, Inv, TypeOK, DirTypes, NodeTypes, NodesOK, RecordRun
<1>8. CASE (\E f \in Artifacts \cup {"kubeconfig"} : RemoveArtifact(f)) \/ WriteArtifact
  <2>1. /\ record[cur] /\ UNCHANGED <<record, nodeVars, torn>>
        /\ \A m \in Machines \ {cur} : talosconfig'[m] = talosconfig[m] /\ secrets'[m] = secrets[m]
    BY <1>2, <1>8 DEF RemoveArtifact, WriteArtifact, Replace, RecordRun, UpSteps,
       Inv, TypeOK, DirTypes, Files
  <2> QED
    BY <1>2, <2>1 DEF NodesOK, nodeVars
<1>9. CASE Apply
  BY <1>2, <1>9 DEF Apply, Inv, TypeOK, NodeTypes, Files, NodesOK
<1>10. CASE Bootstrap
  BY <1>2, <1>10 DEF Bootstrap, TalosAnswers, Inv, TypeOK, NodeTypes, NodesOK
<1>11. ASSUME NEW j \in Machines, DestroyNext(j)
       PROVE  NodesOK'
  BY <1>1, <1>11 DEF DestroyNext
<1>12. CASE LeaveEtcd
  BY <1>2, <1>12 DEF LeaveEtcd, Inv, TypeOK, NodeTypes, NodesOK
<1>13. CASE LeaveFails \/ DeleteNode
  BY <1>1, <1>13 DEF LeaveFails, DeleteNode, Stay
<1>14. CASE Sweep
  BY <1>1, <1>14, SweepTears, NodesRemain DEF Sweep
<1>15. CASE SweepFails
  BY <1>15, SweepFailsTears, NodesRemain
<1>16. ASSUME NEW m \in Machines, NodeStep(m)
       PROVE  NodesOK'
  <2>1. CASE NodeBoots(m)
    BY <2>1 DEF NodeBoots, MayBoot, Inv, TypeOK, NodeTypes, NodesOK
  <2>2. CASE NodeInstalls(m)
    BY <2>2 DEF NodeInstalls, MayInstall, Inv, TypeOK, NodeTypes, NodesOK
  <2>3. CASE NodeJoins(m)
    BY <2>3 DEF NodeJoins, MayJoin, Inv, TypeOK, NodeTypes, NodesOK
  <2>4. CASE NodeRegisters(m)
    BY <1>1, <2>4 DEF NodeRegisters
  <2> QED
    BY <1>16, <2>1, <2>2, <2>3, <2>4 DEF NodeStep
<1>17. ASSUME NEW ms, Halt(ms)
       PROVE  NodesOK'
  BY <1>17 DEF Halt, Inv, TypeOK, NodeTypes, NodesOK
<1>18. CASE TinqKilled \/ UNCHANGED vars
  BY <1>1, <1>18 DEF TinqKilled, vars
<1> QED
  BY <1>3, <1>4, <1>5, <1>6, <1>7, <1>8, <1>9, <1>10, <1>11, <1>12, <1>13, <1>14, <1>15, <1>16,
     <1>17, <1>18 DEF Next, UpStep, DestroyStep, VMStops, PowerCut

LEMMA RecordStep ==
  ASSUME Inv, NodesOK, RecordRun, [Next]_vars
  PROVE  RecordRun'
<1> USE DEF dirVars, nodeVars
<1>1. cur \in Machines
  BY DEF Inv, TypeOK
<1>2. ASSUME pc' \in UpSteps \ {"options", "boot"}, record[cur], UNCHANGED <<record, cur>>
      PROVE  RecordRun'
  BY <1>2 DEF RecordRun
<1>3. ASSUME NEW r, End(r)
      PROVE  RecordRun'
  BY <1>3, IdleRecord DEF End
<1>4. ASSUME NEW m \in Machines, UpBegin(m)
      PROVE  RecordRun'
  BY <1>4 DEF UpBegin, RecordRun, NodesOK
<1>5. CASE UpOptions
  BY <1>5 DEF UpOptions, Goto, RecordRun
<1>6. CASE Boot
  BY <1>1, <1>6 DEF Boot, Goto, RecordRun, UpSteps, Inv, TypeOK, DirTypes
<1>7. CASE ReadTalosconfig \/ Generate
  BY <1>2, <1>7 DEF ReadTalosconfig, Generate, Goto, RecordRun, UpSteps
<1>8. CASE WaitMaintenance \/ WaitInstalled \/ AlreadyBootstrapped \/ FetchKubeconfig \/ WaitReady
  BY <1>2, <1>3, <1>8 DEF WaitMaintenance, WaitInstalled, AlreadyBootstrapped, FetchKubeconfig,
     WaitReady, Goto, Stay, RecordRun, UpSteps
<1>9. CASE (\E f \in Artifacts \cup {"kubeconfig"} : RemoveArtifact(f)) \/ WriteArtifact
  BY <1>2, <1>9 DEF RemoveArtifact, WriteArtifact, Replace, Goto, RecordRun, UpSteps
<1>10. CASE Apply \/ Bootstrap
  BY <1>2, <1>3, <1>10 DEF Apply, Bootstrap, Goto, RecordRun, UpSteps
<1>11. CASE UpRefused \/ BootFails \/ StepFails \/ BootstrapFails \/ InstallStorage \/ SweepFails
            \/ TinqKilled
  BY <1>3, <1>11 DEF UpRefused, BootFails, StepFails, BootstrapFails, InstallStorage, SweepFails,
     TinqKilled, Stay
<1>12. ASSUME NEW m \in Machines, NEW f \in DestroyFlags, DestroyBegin(m, f)
       PROVE  RecordRun'
  BY <1>12, IdleRecord DEF DestroyBegin, DestroySteps
<1>13. ASSUME NEW j \in Machines, DestroyNext(j)
       PROVE  RecordRun'
  BY <1>13, IdleRecord DEF DestroyNext, Goto, DestroySteps
<1>14. CASE LeaveEtcd \/ LeaveFails \/ DeleteNode \/ Sweep
  BY <1>3, <1>14, IdleRecord DEF LeaveEtcd, LeaveFails, DeleteNode, Sweep, Goto, Stay, DestroySteps
<1>15. ASSUME NEW m \in Machines, NodeStep(m)
       PROVE  RecordRun'
  <2>1. UNCHANGED <<record, vm, pc, cur, sawRunning>>
    BY <1>15 DEF NodeStep, NodeBoots, NodeInstalls, NodeJoins, NodeRegisters, upVars
  <2> QED
    BY <2>1 DEF RecordRun
<1>16. ASSUME NEW ms, Halt(ms)
       PROVE  RecordRun'
  BY <1>1, <1>16 DEF Halt, upVars, RecordRun
<1>17. CASE UNCHANGED vars
  BY <1>17 DEF vars, upVars, RecordRun
<1> QED
  BY <1>4, <1>5, <1>6, <1>7, <1>8, <1>9, <1>10, <1>11, <1>12, <1>13, <1>14, <1>15, <1>16, <1>17
     DEF Next, UpStep, DestroyStep, VMStops, PowerCut

-----------------------------------------------------------------------------
(* Files along the joins. *)

LEMMA JoinsAnother ==
  ASSUME NEW m \in Machines
  PROVE  Joins[m] # m /\ (~Creator(m) => Joins[m] \in Machines)
<1>1. \E k \in {m} : Joins[k] \notin {m}
  BY JoinsAssumption
<1> QED
  BY <1>1, ClusterAssumption DEF Creator

\* The data of a creator's etcd stays.
DataKept == \A m \in Machines : Creator(m) /\ etcd[m] = "data" => etcd'[m] = "data"

LEMMA FilesFrame ==
  ASSUME FilesInv, DataKept, UNCHANGED <<talosconfig, secrets, kubeconfig, torn>>,
         minted \subseteq minted'
  PROVE  FilesInv'
<1>1. ASSUME NEW m \in Machines, ~Creator(m), NEW b \in {talosconfig[m], secrets[m]} \ {NoBundle},
             Spared(b, torn)
      PROVE  Settled(Joins[m], b)'
  BY <1>1, JoinsAnother DEF FilesInv, Settled, DataKept, Creator
<1>2. ASSUME NEW m \in Machines, kubeconfig[m] # NoBundle, Spared(kubeconfig[m], torn),
             Spared(talosconfig[m], torn)
      PROVE  Settled(m, kubeconfig[m])'
  BY <1>2 DEF FilesInv, Settled, DataKept, Creator
<1> QED
  BY <1>1, <1>2 DEF FilesInv, Creator

\* The files of machine c change: nobody may depend on what goes, and c only on
\* a settled owner.
LEMMA FilesOfOne ==
  ASSUME NEW c \in Machines, FilesInv, UNCHANGED minted, torn \subseteq torn',
         \A m \in Machines \ {c} :
           /\ talosconfig'[m] = talosconfig[m] /\ secrets'[m] = secrets[m]
           /\ kubeconfig'[m] = kubeconfig[m] /\ etcd'[m] = etcd[m],
         \/ \A m \in Machines : Joins[m] = c =>
              \A b \in {talosconfig[m], secrets[m]} \ {NoBundle} : ~Spared(b, torn')
         \/ /\ talosconfig'[c] = talosconfig[c] /\ secrets'[c] = secrets[c]
            /\ etcd'[c] = etcd[c],
         ~Creator(c) => \A b \in {talosconfig'[c], secrets'[c]} \ {NoBundle} :
                          Spared(b, torn') => Settled(Joins[c], b),
         kubeconfig'[c] # NoBundle /\ Spared(kubeconfig'[c], torn') /\ Spared(talosconfig'[c], torn') =>
           /\ talosconfig'[c] = kubeconfig'[c] /\ secrets'[c] = kubeconfig'[c]
           /\ Creator(c) => etcd'[c] = "data",
         Creator(c) /\ secrets'[c] # NoBundle =>
           /\ secrets'[c] \in minted
           /\ \A n \in Machines \ {c} : Creator(n) => secrets[n] # secrets'[c]
  PROVE  FilesInv'
<1>1. ASSUME NEW m \in Machines, ~Creator(m), NEW b \in {talosconfig'[m], secrets'[m]} \ {NoBundle},
             Spared(b, torn')
      PROVE  Settled(Joins[m], b)'
  <2>1. Joins[m] \in Machines /\ Joins[m] # m
    BY <1>1, JoinsAnother
  <2>2. Settled(Joins[m], b)
    BY <1>1, SparedBefore DEF FilesInv
  <2>3. CASE Joins[m] = c
    BY <1>1, <2>1, <2>2, <2>3 DEF Settled, Creator
  <2>4. CASE Joins[m] # c
    BY <1>1, <2>1, <2>2, <2>4 DEF Settled, Creator
  <2> QED
    BY <2>3, <2>4
<1>2. ASSUME NEW m \in Machines, kubeconfig'[m] # NoBundle, Spared(kubeconfig'[m], torn'),
             Spared(talosconfig'[m], torn')
      PROVE  Settled(m, kubeconfig[m])'
  <2>1. CASE m = c
    BY <1>2, <2>1 DEF Settled, Creator
  <2>2. CASE m # c
    <3>1. /\ kubeconfig'[m] = kubeconfig[m] /\ talosconfig'[m] = talosconfig[m]
          /\ secrets'[m] = secrets[m] /\ etcd'[m] = etcd[m]
      BY <2>2
    <3>2. Settled(m, kubeconfig[m])
      BY <1>2, <3>1, SparedBefore DEF FilesInv
    <3> QED
      BY <3>1, <3>2 DEF Settled, Creator
  <2> QED
    BY <2>1, <2>2
<1>3. ASSUME NEW m \in Machines, Creator(m), secrets'[m] # NoBundle
      PROVE  /\ secrets'[m] \in minted'
             /\ \A n \in Machines : Creator(n) /\ secrets'[n] = secrets'[m] => n = m
  BY <1>3 DEF FilesInv
<1> QED
  BY <1>1, <1>2, <1>3 DEF FilesInv, Creator

\* What a run of up that writes may do to the files.
LEMMA WritesFiles ==
  ASSUME Inv, FilesInv, FilesRun, NEW f \in Artifacts \cup {"kubeconfig"}, NEW b,
         Replace(f, b), UNCHANGED <<nodeVars, clusterVars>>,
         f \in Artifacts => WritingArtifacts /\ b \in {NoBundle, conf},
         f = "kubeconfig" => WritingKubeconfig /\ b \in {NoBundle, kube}
  PROVE  FilesInv'
<1>1. cur \in Machines /\ UNCHANGED <<etcd, minted, torn>>
  BY DEF Inv, TypeOK, nodeVars, clusterVars
<1>2. /\ \A m \in Machines \ {cur} :
           /\ talosconfig'[m] = talosconfig[m] /\ secrets'[m] = secrets[m]
           /\ kubeconfig'[m] = kubeconfig[m] /\ etcd'[m] = etcd[m]
      /\ talosconfig'[cur] = IF f = "talosconfig" THEN b ELSE talosconfig[cur]
      /\ secrets'[cur] = IF f = "secrets" THEN b ELSE secrets[cur]
      /\ kubeconfig'[cur] = IF f = "kubeconfig" THEN b ELSE kubeconfig[cur]
  BY <1>1 DEF Replace, Inv, TypeOK, DirTypes, Files
<1>3. CASE f \in Artifacts
  <2>1. /\ kubeconfig[cur] # NoBundle => ~Spared(kubeconfig[cur], torn)
        /\ f # "kubeconfig"
        /\ \A m \in Machines : Joins[m] = cur =>
             \A c \in {talosconfig[m], secrets[m]} \ {NoBundle} : ~Spared(c, torn)
    BY <1>3 DEF FilesRun, FirstRun, Artifacts
  <2>2. ~Creator(cur) /\ Spared(conf, torn) => Settled(Joins[cur], conf)
    <3>1. talosconfig[cur] \in {NoBundle, conf}
      BY <1>3 DEF Inv, ConfInv
    <3> QED
      BY <1>3, <3>1, SparedNone DEF FilesRun, WritingArtifacts, UpSteps
  <2>3. Creator(cur) => /\ conf \in minted
                        /\ \A n \in Machines \ {cur} : Creator(n) => secrets[n] # conf
    BY <1>3 DEF FilesRun, Inv, BootstrapInv
  <2>4. ~Creator(cur) => \A c \in {talosconfig'[cur], secrets'[cur]} \ {NoBundle} :
                           Spared(c, torn') => Settled(Joins[cur], c)
    BY <1>1, <1>2, <1>3, <2>2 DEF FilesInv
  <2>5. Creator(cur) /\ secrets'[cur] # NoBundle =>
          /\ secrets'[cur] \in minted
          /\ \A n \in Machines \ {cur} : Creator(n) => secrets[n] # secrets'[cur]
    BY <1>1, <1>2, <1>3, <2>3 DEF FilesInv
  <2>6. kubeconfig'[cur] = kubeconfig[cur]
    BY <1>2, <2>1
  <2> QED
    BY <1>1, <1>2, <2>1, <2>4, <2>5, <2>6, FilesOfOne
<1>4. CASE f = "kubeconfig"
  <2>1. talosconfig'[cur] = talosconfig[cur] /\ secrets'[cur] = secrets[cur]
    BY <1>2, <1>4
  <2>2. kubeconfig'[cur] # NoBundle /\ Spared(kubeconfig'[cur], torn') /\ Spared(talosconfig'[cur], torn') =>
          /\ talosconfig'[cur] = kubeconfig'[cur] /\ secrets'[cur] = kubeconfig'[cur]
          /\ Creator(cur) => etcd'[cur] = "data"
    BY <1>1, <1>2, <1>4, <2>1 DEF FilesRun, Settled
  <2>3. /\ ~Creator(cur) => \A c \in {talosconfig'[cur], secrets'[cur]} \ {NoBundle} :
                              Spared(c, torn') => Settled(Joins[cur], c)
        /\ Creator(cur) /\ secrets'[cur] # NoBundle =>
             /\ secrets'[cur] \in minted
             /\ \A n \in Machines \ {cur} : Creator(n) => secrets[n] # secrets'[cur]
    BY <1>1, <2>1 DEF FilesInv
  <2> QED
    BY <1>1, <1>2, <2>1, <2>2, <2>3, FilesOfOne
<1> QED
  BY <1>3, <1>4

LEMMA RemoveFiles ==
  ASSUME Inv, FilesInv, FilesRun, NEW f \in Artifacts \cup {"kubeconfig"}, RemoveArtifact(f)
  PROVE  FilesInv'
<1>1. Replace(f, NoBundle) /\ UNCHANGED <<nodeVars, clusterVars>>
  BY DEF RemoveArtifact
<1>2. f \in Artifacts => WritingArtifacts
  BY DEF RemoveArtifact, Inv, RunInv, WritingKubeconfig, Artifacts
<1>3. f = "kubeconfig" => WritingKubeconfig
  BY DEF RemoveArtifact, Inv, RunInv, WritingArtifacts, Artifacts
<1> QED
  BY <1>1, <1>2, <1>3, WritesFiles

LEMMA WriteFiles ==
  ASSUME Inv, FilesInv, FilesRun, WriteArtifact
  PROVE  FilesInv'
<1>1. /\ Replace(file, IF file = "kubeconfig" THEN kube ELSE conf)
      /\ UNCHANGED <<nodeVars, clusterVars>>
  BY DEF WriteArtifact
<1>2. file \in Artifacts => WritingArtifacts /\ file # "kubeconfig"
  BY DEF WriteArtifact, WritingArtifacts, Artifacts
<1>3. file = "kubeconfig" => WritingKubeconfig
  BY DEF WriteArtifact, WritingKubeconfig
<1>4. file \in Artifacts \cup {"kubeconfig"}
  BY DEF WriteArtifact, Inv, RunInv, TypeOK, UpTypes
<1> QED
  BY <1>1, <1>2, <1>3, <1>4, WritesFiles

\* Nobody joined what is swept.
LEMMA FilesRemain ==
  ASSUME Inv, NodesOK, FilesInv, JoinersOf(item) = {}, NEW left, Tears(left), UNCHANGED minted
  PROVE  FilesInv'
<1>1. /\ item \in Machines /\ torn \subseteq torn' /\ Remains(item, left)
      /\ \A b : Spared(b, torn') => Spared(b, torn)
  BY SparedBefore DEF Tears, Inv, TypeOK, DestroyTypes
<1>2. ASSUME NEW m \in Machines, Joins[m] = item,
             NEW b \in {talosconfig[m], secrets[m]} \ {NoBundle}, Spared(b, torn')
      PROVE  FALSE
  <2>1. record[m]
    BY <1>1, <1>2 DEF NodesOK
  <2> QED
    BY <1>2, <2>1, JoinsAnother DEF JoinersOf
<1>3. \A m \in Machines \ {item} :
         /\ talosconfig'[m] = talosconfig[m] /\ secrets'[m] = secrets[m]
         /\ kubeconfig'[m] = kubeconfig[m] /\ etcd'[m] = etcd[m]
  BY <1>1, Remaining
<1>4. ~Creator(item) => \A b \in {talosconfig'[item], secrets'[item]} \ {NoBundle} :
                          Spared(b, torn') => Settled(Joins[item], b)
  <2>1. \A b \in {talosconfig'[item], secrets'[item]} \ {NoBundle} :
           b \in {talosconfig[item], secrets[item]}
    BY <1>1, Remaining
  <2> QED
    BY <1>1, <2>1 DEF FilesInv
<1>5. ASSUME kubeconfig'[item] # NoBundle, Spared(kubeconfig'[item], torn'), Spared(talosconfig'[item], torn')
      PROVE  /\ talosconfig'[item] = kubeconfig'[item] /\ secrets'[item] = kubeconfig'[item]
             /\ Creator(item) => etcd'[item] = "data"
  <2>1. left # {} /\ kubeconfig'[item] = kubeconfig[item]
    BY <1>1, <1>5, Remaining
  <2>2. left = Contents
    BY <1>5, <2>1 DEF Tears, BundlesOf
  <2>3. talosconfig'[item] = talosconfig[item] /\ secrets'[item] = secrets[item] /\ etcd'[item] = etcd[item]
    BY <1>1, <2>2, Remaining DEF Contents
  <2>4. Settled(item, kubeconfig[item])
    BY <1>1, <1>5, <2>1, <2>3 DEF FilesInv
  <2> QED
    BY <2>1, <2>3, <2>4 DEF Settled
<1>6. Creator(item) /\ secrets'[item] # NoBundle =>
        /\ secrets'[item] \in minted
        /\ \A n \in Machines \ {item} : Creator(n) => secrets[n] # secrets'[item]
  <2>1. secrets'[item] \in {secrets[item], NoBundle}
    BY <1>1, Remaining
  <2> QED
    BY <1>1, <2>1 DEF FilesInv
<1> QED
  BY <1>1, <1>2, <1>3, <1>4, <1>5, <1>6, FilesOfOne

LEMMA SweepFiles ==
  ASSUME Inv, NodesOK, FilesInv, DestroyInv, Sweep \/ SweepFails
  PROVE  FilesInv'
<1>1. UNCHANGED minted /\ JoinersOf(item) = {}
  BY DEF Sweep, SweepFails, DestroyInv
<1>2. CASE Sweep /\ NothingToSweep
  BY <1>2, FilesFrame DEF Sweep, dirVars, nodeVars, DataKept
<1>3. CASE Sweep /\ ~NothingToSweep
  BY <1>1, <1>3, SweepTears, FilesRemain
<1>4. CASE SweepFails
  BY <1>1, <1>4, SweepFailsTears, FilesRemain
<1> QED
  BY <1>2, <1>3, <1>4

LEMMA FilesStep ==
  ASSUME Inv, NodesOK, FilesInv, FilesRun, DestroyInv, [Next]_vars
  PROVE  FilesInv'
<1> USE DEF dirVars, nodeVars, clusterVars
<1>1. ASSUME UNCHANGED <<talosconfig, secrets, kubeconfig, etcd, torn>>, minted \subseteq minted'
      PROVE  FilesInv'
  BY <1>1, FilesFrame DEF DataKept
<1>2. ASSUME NEW r, Stay(r)
      PROVE  FilesInv'
  BY <1>1, <1>2 DEF Stay
<1>3. ASSUME NEW m \in Machines, UpBegin(m) \/ \E f \in DestroyFlags : DestroyBegin(m, f)
      PROVE  FilesInv'
  BY <1>1, <1>3 DEF UpBegin, DestroyBegin
<1>4. CASE UpOptions \/ Boot \/ BootFails \/ ReadTalosconfig \/ Generate \/ Apply
  BY <1>1, <1>4 DEF UpOptions, Boot, BootFails, ReadTalosconfig, Generate, Apply
<1>5. CASE UpRefused \/ WaitMaintenance \/ StepFails \/ WaitInstalled \/ AlreadyBootstrapped
           \/ BootstrapFails \/ FetchKubeconfig \/ WaitReady \/ InstallStorage
  BY <1>1, <1>2, <1>5 DEF UpRefused, WaitMaintenance, StepFails, WaitInstalled,
     AlreadyBootstrapped, BootstrapFails, FetchKubeconfig, WaitReady, InstallStorage
<1>6. CASE Bootstrap
  <2>1. DataKept
    BY <1>6 DEF Bootstrap, DataKept, Inv, TypeOK, NodeTypes
  <2> QED
    BY <1>6, <2>1, FilesFrame DEF Bootstrap
<1>7. ASSUME NEW j \in Machines, DestroyNext(j)
      PROVE  FilesInv'
  BY <1>1, <1>7 DEF DestroyNext
<1>8. CASE LeaveEtcd
  <2>1. DataKept
    BY <1>8 DEF LeaveEtcd, DataKept, Inv, RunInv, TypeOK, NodeTypes, DestroyTypes
  <2> QED
    BY <1>8, <2>1, FilesFrame DEF LeaveEtcd
<1>9. CASE LeaveFails \/ DeleteNode \/ TinqKilled
  BY <1>1, <1>2, <1>9 DEF LeaveFails, DeleteNode, TinqKilled
<1>10. ASSUME NEW m \in Machines, NodeStep(m)
       PROVE  FilesInv'
  <2>1. DataKept
    BY <1>10 DEF NodeStep, NodeBoots, NodeInstalls, NodeJoins, NodeRegisters, DataKept, Inv,
       TypeOK, NodeTypes
  <2>2. UNCHANGED <<talosconfig, secrets, kubeconfig, minted, torn>>
    BY <1>10 DEF NodeStep, NodeBoots, NodeInstalls, NodeJoins, NodeRegisters
  <2> QED
    BY <2>1, <2>2, FilesFrame
<1>11. ASSUME NEW ms, Halt(ms)
       PROVE  FilesInv'
  BY <1>1, <1>11 DEF Halt
<1>12. CASE UNCHANGED vars
  BY <1>1, <1>12 DEF vars
<1>13. CASE Next
  BY <1>3, <1>4, <1>5, <1>6, <1>7, <1>8, <1>9, <1>10, <1>11, <1>13, RemoveFiles, WriteFiles,
     SweepFiles DEF Next, UpStep, DestroyStep, VMStops, PowerCut
<1> QED
  BY <1>12, <1>13

-----------------------------------------------------------------------------
(* The files of the machine an up works on. *)

\* The machine in hand has joined a settled one.
Owned ==
  ~Creator(cur) =>
    /\ Intact(talosconfig[cur]) => /\ talosconfig[cur] \in {join, NoBundle}
                                   /\ Intact(join) => Settled(Joins[cur], join)
    /\ Intact(join) /\ Intact(kube) => kube = join

LEMMA OwnedStays ==
  ASSUME Inv, Owned, DataKept, UNCHANGED <<cur, join, kube, torn>>,
         \A m \in Machines \ {cur} : talosconfig'[m] = talosconfig[m] /\ secrets'[m] = secrets[m],
         \/ talosconfig'[cur] = talosconfig[cur]
         \/ ~Creator(cur) => {talosconfig[cur], talosconfig'[cur]} \subseteq {join, NoBundle}
  PROVE  Owned'
<1>1. cur \in Machines
  BY DEF Inv, TypeOK
<1>2. ~Creator(cur) /\ Settled(Joins[cur], join) => Settled(Joins[cur], join)'
  BY <1>1, JoinsAnother DEF Settled, DataKept, Creator
<1>3. CASE talosconfig'[cur] = talosconfig[cur]
  BY <1>2, <1>3 DEF Owned, Creator
<1>4. CASE ~Creator(cur) => {talosconfig[cur], talosconfig'[cur]} \subseteq {join, NoBundle}
  BY <1>2, <1>4, SparedNone DEF Owned, Creator
<1> QED
  BY <1>3, <1>4

\* Outside an up, nothing is said of the files in hand.
LEMMA NoFilesRun ==
  ASSUME pc' \notin UpSteps \ {"options"}
  PROVE  FilesRun'
BY DEF FilesRun, FirstRun, WritingArtifacts, WritingKubeconfig, UpSteps

\* Between the first run and the write of the kubeconfig there is only the owner.
LEMMA PlainFilesRun ==
  ASSUME Owned', pc' \in {"boot", "read", "installed", "bootstrap", "fetch", "ready", "storage"},
         pc' = "fetch" => Creator(cur')
  PROVE  FilesRun'
BY DEF FilesRun, FirstRun, WritingArtifacts, WritingKubeconfig, Owned, Creator

LEMMA QuietFilesRun ==
  ASSUME Inv, FilesRun, DataKept,
         UNCHANGED <<talosconfig, secrets, kubeconfig, torn, pc, cur, upVars>>
  PROVE  FilesRun'
<1>1. CASE pc \in UpSteps \ {"options"}
  <2>1. Owned'
    BY <1>1, OwnedStays DEF FilesRun, Owned, upVars
  <2>2. WritingKubeconfig /\ Spared(kube, torn) /\ Spared(talosconfig[cur], torn) => Settled(cur, kube)'
    BY DEF FilesRun, Settled, DataKept, Creator, Inv, TypeOK, upVars
  <2>3. /\ FirstRun' = FirstRun /\ WritingArtifacts' = WritingArtifacts
        /\ WritingKubeconfig' = WritingKubeconfig
    BY DEF FirstRun, WritingArtifacts, WritingKubeconfig, upVars
  <2> QED
    BY <2>1, <2>2, <2>3 DEF FilesRun, Owned, Creator, upVars
<1>2. CASE pc \notin UpSteps \ {"options"}
  BY <1>2, NoFilesRun
<1> QED
  BY <1>1, <1>2

LEMMA RootOfCreator ==
  ASSUME NEW o \in Machines, Creator(o)
  PROVE  Root[o] = o
<1> DEFINE Good(c) == /\ Joins[c] = NoMachine
                      /\ \A S \in SUBSET Machines :
                           o \in S /\ (\A k \in S : Joins[k] \in S \cup {NoMachine}) => c \in S
<1>1. Good(o)
  BY DEF Creator
<1>2. ASSUME NEW c \in Machines, Good(c)
      PROVE  c = o
  <2>1. {o} \in SUBSET Machines /\ \A k \in {o} : Joins[k] \in {o} \cup {NoMachine}
    BY DEF Creator
  <2>2. c \in {o}
    BY <1>2, <2>1
  <2> QED
    BY <2>2
<1>3. Root[o] = CHOOSE c \in Machines : Good(c)
  BY DEF Root
<1> HIDE DEF Good
<1> QED
  BY <1>1, <1>2, <1>3

\* Whoever may be joined is up, and holds the bundle of its secrets.
LEMMA OptionsFiles ==
  ASSUME Inv, NodesOK, FilesInv, UpOptions
  PROVE  FilesRun'
<1>1. pc' = "boot" /\ UNCHANGED <<dirVars, nodeVars, torn, cur>> /\ cur \in Machines
  BY DEF UpOptions, Goto, Inv, TypeOK, clusterVars
<1>2. Owned'
  <2>1. CASE Creator(cur)
    BY <1>1, <2>1 DEF Owned, Creator
  <2>2. CASE ~Creator(cur)
    <3> DEFINE o == Joins[cur]
               p == pki[o]
               t == talosconfig[cur]
    <3>1. /\ o \in Machines /\ stage[o] = "serving"
          /\ secrets[o] # NoBundle /\ kubeconfig[o] # NoBundle
          /\ join' = secrets[o] /\ kube' = kubeconfig[o]
      BY <1>1, <2>2, JoinsAnother DEF UpOptions, MayJoinOwner, HasArtifacts, OnSegment, Creator
    <3>2. p # NoBundle /\ secrets[o] = p
      BY <3>1 DEF NodesOK, Inv, CredentialsInv, CredentialsOnDisk
    <3>3. Spared(p, torn) => talosconfig[o] = p
      BY <3>1, <3>2, HeldFiles
    <3>4. ASSUME t = NoBundle, Creator(o)
          PROVE  etcd[o] = "data"
      BY <2>2, <3>1, <3>4, RootOfCreator
         DEF UpOptions, MayJoinOwner, OwnerUp, KubeAnswers, Serves, Voting, Creator
    <3>5. ASSUME Spared(t, torn)
          PROVE  t \in {p, NoBundle} /\ (Spared(p, torn) => Settled(o, p))
      <4>1. CASE t = NoBundle
        BY <3>2, <3>3, <3>4, <4>1 DEF Settled
      <4>2. CASE t # NoBundle
        <5>1. Settled(o, t)
          BY <1>1, <2>2, <3>5, <4>2 DEF FilesInv
        <5> QED
          BY <3>2, <5>1 DEF Settled
      <4> QED
        BY <4>1, <4>2
    <3>6. ASSUME Spared(p, torn), Spared(kubeconfig[o], torn)
          PROVE  kubeconfig[o] = p
      BY <3>1, <3>3, <3>6 DEF FilesInv, Settled
    <3>7. Settled(o, p) => Settled(o, p)'
      BY <1>1 DEF Settled, Creator, dirVars, nodeVars
    <3> QED
      BY <1>1, <3>1, <3>2, <3>5, <3>6 DEF Owned, Settled, Creator, dirVars, nodeVars
  <2> QED
    BY <2>1, <2>2
<1> QED
  BY <1>1, <1>2, PlainFilesRun

LEMMA ReadFiles ==
  ASSUME Inv, FilesInv, FilesRun, ReadTalosconfig
  PROVE  FilesRun'
<1> USE DEF dirVars, nodeVars, clusterVars
<1>1. cur \in Machines /\ UNCHANGED <<talosconfig, secrets, kubeconfig, etcd, torn, cur, join, kube>>
  BY DEF ReadTalosconfig, Goto, Inv, TypeOK
<1>2. Owned'
  BY <1>1, OwnedStays DEF ReadTalosconfig, FilesRun, Owned, DataKept, UpSteps
<1>3. CASE talosconfig[cur] = NoBundle
  <2>1. kubeconfig[cur] # NoBundle => ~Spared(kubeconfig[cur], torn)
    BY <1>1, <1>3, SparedNone DEF FilesInv, Settled
  <2>2. \A m \in Machines : Joins[m] = cur =>
          \A b \in {talosconfig[m], secrets[m]} \ {NoBundle} : ~Spared(b, torn)
    <3>1. \A m \in Machines : Joins[m] = cur => ~Creator(m)
      BY <1>1, ClusterAssumption DEF Creator
    <3> QED
      BY <1>3, <3>1 DEF FilesInv, Settled
  <2>3. pc' = "maintenance"
    BY <1>3 DEF ReadTalosconfig, Goto
  <2> QED
    BY <1>1, <1>2, <2>1, <2>2, <2>3 DEF FilesRun, WritingArtifacts, WritingKubeconfig, Owned, Creator
<1>4. CASE talosconfig[cur] # NoBundle
  <2>1. pc' = "installed"
    BY <1>4 DEF ReadTalosconfig, Goto
  <2> QED
    BY <1>2, <2>1, PlainFilesRun
<1> QED
  BY <1>3, <1>4

LEMMA GenerateFiles ==
  ASSUME Inv, FilesInv, FilesRun, Generate
  PROVE  FilesRun'
<1> USE DEF dirVars, nodeVars
<1>1. /\ cur \in Machines
      /\ UNCHANGED <<talosconfig, secrets, kubeconfig, etcd, torn, cur, join, kube>>
      /\ pc = "generate" /\ pc' = "write" /\ todo' = Artifacts
  BY DEF Generate, Goto, Inv, TypeOK
<1>2. Owned'
  BY <1>1, OwnedStays DEF FilesRun, Owned, DataKept, UpSteps
<1>3. Creator(cur) => \A n \in Machines \ {cur} : Creator(n) => secrets[n] # conf'
  <2>1. Creator(cur) => conf' \in Bundles \ minted
    BY DEF Generate, Creator
  <2> QED
    BY <2>1, ClusterAssumption DEF FilesInv
<1>4. ~Creator(cur) => conf' = join'
  BY <1>1 DEF Generate, Creator
<1>5. FirstRun /\ ~WritingKubeconfig'
  BY <1>1 DEF FirstRun, WritingKubeconfig, Artifacts
<1> QED
  BY <1>1, <1>2, <1>3, <1>4, <1>5 DEF FilesRun, Owned, Creator

\* A file of the machine in hand changes.
LEMMA ReplaceFilesRun ==
  ASSUME Inv, FilesRun, NEW f \in Artifacts \cup {"kubeconfig"}, NEW b, Replace(f, b),
         UNCHANGED <<nodeVars, clusterVars, cur, join, kube, conf>>,
         pc \in {"write", "writing"},
         f \in Artifacts => /\ WritingArtifacts /\ ~WritingKubeconfig' /\ b \in {NoBundle, conf}
                           /\ pc' \in {"write", "writing", "apply"},
         f = "kubeconfig" => WritingKubeconfig /\ ~FirstRun' /\ pc' \in {"write", "writing", "ready"}
  PROVE  FilesRun'
<1>1. /\ cur \in Machines /\ DataKept /\ UNCHANGED torn
      /\ \A m \in Machines \ {cur} : /\ talosconfig'[m] = talosconfig[m]
                                     /\ secrets'[m] = secrets[m]
  BY DEF Inv, TypeOK, DirTypes, Files, Replace, DataKept, nodeVars, clusterVars
<1>2. Owned'
  <2>1. f = "kubeconfig" => talosconfig'[cur] = talosconfig[cur]
    BY DEF Replace
  <2>2. f \in Artifacts => (~Creator(cur) => {talosconfig[cur], talosconfig'[cur]} \subseteq {join, NoBundle})
    <3>1. f \in Artifacts => talosconfig[cur] \in {NoBundle, conf}
      BY DEF Inv, ConfInv
    <3>2. f \in Artifacts /\ ~Creator(cur) => conf = join
      BY DEF FilesRun
    <3>3. talosconfig'[cur] \in {talosconfig[cur], b}
      BY <1>1 DEF Replace, Inv, TypeOK, DirTypes, Files
    <3> QED
      BY <3>1, <3>2, <3>3
  <2> QED
    BY <1>1, <2>1, <2>2, OwnedStays DEF FilesRun, Owned, UpSteps
<1>3. CASE f \in Artifacts
  <2>1. kubeconfig' = kubeconfig
    BY <1>3 DEF Replace, Artifacts
  <2>2. /\ kubeconfig[cur] # NoBundle => ~Spared(kubeconfig[cur], torn)
        /\ \A m \in Machines : Joins[m] = cur =>
             m # cur /\ \A c \in {talosconfig[m], secrets[m]} \ {NoBundle} : ~Spared(c, torn)
    BY <1>1, <1>3, JoinsAnother DEF FilesRun, FirstRun
  <2>3. /\ kubeconfig'[cur'] # NoBundle => ~Spared(kubeconfig'[cur'], torn')
        /\ \A m \in Machines : Joins[m] = cur' =>
             \A c \in {talosconfig'[m], secrets'[m]} \ {NoBundle} : ~Spared(c, torn')
    BY <1>1, <2>1, <2>2
  <2>4. /\ ~Creator(cur) => conf' = join'
        /\ Creator(cur) => \A n \in Machines \ {cur} : Creator(n) => secrets'[n] # conf'
    BY <1>1, <1>3 DEF FilesRun
  <2> QED
    BY <1>2, <1>3, <2>3, <2>4 DEF FilesRun, Owned, Creator
<1>4. CASE f = "kubeconfig"
  <2>1. /\ UNCHANGED <<talosconfig, secrets, etcd>>
        /\ Spared(kube, torn) /\ Spared(talosconfig[cur], torn) => Settled(cur, kube)
    BY <1>4 DEF Replace, nodeVars, FilesRun
  <2>2. Spared(kube, torn) /\ Spared(talosconfig[cur], torn) => Settled(cur, kube)'
    BY <2>1 DEF Settled, Creator
  <2>3. ~WritingArtifacts' /\ pc' # "apply" /\ pc' # "fetch"
    BY <1>4 DEF FirstRun
  <2> QED
    BY <1>1, <1>2, <1>4, <2>1, <2>2, <2>3 DEF FilesRun, Owned, Creator
<1> QED
  BY <1>3, <1>4

LEMMA RemoveFilesRun ==
  ASSUME Inv, FilesRun, NEW f \in Artifacts \cup {"kubeconfig"}, RemoveArtifact(f)
  PROVE  FilesRun'
<1>1. /\ Replace(f, NoBundle) /\ UNCHANGED <<nodeVars, clusterVars, cur, join, kube, conf>>
      /\ pc = "write" /\ pc' = "writing" /\ file' = f
  BY DEF RemoveArtifact, Goto
<1>2. f \in Artifacts => WritingArtifacts /\ ~WritingKubeconfig'
  BY <1>1 DEF RemoveArtifact, Inv, RunInv, WritingKubeconfig, Artifacts
<1>3. f = "kubeconfig" => WritingKubeconfig /\ ~FirstRun'
  BY <1>1 DEF RemoveArtifact, Inv, RunInv, WritingArtifacts, FirstRun, Artifacts
<1> QED
  BY <1>1, <1>2, <1>3, ReplaceFilesRun

LEMMA WriteFilesRun ==
  ASSUME Inv, FilesRun, WriteArtifact
  PROVE  FilesRun'
<1>1. /\ Replace(file, IF file = "kubeconfig" THEN kube ELSE conf)
      /\ UNCHANGED <<nodeVars, clusterVars, cur, join, kube, conf, todo, file>>
      /\ pc = "writing"
      /\ pc' = IF todo # {} THEN "write" ELSE IF file = "kubeconfig" THEN "ready" ELSE "apply"
  BY DEF WriteArtifact, Goto, upVars
<1>2. file \in Artifacts \cup {"kubeconfig"}
  BY <1>1 DEF Inv, RunInv, TypeOK, UpTypes
<1>3. file \in Artifacts => /\ WritingArtifacts /\ ~WritingKubeconfig'
                            /\ pc' \in {"write", "writing", "apply"}
  BY <1>1 DEF Inv, RunInv, WritingArtifacts, WritingKubeconfig, Artifacts
<1>4. file = "kubeconfig" => /\ WritingKubeconfig /\ ~FirstRun'
                             /\ pc' \in {"write", "writing", "ready"}
  BY <1>1 DEF Inv, RunInv, WritingArtifacts, WritingKubeconfig, FirstRun
<1>5. file \in Artifacts => (IF file = "kubeconfig" THEN kube ELSE conf) = conf
  BY DEF Artifacts
<1> QED
  BY <1>1, <1>2, <1>3, <1>4, <1>5, ReplaceFilesRun

\* An installed node has the files of its bundle, and so has its owner.
LEMMA InstalledFiles ==
  ASSUME Inv, FilesInv, FilesRun, WaitInstalled
  PROVE  FilesRun'
<1> USE DEF dirVars, nodeVars, clusterVars
<1>1. CASE ~TalosAnswers(cur, conf)
  BY <1>1, NoFilesRun DEF WaitInstalled, Stay, End, UpSteps
<1>2. CASE TalosAnswers(cur, conf)
  <2>1. /\ cur \in Machines
        /\ UNCHANGED <<talosconfig, secrets, kubeconfig, etcd, torn, cur, join, kube, conf>>
        /\ IF Creator(cur) THEN pc' = "bootstrap" ELSE pc' = "write" /\ todo' = {"kubeconfig"}
    BY <1>2 DEF WaitInstalled, GivesUp, Goto, Inv, TypeOK, Creator
  <2>2. Owned /\ Owned'
    BY <2>1, OwnedStays DEF WaitInstalled, FilesRun, Owned, DataKept, UpSteps
  <2>3. CASE Creator(cur)
    BY <2>1, <2>2, <2>3, PlainFilesRun
  <2>4. CASE ~Creator(cur)
    <3>1. conf # NoBundle /\ pki[cur] = conf /\ talosconfig[cur] = conf
      BY <1>2 DEF WaitInstalled, TalosAnswers, Inv, ConfInv, Resumed
    <3>2. ASSUME Spared(kube, torn), Spared(talosconfig[cur], torn)
          PROVE  secrets[cur] = conf /\ kube = conf
      BY <2>1, <2>2, <2>4, <3>1, <3>2, HeldFiles DEF Owned
    <3>3. Spared(kube, torn) /\ Spared(talosconfig[cur], torn) => Settled(cur, kube)'
      BY <2>1, <2>4, <3>1, <3>2 DEF Settled, Creator
    <3>4. ~FirstRun' /\ ~WritingArtifacts' /\ pc' = "write"
      BY <2>1, <2>4 DEF FirstRun, WritingArtifacts, Artifacts
    <3> QED
      BY <2>1, <2>2, <3>3, <3>4 DEF FilesRun, Owned, Creator
  <2> QED
    BY <2>3, <2>4
<1> QED
  BY <1>1, <1>2

LEMMA FetchFiles ==
  ASSUME Inv, FilesRun, FetchKubeconfig
  PROVE  FilesRun'
<1> USE DEF dirVars, nodeVars, clusterVars
<1>1. CASE ~(TalosAnswers(cur, conf) /\ etcd[cur] = "data")
  BY <1>1, NoFilesRun DEF FetchKubeconfig, Stay, End, UpSteps
<1>2. CASE TalosAnswers(cur, conf) /\ etcd[cur] = "data"
  <2>1. /\ cur \in Machines /\ Creator(cur)
        /\ UNCHANGED <<talosconfig, secrets, kubeconfig, etcd, torn, cur>>
        /\ pc' = "write" /\ todo' = {"kubeconfig"} /\ kube' = conf
    BY <1>2 DEF FetchKubeconfig, GivesUp, Goto, FilesRun, Inv, TypeOK
  <2>2. /\ conf # NoBundle /\ talosconfig[cur] = conf
        /\ Spared(conf, torn) => secrets[cur] = conf
    BY <1>2, <2>1, HeldFiles DEF FetchKubeconfig, TalosAnswers, Inv, ConfInv, Resumed
  <2>3. Spared(conf, torn) => Settled(cur, kube)'
    BY <1>2, <2>1, <2>2 DEF Settled
  <2>4. ~FirstRun' /\ ~WritingArtifacts'
    BY <2>1 DEF FirstRun, WritingArtifacts, Artifacts
  <2> QED
    BY <2>1, <2>2, <2>3, <2>4 DEF FilesRun, Creator
<1> QED
  BY <1>1, <1>2

LEMMA FilesRunStep ==
  ASSUME Inv, NodesOK, FilesInv, FilesRun, [Next]_vars
  PROVE  FilesRun'
<1> USE DEF dirVars, nodeVars, clusterVars
<1>1. ASSUME NEW r, End(r)
      PROVE  FilesRun'
  BY <1>1, NoFilesRun DEF End, UpSteps
<1>2. ASSUME pc \in UpSteps \ {"options"}, DataKept,
             UNCHANGED <<talosconfig, secrets, torn, cur, join, kube>>,
             pc' \in {"read", "installed", "bootstrap", "fetch", "ready", "storage"},
             pc' = "fetch" => Creator(cur)
      PROVE  FilesRun'
  BY <1>2, OwnedStays, PlainFilesRun DEF FilesRun, Owned
<1>3. ASSUME NEW m \in Machines, UpBegin(m) \/ \E f \in DestroyFlags : DestroyBegin(m, f)
      PROVE  FilesRun'
  BY <1>3, NoFilesRun DEF UpBegin, DestroyBegin, UpSteps
<1>4. CASE Boot
  BY <1>2, <1>4 DEF Boot, Goto, upVars, DataKept, UpSteps
<1>5. CASE WaitMaintenance
  <2>1. CASE pc' = "generate"
    <3>1. /\ UNCHANGED <<talosconfig, secrets, kubeconfig, etcd, torn, cur, upVars>>
          /\ pc = "maintenance" /\ pc' = "generate"
      BY <1>5, <2>1 DEF WaitMaintenance, Stay, End, Goto
    <3>2. Owned'
      BY <3>1, OwnedStays DEF FilesRun, Owned, DataKept, UpSteps, upVars
    <3> QED
      BY <3>1, <3>2 DEF FilesRun, FirstRun, WritingArtifacts, WritingKubeconfig, Owned, Creator
  <2>2. CASE pc' # "generate"
    BY <1>1, <1>5, <2>2 DEF WaitMaintenance, Stay, Goto
  <2> QED
    BY <2>1, <2>2
<1>6. CASE Apply
  BY <1>1, <1>2, <1>6 DEF Apply, Goto, upVars, DataKept, UpSteps
<1>7. CASE Bootstrap
  <2>1. DataKept
    BY <1>7 DEF Bootstrap, DataKept, Inv, TypeOK, NodeTypes
  <2> QED
    BY <1>2, <1>7, <2>1 DEF Bootstrap, Goto, upVars, UpSteps, Inv, RunInv
<1>8. CASE AlreadyBootstrapped
  BY <1>1, <1>2, <1>8 DEF AlreadyBootstrapped, Stay, Goto, upVars, DataKept, UpSteps, Inv, RunInv
<1>9. CASE WaitReady
  BY <1>1, <1>2, <1>9 DEF WaitReady, Stay, Goto, upVars, DataKept, UpSteps
<1>10. CASE UpRefused \/ BootFails \/ StepFails \/ BootstrapFails \/ InstallStorage \/ SweepFails
            \/ TinqKilled
  BY <1>1, <1>10 DEF UpRefused, BootFails, StepFails, BootstrapFails, InstallStorage, SweepFails,
     TinqKilled, Stay
<1>11. CASE DestroyStep
  BY <1>11, NoFilesRun DEF DestroyStep, DestroyNext, LeaveEtcd, LeaveFails, DeleteNode, Sweep,
     SweepFails, Stay, End, Goto, UpSteps
<1>12. ASSUME NEW m \in Machines, NodeStep(m)
       PROVE  FilesRun'
  <2>1. DataKept
    BY <1>12 DEF NodeStep, NodeBoots, NodeInstalls, NodeJoins, NodeRegisters, DataKept, Inv,
       TypeOK, NodeTypes
  <2>2. UNCHANGED <<talosconfig, secrets, kubeconfig, torn, pc, cur, upVars>>
    BY <1>12 DEF NodeStep, NodeBoots, NodeInstalls, NodeJoins, NodeRegisters
  <2> QED
    BY <2>1, <2>2, QuietFilesRun
<1>13. ASSUME NEW ms, Halt(ms)
       PROVE  FilesRun'
  BY <1>13, QuietFilesRun DEF Halt, DataKept
<1>14. CASE UNCHANGED vars
  BY <1>14, QuietFilesRun DEF vars, DataKept
<1>15. CASE Next
  BY <1>3, <1>4, <1>5, <1>6, <1>7, <1>8, <1>9, <1>10, <1>11, <1>12, <1>13, <1>15, OptionsFiles,
     ReadFiles, GenerateFiles, RemoveFilesRun, WriteFilesRun, InstalledFiles, FetchFiles
     DEF Next, UpStep, VMStops, PowerCut
<1> QED
  BY <1>14, <1>15

-----------------------------------------------------------------------------
(* Destroy. *)

LEMMA AllJoinersClosed ==
  ASSUME NEW m \in Machines, NEW k \in AllJoinersOf(m) \cup {m}
  PROVE  JoinersOf(k) \subseteq AllJoinersOf(m)
<1> SUFFICES ASSUME NEW i \in JoinersOf(k), NEW S \in SUBSET Machines,
                    \A l \in S \cup {m} : JoinersOf(l) \subseteq S
             PROVE  i \in S
  BY DEF AllJoinersOf, JoinersOf
<1>1. k \in S \cup {m}
  BY DEF AllJoinersOf
<1> QED
  BY <1>1

LEMMA AllJoinersLinked ==
  ASSUME NEW m \in Machines, NEW j \in AllJoinersOf(m)
  PROVE  Joins[j] \in AllJoinersOf(m) \cup {m}
<1> DEFINE S == {i \in AllJoinersOf(m) : Joins[i] \in AllJoinersOf(m) \cup {m}}
<1>1. S \in SUBSET Machines
  BY DEF AllJoinersOf
<1>2. ASSUME NEW k \in S \cup {m}, NEW i \in JoinersOf(k)
      PROVE  i \in S
  <2>1. k \in AllJoinersOf(m) \cup {m} /\ Joins[i] = k
    BY <1>2 DEF JoinersOf
  <2>2. i \in AllJoinersOf(m)
    BY <1>2, <2>1, AllJoinersClosed
  <2> QED
    BY <2>1, <2>2
<1>3. \A k \in S \cup {m} : JoinersOf(k) \subseteq S
  BY <1>2
<1> HIDE DEF S
<1>4. j \in S
  BY <1>1, <1>3 DEF AllJoinersOf
<1> QED
  BY <1>4 DEF S

LEMMA AllJoinersNone ==
  ASSUME NEW m \in Machines, JoinersOf(m) = {}
  PROVE  AllJoinersOf(m) = {}
<1>1. \A k \in {} \cup {m} : JoinersOf(k) \subseteq {}
  OBVIOUS
<1>2. {} \in SUBSET Machines
  OBVIOUS
<1> QED
  BY <1>1, <1>2 DEF AllJoinersOf

WithoutForce == DestroyFlags \subseteq {"none", "joiners"}

LEMMA DestroyBeginKeeps ==
  ASSUME WithoutForce, DestroyInv, NEW m \in Machines, NEW f \in DestroyFlags, DestroyBegin(m, f)
  PROVE  DestroyInv'
<1>1. f \in {"none", "joiners"} /\ UNCHANGED record
  BY DEF WithoutForce, DestroyBegin, dirVars
<1>2. \A k : JoinersOf(k)' = JoinersOf(k)
  BY <1>1 DEF JoinersOf
<1>3. CASE JoinersOf(m) # {} /\ f = "none"
  BY <1>3 DEF DestroyBegin, DestroyInv, DestroySteps
<1>4. CASE ~(JoinersOf(m) # {} /\ f = "none")
  <2>1. /\ pc' = "next" /\ cur' = m /\ flags' = f
        /\ whole' => Creator(m) /\ f # "none"
        /\ doomed' = {m} \cup (IF f = "joiners" THEN AllJoinersOf(m) ELSE {})
    BY <1>1, <1>4 DEF DestroyBegin, WithJoiners, Creator
  <2>2. \A k \in doomed' : JoinersOf(k) \subseteq doomed'
    BY <1>1, <1>4, <2>1, AllJoinersClosed
  <2>3. \A k \in doomed' \ {m} : Joins[k] \in doomed'
    BY <2>1, AllJoinersLinked
  <2> QED
    BY <1>1, <1>2, <2>1, <2>2, <2>3 DEF DestroyInv, DestroySteps, Creator
<1> QED
  BY <1>3, <1>4

LEMMA DestroyNextKeeps ==
  ASSUME DestroyInv, NEW j \in Machines, DestroyNext(j)
  PROVE  DestroyInv'
<1>1. /\ pc = "next" /\ j \in doomed /\ item' = j
      /\ \A k \in doomed \ {j} : Joins[k] # j
      /\ UNCHANGED <<record, talosconfig, cur, flags, whole, doomed>>
      /\ pc' = IF Leaves(j) THEN "leave" ELSE "sweep"
  BY DEF DestroyNext, Goto, dirVars
<1>2. \A k : JoinersOf(k)' = JoinersOf(k)
  BY <1>1 DEF JoinersOf
<1>3. JoinersOf(j) = {}
  BY <1>1 DEF DestroyInv, DestroySteps, JoinersOf
<1>4. Leaves(j)' = Leaves(j)
  BY <1>1 DEF Leaves
<1> QED
  BY <1>1, <1>2, <1>3, <1>4 DEF DestroyInv, DestroySteps, Creator

\* What a destroy knows stays as long as its records and the machine's fate do.
LEMMA DestroyFrameKeeps ==
  ASSUME DestroyInv, UNCHANGED <<record, talosconfig, pc, cur, destroyVars>>,
         pc = "deleteNode" \/ (pc = "sweep" /\ Leaves(item)) => Gone(item)'
  PROVE  DestroyInv'
<1>1. \A k : JoinersOf(k)' = JoinersOf(k)
  BY DEF JoinersOf
<1>2. Leaves(item)' = Leaves(item)
  BY DEF Leaves, destroyVars
<1> QED
  BY <1>1, <1>2 DEF DestroyInv, destroyVars, Creator

\* Outside a destroy there is nothing to know.
LEMMA NoDestroy ==
  ASSUME DestroyInv, pc' \notin DestroySteps, flags' \in {flags, "none"}
  PROVE  DestroyInv'
BY DEF DestroyInv, DestroySteps

\* Who is out of etcd stays out, whatever its VM does.
LEMMA GoneStays ==
  ASSUME Inv, NodesOK, Gone(item),
         \/ \E m \in Machines : NodeStep(m) \/ VMStops(m)
         \/ PowerCut
  PROVE  Gone(item)'
<1>1. item \in Machines
  BY DEF Inv, TypeOK, DestroyTypes
<1>2. ASSUME NEW m \in Machines, NodeStep(m)
      PROVE  Gone(item)'
  <2>1. UNCHANGED <<talosconfig, vm, item>>
    BY <1>2 DEF NodeStep, NodeBoots, NodeInstalls, NodeJoins, NodeRegisters, dirVars, nodeVars,
       destroyVars
  <2>2. CASE NodeBoots(m)
    BY <1>1, <2>1, <2>2 DEF NodeBoots, MayBoot, Gone, clusterVars, Inv, TypeOK, NodeTypes
  <2>3. CASE NodeInstalls(m)
    BY <1>1, <2>1, <2>3 DEF NodeInstalls, MayInstall, Gone, clusterVars, Inv, TypeOK, NodeTypes
  <2>4. CASE NodeJoins(m)
    <3>1. m # item
      BY <2>4 DEF NodeJoins, MayJoin, Gone, NodesOK
    <3> QED
      BY SMT, <1>1, <2>1, <2>4, <3>1 DEF NodeJoins, Gone, Inv, TypeOK, NodeTypes, ClusterTypes
  <2>5. CASE NodeRegisters(m)
    BY <2>1, <2>5 DEF NodeRegisters, Gone, nodeVars
  <2> QED
    BY <1>2, <2>2, <2>3, <2>4, <2>5 DEF NodeStep
<1>3. ASSUME NEW ms, Halt(ms)
      PROVE  Gone(item)'
  BY <1>1, <1>3 DEF Halt, Gone, clusterVars, dirVars, destroyVars, Inv, TypeOK, NodeTypes
<1> QED
  BY <1>2, <1>3 DEF VMStops, PowerCut

\* Whoever left is out.
LEMMA LeftIsGone ==
  ASSUME Inv, LeaveEtcd, UNCHANGED item
  PROVE  Gone(item)'
<1>1. item \in Machines /\ UNCHANGED <<talosconfig, vm, stage>>
  BY DEF LeaveEtcd, dirVars, Inv, TypeOK, DestroyTypes
<1>2. talosconfig[item] \in Bundles
  BY <1>1 DEF LeaveEtcd, CanLeave, CanRemove, Serves, TalosAnswers, Inv, TypeOK, DirTypes, Files
<1>3. item \notin members'[talosconfig[item]]
  BY <1>2 DEF LeaveEtcd, Inv, TypeOK, ClusterTypes
<1>4. vm[item] = "running" => stage[item] = "serving" /\ etcd'[item] = "left"
  BY <1>1 DEF LeaveEtcd, CanLeave, CanRemove, TalosAnswers, Inv, TypeOK, NodeTypes
<1> QED
  BY <1>1, <1>3, <1>4 DEF Gone

LEMMA LeaveKeeps ==
  ASSUME Inv, DestroyInv, LeaveEtcd
  PROVE  DestroyInv'
<1>1. CASE pc' = "deleteNode"
  <2>1. /\ UNCHANGED <<record, talosconfig, vm, stage, cur, destroyVars>>
        /\ pc = "leave" /\ item \in Machines
    BY <1>1 DEF LeaveEtcd, End, Goto, dirVars, Inv, TypeOK, DestroyTypes
  <2>2. Leaves(item) /\ Leaves(item)' = Leaves(item)
    BY <2>1 DEF DestroyInv, Leaves, destroyVars
  <2>3. Gone(item)'
    BY <2>1, LeftIsGone DEF destroyVars
  <2>4. \A k : JoinersOf(k)' = JoinersOf(k)
    BY <2>1 DEF JoinersOf
  <2> QED
    BY <1>1, <2>1, <2>2, <2>3, <2>4 DEF DestroyInv, destroyVars, DestroySteps, Creator
<1>2. CASE pc' # "deleteNode"
  BY <1>2, NoDestroy DEF LeaveEtcd, Goto, End, DestroySteps
<1> QED
  BY <1>1, <1>2

LEMMA DeleteNodeKeeps ==
  ASSUME Inv, DestroyInv, DeleteNode
  PROVE  DestroyInv'
<1>1. /\ UNCHANGED <<record, talosconfig, vm, stage, etcd, members, cur, destroyVars>>
      /\ pc = "deleteNode" /\ pc' = "sweep"
  BY DEF DeleteNode, Goto, dirVars, nodeVars
<1>2. Gone(item)'
  BY <1>1 DEF DestroyInv, Gone, destroyVars
<1>3. \A k : JoinersOf(k)' = JoinersOf(k)
  BY <1>1 DEF JoinersOf
<1> QED
  BY <1>1, <1>2, <1>3 DEF DestroyInv, destroyVars, DestroySteps, Creator

\* The machine of the file goes last.
LEMMA CurLast ==
  ASSUME Inv, DestroyInv, pc = "sweep", item = cur
  PROVE  doomed = {item}
<1> DEFINE T == doomed \ {cur}
<1>1. T # {} => \E m \in T : Joins[m] \notin T
  BY JoinsAssumption DEF Inv, TypeOK, DestroyTypes
<1>2. \A m \in T : Joins[m] \in T
  BY DEF DestroyInv, DestroySteps
<1> QED
  BY <1>1, <1>2 DEF DestroyInv

LEMMA SweepKeepsDestroy ==
  ASSUME Inv, DestroyInv, Sweep
  PROVE  DestroyInv'
<1>1. CASE doomed = {item}
  BY <1>1, NoDestroy DEF Sweep, End, DestroySteps
<1>2. CASE doomed # {item}
  <2>1. item # cur /\ item \in Machines
    BY <1>2, CurLast DEF Sweep, Inv, TypeOK, DestroyTypes
  <2>2. /\ Remains(item, {})
        /\ doomed' = doomed \ {item} /\ pc' = "next" /\ UNCHANGED <<cur, flags, whole>>
    BY <1>2, <2>1 DEF Sweep, NothingToSweep, Wipe, Goto
  <2>3. \A k : JoinersOf(k)' \subseteq JoinersOf(k) \ {item}
    <3>1. ~record'[item] /\ \A m \in Machines \ {item} : record'[m] = record[m]
      BY <2>2, Remaining
    <3> QED
      BY <3>1 DEF JoinersOf
  <2>4. /\ \A k \in doomed : JoinersOf(k) \subseteq doomed
        /\ \A k \in doomed \ {cur} : Joins[k] \in doomed
        /\ whole => Creator(cur) /\ flags # "none"
        /\ \A k \in doomed \ {item} : Joins[k] # item
        /\ flags \in {"none", "joiners"}
    BY DEF Sweep, DestroyInv, DestroySteps
  <2>5. \A k \in doomed' : JoinersOf(k)' \subseteq doomed'
    BY <2>2, <2>3, <2>4
  <2>6. \A k \in doomed' \ {cur} : Joins[k] \in doomed'
    BY <2>2, <2>4
  <2> QED
    BY <2>2, <2>4, <2>5, <2>6 DEF DestroyInv, DestroySteps, Creator
<1> QED
  BY <1>1, <1>2

LEMMA DestroyInvStep ==
  ASSUME WithoutForce, Inv, NodesOK, DestroyInv, [Next]_vars
  PROVE  DestroyInv'
<1> USE DEF dirVars, nodeVars
<1>1. ASSUME NEW r, End(r)
      PROVE  DestroyInv'
  BY <1>1, NoDestroy DEF End, DestroySteps
<1>2. ASSUME NEW m \in Machines, UpBegin(m)
      PROVE  DestroyInv'
  BY <1>2, NoDestroy DEF UpBegin, DestroySteps
<1>3. CASE UpOptions \/ Boot \/ BootFails \/ ReadTalosconfig \/ Generate \/ WriteArtifact
           \/ (\E f \in Artifacts \cup {"kubeconfig"} : RemoveArtifact(f))
  BY <1>1, <1>3, NoDestroy DEF UpOptions, Boot, BootFails, ReadTalosconfig, Generate,
     WriteArtifact, RemoveArtifact, Goto, destroyVars, DestroySteps
<1>4. CASE UpRefused \/ StepFails \/ BootstrapFails \/ InstallStorage \/ TinqKilled \/ SweepFails
  BY <1>1, <1>4 DEF UpRefused, StepFails, BootstrapFails, InstallStorage, TinqKilled, SweepFails,
     Stay
<1>5. CASE WaitMaintenance \/ Apply \/ WaitInstalled \/ Bootstrap \/ AlreadyBootstrapped
           \/ FetchKubeconfig \/ WaitReady
  BY <1>1, <1>5, NoDestroy DEF WaitMaintenance, Apply, WaitInstalled, Bootstrap,
     AlreadyBootstrapped, FetchKubeconfig, WaitReady, Stay, Goto, destroyVars, DestroySteps
<1>6. CASE LeaveFails
  BY <1>1, <1>6 DEF LeaveFails, Forced, DestroyInv, Stay
<1>8. ASSUME NEW m \in Machines, NodeStep(m)
      PROVE  DestroyInv'
  <2>1. UNCHANGED <<record, talosconfig, pc, cur, destroyVars>>
    BY <1>8 DEF NodeStep, NodeBoots, NodeInstalls, NodeJoins, NodeRegisters
  <2> QED
    BY <1>8, <2>1, GoneStays, DestroyFrameKeeps DEF DestroyInv
<1>9. CASE PowerCut \/ \E m \in Machines : VMStops(m)
  <2>1. UNCHANGED <<record, talosconfig, pc, cur, destroyVars>>
    BY <1>9 DEF PowerCut, VMStops, Halt
  <2> QED
    BY <1>9, <2>1, GoneStays, DestroyFrameKeeps DEF DestroyInv
<1>10. CASE UNCHANGED vars
  <2>1. Gone(item)' = Gone(item)
    BY <1>10 DEF vars, Gone, clusterVars, destroyVars
  <2> QED
    BY <1>10, <2>1, DestroyFrameKeeps DEF vars, DestroyInv
<1>11. CASE Next
  BY <1>2, <1>3, <1>4, <1>5, <1>6, <1>8, <1>9, <1>11, DestroyBeginKeeps, DestroyNextKeeps,
     LeaveKeeps, DeleteNodeKeeps, SweepKeepsDestroy
     DEF Next, UpStep, DestroyStep
<1> QED
  BY <1>10, <1>11

-----------------------------------------------------------------------------
(* Members. *)

\* Nobody has the bundle of a creator that nobody joined, in an intact cluster.
LEMMA LastOfCluster ==
  ASSUME Inv, NodesOK, FilesInv, NEW c \in Machines, Creator(c), JoinersOf(c) = {},
         NEW b, b # NoBundle, secrets[c] = b, Spared(b, torn)
  PROVE  \A m \in Machines \ {c} : secrets[m] # b
<1> DEFINE T == {m \in Machines \ {c} : secrets[m] = b}
<1> SUFFICES ASSUME T # {}
             PROVE  FALSE
  OBVIOUS
<1>1. PICK m \in T : Joins[m] \notin T
  BY JoinsAssumption
<1>2. ~Creator(m)
  BY <1>1 DEF FilesInv
<1>3. Joins[m] = c
  BY <1>1, <1>2, JoinsAnother DEF FilesInv, Settled
<1>4. m \in JoinersOf(c)
  BY <1>1, <1>3 DEF NodesOK, JoinersOf
<1> QED
  BY <1>4

\* Every etcd keeps the data it has, and its bundle.
DataSame ==
  \A m \in Machines : /\ etcd'[m] = "data" <=> etcd[m] = "data"
                      /\ etcd[m] = "data" => pki'[m] = pki[m]

\* Nothing happens to any etcd.
Quiet == DataSame /\ UNCHANGED <<members, excused, boots>> /\ torn \subseteq torn'

LEMMA MembersFrame ==
  ASSUME MembersInv, NoGhostVoter, ClusterTypes, Quiet
  PROVE  MembersInv' /\ NoGhostVoter'
<1> USE DEF Quiet
<1>1. MembersInv'
  BY DEF MembersInv, DataSame, Creator
<1>2. ASSUME NEW b \in Bundles, Spared(b, torn'), NEW m \in members[b]
      PROVE  (pki'[m] = b /\ etcd'[m] = "data") \/ <<b, m>> \in excused
  <2>1. m \in Machines /\ Spared(b, torn)
    BY <1>2, SparedBefore DEF ClusterTypes
  <2> QED
    BY <1>2, <2>1 DEF NoGhostVoter, DataSame
<1>3. NoGhostVoter'
  BY <1>2 DEF NoGhostVoter
<1> QED
  BY <1>1, <1>3

LEMMA BootstrapMembers ==
  ASSUME Inv, NodesOK, MembersInv, NoGhostVoter, Bootstrap
  PROVE  MembersInv' /\ NoGhostVoter'
<1>1. cur \in Machines /\ pki[cur] = conf /\ conf \in Bundles
  BY DEF Bootstrap, TalosAnswers, Inv, TypeOK, UpTypes
<1>2. /\ UNCHANGED <<pki, excused, torn>>
      /\ etcd'[cur] = "data" /\ \A m \in Machines \ {cur} : etcd'[m] = etcd[m]
  BY <1>1 DEF Bootstrap, Inv, TypeOK, NodeTypes
<1>3. /\ members'[conf] = members[conf] \cup {cur}
      /\ \A b \in Bundles \ {conf} : members'[b] = members[b]
  BY <1>1 DEF Bootstrap, Inv, TypeOK, ClusterTypes
<1>4. boots'[conf] # 0 /\ \A b \in Bundles \ {conf} : boots'[b] = boots[b]
  BY <1>1 DEF Bootstrap, Inv, TypeOK, ClusterTypes
<1>5. \A m \in Machines : Creator(m) /\ etcd'[m] = "data" => m \in members'[pki'[m]]
  <2>1. SUFFICES ASSUME NEW m \in Machines, Creator(m), etcd'[m] = "data"
                 PROVE  m \in members'[pki[m]]
    BY <1>2
  <2>2. m # cur => m \in members[pki[m]] /\ pki[m] \in Bundles
    BY <1>2, <2>1 DEF MembersInv, NodesOK, Inv, TypeOK, NodeTypes, Files
  <2> QED
    BY <1>1, <1>3, <2>2
<1>6. MembersInv'
  <2>1. \A b \in Bundles : members'[b] # {} => \E c \in members'[b] : Creator(c)
    BY <1>3 DEF MembersInv, Bootstrap, Inv, RunInv
  <2> QED
    BY <1>3, <1>4, <1>5, <2>1 DEF MembersInv, Creator
<1>7. ASSUME NEW b \in Bundles, Spared(b, torn), NEW n \in members'[b]
      PROVE  (pki'[n] = b /\ etcd'[n] = "data") \/ <<b, n>> \in excused'
  <2>1. n \in members[b] => n \in Machines
    BY DEF Inv, TypeOK, ClusterTypes
  <2>2. n = cur \/ n \in members[b]
    BY <1>3, <1>7
  <2>3. n \in members[b] => (pki[n] = b /\ etcd[n] = "data") \/ <<b, n>> \in excused
    BY <1>7 DEF NoGhostVoter
  <2> QED
    BY <1>1, <1>2, <1>3, <1>7, <2>1, <2>2, <2>3
<1>8. NoGhostVoter'
  BY <1>2, <1>7 DEF NoGhostVoter
<1> QED
  BY <1>6, <1>8

LEMMA JoinMembers ==
  ASSUME Inv, NodesOK, MembersInv, NoGhostVoter, NEW m \in Machines, NodeJoins(m)
  PROVE  MembersInv' /\ NoGhostVoter'
<1>1. pki[m] \in Bundles /\ members[pki[m]] # {}
  BY DEF NodeJoins, MayJoin, NodesOK, Inv, TypeOK, NodeTypes, Files
<1>2. /\ UNCHANGED <<pki, excused, boots, torn>>
      /\ etcd'[m] = "data" /\ \A n \in Machines \ {m} : etcd'[n] = etcd[n]
  BY DEF NodeJoins, Inv, TypeOK, NodeTypes
<1>3. /\ members'[pki[m]] = members[pki[m]] \cup {m}
      /\ \A b \in Bundles \ {pki[m]} : members'[b] = members[b]
  BY <1>1 DEF NodeJoins, Inv, TypeOK, ClusterTypes
<1>4. \A n \in Machines : Creator(n) /\ etcd'[n] = "data" => n \in members'[pki'[n]]
  <2>1. SUFFICES ASSUME NEW n \in Machines, Creator(n), etcd'[n] = "data"
                 PROVE  n \in members'[pki[n]]
    BY <1>2
  <2>2. n # m => n \in members[pki[n]] /\ pki[n] \in Bundles
    BY SMT, <1>2, <2>1 DEF MembersInv, NodesOK, Inv, TypeOK, NodeTypes, Files
  <2> QED
    BY <1>1, <1>3, <2>2
<1>5. MembersInv'
  <2>1. \A b \in Bundles : members'[b] # {} => \E c \in members'[b] : Creator(c)
    BY <1>1, <1>3 DEF MembersInv
  <2> QED
    BY <1>1, <1>2, <1>3, <1>4, <2>1 DEF MembersInv, Creator
<1>6. ASSUME NEW b \in Bundles, Spared(b, torn), NEW n \in members'[b]
      PROVE  (pki'[n] = b /\ etcd'[n] = "data") \/ <<b, n>> \in excused'
  <2>1. n \in members[b] => n \in Machines
    BY DEF Inv, TypeOK, ClusterTypes
  <2>2. (n = m /\ b = pki[m]) \/ n \in members[b]
    BY <1>3, <1>6
  <2>3. n \in members[b] => (pki[n] = b /\ etcd[n] = "data") \/ <<b, n>> \in excused
    BY <1>6 DEF NoGhostVoter
  <2> QED
    BY <1>1, <1>2, <2>1, <2>2, <2>3
<1>7. NoGhostVoter'
  BY <1>2, <1>6 DEF NoGhostVoter
<1> QED
  BY <1>5, <1>7

LEMMA LeaveMembers ==
  ASSUME Inv, MembersInv, NoGhostVoter, LeaveEtcd
  PROVE  MembersInv' /\ NoGhostVoter'
<1> DEFINE tc == talosconfig[item]
<1>1. item \in Machines /\ tc \in Bundles /\ ~Creator(item)
  BY DEF LeaveEtcd, CanLeave, CanRemove, Serves, TalosAnswers, Inv, RunInv, TypeOK, DirTypes,
     DestroyTypes, Files
<1>2. /\ UNCHANGED <<pki, excused, boots, torn>>
      /\ \A m \in Machines \ {item} : etcd'[m] = etcd[m]
      /\ etcd'[item] # etcd[item] => pki[item] = tc
  BY <1>1 DEF LeaveEtcd, CanLeave, CanRemove, TalosAnswers, Inv, TypeOK, NodeTypes
<1>3. /\ members'[tc] = members[tc] \ {item}
      /\ \A b \in Bundles \ {tc} : members'[b] = members[b]
  BY <1>1 DEF LeaveEtcd, Inv, TypeOK, ClusterTypes
<1>4. \A m \in Machines : Creator(m) => m # item /\ \A b : m \in members[b] => m \in members'[b]
  BY <1>1 DEF LeaveEtcd, Inv, TypeOK, ClusterTypes
<1> HIDE DEF tc
<1>5. MembersInv'
  <2>1. \A b \in Bundles : members'[b] # {} => \E c \in members'[b] : Creator(c)
    BY <1>1, <1>3 DEF MembersInv
  <2> QED
    BY <1>1, <1>2, <1>3, <1>4, <2>1 DEF MembersInv, Creator
<1>6. ASSUME NEW b \in Bundles, Spared(b, torn), NEW n, n \in members'[b]
      PROVE  (pki'[n] = b /\ etcd'[n] = "data") \/ <<b, n>> \in excused'
  <2>1. n \in members[b] /\ (b = tc => n # item)
    BY <1>3, <1>6
  <2>2. n \in Machines /\ ((pki[n] = b /\ etcd[n] = "data") \/ <<b, n>> \in excused)
    BY <1>6, <2>1 DEF NoGhostVoter, Inv, TypeOK, ClusterTypes
  <2> QED
    BY <1>2, <2>1, <2>2
<1>7. NoGhostVoter'
  <2>1. \A b \in Bundles : Spared(b, torn') => \A n :
           n \in members'[b] => (pki'[n] = b /\ etcd'[n] = "data") \/ <<b, n>> \in excused'
    BY <1>2, <1>6
  <2> QED
    BY <2>1, Zenon DEF NoGhostVoter
<1> QED
  BY <1>5, <1>7

\* The data of a member goes only when it has left, when the operator gave its
\* vote or its cluster up, or when there is nobody else.
SweepAsked ==
  \A b \in Bundles :
    pc = "sweep" /\ Intact(b) /\ item \in members[b] /\ pki[item] = b /\ Outlives(b) =>
      <<b, item>> \in excused \cup Asked

LEMMA SweepIsAsked ==
  ASSUME Inv, NodesOK, FilesInv, DestroyInv
  PROVE  SweepAsked
<1> SUFFICES ASSUME pc = "sweep",
                    NEW b \in Bundles, Spared(b, torn), item \in members[b], pki[item] = b, Outlives(b)
             PROVE  <<b, item>> \in Asked
  BY DEF SweepAsked
<1>1. item \in Machines /\ b # NoBundle
  BY ClusterAssumption DEF Inv, TypeOK, DestroyTypes
<1>2. talosconfig[item] = b /\ secrets[item] = b
  BY <1>1, HeldFiles
<1>3. ~Leaves(item)
  BY <1>2 DEF DestroyInv, Gone
<1>4. CASE item # cur
  BY <1>1, <1>2, <1>3, <1>4 DEF Leaves, DestroyInv, DestroySteps, Asked, Creator
<1>5. CASE item = cur
  <2>1. Creator(item)
    BY <1>1, <1>2, <1>3, <1>5 DEF Leaves, Creator
  <2>2. CASE flags # "none"
    BY <1>5, <2>1, <2>2 DEF Asked, Creator
  <2>3. CASE flags = "none"
    <3>1. \A m \in Machines \ {item} : secrets[m] # b
      BY <1>1, <1>2, <2>1, LastOfCluster DEF DestroyInv
    <3>2. PICK m \in Machines \ {item} : pki[m] = b
      BY DEF Outlives
    <3> QED
      BY <1>1, <3>1, <3>2, HeldFiles
  <2> QED
    BY <2>2, <2>3
<1> QED
  BY <1>4, <1>5

\* The data of item goes, and with it its vote in an intact cluster if need be.
MemberGoes ==
  /\ DiskGoes /\ UNCHANGED boots /\ torn \subseteq torn'
  /\ \A m \in Machines \ {item} : pki'[m] = pki[m] /\ etcd'[m] = etcd[m]
  /\ etcd'[item] # "data"
  /\ \A b \in Bundles :
       Spared(b, torn') /\ item \in members[b] /\ pki[item] = b /\ Outlives(b) =>
         <<b, item>> \in excused \cup Asked

LEMMA SweepGoes ==
  ASSUME Inv, NodesOK, SweepAsked, Sweep
  PROVE  MemberGoes
<1>1. item \in Machines /\ DiskGoes /\ UNCHANGED <<boots, torn>> /\ pc = "sweep"
  BY DEF Sweep, Inv, TypeOK, DestroyTypes
<1>2. /\ \A m \in Machines \ {item} : pki'[m] = pki[m] /\ etcd'[m] = etcd[m]
      /\ etcd'[item] # "data"
  <2>1. CASE NothingToSweep
    BY <1>1, <2>1 DEF Sweep, NothingToSweep, nodeVars, NodesOK
  <2>2. CASE ~NothingToSweep
    BY <2>2, Remaining DEF Sweep, Wipe
  <2> QED
    BY <2>1, <2>2
<1> QED
  BY <1>1, <1>2 DEF MemberGoes, SweepAsked

\* A removal that stops part-way leaves the data or tears its cluster.
LEMMA SweepFailsGoes ==
  ASSUME Inv, NodesOK, SweepFails
  PROVE  MemberGoes \/ Quiet
<1>1. PICK left :
        /\ Tears(left) /\ (left # {} \/ \A b \in BundlesOf(item) : ~Spared(b, torn'))
        /\ IF "disk" \in left THEN UNCHANGED <<members, nodes, excused>> ELSE DiskGoes
  BY SweepFailsTears
<1>2. /\ item \in Machines /\ UNCHANGED boots /\ torn \subseteq torn' /\ Remains(item, left)
      /\ NoBundle \notin Bundles
  BY <1>1, ClusterAssumption DEF Tears, SweepFails, Inv, TypeOK, DestroyTypes
<1>3. \A m \in Machines \ {item} : pki'[m] = pki[m] /\ etcd'[m] = etcd[m]
  BY <1>2, Remaining
<1>4. CASE "disk" \in left
  <2>1. etcd'[item] = etcd[item] /\ (etcd[item] = "data" => pki'[item] = pki[item])
    BY <1>2, <1>4, Remaining DEF NodesOK
  <2> QED
    BY <1>1, <1>2, <1>3, <1>4, <2>1 DEF Quiet, DataSame
<1>5. CASE "disk" \notin left
  <2>1. etcd'[item] # "data"
    BY <1>2, <1>5, Remaining
  <2>2. \A b \in Bundles : pki[item] = b => ~Spared(b, torn')
    <3>1. left # Contents
      BY <1>5 DEF Contents
    <3> QED
      BY <1>1, <1>2, <3>1 DEF Tears, BundlesOf
  <2> QED
    BY <1>1, <1>2, <1>3, <1>5, <2>1, <2>2 DEF MemberGoes
<1> QED
  BY <1>4, <1>5

LEMMA GoneMembers ==
  ASSUME Inv, NodesOK, MembersInv, NoGhostVoter, MemberGoes
  PROVE  MembersInv' /\ NoGhostVoter'
<1>1. item \in Machines
  BY DEF Inv, TypeOK, DestroyTypes
<1>2. /\ \A m \in Machines \ {item} : pki'[m] = pki[m] /\ etcd'[m] = etcd[m]
      /\ etcd'[item] # "data"
  BY DEF MemberGoes
<1>3. \A b \in Bundles : members'[b] = IF Outlives(b) THEN members[b] ELSE {}
  BY DEF MemberGoes, DiskGoes
<1>4. ASSUME NEW b \in Bundles, NEW n, Outlives(b), <<b, n>> \in excused \cup Asked
      PROVE  <<b, n>> \in excused'
  BY <1>4 DEF MemberGoes, DiskGoes
<1>5. MembersInv'
  <2>1. ASSUME NEW b \in Bundles, boots'[b] = 0
        PROVE  members'[b] = {}
    BY <1>3, <2>1 DEF MemberGoes, MembersInv
  <2>2. ASSUME NEW m \in Machines, Creator(m), etcd'[m] = "data"
        PROVE  m \in members'[pki'[m]]
    <3>1. m # item /\ etcd[m] = "data" /\ pki'[m] = pki[m]
      BY <1>2, <2>2
    <3>2. pki[m] \in Bundles /\ m \in members[pki[m]]
      BY SMT, <2>2, <3>1 DEF NodesOK, MembersInv, Inv, TypeOK, NodeTypes, Files
    <3>3. Outlives(pki[m])
      BY <3>1 DEF Outlives
    <3> QED
      BY <1>3, <3>1, <3>2, <3>3
  <2>3. \A b \in Bundles : members'[b] # {} => \E c \in members'[b] : Creator(c)
    BY <1>3 DEF MembersInv
  <2> QED
    BY <2>1, <2>2, <2>3 DEF MembersInv, Creator
<1>6. ASSUME NEW b \in Bundles, Spared(b, torn'), NEW n, n \in members'[b]
      PROVE  (pki'[n] = b /\ etcd'[n] = "data") \/ <<b, n>> \in excused'
  <2>1. Outlives(b) /\ n \in members[b] /\ Spared(b, torn)
    BY <1>3, <1>6, SparedBefore DEF MemberGoes
  <2>2. n \in Machines /\ ((pki[n] = b /\ etcd[n] = "data") \/ <<b, n>> \in excused)
    BY <2>1 DEF NoGhostVoter, Inv, TypeOK, ClusterTypes
  <2>3. CASE <<b, n>> \in excused
    BY <1>4, <2>1, <2>3
  <2>4. CASE n # item /\ pki[n] = b /\ etcd[n] = "data"
    BY <1>2, <2>2, <2>4
  <2>5. CASE n = item /\ pki[n] = b
    BY <1>4, <1>6, <2>1, <2>5 DEF MemberGoes
  <2> QED
    BY <2>2, <2>3, <2>4, <2>5
<1>7. NoGhostVoter'
  <2>1. \A b \in Bundles : Spared(b, torn') => \A n :
           n \in members'[b] => (pki'[n] = b /\ etcd'[n] = "data") \/ <<b, n>> \in excused'
    BY <1>6
  <2> QED
    BY <2>1, Zenon DEF NoGhostVoter
<1> QED
  BY <1>5, <1>7

\* A destroy that was asked to goes on without the member's leave.
GivesUpVote == LeaveFails /\ Forced

LEMMA GivesUpMembers ==
  ASSUME MembersInv, NoGhostVoter, GivesUpVote
  PROVE  MembersInv' /\ NoGhostVoter'
<1>1. UNCHANGED <<pki, etcd, members, boots, torn>> /\ excused \subseteq excused'
  BY DEF GivesUpVote, LeaveFails, nodeVars
<1> QED
  BY <1>1 DEF MembersInv, NoGhostVoter, Creator

\* Only six actions have to do with a member list, or with the data of one.
Bystanding ==
  /\ ~Bootstrap /\ ~LeaveEtcd /\ ~GivesUpVote /\ ~Sweep /\ ~SweepFails
  /\ \A m \in Machines : ~NodeJoins(m)

LEMMA Bystanders ==
  ASSUME Inv, NodesOK, [Next]_vars, Bystanding
  PROVE  Quiet
<1> USE DEF nodeVars, clusterVars, Quiet
<1>1. ASSUME UNCHANGED <<pki, etcd, members, excused, boots, torn>>
      PROVE  Quiet
  BY <1>1 DEF DataSame
<1>2. cur \in Machines /\ item \in Machines
  BY DEF Inv, TypeOK, DestroyTypes
<1>3. CASE UpOptions \/ UpRefused \/ Boot \/ BootFails \/ ReadTalosconfig \/ WaitMaintenance
           \/ Generate
  BY <1>1, <1>3 DEF UpOptions, UpRefused, Boot, BootFails, ReadTalosconfig, WaitMaintenance,
     Generate, Stay
<1>4. CASE \/ \E f \in Artifacts \cup {"kubeconfig"} : RemoveArtifact(f)
           \/ WriteArtifact \/ StepFails \/ WaitInstalled \/ AlreadyBootstrapped
           \/ BootstrapFails \/ FetchKubeconfig \/ WaitReady \/ InstallStorage
  BY <1>1, <1>4 DEF RemoveArtifact, WriteArtifact, StepFails, WaitInstalled,
     AlreadyBootstrapped, BootstrapFails, FetchKubeconfig, WaitReady, InstallStorage, Stay
<1>5. CASE Apply
  <2>1. etcd[cur] # "data"
    BY <1>2, <1>5 DEF Apply, Inv, CredentialsInv, FirstRun, NodesOK
  <2> QED
    BY SMT, <1>2, <1>5, <2>1 DEF Apply, DataSame, Inv, TypeOK, NodeTypes
<1>6. CASE TinqKilled \/ DeleteNode \/ (\E j \in Machines : DestroyNext(j))
  BY <1>1, <1>6 DEF TinqKilled, DeleteNode, DestroyNext
<1>7. CASE LeaveFails
  BY <1>1, <1>7 DEF LeaveFails, GivesUpVote, Bystanding, Stay
<1>8. CASE \E m \in Machines : UpBegin(m) \/ \E f \in DestroyFlags : DestroyBegin(m, f)
  BY <1>1, <1>8 DEF UpBegin, DestroyBegin
<1>9. ASSUME NEW m \in Machines, NodeStep(m)
       PROVE  Quiet
  BY <1>9 DEF Bystanding, NodeStep, NodeBoots, NodeInstalls, NodeRegisters, DataSame, Inv, TypeOK, NodeTypes
<1>10. ASSUME NEW ms, Halt(ms)
       PROVE  Quiet
  BY <1>10 DEF Halt, DataSame, NodesOK
<1>11. CASE UNCHANGED vars
  BY <1>1, <1>11 DEF vars
<1>12. CASE PowerCut \/ \E m \in Machines : VMStops(m)
  BY <1>10, <1>12, Zenon DEF VMStops, PowerCut
<1> QED
  BY <1>3, <1>4, <1>5, <1>6, <1>7, <1>8, <1>9, <1>11, <1>12
     DEF Bystanding, Next, UpStep, DestroyStep

LEMMA MembersStep ==
  ASSUME Inv, NodesOK, SweepAsked, MembersInv, NoGhostVoter, [Next]_vars
  PROVE  MembersInv' /\ NoGhostVoter'
<1>1. CASE ~Bystanding
  BY <1>1, BootstrapMembers, LeaveMembers, GivesUpMembers, JoinMembers, SweepGoes, SweepFailsGoes,
     GoneMembers, MembersFrame DEF Bystanding, Inv, TypeOK
<1>2. CASE Bystanding
  BY <1>2, Bystanders, MembersFrame DEF Inv, TypeOK
<1> QED
  BY <1>1, <1>2

-----------------------------------------------------------------------------
(* With any flags, where every joiner joins a creator. *)

NoChains == \A m \in Machines : ~Creator(m) => Creator(Joins[m])

LEMMA ClusterKept ==
  ASSUME UNCHANGED secrets, minted \subseteq minted', NEW b, NEW c, OfCluster(b, c)
  PROVE  OfCluster(b, c)'
BY DEF OfCluster, OwnerOf, Creator

\* The run keeps what it has in hand, or drops it.
LEMMA SecretsFrame ==
  ASSUME SecretsInv, UNCHANGED secrets, minted \subseteq minted',
         ~Creator(cur') /\ pc' \in UpSteps \ {"options"} =>
            pc \in UpSteps \ {"options"} /\ UNCHANGED <<cur, join>>,
         (WritingArtifacts \/ pc = "apply")' =>
            (WritingArtifacts \/ pc = "apply") /\ UNCHANGED <<cur, conf>>
  PROVE  SecretsInv'
BY ClusterKept DEF SecretsInv, OwnerOf, Creator

\* A file is removed or written: secrets of the machine in hand.
LEMMA SecretsWritten ==
  ASSUME Inv, SecretsInv, NEW b \in {NoBundle, conf}, UNCHANGED <<minted, cur, join, conf>>,
         secrets' = [secrets EXCEPT ![cur] = b], WritingArtifacts, WritingArtifacts' \/ pc' = "apply"
  PROVE  SecretsInv'
<1>1. cur \in Machines /\ secrets'[cur] = b
      /\ \A n \in Machines \ {cur} : secrets'[n] = secrets[n]
  BY DEF Inv, TypeOK, DirTypes, Files
<1>2. NoBundle \notin minted
  BY ClusterAssumption DEF Inv, TypeOK, ClusterTypes
<1>3. OfCluster(conf, OwnerOf(cur))
  BY DEF SecretsInv
<1>4. ASSUME NEW e, NEW c, OfCluster(e, c), e = conf => c = OwnerOf(cur)
      PROVE  OfCluster(e, c)'
  BY <1>1, <1>2, <1>4 DEF OfCluster, OwnerOf, Creator
<1>5. OfCluster(conf, OwnerOf(cur))'
  BY <1>3, <1>4 DEF OwnerOf, Creator
<1>6. ASSUME NEW m \in Machines, secrets'[m] # NoBundle
      PROVE  OfCluster(secrets[m], OwnerOf(m))'
  <2>1. CASE m = cur
    BY <1>1, <1>5, <1>6, <2>1
  <2>2. CASE m # cur
    <3>1. secrets'[m] = secrets[m] /\ OfCluster(secrets[m], OwnerOf(m))
      BY <1>1, <1>6, <2>2 DEF SecretsInv
    <3>2. secrets[m] = conf => OwnerOf(m) = OwnerOf(cur)
      BY <1>3 DEF OfCluster
    <3>3. OwnerOf(m)' = OwnerOf(m)
      BY DEF OwnerOf, Creator
    <3> QED
      BY <1>4, <3>1, <3>2, <3>3
  <2> QED
    BY <2>1, <2>2
<1>7. ASSUME ~Creator(cur)
      PROVE  OfCluster(join, OwnerOf(cur))'
  <2>1. OfCluster(join, OwnerOf(cur))
    BY <1>7 DEF SecretsInv, WritingArtifacts, UpSteps
  <2>2. OwnerOf(cur)' = OwnerOf(cur)
    BY DEF OwnerOf, Creator
  <2> QED
    BY <1>4, <2>1, <2>2
<1> QED
  BY <1>5, <1>6, <1>7 DEF SecretsInv, Creator

LEMMA OptionsSecrets ==
  ASSUME NoChains, Inv, SecretsInv, UpOptions
  PROVE  SecretsInv'
<1>1. pc' = "boot" /\ UNCHANGED <<secrets, minted, cur>> /\ cur \in Machines
  BY DEF UpOptions, Goto, dirVars, clusterVars, Inv, TypeOK
<1>2. CASE Creator(cur)
  BY <1>1, <1>2, SecretsFrame DEF WritingArtifacts, Creator
<1>3. CASE ~Creator(cur)
  <2> DEFINE o == Joins[cur]
  <2>1. o \in Machines /\ Creator(o) /\ OwnerOf(cur) = o /\ OwnerOf(o) = o
    BY <1>1, <1>3, JoinsAnother DEF NoChains, OwnerOf
  <2>2. join' = secrets[o] /\ secrets[o] # NoBundle
    BY <1>3 DEF UpOptions, MayJoinOwner, HasArtifacts, Creator
  <2>3. OfCluster(join', o)
    BY <2>1, <2>2 DEF SecretsInv
  <2>4. \A b, c : OfCluster(b, c)' = OfCluster(b, c)
    BY <1>1 DEF OfCluster, OwnerOf, Creator
  <2>5. OfCluster(join, OwnerOf(cur))'
    BY <1>1, <2>1, <2>3 DEF OfCluster, OwnerOf, Creator
  <2>6. \A m \in Machines : secrets'[m] # NoBundle => OfCluster(secrets[m], OwnerOf(m))'
    BY <1>1 DEF SecretsInv, OfCluster, OwnerOf, Creator
  <2>7. ~WritingArtifacts' /\ pc' # "apply"
    BY <1>1 DEF WritingArtifacts
  <2> QED
    BY <2>5, <2>6, <2>7 DEF SecretsInv
<1> QED
  BY <1>2, <1>3

LEMMA GenerateSecrets ==
  ASSUME Inv, SecretsInv, Generate
  PROVE  SecretsInv'
<1>1. UNCHANGED <<secrets, cur, join>> /\ minted \subseteq minted' /\ pc = "generate" /\ pc' = "write"
  BY DEF Generate, Goto, dirVars
<1>2. OfCluster(conf, OwnerOf(cur))'
  <2>1. CASE Creator(cur)
    <3>1. conf' \notin minted /\ conf' \in minted' /\ conf' # NoBundle
      BY <2>1, ClusterAssumption DEF Generate, Creator
    <3>2. \A n \in Machines : secrets[n] # conf'
      BY <3>1 DEF SecretsInv, OfCluster
    <3> QED
      BY <1>1, <3>1, <3>2 DEF OfCluster
  <2>2. CASE ~Creator(cur)
    <3>1. conf' = join /\ OfCluster(join, OwnerOf(cur))
      BY <1>1, <2>2 DEF Generate, SecretsInv, UpSteps, Creator
    <3> QED
      BY <1>1, <3>1 DEF OfCluster, OwnerOf, Creator
  <2> QED
    BY <2>1, <2>2
<1>3. \A m \in Machines : secrets'[m] # NoBundle => OfCluster(secrets[m], OwnerOf(m))'
  BY <1>1 DEF SecretsInv, OfCluster, OwnerOf, Creator
<1>4. ~Creator(cur)' => OfCluster(join, OwnerOf(cur))'
  BY <1>1 DEF SecretsInv, OfCluster, OwnerOf, Creator, UpSteps
<1> QED
  BY <1>2, <1>3, <1>4 DEF SecretsInv

LEMMA FileSecrets ==
  ASSUME Inv, SecretsInv,
         WriteArtifact \/ \E f \in Artifacts \cup {"kubeconfig"} : RemoveArtifact(f)
  PROVE  SecretsInv'
<1>1. PICK f \in Artifacts \cup {"kubeconfig"}, b \in Bundles \cup {NoBundle} :
        /\ Replace(f, b) /\ (f # "kubeconfig" => b \in {NoBundle, conf})
        /\ f \in Artifacts => WritingArtifacts /\ (WritingArtifacts' \/ pc' = "apply")
        /\ f = "kubeconfig" => ~WritingArtifacts' /\ pc' # "apply"
  <2>1. CASE WriteArtifact
    <3>1. file \in Artifacts \cup {"kubeconfig"}
      BY <2>1 DEF WriteArtifact, Inv, RunInv, TypeOK, UpTypes
    <3>2. file = "kubeconfig" => ~WritingArtifacts' /\ pc' # "apply"
      BY <2>1 DEF WriteArtifact, WritingArtifacts, Goto, Inv, RunInv, Artifacts
    <3>3. file \in Artifacts => WritingArtifacts /\ (WritingArtifacts' \/ pc' = "apply")
      BY <2>1 DEF WriteArtifact, WritingArtifacts, Goto, Inv, RunInv, Artifacts, upVars
    <3>4. {kube, conf} \subseteq Bundles \cup {NoBundle}
      BY DEF Inv, TypeOK, UpTypes
    <3> QED
      BY <2>1, <3>1, <3>2, <3>3, <3>4 DEF WriteArtifact, Artifacts
  <2>2. ASSUME NEW f \in Artifacts \cup {"kubeconfig"}, RemoveArtifact(f)
        PROVE  /\ Replace(f, NoBundle)
               /\ f \in Artifacts => WritingArtifacts /\ (WritingArtifacts' \/ pc' = "apply")
               /\ f = "kubeconfig" => ~WritingArtifacts' /\ pc' # "apply"
    BY <2>2 DEF RemoveArtifact, WritingArtifacts, WritingKubeconfig, Goto, Inv, RunInv, Artifacts
  <2> QED
    BY <2>1, <2>2
<1>2. UNCHANGED <<minted, cur, join, conf>> /\ pc \in {"write", "writing"}
  BY DEF WriteArtifact, RemoveArtifact, Goto, clusterVars, upVars
<1>3. CASE f = "secrets"
  BY <1>1, <1>2, <1>3, SecretsWritten DEF Replace, Artifacts
<1>4. CASE f # "secrets"
  BY <1>1, <1>2, <1>4, SecretsFrame DEF Replace, Artifacts, UpSteps
<1> QED
  BY <1>3, <1>4

LEMMA SecretsStep ==
  ASSUME NoChains, Inv, SecretsInv, [Next]_vars
  PROVE  SecretsInv'
<1> USE DEF dirVars, clusterVars, upVars
<1>1. ASSUME UNCHANGED <<secrets, minted>>, pc' \in {"idle", "options"} \cup DestroySteps
      PROVE  SecretsInv'
  BY <1>1, SecretsFrame DEF UpSteps, DestroySteps, WritingArtifacts
<1>2. ASSUME NEW r, End(r), UNCHANGED <<secrets, minted>>
      PROVE  SecretsInv'
  BY <1>1, <1>2 DEF End
<1>3. ASSUME UNCHANGED <<secrets, minted, cur, join>>, pc \in UpSteps \ {"options"},
             ~WritingArtifacts', pc' # "apply"
      PROVE  SecretsInv'
  BY <1>3, SecretsFrame
<1>4. ASSUME UNCHANGED <<secrets, minted, cur, join, conf, pc, todo, file>>
      PROVE  SecretsInv'
  BY <1>4, SecretsFrame DEF WritingArtifacts
<1>5. ASSUME NEW m \in Machines, UpBegin(m) \/ \E f \in DestroyFlags : DestroyBegin(m, f)
      PROVE  SecretsInv'
  BY <1>1, <1>5 DEF UpBegin, DestroyBegin, DestroySteps
<1>6. CASE Boot \/ ReadTalosconfig \/ Bootstrap
  BY <1>3, <1>6 DEF Boot, ReadTalosconfig, Bootstrap, Goto, UpSteps, WritingArtifacts
<1>7. CASE UpRefused \/ BootFails \/ StepFails \/ BootstrapFails \/ InstallStorage \/ TinqKilled
  BY <1>2, <1>7 DEF UpRefused, BootFails, StepFails, BootstrapFails, InstallStorage, TinqKilled, Stay
<1>8. CASE WaitMaintenance \/ Apply \/ AlreadyBootstrapped \/ WaitReady
  BY <1>2, <1>3, <1>8 DEF WaitMaintenance, Apply, AlreadyBootstrapped, WaitReady, Stay, Goto,
     UpSteps, WritingArtifacts
<1>9. CASE WaitInstalled \/ FetchKubeconfig
  BY <1>2, <1>3, <1>9 DEF WaitInstalled, FetchKubeconfig, Stay, Goto, UpSteps, WritingArtifacts,
     Artifacts
<1>10. CASE LeaveEtcd \/ LeaveFails \/ DeleteNode \/ \E j \in Machines : DestroyNext(j)
  BY <1>1, <1>2, <1>10 DEF LeaveEtcd, LeaveFails, DeleteNode, DestroyNext, Stay, Goto, DestroySteps
<1>11. CASE Sweep \/ SweepFails
  <2>1. UNCHANGED minted /\ pc' \in {"idle", "next"}
    BY <1>11 DEF Sweep, SweepFails, End, Goto
  <2>2. \A m \in Machines : secrets'[m] \in {secrets[m], NoBundle}
    <3>1. UNCHANGED secrets \/ \E left : Remains(item, left)
      BY <1>11 DEF Sweep, Wipe, SweepFails
    <3> QED
      BY <3>1, Remaining
  <2>3. \A m \in Machines : secrets'[m] # NoBundle => OfCluster(secrets[m], OwnerOf(m))'
    <3>1. SUFFICES ASSUME NEW m \in Machines, secrets'[m] # NoBundle
                   PROVE  OfCluster(secrets[m], OwnerOf(m))'
      OBVIOUS
    <3>2. secrets'[m] = secrets[m] /\ OfCluster(secrets[m], OwnerOf(m))
      BY <2>2, <3>1 DEF SecretsInv
    <3>3. \A n \in Machines : secrets'[n] = secrets[m] => secrets[n] = secrets[m]
      BY <2>2, <3>1, <3>2
    <3> QED
      BY <2>1, <3>2, <3>3 DEF OfCluster, OwnerOf, Creator
  <2> QED
    BY <2>1, <2>3 DEF SecretsInv, WritingArtifacts, UpSteps
<1>12. ASSUME NEW m \in Machines, NodeStep(m)
       PROVE  SecretsInv'
  BY <1>4, <1>12 DEF NodeStep, NodeBoots, NodeInstalls, NodeJoins, NodeRegisters
<1>13. ASSUME NEW ms, Halt(ms)
       PROVE  SecretsInv'
  BY <1>4, <1>13 DEF Halt
<1>14. CASE UNCHANGED vars
  BY <1>4, <1>14 DEF vars
<1> QED
  BY <1>5, <1>6, <1>7, <1>8, <1>9, <1>10, <1>11, <1>12, <1>13, <1>14, OptionsSecrets,
     GenerateSecrets, FileSecrets DEF Next, UpStep, DestroyStep, VMStops, PowerCut

\* A destroy, with any flags.
LEMMA NoForced ==
  ASSUME pc' \notin DestroySteps
  PROVE  ForcedInv'
BY DEF ForcedInv, DestroySteps

LEMMA ForcedFrame ==
  ASSUME ForcedInv, UNCHANGED <<record, talosconfig, cur, destroyVars>>, pc' \in DestroySteps,
         pc \in DestroySteps,
         pc' \in {"leave", "deleteNode", "sweep"} => item \in doomed,
         pc' = "deleteNode" \/ (pc' = "sweep" /\ Leaves(item)) =>
            Gone(item)' \/ <<talosconfig[item], item>> \in excused'
  PROVE  ForcedInv'
<1>1. /\ \A k : JoinersOf(k)' = JoinersOf(k)
      /\ Leaves(item)' = Leaves(item) /\ UNCHANGED <<flags, doomed, item>>
  BY DEF JoinersOf, Leaves, destroyVars
<1> QED
  BY <1>1 DEF ForcedInv, DestroySteps, Creator

LEMMA ForcedBegin ==
  ASSUME NoChains, NEW m \in Machines, NEW f \in DestroyFlags, DestroyBegin(m, f)
  PROVE  ForcedInv'
<1>1. CASE pc' = "idle"
  BY <1>1, NoForced DEF DestroySteps
<1>2. CASE pc' # "idle"
  <2>1. /\ pc' = "next" /\ cur' = m /\ flags' = f /\ UNCHANGED record
        /\ doomed' = {m} \cup (IF WithJoiners(f) THEN AllJoinersOf(m) ELSE {})
        /\ f = "none" => JoinersOf(m) = {}
    BY <1>2 DEF DestroyBegin, dirVars
  <2>2. ~Creator(m) => JoinersOf(m) = {}
    <3>1. \A j \in Machines : Joins[j] = m => ~Creator(j)
      BY ClusterAssumption DEF Creator
    <3> QED
      BY <3>1 DEF NoChains, JoinersOf
  <2>3. JoinersOf(m) = {} => AllJoinersOf(m) = {}
    BY AllJoinersNone
  <2>4. JoinersOf(m)' = JoinersOf(m)
    BY <2>1 DEF JoinersOf
  <2> QED
    BY <2>1, <2>2, <2>3, <2>4 DEF ForcedInv, Creator, WithJoiners
<1> QED
  BY <1>1, <1>2

LEMMA ForcedSweep ==
  ASSUME ForcedInv, Sweep
  PROVE  ForcedInv'
<1>1. CASE doomed = {item}
  BY <1>1, NoForced DEF Sweep, End, DestroySteps
<1>2. CASE doomed # {item}
  <2>1. /\ pc = "sweep" /\ pc' = "next" /\ UNCHANGED <<cur, flags>>
    BY <1>2 DEF Sweep, Goto
  <2>2. Creator(cur) /\ flags # "none"
    BY <1>2, <2>1 DEF ForcedInv, DestroySteps
  <2> QED
    BY <2>1, <2>2 DEF ForcedInv, Creator
<1> QED
  BY <1>1, <1>2

LEMMA ForcedStep ==
  ASSUME NoChains, Inv, NodesOK, ForcedInv, [Next]_vars
  PROVE  ForcedInv'
<1> USE DEF dirVars
<1>1. ASSUME NEW r, End(r)
      PROVE  ForcedInv'
  BY <1>1, NoForced DEF End, DestroySteps
<1>2. ASSUME UNCHANGED <<record, talosconfig, pc, cur, excused, destroyVars>>,
             Gone(item) => Gone(item)'
      PROVE  ForcedInv'
  <2>1. CASE pc \in DestroySteps
    <3>1. pc = "deleteNode" \/ (pc = "sweep" /\ Leaves(item)) =>
             Gone(item)' \/ <<talosconfig[item], item>> \in excused
      BY <1>2 DEF ForcedInv
    <3> QED
      BY <1>2, <2>1, <3>1, ForcedFrame DEF ForcedInv
  <2>2. CASE pc \notin DestroySteps
    BY <1>2, <2>2, NoForced
  <2> QED
    BY <2>1, <2>2
<1>3. ASSUME NEW m \in Machines, UpBegin(m)
      PROVE  ForcedInv'
  BY <1>3, NoForced DEF UpBegin, DestroySteps
<1>4. CASE UpStep
  BY <1>1, <1>4, NoForced DEF UpStep, UpOptions, UpRefused, Boot, BootFails, ReadTalosconfig,
     WaitMaintenance, Generate, RemoveArtifact, WriteArtifact, Apply, StepFails, WaitInstalled,
     Bootstrap, AlreadyBootstrapped, BootstrapFails, FetchKubeconfig, WaitReady, InstallStorage,
     Stay, Goto, DestroySteps
<1>5. ASSUME NEW j \in Machines, DestroyNext(j)
      PROVE  ForcedInv'
  <2>1. /\ pc = "next" /\ item' = j /\ j \in doomed
        /\ pc' = (IF Leaves(j) THEN "leave" ELSE "sweep")
        /\ UNCHANGED <<record, talosconfig, cur, flags, whole, doomed>>
    BY <1>5 DEF DestroyNext, Goto
  <2>2. Leaves(item)' = Leaves(j) /\ \A k : JoinersOf(k)' = JoinersOf(k)
    BY <2>1 DEF Leaves, JoinersOf
  <2> QED
    BY <2>1, <2>2 DEF ForcedInv, DestroySteps, Creator
<1>6. CASE LeaveEtcd
  <2>1. CASE pc' = "deleteNode"
    <3>1. UNCHANGED <<record, talosconfig, cur, destroyVars>> /\ pc = "leave"
      BY <1>6, <2>1 DEF LeaveEtcd, Goto, End
    <3>2. Gone(item)'
      BY <1>6, <3>1, LeftIsGone DEF destroyVars
    <3> QED
      BY <2>1, <3>1, <3>2, ForcedFrame DEF ForcedInv, DestroySteps
  <2>2. CASE pc' # "deleteNode"
    BY <1>1, <1>6, <2>2 DEF LeaveEtcd, Goto
  <2> QED
    BY <2>1, <2>2
<1>7. CASE LeaveFails
  <2>1. CASE Forced
    <3>1. /\ UNCHANGED <<record, talosconfig, cur, destroyVars>> /\ pc = "leave" /\ pc' = "sweep"
          /\ <<talosconfig[item], item>> \in excused'
      BY <1>7, <2>1 DEF LeaveFails, Goto
    <3> QED
      BY <3>1, ForcedFrame DEF ForcedInv, DestroySteps
  <2>2. CASE ~Forced
    BY <1>1, <1>7, <2>2 DEF LeaveFails, Stay
  <2> QED
    BY <2>1, <2>2
<1>8. CASE DeleteNode
  <2>1. /\ UNCHANGED <<record, talosconfig, vm, stage, etcd, members, excused, cur, destroyVars>>
        /\ pc = "deleteNode" /\ pc' = "sweep"
    BY <1>8 DEF DeleteNode, Goto, nodeVars
  <2>2. Gone(item)' = Gone(item)
    BY <2>1 DEF Gone, destroyVars
  <2> QED
    BY <2>1, <2>2, ForcedFrame DEF ForcedInv, DestroySteps
<1>9. CASE SweepFails \/ TinqKilled
  BY <1>1, <1>9 DEF SweepFails, TinqKilled
<1>10. CASE PowerCut \/ \E m \in Machines : NodeStep(m) \/ VMStops(m)
  <2>1. UNCHANGED <<record, talosconfig, pc, cur, excused, destroyVars>>
    BY <1>10 DEF PowerCut, VMStops, Halt, NodeStep, NodeBoots, NodeInstalls, NodeJoins,
       NodeRegisters, clusterVars
  <2> QED
    BY <1>2, <1>10, <2>1, GoneStays
<1>11. CASE UNCHANGED vars
  <2>1. Gone(item)' = Gone(item)
    BY <1>11 DEF vars, Gone, nodeVars, clusterVars, destroyVars
  <2> QED
    BY <1>2, <1>11, <2>1 DEF vars, clusterVars
<1> QED
  BY <1>3, <1>4, <1>5, <1>6, <1>7, <1>8, <1>9, <1>10, <1>11, ForcedBegin, ForcedSweep
     DEF Next, DestroyStep

\* A creator goes with the flags that give its cluster up or when nobody has its
\* bundle any more, and a joiner when it has left or was given up.
LEMMA SweepIsExcused ==
  ASSUME Inv, NodesOK, SecretsInv, ForcedInv
  PROVE  SweepAsked
<1> SUFFICES ASSUME pc = "sweep",
                    NEW b \in Bundles, Spared(b, torn), item \in members[b], pki[item] = b, Outlives(b)
             PROVE  <<b, item>> \in excused \cup Asked
  BY DEF SweepAsked
<1>1. item \in Machines /\ cur \in Machines /\ b # NoBundle
  BY ClusterAssumption DEF Inv, TypeOK, DestroyTypes
<1>2. talosconfig[item] = b /\ secrets[item] = b
  BY <1>1, HeldFiles
<1>3. CASE Creator(cur) /\ flags # "none"
  BY <1>3 DEF Asked, Creator
<1>4. CASE ~(Creator(cur) /\ flags # "none")
  <2>1. item = cur /\ JoinersOf(cur) = {}
    BY <1>4 DEF ForcedInv, DestroySteps
  <2>2. CASE Creator(cur)
    <3>1. PICK m \in Machines \ {cur} : pki[m] = b
      BY <2>1 DEF Outlives
    <3>2. secrets[m] = b
      BY <1>1, <3>1, HeldFiles
    <3>3. OwnerOf(m) = OwnerOf(cur)
      BY <1>1, <1>2, <2>1, <3>2 DEF SecretsInv, OfCluster
    <3>4. Joins[m] = cur /\ record[m]
      BY <1>1, <2>2, <3>1, <3>2, <3>3 DEF OwnerOf, NodesOK
    <3> QED
      BY <2>1, <3>1, <3>4 DEF JoinersOf
  <2>3. CASE ~Creator(cur)
    BY <1>1, <1>2, <2>1, <2>3 DEF ForcedInv, Leaves, Gone, Creator
  <2> QED
    BY <2>2, <2>3
<1> QED
  BY <1>3, <1>4

-----------------------------------------------------------------------------
(* The theorems. *)

LEMMA InitKept ==
  ASSUME Init
  PROVE  KeptInv
<1>1. NodesOK /\ RecordRun
  BY DEF Init, NodesOK, RecordRun, UpSteps
<1>2. FilesInv
  BY DEF Init, FilesInv
<1>3. FilesRun
  BY DEF Init, FilesRun, FirstRun, WritingArtifacts, WritingKubeconfig, UpSteps
<1>4. DestroyInv
  BY DEF Init, DestroyInv, DestroySteps
<1>5. MembersInv /\ NoGhostVoter
  BY DEF Init, MembersInv, NoGhostVoter
<1> QED
  BY <1>1, <1>2, <1>3, <1>4, <1>5 DEF KeptInv

\* Without --force, whatever is killed, stopped or lost on the way: nodes have
\* their config, disk and data in order, a destroy takes a machine after its
\* joiners and after it has left, and in every cluster that no removal left
\* part-way files agree along the joins and no voter is without its data.
THEOREM KeptHolds ==
  ASSUME WithoutForce
  PROVE  Spec => []KeptInv
<1>1. ASSUME Inv, FilesRun
      PROVE  pc = "apply" => conf # NoBundle
  <2>1. pc = "apply" /\ Creator(cur) => conf # NoBundle
    BY <1>1, ClusterAssumption DEF Inv, BootstrapInv, TypeOK, ClusterTypes
  <2>2. pc = "apply" /\ ~Creator(cur) => conf # NoBundle
    BY <1>1, SparedNone DEF Inv, ConfInv, FilesRun, Settled, UpSteps
  <2> QED
    BY <2>1, <2>2
<1>2. Inv /\ KeptInv /\ [Next]_vars => KeptInv'
  BY <1>1, WithoutForce, NodesStep, RecordStep, FilesStep, FilesRunStep, DestroyInvStep,
     SweepIsAsked, MembersStep DEF KeptInv
<1> QED
  BY <1>2, InvHolds, InitKept, PTL DEF Spec

LEMMA InitStar ==
  ASSUME Init
  PROVE  StarInv
<1>1. SecretsInv
  BY DEF Init, SecretsInv, WritingArtifacts, UpSteps
<1>2. ForcedInv
  BY DEF Init, ForcedInv, DestroySteps
<1> QED
  BY <1>1, <1>2, InitKept DEF KeptInv, StarInv

\* With any flags, where every joiner joins a creator, whatever is killed,
\* stopped or lost on the way: no bundle passes from one cluster to another, and
\* a destroy takes one machine that has left or was given up, or what its flags
\* gave up, so that no voter of a cluster that no removal left part-way is
\* without its data unless the operator asked.
THEOREM StarHolds ==
  ASSUME NoChains
  PROVE  Spec => []StarInv
<1>1. ASSUME Inv, SecretsInv
      PROVE  pc = "apply" => conf # NoBundle
  BY <1>1, ClusterAssumption DEF Inv, TypeOK, ClusterTypes, SecretsInv, OfCluster
<1>2. Inv /\ StarInv /\ [Next]_vars => StarInv'
  BY <1>1, NoChains, NodesStep, RecordStep, SecretsStep, ForcedStep, SweepIsExcused, MembersStep
     DEF StarInv
<1> QED
  BY <1>2, InvHolds, InitStar, PTL DEF Spec

\* Every machine in the member list of an etcd still has its data, unless the
\* operator gave its vote or its cluster up, or a removal in the cluster stopped
\* part-way: destroy leaves etcd before it takes the VM.  With --force it is so
\* where nobody joins a joiner.
THEOREM VotersKeepTheirData ==
  ASSUME WithoutForce \/ NoChains
  PROVE  Spec => []NoGhostVoter
<1>1. KeptInv => NoGhostVoter
  BY DEF KeptInv
<1>2. StarInv => NoGhostVoter
  BY DEF StarInv
<1>3. CASE WithoutForce
  BY <1>1, <1>3, KeptHolds, PTL
<1>4. CASE NoChains
  BY <1>2, <1>4, StarHolds, PTL
<1> QED
  BY <1>3, <1>4

\* The machine a node joined still holds the secrets the node was built from,
\* in a cluster that no removal left part-way: destroy without --force takes no
\* owner from its joiners.
THEOREM OwnersKeepTheirSecrets ==
  ASSUME WithoutForce
  PROVE  Spec => []OwnerSecretsKept
<1>1. Inv /\ KeptInv => OwnerSecretsKept
  BY HeldFiles DEF KeptInv, FilesInv, Settled, Creator, OwnerSecretsKept
<1> QED
  BY <1>1, InvHolds, KeptHolds, PTL

\* A kubeconfig is for the cluster of its machine, where no removal left either
\* part-way: a joiner copies the one of an owner whose files agree with it.
THEOREM KubeconfigsMatch ==
  ASSUME WithoutForce
  PROVE  Spec => []KubeconfigMatches
<1>1. KeptInv => KubeconfigMatches
  BY DEF KeptInv, FilesInv, Settled, KubeconfigMatches
<1> QED
  BY <1>1, KeptHolds, PTL

-----------------------------------------------------------------------------
(* The refinement. *)

\* The members with their data, and the machines given up.
Replicas(b) == {m \in members[b] : pki[m] = b /\ etcd[m] = "data"}
Abandoned(b) == {m \in Machines : <<b, m>> \in excused}

\* Whoever is up has its data.
LEMMA StepOfEtcd ==
  ASSUME NEW b \in Bundles, NEW m \in Machines,
         \/ Etcd(b)!Form(m) \/ Etcd(b)!Join(m) \/ Etcd(b)!Leave(m) \/ Etcd(b)!Abandon(m)
         \/ Etcd(b)!Dissolve \/ Etcd(b)!Flap
  PROVE  Etcd(b)!Next
BY DEF Etcd!Next, Voting

LEMMA FlapOfEtcd ==
  ASSUME NEW b \in Bundles, members'[b] = members[b], boots'[b] = boots[b],
         Replicas(b)' = Replicas(b), Abandoned(b)' = Abandoned(b)
  PROVE  Etcd(b)!Next
<1>1. Etcd(b)!Flap
  BY DEF Etcd!Flap, Replicas, Abandoned
<1> QED
  BY <1>1 DEF Etcd!Next, Voting

LEMMA BystandersFlap ==
  ASSUME NEW b \in Bundles, ClusterTypes, Quiet
  PROVE  Etcd(b)!Next
<1> USE DEF Quiet
<1>1. Replicas(b)' = Replicas(b)
  BY DEF Replicas, DataSame, ClusterTypes
<1>2. Abandoned(b)' = Abandoned(b)
  BY DEF Abandoned
<1> QED
  BY <1>1, <1>2, FlapOfEtcd

\* The data of one machine comes or goes, and the other clusters do not notice.
LEMMA OthersFlap ==
  ASSUME NEW b \in Bundles, ClusterTypes, NEW m \in Machines, pki[m] # b,
         members'[b] = members[b], boots'[b] = boots[b], UNCHANGED <<pki, excused>>,
         \A n \in Machines \ {m} : etcd'[n] = etcd[n]
  PROVE  Etcd(b)!Next
<1>1. Replicas(b)' = Replicas(b)
  BY DEF Replicas, ClusterTypes
<1>2. Abandoned(b)' = Abandoned(b)
  BY DEF Abandoned
<1> QED
  BY <1>1, <1>2, FlapOfEtcd

LEMMA BootstrapForms ==
  ASSUME Inv, MembersInv, Bootstrap, NEW b \in Bundles
  PROVE  Etcd(b)!Next
<1>1. cur \in Machines /\ pki[cur] = conf /\ conf \in Bundles /\ ClusterTypes
  BY DEF Bootstrap, TalosAnswers, Inv, TypeOK, UpTypes
<1>2. /\ UNCHANGED <<pki, excused>>
      /\ etcd'[cur] = "data" /\ \A m \in Machines \ {cur} : etcd'[m] = etcd[m]
  BY <1>1 DEF Bootstrap, Inv, TypeOK, NodeTypes
<1>3. /\ members'[conf] = members[conf] \cup {cur} /\ boots'[conf] = boots[conf] + 1
      /\ b # conf => members'[b] = members[b] /\ boots'[b] = boots[b]
  BY <1>1 DEF Bootstrap, Inv, TypeOK, ClusterTypes
<1>4. CASE b # conf
  BY <1>1, <1>2, <1>3, <1>4, OthersFlap
<1>5. CASE b = conf
  <2>1. boots[b] = 0 /\ members[b] = {}
    BY <1>1, <1>5, ClusterAssumption DEF Bootstrap, Inv, RunInv, BootstrapInv, MembersInv
  <2>2. members'[b] = {cur} /\ boots'[b] = 1
    BY SMT, <1>3, <1>5, <2>1
  <2>3. Replicas(b)' = {cur}
    BY <1>1, <1>2, <1>5, <2>2 DEF Replicas
  <2>4. PICK m \in Machines : m = cur
    BY <1>1
  <2>5. Etcd(b)!Form(m)
    BY SMT, <1>2, <2>1, <2>2, <2>3, <2>4 DEF Etcd!Form, Replicas
  <2> QED
    BY <2>5, StepOfEtcd
<1> QED
  BY <1>4, <1>5

LEMMA NodeJoinsEtcd ==
  ASSUME Inv, NodesOK, NEW m \in Machines, NodeJoins(m), NEW b \in Bundles
  PROVE  Etcd(b)!Next
<1>1. pki[m] \in Bundles /\ m \notin members[pki[m]] /\ Quorum(pki[m]) /\ ClusterTypes
  BY DEF NodeJoins, MayJoin, NodesOK, Inv, TypeOK, NodeTypes, Files
<1>2. /\ UNCHANGED <<pki, excused, boots>>
      /\ etcd'[m] = "data" /\ \A n \in Machines \ {m} : etcd'[n] = etcd[n]
  BY DEF NodeJoins, Inv, TypeOK, NodeTypes
<1>3. /\ members'[pki[m]] = members[pki[m]] \cup {m}
      /\ b # pki[m] => members'[b] = members[b]
  BY <1>1 DEF NodeJoins, Inv, TypeOK, ClusterTypes
<1>4. CASE b # pki[m]
  BY <1>1, <1>2, <1>3, <1>4, OthersFlap
<1>5. CASE b = pki[m]
  <2>1. Replicas(b)' = Replicas(b) \cup {m}
    BY <1>1, <1>2, <1>3, <1>5 DEF Replicas, ClusterTypes
  <2>2. Etcd(b)!Majority
    BY <1>1, <1>5 DEF Etcd!Majority, Quorum, Etcd!Cardinality, Cardinality
  <2>3. Etcd(b)!Join(m)
    BY <1>1, <1>2, <1>3, <1>5, <2>1, <2>2 DEF Etcd!Join, Replicas
  <2> QED
    BY <1>1, <2>3, StepOfEtcd
<1> QED
  BY <1>4, <1>5

LEMMA LeaveIsLeave ==
  ASSUME Inv, MembersInv, LeaveEtcd, NEW b \in Bundles
  PROVE  Etcd(b)!Next
<1> DEFINE tc == talosconfig[item]
<1>1. item \in Machines /\ tc \in Bundles /\ ~Creator(item) /\ ClusterTypes
  BY DEF LeaveEtcd, CanLeave, CanRemove, Serves, TalosAnswers, Inv, RunInv, TypeOK, DirTypes,
     DestroyTypes, Files
<1>2. /\ UNCHANGED <<pki, excused, boots>>
      /\ \A m \in Machines \ {item} : etcd'[m] = etcd[m]
  BY <1>1 DEF LeaveEtcd, Inv, TypeOK, NodeTypes
<1>3. /\ members'[tc] = members[tc] \ {item}
      /\ b # tc => members'[b] = members[b]
  BY <1>1 DEF LeaveEtcd, Inv, TypeOK, ClusterTypes
<1>4. CanLeave(item) \/ \E via \in Machines : CanRemove(item, via)
  BY DEF LeaveEtcd
<1>5. vm[item] = "running" => pki[item] = tc /\ item \in members[tc]
  BY <1>4 DEF CanLeave, CanRemove, TalosAnswers, Voting
<1>6. vm[item] # "running" => UNCHANGED etcd
  BY DEF LeaveEtcd
<1> HIDE DEF tc
<1>7. Abandoned(b)' = Abandoned(b)
  BY <1>2 DEF Abandoned
<1>8. CASE b # tc
  <2>1. Replicas(b)' = Replicas(b)
    BY <1>1, <1>2, <1>3, <1>5, <1>6, <1>8 DEF Replicas, ClusterTypes
  <2> QED
    BY <1>2, <1>3, <1>7, <1>8, <2>1, FlapOfEtcd
<1>9. CASE b = tc /\ item \notin members[b]
  <2>1. members'[b] = members[b] /\ UNCHANGED etcd
    BY <1>3, <1>5, <1>6, <1>9
  <2>2. Replicas(b)' = Replicas(b)
    BY <1>2, <2>1 DEF Replicas
  <2> QED
    BY <1>2, <1>7, <2>1, <2>2, FlapOfEtcd
<1>10. CASE b = tc /\ item \in members[b]
  <2>1. Quorum(b) /\ \E o \in members[b] : o # item
    <3>1. Quorum(b)
      BY <1>4, <1>10 DEF CanLeave, CanRemove, Serves, tc
    <3>2. PICK c \in members[b] : Creator(c)
      BY <1>10 DEF MembersInv
    <3> QED
      BY <1>1, <3>1, <3>2
  <2>2. Etcd(b)!Majority
    BY <2>1 DEF Etcd!Majority, Quorum, Etcd!Cardinality, Cardinality
  <2>3. Replicas(b)' = Replicas(b) \ {item}
    BY <1>1, <1>2, <1>3, <1>10 DEF Replicas, ClusterTypes
  <2>4. members'[b] = members[b] \ {item} /\ members'[b] # {}
    BY <1>3, <1>10, <2>1
  <2>5. PICK m \in Machines : m = item
    BY <1>1
  <2>6. Etcd(b)!Leave(m)
    BY <1>2, <1>10, <2>2, <2>3, <2>4, <2>5 DEF Etcd!Leave, Replicas
  <2> QED
    BY <2>6, StepOfEtcd
<1> QED
  BY <1>8, <1>9, <1>10

LEMMA GivesUpIsAbandon ==
  ASSUME Inv, GivesUpVote, NEW b \in Bundles
  PROVE  Etcd(b)!Next
<1>1. /\ item \in Machines
      /\ UNCHANGED <<pki, etcd, members, boots>>
      /\ excused' = excused \cup {<<talosconfig[item], item>>}
  BY DEF GivesUpVote, LeaveFails, nodeVars, Inv, TypeOK, DestroyTypes
<1>2. Replicas(b)' = Replicas(b)
  BY <1>1 DEF Replicas
<1>3. CASE b # talosconfig[item]
  <2>1. Abandoned(b)' = Abandoned(b)
    BY <1>1, <1>3 DEF Abandoned
  <2> QED
    BY <1>1, <1>2, <2>1, FlapOfEtcd
<1>4. CASE b = talosconfig[item]
  <2>1. Abandoned(b)' = Abandoned(b) \cup {item}
    BY <1>1, <1>4 DEF Abandoned
  <2>2. PICK m \in Machines : m = item
    BY <1>1
  <2>3. Etcd(b)!Abandon(m)
    BY <1>1, <1>2, <2>1, <2>2 DEF Etcd!Abandon, Replicas, Abandoned
  <2> QED
    BY <2>3, StepOfEtcd
<1> QED
  BY <1>3, <1>4

LEMMA GoneIsKnown ==
  ASSUME Inv, MemberGoes, NEW b \in Bundles, Spared(b, torn')
  PROVE  Etcd(b)!Next
<1>1. item \in Machines /\ ClusterTypes
  BY DEF Inv, TypeOK, DestroyTypes
<1>2. /\ \A m \in Machines \ {item} : pki'[m] = pki[m] /\ etcd'[m] = etcd[m]
      /\ etcd'[item] # "data"
  BY DEF MemberGoes
<1>3. members'[b] = (IF Outlives(b) THEN members[b] ELSE {}) /\ UNCHANGED boots
  BY DEF MemberGoes, DiskGoes
<1>4. excused' = {e \in excused \cup Asked : Outlives(e[1])}
  BY DEF MemberGoes, DiskGoes
<1>5. CASE ~Outlives(b)
  <2>1. Replicas(b) \subseteq {item} /\ Replicas(b)' = {}
    BY <1>1, <1>3, <1>5 DEF Replicas, Outlives, ClusterTypes
  <2>2. Abandoned(b)' = {}
    BY <1>4, <1>5 DEF Abandoned
  <2>3. Etcd(b)!Dissolve
    BY <1>1, <1>3, <1>5, <2>1, <2>2 DEF Etcd!Dissolve, Replicas, Abandoned
  <2> QED
    BY <1>1, <2>3, StepOfEtcd
<1>6. CASE Outlives(b)
  <2>1. Replicas(b)' = Replicas(b) \ {item}
    BY <1>1, <1>2, <1>3, <1>6 DEF Replicas, ClusterTypes
  <2>2. \A m \in Machines : <<b, m>> \in excused' <=> <<b, m>> \in excused \cup Asked
    BY <1>4, <1>6
  <2>3. CASE <<b, item>> \in excused \cup Asked
    <3>1. Abandoned(b)' = Abandoned(b) \cup {item}
      BY <1>1, <2>2, <2>3 DEF Abandoned, Asked
    <3>2. PICK m \in Machines : m = item
      BY <1>1
    <3>3. Etcd(b)!Abandon(m)
      BY <1>3, <1>6, <2>1, <3>1, <3>2 DEF Etcd!Abandon, Replicas, Abandoned
    <3> QED
      BY <3>3, StepOfEtcd
  <2>4. CASE <<b, item>> \notin excused \cup Asked
    <3>1. Abandoned(b)' = Abandoned(b)
      BY <1>1, <2>2, <2>4 DEF Abandoned, Asked
    <3>2. item \notin Replicas(b)
      BY <1>6, <2>4 DEF MemberGoes, Replicas
    <3> QED
      BY <1>3, <1>6, <2>1, <3>1, <3>2, FlapOfEtcd
  <2> QED
    BY <2>3, <2>4
<1> QED
  BY <1>5, <1>6

LEMMA EtcdStep ==
  ASSUME Inv, NodesOK, SweepAsked, MembersInv, [Next]_vars, NEW b \in Bundles, Spared(b, torn')
  PROVE  Etcd(b)!Next
<1>1. CASE ~Bystanding
  BY <1>1, BootstrapForms, LeaveIsLeave, GivesUpIsAbandon, NodeJoinsEtcd, SweepGoes, SweepFailsGoes,
     GoneIsKnown, BystandersFlap DEF Bystanding, Inv, TypeOK
<1>2. CASE Bystanding
  BY <1>2, Bystanders, BystandersFlap DEF Inv, TypeOK
<1> QED
  BY <1>1, <1>2

\* Without --force, or where nobody joins a joiner, up and destroy implement
\* EtcdMembership, for every cluster up to its first removal that stops part-way,
\* and whatever else is killed, stopped or lost on the way: an etcd is formed
\* once, its member list changes by one with a majority that is up, and no
\* member's data goes before it has left, unless the operator gave it up.
THEOREM ClusterImplementsEtcd ==
  ASSUME WithoutForce \/ NoChains
  PROVE  Spec => ImplementsEtcd
<1>1. Init => \A b \in Bundles : Etcd(b)!Init
  BY SMT DEF Init, Etcd!Init, Voting
<1>2. Inv /\ KeptInv /\ [Next]_vars
      => [\A b \in Bundles : Intact(b)' => [Etcd(b)!Next]_(Etcd(b)!etcdVars)]_vars
  BY SweepIsAsked, EtcdStep DEF KeptInv
<1>3. Inv /\ StarInv /\ [Next]_vars
      => [\A b \in Bundles : Intact(b)' => [Etcd(b)!Next]_(Etcd(b)!etcdVars)]_vars
  BY SweepIsExcused, EtcdStep DEF StarInv
<1>4. CASE WithoutForce
  BY <1>1, <1>2, <1>4, InvHolds, KeptHolds, PTL DEF Spec, ImplementsEtcd
<1>5. CASE NoChains
  BY <1>1, <1>3, <1>5, InvHolds, StarHolds, PTL DEF Spec, ImplementsEtcd
<1> QED
  BY <1>4, <1>5
=============================================================================
