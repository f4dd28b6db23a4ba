------------------------------- MODULE Cluster -------------------------------
(****************************************************************************)
(* The clusters of one site: `tinq up' and `tinq destroy' on the VMs that     *)
(* share a cluster network, from cluster/up.go, cmd/tinq/join.go,            *)
(* cmd/tinq/lifecycle.go and cluster/membership.go.                          *)
(*                                                                          *)
(* State.  The state directory of each machine, the node in its VM, the      *)
(* etcd membership and the Node objects of each cluster, and the one run of  *)
(* tinq in progress: the repository's README asks for one `up' or `destroy'  *)
(* at a time per site.  A cluster is named by its secrets bundle.            *)
(*                                                                          *)
(* Failures.  tinq may be killed between any two steps, a VM may stop at     *)
(* any time (`tinq stop', a crash, the host), a request may fail and the     *)
(* answer to one that was served may be lost, every wait may time out.       *)
(*                                                                          *)
(* Simplifications.                                                          *)
(*  - The VM is what module Machine says of it: Create and Destroy are one   *)
(*    step here, each with its failures.  A Destroy that fails or is killed  *)
(*    may have removed any of the files, the disk among them.                *)
(*  - checkSite, checkCapacity and the version checks, which refuse from     *)
(*    files before anything exists, are left out: so is controlplane.yaml,   *)
(*    which only `tinq reconfigure' reads.                                   *)
(*  - Talos, etcd and Kubernetes are external: what a node does is modelled  *)
(*    as far as the source relies on it.                                     *)
(****************************************************************************)
EXTENDS Naturals, FiniteSets

CONSTANTS
    Machines,     \* the VMs of the site that declare a cluster network
    Joins,        \* Joins[m]: the machine spec.joins of m names, or NoMachine
    NoMachine,
    Bundles,      \* the secrets bundles GenerateConfig may mint
    NoBundle,     \* no file, or no config on the node
    WithStorage,  \* the machines that ask for a user volume
    DestroyFlags, \* the flags in use, a subset of AllFlags
    Patient,      \* a wait gives up only when no node has a step left to take
    Lossy,        \* requests and answers may be lost, steps may fail
    MaxKills,     \* how often tinq is killed, or cannot remove a state directory
    MaxStops,     \* how often a single VM stops
    MaxCuts       \* how often every VM stops at once, between two runs

AllFlags == {"none", "force", "joiners", "both"}

ASSUME ClusterAssumption ==
    /\ NoMachine \notin Machines
    /\ Joins \in [Machines -> Machines \cup {NoMachine}]
    /\ IsFiniteSet(Machines)
    /\ NoBundle \notin Bundles
    /\ WithStorage \subseteq Machines
    /\ DestroyFlags \subseteq AllFlags
    /\ Patient \in BOOLEAN
    /\ Lossy \in BOOLEAN
    /\ MaxKills \in Nat /\ MaxStops \in Nat /\ MaxCuts \in Nat

\* The machines form no ring: some machine of a set joins none of the set.
ASSUME JoinsAssumption ==
    \A T \in SUBSET Machines : T # {} => \E m \in T : Joins[m] \notin T

VARIABLES
    \* the state directories, by machine: a file is the bundle it was made from
    record,       \* machine.yaml exists
    talosconfig, secrets, endpoint, kubeconfig,
    \* the nodes, by machine
    vm,           \* what Observe reports
    stage,        \* the machine stage of the node
    pki,          \* the bundle of the config the node holds
    installed,    \* that config is on its disk
    etcd,         \* its etcd data directory: empty, data, or left on request
    \* the clusters, by bundle
    members,      \* the machines in etcd's member list
    nodes,        \* the machines with a Node object
    \* the run
    pc, cur,      \* its step and the machine of its file
    sawRunning,   \* the state Observe reported before the first step
    stopped,      \* UpOptions.StoppedMembers
    join, kube,   \* the bundles of Join.SecretsBundle and of the kubeconfig in hand
    conf,         \* the bundle of the talosconfig in hand
    todo, file,   \* what writeArtifacts has left, and the file it has removed
    flags, whole, doomed, item, \* destroy: its flags, the machines it takes, the next
    report,       \* what the last run told the operator
    \* history
    minted,       \* the bundles GenerateConfig has minted
    boots,        \* by bundle, how often an etcd was bootstrapped with it
    excused,      \* <<bundle, machine>> taken without leaving etcd, as asked
    torn,         \* <<bundle, machine>> whose removal stopped part-way
    kills, stops, cuts

dirVars == <<record, talosconfig, secrets, endpoint, kubeconfig>>
nodeVars == <<vm, stage, pki, installed, etcd>>
clusterVars == <<members, nodes, minted, boots, excused, torn>>
upVars == <<sawRunning, stopped, join, kube, conf, todo, file>>
destroyVars == <<flags, whole, doomed, item>>
budgets == <<kills, stops, cuts>>
vars == <<dirVars, nodeVars, clusterVars, pc, cur, upVars, destroyVars, report, budgets>>

-----------------------------------------------------------------------------
(* What a node and its cluster answer. *)

\* The members of b's etcd that are up.
Voting(b) == {m \in members[b] : stage[m] = "serving" /\ pki[m] = b /\ etcd[m] = "data"}
Quorum(b) == 2 * Cardinality(Voting(b)) > Cardinality(members[b])

\* An authenticated call to m's Talos API with a talosconfig of b that finds
\* the installed system: TalosAPIAnswers, WaitBootstrapReady.
TalosAnswers(m, b) == b # NoBundle /\ stage[m] = "serving" /\ pki[m] = b

\* The API server of m serves with bundle b: it is a voter of an etcd with
\* quorum.
Serves(m, b) == TalosAnswers(m, b) /\ m \in Voting(b) /\ Quorum(b)

\* The kubeconfig of a machine names the host forward of the machine that
\* created the cluster, the end of its joins: joiners copy the owner's.
Root ==
    [m \in Machines |-> CHOOSE c \in Machines :
        /\ Joins[c] = NoMachine
        /\ \A S \in SUBSET Machines :
             m \in S /\ (\A k \in S : Joins[k] \in S \cup {NoMachine}) => c \in S]
KubeAnswers(m, b) == b # NoBundle /\ Serves(Root[m], b)

\* nodeIsReady: the Node of m in cluster b reports Ready.
NodeReady(m, b) == TalosAnswers(m, b) /\ etcd[m] = "data"

\* What WaitNodeReady and WaitNodeReadyAt wait for.
EveryNodeReady(b) == nodes[b] # {} /\ \A m \in nodes[b] : NodeReady(m, b)
NodeReadyAt(m, b) == m \in nodes[b] /\ NodeReady(m, b)

\* What a node does next on its own.
MayBoot(m) == vm[m] = "running" /\ stage[m] = "off"
MayInstall(m) == stage[m] = "installing"
MayJoin(m) ==
    /\ stage[m] = "serving" /\ etcd[m] = "empty"
    /\ members[pki[m]] # {} /\ m \notin members[pki[m]] /\ Quorum(pki[m])
MayRegister(m) ==
    stage[m] = "serving" /\ m \in Voting(pki[m]) /\ Quorum(pki[m]) /\ m \notin nodes[pki[m]]

\* waitFor gives up on a condition that does not hold.
GivesUp(condition) ==
    /\ ~condition
    /\ Patient => \A m \in Machines :
                    ~MayBoot(m) /\ ~MayInstall(m) /\ ~MayJoin(m) /\ ~MayRegister(m)

-----------------------------------------------------------------------------
(* A run. *)

UpSteps == {"options", "boot", "read", "maintenance", "generate", "write", "writing",
            "apply", "installed", "bootstrap", "fetch", "ready", "storage"}
DestroySteps == {"next", "leave", "deleteNode", "sweep"}
Artifacts == {"talosconfig", "secrets", "endpoint"}
Reports == {"none", "refused", "failed", "killed", "ready", "awaiting", "destroyed"}

Goto(l) == pc' = l /\ UNCHANGED <<cur, report>>

\* The run ends and its locals are gone.
End(r) ==
    /\ pc' = "idle" /\ report' = r
    /\ sawRunning' = FALSE /\ stopped' = {} /\ join' = NoBundle /\ kube' = NoBundle
    /\ conf' = NoBundle /\ todo' = {} /\ file' = "none"
    /\ flags' = "none" /\ whole' = FALSE /\ doomed' = {} /\ item' = cur
    /\ UNCHANGED cur

\* A step that ends the run and changes nothing outside it.
Stay(r) == End(r) /\ UNCHANGED <<dirVars, nodeVars, clusterVars, budgets>>

-----------------------------------------------------------------------------
(* Up. *)

\* The bound on bundles: the `up' that would mint one more is not run.
MayMint(m) == Joins[m] # NoMachine \/ talosconfig[m] # NoBundle \/ minted # Bundles

\* standalone observes the machine; bringUp gets that observation.
UpBegin(m) ==
    /\ pc = "idle" /\ MayMint(m)
    /\ pc' = "options" /\ cur' = m /\ item' = m /\ report' = "none"
    /\ sawRunning' = (vm[m] = "running")
    /\ UNCHANGED <<dirVars, nodeVars, clusterVars, stopped, join, kube, conf, todo,
                   file, flags, whole, doomed, budgets>>

JoinersOf(m) == {j \in Machines \ {m} : record[j] /\ Joins[j] = m}

\* Faulty: the direct joiners only.
DirectJoiners(m) == JoinersOf(m)

\* allJoinersOf, the walk along the records that lead to m: what it collects is
\* in every set that has the joiners of m and of each of its own machines.
AllJoinersOf(m) ==
    {j \in Machines : \A S \in SUBSET Machines :
        (\A k \in S \cup {m} : JoinersOf(k) \subseteq S) => j \in S}

StoppedMembers(m) ==
    {j \in AllJoinersOf(m) : talosconfig[j] # NoBundle /\ vm[j] # "running"}

\* joinArtifacts finds the three files a join reads.
HasArtifacts(o) == secrets[o] # NoBundle /\ kubeconfig[o] # NoBundle /\ endpoint[o] # NoBundle

\* probeSegment: the owner answers on the cluster network.
OnSegment(o) == stage[o] = "serving"

\* Faulty: a member that restarts asks for Kubernetes too.
OwnerServes(m, o) == vm[o] = "running" /\ KubeAnswers(o, kubeconfig[o])

\* realOwnerUp: a new joiner asks the owner's Kubernetes, a member its Talos.
OwnerUp(m, o) ==
    /\ vm[o] = "running"
    /\ IF talosconfig[m] = NoBundle THEN KubeAnswers(o, kubeconfig[o])
       ELSE TalosAnswers(o, talosconfig[o])

\* vmJoinOptions lets m join o.
MayJoinOwner(m, o) == record[o] /\ HasArtifacts(o) /\ OwnerUp(m, o) /\ OnSegment(o)

UpOptions ==
    /\ pc = "options"
    /\ IF Joins[cur] = NoMachine
         THEN stopped' = StoppedMembers(cur) /\ UNCHANGED <<join, kube>>
         ELSE /\ MayJoinOwner(cur, Joins[cur])
              /\ join' = secrets[Joins[cur]] /\ kube' = kubeconfig[Joins[cur]]
              /\ UNCHANGED stopped
    /\ Goto("boot")
    /\ UNCHANGED <<dirVars, nodeVars, clusterVars, sawRunning, conf, todo, file,
                   destroyVars, budgets>>

UpRefused ==
    /\ pc = "options" /\ Joins[cur] # NoMachine /\ ~MayJoinOwner(cur, Joins[cur])
    /\ Stay("refused")

\* opts.Boot: create unless the machine was seen running.
Boot ==
    /\ pc = "boot"
    /\ IF sawRunning THEN UNCHANGED <<vm, record>>
       ELSE /\ vm' = [vm EXCEPT ![cur] = "running"]
            /\ record' = [record EXCEPT ![cur] = TRUE]
    /\ Goto("read")
    /\ UNCHANGED <<talosconfig, secrets, endpoint, kubeconfig, stage, pki, installed, etcd,
                   clusterVars, upVars, destroyVars, budgets>>

\* create fails after the record, before or after the disks.
BootFails ==
    /\ pc = "boot" /\ ~sawRunning /\ Lossy
    /\ \E v \in {vm[cur], "stopped"} : vm' = [vm EXCEPT ![cur] = v]
    /\ record' = [record EXCEPT ![cur] = TRUE]
    /\ End("failed")
    /\ UNCHANGED <<talosconfig, secrets, endpoint, kubeconfig, stage, pki, installed, etcd,
                   clusterVars, budgets>>

\* ReadTalosconfig decides between a first run and a resumed one.
ReadTalosconfig ==
    /\ pc = "read"
    /\ conf' = talosconfig[cur]
    /\ Goto(IF talosconfig[cur] = NoBundle THEN "maintenance" ELSE "installed")
    /\ UNCHANGED <<dirVars, nodeVars, clusterVars, sawRunning, stopped, join, kube, todo,
                   file, destroyVars, budgets>>

WaitMaintenance ==
    /\ pc = "maintenance"
    /\ \/ /\ stage[cur] = "maintenance"
          /\ Goto("generate")
          /\ UNCHANGED <<dirVars, nodeVars, clusterVars, upVars, destroyVars, budgets>>
       \/ GivesUp(stage[cur] = "maintenance") /\ Stay("failed")

\* GenerateConfig mints a bundle, unless the machine joins.
Generate ==
    /\ pc = "generate"
    /\ IF Joins[cur] = NoMachine
         THEN \E b \in Bundles \ minted : conf' = b /\ minted' = minted \cup {b}
         ELSE conf' = join /\ UNCHANGED minted
    /\ todo' = Artifacts
    /\ Goto("write")
    /\ UNCHANGED <<dirVars, nodeVars, members, nodes, boots, excused, torn, sawRunning, stopped,
                   join, kube, file, destroyVars, budgets>>

\* writeArtifacts: every file is removed, then written, in any order.
Replace(f, b) ==
    /\ talosconfig' = IF f = "talosconfig" THEN [talosconfig EXCEPT ![cur] = b] ELSE talosconfig
    /\ secrets' = IF f = "secrets" THEN [secrets EXCEPT ![cur] = b] ELSE secrets
    /\ endpoint' = IF f = "endpoint" THEN [endpoint EXCEPT ![cur] = b] ELSE endpoint
    /\ kubeconfig' = IF f = "kubeconfig" THEN [kubeconfig EXCEPT ![cur] = b] ELSE kubeconfig
    /\ UNCHANGED record

RemoveArtifact(f) ==
    /\ pc = "write" /\ f \in todo
    /\ Replace(f, NoBundle)
    /\ file' = f /\ todo' = todo \ {f}
    /\ Goto("writing")
    /\ UNCHANGED <<nodeVars, clusterVars, sawRunning, stopped, join, kube, conf,
                   destroyVars, budgets>>

\* Faulty: the config is applied after the first file.
WriteArtifactAndApply ==
    /\ pc = "writing"
    /\ Replace(file, IF file = "kubeconfig" THEN kube ELSE conf)
    /\ Goto(IF file = "kubeconfig" THEN "ready" ELSE "apply")
    /\ UNCHANGED <<nodeVars, clusterVars, upVars, destroyVars, budgets>>

WriteArtifact ==
    /\ pc = "writing"
    /\ Replace(file, IF file = "kubeconfig" THEN kube ELSE conf)
    /\ Goto(IF todo # {} THEN "write" ELSE IF file = "kubeconfig" THEN "ready" ELSE "apply")
    /\ UNCHANGED <<nodeVars, clusterVars, upVars, destroyVars, budgets>>

\* applyConfiguration, over the maintenance API.
Apply ==
    /\ pc = "apply" /\ stage[cur] = "maintenance"
    /\ stage' = [stage EXCEPT ![cur] = "installing"]
    /\ pki' = [pki EXCEPT ![cur] = conf]
    /\ \/ Goto("installed") /\ UNCHANGED <<upVars, destroyVars>>
       \/ Lossy /\ End("failed")
    /\ UNCHANGED <<dirVars, vm, installed, etcd, clusterVars, budgets>>

\* A step that needs the node or the disk fails before it has any effect.
StepFails ==
    /\ pc \in {"generate", "writing", "apply", "storage"}
    /\ Lossy \/ (pc = "apply" /\ stage[cur] # "maintenance")
             \/ (pc = "storage" /\ ~KubeAnswers(cur, kube))
    /\ Stay("failed")

\* Faulty: a joiner goes on to bootstrap.
WaitInstalledThenBootstrap ==
    /\ pc = "installed"
    /\ \/ /\ TalosAnswers(cur, conf) /\ Goto("bootstrap")
          /\ UNCHANGED <<dirVars, nodeVars, clusterVars, upVars, destroyVars, budgets>>
       \/ GivesUp(TalosAnswers(cur, conf)) /\ Stay("failed")

\* WaitBootstrapReady.  A joiner then takes the owner's kubeconfig (joined).
WaitInstalled ==
    /\ pc = "installed"
    /\ \/ /\ TalosAnswers(cur, conf)
          /\ IF Joins[cur] = NoMachine THEN Goto("bootstrap") /\ UNCHANGED todo
             ELSE Goto("write") /\ todo' = {"kubeconfig"}
          /\ UNCHANGED <<dirVars, nodeVars, clusterVars, sawRunning, stopped, join, kube,
                         conf, file, destroyVars, budgets>>
       \/ GivesUp(TalosAnswers(cur, conf)) /\ Stay("failed")

\* bootstrapEtcd: the node accepts once; the answer may be lost, and then the
\* retry is refused like any other second bootstrap.
Bootstrap ==
    /\ pc = "bootstrap" /\ TalosAnswers(cur, conf) /\ etcd[cur] = "empty"
    /\ etcd' = [etcd EXCEPT ![cur] = "data"]
    /\ members' = [members EXCEPT ![conf] = @ \cup {cur}]
    /\ boots' = [boots EXCEPT ![conf] = @ + 1]
    /\ Goto("fetch") \/ (Lossy /\ Goto("bootstrap"))
    /\ UNCHANGED <<dirVars, vm, stage, pki, installed, nodes, minted, excused, torn, upVars,
                   destroyVars, budgets>>

\* alreadyBootstrapped, and awaitingQuorum when members are stopped.
AlreadyBootstrapped ==
    /\ pc = "bootstrap" /\ TalosAnswers(cur, conf) /\ etcd[cur] = "data"
    /\ IF stopped # {} THEN Stay("awaiting")
       ELSE /\ Goto("fetch")
            /\ UNCHANGED <<dirVars, nodeVars, clusterVars, upVars, destroyVars, budgets>>

BootstrapFails ==
    /\ pc = "bootstrap"
    /\ Lossy \/ GivesUp(TalosAnswers(cur, conf) /\ etcd[cur] \in {"empty", "data"})
    /\ Stay("failed")

\* fetchKubeconfig, with KubeconfigWithServer.
FetchKubeconfig ==
    /\ pc = "fetch"
    /\ \/ /\ TalosAnswers(cur, conf) /\ etcd[cur] = "data"
          /\ kube' = conf /\ todo' = {"kubeconfig"}
          /\ Goto("write")
          /\ UNCHANGED <<dirVars, nodeVars, clusterVars, sawRunning, stopped, join, conf,
                         file, destroyVars, budgets>>
       \/ GivesUp(TalosAnswers(cur, conf) /\ etcd[cur] = "data") /\ Stay("failed")

\* The creator asks for every node, a joiner for its own.
Ready ==
    /\ KubeAnswers(cur, kube)
    /\ IF Joins[cur] = NoMachine
         THEN EveryNodeReady(kube) ELSE NodeReadyAt(cur, kube)

WaitReady ==
    /\ pc = "ready"
    /\ \/ /\ Ready /\ Joins[cur] = NoMachine /\ cur \in WithStorage
          /\ Goto("storage")
          /\ UNCHANGED <<dirVars, nodeVars, clusterVars, upVars, destroyVars, budgets>>
       \/ Ready /\ (Joins[cur] # NoMachine \/ cur \notin WithStorage) /\ Stay("ready")
       \/ GivesUp(Ready) /\ Stay("failed")

InstallStorage == pc = "storage" /\ KubeAnswers(cur, kube) /\ Stay("ready")

-----------------------------------------------------------------------------
(* Destroy. *)

Forced == flags \in {"force", "both"}
WithJoiners(f) == f \in {"joiners", "both"}

\* Faulty: --with-joiners takes the whole cluster, whichever machine it is for.
DestroyAsWhole(m, f) ==
    /\ pc = "idle"
    /\ cur' = m /\ item' = m
    /\ IF JoinersOf(m) # {} /\ f = "none"
         THEN pc' = "idle" /\ report' = "refused" /\ UNCHANGED <<flags, whole, doomed>>
         ELSE /\ pc' = "next" /\ report' = "none" /\ flags' = f
              /\ whole' = (JoinersOf(m) # {} /\ WithJoiners(f))
              /\ doomed' = {m} \cup (IF WithJoiners(f) THEN AllJoinersOf(m) ELSE {})
    /\ UNCHANGED <<dirVars, nodeVars, clusterVars, upVars, budgets>>

\* destroyMachine decides from the records which machines go.
DestroyBegin(m, f) ==
    /\ pc = "idle"
    /\ cur' = m /\ item' = m
    /\ IF JoinersOf(m) # {} /\ f = "none"
         THEN /\ pc' = "idle" /\ report' = "refused"
              /\ UNCHANGED <<flags, whole, doomed>>
         ELSE /\ pc' = "next" /\ report' = "none" /\ flags' = f
              /\ whole' = (JoinersOf(m) # {} /\ WithJoiners(f) /\ Joins[m] = NoMachine)
              /\ doomed' = {m} \cup (IF WithJoiners(f) THEN AllJoinersOf(m) ELSE {})
    /\ UNCHANGED <<dirVars, nodeVars, clusterVars, upVars, budgets>>

\* Faulty: the joiner in the file goes without leaving.
LeavesOthersOnly(j) == j # cur /\ ~whole /\ talosconfig[j] # NoBundle

\* The next machine, before the one it joined.  A joiner with a talosconfig
\* leaves etcd first, unless the whole cluster goes (leaveCluster).
Leaves(j) ==
    /\ IF j = cur THEN Joins[j] # NoMachine ELSE ~whole
    /\ talosconfig[j] # NoBundle

DestroyNext(j) ==
    /\ pc = "next" /\ j \in doomed /\ \A k \in doomed \ {j} : Joins[k] # j
    /\ item' = j
    /\ Goto(IF Leaves(j) THEN "leave" ELSE "sweep")
    /\ UNCHANGED <<dirVars, nodeVars, clusterVars, upVars, flags, whole, doomed, budgets>>

\* A running member leaves by itself (LeaveEtcd) ...
CanLeave(j) ==
    /\ vm[j] = "running" /\ TalosAnswers(j, talosconfig[j])
    /\ j \in Voting(talosconfig[j]) /\ Quorum(talosconfig[j])

\* ... a stopped one is removed through another machine that runs
\* (RemoveEtcdMember), which is content to find no such member.
RunningMembers(j) == {o \in Machines \ {j} : record[o] /\ vm[o] = "running"}
CanRemove(j, via) == vm[j] # "running" /\ via \in RunningMembers(j) /\ Serves(via, talosconfig[j])

LeaveEtcd ==
    /\ pc = "leave"
    /\ CanLeave(item) \/ \E via \in Machines : CanRemove(item, via)
    /\ members' = [members EXCEPT ![talosconfig[item]] = @ \ {item}]
    /\ etcd' = IF vm[item] = "running" THEN [etcd EXCEPT ![item] = "left"] ELSE etcd
    /\ \/ Goto("deleteNode") /\ UNCHANGED <<upVars, destroyVars>>
       \/ Lossy /\ ~Forced /\ End("refused")
    /\ UNCHANGED <<dirVars, vm, stage, pki, installed, nodes, minted, boots, excused, torn, budgets>>

\* Not removed: refused, or taken anyway with --force.
LeaveFails ==
    /\ pc = "leave"
    /\ \/ Lossy
       \/ vm[item] = "running" /\ ~CanLeave(item)
       \/ vm[item] # "running" /\ RunningMembers(item) = {}
       \/ vm[item] # "running" /\ \E via \in RunningMembers(item) : ~CanRemove(item, via)
    /\ IF Forced
         THEN /\ Goto("sweep")
              /\ excused' = excused \cup {<<talosconfig[item], item>>}
              /\ UNCHANGED <<dirVars, nodeVars, members, nodes, minted, boots, torn, upVars,
                             destroyVars, budgets>>
         ELSE Stay("refused")

\* DeleteNodeAt; a failure is only logged.
DeleteNode ==
    /\ pc = "deleteNode"
    /\ \/ /\ KubeAnswers(item, kubeconfig[item])
          /\ nodes' = [nodes EXCEPT ![kubeconfig[item]] = @ \ {item}]
       \/ (Lossy \/ ~KubeAnswers(item, kubeconfig[item])) /\ UNCHANGED nodes
    /\ Goto("sweep")
    /\ UNCHANGED <<dirVars, nodeVars, members, minted, boots, excused, torn, upVars,
                   destroyVars, budgets>>

\* An etcd whose last data directory goes is no more, and the Nodes with it.
Outlives(b) == \E m \in Machines \ {item} : pki[m] = b /\ etcd[m] = "data"

\* What a state directory holds, as far as anyone reads it, and what is left of
\* m's: what an installed disk holds outlives the VM.
Contents == {"record", "talosconfig", "secrets", "endpoint", "kubeconfig", "disk"}
Remains(m, left) ==
    LET kept(f, b) == IF f \in left THEN b ELSE NoBundle
    IN  /\ record' = [record EXCEPT ![m] = @ /\ "record" \in left]
        /\ talosconfig' = [talosconfig EXCEPT ![m] = kept("talosconfig", @)]
        /\ secrets' = [secrets EXCEPT ![m] = kept("secrets", @)]
        /\ endpoint' = [endpoint EXCEPT ![m] = kept("endpoint", @)]
        /\ kubeconfig' = [kubeconfig EXCEPT ![m] = kept("kubeconfig", @)]
        /\ vm' = [vm EXCEPT ![m] = IF "disk" \in left /\ @ # "absent" THEN "stopped" ELSE "absent"]
        /\ stage' = [stage EXCEPT ![m] = "off"]
        /\ pki' = [pki EXCEPT ![m] = IF installed[m] THEN kept("disk", @) ELSE NoBundle]
        /\ installed' = [installed EXCEPT ![m] = @ /\ "disk" \in left]
        /\ etcd' = [etcd EXCEPT ![m] = IF "disk" \in left THEN @ ELSE "empty"]

\* Faulty: the files of the first run stay.
WipeDisksOnly(m) == Remains(m, {"secrets", "endpoint", "kubeconfig"})

\* Nothing of m is left.
Wipe(m) == Remains(m, {})

\* With the flags that say so, the creator of a cluster takes it along.
Asked == IF Joins[cur] = NoMachine /\ flags # "none" THEN {<<pki[item], item>>} ELSE {}

\* The disk of item goes, and with it every cluster that has no data elsewhere.
DiskGoes ==
    /\ members' = [b \in Bundles |-> IF Outlives(b) THEN members[b] ELSE {}]
    /\ nodes' = [b \in Bundles |-> IF Outlives(b) THEN nodes[b] ELSE {}]
    /\ excused' = {e \in excused \cup Asked : Outlives(e[1])}

\* hvf.Destroy; for the machine of the file through standalone, which does
\* nothing when there is no disk.
NothingToSweep == item = cur /\ vm[item] = "absent"

Sweep ==
    /\ pc = "sweep"
    /\ IF NothingToSweep THEN UNCHANGED <<dirVars, nodeVars>> ELSE Wipe(item)
    /\ DiskGoes
    /\ IF doomed = {item} THEN End("destroyed")
       ELSE /\ doomed' = doomed \ {item}
            /\ Goto("next")
            /\ UNCHANGED <<upVars, flags, whole, item>>
    /\ UNCHANGED <<minted, boots, torn, budgets>>

\* Destroy stops the VM, and fails or is killed in os.RemoveAll, which goes
\* through the directory in no order the code chooses and on past what it cannot
\* remove: any of it may be left.
BundlesOf(m) == {pki[m], talosconfig[m], secrets[m], endpoint[m], kubeconfig[m]} \ {NoBundle}

SweepFails ==
    /\ pc = "sweep" /\ ~NothingToSweep
    /\ kills < MaxKills /\ kills' = kills + 1
    /\ \E left \in SUBSET Contents :
         /\ Remains(item, left)
         /\ IF "disk" \in left THEN UNCHANGED <<members, nodes, excused>> ELSE DiskGoes
         /\ torn' = IF left = Contents THEN torn ELSE torn \cup (BundlesOf(item) \X {item})
    /\ End(IF Lossy THEN "failed" ELSE "killed")
    /\ UNCHANGED <<minted, boots, stops, cuts>>

-----------------------------------------------------------------------------
(* The nodes and the world. *)

NodeBoots(m) ==
    /\ MayBoot(m)
    /\ stage' = [stage EXCEPT ![m] = IF installed[m] THEN "serving" ELSE "maintenance"]
    /\ etcd' = [etcd EXCEPT ![m] = IF @ = "left" THEN "empty" ELSE @]
    /\ UNCHANGED <<dirVars, vm, pki, installed, clusterVars, pc, cur, upVars, destroyVars,
                   report, budgets>>

NodeInstalls(m) ==
    /\ MayInstall(m)
    /\ stage' = [stage EXCEPT ![m] = "serving"]
    /\ installed' = [installed EXCEPT ![m] = TRUE]
    /\ UNCHANGED <<dirVars, vm, pki, etcd, clusterVars, pc, cur, upVars, destroyVars,
                   report, budgets>>

\* A control-plane node with an empty etcd joins the cluster of its bundle.
NodeJoins(m) ==
    /\ MayJoin(m)
    /\ members' = [members EXCEPT ![pki[m]] = @ \cup {m}]
    /\ etcd' = [etcd EXCEPT ![m] = "data"]
    /\ UNCHANGED <<dirVars, vm, stage, pki, installed, nodes, minted, boots, excused, torn,
                   pc, cur, upVars, destroyVars, report, budgets>>

NodeRegisters(m) ==
    /\ MayRegister(m)
    /\ nodes' = [nodes EXCEPT ![pki[m]] = @ \cup {m}]
    /\ UNCHANGED <<dirVars, nodeVars, members, minted, boots, excused, torn, pc, cur, upVars,
                   destroyVars, report, budgets>>

\* The VMs of ms stop: a config that is not on the disk yet is lost.
Halt(ms) ==
    /\ vm' = [m \in Machines |-> IF m \in ms /\ vm[m] = "running" THEN "stopped" ELSE vm[m]]
    /\ stage' = [m \in Machines |-> IF m \in ms THEN "off" ELSE stage[m]]
    /\ pki' = [m \in Machines |-> IF m \in ms /\ ~installed[m] THEN NoBundle ELSE pki[m]]
    /\ UNCHANGED <<dirVars, installed, etcd, clusterVars, pc, cur, upVars, destroyVars,
                   report, kills>>

VMStops(m) ==
    /\ stops < MaxStops /\ vm[m] = "running"
    /\ Halt({m}) /\ stops' = stops + 1 /\ UNCHANGED cuts

PowerCut ==
    /\ cuts < MaxCuts /\ pc = "idle"
    /\ Halt(Machines) /\ cuts' = cuts + 1 /\ UNCHANGED stops

TinqKilled ==
    /\ kills < MaxKills /\ pc # "idle"
    /\ End("killed") /\ kills' = kills + 1
    /\ UNCHANGED <<dirVars, nodeVars, clusterVars, stops, cuts>>

-----------------------------------------------------------------------------
Init ==
    /\ record = [m \in Machines |-> FALSE]
    /\ talosconfig = [m \in Machines |-> NoBundle]
    /\ secrets = [m \in Machines |-> NoBundle]
    /\ endpoint = [m \in Machines |-> NoBundle]
    /\ kubeconfig = [m \in Machines |-> NoBundle]
    /\ vm = [m \in Machines |-> "absent"]
    /\ stage = [m \in Machines |-> "off"]
    /\ pki = [m \in Machines |-> NoBundle]
    /\ installed = [m \in Machines |-> FALSE]
    /\ etcd = [m \in Machines |-> "empty"]
    /\ members = [b \in Bundles |-> {}]
    /\ nodes = [b \in Bundles |-> {}]
    /\ pc = "idle" /\ cur \in Machines /\ report = "none"
    /\ sawRunning = FALSE /\ stopped = {} /\ join = NoBundle /\ kube = NoBundle
    /\ conf = NoBundle /\ todo = {} /\ file = "none"
    /\ flags = "none" /\ whole = FALSE /\ doomed = {} /\ item = cur
    /\ minted = {} /\ boots = [b \in Bundles |-> 0] /\ excused = {} /\ torn = {}
    /\ kills = 0 /\ stops = 0 /\ cuts = 0

UpStep ==
    \/ UpOptions \/ UpRefused \/ Boot \/ BootFails \/ ReadTalosconfig
    \/ WaitMaintenance \/ Generate \/ (\E f \in Artifacts \cup {"kubeconfig"} : RemoveArtifact(f))
    \/ WriteArtifact \/ Apply \/ StepFails \/ WaitInstalled \/ Bootstrap
    \/ AlreadyBootstrapped \/ BootstrapFails \/ FetchKubeconfig \/ WaitReady
    \/ InstallStorage

DestroyStep ==
    \/ (\E j \in Machines : DestroyNext(j)) \/ LeaveEtcd \/ LeaveFails \/ DeleteNode
    \/ Sweep \/ SweepFails

NodeStep(m) == NodeBoots(m) \/ NodeInstalls(m) \/ NodeJoins(m) \/ NodeRegisters(m)

Next ==
    \/ \E m \in Machines :
         \/ UpBegin(m) \/ NodeStep(m) \/ VMStops(m)
         \/ \E f \in DestroyFlags : DestroyBegin(m, f)
    \/ UpStep \/ DestroyStep \/ PowerCut \/ TinqKilled

Spec == Init /\ [][Next]_vars

\* Under FairSpec tinq and the nodes keep going, and the operator keeps running
\* `tinq up' on each machine.
FairSpec ==
    /\ Spec
    /\ WF_vars(UpStep) /\ WF_vars(DestroyStep)
    /\ \A m \in Machines : WF_vars(NodeStep(m)) /\ SF_vars(UpBegin(m))

-----------------------------------------------------------------------------
(* Properties. *)

Files == [Machines -> Bundles \cup {NoBundle}]

DirTypes ==
    /\ record \in [Machines -> BOOLEAN]
    /\ talosconfig \in Files /\ secrets \in Files /\ endpoint \in Files /\ kubeconfig \in Files

NodeTypes ==
    /\ vm \in [Machines -> {"absent", "stopped", "running"}]
    /\ stage \in [Machines -> {"off", "maintenance", "installing", "serving"}]
    /\ pki \in Files
    /\ installed \in [Machines -> BOOLEAN]
    /\ etcd \in [Machines -> {"empty", "data", "left"}]

ClusterTypes ==
    /\ members \in [Bundles -> SUBSET Machines] /\ nodes \in [Bundles -> SUBSET Machines]
    /\ minted \subseteq Bundles /\ boots \in [Bundles -> Nat]
    /\ excused \subseteq (Bundles \cup {NoBundle}) \X Machines
    /\ torn \subseteq Bundles \X Machines

UpTypes ==
    /\ sawRunning \in BOOLEAN /\ stopped \subseteq Machines
    /\ {join, kube, conf} \subseteq Bundles \cup {NoBundle}
    /\ todo \subseteq Artifacts \cup {"kubeconfig"}
    /\ file \in Artifacts \cup {"kubeconfig", "none"}

DestroyTypes ==
    flags \in AllFlags /\ whole \in BOOLEAN /\ doomed \subseteq Machines /\ item \in Machines

\* Every variable holds a value of its kind.
TypeOK ==
    /\ DirTypes /\ NodeTypes /\ ClusterTypes /\ UpTypes /\ DestroyTypes
    /\ pc \in {"idle"} \cup UpSteps \cup DestroySteps /\ cur \in Machines
    /\ report \in Reports
    /\ kills \in 0..MaxKills /\ stops \in 0..MaxStops /\ cuts \in 0..MaxCuts

\* No removal of a machine of cluster b has stopped part-way.
Spared(b, ts) == \A m \in Machines : <<b, m>> \notin ts
Intact(b) == Spared(b, torn)

\* A node that holds a config can be reached: the talosconfig and the secrets
\* its config was made from are in its state directory.  Up writes them before
\* it applies the config and never again once there is a talosconfig: a second
\* bundle would "take away the only way back in".  A destroy that stopped
\* part-way may have taken them from a disk it left, but no run puts others in
\* their place.
CredentialsOnDisk ==
    \A m \in Machines : pki[m] # NoBundle =>
        /\ {talosconfig[m], secrets[m]} \subseteq {pki[m], NoBundle}
        /\ <<pki[m], m>> \notin torn => talosconfig[m] = pki[m] /\ secrets[m] = pki[m]

\* Etcd is bootstrapped once per cluster.  A joiner's empty etcd would accept a
\* second bootstrap and split the cluster; an owner that was stopped, killed or
\* left without an answer must not bootstrap again.
OneEtcdPerBundle == \A b \in Bundles : boots[b] <= 1

\* Every vote of an etcd can be collected again: a machine in the member list
\* still has its data, unless the operator destroyed it with --force or with
\* its whole cluster.  Destroy leaves etcd before it takes the VM, and keeps
\* the VM when it could not.  (Of clusters that no removal left part-way: a
\* joiner that is started again without its talosconfig is a member that the
\* next destroy takes for one that "was never configured".  And of runs without
\* --force, or of clusters without chains: a link taken by force hides the
\* machines behind it from the next destroy.)
NoGhostVoter ==
    \A b \in Bundles : Intact(b) => \A m \in members[b] :
        (pki[m] = b /\ etcd[m] = "data") \/ <<b, m>> \in excused

\* The machine a node joined still holds the secrets the node was built from:
\* destroy refuses to take an owner from its joiners, however far a joiner's
\* own `up' has come.  (Of runs without --force, and of clusters that no removal
\* left part-way: a joiner whose record is gone is nobody's joiner.)
OwnerSecretsKept ==
    \A m \in Machines : pki[m] # NoBundle /\ Joins[m] # NoMachine /\ Intact(pki[m]) =>
        secrets[Joins[m]] = pki[m]

\* A kubeconfig is for the cluster its machine belongs to, a joiner's included,
\* which it copies from the owner at the end of every `up'.  (Of runs without
\* --force, and of clusters that no removal left part-way.)
KubeconfigMatches ==
    \A m \in Machines : kubeconfig[m] # NoBundle /\ Intact(kubeconfig[m]) /\ Intact(talosconfig[m]) =>
        kubeconfig[m] = talosconfig[m]

\* A config was written to the state dir and the node does not hold it.
Wedged(m) == talosconfig[m] # NoBundle /\ pki[m] = NoBundle

\* The kubeconfig that joiners take from the creator of a running cluster is
\* gone: a run was killed between its removal and its write.
KubeconfigLost(m) == Joins[m] = NoMachine /\ etcd[m] = "data" /\ kubeconfig[m] = NoBundle

\* A destroy ended half-way.  The machine left etcd and was not swept, and
\* neither `up' nor a second destroy has anything to say to it before it reboots;
\* or its node outlived the files it was built from, or, its own record gone,
\* the cluster it had joined.
HalfLeft(m) ==
    \/ etcd[m] = "left"
    \/ pki[m] # NoBundle /\ \/ NoBundle \in {talosconfig[m], secrets[m], endpoint[m]}
                            \/ pki[m] # pki[Root[m]]

\* A vote that nobody can cast: NoGhostVoter says where it may come from.
GhostVoter(m) == \E b \in Bundles : m \in members[b] /\ ~(pki[m] = b /\ etcd[m] = "data")

\* Re-running `up' brings every machine up, however often runs were killed, VMs
\* stopped and machines destroyed, with whatever a destroy left in the cluster:
\* a Node object that was not deleted is NotReady, and fails the `up' of the
\* creator, only until its machine is up again.  The exceptions are "the one
\* failure a retry cannot repair", a config that was written and that the node
\* never took; a creator left for good without its kubeconfig; a machine left
\* half-way by a destroy; and the vote of one that was started again after it.
\* (Destroying must end some day, and the bound on bundles not be met.)
RetrySucceeds ==
    \A m \in Machines :
        \/ <>[](\E n \in Machines : Wedged(n))
        \/ <>[](\E n \in Machines : KubeconfigLost(n))
        \/ <>[](\E n \in Machines : HalfLeft(n))
        \/ <>[](\E n \in Machines : GhostVoter(n))
        \/ <>[](\E n \in Machines : ~MayMint(n))
        \/ []<>(pc \in DestroySteps)
        \/ []<>(cur = m /\ report = "ready")

\* `tinq up' on a stopped cluster, the owner first, never fails: the owner
\* restarts without a quorum, the members that follow bring it.
RestartWorks == report # "failed"

\* What fail() advises for a wedged machine, `tinq destroy <this file>', is not
\* refused: the owner is healthy and nothing is lost on the way.
WedgedIsDestroyed ==
    [][pc = "leave" /\ Wedged(item) /\ Serves(Root[item], talosconfig[item])
         => report' # "refused"]_vars
-----------------------------------------------------------------------------
(* Inductive invariants: what the properties above rest on. *)

Creator(m) == Joins[m] = NoMachine

\* The files of a first run are being written, or the kubeconfig is.
WritingArtifacts == \/ pc = "write" /\ todo \subseteq Artifacts
                    \/ pc = "writing" /\ file \in Artifacts
WritingKubeconfig == \/ pc = "write" /\ todo = {"kubeconfig"}
                     \/ pc = "writing" /\ file = "kubeconfig"

\* A first run, up to the apply.
FirstRun == pc \in {"maintenance", "generate", "apply"} \/ WritingArtifacts

\* The run is past its config.
Resumed == pc \in {"installed", "bootstrap", "fetch", "ready", "storage"} \/ WritingKubeconfig

\* What writeArtifacts has written.
Written == IF pc = "write" THEN Artifacts \ todo
           ELSE IF pc = "writing" THEN Artifacts \ (todo \cup {file}) ELSE Artifacts

RunInv ==
    /\ pc = "write" => WritingArtifacts \/ WritingKubeconfig
    /\ pc = "writing" => /\ file # "none"
                         /\ file \in Artifacts => todo \subseteq Artifacts \ {file}
                         /\ file = "kubeconfig" => todo = {}
    /\ pc = "bootstrap" => Creator(cur)
    /\ pc \in DestroySteps => \A j \in doomed \ {cur} : ~Creator(j)
    /\ pc = "leave" => ~Creator(item)

\* The config of a node is on its disk or on the way there.
PlacedInv ==
    \A m \in Machines : /\ pki[m] # NoBundle => installed[m] \/ stage[m] = "installing"
                        /\ stage[m] = "maintenance" => ~installed[m]

\* A node holds the bundle of its files.
CredentialsInv ==
    /\ CredentialsOnDisk
    /\ FirstRun /\ pc # "maintenance" => pki[cur] = NoBundle
    /\ WritingArtifacts \/ pc = "apply" =>
         /\ "talosconfig" \in Written => talosconfig[cur] = conf
         /\ "secrets" \in Written => secrets[cur] = conf

\* A run knows the talosconfig of its machine: there is none before it writes
\* one, and from there on the one in hand.
ConfInv ==
    /\ pc \in {"maintenance", "generate"} => talosconfig[cur] = NoBundle
    /\ WritingArtifacts \/ pc = "apply" => talosconfig[cur] \in {NoBundle, conf}
    /\ Resumed => talosconfig[cur] = conf

\* A creator has a bundle of its own, and its etcd is empty until the bundle's
\* one bootstrap.
BootstrapInv ==
    /\ \A b \in Bundles : boots[b] <= 1 /\ (boots[b] > 0 => b \in minted)
    /\ \A m \in Machines : Creator(m) =>
         /\ etcd[m] # "left"
         /\ pki[m] # NoBundle => /\ pki[m] \in minted
                                 /\ etcd[m] = "empty" => boots[pki[m]] = 0
                                 /\ \A n \in Machines : Creator(n) /\ pki[n] = pki[m] => n = m
    /\ Creator(cur) /\ (WritingArtifacts \/ pc = "apply") =>
         /\ conf \in minted /\ boots[conf] = 0
         /\ \A n \in Machines : Creator(n) => pki[n] # conf

\* The inductive invariant of up and destroy with any flags: the types, and who
\* may hold which bundle at each step of a run.
Inv == TypeOK /\ RunInv /\ PlacedInv /\ CredentialsInv /\ ConfInv /\ BootstrapInv

\* A node has its config, its disk and its data in this order, and no machine
\* runs, or has a file of an intact cluster, without a record.
NodesOK ==
    \A m \in Machines :
      /\ etcd[m] = "data" \/ stage[m] = "serving" => installed[m]
      /\ installed[m] \/ stage[m] = "installing" => pki[m] # NoBundle
      /\ installed[m] => vm[m] # "absent"
      /\ stage[m] # "off" => vm[m] = "running"
      /\ vm[m] = "running" => record[m]
      /\ \A b \in {talosconfig[m], secrets[m]} \ {NoBundle} : Intact(b) => record[m]

\* From its boot on, the machine that is brought up has a record.
RecordRun ==
    /\ pc \in {"options", "boot"} =>
         IF sawRunning THEN record[cur] ELSE vm[cur] # "running"
    /\ pc \in UpSteps \ {"options", "boot"} => record[cur]

\* Machine o is a member of cluster b for good, as far as its files can tell.
Settled(o, b) ==
    b # NoBundle /\ talosconfig[o] = b /\ secrets[o] = b /\ (Creator(o) => etcd[o] = "data")

\* Files agree along the joins of an intact cluster: whoever joins, joins a
\* settled machine.
FilesInv ==
    /\ \A m \in Machines : ~Creator(m) => \A b \in {talosconfig[m], secrets[m]} \ {NoBundle} :
                              Intact(b) => Settled(Joins[m], b)
    /\ \A m \in Machines : kubeconfig[m] # NoBundle /\ Intact(kubeconfig[m]) /\ Intact(talosconfig[m]) =>
         Settled(m, kubeconfig[m])
    /\ \A m \in Machines : Creator(m) /\ secrets[m] # NoBundle =>
         /\ secrets[m] \in minted
         /\ \A n \in Machines : Creator(n) /\ secrets[n] = secrets[m] => n = m

\* The files of the machine that is brought up.
FilesRun ==
    /\ FirstRun => /\ kubeconfig[cur] # NoBundle => ~Intact(kubeconfig[cur])
                   /\ \A m \in Machines : Joins[m] = cur =>
                        \A b \in {talosconfig[m], secrets[m]} \ {NoBundle} : ~Intact(b)
    /\ ~Creator(cur) /\ pc \in UpSteps \ {"options"} =>
         /\ Intact(talosconfig[cur]) => /\ talosconfig[cur] \in {join, NoBundle}
                                        /\ Intact(join) => Settled(Joins[cur], join)
         /\ Intact(join) /\ Intact(kube) => kube = join
    /\ ~Creator(cur) /\ (WritingArtifacts \/ pc = "apply") => conf = join
    /\ Creator(cur) /\ (WritingArtifacts \/ pc = "apply") =>
         \A n \in Machines \ {cur} : Creator(n) => secrets[n] # conf
    /\ pc = "fetch" => Creator(cur)
    /\ WritingKubeconfig /\ Intact(kube) /\ Intact(talosconfig[cur]) => Settled(cur, kube)

\* Machine j is out of etcd and has no way back.
Gone(j) ==
    /\ j \notin members[talosconfig[j]]
    /\ vm[j] = "running" => stage[j] = "serving" /\ etcd[j] = "left"

\* A destroy without --force takes joiners along, and before their owner.
DestroyInv ==
    /\ flags \in {"none", "joiners"}
    /\ pc \in DestroySteps => /\ \A k \in doomed : JoinersOf(k) \subseteq doomed
                              /\ \A k \in doomed \ {cur} : Joins[k] \in doomed
                              /\ whole => Creator(cur) /\ flags # "none"
    /\ pc \in {"leave", "deleteNode", "sweep"} =>
         /\ item \in doomed /\ JoinersOf(item) = {}
         /\ \A k \in doomed \ {item} : Joins[k] # item
    /\ pc \in {"leave", "deleteNode"} => Leaves(item)
    /\ pc = "deleteNode" \/ (pc = "sweep" /\ Leaves(item)) => Gone(item)

\* A creator with data is a member, and nobody is before the bootstrap; the
\* creator that bootstrapped an etcd never leaves it, so no list is emptied by
\* leaving.
MembersInv ==
    /\ \A b \in Bundles : boots[b] = 0 => members[b] = {}
    /\ \A b \in Bundles : members[b] # {} => \E c \in members[b] : Creator(c)
    /\ \A m \in Machines : Creator(m) /\ etcd[m] = "data" => m \in members[pki[m]]

\* The inductive invariant of runs without --force.
KeptInv ==
    /\ NodesOK /\ RecordRun /\ FilesInv /\ FilesRun /\ DestroyInv
    /\ MembersInv /\ NoGhostVoter

\* With --force too, where nobody joins a joiner.  The creator whose bundle a
\* machine is given:
OwnerOf(m) == IF Creator(m) THEN m ELSE Joins[m]

\* Bundle b was minted for the cluster of creator c, and nobody else has it.
OfCluster(b, c) == b \in minted /\ \A n \in Machines : secrets[n] = b => OwnerOf(n) = c

\* No bundle passes from one cluster to another, though its creator may be gone
\* and have minted the next.
SecretsInv ==
    /\ \A m \in Machines : secrets[m] # NoBundle => OfCluster(secrets[m], OwnerOf(m))
    /\ ~Creator(cur) /\ pc \in UpSteps \ {"options"} => OfCluster(join, OwnerOf(cur))
    /\ WritingArtifacts \/ pc = "apply" => OfCluster(conf, OwnerOf(cur))

\* A destroy that its flags do not excuse takes one machine, which nobody joined
\* and which has left etcd, if it had to, or was given up.
ForcedInv ==
    /\ pc \in DestroySteps /\ (~Creator(cur) \/ flags = "none") =>
         doomed \subseteq {cur} /\ JoinersOf(cur) = {}
    /\ pc \in {"leave", "deleteNode", "sweep"} => item \in doomed
    /\ pc = "deleteNode" \/ (pc = "sweep" /\ Leaves(item)) =>
         Gone(item) \/ <<talosconfig[item], item>> \in excused

\* The inductive invariant of clusters without chains, with any flags.
StarInv == NodesOK /\ RecordRun /\ SecretsInv /\ ForcedInv /\ MembersInv /\ NoGhostVoter
=============================================================================
