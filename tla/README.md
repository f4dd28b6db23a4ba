# A TLA+ model of TinQ

TinQ (`tinq`) runs Talos Linux nodes as QEMU virtual machines, and adopts bare
metal as nodes of the same clusters. It is driven in two ways that share one
driver: verbs on a machine file (`apply`, `up`, `stop`, `destroy`, `adopt`,
`reconfigure`) and a Kubernetes controller that reconciles `TalosMachine`
objects. This directory holds a TLA+ model of it: modules translated from the
source, TLC configurations that check them on small instances, and proofs that
TLAPS checks for every instance.

    tlc -workers 2 -config MCMachine.cfg MCMachine        # one run
    tlapm MachineProofs.tla                               # one proof module

`PROJECT.json` is the index: which definition models which lines of the source,
the runs, the faulty variants that show each property has teeth, the findings,
the hazards and the theorems.

## 1. Inventory

| component | source | state it keeps | operations |
|---|---|---|---|
| VM driver (`hvf`) | `cmd/tinq/main.go` | a state directory per machine (`<root>/<site>/<uid>`: machine record, `system.qcow2`, `qemu.pid`, `swtpm.pid`, `talosconfig`), the processes it started | Observe, Create, Stop, Destroy |
| process identity | `platform/process.go` | none | ProcessMatches |
| software TPM | `cmd/tinq/main.go` | `swtpm.pid`, a socket, NVRAM | ensureSWTPM, the signal in destroy |
| controller loop | `driverkit/driverkit.go` | none but the API server's objects: finalizers, status | List, reconcile, publish |
| bare metal | `cmd/tinq/adopt.go` | a state directory with the only credential to a node | adopt, Observe, no-op Create/Stop, forget |
| bring-up | `cluster/up.go`, `cluster/client.go` | artifacts in the state directory; the node's mode; etcd | the ten steps of Up |
| membership | `cmd/tinq/lifecycle.go`, `cmd/tinq/join.go`, `cluster/membership.go` | machine records naming an owner; etcd's member list | join, leave, destroy with joiners, restart of a stopped cluster |
| site checks | `cmd/tinq/clusternet.go`, `capacity.go`, `segment.go` | machine records | checkSite, checkCapacity, probeSegment |
| reconfigure | `cmd/tinq/reconfigure.go`, `cluster/reconfigure.go` | the stored secrets and config | regenerate, apply, write |
| config generation | `cluster/config.go`, `storage.go`, `network.go`, `version.go` | none | GenerateConfig and its checks |
| node facts | `cluster/nodeinfo.go`, `nodeidentity.go` | none | what a node reports, compared with the manifest |
| host platform | `platform/*.go` | none but a memoized answer in the controller | accelerator, firmware and image detection |

How they interact. A verb and a controller tick both end in the driver's four
operations. `up` is Create followed by the bring-up. The site checks run inside
Create and read the machine records of the neighbours. Membership wraps
`destroy` (a member leaves etcd first) and `up` (a joiner needs its owner). No
lock is taken anywhere: the repository's README asks for one `up` or `destroy`
at a time per site, and the controller is serial.

What is hard.

* *Pids.* A pidfile outlives its process, across a reboot too, and the kernel
  hands the pid to anybody. Every look at a process is a look at an identity.
* *Waiting.* Stopping is a ladder (shutdown request, SIGTERM, SIGKILL) of waits
  that a deadline, an exit or a cancelled context may end.
* *Partial failure.* Every step may fail or be the last one before a kill; all
  verbs are meant to be run again. The removal of a state directory is many steps,
  in no order the code chooses.
* *Staleness.* The controller works from a list while users edit, delete and
  re-create objects; its patches go by name.
* *Quorum.* The nodes of one cluster are started and destroyed one by one, while
  their etcd needs a majority of them.
* *Check, then act.* Site checks and capacity are decided from files before
  anything is created.
* *A host that changes.* Firmware packages, descriptors and `/dev/kvm` come and
  go, while a controller keeps the answer of one Detect for its whole life and a
  guest's keys and sealed disk depend on what it was given at first.
* *Three copies of a config.* What a machine file says, what the node holds and
  what the state directory records drift apart with every edit, upgrade, lost
  answer and kill.

What makes each part correct: no signal to a stranger, one writer per disk, no
disk removed under a writer, a report of success that is true, runs that end
(driver); firmware and a variable store that fit, and a guest that still finds
its boot entries and opens its disk (create); nothing orphaned, deletion completes, statuses true and converging
(controller); credentials that are never lost while a node needs them, and a
bring-up that can be retried from anywhere (bring-up); quorum kept and a stopped
cluster that can be restarted (membership); no two machines of a site on one
address or port (site checks); a regeneration that changes only what was edited
(reconfigure).

## 2. Modules

| module | what it is |
|---|---|
| `DiskCustody` | abstract: what the driver promises about a system disk |
| `Machine` | the driver: processes, state directories and invocations of a host |
| `MCMachine` | `Machine` for TLC |
| `MachineProofs` | the inductive invariant of `Machine`, its safety theorems, that it implements `DiskCustody`, and a bound on the steps of a run |
| `Platform` | pure: what is found out about a host and about a boot image |
| `Boot`, `MCBoot` | create from the inside: disks, TPM, firmware, variable store and boot order of one VM on a host that changes; uses `Platform` |
| `BootProofs` | the choice of firmware for any registry, the inductive invariant of `Boot` and its theorems |
| `Reconcile` | the controller loop, the API server's objects and their users |
| `MCReconcile` | `Reconcile` for TLC |
| `ReconcileProofs` | the inductive invariant of `Reconcile`, its safety theorems, and that convergence is not undone |
| `Cluster` | `up` and `destroy` on the VMs of a cluster: artifacts, nodes, etcd members |
| `EtcdMembership` | abstract: what tinq promises about the etcd of one cluster |
| `ClusterEtcd` | each bundle's etcd in `Cluster` as an `EtcdMembership` |
| `MCCluster` | `ClusterEtcd` for TLC, with symmetry in the bundles |
| `ClusterProofs` | the inductive invariant of `Cluster` with any flags |
| `MembershipProofs` | two inductive invariants, without `--force` and without chains of joins, and that `Cluster` implements `EtcdMembership` under either |
| `StaticNetwork` | pure: the two checks of addresses |
| `NetworkCheck`, `MCNetworkCheck` | those checks over every block an operator can edit together, against a definition by sets of addresses |
| `NetworkProofs` | that the checks say what those sets say, for addresses of any width |
| `Site`, `MCSite` | the VMs of a site: files, records, ports, addresses, memory; uses `StaticNetwork` |
| `SiteProofs` | the inductive invariant of `Site` and its theorems, the sum of memory sizes as a count |
| `NodeConfig` | pure: the generation of a machine config and the comparison of two; uses `StaticNetwork` |
| `MachineConfig`, `MCMachineConfig` | one machine's config through install, edits, reconfigure and upgrades; uses `NodeConfig` |
| `ConfigProofs` | the inductive invariant of `MachineConfig` and its theorems; the address checks come from `NetworkProofs` |

Operators named *Faulty* in a comment are variants of the definition below them
with a bug somebody could write; nothing uses them but the mutation runs.

### Machine

State: the process table (`kind`, `owner`, `unlinked`, `told`, by pid), the
state directories (`made`, `disk`, `talosconfig`, `qemuPid`, `swtpmPid`, by
machine), the invocation at work on each machine (`pc`, `verb`, and the local
variables of the code: `pid`, `rung`, `polls`, `cancelled`), and one history
variable (`struck`: which code paths have signalled a foreign process).

| actions | code |
|---|---|
| `Begin`, `Standalone` | `standalone`: observe, then what the verb does with the state |
| `CreateDir`, `EnsureDisks`, `LaunchQemu`, `LaunchFails` | `create` |
| `EnsureSWTPM`, `AwaitPidfile`, `PidfileTimeout` | `ensureSWTPM`: the start of the daemon, the wait for a pidfile, its deadline |
| `WriteTalosconfig` | what `up` adds to the state directory |
| `StopObserve`, `StopReadPid`, `ShutdownAccepted`, `ShutdownUnavailable` | `Stop`, `shutdownGuest` |
| `HaltTerm`, `WaitExpires` | `halt` |
| `WaitSeesGone`, `WaitPolls`, `SelectTick`, `SelectDone` | `waitGone`, in the order of its checks |
| `DestroySWTPM`, `DestroyReadPid`, `Sweep`, `SweepFails` | `destroy` |
| `StepFails`, `TinqKilled`, `Cancel` | an error return, a kill, Ctrl-C |
| `SwtpmWritesPidfile` | the daemonized swtpm, at any time after its start (external) |
| `ProcessExits`, `StrangerStarts`, `HostReboots` | the host |

Two invocations on one machine are not modelled, as the code forbids them only
by its documentation. ProcessMatches and the kill that follows it are one step:
the window between the two calls cannot be closed from user space, and the
model shows that no *other* window is open.

qemu's parent returns after the pidfile is written, swtpm's before: an swtpm may
be left with no pidfile, or beside one that names another process, and nothing of
the driver finds it then. `TrueReports` says of a delete only what is so in spite
of that: no directory, no file of it open, and no qemu that was not sent SIGKILL.
`SweepFails` leaves any of the files.

### Platform and Boot

`Platform` follows the package: `Detect`, the registry of firmware descriptors
with its priorities, masks and fallbacks, and the two inspections of an image.
A host is a record of the files those functions look at; a pattern of a
descriptor is a sequence of words with or without a trailing star, an image is
what its sectors hold at the offsets that are read. Where the code walks a list
and returns the first entry that will do, the model takes the entry of the least
index among those that will do.

`Boot` is `create` for one VM with that host around it. State: the `host`, the
`answer` Detect gives on it and the controller's `memo` of an earlier one, the
machine file (`spec`), the state directory (`disk`, `store` for `efivars.fd`,
`tpm`), the qemu (`vm`) and what the guest's disk is `sealed` to.

| actions | code |
|---|---|
| `Create` | `detect`, and `create` up to the directory |
| `EnsureQcow2`, `EnsureSWTPM`, `AwaitPidfile`, `PidfileTimeout`, `EnsureEFIVars`, `WriteEFIVars`, `Launch` | `create`, one step per file or process it leaves behind |
| `SwtpmWritesPidfile` | the daemonized child (external) |
| `GuestBoots`, `GuestInstalls`, `GuestReboots` | the firmware and Talos (external) |
| `Interrupt`, `VMStops`, `SwtpmDies`, `HostReboots`, `HostChanges`, `ControllerRestarts`, `EditSpec`, `Destroy`, `DestroyStops` | faults and operators, counted together |

`Machine` has the pids and the rungs of destroy, `Boot` the contents of the
files; the two agree on the order of the steps of `create` and on the swtpm's late
pidfile. `DestroyStops` leaves any of the disks, the store, the TPM's state and the
pidfile; `intact` remembers whether a sealed disk that is left has lost what it is
sealed to.

### Reconcile

State: the objects by name (`uid`, `site`, `power`, `gen`, `deleting`, `fins`,
`status`), the machines by state directory (`vm`), the controller (`pc`, `cur`,
`todo`, the listed `snap`shots, `seen`, `verdict`) and what is left of the fault
budget. A driver call is one step here: `Machine` says what is inside it. Its
failure may leave any part of its work done: a create that fails may have
started qemu, when the pidfile cannot be read back.

| actions | code |
|---|---|
| `List`, `Pick`, `EndTick` | `Run` |
| `Destroy`, `DestroyFails`, `Release`, `Claim`, `Observe`, `Create`, `CreateFails`, `Stop`, `StopFails`, `Publish` | `reconcile`, in its order |
| `CallFails` | any error return: the item is over until the next tick |
| `Restart` | the controller is killed and started again |
| `UserApplies`, `UserEdits`, `UserDeletes`, `OtherClaims`, `OtherReleases`, `VMExits` | everybody else |

### Cluster

State: the artifacts of each machine's state directory, each standing for the
secrets bundle it was made from; the node in each VM (`vm`, `stage`, `pki`,
`installed`, `etcd`); etcd's members and the Node objects of each cluster; and
the run under way with the local variables that survive a step (`sawRunning`,
`stopped`, `join`, `kube`, `conf`, `todo`, `file`; for destroy `flags`, `whole`,
`doomed`, `item`). One run at a time, as the repository's README asks.

| actions | code |
|---|---|
| `UpBegin`, `UpOptions`, `UpRefused` | `standalone`, `upOptions`, `vmJoinOptions` |
| `Boot` ... `Apply` | steps 4 to 7 of `Up`, `configure`, `writeArtifacts` |
| `WaitInstalled`, `Bootstrap`, `AlreadyBootstrapped`, `FetchKubeconfig`, `WaitReady`, `InstallStorage` | steps 7 to 10, `joined` |
| `DestroyBegin`, `DestroyNext`, `LeaveEtcd`, `LeaveFails`, `DeleteNode`, `Sweep`, `SweepFails` | `destroyMachine`, `leaveCluster`, `destroy` |
| `NodeBoots`, `NodeInstalls`, `NodeJoins`, `NodeRegisters` | Talos and Kubernetes (external) |
| `StepFails`, `TinqKilled`, `VMStops`, `PowerCut` | failures |

`Sweep` is a removal that comes to its end, `SweepFails` one that fails or is killed:
of the record, the four files and the disk (`Contents`) any may be left
(`Remains`). A disk without its files still boots and votes, files without their
disk still tell the next `up` that the machine is configured. The history variable
`torn` has the clusters such a removal has touched; a cluster that none has touched
is `Intact`. The machine that others reach the Kubernetes API through (`Root`) is the
end of its joins.

`EtcdMembership` says what all this amounts to for one cluster: its etcd is
formed once, its member list changes one machine at a time with the consent of a
majority that is up, and a member's data goes only after the member has left,
unless the operator gave the vote up or nobody else is left. `ImplementsEtcd`
maps `Cluster` to it for every bundle: the voters are the member list, the
replicas the members whose disk and data exist, the ones serving those that are
up. It does so for a cluster up to its first removal that stops part-way, and
whatever happens to other clusters.

### Site

State, by machine: its `file`, the `record` in its state directory, whether its
`disk` exists, the file its `qemu` was started with, whether its node is
`configured`; and the run under way, which read its file when it began. The memory of a file
keeps its number and its suffix, because `toMB` is what decides about it.
`UpBegin` is the check of `upOptions`, `CreateRecord` the second one in `create`
with the record it writes, `Start` the rest of `create`. `Sockets` says what the
kernel lets qemu bind, independently of `checkForwardCollisions`.

### NodeConfig and MachineConfig

`GenerateConfig` turns an input record into a config record; `UpInput` and
`ReconfigureInput` are the two translations of a machine file, side by side.
What both take from the same place is in `Input`; the bundle of the cluster that
is joined is `UpBundle`. A document is its kind,
its name and the rest, which is all that the duplicate check, `withoutDocuments`
and `docOfKind` look at. A Talos version is its minor number.

State of `MachineConfig`: the `manifest`, the node (`on`, `version`, `held`,
`layout`), the artifacts (`talosconfig`, `secrets`, `current`, `endpoint`), the
run and, as history, the `source` (file and version) the held config was
generated from and whether a destroy cut short has left the disk (`torn`).

| actions | code |
|---|---|
| `Apply`, `UpBegin`, `Boot` | `apply`; steps 1 to 4 of `up` |
| `AdoptBegin` | `adoptMachine` up to its call of `Up` |
| `Configure`, `ConfigureEnds`, `RemoveArtifact`, `WriteArtifact`, `Install` | `configure`, `writeArtifacts`, `applyConfiguration` |
| `ReconfigureBegin`, `ReconfigureRefused`, `NothingToApply`, `ApplyToRunningNode` | `reconfigureOptions`, `Reconfigure` |
| `Destroy`, `DestroyStops` | `destroy`, finished or with any of the files left |
| `Edit`, `Upgrade`, `Stop`, `MetalOn`, `RunEnds` | the operator, the node, a failing or killed run |

## 3. Runs

| run | instance | what it shows |
|---|---|---|
| `machine` | 1 machine with a TPM, 2 pids, all verbs, fairness | the driver's invariants, that it implements `DiskCustody`, and that every invocation ends, in a bounded number of its own steps |
| `controller` | 1 VM with 2 lives and 2 generations beside hardware that may fail for ever, 2 faults, fairness | no orphans; statuses are true; deletion completes; an object left alone converges, and no late step of the loop undoes it |
| `boot` | 1 VM, 9 hosts, 5 images in 5 files, 3 faults or operator actions, fairness | the firmware, the store and the TPM a guest gets are the ones it needs and keeps, whatever the host's packages do; running the verb again boots the machine |
| `cluster_safe` | owner and joiner, each destroy flag, failing steps, lost answers, a kill or a removal that stops part-way | credentials are on disk before a node needs them, one etcd per bundle, only the votes an operator gave up are missing |
| `cluster_chain` | a joiner of a joiner, no `--force`, a kill or a removal that stops part-way, two stops | the whole chain counts: no machine is destroyed under those that joined through it, no credential is lost, each etcd is one of `EtcdMembership` |
| `up_retry` | owner and joiner, 2 bundles, a kill or a removal that stops part-way, a stop, a power cut, destroys, fairness | `up` again and again brings every machine up |
| `addresses` | 4-bit addresses, every prefix length, two reserved segments | both checks accept exactly the sound blocks |
| `site` | 2 VMs, 7 files edited at any time | records agree and are what runs, ports are free when qemu starts, a joiner fits |
| `config` | a VM with 8 files or a hardware node with 13, an upgrade, 2 bundles beside the owner's | credentials and records follow the node; an unedited file changes nothing; what is installed exists and can be reached |

`up_retry` excepts the states that no retry leaves:

* `Wedged`: a config that was written and never taken, which the error message of
  `up` names. A removal that took the disk and left the talosconfig ends here too.
* `KubeconfigLost`: a creator without its kubeconfig.
* `HalfLeft`: a destroy ended between its leave and its sweep; or it left a disk
  without a file its `up` needs; or, as the record was gone, the owner was
  destroyed under a disk that had joined it.
* `GhostVoter`: a joiner was started again on a disk whose talosconfig was gone. It
  is a member, and the next destroy does not ask it to leave.

The last three disagree with lines of the repository (see below).

The `boot` instance also has the inspections of a boot image as an assumption
(`ImagesAreRead`), which TLC evaluates: over every small image, a version is read
exactly from an identifier that spells one; the architecture is found when the kernel
is where Talos puts it, and never without a primary descriptor.

Three runs show a disagreement between the code and a line of the repository;
`PROJECT.json` quotes the lines.

| run | disagreement |
|---|---|
| `signal_gate` | destroy's SIGTERM to the vTPM is not gated on the process's identity |
| `cluster_restart_four` | with four members, the second `up` after a power cut waits for a quorum it cannot have |
| `wedged_joiner` | the advised destroy of a joiner that never took its config is refused |

The models behave like the code in the following cases as well. Each disagrees
with a line of the repository, no run is kept for it, and the properties above
are stated so that they are true beside it.

| where | the code | the line |
|---|---|---|
| `main.go:1021` | waitGone looks at the deadline before the context, so a cancelled wait can still be followed by SIGKILL | "it never escalates" (`main.go:943-944`) |
| `process.go:48` | ProcessMatches also accepts the machine's own swtpm | "the qemu of the machine" (`process.go:13-14`) |
| `main.go:345` | `destroy` says "already gone" of a directory without `system.qcow2`: a removal that took the disk first is not finished by the next one, and the talosconfig it left tells `up` of a config no node has | "everything in the state directory" (`main.go:191-192`) |
| `main.go:698` | editing `spec.site` and deleting leaves the first VM behind | "nothing is orphaned" (`talosmachine.yaml:24-26`) |
| `main.go:1755` | a pidfile left by an earlier swtpm ends the wait for the new one's: until that is written, the next create starts a second swtpm on the same state, and a destroy leaves it running | "doing NOTHING if one is already running", "two writers to one TPM's NVRAM" (`main.go:1708-1712`) |
| `main.go:1590` | the boot index of the install media is 99, that of a disk the operator listed 2 or more | "They sit after the system disk and the ISO" (`main.go:1344-1346`) |
| `main.go:1500` | a package removed between a memoized Detect and the create leaves no template to copy | "Unreachable in practice" (`main.go:1500`) |
| `main.go:138` | a controller hands out the firmware of its first Detect after the package was replaced; create then fails until it is restarted | "Host facts do not change while the process runs" (`main.go:63`) |
| `firmware.go:70` | suitable does not look for `enrolled-keys`: a descriptor with a vendor's keys that sorts first is taken | "with a BLANK variable store, so the guest starts in setup mode" (`main.go:1851-1852`) |
| `lifecycle.go:148` | joinersOf knows direct records only: after `destroy --force` of the middle of a chain the machines behind it are nobody's joiners | "Destroying it while joiners exist is refused" (`lifecycle.go:26-28`) |
| `lifecycle.go:148` | a joiner whose record a removal took, and whose disk it left, is nobody's joiner: its owner can be destroyed under it | the same line |
| `lifecycle.go:247` | a joiner whose talosconfig a removal took, and whose disk it left, is started again, votes, and is swept by the next destroy without leaving | "A joiner that was never configured has no talosconfig and nothing to leave" (`lifecycle.go:243`) |
| `lifecycle.go:275` | a member that has left etcd and was not swept is asked to leave again, and refused | "Start the cluster and retry" (`lifecycle.go:290`) |
| `reconfigure.go:168` (cluster) | the input of a regeneration has neither the pinned Kubernetes version nor the installer image, and drops a disk path the operator gave | "It must match what Up generated for the same machine" (`reconfigure.go:149-151`) |
| `client.go:401` | a Node that destroy failed to delete fails every later `up` of the owner | "cosmetic by comparison" (`lifecycle.go:303-304`) |
| `up.go:606` | an owner killed while it rewrites its kubeconfig and re-run with a member stopped never writes it, and the member's `up` is refused | "The one failure a retry cannot repair" is another (`up.go:463-464`) |
| `reconfigure.go:142` (cmd) | reconfigure does not ask whether the new address is in use | "each machine needs its own address on the segment" (`clusternet.go:360`) |
| `clusternet.go:335` | machines of one name in two namespaces are not compared; `Site` is run with distinct names | "two VMs with one address" are refused (`README.md:642-645`) |
| `join.go:179` | apply and the controller boot a joiner without the memory check | "Before it boots a joiner, tinq SHALL compare" (`vm-join/spec.md:115`) |
| `reconfigure.go:121` (cluster) | after a lost answer and an edit back, "nothing to do" is said of a node that runs another config | the message itself (`cmd/tinq/reconfigure.go:45`) |
| `reconfigure.go:245` (cluster) | only the first volume document of a kind is compared; the files of `config` have no patch with a volume | "compared WHOLE" (`reconfigure.go:220-224`) |
| `main.go:671` | an image edited between the boot and the install is not the one that booted | "Pinned to the IMAGE" (`config.go:358-359`) |
| `reconfigure.go:271` (cluster) | a node upgraded to 1.14 is refused every reconfigure, for a volume document that machinery then emits by itself | "the person reading it edited a manifest field" (`reconfigure.go:227`) |
| `reconfigure.go:111` (cmd) | reconfigure does not check a static network block | "nothing can bypass it" (`network.go:81`) |

Bounds. Two pids are a qemu and an swtpm, two swtpms, or either of them and a
stranger that took the pid of the other; the theorems of `MachineProofs` hold for
any number. One poll per waitGone budget separates "expired" from "still
waiting", which is all its budget is for. Two lives of a name are what a stale
snapshot needs to be of the wrong object, and two generations to be of the wrong
spec; the hardware of that run is applied once (`Settled`), for it is there to
fail. A cluster of two has no quorum without either, three can lose one, four is
the first size at which an owner and one more are no majority. Four bits of
address have every kind of prefix: the whole space, one with and without a
broadcast address, and a single address. The files of `MCSite` and
`MCMachineConfig` are chosen so that each refusal happens and each field that the
code copies differs in some pair; the memory of the host has room for the owner
and one of the two joiners. Bundles, kills, stops, cuts and faults are bounded by
the constants named after them; a removal that stops part-way is one of the kills
in `Cluster`, and counts as a destroy and a fault in `Boot`. One of them is enough
for every set of files that can be left: the next run of any verb and the next
removal follow it. `up_retry` has been run with three bundles and with two kills as
well, and `boot` with a part-way destroy that counts once, outside the time a
regular run is given. `cluster_safe` takes the two destroy flags one at a time. The
hosts of `MCBoot` are one distribution as
installed, with its package removed and the descriptors left behind, with a
masked descriptor, with a vendor's keys in front, without KVM and without a
registry, and two other operating systems; three faults are a package change, a
stop and a change back, or a kill, a reboot and an edit.

Fairness. `machine` assumes that a running `tinq` takes its next step
(`WF` of each invocation); nothing is assumed of the guest, the kernel or the
user. The `controller` run assumes the same of the controller loop, whose sleep
is a timer; faults, restarts, edits and re-creations are finite there, as
convergence is promised only to an object left alone. `up_retry` assumes that
tinq and the nodes go on, and that the operator runs `up` on each machine again
and again (strong fairness of `UpBegin`: a run can begin only while no other is
under way); a wait gives up only when no node has a step left to take, since its
budget is there to outlast a healthy boot. `boot` assumes that the operator runs
the verb again until the VM runs (strong fairness of `Create` by a verb: another
run or a host change may disable it in between), and weak fairness of the steps
of create, of the swtpm daemon and of the guest's boot and installation; nothing
of the controller, the host or the faults.

## 4. Proofs

`MachineProofs`: `Spec => []Inv` for any sets of machines and pids, any verbs
and any budget, from `MachineAssumption` alone. `WriterIsTracked` is not
inductive: that create starts a qemu only where nothing writes must be known
from the moment it observed the machine (`LadderInv`), and it stays true because
only this invocation starts processes for the machine; that the ladder's pid is
that of the writer must survive the exit of that writer and the reuse of its
pid. `ProcInv` says that only qemus and swtpms belong to machines, and that a qemu
without its files was sent SIGKILL; `VerbInv` says which verbs reach which step. Of the swtpm it says no more: one that
has not written its pidfile is known to nobody.
The safety properties of the runs follow.

`DriverKeepsCustody`: under the mapping of `Machine` (the disk, and the qemus that can
write to it) every step is a step of `DiskCustody` or a stutter. EnsureDisks is
Create or a stutter, LaunchQemu is Start, the sweep is Discard, and signals,
exits and reboots only take writers away.

`RunsAreBounded` is the part of RunEnds that is safety. `StepsLeft` counts the
steps an invocation can still take: two for each poll of a wait and one for its
end, on every rung still ahead. Each step of the invocation lowers it (a wait that
expires pays for the next rung, which has a fresh budget, out of the rung it
leaves), and no exit, stranger, other invocation or cancellation raises it. So a
run takes at most `9 + 6 * MaxPolls` steps; that it does take them is the fairness
that TLC assumes.

`ReconcileProofs`: `Spec => []Inv` for any objects, sites, hardware and budgets.
The heart is `SnapInv`: only this controller adds or takes its finalizer, so what
a snapshot in use says of the finalizer is true, and a snapshot that has it is of
the object that is there now. From it follow NoOrphans (as long as `spec.site` is
left alone) and TrueStatuses.

`ConvergedIsLeftAlone` is the part of Converges that is safety, and holds with
edits of `spec.site` too. It needs `KeepInv` beside `Inv`: a status is only ever
given to an object that is claimed, and one that is of today's spec tells that
the machine exists and, if it is to be stopped, is stopped (`StatusInv`); a
snapshot in use is no older than the status (`FreshInv`), so that for an object
with such a status the loop works from today's spec and on the machine the object
has; and create, stop and a failed stop are reached only for a machine that is
not what the snapshot asks for (`CallInv`), although it may have died since it was
observed. A failed create may have started the machine all the same: it then
runs as it should, and the publication of the failure is the one step that takes its
status away, which the theorem excepts.

`ClusterProofs`: `Spec => []Inv` for any machines, joins, flags and bundles, from
`ClusterAssumption` alone. CredentialsOnDisk is not inductive: it must be known
which bundle the run under way is about to write or apply (`RunInv`), that a
node's bundle is the one of its files from the write to the sweep
(`CredentialsInv`), and that a creator's bundle is its own and its etcd empty
until the bundle's one bootstrap (`BootstrapInv`). OneEtcdPerBundle follows from
the last. A removal may leave any of the files, so the invariant speaks of those
that are there: the credentials beside a disk are those of its config or are gone,
gone only if a removal of this machine stopped part-way; a config is on its disk or
on the way there (`PlacedInv`), so that it goes with the disk; and a run knows which
talosconfig its machine has (`ConfInv`). Both theorems speak of every cluster, torn
or not.

`MembershipProofs`: without `--force` (`WithoutForce`) `KeptInv` is inductive
relative to `Inv`, along joins of any depth; joins have no cycle
(`JoinsAssumption`). Its heart is `FilesInv`: whoever has joined, has joined
a machine that is a member for good, so an owner cannot be swept while a record
names it, and DestroyInv, by which a destroy takes joiners along and before
their owner. NoGhostVoter, OwnerSecretsKept and KubeconfigMatches follow. They are
about the clusters that are `Intact`, as is `FilesInv`: a removal that stops part-way
tears the clusters that the machine's files and its config are of, and no other
(`SweepFailsTears`), so that what it breaks is excepted and every other cluster is
as before. That the restriction is needed is in section 3
(`lifecycle.go:148`, `lifecycle.go:247`).

With any flags, where every joiner joins a creator (`NoChains`), FilesInv is
false: an owner may be taken from under its joiners, destroyed or not, and mint
the next bundle. `StarInv` does without it. A bundle stays within the machines of
one creator, also when that creator is gone (`SecretsInv`), so a sweep is of a
member of one etcd only; and a destroy that its flags do not excuse takes a single
machine, which nobody joined and which has left or was given up (`ForcedInv`). A
creator that formed an etcd never leaves it, so no member list is emptied by
leaving (`MembersInv`).

| theorem | without `--force`, any chains | any flags, no chains | both `--force` and chains |
|---|---|---|---|
| `VotersKeepTheirData`, `ClusterImplementsEtcd` | proved | proved | false: what `--force` takes out of a chain hides the machines behind it from every later destroy (section 3, `lifecycle.go:148`) |
| `OwnersKeepTheirSecrets`, `KubeconfigsMatch` | proved | false: the flag is there to destroy an owner under its joiners | false |

`ClusterImplementsEtcd` is the refinement: for each cluster a bootstrap is Form,
NodeJoins is Join, LeaveEtcd is Leave, the sweep of a creator is Dissolve, the
sweep of a machine that has left is a stutter, a removal that stops part-way is the
same as a sweep for the clusters it does not tear, and everything else only stops or
starts members. A sweep that the operator asked for (in the destroy of a
creator with `--with-joiners` or `--force`) is Abandon, and so is a leave that fails and that
`--force` passes over.

`SiteProofs`: for any VMs, machine files and memory. RecordsAgree, BindsSucceed and
JoinerFits have the hypothesis that no two VMs share a name (`DistinctNames`:
checkSite and checkCapacity take a record under a machine's own name for its own);
RecordIsRunning and the types have none. RecordsAgree is not inductive, since checkSite
passes over a record whose network block is not valid: `RecordsValid` says that
there is none, because a file is recorded only after it passed. RecordIsRunning
and BindsSucceed need `CreateInv`: a run that creates has found its VM down, and
from the record on its file is the one recorded. That comparing forwards as
hostBinds does is enough to keep the sockets apart, the ones on 0.0.0.0 included,
is `NoCollisionNoSocket`. A configured machine has its disk, since a config is sent
to a VM that runs (`RunningHasDisk`).

JoinerFits follows from `FitInv`: what checkCapacity counted still holds when qemu
is started steps later, because the records it added up are those of the VMs that
run (RecordIsRunning) and until then these can only stop. The sum is a fold over a
set, and the provers cannot induct over a fold; it is shown to be the number of
pairs of a file and one of its mebibytes (`SumIsCount`, by a least subset for which
it is not), and counts of finite sets are ordered by inclusion (`SumGrows`). The
memory of a file is any integer (`SiteAssumption`).

`BootProofs`: `Spec => []Inv` for any hosts, images, machine files and number of
faults. The assumptions are about the files of a host, not about the code: a
firmware image and its template are packaged to fit, a descriptor and the tables
of fixed paths say of them what is true (`FirmwareAssumption`), and the patterns
of a descriptor are of the kinds in use (`DescriptorAssumption`). FirmwareFits and
SealedOpens are not inductive. That a store has the size of its firmware must
be known from the moment create compared or wrote it until qemu runs, though the
host's packages may change in between (`CreateInv`); that a sealed disk opens needs
the TPM's state to stay while anybody was started with it (`TPMInv`) and our keys to
be in the store before the install media has booted (`RunningInv`). A torn store is
written only where nothing is sealed to it, or where a template of another size
replaces it, and a destroy that stops part-way may take the store or the TPM's state
from a disk it leaves; SealedOpens excepts both (`intact`, `SealInv`). FirmwareFound rests on what scanRegistry and the
fallbacks choose for any registry. GuestStateKept, VTPMInHand and MediaLast are
action properties and follow from the same invariant.

`NetworkProofs`: the checks work with masks, last addresses and successors, the
properties with the set of addresses of a segment. The lemmas connect the two for
every width `W`: a segment is an interval (`SegmentIsInterval`), membership is the
comparison under the mask (`ContainsIsMember`), two segments meet exactly when the
shorter prefix contains the other's address (`OverlapIsMeeting`), and the two
addresses that are no hosts are the ends (`HostTest`). Powers of two are
cardinalities of sets of subsets there, so that the facts about them need no
induction over a definition.

`ConfigProofs`: `Spec => []Inv` for any machine files, compatibility table,
versions, disks, links and bundles. TrustKept is not inductive: it must be known
that an install has written what is not in its `todo` any more (`InstallInv`), that
a run that installs still faces a node without a config, and that a reconfigure
generates over the bundle on disk (`ReconfigureInv`). After a destroy that left the
disk, the credentials may be missing, and are never those of another bundle. InstallWorks follows from
`Inv` and from the lemmas of `NetworkProofs`, since adopt's checks are on the file
that the run read (`RunInv`) and not on the one there now. Three theorems have
hypotheses about the machine files, each of which the code needs (section 3 names
the disagreement behind it) and TLC finds true of the files of the `config` run
(`FilesAssumption`):

| theorem | hypothesis | without it |
|---|---|---|
| `UneditedStays` | `Plain`: no pinned Kubernetes and, for a VM, no installer image and no disk path | a reconfigure drops these three fields |
| `KubernetesAlwaysFits` | `InstallKnown`: the install puts the version the run knows of on the disk; `UpgradesFit`: an upgrade keeps the Kubernetes of the version before it | an installer image of the operator's own, or an upgrade that races a reconfigure, brings a Talos the run never asked about |
| `RecordsMatchLayouts` | `NamedDisk`, `OwnVolumes`: the system disk is not named by its path and no patch brings a volume | reconfigure drops the path, and compares the first volume document of a kind only |

`Regenerates` (the held config is what reconfigure would generate for its source)
and `LayoutInv` (a recorded config and one about to be written describe the layout
of the disk) are the invariants behind the first and the last.

Facts about a recursive function on the naturals are proved by a least
counterexample (`Least`: the well-foundedness of `<` gives a nonempty set of
naturals its minimum), which takes no operator as a parameter. `kubernetesVersion`'s
walk is handled so: that the recursion has a solution is shown by writing one down,
and that it stops at the first minor that fits by the least minor that does.

Only model-checked:

* liveness (RunEnds, DeletionCompletes, Converges, RetrySucceeds, RetryBoots), as
  fairness is out of the prover's reach;
* the inspections of a boot image (`ImagesAreRead`), over every small image;
* the counterexamples of the violation runs.

Of the liveness properties, RunEnds and Converges have their safety part proved
(`RunsAreBounded`, `ConvergedIsLeftAlone`).

The inductive invariants themselves are not in the runs, as the proofs cover them;
the properties that follow from them are, each with a faulty variant that breaks
it.

## 5. Plan

Done: the driver, the controller, bring-up, membership, site checks, create on a
changing host, address checks, config generation and reconfigure, modelled and
proved. Next, in this order:

1. Hardware nodes that join: adopt beside `up` in `Cluster`, and forgetting a
   hardware owner.
2. Two runs at a time on a site, to show which of the site checks the one-at-a-time
   rule carries.

## 6. Not modelled

* *A hardware node in `Cluster`.* Its config, install and reconfigure are in
  `MachineConfig`, its place in the controller in `Reconcile`; its etcd member is
  the operator's to remove, and `forget` does not touch it.
* *Two concurrent runs on a site or a machine.* The repository's README rules them
  out and no code looks for them.
* *The listings of node facts* (`cluster/nodeinfo.go`) and the texts of errors and
  diagnostics: output without state.
* *The argument vector of qemu* beyond firmware, disks, boot order and TPM, the
  multicast groups and MAC addresses of a segment, the console argument and the
  kexec switch, image download and checksum, the wire formats, and the text of
  the generated config, whose decisions are in `NodeConfig`: data that no two
  steps could disagree on.
* *The secure-boot media script and the Talos patches:* a build script, and patches
  of another program.
