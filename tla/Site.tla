-------------------------------- MODULE Site --------------------------------
(***************************************************************************)
(* The VMs of one site, and what stops two of them from claiming the same  *)
(* address, host port or memory.  There is no registry: each VM's state    *)
(* directory holds a record of the machine file it was created from, and   *)
(* every check reads the records of the other VMs.                         *)
(*                                                                         *)
(* One run is under way at a time (README: "Run one up or destroy at a     *)
(* time per site"), and it can die after any of its steps.  A machine file *)
(* is read once, when its run begins; the operator may edit it at any time.*)
(***************************************************************************)
EXTENDS StaticNetwork, Sequences

CONSTANTS Machines,      \* the VMs, one state directory each
          NameOf,        \* metadata.name; the directory also has the namespace
          Files,         \* what an operator may write in a machine file
          Reserved,      \* the prefixes a cluster network must not touch
          HostMemory     \* MiB

None == [none |-> TRUE]

ASSUME SiteAssumption ==
    /\ IsFiniteSet(Machines)
    /\ NameOf \in [Machines -> STRING]
    /\ None \notin Files
    /\ HostMemory \in Nat
    /\ \A f \in Files : f.memory.number \in Int

VARIABLES
    file,       \* the machine file on the operator's disk
    record,     \* machine.yaml in the state directory, or None
    disk,       \* does system.qcow2 exist?
    qemu,       \* the file the running qemu was started from, or None
    configured, \* has the node on the disk taken a config?
    run         \* the run under way: its machine, file, verb and step

vars == <<file, record, disk, qemu, configured, run>>

Running(m) == qemu[m] # None
Verbs == {"up", "apply"}
Steps == {"create", "start", "configure"}
Idle == run = None

-----------------------------------------------------------------------------
\* toMB: a number and the suffix written after it.  "GB" and "MB" are not
\* suffixes it knows, but TrimRight takes them off the number all the same.
ToMB(mem) ==
    IF mem.number <= 0 THEN 2048
    ELSE IF mem.unit \in {"Gi", "G"} THEN mem.number * 1024
    ELSE mem.number

\* hostBinds: the sockets a file's forwards bind on the host.
Binds(f) ==
    UNION {LET protos == IF fw.protocol = "both" THEN {"tcp", "udp"}
                         ELSE IF fw.protocol = "udp" THEN {"udp"} ELSE {"tcp"}
           IN  {[proto |-> p, addr |-> fw.addr, port |-> fw.port] : p \in protos} :
           fw \in {x \in f.forwards : x.port > 0 /\ x.guest > 0}}

\* Faulty: a forward on every address is compared like any other.
SameSocket(a, b) == a = b

\* A forward on 0.0.0.0 holds its port on every address.
Clash(a, b) ==
    /\ a.proto = b.proto
    /\ a.port = b.port
    /\ a.addr = b.addr \/ "0.0.0.0" \in {a.addr, b.addr}

\* The sockets themselves: one bound on every address leaves none of its port.
HostAddresses == {fw.addr : fw \in UNION {f.forwards : f \in Files}}
Sockets(f) ==
    UNION {[proto : {b.proto}, port : {b.port},
            addr : IF b.addr = "0.0.0.0" THEN HostAddresses ELSE {b.addr}] : b \in Binds(f)}

ForwardCollision(f, g) == \E a \in Binds(f), b \in Binds(g) : Clash(a, b)

HasNetwork(f) == f.network # None
Valid(f) ==
    HasNetwork(f) => SpecClusterNetwork(f.network.cidr, f.network.addr, Reserved)

\* Two files on one network that disagree on its CIDR or share an address.
NetworkCollision(f, g) ==
    /\ HasNetwork(f) /\ HasNetwork(g)
    /\ f.network.name = g.network.name
    /\ f.network.cidr # g.network.cidr \/ f.network.addr = g.network.addr

\* Faulty: only the VMs that run are asked.
RunningMachines(m) == {o \in Machines \ {m} : record[o] # None /\ Running(o)}

\* siteMachines: the other state directories that hold a record.
SiteMachines(m) == {o \in Machines \ {m} : record[o] # None}

\* checkSite.  A record under this machine's own name is not another machine;
\* another machine's network block that is not valid is passed over.
CheckSite(m, f) ==
    /\ Valid(f)
    /\ \A o \in SiteMachines(m) :
         NameOf[o] # NameOf[m] =>
            /\ ~ForwardCollision(f, record[o])
            /\ Valid(record[o]) => ~NetworkCollision(f, record[o])

\* checkCapacity: the share of the host's memory a site may declare.
Limit == (HostMemory * 85) \div 100
SumMB(fs) == MapThenSumSet(LAMBDA x : ToMB(x[2].memory), fs)

\* Faulty: the joiner itself is left out of the sum.
OthersFit(m, f) ==
    SumMB({<<o, record[o]>> : o \in {x \in SiteMachines(m) : Running(x)}}) <= Limit

CheckCapacity(m, f) ==
    LET others == {o \in SiteMachines(m) : NameOf[o] # NameOf[m] /\ Running(o)}
    IN  ToMB(f.memory) + SumMB({<<o, record[o]>> : o \in others}) <= Limit

\* vmJoinOptions: the owner is recorded on the same segment and its VM runs.
\* (What it reads of the owner's cluster is the subject of Cluster.)
MayJoin(m, f) ==
    /\ f.joins # m
    /\ HasNetwork(f)
    /\ LET owner == f.joins
       IN  /\ record[owner] # None
           /\ HasNetwork(record[owner]) /\ Valid(record[owner])
           /\ record[owner].network.name = f.network.name
           /\ record[owner].network.cidr = f.network.cidr
           /\ Running(owner) /\ configured[owner]
    /\ CheckCapacity(m, f)

Joins(f) == f.joins \in Machines

-----------------------------------------------------------------------------
Init ==
    /\ file \in [Machines -> Files]
    /\ record = [m \in Machines |-> None]
    /\ disk = [m \in Machines |-> FALSE]
    /\ qemu = [m \in Machines |-> None]
    /\ configured = [m \in Machines |-> FALSE]
    /\ run = None

Goto(s) == run' = [run EXCEPT !.step = s]
End == run' = None

\* The operator writes another machine file.
Edit(m, f) ==
    /\ file' = [file EXCEPT ![m] = f]
    /\ UNCHANGED <<record, disk, qemu, configured, run>>

\* `up` reads its file and refuses what the records of the site forbid; a VM
\* that runs is taken as it is, without create.
UpBegin(m) ==
    /\ Idle
    /\ CheckSite(m, file[m])
    /\ Joins(file[m]) => MayJoin(m, file[m])
    /\ run' = [machine |-> m, file |-> file[m], verb |-> "up",
               step |-> IF Running(m) THEN "configure" ELSE "create"]
    /\ UNCHANGED <<file, record, disk, qemu, configured>>

\* `apply`, and the controller's Create: create without what `up` asks first.
ApplyBegin(m) ==
    /\ Idle
    /\ ~Running(m)
    /\ run' = [machine |-> m, file |-> file[m], verb |-> "apply", step |-> "create"]
    /\ UNCHANGED <<file, record, disk, qemu, configured>>

\* Faulty: a record that is there is left as it is.
CreateRecordOnce ==
    /\ ~Idle /\ run.step = "create"
    /\ CheckSite(run.machine, run.file)
    /\ record' = [record EXCEPT ![run.machine] = IF @ = None THEN run.file ELSE @]
    /\ Goto("start")
    /\ UNCHANGED <<file, disk, qemu, configured>>

\* create: the site once more, then the record, before anything of the VM.
CreateRecord ==
    /\ ~Idle /\ run.step = "create"
    /\ CheckSite(run.machine, run.file)
    /\ record' = [record EXCEPT ![run.machine] = run.file]
    /\ Goto("start")
    /\ UNCHANGED <<file, disk, qemu, configured>>

CreateRefused ==
    /\ ~Idle /\ run.step = "create"
    /\ ~CheckSite(run.machine, run.file)
    /\ End
    /\ UNCHANGED <<file, record, disk, qemu, configured>>

BindsFree(f) == \A o \in Machines : Running(o) => Sockets(f) \cap Sockets(qemu[o]) = {}

\* The disks, then qemu, which binds the forwards.
Start ==
    /\ ~Idle /\ run.step = "start"
    /\ BindsFree(run.file)
    /\ disk' = [disk EXCEPT ![run.machine] = TRUE]
    /\ qemu' = [qemu EXCEPT ![run.machine] = run.file]
    /\ IF run.verb = "up" THEN Goto("configure") ELSE End
    /\ UNCHANGED <<file, record, configured>>

\* create fails at the image, the disks or qemu itself.
StartFails ==
    /\ ~Idle /\ run.step = "start"
    /\ \E d \in {disk[run.machine], TRUE} : disk' = [disk EXCEPT ![run.machine] = d]
    /\ End
    /\ UNCHANGED <<file, record, qemu, configured>>

\* The rest of `up`: the node has its config, an earlier one or this run's.
Configure ==
    /\ ~Idle /\ run.step = "configure"
    /\ Running(run.machine)
    /\ configured' = [configured EXCEPT ![run.machine] = TRUE]
    /\ End
    /\ UNCHANGED <<file, record, disk, qemu>>

\* The run is interrupted, or one of its waits ends without an answer.
Die ==
    /\ ~Idle
    /\ End
    /\ UNCHANGED <<file, record, disk, qemu, configured>>

\* The stop verb, the controller's Stop, or a guest that goes down by itself.
Stop(m) ==
    /\ Running(m)
    /\ qemu' = [qemu EXCEPT ![m] = None]
    /\ UNCHANGED <<file, record, disk, configured, run>>

\* destroy, of a machine whose system disk is there: the VM, then its
\* directory.  RemoveAll may give up with any part of the directory left.
Destroy(m) ==
    /\ Idle
    /\ disk[m]
    /\ qemu' = [qemu EXCEPT ![m] = None]
    /\ \E r \in {record[m], None}, d \in BOOLEAN :
         /\ record' = [record EXCEPT ![m] = r]
         /\ disk' = [disk EXCEPT ![m] = d]
         /\ configured' = [configured EXCEPT ![m] = @ /\ d]
    /\ UNCHANGED <<file, run>>

Next ==
    \/ \E m \in Machines, f \in Files : Edit(m, f)
    \/ \E m \in Machines : UpBegin(m)
    \/ \E m \in Machines : ApplyBegin(m)
    \/ CreateRecord
    \/ CreateRefused
    \/ Start
    \/ StartFails
    \/ Configure
    \/ Die
    \/ \E m \in Machines : Stop(m)
    \/ \E m \in Machines : Destroy(m)

Spec == Init /\ [][Next]_vars

-----------------------------------------------------------------------------
OrNone(S) == S \cup {None}

\* Every variable keeps its shape; a node is configured only on a disk.
TypeOK ==
    /\ file \in [Machines -> Files]
    /\ record \in [Machines -> OrNone(Files)]
    /\ disk \in [Machines -> BOOLEAN]
    /\ qemu \in [Machines -> OrNone(Files)]
    /\ configured \in [Machines -> BOOLEAN]
    /\ \A m \in Machines : configured[m] => disk[m]
    /\ run \in OrNone([machine : Machines, file : Files, verb : Verbs, step : Steps])

\* No two state directories of the site hold machine files that collide:
\* README: up "refuses these machine files before it creates anything: ... two
\* VMs with one address, two VMs with different CIDRs on one network, and two
\* VMs of a site with the same host port".  It is kept by every interrupted
\* run, half-done destroy and edit, because the record is written before
\* anything of the VM exists.
RecordsAgree ==
    \A m, o \in Machines :
        (m # o /\ record[m] # None /\ record[o] # None) =>
            /\ Sockets(record[m]) \cap Sockets(record[o]) = {}
            /\ ~NetworkCollision(record[m], record[o])

\* What the other VMs read about a running VM is what its qemu was started
\* with, however often its file was edited meanwhile (main.go: "Written on
\* every create, so a machine file edited between stop and up is what the site
\* sees").
RecordIsRunning == \A m \in Machines : Running(m) => record[m] = qemu[m]

\* By the time qemu is started, no other VM of the site has its ports
\* (clusternet.go: checkForwardCollisions, for which qemu's own failure comes
\* too late).
BindsSucceed == (~Idle /\ run.step = "start") => BindsFree(run.file)

\* When `up` starts a joiner, the memory of the VMs that then run is within
\* the margin (capacity.go: checkCapacity, made from the records, steps before
\* the VM exists).
Booted(m) == qemu[m] = None /\ qemu'[m] # None
Used == SumMB({<<m, qemu[m]>> : m \in {x \in Machines : Running(x)}})
JoinerFits ==
    [][\A m \in Machines :
        (Booted(m) /\ Joins(qemu'[m]) /\ run.verb = "up") => Used' <= Limit]_vars

-----------------------------------------------------------------------------
(* What is inductive, the first part whatever the VMs are called and all of *)
(* it when no two of the site share a name. *)
DistinctNames == \A m, o \in Machines : m # o => NameOf[m] # NameOf[o]

\* A run that creates has found its VM down, and has recorded its file before
\* it starts qemu.
CreateInv ==
    ~Idle /\ run.step \in {"create", "start"} =>
        /\ ~Running(run.machine)
        /\ run.step = "start" => record[run.machine] = run.file

\* A record has passed checkSite, so no later check passes it over.
RecordsValid == \A m \in Machines : record[m] # None => Valid(record[m])

RunningHasDisk == \A m \in Machines : Running(m) => disk[m]

\* A joiner that `up' is about to start fits beside the VMs that run: they were
\* counted when the run began, and meanwhile only stop.
Others(m) == {<<o, qemu[o]>> : o \in {x \in Machines \ {m} : Running(x)}}
FitInv ==
    ~Idle /\ run.verb = "up" /\ run.step \in {"create", "start"} /\ Joins(run.file) =>
        ToMB(run.file.memory) + SumMB(Others(run.machine)) <= Limit

RunInv == TypeOK /\ RunningHasDisk /\ CreateInv /\ RecordIsRunning

Inv ==
    TypeOK /\ RunningHasDisk /\ CreateInv /\ RecordsValid /\ RecordsAgree /\ RecordIsRunning
=============================================================================
