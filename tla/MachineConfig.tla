---------------------------- MODULE MachineConfig ----------------------------
(***************************************************************************)
(* The machine config of one machine: what its file says, what the node    *)
(* holds, and what the state directory records of it, through up or adopt, *)
(* edits of the file, reconfigure, upgrades of the node, and runs that end *)
(* after any of their steps.                                               *)
(*                                                                         *)
(* A VM is booted by its own run and its version is the one of the image   *)
(* it boots; hardware is running before it is adopted.  One run is under   *)
(* way at a time, and reads the machine file when it begins.               *)
(***************************************************************************)
EXTENDS NodeConfig

CONSTANTS Manifests,    \* what an operator may write in the machine file
          Disks, Links, \* what the hardware node reports
          NodeVersions, \* the versions hardware may have been booted with
          Upgrades,     \* the versions an operator may upgrade the node to
          MaxBundles    \* bound: secrets bundles minted

ASSUME MachineConfigAssumption ==
    /\ \A m \in Manifests :
         /\ {m.metal, m.joins} \subseteq BOOLEAN
         /\ m.version \in Nat
         /\ m.metal => m.cluster = None /\ m.hostname = ""
         /\ ~m.metal => m.network = None /\ m.cap = None
         /\ m.cluster # None => m.cluster.addr \in Addresses
         /\ m.network # None => m.network.net \in Prefixes
         /\ m.disk \in [serial : STRING, wwid : STRING, path : STRING]
         /\ m.patches \in Seq(Elements(m.patches))
    /\ NodeVersions \subseteq Nat /\ Upgrades \subseteq Nat
    /\ MaxBundles \in Nat \ {0}

VARIABLES
    manifest,    \* the machine file
    on,          \* does the node run?
    version,     \* the Talos it runs, or was last seen running
    held,        \* the config it holds; None in maintenance mode
    layout,      \* how its disk was partitioned, at the install
    talosconfig, \* artifacts in the state directory: the bundle of the
    secrets,     \*   talosconfig, that of secrets.yaml,
    current,     \*   controlplane.yaml
    endpoint,    \*   and cluster-endpoint
    run,         \* the run under way
    minted,      \* the bundles in existence, the owner's among them
    source,      \* the machine file and version the held config was made for
    torn         \* has a destroy been cut short, and left the installed disk?

artifacts == <<talosconfig, secrets, current, endpoint>>
node == <<on, version, held, layout, source, torn>>
vars == <<manifest, node, artifacts, run, minted>>

RunSource == [manifest |-> run.manifest, version |-> run.version]

Idle == run = None
At(verbs, step) == run # None /\ run.verb \in verbs /\ run.step = step
End == run' = None
Installs == {"up", "adopt"}
Maintenance == on /\ held = None

\* Volumes and install target: what is decided when a disk is partitioned.
LayoutOf(c) == [disk |-> IF c.install = None THEN None ELSE c.install.disk,
                volumes |-> {d \in Elements(c.docs) : d.kind \in VolumeKinds}]

Init ==
    /\ manifest \in Manifests
    /\ on = manifest.metal
    /\ version \in IF manifest.metal THEN NodeVersions ELSE {0}
    /\ held = None /\ layout = None /\ source = None /\ torn = FALSE
    /\ talosconfig = NoBundle /\ secrets = NoBundle
    /\ current = None /\ endpoint = NoEndpoint
    /\ run = None
    /\ minted = OwnerBundle

Edit(f) ==
    /\ f.metal = manifest.metal
    /\ manifest' = f
    /\ UNCHANGED <<node, artifacts, run, minted>>

-----------------------------------------------------------------------------
\* A VM whose disk holds no system boots the image its file names.
PowerOn(m) ==
    /\ on' = TRUE
    /\ version' = IF held = None THEN m.version ELSE version
    /\ UNCHANGED <<held, layout, source, torn>>

\* apply, or the controller's Create: a VM and nothing more.
Apply ==
    /\ Idle /\ ~manifest.metal /\ ~on
    /\ PowerOn(manifest)
    /\ UNCHANGED <<manifest, artifacts, run, minted>>

\* upOptions and steps 1 to 3 of Up: what the file alone decides.
UpBegin ==
    /\ Idle /\ ~manifest.metal
    /\ manifest.joins => manifest.cluster # None
    /\ CheckVersion(manifest.version) = "ok"
    /\ CheckNodeIdentity(manifest.version, manifest.cluster, manifest.hostname)
    /\ run' = [verb |-> "up", step |-> "boot", manifest |-> manifest,
               version |-> manifest.version, config |-> None, todo |-> {}, removed |-> ""]
    /\ UNCHANGED <<manifest, node, artifacts, minted>>

\* Step 4: a VM that runs is taken as it is.
Boot ==
    /\ At({"up"}, "boot")
    /\ IF on THEN UNCHANGED node ELSE PowerOn(run.manifest)
    /\ run' = [run EXCEPT !.step = "configure"]
    /\ UNCHANGED <<manifest, artifacts, minted>>

\* What adopt asks of the file, and of the node in maintenance mode.
AdoptPasses(m) ==
    /\ m.network # None => CheckNetwork(m.network, m.maintenance)
    /\ Validate(m.disk)
    /\ m.data = "" \/ m.cap = None
    /\ RequireDisk(Disks, m.disk)
    /\ m.data # "" => RequireDisk(Disks, BySerial(m.data))
    /\ m.network # None => RequireLink(Links, m.network.mac)

\* adopt of a node that has no config yet.  (Once there is a talosconfig it asks
\* the node for its version and leaves the config alone.)
AdoptBegin ==
    LET v == IF manifest.version # 0 THEN manifest.version ELSE version
    IN  /\ Idle /\ manifest.metal
        /\ talosconfig = NoBundle /\ Maintenance
        /\ AdoptPasses(manifest)
        /\ CheckVersion(v) = "ok"
        /\ run' = [verb |-> "adopt", step |-> "configure", manifest |-> manifest,
                   version |-> v, config |-> None, todo |-> {}, removed |-> ""]
        /\ UNCHANGED <<manifest, node, artifacts, minted>>

\* Step 5 and the first half of 6: a node in maintenance mode is given a
\* config over a fresh bundle, or over the cluster's it joins.
Configure ==
    LET in == UpInput(run.manifest, run.version)
        given == UpBundle(run.manifest)
        fresh == given = NoBundle
    IN  /\ At(Installs, "configure")
        /\ talosconfig = NoBundle /\ Maintenance
        /\ Generates(in)
        /\ fresh => minted < MaxBundles
        /\ minted' = IF fresh THEN minted + 1 ELSE minted
        /\ run' = [run EXCEPT !.step = "write",
                       !.config = GenerateConfig(in, given, minted + 1),
                       !.todo = {"talosconfig", "secrets.yaml", "controlplane.yaml"} \cup
                                (IF in.cluster # None THEN {"cluster-endpoint"} ELSE {})]
        /\ UNCHANGED <<manifest, node, artifacts>>

\* A machine that has its talosconfig is not configured again, a node that
\* does not answer in maintenance mode cannot be, and generation may refuse.
ConfigureEnds ==
    /\ At(Installs, "configure")
    /\ \/ talosconfig # NoBundle
       \/ ~Maintenance
       \/ ~Generates(UpInput(run.manifest, run.version))
    /\ End
    /\ UNCHANGED <<manifest, node, artifacts, minted>>

-----------------------------------------------------------------------------
\* writeArtifacts, in no particular order: each file is removed, then written.
SetArtifact(a, c) ==
    /\ talosconfig' = IF a = "talosconfig" THEN c.bundle ELSE talosconfig
    /\ secrets' = IF a = "secrets.yaml" THEN c.bundle ELSE secrets
    /\ current' = IF a = "controlplane.yaml" THEN c ELSE current
    /\ endpoint' = IF a = "cluster-endpoint" THEN c.endpoint ELSE endpoint

RemoveArtifact ==
    /\ run # None /\ run.step = "write" /\ run.removed = ""
    /\ \E a \in run.todo :
         /\ talosconfig' = IF a = "talosconfig" THEN NoBundle ELSE talosconfig
         /\ secrets' = IF a = "secrets.yaml" THEN NoBundle ELSE secrets
         /\ current' = IF a = "controlplane.yaml" THEN None ELSE current
         /\ endpoint' = IF a = "cluster-endpoint" THEN NoEndpoint ELSE endpoint
         /\ run' = [run EXCEPT !.removed = a]
    /\ UNCHANGED <<manifest, node, minted>>

WriteArtifact ==
    /\ run # None /\ run.step = "write" /\ run.removed # ""
    /\ SetArtifact(run.removed, run.config)
    /\ LET left == run.todo \ {run.removed}
       IN  IF left = {} /\ run.verb = "reconfigure" THEN End
           ELSE run' = [run EXCEPT !.todo = left, !.removed = "",
                            !.step = IF left = {} THEN "apply" ELSE "write"]
    /\ UNCHANGED <<manifest, node, minted>>

\* The node installs where the config says, with the installer it names: a
\* device path is taken to exist.
InstallFinds(c) ==
    IF c.install = None \/ ~run.manifest.metal THEN TRUE
    ELSE \E d \in Disks : \A f \in DOMAIN c.install.disk : d[f] = c.install.disk[f]
InstalledVersion(c) ==
    IF c.install = None \/ c.install.image.tag = 0 THEN version ELSE c.install.image.tag

\* Step 7: the node takes the config, whether or not the run hears of it.
Install ==
    /\ At(Installs, "apply")
    /\ Maintenance
    /\ InstallFinds(run.config)
    /\ held' = run.config
    /\ layout' = LayoutOf(run.config)
    /\ version' = InstalledVersion(run.config)
    /\ source' = RunSource
    /\ End
    /\ UNCHANGED <<manifest, on, torn, artifacts, minted>>

\* The node refuses the config, cannot be reached, or the run is killed.
RunEnds ==
    /\ ~Idle
    /\ End
    /\ UNCHANGED <<manifest, node, artifacts, minted>>

-----------------------------------------------------------------------------
\* Faulty: the bundle is minted anew.
ReconfigureMints ==
    LET in == ReconfigureInput(manifest, version, endpoint)
    IN  /\ Idle
        /\ talosconfig # NoBundle /\ secrets # NoBundle
        /\ on /\ held # None /\ held.bundle = talosconfig
        /\ InstalledAddr(manifest) = held.api
        /\ manifest.metal => Validate(manifest.disk)
        /\ manifest.cluster # None => endpoint # NoEndpoint
        /\ Generates(in)
        /\ current # None
        /\ minted < MaxBundles /\ minted' = minted + 1
        /\ run' = [verb |-> "reconfigure", step |-> "compare", manifest |-> manifest,
                   version |-> version, config |-> GenerateConfig(in, NoBundle, minted + 1),
                   todo |-> {"controlplane.yaml"}, removed |-> ""]
        /\ UNCHANGED <<manifest, node, artifacts>>

\* reconfigureOptions and Reconfigure, up to the comparison.  The node is
\* dialled where the edited file says it answers, and must complete the
\* handshake of the bundle it was installed with.
ReconfigureBegin ==
    LET in == ReconfigureInput(manifest, version, endpoint)
    IN  /\ Idle
        /\ talosconfig # NoBundle /\ secrets # NoBundle
        /\ on /\ held # None /\ held.bundle = talosconfig
        /\ InstalledAddr(manifest) = held.api
        /\ manifest.metal => Validate(manifest.disk)
        /\ manifest.cluster # None => endpoint # NoEndpoint
        /\ Generates(in)
        /\ current # None
        /\ run' = [verb |-> "reconfigure", step |-> "compare", manifest |-> manifest,
                   version |-> version, config |-> GenerateConfig(in, secrets, NoBundle),
                   todo |-> {"controlplane.yaml"}, removed |-> ""]
        /\ UNCHANGED <<manifest, node, artifacts, minted>>

ReconfigureRefused ==
    /\ At({"reconfigure"}, "compare")
    /\ Refuses(current, run.config)
    /\ End
    /\ UNCHANGED <<manifest, node, artifacts, minted>>

NothingToApply ==
    /\ At({"reconfigure"}, "compare")
    /\ ~Refuses(current, run.config)
    /\ current = run.config
    /\ End
    /\ UNCHANGED <<manifest, node, artifacts, minted>>

\* Faulty: the record is written first, then the node is asked.
WriteThenApply ==
    /\ At({"reconfigure"}, "compare")
    /\ ~Refuses(current, run.config)
    /\ current # run.config
    /\ SetArtifact("controlplane.yaml", run.config)
    /\ \/ held' = held /\ source' = source
       \/ held' = run.config /\ source' = RunSource
    /\ End
    /\ UNCHANGED <<manifest, on, version, layout, torn, minted>>

\* The node takes the config; the record follows, unless the answer is lost.
\* Partitions are what they were.
ApplyToRunningNode ==
    /\ At({"reconfigure"}, "compare")
    /\ ~Refuses(current, run.config)
    /\ current # run.config
    /\ on
    /\ held' = run.config
    /\ source' = RunSource
    /\ run' \in {[run EXCEPT !.step = "write"], None}
    /\ UNCHANGED <<manifest, on, version, layout, torn, artifacts, minted>>

-----------------------------------------------------------------------------
\* talosctl upgrade, by the operator.
Upgrade(v) ==
    /\ on /\ held # None
    /\ v > version
    /\ version' = v
    /\ UNCHANGED <<manifest, on, held, layout, source, torn, artifacts, run, minted>>

Stop ==
    /\ on
    /\ on' = FALSE
    /\ UNCHANGED <<manifest, version, held, layout, source, torn, artifacts, run, minted>>

\* Somebody presses the button of a hardware node.
MetalOn ==
    /\ manifest.metal /\ ~on
    /\ on' = TRUE
    /\ UNCHANGED <<manifest, version, held, layout, source, torn, artifacts, run, minted>>

\* The disk is removed, or it is left.
DiskGoes == version' = 0 /\ held' = None /\ layout' = None /\ source' = None /\ torn' = FALSE
DiskStays == torn' = (held # None) /\ UNCHANGED <<version, held, layout, source>>

\* destroy: the VM with its disk and its state directory.
Destroy ==
    /\ Idle /\ ~manifest.metal
    /\ on' = FALSE /\ DiskGoes
    /\ talosconfig' = NoBundle /\ secrets' = NoBundle
    /\ current' = None /\ endpoint' = NoEndpoint
    /\ UNCHANGED <<manifest, run, minted>>

\* A destroy that fails or is killed while it removes the state directory: the
\* files go one by one, in no order the code chooses, and any may be left.
DestroyStops ==
    /\ Idle /\ ~manifest.metal
    /\ on' = FALSE /\ (DiskGoes \/ DiskStays)
    /\ talosconfig' \in {talosconfig, NoBundle} /\ secrets' \in {secrets, NoBundle}
    /\ current' \in {current, None} /\ endpoint' \in {endpoint, NoEndpoint}
    /\ UNCHANGED <<manifest, run, minted>>

Next ==
    \/ \E f \in Manifests : Edit(f)
    \/ Apply
    \/ UpBegin
    \/ Boot
    \/ AdoptBegin
    \/ Configure
    \/ ConfigureEnds
    \/ RemoveArtifact
    \/ WriteArtifact
    \/ Install
    \/ RunEnds
    \/ ReconfigureBegin
    \/ ReconfigureRefused
    \/ NothingToApply
    \/ ApplyToRunningNode
    \/ \E v \in Upgrades : Upgrade(v)
    \/ Stop
    \/ MetalOn
    \/ Destroy
    \/ DestroyStops

Spec == Init /\ [][Next]_vars

-----------------------------------------------------------------------------
Bundles == OwnerBundle .. MaxBundles
Versions == {0} \cup Upgrades \cup NodeVersions \cup {m.version : m \in Manifests}

\* Every variable keeps its shape; a node that holds a config was installed,
\* and a config carries a bundle that exists.
TypeOK ==
    /\ manifest \in Manifests
    /\ {on, torn} \subseteq BOOLEAN
    /\ version \in Versions
    /\ minted \in Bundles
    /\ {talosconfig, secrets} \subseteq {NoBundle} \cup (OwnerBundle .. minted)
    /\ \A c \in {held, current} : c # None => c.bundle \in OwnerBundle .. minted
    /\ endpoint \in Addresses \cup {NoEndpoint, HostForward}
    /\ (held = None) = (layout = None)
    /\ (held = None) = (source = None)
    /\ torn => held # None
    /\ run # None => run.step \in {"boot", "configure", "write", "apply", "compare"}

\* The credentials on disk are those of the node, from the moment it takes a
\* config and through every reconfigure (reconfigure.go: "Regenerating without
\* it mints five new certificate authorities"; up.go: artifacts are written
\* before the config is applied).  A destroy that was cut short may have taken
\* them from a node whose disk it left, but nothing puts others in their place.
TrustKept ==
    held # None =>
        /\ {talosconfig, secrets} \subseteq {held.bundle, NoBundle}
        /\ ~torn => held.bundle = talosconfig /\ held.bundle = secrets

\* What is written beside a live node as its config is the config it has just
\* taken (reconfigure.go, Reconfigure: "overwriting it with a config the node
\* rejected would make the state dir lie about a live machine").
RecordFollowsNode ==
    [][(held # None /\ current' \notin {current, None}) => current' = held']_vars

\* The recorded config never describes a disk the machine does not have
\* (reconfigure.go, volumeKinds: "the state dir starts describing a disk that
\* does not exist").
RecordMatchesLayout ==
    (held # None /\ current # None) => LayoutOf(current) = layout

\* A node is never given a Kubernetes its Talos does not run, nor, unless one
\* is pinned, an older one than need be (config.go, kubernetesVersion).
KubernetesFits ==
    [][(held' # held /\ held' # None) =>
        /\ SupportedWith(held'.kube, version')
        /\ source'.manifest.kube = NoKube =>
             \A n \in held'.kube.minor + 1 .. DefaultKube.minor :
                ~SupportedWith(Kube(n, 0), run.version)]_vars

\* A file nobody edited regenerates, on a node nobody upgraded, the config the
\* node holds (reconfigure.go, reconfigureInput: "It must match what Up
\* generated for the same machine, or the regeneration is a change nobody asked
\* for").
UneditedIsUnchanged ==
    (At({"reconfigure"}, "compare") /\ RunSource = source) => run.config = held

\* A host address of its segment, a gateway that is another one, on a NIC with
\* a cable.
Reachable(n) ==
    LET hosts == Hosts(Segment(n.net))
    IN  /\ n.net.addr \in hosts
        /\ n.gateway \in hosts \ {n.net.addr}
        /\ \E l \in Links : l.mac = n.mac /\ l.carrier

\* The first config a node is sent lets it install and come back, though the
\* file may have been edited since it was checked: a hardware node has the disk
\* (nodeinfo.go, RequireDisk: Talos "installs nowhere and reports it as a
\* hang"), and a static node can be reached afterwards (network.go,
\* CheckNetwork: "a static block that would strand the node").
InstallWorks ==
    At(Installs, "apply") =>
        /\ run.verb = "adopt" => InstallFinds(run.config)
        /\ run.config.network # None => Reachable(run.config.network)

-----------------------------------------------------------------------------
(* The inductive invariant. *)

IsRun(r) ==
    r = [verb |-> r.verb, step |-> r.step, manifest |-> r.manifest, version |-> r.version,
         config |-> r.config, todo |-> r.todo, removed |-> r.removed]

\* What a run read when it began, and what adopt asked then of a node that is
\* in maintenance mode for as long as the run lasts.
RunInv ==
    run # None =>
        /\ IsRun(run)
        /\ run.manifest \in Manifests
        /\ run.version \in Versions /\ CheckVersion(run.version) = "ok"
        /\ run.verb = "up" => run.step \in {"boot", "configure", "write", "apply"}
        /\ run.verb = "adopt" => run.step \in {"configure", "write", "apply"}
        /\ run.verb = "reconfigure" => run.step \in {"compare", "write"}
        /\ run.step \in {"boot", "configure"} => run.removed = ""
        /\ \/ run.verb = "up" /\ ~run.manifest.metal
           \/ run.verb = "adopt" /\ run.manifest.metal
           \/ run.verb = "reconfigure"
        /\ run.verb = "up" => (run.manifest.joins => run.manifest.cluster # None)
        /\ run.verb = "adopt" =>
             /\ AdoptPasses(run.manifest)
             /\ held = None
             /\ run.manifest.version = 0 => run.version = version

\* From the config on, up and adopt have in the state directory what they do not
\* have to write any more, and the node has no config yet.
InstallInv ==
    (run # None /\ run.verb \in Installs /\ run.step \in {"write", "apply"}) =>
        LET in == UpInput(run.manifest, run.version)
            c == run.config
        IN  /\ held = None
            /\ Generates(in)
            /\ c = GenerateConfig(in, UpBundle(run.manifest), c.bundle)
            /\ c.bundle \in OwnerBundle .. minted
            /\ run.todo \subseteq {"talosconfig", "secrets.yaml", "controlplane.yaml"}
                  \cup (IF in.cluster # None THEN {"cluster-endpoint"} ELSE {})
            /\ run.removed \in {""} \cup run.todo
            /\ run.step = "apply" => run.todo = {}
            /\ "talosconfig" \notin run.todo => talosconfig = c.bundle
            /\ "secrets.yaml" \notin run.todo => secrets = c.bundle
            /\ "controlplane.yaml" \notin run.todo => current = c
            /\ (in.cluster # None /\ "cluster-endpoint" \notin run.todo) => endpoint = c.endpoint

\* A reconfigure works with the credentials and the endpoint on disk, on a node
\* that may be upgraded while it does.
ReconfigureInv ==
    (run # None /\ run.verb = "reconfigure") =>
        LET in == ReconfigureInput(run.manifest, run.version, endpoint)
        IN  /\ held # None
            /\ Generates(in)
            /\ talosconfig # NoBundle /\ secrets # NoBundle
            /\ run.manifest.cluster # None => endpoint # NoEndpoint
            /\ run.config = GenerateConfig(in, secrets, NoBundle)
            /\ run.todo = {"controlplane.yaml"}
            /\ run.removed \in {"", "controlplane.yaml"}
            /\ run.step = "compare" => current # None
            /\ run.step = "write" => held = run.config
            /\ version = run.version \/ (version \in Upgrades /\ version > run.version)

Inv == TypeOK /\ TrustKept /\ RunInv /\ InstallInv /\ ReconfigureInv

\* A file without what reconfigure does not carry over: a Kubernetes version, and
\* on a VM an installer image or the device path of the system disk.
Plain(m) ==
    /\ m.kube = NoKube
    /\ ~m.metal => m.installer = "" /\ m.disk.path = ""

\* A file whose install puts the version the run knows of on the disk: the
\* generator's installer does, and an install of the operator's own leaves
\* hardware at the version it was asked for.
InstallKnown(m) ==
    /\ Unattended(m) => m.metal /\ m.version = 0
    /\ ~m.metal => m.installer = ""

\* An upgrade, which a reconfigure under way does not see, keeps the Kubernetes
\* that reconfigure settled on.
UpgradesFit ==
    \A v \in Versions, w \in Upgrades :
        (CheckVersion(v) = "ok" /\ w > v /\ KubernetesVersion(v) # NoKube) =>
            SupportedWith(KubernetesVersion(v), w)

\* The held config is the one reconfigure generates for the file and version it
\* was made for, while it finds what it reads.
Regenerates ==
    (held # None /\ secrets # NoBundle /\ (source.manifest.cluster # None => endpoint # NoEndpoint)) =>
        held = GenerateConfig(ReconfigureInput(source.manifest, source.version, endpoint),
                              secrets, NoBundle)

\* A file that names the system disk other than by its device path, and whose
\* patches bring no volume: the disk and volumes that reconfigure compares.
NamedDisk(m) ==
    /\ m.disk.path = ""
    /\ m.metal => m.disk.serial # "" \/ m.disk.wwid # ""
OwnVolumes(m) ==
    \A p \in Elements(m.patches) : p.doc # None => p.doc.kind \notin VolumeKinds

\* What reconfigure compares of a config is its layout.
WellLaid(c) ==
    /\ LayoutOf(c).disk = Selector(c)
    /\ LayoutOf(c).volumes = {DocOfKind(c, k) : k \in VolumeKinds} \ {None}

LayoutInv ==
    /\ current # None => WellLaid(current)
    /\ RecordMatchesLayout
    /\ (run # None /\ run.verb = "reconfigure" /\ run.step = "write") =>
          LayoutOf(run.config) = layout
=============================================================================
