----------------------------- MODULE NodeConfig -----------------------------
(***************************************************************************)
(* How a machine file becomes a Talos machine config: GenerateConfig, the  *)
(* two translations that feed it (up and adopt on one side, reconfigure on *)
(* the other), and the comparison of a regenerated config with the one on  *)
(* record.                                                                 *)
(*                                                                         *)
(* A Talos version is its minor number (1.14 is 14), 0 when it is unknown. *)
(* An endpoint is its host: an address, or HostForward for a port of this  *)
(* host.  The console argument and the kexec switch, which both            *)
(* translations take from the same place, are left out.                    *)
(***************************************************************************)
EXTENDS StaticNetwork, Sequences

CONSTANTS Generator,      \* the Talos version this build generates for
          DefaultKube,    \* its default Kubernetes version
          KubeBounds,     \* per Talos version, the Kubernetes minors it runs
          EphemeralFloor, \* the smallest EPHEMERAL cap, in bytes
          OwnerEndpoint   \* the endpoint of the cluster a joiner joins

None == [none |-> TRUE]
HostForward == -3
NoEndpoint == -4
NoBundle == 0
OwnerBundle == 1

Kube(minor, patch) == [minor |-> minor, patch |-> patch]
NoKube == Kube(0, 0)

ASSUME NodeConfigAssumption ==
    /\ Generator \in Nat \ {0}
    /\ DefaultKube.minor \in Nat \ {0}
    /\ EphemeralFloor \in Nat
    /\ OwnerEndpoint \in Addresses

-----------------------------------------------------------------------------
\* checkVersion: major.minor only, and an unknown version is not compared.
CheckVersion(v) ==
    IF v = 0 THEN "unknown" ELSE IF v > Generator THEN "refused" ELSE "ok"

\* machinery: may this Kubernetes run on that Talos?
SupportedWith(k, talos) == k.minor \in KubeBounds[talos].min .. KubeBounds[talos].max

\* Faulty: the generator's default, whatever the node runs.
GeneratorsKube(talos) == DefaultKube

\* kubernetesVersion: down from the generator's default, one minor at a time.
KubernetesVersion(talos) ==
    LET candidate(m) == IF m = DefaultKube.minor THEN DefaultKube ELSE Kube(m, 0)
        walk[m \in 0 .. DefaultKube.minor] ==
            IF m = 0 THEN NoKube
            ELSE IF SupportedWith(candidate(m), talos) THEN candidate(m)
            ELSE walk[m - 1]
    IN  walk[DefaultKube.minor]

\* A pinned version is validated, not trusted; NoKube stands for the refusal.
ResolveKubernetesVersion(talos, pinned) ==
    IF pinned = NoKube THEN KubernetesVersion(talos)
    ELSE IF SupportedWith(pinned, talos) THEN pinned
    ELSE NoKube

-----------------------------------------------------------------------------
\* Documents.  A spec is whatever the document says beside its identity.
Doc(kind, name, spec) == [kind |-> kind, name |-> name, spec |-> spec]
Identity(d) == <<d.kind, d.name>>
Elements(s) == {s[i] : i \in DOMAIN s}

\* The elements of s at the places I, in order.
Place(I, i) == Cardinality({k \in I : k <= i})
Picked(s, I) == [j \in 1 .. Cardinality(I) |-> s[CHOOSE i \in I : Place(I, i) = j]]

\* machinery: the documents it emits by itself, from 1.14 on.
MachineryDocs(v) ==
    IF v < 14 THEN <<>>
    ELSE <<Doc("VolumeConfig", "EPHEMERAL", [default |-> TRUE]),
           Doc("KubeNodeConfig", "", [default |-> TRUE]),
           Doc("KubeFlannelCNIConfig", "", [default |-> TRUE]),
           Doc("KubeProxyConfig", "", [default |-> TRUE]),
           Doc("HostnameConfig", "", [auto |-> TRUE])>>

\* checkNodeIdentity: a segment and a hostname need the document model.
CheckNodeIdentity(v, cluster, hostname) ==
    (cluster # None \/ hostname # "") => v > 13

\* withNodeIdentity edits the documents that are there and adds the links; of
\* the ones a segment edits, only kube-proxy's may be missing.
SegmentKinds == {"KubeNodeConfig", "KubeFlannelCNIConfig", "KubeProxyConfig"}
WithNodeIdentity(docs, in) ==
    LET edit(d) ==
            IF in.cluster # None /\ d.kind \in SegmentKinds
            THEN [d EXCEPT !.spec = [subnet |-> Masked(in.cluster)]]
            ELSE IF in.hostname # "" /\ d.kind = "HostnameConfig"
            THEN [d EXCEPT !.spec = [hostname |-> in.hostname]]
            ELSE d
        links == <<Doc("LinkAliasConfig", "cluster0", [default |-> TRUE]),
                   Doc("LinkAliasConfig", "egress0", [default |-> TRUE]),
                   Doc("LinkConfig", "cluster0", [address |-> in.cluster]),
                   Doc("DHCPv4Config", "egress0", [default |-> TRUE])>>
    IN  [i \in DOMAIN docs |-> edit(docs[i])]
            \o (IF in.cluster # None THEN links ELSE <<>>)

\* The documents without which an identity is refused.
EditedKinds(in) ==
    (IF in.cluster # None THEN SegmentKinds \ {"KubeProxyConfig"} ELSE {})
        \cup (IF in.hostname # "" THEN {"HostnameConfig"} ELSE {})

\* ephemeralCap: what does not parse, caps nothing, or forgot its unit.
EphemeralCapPasses(cap) ==
    cap.parses /\ cap.size > 0 /\ (cap.relative \/ cap.size >= EphemeralFloor)

UserVolume(disk) ==
    Doc("UserVolumeConfig", "local-path-provisioner", [match |-> disk])

\* volumeDocuments: a disk for PVCs, or a slice of the system disk.
VolumeDocuments(in) ==
    IF in.data # "" THEN <<UserVolume(in.data)>>
    ELSE IF in.cap # None
    THEN <<Doc("VolumeConfig", "EPHEMERAL", [maxSize |-> in.cap]), UserVolume("system_disk")>>
    ELSE <<>>

WithoutDocuments(existing, incoming) ==
    Picked(existing, {i \in DOMAIN existing :
                        \A e \in Elements(incoming) : Identity(e) # Identity(existing[i])})

\* registriesConfig: the endpoints of a host in order, and the trust of the
\* last entry that asked for any; "*" cannot have trust of its own.
RegistriesConfig(mirrors) ==
    LET hosts == {x.host : x \in Elements(mirrors)}
        of(h) == SelectSeq(mirrors, LAMBDA x : x.host = h)
        asks(h) == SelectSeq(of(h), LAMBDA x : x.skipVerify \/ x.ca # "")
        trusted == {h \in hosts \ {"*"} : asks(h) # <<>>}
    IN  [mirrors |-> [h \in hosts |->
                        [endpoints |-> [i \in DOMAIN of(h) |-> of(h)[i].endpoint],
                         override |-> \E x \in Elements(of(h)) : x.override]],
         tls |-> [h \in trusted |->
                        LET last == asks(h)[Len(asks(h))]
                        IN  [skipVerify |-> last.skipVerify, ca |-> last.ca]]]

\* installDiskSelector, and the path that leaves the selector out.
InstallDisk(ref) ==
    IF ref.path # "" THEN [path |-> ref.path]
    ELSE IF ref.wwid # "" THEN [wwid |-> ref.wwid]
    ELSE [serial |-> ref.serial]

InstallImage(in) ==
    IF in.installer # "" THEN [name |-> in.installer, tag |-> 0]
    ELSE [name |-> "ghcr.io/siderolabs/installer", tag |-> in.version]

\* A patch that brings an UnattendedInstallConfig owns the install.
Unattended(in) == \E p \in Elements(in.patches) : p.unattended

\* configpatcher: here, documents a patch adds.
PatchDocs(patches) ==
    Picked([i \in DOMAIN patches |-> patches[i].doc],
           {i \in DOMAIN patches : patches[i].doc # None})

Documents(in) ==
    LET own == WithNodeIdentity(MachineryDocs(in.version), in)
        volumes == VolumeDocuments(in)
    IN  WithoutDocuments(own, volumes) \o volumes \o PatchDocs(in.patches)

\* container: one document per identity.
NoDuplicate(docs) == \A i, j \in DOMAIN docs : Identity(docs[i]) = Identity(docs[j]) => i = j

\* Every refusal of GenerateConfig.
Generates(in) ==
    /\ CheckVersion(in.version) = "ok"
    /\ ResolveKubernetesVersion(in.version, in.kube) # NoKube
    /\ CheckNodeIdentity(in.version, in.cluster, in.hostname)
    /\ EditedKinds(in) \subseteq {d.kind : d \in Elements(MachineryDocs(in.version))}
    /\ (in.data = "" /\ in.cap # None) => EphemeralCapPasses(in.cap)
    /\ \A p \in Elements(in.patches) : p.parses
    /\ NoDuplicate(Documents(in))

\* GenerateConfig, over the bundle it was given or one minted for it.
GenerateConfig(in, given, fresh) ==
    [bundle |-> IF given # NoBundle THEN given ELSE fresh,
     install |-> IF Unattended(in) THEN None
                 ELSE [disk |-> InstallDisk(in.disk), image |-> InstallImage(in)],
     kube |-> ResolveKubernetesVersion(in.version, in.kube),
     endpoint |-> in.endpoint,
     api |-> in.api,
     sans |-> {in.api} \cup in.sans
                 \cup (IF in.cluster # None THEN {in.cluster.addr} ELSE {}),
     etcdSubnet |-> IF in.cluster # None THEN Masked(in.cluster) ELSE NoEndpoint,
     network |-> in.network,
     registries |-> RegistriesConfig(in.mirrors),
     patches |-> in.patches,
     docs |-> Documents(in)]

-----------------------------------------------------------------------------
\* The machine file, as the two verbs read it.
SystemSerial == "talos-system"
NoDisk == [serial |-> "", wwid |-> "", path |-> ""]
BySerial(s) == [NoDisk EXCEPT !.serial = s]
ByPath(p) == [NoDisk EXCEPT !.path = p]

\* installedEndpoint: the static address when there is one.
InstalledAddr(m) ==
    IF ~m.metal THEN HostForward
    ELSE IF m.network # None THEN m.network.net.addr ELSE m.maintenance

\* kubeEndpoint and baremetalKubeEndpoint.
KubeEndpoint(m) == InstalledAddr(m)

HostSANs(m) == IF m.cluster = None THEN {} ELSE {KubeEndpoint(m)}

ControlPlaneEndpoint(m) ==
    IF m.joins THEN OwnerEndpoint
    ELSE IF m.cluster # None THEN m.cluster.addr
    ELSE KubeEndpoint(m)

\* specSystemDisk for a VM, the baremetal block for hardware.
SystemDisk(m) ==
    IF m.metal THEN m.disk
    ELSE IF m.disk.path # "" THEN ByPath(m.disk.path)
    ELSE BySerial(SystemSerial)

\* What GenerateConfig is given beside a bundle.  Both translations take most of
\* it from the same places of the file.
Input(m, version, endpoint, kube, installer, disk) ==
    [api |-> InstalledAddr(m), version |-> version, data |-> m.data, cap |-> m.cap,
     network |-> m.network, cluster |-> m.cluster, hostname |-> m.hostname,
     sans |-> HostSANs(m), mirrors |-> m.mirrors, patches |-> m.patches,
     endpoint |-> endpoint, kube |-> kube, installer |-> installer, disk |-> disk]

\* upOptions or adoptMachine, then configure.  adopt does not read the
\* installer image.
UpInput(m, version) ==
    Input(m, version, ControlPlaneEndpoint(m), m.kube,
          IF m.metal THEN "" ELSE m.installer, SystemDisk(m))

\* The bundle of the cluster that is joined, if one is.
UpBundle(m) == IF m.joins THEN OwnerBundle ELSE NoBundle

\* Faulty: a node is given its own endpoint again, joined or not.
ReconfigureOwnInput(m, version, recorded) ==
    Input(m, version, IF m.cluster # None THEN m.cluster.addr ELSE KubeEndpoint(m),
          NoKube, "", IF m.metal THEN SystemDisk(m) ELSE BySerial(SystemSerial))

\* reconfigureOptions, then reconfigureInput.  Neither carries a Kubernetes
\* version or an installer image, a VM's disk is the serial, and only hardware
\* is asked what it joins.
ReconfigureInput(m, version, recorded) ==
    Input(m, version,
          IF m.cluster # None THEN recorded
          ELSE IF m.metal /\ m.joins THEN OwnerEndpoint
          ELSE KubeEndpoint(m),
          NoKube, "", IF m.metal THEN SystemDisk(m) ELSE BySerial(SystemSerial))

-----------------------------------------------------------------------------
\* DiskRef.Validate and DiskRef.Match; RequireDisk; RequireLink.
NamedBy(ref) == {f \in {"serial", "wwid", "path"} : ref[f] # ""}
Validate(ref) == Cardinality(NamedBy(ref)) <= 1

MatchDisk(ref, d) ==
    IF ref.serial # "" THEN d.serial = ref.serial
    ELSE ref.wwid # "" /\ d.wwid = ref.wwid

RequireDisk(disks, ref) ==
    /\ NamedBy(ref) # {}
    /\ Validate(ref)
    /\ \E d \in disks : MatchDisk(ref, d)

\* Faulty: the link is there, cabled or not.
RequireNamedLink(links, mac) == \E l \in links : l.mac = mac

\* The first link with this MAC decides; MACs are distinct.
RequireLink(links, mac) == \E l \in links : l.mac = mac /\ l.carrier

\* reconfigureRefusals: the selector block, which is not there for a path or
\* an empty selector, and the first document of each kind of volume.
Selector(c) ==
    IF c.install = None THEN None
    ELSE IF "path" \in DOMAIN c.install.disk \/ c.install.disk = [serial |-> ""] THEN None
    ELSE c.install.disk

VolumeKinds == {"VolumeConfig", "UserVolumeConfig"}

DocOfKind(c, kind) ==
    LET those == {i \in DOMAIN c.docs : c.docs[i].kind = kind}
    IN  IF those = {} THEN None ELSE c.docs[Min(those)]

\* Faulty: only the caps and disks that are still declared are compared.
RefusesChangedOnly(current, next) ==
    \/ Selector(current) # Selector(next)
    \/ \E k \in VolumeKinds : /\ DocOfKind(current, k) # None
                              /\ DocOfKind(next, k) # None
                              /\ DocOfKind(current, k) # DocOfKind(next, k)

Refuses(current, next) ==
    \/ Selector(current) # Selector(next)
    \/ \E k \in VolumeKinds : DocOfKind(current, k) # DocOfKind(next, k)
=============================================================================
