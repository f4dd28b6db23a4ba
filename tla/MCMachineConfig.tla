--------------------------- MODULE MCMachineConfig ---------------------------
EXTENDS MachineConfig

BuildKube == Kube(37, 1)
Compatibility == [v \in 0 .. 15 |-> [min |-> v + 18, max |-> v + 23]]

NodeDisks == {[serial |-> "S1", wwid |-> "W1"], [serial |-> "", wwid |-> "W2"],
              [serial |-> "S3", wwid |-> ""]}
NodeLinks == {[mac |-> "mac", carrier |-> TRUE], [mac |-> "spare", carrier |-> FALSE]}

\* A VM of each release, with what only newer releases carry.
Guest == [metal |-> FALSE, version |-> 14, kube |-> NoKube, installer |-> "",
          disk |-> NoDisk, data |-> "", cap |-> None, network |-> None,
          maintenance |-> HostForward, cluster |-> None, hostname |-> "",
          joins |-> FALSE, mirrors |-> <<>>, patches |-> <<>>]
OldGuest == [Guest EXCEPT !.version = 12]
Pvc == [Guest EXCEPT !.data = "tinq-data"]
Lan(a) == [addr |-> a, bits |-> 2]
Member == [Guest EXCEPT !.cluster = Lan(9), !.hostname = "cp0"]
Joiner == [Guest EXCEPT !.cluster = Lan(10), !.joins = TRUE]

Mirror(h, ca) == [host |-> h, endpoint |-> "http://10.0.2.2:5000", ca |-> ca,
                  skipVerify |-> FALSE, override |-> FALSE]
Patch == [parses |-> TRUE, unattended |-> FALSE, doc |-> None]
Mirrored == [Guest EXCEPT !.mirrors = <<Mirror("docker.io", ""), Mirror("docker.io", "ca"),
                                        Mirror("*", "ca")>>,
                          !.patches = <<[Patch EXCEPT !.doc = Doc("WatchdogTimerConfig", "",
                                                                 [default |-> TRUE])]>>]
Broken == [Guest EXCEPT !.patches = <<[Patch EXCEPT !.parses = FALSE]>>]
TooNew == [Guest EXCEPT !.version = 15]

\* Hardware.
Hardware == [Guest EXCEPT !.metal = TRUE, !.version = 0, !.disk = BySerial("S1"),
                          !.maintenance = 6]
Static == [net |-> [addr |-> 5, bits |-> 2], gateway |-> 6, resolvers |-> {1}, mac |-> "mac"]
Pinned == [Hardware EXCEPT !.network = Static]
Capped(n, relative) ==
    [Hardware EXCEPT !.disk = [NoDisk EXCEPT !.wwid = "W2"],
                     !.cap = [parses |-> TRUE, size |-> n, relative |-> relative]]

GuestFiles == {Guest, OldGuest, Pvc, Member, Joiner, [Joiner EXCEPT !.cluster = None], Mirrored, Broken, TooNew}
MetalFiles == {Hardware, Pinned,
               [Pinned EXCEPT !.network.gateway = 4],
               [Pinned EXCEPT !.network.net.addr = 7],
               [Pinned EXCEPT !.network.mac = "spare"],
               [Hardware EXCEPT !.disk = BySerial("typo")],
               [Hardware EXCEPT !.disk.wwid = "W1"],
               [Hardware EXCEPT !.data = "S3", !.version = 13],
               [Hardware EXCEPT !.joins = TRUE],
               [Hardware EXCEPT !.patches = <<[Patch EXCEPT !.unattended = TRUE]>>],
               Capped(9, FALSE), Capped(7, FALSE), Capped(6, TRUE)}
ConfigFiles == GuestFiles \cup MetalFiles

\* The hypotheses under which UneditedIsUnchanged, KubernetesFits and
\* RecordMatchesLayout hold of every instance are those of these files.
ASSUME FilesAssumption ==
    /\ \A m \in Manifests : Plain(m) /\ InstallKnown(m) /\ NamedDisk(m) /\ OwnVolumes(m)
    /\ UpgradesFit
=============================================================================
