---------------------------- MODULE ConfigProofs ----------------------------
(****************************************************************************)
(* Proofs about MachineConfig, for any machine files, disks, links, versions *)
(* and bundles: what up, adopt and reconfigure write beside a node is what   *)
(* the node holds, and what they send it lets it run.                        *)
(****************************************************************************)
EXTENDS MachineConfig, FiniteSetTheorems, WellFoundedInduction, TLAPS

\* Zenon is tried first, then SMT.
USE ZenonT(20), SMTT(20)

-----------------------------------------------------------------------------
(* Configs and runs. *)

LEMMA RunIsSome ==
  ASSUME NEW r, IsRun(r)
  PROVE  r # None
<1>1. "verb" \in DOMAIN r
  BY SMT DEF IsRun
<1>2. "verb" \notin DOMAIN None
  BY SMT DEF None
<1> QED
  BY <1>1, <1>2

LEMMA RunFields ==
  ASSUME NEW b, NEW t, NEW m, NEW v, NEW c, NEW d, NEW x
  PROVE  LET r == [verb |-> b, step |-> t, manifest |-> m, version |-> v, config |-> c,
                   todo |-> d, removed |-> x]
         IN  /\ IsRun(r) /\ r.verb = b /\ r.step = t /\ r.manifest = m /\ r.version = v
             /\ r.config = c /\ r.todo = d /\ r.removed = x
BY DEF IsRun

\* The updates that the steps of a run make.
LEMMA RunUpdate ==
  ASSUME NEW r, IsRun(r), NEW t, NEW c, NEW d, NEW x
  PROVE  /\ [r EXCEPT !.step = t]
              = [verb |-> r.verb, step |-> t, manifest |-> r.manifest, version |-> r.version,
                 config |-> r.config, todo |-> r.todo, removed |-> r.removed]
         /\ [r EXCEPT !.removed = x]
              = [verb |-> r.verb, step |-> r.step, manifest |-> r.manifest, version |-> r.version,
                 config |-> r.config, todo |-> r.todo, removed |-> x]
         /\ [r EXCEPT !.config = c]
              = [verb |-> r.verb, step |-> r.step, manifest |-> r.manifest, version |-> r.version,
                 config |-> c, todo |-> r.todo, removed |-> r.removed]
         /\ [r EXCEPT !.todo = d]
              = [verb |-> r.verb, step |-> r.step, manifest |-> r.manifest, version |-> r.version,
                 config |-> r.config, todo |-> d, removed |-> r.removed]
<1>1. DOMAIN r = {"verb", "step", "manifest", "version", "config", "todo", "removed"}
  BY SMT DEF IsRun
<1>2. r = [f \in {"verb", "step", "manifest", "version", "config", "todo", "removed"} |-> r[f]]
  BY SMT, <1>1 DEF IsRun
<1>3. [r EXCEPT !.step = t]
              = [verb |-> r.verb, step |-> t, manifest |-> r.manifest, version |-> r.version,
                 config |-> r.config, todo |-> r.todo, removed |-> r.removed]
  BY SMT, <1>1, <1>2
<1>4. [r EXCEPT !.removed = x]
              = [verb |-> r.verb, step |-> r.step, manifest |-> r.manifest, version |-> r.version,
                 config |-> r.config, todo |-> r.todo, removed |-> x]
  BY SMT, <1>1, <1>2
<1>5. [r EXCEPT !.config = c]
              = [verb |-> r.verb, step |-> r.step, manifest |-> r.manifest, version |-> r.version,
                 config |-> c, todo |-> r.todo, removed |-> r.removed]
  BY SMT, <1>1, <1>2
<1>6. [r EXCEPT !.todo = d]
              = [verb |-> r.verb, step |-> r.step, manifest |-> r.manifest, version |-> r.version,
                 config |-> r.config, todo |-> d, removed |-> r.removed]
  BY SMT, <1>1, <1>2
<1> QED
  BY <1>3, <1>4, <1>5, <1>6

LEMMA RunUpdates ==
  ASSUME NEW r, IsRun(r), NEW t, NEW c, NEW d, NEW x
  PROVE  /\ [r EXCEPT !.step = t, !.config = c, !.todo = d]
              = [verb |-> r.verb, step |-> t, manifest |-> r.manifest, version |-> r.version,
                 config |-> c, todo |-> d, removed |-> r.removed]
         /\ [r EXCEPT !.todo = d, !.removed = x, !.step = t]
              = [verb |-> r.verb, step |-> t, manifest |-> r.manifest, version |-> r.version,
                 config |-> r.config, todo |-> d, removed |-> x]
<1>1. [r EXCEPT !.step = t, !.config = c, !.todo = d]
        = [[[r EXCEPT !.step = t] EXCEPT !.config = c] EXCEPT !.todo = d]
  OBVIOUS
<1>2. [r EXCEPT !.todo = d, !.removed = x, !.step = t]
        = [[[r EXCEPT !.todo = d] EXCEPT !.removed = x] EXCEPT !.step = t]
  OBVIOUS
<1> DEFINE a1 == [r EXCEPT !.step = t]
           a2 == [a1 EXCEPT !.config = c]
           b1 == [r EXCEPT !.todo = d]
           b2 == [b1 EXCEPT !.removed = x]
<1>3. a1 = [verb |-> r.verb, step |-> t, manifest |-> r.manifest, version |-> r.version,
            config |-> r.config, todo |-> r.todo, removed |-> r.removed]
  BY RunUpdate
<1>4. b1 = [verb |-> r.verb, step |-> r.step, manifest |-> r.manifest, version |-> r.version,
            config |-> r.config, todo |-> d, removed |-> r.removed]
  BY RunUpdate
<1> HIDE DEF a1, b1
<1>5. a2 = [verb |-> r.verb, step |-> t, manifest |-> r.manifest, version |-> r.version,
            config |-> c, todo |-> r.todo, removed |-> r.removed]
  <2>1. IsRun(a1) /\ a1.verb = r.verb /\ a1.step = t /\ a1.manifest = r.manifest
        /\ a1.version = r.version /\ a1.todo = r.todo /\ a1.removed = r.removed
    BY <1>3, RunFields
  <2>2. a2 = [verb |-> a1.verb, step |-> a1.step, manifest |-> a1.manifest, version |-> a1.version,
              config |-> c, todo |-> a1.todo, removed |-> a1.removed]
    BY <2>1, RunUpdate
  <2> QED
    BY <2>1, <2>2
<1>6. b2 = [verb |-> r.verb, step |-> r.step, manifest |-> r.manifest, version |-> r.version,
            config |-> r.config, todo |-> d, removed |-> x]
  <2>1. IsRun(b1) /\ b1.verb = r.verb /\ b1.step = r.step /\ b1.manifest = r.manifest
        /\ b1.version = r.version /\ b1.todo = d /\ b1.config = r.config
    BY <1>4, RunFields
  <2>2. b2 = [verb |-> b1.verb, step |-> b1.step, manifest |-> b1.manifest, version |-> b1.version,
              config |-> b1.config, todo |-> b1.todo, removed |-> x]
    BY <2>1, RunUpdate
  <2> QED
    BY <2>1, <2>2
<1> HIDE DEF a2, b2
<1>7. [a2 EXCEPT !.todo = d]
        = [verb |-> r.verb, step |-> t, manifest |-> r.manifest, version |-> r.version,
           config |-> c, todo |-> d, removed |-> r.removed]
  <2>1. IsRun(a2) /\ a2.verb = r.verb /\ a2.step = t /\ a2.manifest = r.manifest
        /\ a2.version = r.version /\ a2.config = c /\ a2.removed = r.removed
    BY <1>5, RunFields
  <2>2. [a2 EXCEPT !.todo = d]
          = [verb |-> a2.verb, step |-> a2.step, manifest |-> a2.manifest, version |-> a2.version,
             config |-> a2.config, todo |-> d, removed |-> a2.removed]
    BY <2>1, RunUpdate
  <2> QED
    BY <2>1, <2>2
<1>8. [b2 EXCEPT !.step = t]
        = [verb |-> r.verb, step |-> t, manifest |-> r.manifest, version |-> r.version,
           config |-> r.config, todo |-> d, removed |-> x]
  <2>1. IsRun(b2) /\ b2.verb = r.verb /\ b2.removed = x /\ b2.manifest = r.manifest
        /\ b2.version = r.version /\ b2.config = r.config /\ b2.todo = d
    BY <1>6, RunFields
  <2>2. [b2 EXCEPT !.step = t]
          = [verb |-> b2.verb, step |-> t, manifest |-> b2.manifest, version |-> b2.version,
             config |-> b2.config, todo |-> b2.todo, removed |-> b2.removed]
    BY <2>1, RunUpdate
  <2> QED
    BY <2>1, <2>2
<1> QED
  BY <1>1, <1>2, <1>7, <1>8 DEF a1, a2, b1, b2

LEMMA ConfigIsSome ==
  \A in, given, fresh : GenerateConfig(in, given, fresh) # None
<1> SUFFICES ASSUME NEW in, NEW given, NEW fresh
             PROVE  GenerateConfig(in, given, fresh) # None
  OBVIOUS
<1>1. "bundle" \in DOMAIN GenerateConfig(in, given, fresh)
  BY SMT DEF GenerateConfig
<1>2. "bundle" \notin DOMAIN None
  BY SMT DEF None
<1> QED
  BY <1>1, <1>2

LEMMA ConfigBundle ==
  \A in, given, fresh :
    GenerateConfig(in, given, fresh).bundle = IF given # NoBundle THEN given ELSE fresh
BY DEF GenerateConfig

LEMMA ConfigFields ==
  \A in, given, fresh :
    /\ GenerateConfig(in, given, fresh).endpoint = in.endpoint
    /\ GenerateConfig(in, given, fresh).network = in.network
    /\ GenerateConfig(in, given, fresh).docs = Documents(in)
    /\ GenerateConfig(in, given, fresh).kube = ResolveKubernetesVersion(in.version, in.kube)
    /\ GenerateConfig(in, given, fresh).install
          = IF Unattended(in) THEN None
            ELSE [disk |-> InstallDisk(in.disk), image |-> InstallImage(in)]
BY DEF GenerateConfig

LEMMA LayoutIsSome == \A c : LayoutOf(c) # None
<1> SUFFICES ASSUME NEW c PROVE LayoutOf(c) # None
  OBVIOUS
<1>1. "disk" \in DOMAIN LayoutOf(c)
  BY SMT DEF LayoutOf
<1>2. "disk" \notin DOMAIN None
  BY SMT DEF None
<1> QED
  BY <1>1, <1>2

LEMMA SourceIsSome == RunSource # None
<1>1. "manifest" \in DOMAIN RunSource
  BY SMT DEF RunSource
<1>2. "manifest" \notin DOMAIN None
  BY SMT DEF None
<1> QED
  BY <1>1, <1>2

\* What the two translations put into the fields that the invariant looks at.
LEMMA InputFields ==
  ASSUME NEW m, NEW v, NEW e, NEW k, NEW i, NEW d
  PROVE  LET in == Input(m, v, e, k, i, d)
         IN  /\ in.version = v /\ in.endpoint = e /\ in.kube = k /\ in.installer = i /\ in.disk = d
             /\ in.cluster = m.cluster /\ in.network = m.network /\ in.patches = m.patches
BY DEF Input

LEMMA InitInv == Init => Inv
<1> SUFFICES ASSUME Init PROVE Inv
  OBVIOUS
<1>1. version \in Versions
  BY DEF Init, Versions
<1>2. on \in BOOLEAN
  BY MachineConfigAssumption DEF Init
<1>3. minted \in Bundles
  <2>1. MaxBundles \in Nat \ {0} /\ minted = OwnerBundle
    BY MachineConfigAssumption DEF Init
  <2> QED
    BY SMT, <2>1 DEF Bundles, OwnerBundle
<1>4. TypeOK
  BY <1>1, <1>2, <1>3 DEF Init, TypeOK
<1> QED
  BY <1>4 DEF Init, Inv, TrustKept, RunInv, InstallInv, ReconfigureInv

-----------------------------------------------------------------------------
(* Steps that leave node and state directory alone. *)

LEMMA EndsKeep ==
  ASSUME Inv, End, UNCHANGED <<manifest, node, artifacts, minted>>
  PROVE  Inv'
<1>1. TypeOK' /\ TrustKept'
  BY DEF Inv, End, node, artifacts, TypeOK, TrustKept
<1> QED
  BY <1>1 DEF End, Inv, RunInv, InstallInv, ReconfigureInv

LEMMA EditKeeps ==
  ASSUME Inv, NEW f \in Manifests, Edit(f)
  PROVE  Inv'
<1>1. TypeOK' /\ TrustKept'
  BY DEF Inv, Edit, node, artifacts, TypeOK, TrustKept
<1>2. RunInv'
  BY DEF Inv, Edit, node, artifacts, RunInv
<1>3. InstallInv' /\ ReconfigureInv'
  BY DEF Inv, Edit, node, artifacts, InstallInv, ReconfigureInv
<1> QED
  BY <1>1, <1>2, <1>3 DEF Inv

LEMMA StutterKeeps ==
  ASSUME Inv, UNCHANGED vars
  PROVE  Inv'
<1>1. TypeOK' /\ TrustKept'
  BY DEF Inv, vars, node, artifacts, TypeOK, TrustKept
<1>2. RunInv'
  BY DEF Inv, vars, node, artifacts, RunInv
<1>3. InstallInv' /\ ReconfigureInv'
  BY DEF Inv, vars, node, artifacts, InstallInv, ReconfigureInv
<1> QED
  BY <1>1, <1>2, <1>3 DEF Inv

LEMMA UpBeginKeeps ==
  ASSUME Inv, UpBegin
  PROVE  Inv'
<1>1. /\ IsRun(run') /\ run'.verb = "up" /\ run'.step = "boot" /\ run'.manifest = manifest
      /\ run'.version = manifest.version /\ run'.removed = ""
      /\ (run'.manifest.joins => run'.manifest.cluster # None)
  BY ZenonT(80), RunFields DEF UpBegin
<1>2. TypeOK' /\ TrustKept'
  BY <1>1 DEF Inv, UpBegin, node, artifacts, TypeOK, TrustKept
<1>3. run'.version \in Versions /\ CheckVersion(run'.version) = "ok" /\ run'.manifest \in Manifests
      /\ ~run'.manifest.metal
  BY <1>1 DEF UpBegin, Inv, TypeOK, Versions
<1>4. RunInv'
  BY <1>1, <1>3 DEF RunInv, Versions, CheckVersion
<1> QED
  BY <1>1, <1>2, <1>4 DEF Inv, InstallInv, ReconfigureInv

LEMMA AdoptBeginKeeps ==
  ASSUME Inv, AdoptBegin
  PROVE  Inv'
<1> DEFINE v == IF manifest.version # 0 THEN manifest.version ELSE version
<1>1. /\ IsRun(run') /\ run'.verb = "adopt" /\ run'.step = "configure" /\ run'.manifest = manifest
      /\ run'.version = v /\ run'.removed = ""
  <2>1. run' = [verb |-> "adopt", step |-> "configure", manifest |-> manifest,
                version |-> v, config |-> None, todo |-> {}, removed |-> ""]
    BY DEF AdoptBegin
  <2> HIDE DEF v
  <2> QED
    BY ZenonT(80), <2>1, RunFields
<1>2. TypeOK' /\ TrustKept'
  BY <1>1 DEF Inv, AdoptBegin, node, artifacts, TypeOK, TrustKept
<1>3. v \in Versions /\ CheckVersion(v) = "ok" /\ manifest \in Manifests
      /\ manifest.metal /\ AdoptPasses(manifest) /\ held' = None /\ version' = version
  BY DEF AdoptBegin, Inv, TypeOK, Versions, Maintenance, node
<1>4. RunInv'
  BY <1>1, <1>3 DEF RunInv
<1> QED
  BY <1>1, <1>2, <1>4 DEF Inv, InstallInv, ReconfigureInv

-----------------------------------------------------------------------------
(* The node. *)

\* A VM is switched on, by apply or by up.
LEMMA PowerOnTypes ==
  ASSUME Inv, NEW m \in Manifests, PowerOn(m), UNCHANGED <<manifest, artifacts, minted>>
  PROVE  /\ UNCHANGED <<held, layout, source, torn, talosconfig, secrets, current, endpoint>>
         /\ on' \in BOOLEAN /\ version' \in Versions
         /\ TrustKept'
BY DEF Inv, PowerOn, artifacts, TypeOK, Versions, TrustKept

LEMMA ApplyKeeps ==
  ASSUME Inv, Apply
  PROVE  Inv'
<1>1. /\ UNCHANGED <<held, layout, source, torn, talosconfig, secrets, current, endpoint>>
      /\ on' \in BOOLEAN /\ version' \in Versions /\ TrustKept'
      /\ UNCHANGED <<manifest, run, minted>>
  BY PowerOnTypes DEF Apply, Inv, TypeOK
<1>2. TypeOK'
  BY <1>1 DEF Inv, TypeOK
<1> QED
  BY <1>1, <1>2 DEF Apply, Idle, Inv, RunInv, InstallInv, ReconfigureInv

\* A run keeps all but the fields that a step names.
LEMMA StepFields ==
  ASSUME RunInv, run # None, NEW t, run' = [run EXCEPT !.step = t]
  PROVE  /\ IsRun(run') /\ run' # None
         /\ run'.verb = run.verb /\ run'.step = t /\ run'.manifest = run.manifest
         /\ run'.version = run.version /\ run'.config = run.config
         /\ run'.todo = run.todo /\ run'.removed = run.removed
<1>1. run' = [verb |-> run.verb, step |-> t, manifest |-> run.manifest, version |-> run.version,
              config |-> run.config, todo |-> run.todo, removed |-> run.removed]
  BY RunUpdate DEF RunInv
<1>2. IsRun(run')
  <2>1. IsRun([verb |-> run.verb, step |-> t, manifest |-> run.manifest, version |-> run.version,
               config |-> run.config, todo |-> run.todo, removed |-> run.removed])
    BY RunFields
  <2> QED
    BY <1>1, <2>1
<1> QED
  BY <1>1, <1>2, RunIsSome

LEMMA BootKeeps ==
  ASSUME Inv, Boot
  PROVE  Inv'
<1>1. run # None /\ run.verb = "up" /\ run.manifest \in Manifests /\ UNCHANGED <<manifest, artifacts, minted>>
      /\ run' = [run EXCEPT !.step = "configure"] /\ run.removed = ""
  BY DEF Boot, At, Inv, RunInv
<1>2. /\ UNCHANGED <<held, layout, source, torn, talosconfig, secrets, current, endpoint>>
      /\ on' \in BOOLEAN /\ version' \in Versions /\ TrustKept'
  <2>1. CASE on
    BY <1>1, <2>1 DEF Boot, node, artifacts, Inv, TypeOK, TrustKept
  <2>2. CASE ~on
    BY <1>1, <2>2, PowerOnTypes DEF Boot
  <2> QED
    BY <2>1, <2>2
<1>3. /\ IsRun(run') /\ run' # None
      /\ run'.verb = run.verb /\ run'.step = "configure" /\ run'.manifest = run.manifest
      /\ run'.version = run.version /\ run'.removed = run.removed
  BY <1>1, StepFields DEF Inv
<1>4. TypeOK'
  BY <1>1, <1>2, <1>3 DEF Inv, TypeOK
<1>5. RunInv'
  BY <1>1, <1>3 DEF Inv, RunInv
<1> QED
  BY <1>1, <1>2, <1>3, <1>4, <1>5 DEF Inv, InstallInv, ReconfigureInv

LEMMA VersionsAreNat == Versions \subseteq Nat
<1>1. /\ NodeVersions \subseteq Nat /\ Upgrades \subseteq Nat
      /\ \A m \in Manifests : m.version \in Nat
  BY MachineConfigAssumption
<1>2. 0 \in Nat
  BY SMT
<1> QED
  BY <1>1, <1>2 DEF Versions

LEMMA UpgradeKeeps ==
  ASSUME Inv, NEW v \in Upgrades, Upgrade(v)
  PROVE  Inv'
<1>1. /\ UNCHANGED <<manifest, on, held, layout, source, torn, talosconfig, secrets, current, endpoint, run, minted>>
      /\ version' = v /\ v > version /\ held # None
  BY DEF Upgrade, artifacts
<1>2. TypeOK' /\ TrustKept'
  BY <1>1 DEF Inv, TypeOK, TrustKept, Versions
<1>3. RunInv' /\ InstallInv'
  BY <1>1 DEF Inv, RunInv, InstallInv
<1>4. ReconfigureInv'
  <2>1. SUFFICES ASSUME run # None, run.verb = "reconfigure"
                 PROVE  version' \in Upgrades /\ version' > run.version
    BY <1>1, <2>1 DEF Inv, ReconfigureInv
  <2>2. /\ version = run.version \/ (version \in Upgrades /\ version > run.version)
        /\ run.version \in Nat /\ version \in Nat /\ v \in Nat
    BY <2>1, VersionsAreNat DEF Inv, ReconfigureInv, RunInv, TypeOK, Versions
  <2> QED
    BY SMT, <1>1, <2>2
<1> QED
  BY <1>2, <1>3, <1>4 DEF Inv

LEMMA SwitchKeeps ==
  ASSUME Inv, Stop \/ MetalOn
  PROVE  Inv'
<1>1. /\ UNCHANGED <<manifest, version, held, layout, source, torn, talosconfig, secrets, current, endpoint,
                     run, minted>>
      /\ on' \in BOOLEAN
  BY DEF Stop, MetalOn, artifacts
<1>2. TypeOK' /\ TrustKept'
  BY <1>1 DEF Inv, TypeOK, TrustKept
<1>3. RunInv'
  BY <1>1 DEF Inv, RunInv
<1>4. InstallInv' /\ ReconfigureInv'
  BY <1>1 DEF Inv, InstallInv, ReconfigureInv
<1> QED
  BY <1>2, <1>3, <1>4 DEF Inv

LEMMA DestroyKeeps ==
  ASSUME Inv, Destroy
  PROVE  Inv'
<1>1. TypeOK'
  BY DEF Destroy, DiskGoes, Inv, TypeOK, Versions, Idle
<1> QED
  BY <1>1 DEF Destroy, DiskGoes, Idle, Inv, TrustKept, RunInv, InstallInv, ReconfigureInv

LEMMA DestroyStopsKeeps ==
  ASSUME Inv, DestroyStops
  PROVE  Inv'
<1>1. TypeOK' /\ TrustKept'
  <2>1. CASE DiskGoes
    BY <2>1 DEF DestroyStops, DiskGoes, Inv, TypeOK, TrustKept, Versions, Idle
  <2>2. CASE DiskStays
    BY <2>2 DEF DestroyStops, DiskStays, Inv, TypeOK, TrustKept, Idle
  <2> QED
    BY <2>1, <2>2 DEF DestroyStops
<1> QED
  BY <1>1 DEF DestroyStops, Idle, Inv, RunInv, InstallInv, ReconfigureInv

-----------------------------------------------------------------------------
(* The config of a machine that has none. *)

\* A config generated over its own bundle is the same config.
LEMMA SameBundle ==
  ASSUME NEW in, NEW given, NEW fresh, NEW c, c = GenerateConfig(in, given, fresh)
  PROVE  c = GenerateConfig(in, given, c.bundle)
<1>1. CASE given # NoBundle
  BY <1>1 DEF GenerateConfig
<1>2. CASE given = NoBundle
  <2>1. c.bundle = fresh
    BY <1>2, ConfigBundle
  <2> QED
    BY <2>1
<1> QED
  BY <1>1, <1>2

LEMMA ConfigureKeeps ==
  ASSUME Inv, Configure
  PROVE  Inv'
<1> DEFINE in == UpInput(run.manifest, run.version)
           given == UpBundle(run.manifest)
           c == GenerateConfig(in, given, minted + 1)
           extra == IF in.cluster # None THEN {"cluster-endpoint"} ELSE {}
           todo == {"talosconfig", "secrets.yaml", "controlplane.yaml"} \cup extra
<1>1. /\ run # None /\ run.verb \in Installs /\ run.step = "configure" /\ run.removed = ""
      /\ talosconfig = NoBundle /\ held = None
      /\ Generates(in)
      /\ given = NoBundle => minted < MaxBundles
      /\ minted' = IF given = NoBundle THEN minted + 1 ELSE minted
      /\ UNCHANGED <<manifest, on, version, held, layout, source, torn, talosconfig, secrets, current, endpoint>>
  BY DEF Configure, At, Maintenance, node, artifacts, Inv, RunInv
<1>2. /\ IsRun(run') /\ run' # None /\ run'.verb = run.verb /\ run'.step = "write"
      /\ run'.manifest = run.manifest /\ run'.version = run.version /\ run'.config = c
      /\ run'.todo = todo /\ run'.removed = ""
  <2>1. IsRun(run) /\ run' = [run EXCEPT !.step = "write", !.config = c, !.todo = todo]
    BY <1>1 DEF Configure, Inv, RunInv
  <2> HIDE DEF c, todo
  <2>2. run' = [verb |-> run.verb, step |-> "write", manifest |-> run.manifest,
                version |-> run.version, config |-> c, todo |-> todo, removed |-> run.removed]
    BY ZenonT(80), <2>1, RunUpdates
  <2>3. LET r == [verb |-> run.verb, step |-> "write", manifest |-> run.manifest,
                  version |-> run.version, config |-> c, todo |-> todo, removed |-> run.removed]
        IN  IsRun(r) /\ r.verb = run.verb /\ r.step = "write" /\ r.manifest = run.manifest
            /\ r.version = run.version /\ r.config = c /\ r.todo = todo /\ r.removed = run.removed
    BY RunFields
  <2> QED
    BY <1>1, <2>2, <2>3, RunIsSome
<1>3. /\ c # None /\ c.bundle = IF given # NoBundle THEN given ELSE minted + 1
      /\ c = GenerateConfig(in, given, c.bundle)
  <2> HIDE DEF in, given
  <2>1. /\ c # None /\ c.bundle = IF given # NoBundle THEN given ELSE minted + 1
    BY ConfigIsSome, ConfigBundle
  <2>2. c = GenerateConfig(in, given, c.bundle)
    BY SameBundle
  <2> QED
    BY <2>1, <2>2
<1>4. /\ minted' \in Bundles /\ OwnerBundle .. minted \subseteq OwnerBundle .. minted'
      /\ c.bundle \in OwnerBundle .. minted'
  <2>1. given \in {NoBundle, OwnerBundle} /\ minted \in Bundles /\ MaxBundles \in Nat
    BY MachineConfigAssumption DEF UpBundle, Inv, TypeOK
  <2> HIDE DEF c, given
  <2>2. CASE given = NoBundle
    <3>1. minted' = minted + 1 /\ c.bundle = minted + 1 /\ minted < MaxBundles
      BY <1>1, <1>3, <2>2
    <3> QED
      BY SMT, <2>1, <3>1 DEF Bundles, OwnerBundle
  <2>3. CASE given # NoBundle
    <3>1. minted' = minted /\ c.bundle = OwnerBundle
      BY <1>1, <1>3, <2>1, <2>3
    <3> QED
      BY SMT, <2>1, <3>1 DEF Bundles, OwnerBundle
  <2> QED
    BY <2>2, <2>3
<1> HIDE DEF c
<1>5. TypeOK' /\ TrustKept'
  BY <1>1, <1>2, <1>4 DEF Inv, TypeOK, TrustKept
<1>6. RunInv'
  BY <1>1, <1>2 DEF Inv, RunInv, Installs
<1>7. InstallInv'
  <2>1. UpInput(run'.manifest, run'.version) = in /\ UpBundle(run'.manifest) = given
    BY <1>2
  <2> HIDE DEF in, given
  <2>2. "talosconfig" \in todo /\ "secrets.yaml" \in todo /\ "controlplane.yaml" \in todo
        /\ (in.cluster # None => "cluster-endpoint" \in todo)
    OBVIOUS
  <2> QED
    BY <1>1, <1>2, <1>3, <1>4, <2>1, <2>2 DEF InstallInv
<1> QED
  BY <1>1, <1>2, <1>5, <1>6, <1>7 DEF Inv, ReconfigureInv, Installs

-----------------------------------------------------------------------------
(* writeArtifacts. *)

LEMMA ClusterEndpoint ==
  ASSUME NEW m \in Manifests, NEW v, UpInput(m, v).cluster # None
  PROVE  UpInput(m, v).endpoint \in Addresses
<1>1. m.cluster # None /\ UpInput(m, v).endpoint = ControlPlaneEndpoint(m)
  BY DEF UpInput, Input
<1>2. m.cluster.addr \in Addresses /\ OwnerEndpoint \in Addresses
  BY <1>1, MachineConfigAssumption, NodeConfigAssumption
<1> QED
  BY <1>1, <1>2 DEF ControlPlaneEndpoint

LEMMA RemoveKeeps ==
  ASSUME Inv, RemoveArtifact
  PROVE  Inv'
<1>1. PICK a \in run.todo :
         /\ talosconfig' = IF a = "talosconfig" THEN NoBundle ELSE talosconfig
         /\ secrets' = IF a = "secrets.yaml" THEN NoBundle ELSE secrets
         /\ current' = IF a = "controlplane.yaml" THEN None ELSE current
         /\ endpoint' = IF a = "cluster-endpoint" THEN NoEndpoint ELSE endpoint
         /\ run' = [run EXCEPT !.removed = a]
  BY DEF RemoveArtifact
<1>2. /\ run # None /\ run.step = "write" /\ IsRun(run)
      /\ UNCHANGED <<manifest, on, version, held, layout, source, torn, minted>>
  BY DEF RemoveArtifact, node, Inv, RunInv
<1>3. /\ IsRun(run') /\ run' # None /\ run'.verb = run.verb /\ run'.step = run.step
      /\ run'.manifest = run.manifest /\ run'.version = run.version /\ run'.config = run.config
      /\ run'.todo = run.todo /\ run'.removed = a
  <2>1. run' = [verb |-> run.verb, step |-> run.step, manifest |-> run.manifest,
                version |-> run.version, config |-> run.config, todo |-> run.todo, removed |-> a]
    BY <1>1, <1>2, RunUpdate
  <2>2. LET r == [verb |-> run.verb, step |-> run.step, manifest |-> run.manifest,
                  version |-> run.version, config |-> run.config, todo |-> run.todo, removed |-> a]
        IN  IsRun(r) /\ r.verb = run.verb /\ r.step = run.step /\ r.manifest = run.manifest
            /\ r.version = run.version /\ r.config = run.config /\ r.todo = run.todo /\ r.removed = a
    BY RunFields
  <2> QED
    BY <2>1, <2>2, RunIsSome
<1>4. TypeOK'
  BY <1>1, <1>2, <1>3 DEF Inv, TypeOK
<1>5. RunInv'
  BY <1>2, <1>3 DEF Inv, RunInv
<1>6. CASE run.verb \in Installs
  <2>1. held = None /\ run.verb # "reconfigure"
    BY <1>2, <1>6 DEF Inv, InstallInv, Installs
  <2>2. TrustKept' /\ ReconfigureInv'
    BY <1>2, <1>3, <2>1 DEF TrustKept, ReconfigureInv
  <2>3. InstallInv'
    BY <1>1, <1>2, <1>3, <1>6 DEF Inv, InstallInv
  <2> QED
    BY <1>4, <1>5, <2>2, <2>3 DEF Inv
<1>7. CASE run.verb = "reconfigure"
  <2>1. a = "controlplane.yaml"
    BY <1>1, <1>2, <1>7 DEF Inv, ReconfigureInv
  <2>2. UNCHANGED <<talosconfig, secrets, endpoint>>
    BY <1>1, <2>1
  <2>3. TrustKept'
    BY <1>2, <2>2 DEF Inv, TrustKept
  <2>4. ReconfigureInv'
    BY <1>2, <1>3, <1>7, <2>1, <2>2 DEF Inv, ReconfigureInv
  <2> QED
    BY <1>3, <1>4, <1>5, <1>7, <2>3, <2>4 DEF Inv, InstallInv, Installs
<1> QED
  BY <1>2, <1>6, <1>7 DEF Inv, RunInv, Installs

LEMMA WriteKeeps ==
  ASSUME Inv, WriteArtifact
  PROVE  Inv'
<1> DEFINE a == run.removed
           c == run.config
           left == run.todo \ {a}
           t == IF left = {} THEN "apply" ELSE "write"
<1>1. /\ run # None /\ run.step = "write" /\ IsRun(run) /\ a # ""
      /\ UNCHANGED <<manifest, on, version, held, layout, source, torn, minted>>
      /\ talosconfig' = IF a = "talosconfig" THEN c.bundle ELSE talosconfig
      /\ secrets' = IF a = "secrets.yaml" THEN c.bundle ELSE secrets
      /\ current' = IF a = "controlplane.yaml" THEN c ELSE current
      /\ endpoint' = IF a = "cluster-endpoint" THEN c.endpoint ELSE endpoint
  BY DEF WriteArtifact, SetArtifact, node, Inv, RunInv
<1>2. CASE run.verb \in Installs
  <2> DEFINE in == UpInput(run.manifest, run.version)
  <2>1. /\ held = None /\ run.verb # "reconfigure" /\ run.manifest \in Manifests
        /\ Generates(in)
        /\ c = GenerateConfig(in, UpBundle(run.manifest), c.bundle)
        /\ c.bundle \in OwnerBundle .. minted
        /\ run.todo \subseteq {"talosconfig", "secrets.yaml", "controlplane.yaml"}
              \cup (IF in.cluster # None THEN {"cluster-endpoint"} ELSE {})
        /\ a \in run.todo
        /\ "talosconfig" \notin run.todo => talosconfig = c.bundle
        /\ "secrets.yaml" \notin run.todo => secrets = c.bundle
        /\ "controlplane.yaml" \notin run.todo => current = c
        /\ (in.cluster # None /\ "cluster-endpoint" \notin run.todo) => endpoint = c.endpoint
    BY <1>1, <1>2 DEF Inv, InstallInv, RunInv, Installs
  <2>2. /\ IsRun(run') /\ run' # None /\ run'.verb = run.verb /\ run'.step = t
        /\ run'.manifest = run.manifest /\ run'.version = run.version /\ run'.config = c
        /\ run'.todo = left /\ run'.removed = ""
    <3>1. run' = [run EXCEPT !.todo = left, !.removed = "", !.step = t]
      BY <1>1, <2>1 DEF WriteArtifact
    <3> HIDE DEF left, t
    <3>2. run' = [verb |-> run.verb, step |-> t, manifest |-> run.manifest,
                  version |-> run.version, config |-> run.config, todo |-> left, removed |-> ""]
      BY ZenonT(80), <1>1, <3>1, RunUpdates
    <3>3. LET r == [verb |-> run.verb, step |-> t, manifest |-> run.manifest,
                    version |-> run.version, config |-> run.config, todo |-> left, removed |-> ""]
          IN  IsRun(r) /\ r.verb = run.verb /\ r.step = t /\ r.manifest = run.manifest
              /\ r.version = run.version /\ r.config = run.config /\ r.todo = left /\ r.removed = ""
      BY RunFields
    <3> QED
      BY <3>2, <3>3, RunIsSome
  <2>3. endpoint' \in Addresses \cup {NoEndpoint, HostForward}
    <3>1. CASE a = "cluster-endpoint"
      <4>1. in.cluster # None /\ c.endpoint = in.endpoint
        <5>1. in.cluster # None
          BY <2>1, <3>1
        <5>2. c.endpoint = in.endpoint
          BY <2>1, ConfigFields
        <5> QED
          BY <5>1, <5>2
      <4> QED
        BY <1>1, <2>1, <3>1, <4>1, ClusterEndpoint
    <3>2. CASE a # "cluster-endpoint"
      BY <1>1, <3>2 DEF Inv, TypeOK
    <3> QED
      BY <3>1, <3>2
  <2>4. TypeOK'
    BY <1>1, <2>1, <2>2, <2>3 DEF Inv, TypeOK
  <2>5. TrustKept' /\ ReconfigureInv'
    BY <1>1, <2>1, <2>2 DEF TrustKept, ReconfigureInv
  <2>6. RunInv'
    BY <1>1, <1>2, <2>2 DEF Inv, RunInv, Installs
  <2>7. InstallInv'
    <3>1. UpInput(run'.manifest, run'.version) = in /\ UpBundle(run'.manifest) = UpBundle(run.manifest)
      BY <2>2
    <3> HIDE DEF in
    <3>2. /\ left \subseteq {"talosconfig", "secrets.yaml", "controlplane.yaml"}
                \cup (IF in.cluster # None THEN {"cluster-endpoint"} ELSE {})
          /\ t = "apply" => left = {}
      BY <2>1
    <3>3. /\ "talosconfig" \notin left => talosconfig' = c.bundle
          /\ "secrets.yaml" \notin left => secrets' = c.bundle
          /\ "controlplane.yaml" \notin left => current' = c
          /\ (in.cluster # None /\ "cluster-endpoint" \notin left) => endpoint' = c.endpoint
      BY <1>1, <2>1
    <3> HIDE DEF c, left, t
    <3> QED
      BY <1>1, <2>1, <2>2, <3>1, <3>2, <3>3 DEF InstallInv
  <2> QED
    BY <2>4, <2>5, <2>6, <2>7 DEF Inv
<1>3. CASE run.verb = "reconfigure"
  <2>1. a = "controlplane.yaml" /\ left = {} /\ held = c /\ held # None
    BY <1>1, <1>3 DEF Inv, ReconfigureInv
  <2>2. /\ UNCHANGED <<talosconfig, secrets, endpoint>> /\ current' = held
        /\ run' = None
    BY <1>1, <1>3, <2>1 DEF WriteArtifact, End
  <2>3. TypeOK' /\ TrustKept'
    BY <1>1, <2>2 DEF Inv, TypeOK, TrustKept
  <2> QED
    BY <2>2, <2>3 DEF Inv, RunInv, InstallInv, ReconfigureInv
<1> QED
  BY <1>1, <1>2, <1>3 DEF Inv, RunInv, Installs

-----------------------------------------------------------------------------
(* A node takes a config. *)

\* What it runs after an install is a version the file or its image names.
LEMMA InstalledVersions ==
  ASSUME Inv, run # None, run.verb \in Installs, run.step = "apply"
  PROVE  InstalledVersion(run.config) \in Versions
<1> DEFINE in == UpInput(run.manifest, run.version)
           c == run.config
<1>1. c = GenerateConfig(in, UpBundle(run.manifest), c.bundle) /\ run.version \in Versions
      /\ version \in Versions
  BY DEF Inv, InstallInv, RunInv, TypeOK
<1>2. c.install = IF Unattended(in) THEN None
                  ELSE [disk |-> InstallDisk(in.disk), image |-> InstallImage(in)]
  BY SMT, <1>1, ConfigFields
<1>3. CASE c.install = None
  BY <1>1, <1>3 DEF InstalledVersion
<1>4. CASE c.install # None
  <2>1. c.install.image = InstallImage(in) /\ in.version = run.version
    <3>1. c.install = [disk |-> InstallDisk(in.disk), image |-> InstallImage(in)]
      BY <1>2, <1>4
    <3>2. in.version = run.version
      BY DEF UpInput, Input
    <3> QED
      BY <3>1, <3>2
  <2>2. InstallImage(in).tag \in {0, in.version}
    BY DEF InstallImage
  <2> QED
    BY <1>1, <2>1, <2>2 DEF InstalledVersion
<1> QED
  BY <1>3, <1>4

LEMMA InstallKeeps ==
  ASSUME Inv, Install
  PROVE  Inv'
<1>1. /\ run # None /\ run.verb \in Installs /\ run.step = "apply"
      /\ held' = run.config /\ layout' = LayoutOf(run.config)
      /\ version' = InstalledVersion(run.config) /\ source' = RunSource /\ run' = None
      /\ UNCHANGED <<manifest, on, torn, talosconfig, secrets, current, endpoint, minted>>
  BY DEF Install, At, End, artifacts
<1>2. /\ run.config.bundle \in OwnerBundle .. minted
      /\ talosconfig = run.config.bundle /\ secrets = run.config.bundle
      /\ run.config = GenerateConfig(UpInput(run.manifest, run.version), UpBundle(run.manifest),
                                     run.config.bundle)
  BY <1>1 DEF Inv, InstallInv
<1>3. held' # None /\ layout' # None /\ source' # None /\ version' \in Versions
  <2>1. run.config # None
    BY <1>2, ConfigIsSome
  <2> QED
    BY <1>1, <2>1, LayoutIsSome, SourceIsSome, InstalledVersions
<1>4. TypeOK' /\ TrustKept'
  BY <1>1, <1>2, <1>3 DEF Inv, TypeOK, TrustKept
<1> QED
  BY <1>1, <1>4 DEF Inv, RunInv, InstallInv, ReconfigureInv

LEMMA ReconfigureBeginKeeps ==
  ASSUME Inv, ReconfigureBegin
  PROVE  Inv'
<1> DEFINE in == ReconfigureInput(manifest, version, endpoint)
           c == GenerateConfig(in, secrets, NoBundle)
<1>1. /\ held # None /\ current # None /\ Generates(in)
      /\ talosconfig # NoBundle /\ secrets # NoBundle /\ (manifest.cluster # None => endpoint # NoEndpoint)
      /\ run' = [verb |-> "reconfigure", step |-> "compare", manifest |-> manifest,
                 version |-> version, config |-> c, todo |-> {"controlplane.yaml"}, removed |-> ""]
      /\ UNCHANGED <<manifest, on, version, held, layout, source, torn, talosconfig, secrets, current,
                     endpoint, minted>>
  BY DEF ReconfigureBegin, node, artifacts
<1>2. CheckVersion(version) = "ok"
  <2>1. in.version = version
    BY DEF ReconfigureInput, Input
  <2> QED
    BY <1>1, <2>1 DEF Generates
<1> HIDE DEF in, c
<1>3. /\ IsRun(run') /\ run' # None /\ run'.verb = "reconfigure" /\ run'.step = "compare"
      /\ run'.manifest = manifest /\ run'.version = version /\ run'.config = c
      /\ run'.todo = {"controlplane.yaml"} /\ run'.removed = ""
  BY ZenonT(80), <1>1, RunFields, RunIsSome
<1>4. TypeOK' /\ TrustKept'
  BY <1>1, <1>3 DEF Inv, TypeOK, TrustKept
<1>5. RunInv'
  BY <1>1, <1>2, <1>3 DEF Inv, TypeOK, RunInv
<1>6. ReconfigureInv'
  BY <1>1, <1>3 DEF ReconfigureInv, in, c
<1> QED
  BY <1>3, <1>4, <1>5, <1>6 DEF Inv, InstallInv, Installs

LEMMA ApplyToRunningKeeps ==
  ASSUME Inv, ApplyToRunningNode
  PROVE  Inv'
<1> DEFINE in == ReconfigureInput(run.manifest, run.version, endpoint)
<1>1. /\ run # None /\ run.verb = "reconfigure" /\ run.step = "compare"
      /\ held' = run.config /\ source' = RunSource
      /\ run' \in {[run EXCEPT !.step = "write"], None}
      /\ UNCHANGED <<manifest, on, version, layout, torn, talosconfig, secrets, current, endpoint, minted>>
  BY DEF ApplyToRunningNode, At, artifacts
<1>2. /\ held # None /\ Generates(in) /\ run.config = GenerateConfig(in, secrets, NoBundle)
      /\ held.bundle = secrets /\ held.bundle = talosconfig /\ held.bundle \in OwnerBundle .. minted
  BY <1>1 DEF Inv, ReconfigureInv, TrustKept, TypeOK
<1>3. run.config.bundle = secrets /\ run.config # None
  BY <1>2, ConfigBundle, ConfigIsSome
<1>4. held' # None /\ source' # None /\ layout' # None
  BY <1>1, <1>2, <1>3, SourceIsSome DEF Inv, TypeOK
<1>5. run' # None => run'.step = "write"
  BY <1>1, StepFields DEF Inv
<1>6. TypeOK' /\ TrustKept'
  BY <1>1, <1>2, <1>3, <1>4, <1>5 DEF Inv, TypeOK, TrustKept
<1>7. CASE run' = None
  BY <1>6, <1>7 DEF Inv, RunInv, InstallInv, ReconfigureInv
<1>8. CASE run' = [run EXCEPT !.step = "write"]
  <2>1. /\ IsRun(run') /\ run' # None
        /\ run'.verb = "reconfigure" /\ run'.step = "write" /\ run'.manifest = run.manifest
        /\ run'.version = run.version /\ run'.config = run.config
        /\ run'.todo = run.todo /\ run'.removed = run.removed
    BY <1>1, <1>8, StepFields DEF Inv
  <2>2. RunInv'
    BY <1>1, <2>1 DEF Inv, RunInv
  <2>3. ReconfigureInv'
    BY <1>1, <1>4, <2>1 DEF Inv, ReconfigureInv
  <2> QED
    BY <1>6, <2>1, <2>2, <2>3 DEF Inv, InstallInv, Installs
<1> QED
  BY <1>1, <1>7, <1>8

LEMMA NextInv == Inv /\ [Next]_vars => Inv'
<1> SUFFICES ASSUME Inv, [Next]_vars PROVE Inv'
  OBVIOUS
<1>1. CASE ConfigureEnds \/ RunEnds \/ ReconfigureRefused \/ NothingToApply
  BY <1>1, EndsKeep DEF ConfigureEnds, RunEnds, ReconfigureRefused, NothingToApply
<1> QED
  BY <1>1, EditKeeps, StutterKeeps, ApplyKeeps, UpBeginKeeps, BootKeeps, AdoptBeginKeeps,
     ConfigureKeeps, RemoveKeeps, WriteKeeps, InstallKeeps, ReconfigureBeginKeeps,
     ApplyToRunningKeeps, UpgradeKeeps, SwitchKeeps, DestroyKeeps, DestroyStopsKeeps DEF Next

\* Through up, adopt, reconfigure, edits, upgrades, runs that end after any of
\* their steps and destroys that remove any part of it, every variable keeps its
\* shape, the credentials on disk are the node's, an install has written what it
\* does not have to write any more, and a reconfigure works with what the
\* directory holds.
THEOREM ConfigInvariant == Spec => []Inv
<1>1. Init => Inv
  BY InitInv
<1>2. Inv /\ [Next]_vars => Inv'
  BY NextInv
<1> QED
  BY <1>1, <1>2, PTL DEF Spec

\* The credentials on disk are those of the node from the moment it takes a
\* config (Up writes the artifacts before it applies the config) and through
\* every reconfigure (which generates over the bundle of secrets.yaml); a destroy
\* cut short may remove them, and nothing replaces them by others.
THEOREM CredentialsStay == Spec => []TrustKept
<1>1. Inv => TrustKept
  BY DEF Inv
<1> QED
  BY <1>1, ConfigInvariant, PTL

\* Every variable of the config's model keeps its shape.
THEOREM ConfigTypes == Spec => []TypeOK
<1>1. Inv => TypeOK
  BY DEF Inv
<1> QED
  BY <1>1, ConfigInvariant, PTL

\* What is written beside a live node as its config is the config it has just
\* taken: Reconfigure applies first, and writes controlplane.yaml afterwards.
THEOREM RecordsFollowNodes == Spec => RecordFollowsNode
<1>1. ASSUME Inv, [Next]_vars
      PROVE  (held # None /\ current' \notin {current, None}) => current' = held'
  <2>1. SUFFICES ASSUME held # None, current' # current, current' # None
                 PROVE  current' = held'
    OBVIOUS
  <2>2. WriteArtifact
    BY <1>1, <2>1 DEF Next, Edit, Apply, UpBegin, Boot, AdoptBegin, Configure, ConfigureEnds,
       RemoveArtifact, Install, RunEnds, ReconfigureBegin, ReconfigureRefused, NothingToApply,
       ApplyToRunningNode, Upgrade, Stop, MetalOn, Destroy, DestroyStops,
     DiskGoes, DiskStays, artifacts, vars
  <2>3. /\ run # None /\ run.step = "write" /\ current' = run.config /\ held' = held
    BY <2>1, <2>2 DEF WriteArtifact, SetArtifact, node
  <2>4. run.verb = "reconfigure"
    BY <1>1, <2>1, <2>3 DEF Inv, RunInv, InstallInv, Installs
  <2> QED
    BY <1>1, <2>3, <2>4 DEF Inv, ReconfigureInv
<1> QED
  BY <1>1, ConfigInvariant, PTL DEF Spec, RecordFollowsNode

-----------------------------------------------------------------------------
(* Regeneration. *)

\* The two translations agree on a plain file, given the endpoint that up wrote.
LEMMA SameInput ==
  ASSUME NEW m, Plain(m), NEW v, NEW e,
         m.cluster # None => e = ControlPlaneEndpoint(m),
         ~m.metal /\ m.joins => m.cluster # None
  PROVE  ReconfigureInput(m, v, e) = UpInput(m, v)
<1>1. (IF m.cluster # None THEN e ELSE IF m.metal /\ m.joins THEN OwnerEndpoint ELSE KubeEndpoint(m))
        = ControlPlaneEndpoint(m)
  BY DEF ControlPlaneEndpoint
<1>2. (IF m.metal THEN SystemDisk(m) ELSE BySerial(SystemSerial)) = SystemDisk(m)
  BY DEF Plain, SystemDisk
<1>3. m.kube = NoKube /\ (IF m.metal THEN "" ELSE m.installer) = ""
  BY DEF Plain
<1> QED
  BY <1>1, <1>2, <1>3 DEF ReconfigureInput, UpInput

\* Only the bundle that is used counts.
LEMMA OverBundle ==
  ASSUME NEW in, NEW g, NEW f, NEW g1, NEW f1,
         (IF g # NoBundle THEN g ELSE f) = (IF g1 # NoBundle THEN g1 ELSE f1)
  PROVE  GenerateConfig(in, g, f) = GenerateConfig(in, g1, f1)
BY DEF GenerateConfig

LEMMA SourceFields ==
  /\ RunSource.manifest = run.manifest /\ RunSource.version = run.version
BY DEF RunSource

\* While a node holds a config, only a reconfigure gives it another one, and
\* the bundle and the endpoint on disk are at most removed.
LEMMA HeldStays ==
  ASSUME Inv, held # None, [Next]_vars
  PROVE  \/ held' = None
         \/ /\ UNCHANGED <<held, source>>
            /\ secrets' \in {secrets, NoBundle} /\ endpoint' \in {endpoint, NoEndpoint}
         \/ UNCHANGED <<secrets, endpoint>> /\ ApplyToRunningNode
<1>1. CASE RemoveArtifact \/ WriteArtifact
  <2>1. run # None /\ run.step = "write" /\ UNCHANGED <<held, source>>
    BY <1>1 DEF RemoveArtifact, WriteArtifact, node
  <2>2. run.verb = "reconfigure"
    BY <2>1 DEF Inv, RunInv, InstallInv, Installs
  <2>3. run.todo = {"controlplane.yaml"} /\ run.removed \in {"", "controlplane.yaml"}
    BY <2>1, <2>2 DEF Inv, ReconfigureInv
  <2>4. UNCHANGED <<secrets, endpoint>>
    <3>1. CASE RemoveArtifact
      BY <2>3, <3>1 DEF RemoveArtifact
    <3>2. CASE WriteArtifact
      BY <2>3, <3>2 DEF WriteArtifact, SetArtifact
    <3> QED
      BY <1>1, <3>1, <3>2
  <2> QED
    BY <2>1, <2>4
<1>2. CASE Apply \/ Boot
  BY <1>2 DEF Apply, Boot, PowerOn, node, artifacts
<1>3. CASE Install
  BY <1>3 DEF Install, Maintenance
<1>4. CASE ApplyToRunningNode
  BY <1>4 DEF ApplyToRunningNode, artifacts
<1>5. CASE Destroy \/ DestroyStops
  BY <1>5 DEF Destroy, DestroyStops, DiskGoes, DiskStays
<1> QED
  BY <1>1, <1>2, <1>3, <1>4, <1>5 DEF Next, Edit, UpBegin, AdoptBegin, Configure, ConfigureEnds,
     RunEnds, ReconfigureBegin, ReconfigureRefused, NothingToApply, Upgrade, Stop, MetalOn,
     node, artifacts, vars

\* A node that has no config is given one by an install alone.
LEMMA FirstConfig ==
  ASSUME Inv, held = None, held' # None, [Next]_vars
  PROVE  Install
<1>1. ~ApplyToRunningNode
  BY DEF ApplyToRunningNode, At, Inv, ReconfigureInv
<1> QED
  BY <1>1 DEF Next, Edit, Apply, UpBegin, Boot, AdoptBegin, Configure, ConfigureEnds, RemoveArtifact,
     WriteArtifact, RunEnds, ReconfigureBegin, ReconfigureRefused, NothingToApply, Upgrade, Stop,
     MetalOn, Destroy, DestroyStops,
     DiskGoes, DiskStays, PowerOn, node, vars

\* A file nobody edited regenerates, on a node nobody upgraded, the config the
\* node holds: reconfigureInput and configure agree on every field of a file that
\* names none of the three things reconfigure does not read.
THEOREM UneditedStays ==
  ASSUME \A m \in Manifests : Plain(m)
  PROVE  Spec => []UneditedIsUnchanged
<1>1. Init => Regenerates
  BY DEF Init, Regenerates
<1>2. ASSUME Inv, Regenerates, [Next]_vars PROVE Regenerates'
  <2>1. CASE held = None /\ held' # None
    <3> DEFINE m == run.manifest
               in == UpInput(m, run.version)
               c == run.config
    <3>1. /\ run # None /\ run.verb \in Installs /\ run.step = "apply"
          /\ held' = c /\ source' = RunSource /\ UNCHANGED <<secrets, endpoint>>
      BY <1>2, <2>1, FirstConfig DEF Install, At, artifacts
    <3>2. /\ m \in Manifests
          /\ c = GenerateConfig(in, UpBundle(m), c.bundle)
          /\ c.bundle \in OwnerBundle .. minted /\ secrets = c.bundle
          /\ in.cluster # None => endpoint = c.endpoint
          /\ ~m.metal /\ m.joins => m.cluster # None
      BY <1>2, <3>1 DEF Inv, RunInv, InstallInv, Installs
    <3>3. in.cluster = m.cluster /\ in.endpoint = ControlPlaneEndpoint(m)
      BY DEF UpInput, Input
    <3>4. ReconfigureInput(m, run.version, endpoint) = in
      <4>1. m.cluster # None => endpoint = ControlPlaneEndpoint(m)
        BY <3>2, <3>3, ConfigFields
      <4> QED
        BY <3>2, <4>1, SameInput
    <3>5. c = GenerateConfig(in, secrets, NoBundle)
      <4>1. secrets # NoBundle
        <5>1. minted \in Bundles /\ MaxBundles \in Nat
          BY <1>2, MachineConfigAssumption DEF Inv, TypeOK
        <5> QED
          BY SMT, <3>2, <5>1 DEF OwnerBundle, NoBundle, Bundles
      <4>2. c.bundle = IF UpBundle(m) # NoBundle THEN UpBundle(m) ELSE c.bundle
        BY <3>2, ConfigBundle
      <4>3. (IF UpBundle(m) # NoBundle THEN UpBundle(m) ELSE c.bundle)
              = (IF secrets # NoBundle THEN secrets ELSE NoBundle)
        BY <3>2, <4>1, <4>2
      <4> HIDE DEF c, in, m
      <4> QED
        BY <3>2, <4>3, OverBundle
    <3> QED
      BY <3>1, <3>4, <3>5, SourceFields DEF Regenerates
  <2>2. CASE held # None
    <3>1. CASE held' = None
      BY <3>1 DEF Regenerates
    <3>2. CASE /\ UNCHANGED <<held, source>>
               /\ secrets' \in {secrets, NoBundle} /\ endpoint' \in {endpoint, NoEndpoint}
      <4>1. SUFFICES ASSUME secrets' # NoBundle, source'.manifest.cluster # None => endpoint' # NoEndpoint
                     PROVE  held' = GenerateConfig(ReconfigureInput(source'.manifest, source'.version, endpoint'),
                                                   secrets', NoBundle)
        BY DEF Regenerates
      <4>2. secrets' = secrets /\ (source.manifest.cluster # None => endpoint # NoEndpoint /\ endpoint' = endpoint)
        BY <3>2, <4>1
      <4>3. held = GenerateConfig(ReconfigureInput(source.manifest, source.version, endpoint), secrets, NoBundle)
        BY <1>2, <2>2, <4>1, <4>2 DEF Regenerates
      <4>4. ReconfigureInput(source.manifest, source.version, endpoint') =
              ReconfigureInput(source.manifest, source.version, endpoint)
        BY <4>2 DEF ReconfigureInput
      <4> QED
        BY <3>2, <4>2, <4>3, <4>4
    <3>3. CASE UNCHANGED <<secrets, endpoint>> /\ ApplyToRunningNode
      <4>1. /\ run # None /\ run.verb = "reconfigure" /\ held' = run.config /\ source' = RunSource
        BY <3>3 DEF ApplyToRunningNode, At
      <4>2. run.config = GenerateConfig(ReconfigureInput(run.manifest, run.version, endpoint),
                                        secrets, NoBundle)
        BY <1>2, <4>1 DEF Inv, ReconfigureInv
      <4> QED
        BY <3>3, <4>1, <4>2, SourceFields DEF Regenerates
    <3> QED
      BY <1>2, <2>2, <3>1, <3>2, <3>3, HeldStays
  <2> QED
    BY <2>1, <2>2 DEF Regenerates
<1>3. ASSUME Inv, Regenerates PROVE UneditedIsUnchanged
  <2>1. SUFFICES ASSUME run # None, run.verb = "reconfigure", RunSource = source
                 PROVE  run.config = held
    BY DEF UneditedIsUnchanged, At
  <2>2. /\ held # None
        /\ secrets # NoBundle /\ (run.manifest.cluster # None => endpoint # NoEndpoint)
        /\ run.config = GenerateConfig(ReconfigureInput(run.manifest, run.version, endpoint),
                                       secrets, NoBundle)
    BY <1>3, <2>1 DEF Inv, ReconfigureInv
  <2> QED
    BY <1>3, <2>1, <2>2, SourceFields DEF Regenerates
<1> QED
  BY <1>1, <1>2, <1>3, ConfigInvariant, PTL DEF Spec

-----------------------------------------------------------------------------
(* The Kubernetes version. *)

Below == {ss \in Nat \X Nat : ss[1] < ss[2]}

LEMMA Least ==
  ASSUME NEW S \in SUBSET Nat, S # {}
  PROVE  \E x \in S : \A y \in S : x <= y
<1>1. IsWellFoundedOn(Below, Nat)
  BY NatLessThanWellFounded DEF OpToRel, Below
<1>2. PICK x \in S : \A y \in S : <<y, x>> \notin Below
  BY <1>1, WFMin
<1>3. \A y \in S : y \in Nat /\ x \in Nat /\ ~(y < x)
  BY <1>2 DEF Below
<1> QED
  BY SMT, <1>3

\* kubernetesVersion's loop, a minor at a time.
Candidate(m) == IF m = DefaultKube.minor THEN DefaultKube ELSE Kube(m, 0)
LoopBody(f, talos) ==
  [m \in 0 .. DefaultKube.minor |->
     IF m = 0 THEN NoKube
     ELSE IF SupportedWith(Candidate(m), talos) THEN Candidate(m)
     ELSE f[m - 1]]

\* The loop computes something.
LEMMA LoopEnds ==
  ASSUME NEW talos
  PROVE  LET w == CHOOSE f : f = LoopBody(f, talos)
         IN  w = LoopBody(w, talos) /\ KubernetesVersion(talos) = w[DefaultKube.minor]
<1> DEFINE D == DefaultKube.minor
           Fit(m) == {k \in 1 .. m : SupportedWith(Candidate(k), talos)}
           g == [m \in 0 .. D |-> IF Fit(m) = {} THEN NoKube ELSE Candidate(Max(Fit(m)))]
           w == CHOOSE f : f = LoopBody(f, talos)
<1>1. D \in Nat \ {0}
  BY NodeConfigAssumption
<1>2. \A m \in 0 .. D : g[m] = LoopBody(g, talos)[m]
  <2>1. SUFFICES ASSUME NEW m \in 0 .. D PROVE g[m] = LoopBody(g, talos)[m]
    OBVIOUS
  <2>2. CASE m = 0
    <3>1. Fit(m) = {}
      BY SMT, <2>2
    <3>2. g[m] = NoKube
      BY <3>1
    <3>3. LoopBody(g, talos)[m] = NoKube
      BY <2>2 DEF LoopBody
    <3> QED
      BY <3>2, <3>3
  <2>3. CASE m # 0 /\ SupportedWith(Candidate(m), talos)
    <3>1. m \in Fit(m) /\ \A k \in Fit(m) : k \in Nat /\ m \in Nat /\ m >= k
      BY SMT, <1>1, <2>1, <2>3
    <3>2. Max(Fit(m)) = m
      <4> HIDE DEF Fit
      <4>1. Max(Fit(m)) \in Fit(m) /\ \A k \in Fit(m) : Max(Fit(m)) >= k
        BY <3>1 DEF Max
      <4> QED
        BY SMT, <3>1, <4>1
    <3>3. g[m] = Candidate(m)
      BY <3>1, <3>2
    <3>4. LoopBody(g, talos)[m] = Candidate(m)
      BY <2>3 DEF LoopBody
    <3> QED
      BY <3>3, <3>4
  <2>4. CASE m # 0 /\ ~SupportedWith(Candidate(m), talos)
    <3>1. m - 1 \in 0 .. D /\ 1 .. m = (1 .. m - 1) \cup {m}
      BY SMT, <1>1, <2>1, <2>4
    <3>2. Fit(m) = Fit(m - 1)
      BY <2>4, <3>1
    <3>3. g[m] = g[m - 1]
      BY <3>1, <3>2
    <3>4. LoopBody(g, talos)[m] = g[m - 1]
      BY <2>4 DEF LoopBody
    <3> QED
      BY <3>3, <3>4
  <2> QED
    BY <2>2, <2>3, <2>4
<1>3. g = LoopBody(g, talos)
  <2>1. DOMAIN LoopBody(g, talos) = 0 .. D /\ LoopBody(g, talos) = [m \in 0 .. D |-> LoopBody(g, talos)[m]]
    BY DEF LoopBody
  <2> QED
    BY <1>2, <2>1
<1>4. w = LoopBody(w, talos)
  <2> HIDE DEF g
  <2> QED
    BY <1>3
<1>5. KubernetesVersion(talos) = w[D]
  BY DEF KubernetesVersion, LoopBody, Candidate
<1> QED
  BY <1>4, <1>5

\* kubernetesVersion answers with a version that this Talos runs, or with the
\* refusal, and no later minor up to the generator's own is one it runs.
LEMMA WalkedVersion ==
  ASSUME NEW talos
  PROVE  /\ KubernetesVersion(talos) # NoKube => SupportedWith(KubernetesVersion(talos), talos)
         /\ \A n \in KubernetesVersion(talos).minor + 1 .. DefaultKube.minor :
              ~SupportedWith(Kube(n, 0), talos)
<1> DEFINE D == DefaultKube.minor
           w == CHOOSE f : f = LoopBody(f, talos)
           Good(m) == /\ w[m].minor \in 0 .. m
                      /\ w[m] # NoKube => SupportedWith(w[m], talos)
                      /\ \A n \in w[m].minor + 1 .. m : ~SupportedWith(Kube(n, 0), talos)
<1>1. D \in Nat \ {0}
  BY NodeConfigAssumption
<1>2. w = LoopBody(w, talos) /\ KubernetesVersion(talos) = w[D]
  BY LoopEnds
<1> HIDE DEF w
<1>3. \A n : Candidate(n).minor = n /\ (SupportedWith(Candidate(n), talos) <=> SupportedWith(Kube(n, 0), talos))
  BY DEF Candidate, Kube, SupportedWith
<1>4. \A m \in 0 .. D : w[m] = IF m = 0 THEN NoKube
                               ELSE IF SupportedWith(Candidate(m), talos) THEN Candidate(m)
                               ELSE w[m - 1]
  BY <1>2 DEF LoopBody
<1>5. NoKube.minor = 0
  BY DEF NoKube, Kube
<1>6. ASSUME NEW m \in 0 .. D, m # 0 => Good(m - 1)
      PROVE  Good(m)
  <2>1. CASE m = 0
    <3>1. w[m] = NoKube
      BY <1>4, <2>1
    <3> QED
      BY SMT, <1>5, <2>1, <3>1
  <2>2. CASE m # 0 /\ SupportedWith(Candidate(m), talos)
    <3>1. w[m] = Candidate(m) /\ w[m].minor = m
      BY <1>3, <1>4, <2>2
    <3> QED
      BY SMT, <1>1, <2>2, <3>1
  <2>3. CASE m # 0 /\ ~SupportedWith(Candidate(m), talos)
    <3>1. w[m] = w[m - 1] /\ ~SupportedWith(Kube(m, 0), talos) /\ Good(m - 1)
      BY <1>3, <1>4, <1>6, <2>3
    <3>2. w[m].minor \in 0 .. m /\ (w[m] # NoKube => SupportedWith(w[m], talos))
      BY SMT, <1>1, <3>1
    <3>3. \A n \in w[m].minor + 1 .. m : n = m \/ n \in w[m - 1].minor + 1 .. m - 1
      BY SMT, <1>1, <3>1
    <3> QED
      BY <3>1, <3>2, <3>3
  <2> QED
    BY <2>1, <2>2, <2>3
<1>7. \A m \in 0 .. D : Good(m)
  <2> DEFINE Bad == {m \in 0 .. D : ~Good(m)}
  <2>1. SUFFICES ASSUME Bad # {} PROVE FALSE
    OBVIOUS
  <2>2. Bad \in SUBSET Nat
    BY SMT, <1>1
  <2>3. PICK m \in Bad : \A k \in Bad : m <= k
    <3> HIDE DEF Bad
    <3> QED
      BY <2>1, <2>2, Least
  <2> HIDE DEF Good
  <2>4. m \in 0 .. D /\ ~Good(m)
    BY <2>3
  <2>5. ASSUME m # 0 PROVE Good(m - 1)
    <3>1. m - 1 \in 0 .. D /\ ~(m <= m - 1)
      BY SMT, <1>1, <2>4, <2>5
    <3> QED
      BY <2>3, <3>1
  <2> QED
    BY <1>6, <2>4, <2>5 DEF Good
<1> QED
  <2>1. Good(D)
    BY <1>1, <1>7
  <2> QED
    BY <1>2, <2>1

LEMMA ResolvedVersion ==
  ASSUME NEW talos, NEW pinned, ResolveKubernetesVersion(talos, pinned) # NoKube
  PROVE  /\ SupportedWith(ResolveKubernetesVersion(talos, pinned), talos)
         /\ pinned = NoKube => ResolveKubernetesVersion(talos, pinned) = KubernetesVersion(talos)
BY WalkedVersion DEF ResolveKubernetesVersion

\* An install leaves the node with the version the run generated for.
LEMMA InstallsRunVersion ==
  ASSUME \A m \in Manifests : InstallKnown(m), Inv, Install
  PROVE  version' = run.version
<1> DEFINE m == run.manifest
           in == UpInput(m, run.version)
           c == run.config
<1>1. /\ run # None /\ run.verb \in Installs /\ run.step = "apply"
      /\ version' = InstalledVersion(c)
  BY DEF Install, At
<1>2. /\ m \in Manifests /\ c = GenerateConfig(in, UpBundle(m), c.bundle)
      /\ CheckVersion(run.version) = "ok"
      /\ run.verb = "up" => ~m.metal
      /\ (run.verb = "adopt" /\ m.version = 0) => run.version = version
  BY <1>1 DEF Inv, RunInv, InstallInv
<1>3. c.install = IF Unattended(in) THEN None
                  ELSE [disk |-> InstallDisk(in.disk), image |-> InstallImage(in)]
  BY SMT, <1>2, ConfigFields
<1>4. /\ in.version = run.version /\ in.patches = m.patches
      /\ in.installer = IF m.metal THEN "" ELSE m.installer
  BY DEF UpInput, Input
<1>5. CASE Unattended(in)
  <2>1. m.metal /\ m.version = 0
    BY <1>2, <1>4, <1>5 DEF Unattended, InstallKnown
  <2> QED
    BY <1>1, <1>2, <1>3, <1>5, <2>1 DEF InstalledVersion, Installs
<1>6. CASE ~Unattended(in)
  <2>1. in.installer = ""
    BY <1>2, <1>4 DEF InstallKnown
  <2>2. c.install # None /\ c.install.image.tag = run.version
    <3>1. c.install = [disk |-> InstallDisk(in.disk), image |-> InstallImage(in)]
      BY <1>3, <1>6
    <3>2. InstallImage(in).tag = run.version
      BY <1>4, <2>1 DEF InstallImage
    <3>3. "disk" \in DOMAIN c.install
      <4> HIDE DEF c, in
      <4> QED
        BY SMT, <3>1
    <3>4. "disk" \notin DOMAIN None
      BY SMT DEF None
    <3>5. c.install.image = InstallImage(in)
      BY <3>1
    <3> QED
      BY <3>2, <3>3, <3>4, <3>5
  <2>3. run.version # 0
    BY <1>2 DEF CheckVersion
  <2> QED
    BY <1>1, <2>2, <2>3 DEF InstalledVersion
<1> QED
  BY <1>5, <1>6

\* A node is never given a Kubernetes its Talos does not run, nor, unless one is
\* pinned, an older one than need be: kubernetesVersion walks down from the
\* generator's default and stops at the first minor that fits.
THEOREM KubernetesAlwaysFits ==
  ASSUME \A m \in Manifests : InstallKnown(m), UpgradesFit
  PROVE  Spec => KubernetesFits
<1> DEFINE Fits == (held' # held /\ held' # None) =>
             /\ SupportedWith(held'.kube, version')
             /\ source'.manifest.kube = NoKube =>
                  \A n \in held'.kube.minor + 1 .. DefaultKube.minor :
                     ~SupportedWith(Kube(n, 0), run.version)
<1>1. ASSUME Inv, [Next]_vars PROVE Fits
  <2>1. SUFFICES ASSUME held' # held, held' # None
                 PROVE  /\ SupportedWith(held'.kube, version')
                        /\ source'.manifest.kube = NoKube =>
                             \A n \in held'.kube.minor + 1 .. DefaultKube.minor :
                                ~SupportedWith(Kube(n, 0), run.version)
    OBVIOUS
  <2>2. CASE Install
    <3> DEFINE in == UpInput(run.manifest, run.version)
    <3>1. /\ run # None /\ run.verb \in Installs /\ run.step = "apply"
          /\ held' = run.config /\ source' = RunSource
      BY <2>2 DEF Install, At
    <3>2. /\ run.config = GenerateConfig(in, UpBundle(run.manifest), run.config.bundle)
          /\ Generates(in)
      BY <1>1, <3>1 DEF Inv, InstallInv
    <3>3. held'.kube = ResolveKubernetesVersion(in.version, in.kube)
      BY <3>1, <3>2, ConfigFields
    <3>4. in.version = run.version /\ in.kube = run.manifest.kube
      BY DEF UpInput, Input
    <3>5. ResolveKubernetesVersion(in.version, in.kube) # NoKube
      BY <3>2 DEF Generates
    <3> HIDE DEF in
    <3>6. /\ SupportedWith(held'.kube, run.version)
          /\ run.manifest.kube = NoKube => held'.kube = KubernetesVersion(run.version)
      BY <3>3, <3>4, <3>5, ResolvedVersion
    <3> QED
      BY <1>1, <2>2, <3>1, <3>6, InstallsRunVersion, WalkedVersion, SourceFields
  <2>3. CASE ApplyToRunningNode
    <3> DEFINE in == ReconfigureInput(run.manifest, run.version, endpoint)
    <3>1. /\ run # None /\ run.verb = "reconfigure"
          /\ held' = run.config /\ version' = version
      BY <2>3 DEF ApplyToRunningNode, At
    <3>2. /\ run.config = GenerateConfig(in, secrets, NoBundle) /\ Generates(in)
          /\ version = run.version \/ (version \in Upgrades /\ version > run.version)
          /\ run.version \in Versions
      BY <1>1, <3>1 DEF Inv, ReconfigureInv, RunInv
    <3>3. held'.kube = ResolveKubernetesVersion(in.version, in.kube)
      BY <3>1, <3>2, ConfigFields
    <3>4. in.version = run.version /\ in.kube = NoKube
      BY DEF ReconfigureInput, Input
    <3>5. /\ ResolveKubernetesVersion(in.version, in.kube) # NoKube
          /\ CheckVersion(in.version) = "ok"
      BY <3>2 DEF Generates
    <3> HIDE DEF in
    <3>6. /\ SupportedWith(held'.kube, run.version) /\ held'.kube = KubernetesVersion(run.version)
          /\ held'.kube # NoKube
      BY <3>3, <3>4, <3>5, ResolvedVersion
    <3>7. SupportedWith(held'.kube, version')
      BY <3>1, <3>2, <3>4, <3>5, <3>6 DEF UpgradesFit
    <3> QED
      BY <3>6, <3>7, WalkedVersion
  <2> QED
    BY <1>1, <2>1, <2>2, <2>3, FirstConfig, HeldStays
<1> QED
  BY <1>1, ConfigInvariant, PTL DEF Spec, KubernetesFits

-----------------------------------------------------------------------------
(* Volumes and the install target. *)

\* Every place up to the number of picked elements is taken.
LEMMA PlacesTaken ==
  ASSUME NEW I \in SUBSET Nat, IsFiniteSet(I), NEW j \in 1 .. Cardinality(I)
  PROVE  \E i \in I : Place(I, i) = j
<1> DEFINE n == Cardinality(I)
           upto(i) == {k \in I : k <= i}
           f == [i \in I |-> Place(I, i)]
<1>1. n \in Nat
  BY FS_CardinalityType
<1>2. ASSUME NEW i \in I
      PROVE  IsFiniteSet(upto(i)) /\ Place(I, i) \in 1 .. n
  <2>1. upto(i) \in SUBSET I /\ i \in upto(i)
    <3>1. i <= i
      BY SMT
    <3> QED
      BY <3>1
  <2>2. IsFiniteSet(upto(i)) /\ Cardinality(upto(i)) <= n
    BY <2>1, FS_Subset
  <2>3. Cardinality(upto(i)) \in Nat /\ Cardinality(upto(i)) # 0
    <3>1. upto(i) # {}
      BY <2>1
    <3> HIDE DEF upto
    <3> QED
      BY <2>2, <3>1, FS_CardinalityType, FS_EmptySet
  <2>4. Place(I, i) = Cardinality(upto(i))
    BY DEF Place
  <2> HIDE DEF upto
  <2> QED
    BY SMT, <1>1, <2>2, <2>3, <2>4
<1>3. ASSUME NEW x \in I, NEW y \in I, x < y
      PROVE  Place(I, x) # Place(I, y)
  <2>1. upto(x) \in SUBSET upto(y) /\ y \in upto(y) /\ y \notin upto(x)
    <3>1. \A k \in Nat : k <= x => k <= y
      BY SMT, <1>3
    <3>2. y <= y /\ ~(y <= x)
      BY SMT, <1>3
    <3> QED
      BY <3>1, <3>2
  <2>2. IsFiniteSet(upto(y))
    BY <1>2
  <2>3. Cardinality(upto(x)) # Cardinality(upto(y))
    <3>1. upto(x) # upto(y)
      BY <2>1
    <3> HIDE DEF upto
    <3> QED
      BY <2>1, <2>2, <3>1, FS_Subset
  <2> QED
    BY <2>3 DEF Place
<1> SUFFICES ASSUME \A i \in I : Place(I, i) # j PROVE FALSE
  OBVIOUS
<1>4. f \in [I -> (1 .. n) \ {j}]
  BY <1>2
<1>5. IsFiniteSet((1 .. n) \ {j}) /\ Cardinality((1 .. n) \ {j}) < n
  <2>1. IsFiniteSet(1 .. n) /\ Cardinality(1 .. n) = n
    BY SMT, <1>1, FS_Interval
  <2>2. IsFiniteSet((1 .. n) \ {j}) /\ Cardinality((1 .. n) \ {j}) = n - 1
    BY <2>1, FS_RemoveElement
  <2> HIDE DEF n
  <2> QED
    BY SMT, <1>1, <2>2
<1>6. PICK x, y \in I : x # y /\ f[x] = f[y]
  <2> HIDE DEF f
  <2> QED
    BY <1>4, <1>5, FS_PigeonHole
<1>7. x < y \/ y < x
  BY SMT, <1>6
<1> QED
  BY <1>3, <1>6, <1>7

\* Picked takes elements of s.
LEMMA PickedElements ==
  ASSUME NEW s, NEW I \in SUBSET Nat, IsFiniteSet(I)
  PROVE  Picked(s, I) \in Seq({s[i] : i \in I})
<1> DEFINE n == Cardinality(I)
<1>1. n \in Nat
  BY FS_CardinalityType
<1>2. \A j \in 1 .. n : s[CHOOSE i \in I : Place(I, i) = j] \in {s[i] : i \in I}
  BY PlacesTaken
<1>3. Picked(s, I) \in [1 .. n -> {s[i] : i \in I}]
  BY <1>2 DEF Picked
<1> HIDE DEF n
<1> QED
  BY SMT, <1>1, <1>3

\* The documents of a config: a kind of volume has one name.
Tame(d) ==
  /\ d # None
  /\ d.kind = "VolumeConfig" => d.name = "EPHEMERAL"
  /\ d.kind = "UserVolumeConfig" => d.name = "local-path-provisioner"
TameSeq(s) == s \in Seq(Elements(s)) /\ \A d \in Elements(s) : Tame(d)

LEMMA TameSubset ==
  ASSUME NEW s, NEW S, s \in Seq(S), \A d \in S : Tame(d)
  PROVE  TameSeq(s)
<1>1. Len(s) \in Nat /\ DOMAIN s = 1 .. Len(s) /\ s \in [1 .. Len(s) -> S]
  BY SMT
<1>2. Elements(s) \subseteq S
  BY <1>1 DEF Elements
<1>3. s \in Seq(Elements(s))
  <2>1. s \in [1 .. Len(s) -> Elements(s)]
    BY <1>1 DEF Elements
  <2> HIDE DEF Elements
  <2> QED
    BY SMT, <1>1, <2>1
<1> QED
  BY <1>2, <1>3 DEF TameSeq

LEMMA TameConcat ==
  ASSUME NEW s, TameSeq(s), NEW t, TameSeq(t)
  PROVE  TameSeq(s \o t)
<1> DEFINE S == Elements(s) \cup Elements(t)
<1>1. \A d \in S : Tame(d)
  BY DEF TameSeq
<1>2. s \in Seq(S) /\ t \in Seq(S)
  <2>1. s \in Seq(Elements(s)) /\ t \in Seq(Elements(t))
    BY DEF TameSeq
  <2> QED
    BY SMT, <2>1
<1>3. s \o t \in Seq(S)
  <2> HIDE DEF S
  <2> QED
    BY SMT, <1>2
<1> QED
  BY <1>1, <1>3, TameSubset

LEMMA TameDoc ==
  ASSUME NEW k, NEW n, NEW p,
         k = "VolumeConfig" => n = "EPHEMERAL",
         k = "UserVolumeConfig" => n = "local-path-provisioner"
  PROVE  Tame(Doc(k, n, p))
<1>1. "kind" \in DOMAIN Doc(k, n, p) /\ Doc(k, n, p).kind = k /\ Doc(k, n, p).name = n
  BY SMT DEF Doc
<1>2. "kind" \notin DOMAIN None
  BY SMT DEF None
<1> QED
  BY <1>1, <1>2 DEF Tame

\* A document the generator writes: its parts, and a volume's name.
Own(d) ==
  \E k, n, p : /\ d = Doc(k, n, p)
               /\ k = "VolumeConfig" => n = "EPHEMERAL"
               /\ k = "UserVolumeConfig" => n = "local-path-provisioner"

LEMMA OwnDoc ==
  ASSUME NEW k, NEW n, NEW p,
         k = "VolumeConfig" => n = "EPHEMERAL",
         k = "UserVolumeConfig" => n = "local-path-provisioner"
  PROVE  Own(Doc(k, n, p))
BY DEF Own

LEMMA OwnIsTame ==
  ASSUME NEW d, Own(d)
  PROVE  Tame(d)
BY TameDoc DEF Own

LEMMA OwnSpec ==
  ASSUME NEW d, Own(d), NEW x
  PROVE  Own([d EXCEPT !.spec = x])
<1>1. PICK k, n, p : /\ d = Doc(k, n, p)
                     /\ k = "VolumeConfig" => n = "EPHEMERAL"
                     /\ k = "UserVolumeConfig" => n = "local-path-provisioner"
  BY DEF Own
<1>2. [Doc(k, n, p) EXCEPT !.spec = x] = Doc(k, n, x)
  BY SMT DEF Doc
<1> QED
  BY <1>1, <1>2 DEF Own

\* machinery's documents.
LEMMA MachineryOwn ==
  ASSUME NEW v
  PROVE  MachineryDocs(v) \in Seq(Elements(MachineryDocs(v)))
         /\ \A d \in Elements(MachineryDocs(v)) : Own(d)
<1> DEFINE d1 == Doc("VolumeConfig", "EPHEMERAL", [default |-> TRUE])
           d2 == Doc("KubeNodeConfig", "", [default |-> TRUE])
           d3 == Doc("KubeFlannelCNIConfig", "", [default |-> TRUE])
           d4 == Doc("KubeProxyConfig", "", [default |-> TRUE])
           d5 == Doc("HostnameConfig", "", [auto |-> TRUE])
<1>1. MachineryDocs(v) = <<>> \/ MachineryDocs(v) = <<d1, d2, d3, d4, d5>>
  BY DEF MachineryDocs
<1>2. Own(d1) /\ Own(d2) /\ Own(d3) /\ Own(d4) /\ Own(d5)
  <2>1. Own(d1) /\ Own(d2)
    BY OwnDoc
  <2>2. Own(d3) /\ Own(d4)
    BY OwnDoc
  <2>3. Own(d5)
    BY OwnDoc
  <2> QED
    BY <2>1, <2>2, <2>3
<1> HIDE DEF d1, d2, d3, d4, d5
<1>3. CASE MachineryDocs(v) = <<>>
  <2>1. Elements(MachineryDocs(v)) = {}
    BY SMT, <1>3 DEF Elements
  <2> QED
    BY SMT, <1>3, <2>1
<1>4. CASE MachineryDocs(v) = <<d1, d2, d3, d4, d5>>
  <2>1. DOMAIN <<d1, d2, d3, d4, d5>> = {1, 2, 3, 4, 5}
    BY SMT
  <2>2. Elements(MachineryDocs(v)) = {d1, d2, d3, d4, d5}
    BY SMT, <1>4, <2>1 DEF Elements
  <2>3. <<d1, d2, d3, d4, d5>> \in Seq({d1, d2, d3, d4, d5})
    BY SMT
  <2> QED
    BY <1>2, <1>4, <2>2, <2>3
<1> QED
  BY <1>1, <1>3, <1>4

\* withNodeIdentity keeps what a document is called.
LEMMA IdentityTame ==
  ASSUME NEW docs, docs \in Seq(Elements(docs)), \A d \in Elements(docs) : Own(d), NEW in
  PROVE  TameSeq(WithNodeIdentity(docs, in))
<1> DEFINE edit(d) ==
             IF in.cluster # None /\ d.kind \in SegmentKinds
             THEN [d EXCEPT !.spec = [subnet |-> Masked(in.cluster)]]
             ELSE IF in.hostname # "" /\ d.kind = "HostnameConfig"
             THEN [d EXCEPT !.spec = [hostname |-> in.hostname]]
             ELSE d
           d1 == Doc("LinkAliasConfig", "cluster0", [default |-> TRUE])
           d2 == Doc("LinkAliasConfig", "egress0", [default |-> TRUE])
           d3 == Doc("LinkConfig", "cluster0", [address |-> in.cluster])
           d4 == Doc("DHCPv4Config", "egress0", [default |-> TRUE])
           own == [i \in DOMAIN docs |-> edit(docs[i])]
           links == IF in.cluster # None THEN <<d1, d2, d3, d4>> ELSE <<>>
<1>1. WithNodeIdentity(docs, in) = own \o links
  BY DEF WithNodeIdentity
<1>2. \A d \in Elements(docs) : Own(edit(d))
  BY OwnSpec
<1>3. Own(d1) /\ Own(d2) /\ Own(d3) /\ Own(d4)
  BY DEF Own
<1> HIDE DEF edit, d1, d2, d3, d4
<1>4. TameSeq(own)
  <2>1. Len(docs) \in Nat /\ DOMAIN docs = 1 .. Len(docs)
    BY SMT
  <2>2. own \in [1 .. Len(docs) -> {edit(d) : d \in Elements(docs)}]
    BY <2>1 DEF Elements
  <2>3. own \in Seq({edit(d) : d \in Elements(docs)})
    <3> DEFINE S == {edit(d) : d \in Elements(docs)}
    <3>1. own \in [1 .. Len(docs) -> S]
      BY <2>2
    <3> HIDE DEF own, S
    <3>2. own \in Seq(S)
      BY SMT, <2>1, <3>1
    <3> QED
      BY <3>2 DEF S
  <2>4. \A e \in {edit(d) : d \in Elements(docs)} : Tame(e)
    BY <1>2, OwnIsTame
  <2> HIDE DEF own
  <2> QED
    BY <2>3, <2>4, TameSubset
<1>5. TameSeq(links)
  <2>1. links \in Seq({d1, d2, d3, d4})
    <3>1. <<d1, d2, d3, d4>> \in Seq({d1, d2, d3, d4}) /\ <<>> \in Seq({d1, d2, d3, d4})
      BY SMT
    <3> QED
      BY <3>1
  <2>2. \A d \in {d1, d2, d3, d4} : Tame(d)
    BY <1>3, OwnIsTame
  <2> HIDE DEF links
  <2> QED
    BY <2>1, <2>2, TameSubset
<1> HIDE DEF own, links
<1> QED
  BY <1>1, <1>4, <1>5, TameConcat

LEMMA VolumesTame ==
  ASSUME NEW in
  PROVE  TameSeq(VolumeDocuments(in))
<1> DEFINE d1 == UserVolume(in.data)
           d2 == Doc("VolumeConfig", "EPHEMERAL", [maxSize |-> in.cap])
           d3 == UserVolume("system_disk")
<1>1. \/ VolumeDocuments(in) = <<d1>>
      \/ VolumeDocuments(in) = <<d2, d3>>
      \/ VolumeDocuments(in) = <<>>
  BY DEF VolumeDocuments
<1>2. Own(d1) /\ Own(d2) /\ Own(d3)
  BY DEF Own, UserVolume
<1> HIDE DEF d1, d2, d3
<1>3. VolumeDocuments(in) \in Seq({d1, d2, d3})
  <2>1. <<d1>> \in Seq({d1, d2, d3}) /\ <<d2, d3>> \in Seq({d1, d2, d3}) /\ <<>> \in Seq({d1, d2, d3})
    BY SMT
  <2> QED
    BY <1>1, <2>1
<1>4. \A d \in {d1, d2, d3} : Tame(d)
  BY <1>2, OwnIsTame
<1> QED
  BY <1>3, <1>4, TameSubset

\* Some elements of a sequence, in order.
LEMMA PickedTame ==
  ASSUME NEW s, NEW n \in Nat, NEW I \in SUBSET (1 .. n), \A i \in I : Tame(s[i])
  PROVE  TameSeq(Picked(s, I))
<1>1. IsFiniteSet(1 .. n)
  BY SMT, FS_Interval
<1>2. IsFiniteSet(I) /\ I \in SUBSET Nat
  <2>1. 1 .. n \subseteq Nat
    BY SMT
  <2> QED
    BY <1>1, <2>1, FS_Subset
<1>3. Picked(s, I) \in Seq({s[i] : i \in I})
  BY <1>2, PickedElements
<1>4. \A d \in {s[i] : i \in I} : Tame(d)
  OBVIOUS
<1> QED
  BY <1>3, <1>4, TameSubset

LEMMA DocumentsTame ==
  ASSUME NEW in, in.patches \in Seq(Elements(in.patches)),
         \A p \in Elements(in.patches) : p.doc # None => p.doc.kind \notin VolumeKinds
  PROVE  TameSeq(Documents(in))
<1> DEFINE own == WithNodeIdentity(MachineryDocs(in.version), in)
           volumes == VolumeDocuments(in)
           J == {i \in DOMAIN own : \A e \in Elements(volumes) : Identity(e) # Identity(own[i])}
           given == [i \in DOMAIN in.patches |-> in.patches[i].doc]
           K == {i \in DOMAIN in.patches : in.patches[i].doc # None}
<1>1. TameSeq(own)
  BY MachineryOwn, IdentityTame
<1>2. TameSeq(volumes)
  BY VolumesTame
<1>3. TameSeq(WithoutDocuments(own, volumes))
  <2>1. WithoutDocuments(own, volumes) = Picked(own, J)
    BY DEF WithoutDocuments
  <2> HIDE DEF own
  <2>2. own \in Seq(Elements(own)) /\ \A i \in DOMAIN own : Tame(own[i])
    BY <1>1 DEF TameSeq, Elements
  <2>3. Len(own) \in Nat /\ DOMAIN own = 1 .. Len(own)
    BY SMT, <2>2
  <2>4. J \in SUBSET (1 .. Len(own)) /\ \A i \in J : Tame(own[i])
    BY <2>2, <2>3
  <2> HIDE DEF J
  <2> QED
    BY <2>1, <2>3, <2>4, PickedTame
<1>4. TameSeq(PatchDocs(in.patches))
  <2>1. PatchDocs(in.patches) = Picked(given, K)
    BY DEF PatchDocs
  <2>2. Len(in.patches) \in Nat /\ DOMAIN in.patches = 1 .. Len(in.patches)
    BY SMT
  <2>3. \A i \in K : Tame(given[i])
    <3>1. SUFFICES ASSUME NEW i \in K PROVE Tame(given[i])
      OBVIOUS
    <3>2. in.patches[i] \in Elements(in.patches)
      BY DEF Elements
    <3>3. given[i] = in.patches[i].doc /\ given[i] # None /\ given[i].kind \notin VolumeKinds
      BY <3>1, <3>2
    <3> QED
      BY <3>3 DEF Tame, VolumeKinds
  <2>4. K \in SUBSET (1 .. Len(in.patches))
    BY <2>2
  <2> HIDE DEF given, K
  <2> QED
    BY <2>1, <2>2, <2>3, <2>4, PickedTame
<1>5. Documents(in) = (WithoutDocuments(own, volumes) \o volumes) \o PatchDocs(in.patches)
  BY DEF Documents
<1> HIDE DEF own, volumes
<1> QED
  BY <1>2, <1>3, <1>4, <1>5, TameConcat

\* With one name per kind and one document per identity, the first document of a
\* kind is the only one.
LEMMA VolumesCompared ==
  ASSUME NEW c, TameSeq(c.docs), NoDuplicate(c.docs)
  PROVE  LayoutOf(c).volumes = {DocOfKind(c, k) : k \in VolumeKinds} \ {None}
<1> DEFINE docs == c.docs
           V == {d \in Elements(docs) : d.kind \in VolumeKinds}
           those(k) == {i \in DOMAIN docs : docs[i].kind = k}
<1>1. LayoutOf(c).volumes = V
  BY DEF LayoutOf
<1>2. DOMAIN docs \subseteq Nat /\ \A i \in DOMAIN docs : Tame(docs[i])
  <2>1. docs \in Seq(Elements(docs)) /\ \A i \in DOMAIN docs : Tame(docs[i])
    BY DEF TameSeq, Elements
  <2>2. Len(docs) \in Nat /\ DOMAIN docs = 1 .. Len(docs)
    BY SMT, <2>1
  <2>3. 1 .. Len(docs) \subseteq Nat
    BY SMT
  <2> QED
    BY <2>1, <2>2, <2>3
<1>3. ASSUME NEW k \in VolumeKinds, NEW i \in those(k)
      PROVE  DocOfKind(c, k) = docs[i] /\ docs[i] # None /\ docs[i] \in V
  <2>1. ASSUME NEW j \in those(k) PROVE j = i
    <3>1. docs[i].kind = k /\ docs[j].kind = k /\ Tame(docs[i]) /\ Tame(docs[j])
      BY <1>2
    <3>2. docs[i].name = docs[j].name
      BY <3>1 DEF Tame, VolumeKinds
    <3>3. Identity(docs[i]) = Identity(docs[j])
      BY <3>1, <3>2 DEF Identity
    <3> QED
      BY <3>3 DEF NoDuplicate
  <2>2. those(k) = {i} /\ i \in Nat
    BY <1>2, <2>1
  <2>3. Min({i}) = i
    <3>1. i <= i
      BY SMT, <2>2
    <3> QED
      BY <3>1 DEF Min
  <2>4. DocOfKind(c, k) = docs[i]
    BY <2>2, <2>3 DEF DocOfKind
  <2> QED
    BY <1>2, <2>4 DEF Tame, Elements
<1>4. V \subseteq {DocOfKind(c, k) : k \in VolumeKinds} \ {None}
  <2>1. SUFFICES ASSUME NEW d \in V
                 PROVE  d # None /\ \E k \in VolumeKinds : d = DocOfKind(c, k)
    OBVIOUS
  <2>2. PICK i \in DOMAIN docs : d = docs[i]
    BY DEF Elements
  <2> QED
    BY <1>3, <2>1, <2>2
<1>5. {DocOfKind(c, k) : k \in VolumeKinds} \ {None} \subseteq V
  <2>1. SUFFICES ASSUME NEW k \in VolumeKinds, DocOfKind(c, k) # None
                 PROVE  DocOfKind(c, k) \in V
    OBVIOUS
  <2>2. PICK i \in those(k) : TRUE
    BY <2>1 DEF DocOfKind
  <2> QED
    BY <1>3, <2>2
<1> QED
  BY <1>1, <1>4, <1>5

LEMMA Selectors ==
  ASSUME NEW w, NEW s
  PROVE  /\ "path" \notin DOMAIN [wwid |-> w] /\ "path" \notin DOMAIN [serial |-> s]
         /\ [wwid |-> w] # [serial |-> ""]
         /\ s # "" => [serial |-> s] # [serial |-> ""]
<1>1. DOMAIN [wwid |-> w] = {"wwid"} /\ DOMAIN [serial |-> s] = {"serial"}
  BY SMT
<1>2. "path" # "wwid" /\ "path" # "serial" /\ "wwid" # "serial"
  OBVIOUS
<1>3. "path" \notin DOMAIN [wwid |-> w] /\ "path" \notin DOMAIN [serial |-> s]
  BY <1>1, <1>2
<1>4. [wwid |-> w] # [serial |-> ""]
  <2>1. "serial" \in DOMAIN [serial |-> ""]
    BY SMT
  <2> QED
    BY <1>1, <1>2, <2>1
<1>5. ASSUME s # "" PROVE [serial |-> s] # [serial |-> ""]
  <2>1. [serial |-> s].serial = s /\ [serial |-> ""].serial = ""
    OBVIOUS
  <2> QED
    BY <1>5, <2>1
<1> QED
  BY <1>3, <1>4, <1>5

\* A named disk is in the selector block.
LEMMA DiskCompared ==
  ASSUME NEW c, NEW ref, ref.path = "", ref.serial # "" \/ ref.wwid # "",
         c.install = None \/ (c.install # None /\ c.install.disk = InstallDisk(ref))
  PROVE  LayoutOf(c).disk = Selector(c)
<1>1. LayoutOf(c).disk = IF c.install = None THEN None ELSE c.install.disk
  BY DEF LayoutOf
<1>2. CASE c.install = None
  BY <1>1, <1>2 DEF Selector
<1>3. CASE c.install # None
  <2>1. "path" \notin DOMAIN InstallDisk(ref) /\ InstallDisk(ref) # [serial |-> ""]
    <3>1. CASE ref.wwid # ""
      <4>1. InstallDisk(ref) = [wwid |-> ref.wwid]
        BY <3>1 DEF InstallDisk
      <4> QED
        BY <4>1, Selectors
    <3>2. CASE ref.wwid = ""
      <4>1. InstallDisk(ref) = [serial |-> ref.serial] /\ ref.serial # ""
        BY <3>2 DEF InstallDisk
      <4> QED
        BY <4>1, Selectors
    <3> QED
      BY <3>1, <3>2
  <2> QED
    BY <1>1, <1>3, <2>1 DEF Selector
<1> QED
  BY <1>2, <1>3

LEMMA SerialSet ==
  ASSUME NEW s, NEW w, NEW p, NEW x
  PROVE  LET r == [[serial |-> s, wwid |-> w, path |-> p] EXCEPT !.serial = x]
         IN  r.serial = x /\ r.path = p
OBVIOUS

LEMMA SystemDiskNamed ==
  BySerial(SystemSerial).path = "" /\ BySerial(SystemSerial).serial # ""
<1>1. BySerial(SystemSerial) = [[serial |-> "", wwid |-> "", path |-> ""] EXCEPT !.serial = SystemSerial]
  BY DEF BySerial, NoDisk
<1>2. BySerial(SystemSerial).path = "" /\ BySerial(SystemSerial).serial = SystemSerial
  BY <1>1, SerialSet
<1>3. SystemSerial # ""
  BY DEF SystemSerial
<1> QED
  BY <1>2, <1>3

\* The disk of a named file, as either translation gives it.
LEMMA DiskIsNamed ==
  ASSUME NEW m, NamedDisk(m),
         NEW ref, ref = SystemDisk(m) \/ (~m.metal /\ ref = BySerial(SystemSerial))
  PROVE  ref.path = "" /\ (ref.serial # "" \/ ref.wwid # "")
<1>1. BySerial(SystemSerial).path = "" /\ BySerial(SystemSerial).serial # ""
  BY SystemDiskNamed
<1>2. CASE m.metal
  BY <1>2 DEF NamedDisk, SystemDisk
<1>3. CASE ~m.metal
  BY <1>1, <1>3 DEF NamedDisk, SystemDisk
<1> QED
  BY <1>2, <1>3

LEMMA GeneratedWellLaid ==
  ASSUME NEW m \in Manifests, NamedDisk(m), OwnVolumes(m),
         NEW in, in.patches = m.patches, Generates(in),
         in.disk = SystemDisk(m) \/ (~m.metal /\ in.disk = BySerial(SystemSerial)),
         NEW g, NEW f, NEW c, c = GenerateConfig(in, g, f)
  PROVE  WellLaid(c)
<1>1. c.docs = Documents(in)
  BY ConfigFields
<1>2. TameSeq(Documents(in))
  <2>1. m.patches \in Seq(Elements(m.patches))
    BY MachineConfigAssumption
  <2> QED
    BY <2>1, DocumentsTame DEF OwnVolumes
<1>3. NoDuplicate(Documents(in))
  BY DEF Generates
<1>4. LayoutOf(c).volumes = {DocOfKind(c, k) : k \in VolumeKinds} \ {None}
  BY <1>1, <1>2, <1>3, VolumesCompared
<1>5. in.disk.path = "" /\ (in.disk.serial # "" \/ in.disk.wwid # "")
  BY DiskIsNamed
<1>6. c.install = None \/ (c.install # None /\ c.install.disk = InstallDisk(in.disk))
  <2>1. c.install = IF Unattended(in) THEN None
                    ELSE [disk |-> InstallDisk(in.disk), image |-> InstallImage(in)]
    BY ConfigFields
  <2> QED
    BY <2>1
<1> QED
  BY <1>4, <1>5, <1>6, DiskCompared DEF WellLaid

LEMMA SameLayout ==
  ASSUME NEW c, NEW d, WellLaid(c), WellLaid(d), ~Refuses(c, d)
  PROVE  LayoutOf(c) = LayoutOf(d)
<1>1. Selector(c) = Selector(d) /\ \A k \in VolumeKinds : DocOfKind(c, k) = DocOfKind(d, k)
  BY DEF Refuses
<1>2. LayoutOf(c).disk = LayoutOf(d).disk
  BY <1>1 DEF WellLaid
<1>3. LayoutOf(c).volumes = LayoutOf(d).volumes
  BY <1>1 DEF WellLaid
<1> QED
  BY <1>2, <1>3 DEF LayoutOf

\* A run's config is well laid.
LEMMA RunWellLaid ==
  ASSUME \A m \in Manifests : NamedDisk(m) /\ OwnVolumes(m), Inv, run # None,
         run.verb = "reconfigure" \/ run.step \in {"write", "apply"}
  PROVE  WellLaid(run.config)
<1> DEFINE m == run.manifest
<1>1. m \in Manifests /\ run.verb \in Installs \cup {"reconfigure"}
  BY DEF Inv, RunInv, Installs
<1>2. CASE run.verb \in Installs
  <2> DEFINE in == UpInput(m, run.version)
  <2>1. Generates(in) /\ run.config = GenerateConfig(in, UpBundle(m), run.config.bundle)
    BY <1>2 DEF Inv, InstallInv, Installs
  <2>2. in.patches = m.patches /\ in.disk = SystemDisk(m)
    BY DEF UpInput, Input
  <2> HIDE DEF in, m
  <2> QED
    BY <1>1, <2>1, <2>2, GeneratedWellLaid
<1>3. CASE run.verb = "reconfigure"
  <2> DEFINE in == ReconfigureInput(m, run.version, endpoint)
  <2>1. Generates(in) /\ run.config = GenerateConfig(in, secrets, NoBundle)
    BY <1>3 DEF Inv, ReconfigureInv
  <2>2. in.patches = m.patches
        /\ in.disk = IF m.metal THEN SystemDisk(m) ELSE BySerial(SystemSerial)
    BY DEF ReconfigureInput, Input
  <2>3. in.disk = SystemDisk(m) \/ (~m.metal /\ in.disk = BySerial(SystemSerial))
    BY <2>2
  <2> HIDE DEF in, m
  <2> QED
    BY <1>1, <2>1, <2>2, <2>3, GeneratedWellLaid
<1> QED
  BY <1>1, <1>2, <1>3

\* controlplane.yaml is written by writeArtifacts alone.
LEMMA CurrentStays ==
  ASSUME Inv, [Next]_vars
  PROVE  \/ current' \in {current, None}
         \/ WriteArtifact /\ current' = run.config
<1>1. CASE WriteArtifact
  BY <1>1 DEF WriteArtifact, SetArtifact
<1> QED
  BY <1>1 DEF Next, Edit, Apply, UpBegin, Boot, AdoptBegin, Configure, ConfigureEnds,
     RemoveArtifact, Install, RunEnds, ReconfigureBegin, ReconfigureRefused, NothingToApply,
     ApplyToRunningNode, Upgrade, Stop, MetalOn, Destroy, DestroyStops,
     DiskGoes, DiskStays, artifacts, vars

\* A disk is partitioned at the install alone.
LEMMA LayoutStays ==
  ASSUME Inv, [Next]_vars
  PROVE  UNCHANGED layout \/ Install \/ held' = None
BY DEF Next, Edit, Apply, UpBegin, Boot, AdoptBegin, Configure, ConfigureEnds, RemoveArtifact,
   WriteArtifact, RunEnds, ReconfigureBegin, ReconfigureRefused, NothingToApply,
   ApplyToRunningNode, Upgrade, Stop, MetalOn, Destroy, DestroyStops, DiskGoes, DiskStays,
   PowerOn, node, vars

\* A reconfigure that writes has been writing, or has just applied.
LEMMA WritesOn ==
  ASSUME Inv, [Next]_vars, run' # None, run'.verb = "reconfigure", run'.step = "write"
  PROVE  /\ run # None /\ run.verb = "reconfigure" /\ run'.config = run.config
         /\ UNCHANGED layout
         /\ run.step = "write" \/ ApplyToRunningNode
<1>1. CASE RemoveArtifact
  <2>1. PICK a \in run.todo : run' = [run EXCEPT !.removed = a]
    BY <1>1 DEF RemoveArtifact
  <2>2. run # None /\ IsRun(run) /\ run.step = "write" /\ UNCHANGED layout
    BY <1>1 DEF RemoveArtifact, node, Inv, RunInv
  <2>3. run' = [verb |-> run.verb, step |-> run.step, manifest |-> run.manifest,
                version |-> run.version, config |-> run.config, todo |-> run.todo, removed |-> a]
    BY <2>1, <2>2, RunUpdate
  <2>4. run'.verb = run.verb /\ run'.config = run.config
    BY <2>3
  <2> QED
    BY <2>2, <2>4
<1>2. CASE WriteArtifact
  <2> DEFINE left == run.todo \ {run.removed}
             t == IF left = {} THEN "apply" ELSE "write"
  <2>1. run # None /\ IsRun(run) /\ run.step = "write" /\ UNCHANGED layout
        /\ run' = [run EXCEPT !.todo = left, !.removed = "", !.step = t]
    BY <1>2 DEF WriteArtifact, End, node, Inv, RunInv
  <2> HIDE DEF left, t
  <2>2. run' = [verb |-> run.verb, step |-> t, manifest |-> run.manifest, version |-> run.version,
                config |-> run.config, todo |-> left, removed |-> ""]
    BY ZenonT(80), <2>1, RunUpdates
  <2>3. run'.verb = run.verb /\ run'.config = run.config
    BY <2>2
  <2> QED
    BY <2>1, <2>3
<1>3. CASE ApplyToRunningNode
  <2>1. run # None /\ run.verb = "reconfigure" /\ UNCHANGED layout
        /\ run' = [run EXCEPT !.step = "write"]
    BY <1>3 DEF ApplyToRunningNode, At
  <2> QED
    BY <1>3, <2>1, StepFields DEF Inv
<1>4. CASE Boot
  <2>1. run # None /\ run.verb = "up" /\ run' = [run EXCEPT !.step = "configure"]
    BY <1>4 DEF Boot, At
  <2>2. run'.verb = "up"
    BY <2>1, StepFields DEF Inv
  <2> QED
    BY <2>2
<1>5. CASE Configure
  <2> DEFINE c == GenerateConfig(UpInput(run.manifest, run.version), UpBundle(run.manifest), minted + 1)
             d == {"talosconfig", "secrets.yaml", "controlplane.yaml"} \cup
                  (IF UpInput(run.manifest, run.version).cluster # None THEN {"cluster-endpoint"} ELSE {})
  <2>1. run # None /\ IsRun(run) /\ run.verb \in Installs
        /\ run' = [run EXCEPT !.step = "write", !.config = c, !.todo = d]
    BY <1>5 DEF Configure, At, Inv, RunInv
  <2> HIDE DEF c, d
  <2>2. run' = [verb |-> run.verb, step |-> "write", manifest |-> run.manifest,
                version |-> run.version, config |-> c, todo |-> d, removed |-> run.removed]
    BY ZenonT(80), <2>1, RunUpdates
  <2>3. run'.verb = run.verb
    BY <2>2
  <2> QED
    BY <2>1, <2>3 DEF Installs
<1>6. CASE UpBegin \/ AdoptBegin \/ ReconfigureBegin
  <2>1. PICK b, t, m, v, c, d : /\ t # "write"
                                /\ run' = [verb |-> b, step |-> t, manifest |-> m, version |-> v,
                                           config |-> c, todo |-> d, removed |-> ""]
    <3>1. CASE UpBegin
      BY <3>1 DEF UpBegin
    <3>2. CASE AdoptBegin
      BY <3>2 DEF AdoptBegin
    <3>3. CASE ReconfigureBegin
      BY <3>3 DEF ReconfigureBegin
    <3> QED
      BY <1>6, <3>1, <3>2, <3>3
  <2>2. run'.step = t
    BY <2>1, RunFields
  <2> QED
    BY <2>1, <2>2
<1> QED
  BY <1>1, <1>2, <1>3, <1>4, <1>5, <1>6 DEF Next, Edit, Apply, ConfigureEnds, Install, RunEnds,
     ReconfigureRefused, NothingToApply, Upgrade, Stop, MetalOn, Destroy, DestroyStops,
     DiskGoes, DiskStays, End, Idle, PowerOn, node, vars

\* The recorded config never describes a disk the machine does not have: a
\* reconfigure that is not refused leaves the selector and the volumes as they
\* were partitioned.
THEOREM RecordsMatchLayouts ==
  ASSUME \A m \in Manifests : NamedDisk(m) /\ OwnVolumes(m)
  PROVE  Spec => []RecordMatchesLayout
<1>1. Init => LayoutInv
  BY DEF Init, LayoutInv, RecordMatchesLayout
<1>2. ASSUME Inv, LayoutInv, [Next]_vars PROVE LayoutInv'
  <2>1. current' # None => WellLaid(current')
    <3>1. CASE current' \in {current, None}
      BY <1>2, <3>1 DEF LayoutInv
    <3>2. CASE WriteArtifact /\ current' = run.config
      <4>1. run # None /\ run.step = "write"
        BY <3>2 DEF WriteArtifact
      <4> QED
        BY <1>2, <3>2, <4>1, RunWellLaid
    <3> QED
      BY <1>2, <3>1, <3>2, CurrentStays
  <2>2. RecordMatchesLayout'
    <3>1. SUFFICES ASSUME held' # None, current' # None
                   PROVE  LayoutOf(current') = layout'
      BY DEF RecordMatchesLayout
    <3>2. CASE Install
      <4>1. /\ run # None /\ run.verb \in Installs /\ run.step = "apply"
            /\ layout' = LayoutOf(run.config) /\ current' = current
        BY <3>2 DEF Install, At, artifacts
      <4>2. current = run.config
        BY <1>2, <4>1 DEF Inv, InstallInv
      <4> QED
        BY <4>1, <4>2
    <3>3. CASE ~Install
      <4>1. held # None /\ UNCHANGED layout
        BY <1>2, <3>1, <3>3, FirstConfig, LayoutStays
      <4>2. CASE current' = current
        BY <1>2, <3>1, <4>1, <4>2 DEF LayoutInv, RecordMatchesLayout
      <4>3. CASE WriteArtifact /\ current' = run.config
        <5>1. run # None /\ run.step = "write"
          BY <4>3 DEF WriteArtifact
        <5>2. run.verb = "reconfigure"
          BY <1>2, <4>1, <5>1 DEF Inv, RunInv, InstallInv, Installs
        <5> QED
          BY <1>2, <4>1, <4>3, <5>1, <5>2 DEF LayoutInv
      <4> QED
        BY <1>2, <3>1, <4>2, <4>3, CurrentStays
    <3> QED
      BY <3>2, <3>3
  <2>3. ASSUME run' # None, run'.verb = "reconfigure", run'.step = "write"
        PROVE  LayoutOf(run'.config) = layout'
    <3>1. /\ run # None /\ run.verb = "reconfigure" /\ run'.config = run.config
          /\ UNCHANGED layout
          /\ run.step = "write" \/ ApplyToRunningNode
      BY <1>2, <2>3, WritesOn
    <3>2. CASE run.step = "write"
      BY <1>2, <3>1, <3>2 DEF LayoutInv
    <3>3. CASE ApplyToRunningNode
      <4>1. run.step = "compare" /\ ~Refuses(current, run.config)
        BY <3>3 DEF ApplyToRunningNode, At
      <4>2. held # None /\ current # None
        BY <1>2, <3>1, <4>1 DEF Inv, ReconfigureInv
      <4>3. WellLaid(current) /\ LayoutOf(current) = layout
        BY <1>2, <4>2 DEF LayoutInv, RecordMatchesLayout
      <4>4. WellLaid(run.config)
        BY <1>2, <3>1, RunWellLaid
      <4> QED
        BY <3>1, <4>1, <4>3, <4>4, SameLayout
    <3> QED
      BY <3>1, <3>2, <3>3
  <2> QED
    BY <2>1, <2>2, <2>3 DEF LayoutInv
<1>3. LayoutInv => RecordMatchesLayout
  BY DEF LayoutInv
<1> QED
  BY <1>1, <1>2, <1>3, ConfigInvariant, PTL DEF Spec

-----------------------------------------------------------------------------
(* The first config of a node. *)

\* adopt's disk is on the node, and the selector in the config names it.
LEMMA SelectorFinds ==
  ASSUME NEW ref \in [serial : STRING, wwid : STRING, path : STRING], NEW disks,
         RequireDisk(disks, ref)
  PROVE  \E d \in disks : \A f \in DOMAIN InstallDisk(ref) : d[f] = InstallDisk(ref)[f]
<1>1. PICK d \in disks : MatchDisk(ref, d)
  BY DEF RequireDisk
<1>2. \A f, g \in NamedBy(ref) : f = g
  <2>1. NamedBy(ref) \subseteq {"serial", "wwid", "path"} /\ Cardinality(NamedBy(ref)) <= 1
    BY DEF RequireDisk, Validate, NamedBy
  <2>2. IsFiniteSet(NamedBy(ref))
    <3>1. IsFiniteSet({"serial", "wwid", "path"})
      <4>1. IsFiniteSet({"serial"})
        BY FS_Singleton
      <4>2. IsFiniteSet({"serial"} \cup {"wwid"})
        BY <4>1, FS_AddElement
      <4>3. IsFiniteSet(({"serial"} \cup {"wwid"}) \cup {"path"})
        BY <4>2, FS_AddElement
      <4>4. ({"serial"} \cup {"wwid"}) \cup {"path"} = {"serial", "wwid", "path"}
        OBVIOUS
      <4> QED
        BY <4>3, <4>4
    <3> QED
      BY <2>1, <3>1, FS_Subset
  <2>3. Cardinality(NamedBy(ref)) \in Nat
    BY <2>2, FS_CardinalityType
  <2>4. Cardinality(NamedBy(ref)) \in {0, 1}
    BY SMT, <2>1, <2>3
  <2> QED
    BY <2>2, <2>4, FS_EmptySet, FS_Singleton
<1>3. ref.path = ""
  <2>1. SUFFICES ASSUME ref.path # "" PROVE FALSE
    OBVIOUS
  <2>2. "path" \in NamedBy(ref)
    BY <2>1 DEF NamedBy
  <2>3. ref.serial = "" /\ ref.wwid = ""
    BY <1>2, <2>2 DEF NamedBy
  <2> QED
    BY <1>1, <2>3 DEF MatchDisk
<1>4. CASE ref.wwid # ""
  <2>1. ref.serial = ""
    <3>1. "wwid" \in NamedBy(ref)
      BY <1>4 DEF NamedBy
    <3> QED
      BY <1>2, <3>1 DEF NamedBy
  <2>2. d.wwid = ref.wwid
    BY <1>1, <2>1 DEF MatchDisk
  <2>3. InstallDisk(ref) = [wwid |-> ref.wwid]
    BY <1>3, <1>4 DEF InstallDisk
  <2> QED
    BY SMT, <1>1, <2>2, <2>3
<1>5. CASE ref.wwid = ""
  <2>1. d.serial = ref.serial
    BY <1>1, <1>5 DEF MatchDisk
  <2>2. InstallDisk(ref) = [serial |-> ref.serial]
    BY <1>3, <1>5 DEF InstallDisk
  <2> QED
    BY SMT, <1>1, <2>1, <2>2
<1> QED
  BY <1>4, <1>5

\* The lemmas about prefixes and hosts; they speak of neither a variable nor the
\* other constants.
Net == INSTANCE NetworkProofs
         WITH Resolvers <- {}, Reserved <- {}, net <- 0, gateway <- 0, resolvers <- 0,
              mac <- 0, maintenance <- 0

\* A static block that CheckNetwork lets through, seen as sets of addresses.
LEMMA CheckedHosts ==
  ASSUME NEW n, n.net \in Prefixes, NEW a, CheckNetwork(n, a)
  PROVE  /\ n.net.addr \in Hosts(Segment(n.net))
         /\ n.gateway \in Hosts(Segment(n.net)) \ {n.net.addr}
<1>1. /\ Net!Addresses = Addresses /\ \A x : Net!IsFour(x) = IsFour(x)
      /\ \A p : Net!Size(p) = Size(p) /\ Net!NotAddress = NotAddress
      /\ Net!SixAddress = SixAddress
  BY DEF Net!Addresses, Addresses, Net!IsFour, IsFour, Net!Size, Size, Net!NotAddress, NotAddress,
         Net!SixAddress, SixAddress
<1>2. Net!Prefixes = Prefixes
  BY <1>1 DEF Net!Prefixes, Prefixes, Net!Literals, Literals
<1>3. \A p : Net!Masked(p) = Masked(p)
  BY <1>1 DEF Net!Masked, Masked
<1>4. \A p, x : Net!Contains(p, x) = Contains(p, x)
  BY <1>1, <1>3 DEF Net!Contains, Contains
<1>5. \A x : Net!NextAddr(x) = NextAddr(x)
  BY <1>1 DEF Net!NextAddr, NextAddr
<1>6. \A p, x : Net!IsBroadcast(p, x) = IsBroadcast(p, x)
  BY <1>4, <1>5 DEF Net!IsBroadcast, IsBroadcast
<1>7. Net!AddressPasses(n) /\ Net!GatewayPasses(n) /\ Net!Contains(n.net, a)
  <2>1. AddressPasses(n) /\ GatewayPasses(n) /\ Contains(n.net, a)
    BY DEF CheckNetwork
  <2>2. Net!AddressPasses(n)
    BY <1>1, <1>3, <1>6, <2>1 DEF Net!AddressPasses, AddressPasses
  <2>3. Net!GatewayPasses(n)
    BY <1>1, <1>3, <1>4, <1>6, <2>1 DEF Net!GatewayPasses, GatewayPasses
  <2> QED
    BY <1>4, <2>1, <2>2, <2>3
<1>8. /\ n.net.addr \in Net!Hosts(Net!Segment(n.net))
      /\ n.gateway \in Net!Hosts(Net!Segment(n.net)) \ {n.net.addr}
  BY <1>2, <1>7, Net!AcceptedHosts, WidthAssumption
<1>9. Net!Segment(n.net) = Segment(n.net)
  BY <1>1 DEF Net!Segment, Segment
<1>10. \A s : Net!Hosts(s) = Hosts(s)
  <2>1. \A s : Net!Cardinality(s) = Cardinality(s)
    BY Zenon DEF Net!Cardinality, Cardinality
  <2>2. \A s : Net!Min(s) = Min(s) /\ Net!Max(s) = Max(s)
    BY Zenon DEF Net!Min, Min, Net!Max, Max
  <2> QED
    BY Zenon, <2>1, <2>2 DEF Net!Hosts, Hosts
<1> QED
  BY <1>8, <1>9, <1>10

\* The first config a node is sent lets it install and come back, though the
\* file may have been edited since it was checked: a hardware node has the disk
\* (RequireDisk), and a static node can be reached afterwards (CheckNetwork and
\* RequireLink).
THEOREM InstallsWork == Spec => []InstallWorks
<1>1. ASSUME Inv PROVE InstallWorks
  <2> DEFINE in == UpInput(run.manifest, run.version)
             m == run.manifest
             c == run.config
  <2>1. SUFFICES ASSUME run # None, run.verb \in Installs, run.step = "apply"
                 PROVE  /\ run.verb = "adopt" => InstallFinds(c)
                        /\ c.network # None => Reachable(c.network)
    BY DEF InstallWorks, At
  <2>2. m \in Manifests /\ c = GenerateConfig(in, UpBundle(m), c.bundle)
    BY <1>1, <2>1 DEF Inv, RunInv, InstallInv
  <2>3. /\ c.network = in.network
        /\ c.install = IF Unattended(in) THEN None
                       ELSE [disk |-> InstallDisk(in.disk), image |-> InstallImage(in)]
    BY <2>2, ConfigFields
  <2>4. in.network = m.network /\ in.disk = SystemDisk(m)
    BY DEF UpInput, Input
  <2>5. CASE run.verb = "up"
    <3>1. m.network = None
      BY <1>1, <2>1, <2>2, <2>5, MachineConfigAssumption DEF Inv, RunInv
    <3> QED
      BY <2>3, <2>4, <2>5, <3>1
  <2>6. CASE run.verb = "adopt"
    <3>1. m.metal /\ AdoptPasses(m)
      BY <1>1, <2>1, <2>6 DEF Inv, RunInv
    <3>2. InstallFinds(c)
      <4>1. CASE c.install = None
        BY <4>1 DEF InstallFinds
      <4>2. CASE c.install # None
        <5>1. c.install = [disk |-> InstallDisk(in.disk), image |-> InstallImage(in)]
          BY <2>3, <4>2
        <5>2. c.install.disk = InstallDisk(m.disk)
          BY <2>4, <3>1, <5>1 DEF SystemDisk
        <5>3. m.disk \in [serial : STRING, wwid : STRING, path : STRING]
          BY <2>2, MachineConfigAssumption
        <5>4. \E d \in Disks : \A f \in DOMAIN InstallDisk(m.disk) : d[f] = InstallDisk(m.disk)[f]
          BY <3>1, <5>3, SelectorFinds DEF AdoptPasses
        <5> QED
          BY <4>2, <5>2, <5>4 DEF InstallFinds
      <4> QED
        BY <4>1, <4>2
    <3>3. ASSUME c.network # None PROVE Reachable(c.network)
      <4>1. c.network = m.network /\ m.network # None
        BY <2>3, <2>4, <3>3
      <4>2. m.network.net \in Prefixes
        BY <2>2, <4>1, MachineConfigAssumption
      <4>3. CheckNetwork(m.network, m.maintenance) /\ RequireLink(Links, m.network.mac)
        BY <3>1, <4>1 DEF AdoptPasses
      <4> QED
        BY <4>1, <4>2, <4>3, CheckedHosts DEF Reachable, RequireLink
    <3> QED
      BY <3>2, <3>3
  <2> QED
    BY <2>1, <2>5, <2>6 DEF Installs
<1> QED
  BY <1>1, ConfigInvariant, PTL
=============================================================================
