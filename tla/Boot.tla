-------------------------------- MODULE Boot --------------------------------
(****************************************************************************)
(* hvf.create from the inside (cmd/tinq/main.go): how one VM gets its disks, *)
(* its TPM, its firmware and its variable store, and what it boots.          *)
(*                                                                          *)
(* Machine treats create as four steps and follows processes and pids.  Here *)
(* the host around it changes too: packages come and go, the machine file is *)
(* edited, a controller keeps the answer of one platform.Detect for its      *)
(* whole life, a tinq is killed half-way through writing efivars.fd, the     *)
(* guest installs, enrols keys and seals its disk.                           *)
(*                                                                          *)
(* Simplifications.                                                          *)
(*  - One invocation at a time works on the machine, and pids are not        *)
(*    recycled: swtpm.pid is missing, names the swtpm, or names nothing.     *)
(*  - checkSite and the machine record are in Site, the rungs of destroy and *)
(*    a sweep that fails half-way in Machine: destroy is one step here.      *)
(*  - The guest is external: it boots what the firmware hands it, installs   *)
(*    to the target its configuration names, and seals its disk when it has  *)
(*    a TPM.                                                                 *)
(****************************************************************************)
EXTENDS Platform

CONSTANTS
    Hosts,                  \* the states the host can be in, by name
    Images,                 \* the boot images, by name
    Specs,                  \* the contents the machine file can have
    fallbackTable,          \* fixed firmware paths, by architecture
    secureFallbackTable,
    SizeOf,                 \* the size of each variable store template
    StoreOf,                \* the store size that each firmware image works with
    SecureCode,             \* the firmware images that need smm=on
    VendorVars,             \* the templates that come with someone's keys
    LegacySize,             \* what an earlier tinq padded a store to
    MaxFaults               \* faults and operator actions in one behaviour

Architectures == {"x86_64", "aarch64"}

\* A pair as it is packaged: the template has the size the image works with,
\* and the image needs smm=on or does not.
Packaged(pair, secure) ==
    /\ pair.code \in DOMAIN StoreOf /\ pair.vars \in DOMAIN SizeOf
    /\ SizeOf[pair.vars] = StoreOf[pair.code]
    /\ (pair.code \in SecureCode) = secure

NeedsSMM(d) == d.features \cap {"secure-boot", "requires-smm"} # {}

\* Descriptors say of the firmware they come with what is true of it, and so do
\* the tables of fixed paths, which list every architecture.
ASSUME FirmwareAssumption ==
    /\ \A h \in DOMAIN Hosts :
          /\ DOMAIN Hosts[h].registry \subseteq Nat
          /\ \A i \in DOMAIN Hosts[h].registry :
                /\ DOMAIN Hosts[h].registry[i] \subseteq Nat
                /\ \A n \in DOMAIN Hosts[h].registry[i] :
                      LET d == Hosts[h].registry[i][n]
                      IN  d # None => Packaged(Pair(d), NeedsSMM(d))
    /\ \A a \in Architectures :
          /\ DOMAIN fallbackTable[a] \subseteq Nat
          /\ DOMAIN secureFallbackTable[a] \subseteq Nat
          /\ \A i \in DOMAIN fallbackTable[a] : Packaged(fallbackTable[a][i], FALSE)
          /\ \A i \in DOMAIN secureFallbackTable[a] : Packaged(secureFallbackTable[a][i], TRUE)

\* The patterns that descriptors in use have: the versions of a machine, or its
\* alias.  And the firmware that needs smm=on is the one with SecureBoot.
MachinePatterns ==
    [stem : {<<"pc", "q35">>, <<"pc", "i440fx">>, <<"virt">>}, glob : {TRUE}]
        \cup [stem : {<<"q35">>, <<"pc">>, <<"virt">>}, glob : {FALSE}]

ASSUME DescriptorAssumption ==
    \A h \in DOMAIN Hosts :
        /\ None \notin Hosts[h].files
        /\ \A i \in DOMAIN Hosts[h].registry : \A n \in DOMAIN Hosts[h].registry[i] :
              LET d == Hosts[h].registry[i][n]
              IN  d # None =>
                    /\ d.uefi \in BOOLEAN
                    /\ "requires-smm" \in d.features => "secure-boot" \in d.features
                    /\ \A t \in d.targets : t.machines \subseteq MachinePatterns

ASSUME SpecsAssumption == \A s \in Specs : s.tpm \in BOOLEAN /\ s.secureBoot \in BOOLEAN

VARIABLES
    host, spec,
    answer,     \* what Detect answers on this host, computed once per host
    memo,       \* the controller's memoized Detect: <<>> or <<its answer>>
    \* the invocation
    pc, plat,   \* the platform it works with
    \* the state directory
    disk,       \* what is on each disk
    store,      \* efivars.fd
    tpm,        \* the TPM's state, its swtpm and the pidfile
    \* the guest
    vm, sealed, \* the running qemu; what the disk's key is bound to
    \* history and bounds
    intact,     \* what the disk is sealed to has been neither replaced nor removed
    faults

dirVars == <<disk, store, tpm>>
vars == <<host, answer, spec, memo, pc, plat, dirVars, vm, sealed, intact, faults>>

Disks == {"system", "data", "extra0", "extra1"}
Extras(s) == {d \in {"extra0", "extra1"} : s.extras > (IF d = "extra0" THEN 0 ELSE 1)}

\* The disks a machine file asks for (specDataDisk, specExtraDisks).
Attached(s) == {"system"} \cup (IF s.data THEN {"data"} ELSE {}) \cup Extras(s)

\* efivars.fd as copied from a template, and cut short by a kill.
FreshStore(template) ==
    [size |-> SizeOf[template], entries |-> FALSE,
     keys |-> IF template \in VendorVars THEN "vendor" ELSE "none"]
TornStore == [size |-> 0, entries |-> FALSE, keys |-> "none"]
LegacyStore == [size |-> LegacySize, entries |-> FALSE, keys |-> "none"]

NoTPM == [life |-> 0, proc |-> "none", pid |-> "none", twin |-> FALSE, stray |-> FALSE]

\* What Detect answers on each host.
Detected(h) == Detect(Hosts[h], fallbackTable, secureFallbackTable)

Init ==
    /\ host \in DOMAIN Hosts /\ answer = Detected(host)
    /\ spec \in Specs
    /\ memo = <<>>
    /\ pc = "idle" /\ plat = None
    /\ disk = [d \in Disks |-> "absent"]
    /\ store \in {None, LegacyStore}
    /\ tpm = NoTPM
    /\ vm = None /\ sealed = None
    /\ intact = TRUE /\ faults = 0

Goto(label) == pc' = label /\ UNCHANGED plat

Finish == pc' = "idle" /\ plat' = None

-----------------------------------------------------------------------------
(* create. *)

\* create, up to the directory's creation: detect is memoized in a process, so
\* a verb asks the host and a controller asks it once.  resolveImage, which
\* comes next, may fail: see Interrupt.
Create(controller) ==
    LET p == IF controller /\ memo # <<>> THEN memo[1] ELSE answer
    IN  /\ pc = "idle" /\ vm = None
        /\ memo' = IF controller THEN <<p>> ELSE memo
        /\ IF p = None THEN UNCHANGED <<pc, plat>>
                       ELSE pc' = "disks" /\ plat' = p
        /\ UNCHANGED <<host, answer, spec, dirVars, vm, sealed, intact, faults>>

DiskOrder == [system |-> 1, data |-> 2, extra0 |-> 3, extra1 |-> 4]

\* Faulty: the installed system disk is created again.
RecreateQcow2 ==
    /\ pc = "disks"
    /\ disk' = [d \in Disks |-> IF d \in Attached(spec) THEN "blank" ELSE disk[d]]
    /\ Goto("swtpm")
    /\ UNCHANGED <<host, answer, spec, memo, store, tpm, vm, sealed, intact, faults>>

\* ensureQcow2, for the system disk, the data disk and each extra disk in turn:
\* a disk that exists is left alone.
EnsureQcow2 ==
    LET missing == {d \in Attached(spec) : disk[d] = "absent"}
    IN  /\ pc = "disks"
        /\ \/ missing = {} /\ Goto("swtpm") /\ UNCHANGED disk
           \/ \E d \in missing : /\ \A e \in missing : DiskOrder[d] <= DiskOrder[e]
                                 /\ disk' = [disk EXCEPT ![d] = "blank"]
                                 /\ UNCHANGED <<pc, plat>>
        /\ UNCHANGED <<host, answer, spec, memo, store, tpm, vm, sealed, intact, faults>>

\* Faulty: the pidfile is there, whether or not it still names the swtpm.
HasPidfile == tpm.pid # "none"

\* The pidfile names a process that serves this directory.
HasSWTPM == tpm.pid = "live" /\ tpm.proc = "serving"

\* Faulty: every create starts a TPM, with a state of its own.
StartNewSWTPM ==
    /\ pc = "swtpm"
    /\ IF ~spec.tpm THEN Goto("vars") /\ UNCHANGED tpm
       ELSE /\ tpm' = [tpm EXCEPT !.life = (tpm.life + 1) % 4, !.proc = "starting",
                                  !.twin = tpm.twin \/ tpm.proc # "none"]
            /\ Goto("wait")
    /\ UNCHANGED <<host, answer, spec, memo, disk, store, vm, sealed, intact, faults>>

\* ensureSWTPM, up to the start of the daemon.  Its state directory is kept; a
\* pidfile that does not name it stays where it is.
EnsureSWTPM ==
    /\ pc = "swtpm"
    /\ IF ~spec.tpm \/ HasSWTPM THEN Goto("vars") /\ UNCHANGED tpm
       ELSE /\ tpm' = [tpm EXCEPT !.life = 1, !.proc = "starting",
                                  !.twin = tpm.twin \/ tpm.proc # "none"]
            /\ Goto("wait")
    /\ UNCHANGED <<host, answer, spec, memo, disk, store, vm, sealed, intact, faults>>

\* The wait for the pidfile, which any pidfile ends.
AwaitPidfile ==
    /\ pc = "wait"
    /\ tpm.pid # "none"
    /\ Goto("vars")
    /\ UNCHANGED <<host, answer, spec, memo, dirVars, vm, sealed, intact, faults>>

PidfileTimeout ==
    /\ pc = "wait"
    /\ tpm.pid = "none"
    /\ Finish
    /\ UNCHANGED <<host, answer, spec, memo, dirVars, vm, sealed, intact, faults>>

\* SecureBoot swaps both halves of the pair; None when the host has no such
\* firmware.
Firmware == IF spec.secureBoot THEN plat.secure ELSE plat.firmware

\* Faulty: a store that exists is good enough.
StoreExists(template) == store # None

\* Faulty: every create starts from the template.
StoreNeverMatches(template) == FALSE

StoreMatches(template) == store # None /\ store.size = SizeOf[template]

\* ensureEFIVars, up to the truncation of a file whose size is not the
\* template's.
EnsureEFIVars ==
    /\ pc = "vars"
    /\ IF Firmware = None \/ Firmware.vars \notin Hosts[host].files
       THEN Finish /\ UNCHANGED <<store, intact>>
       ELSE IF StoreMatches(Firmware.vars)
       THEN Goto("launch") /\ UNCHANGED <<store, intact>>
       ELSE /\ store' = TornStore
            /\ intact' = (intact /\ (sealed = None \/ store.size = SizeOf[Firmware.vars]))
            /\ Goto("write")
    /\ UNCHANGED <<host, answer, spec, memo, disk, tpm, vm, sealed, faults>>

\* The rest of os.WriteFile.
WriteEFIVars ==
    /\ pc = "write"
    /\ store' = FreshStore(Firmware.vars)
    /\ Goto("launch")
    /\ UNCHANGED <<host, answer, spec, memo, disk, tpm, vm, sealed, intact, faults>>

\* The command line.  qemu refuses a firmware image that is gone and a TPM
\* socket that nobody listens on.
Launch ==
    /\ pc = "launch"
    /\ vm' = IF Firmware.code \in Hosts[host].files /\ (spec.tpm => tpm.proc # "none")
               THEN [spec |-> spec, code |-> Firmware.code, smm |-> spec.secureBoot,
                     booted |-> "off"]
               ELSE None
    /\ Finish
    /\ UNCHANGED <<host, answer, spec, memo, dirVars, sealed, intact, faults>>

CreateStep ==
    \/ EnsureQcow2 \/ EnsureSWTPM \/ AwaitPidfile \/ PidfileTimeout
    \/ EnsureEFIVars \/ WriteEFIVars \/ Launch

-----------------------------------------------------------------------------
(* The swtpm daemon and the guest. *)

\* The daemonized child writes the pidfile after its parent has returned.
SwtpmWritesPidfile ==
    /\ tpm.proc = "starting"
    /\ tpm' = [tpm EXCEPT !.proc = "serving", !.pid = "live"]
    /\ UNCHANGED <<host, answer, spec, memo, pc, plat, disk, store, vm, sealed, intact, faults>>

\* The boot order: the data disk has no index.
BootDevices(s) == (Attached(s) \ {"data"}) \cup {"iso"}

\* Faulty: the install media right behind the system disk.
IsoSecond(d) ==
    CASE d = "system" -> 0 [] d = "extra0" -> 2 [] d = "extra1" -> 3 [] d = "iso" -> 1

BootIndex(d) ==
    CASE d = "system" -> 0 [] d = "extra0" -> 2 [] d = "extra1" -> 3 [] d = "iso" -> 99

Bootable(d) == d = "iso" \/ disk[d] = "bootable"

\* What the firmware starts.
FirstBootable(s) ==
    CHOOSE d \in BootDevices(s) :
        Bootable(d) /\ \A e \in BootDevices(s) : Bootable(e) => BootIndex(d) <= BootIndex(e)

Secured == vm.code \in SecureCode

\* Secure firmware hangs without smm, runs nothing that someone else's keys do
\* not vouch for, and in setup mode takes the keys on the install media.
GuestBoots ==
    /\ vm # None /\ vm.booted = "off"
    /\ LET d == FirstBootable(vm.spec)
           stuck == \/ Secured /\ (~vm.smm \/ store.keys = "vendor")
                    \/ d = "iso" /\ Images[vm.spec.image].is.arch # archFor(Hosts[host].goarch).imageArch
       IN  /\ vm' = [vm EXCEPT !.booted = IF stuck THEN "stuck" ELSE d]
           /\ store' = IF ~stuck /\ d = "iso" /\ Secured /\ store.keys = "none"
                         THEN [store EXCEPT !.keys = "ours"] ELSE store
    /\ UNCHANGED <<host, answer, spec, memo, pc, plat, disk, tpm, sealed, intact, faults>>

InstallTarget(s) == IF s.target = "extras" THEN Extras(s) ELSE {"system"}

\* PCR 7: the state SecureBoot was in.
PCR7 == IF Secured THEN store.keys ELSE "off"

\* The guest installs, writes its boot entries, seals the disk and reboots.  It
\* halts on the media of a machine that is installed already.
GuestInstalls ==
    /\ vm # None /\ vm.booted = "iso"
    /\ \A d \in InstallTarget(vm.spec) : disk[d] # "bootable"
    /\ disk' = [d \in Disks |-> IF d \in InstallTarget(vm.spec) THEN "bootable" ELSE disk[d]]
    /\ sealed' = IF vm.spec.tpm
                   THEN [life |-> tpm.life, pcr |-> PCR7, secureBoot |-> vm.spec.secureBoot]
                   ELSE None
    /\ store' = [store EXCEPT !.entries = TRUE]
    /\ intact' = TRUE
    /\ vm' = [vm EXCEPT !.booted = "off"]
    /\ UNCHANGED <<host, answer, spec, memo, pc, plat, tpm, faults>>

GuestReboots ==
    /\ vm # None /\ vm.booted \notin {"off", "iso"}
    /\ vm' = [vm EXCEPT !.booted = "off"]
    /\ UNCHANGED <<host, answer, spec, memo, pc, plat, dirVars, sealed, intact, faults>>

-----------------------------------------------------------------------------
(* Faults and operator actions. *)

Fault == faults < MaxFaults /\ faults' = faults + 1

\* A tinq is killed, or a step of create returns an error.
Interrupt ==
    /\ Fault /\ pc # "idle" /\ Finish
    /\ UNCHANGED <<host, answer, spec, memo, dirVars, vm, sealed, intact>>

\* The VM stops (it is told to, or it crashes); its swtpm stays.
VMStops ==
    /\ Fault /\ vm # None /\ vm' = None
    /\ UNCHANGED <<host, answer, spec, memo, pc, plat, dirVars, sealed, intact>>

NoProcess(t) == [t EXCEPT !.proc = "none", !.twin = FALSE,
                          !.pid = IF t.pid = "none" THEN "none" ELSE "stale"]

SwtpmDies ==
    /\ Fault /\ tpm.proc # "none" /\ tpm' = NoProcess(tpm)
    /\ UNCHANGED <<host, answer, spec, memo, pc, plat, disk, store, vm, sealed, intact>>

HostReboots ==
    /\ Fault
    /\ Finish /\ memo' = <<>> /\ vm' = None
    /\ tpm' = [NoProcess(tpm) EXCEPT !.stray = FALSE]
    /\ UNCHANGED <<host, answer, spec, disk, store, sealed, intact>>

\* Packages are installed, removed or upgraded, /dev/kvm comes or goes.
HostChanges ==
    /\ Fault
    /\ \E h \in DOMAIN Hosts :
          /\ Hosts[h].os = Hosts[host].os /\ Hosts[h].goarch = Hosts[host].goarch
          /\ host' = h /\ answer' = Detected(h)
    /\ UNCHANGED <<spec, memo, pc, plat, dirVars, vm, sealed, intact>>

ControllerRestarts ==
    /\ Fault /\ pc = "idle" /\ memo # <<>> /\ memo' = <<>>
    /\ UNCHANGED <<host, answer, spec, pc, plat, dirVars, vm, sealed, intact>>

EditSpec ==
    /\ Fault /\ pc = "idle" /\ spec' \in Specs
    /\ UNCHANGED <<host, answer, memo, pc, plat, dirVars, vm, sealed, intact>>

\* destroy: SIGTERM to the swtpm the pidfile names, halt, then the sweep.
Swept == [NoTPM EXCEPT !.stray = tpm.stray \/ tpm.twin \/ (tpm.proc # "none" /\ tpm.pid # "live")]

Destroy ==
    /\ Fault /\ pc = "idle"
    /\ vm' = None
    /\ disk' = [d \in Disks |-> "absent"]
    /\ store' = None
    /\ tpm' = Swept
    /\ sealed' = None /\ intact' = TRUE
    /\ UNCHANGED <<host, answer, spec, memo, pc, plat>>

\* A sweep that fails or is killed leaves any of the files.  A sealed disk that
\* it leaves may have lost what it is sealed to.  (It counts twice: the destroy
\* and what stops it.)
Signalled == IF tpm.pid = "live" THEN [NoProcess(tpm) EXCEPT !.stray = tpm.stray \/ tpm.twin] ELSE tpm

DestroyStops ==
    /\ faults + 1 < MaxFaults /\ faults' = faults + 2
    /\ pc = "idle"
    /\ vm' = None
    /\ \E left \in SUBSET {d \in Disks : disk[d] # "absent"} :
         disk' = [d \in Disks |-> IF d \in left THEN disk[d] ELSE "absent"]
    /\ store' \in {store, None}
    /\ tpm' \in {[t EXCEPT !.pid = p] : t \in {Signalled, Swept}, p \in {Signalled.pid, "none"}}
    /\ IF \E d \in Disks : disk'[d] = "bootable"
         THEN UNCHANGED sealed /\ intact' = (intact /\ store' = store /\ tpm'.life = tpm.life)
         ELSE sealed' = None /\ intact' = TRUE
    /\ UNCHANGED <<host, answer, spec, memo, pc, plat>>

Environment ==
    \/ Interrupt \/ VMStops \/ SwtpmDies \/ HostReboots \/ HostChanges
    \/ ControllerRestarts \/ EditSpec \/ Destroy \/ DestroyStops

Guest == SwtpmWritesPidfile \/ GuestBoots \/ GuestInstalls \/ GuestReboots

Next ==
    \/ \E controller \in BOOLEAN : Create(controller)
    \/ CreateStep
    \/ Guest
    \/ Environment

Spec == Init /\ [][Next]_vars

\* An operator runs the verb again until the VM runs; a process that has work
\* to do does it.  The environment owes nothing.
FairSpec ==
    /\ Spec
    /\ SF_vars(Create(FALSE))
    /\ WF_vars(CreateStep)
    /\ WF_vars(SwtpmWritesPidfile)
    /\ WF_vars(GuestBoots)
    /\ WF_vars(GuestInstalls)
-----------------------------------------------------------------------------
(* Properties. *)

\* qemu is only ever started with firmware that works as it is invoked: smm=on
\* exactly for an image that needs it, and beside an image a store of the size
\* it works with.  Neither a padded store of an earlier tinq, nor one that a
\* kill cut short, nor the store of a package since replaced reaches a VM, and
\* no create touches the store of a running one.
FirmwareFits ==
    vm # None =>
        /\ vm.smm = (vm.code \in SecureCode)
        /\ store.size = StoreOf[vm.code]

\* A reference for the firmware a host has.  It reads the patterns of a
\* descriptor as qemu does, against the versioned name that a machine type is
\* an alias of.
Versioned(machine) == IF machine = <<"q35">> THEN <<"pc", "q35", "11.0">> ELSE <<"virt", "11.0">>

Covers(d, arch) ==
    \E t \in d.targets : \E p \in t.machines :
        t.arch = arch.fwArch /\ (Glob(p, Versioned(arch.machine)) \/ Glob(p, arch.machine))

Serves(d, h, secureBoot) ==
    /\ d # None /\ d.device = "flash" /\ d.uefi
    /\ Covers(d, archFor(h.goarch))
    /\ {d.code, d.vars} \subseteq h.files
    /\ (d.code \in SecureCode) = secureBoot

InForce(dirs, n) ==
    LET holders == {i \in DOMAIN dirs : n \in DOMAIN dirs[i]}
    IN  dirs[Min(holders)][n]

Reference(h, secureBoot) ==
    LET names == UNION {DOMAIN dir : dir \in Range(h.registry)}
        serving == {n \in names : Serves(InForce(h.registry, n), h, secureBoot)}
    IN  IF serving = {} THEN None ELSE Pair(InForce(h.registry, Min(serving)))

\* The most preferred firmware that is really installed is found, whatever has
\* rotted in the registry (firmware.go: resolveFirmware, machineMatches).
FirmwareFound ==
    pc = "disks" /\ plat = answer =>
        /\ Reference(Hosts[host], FALSE) \in {None, plat.firmware}
        /\ Reference(Hosts[host], TRUE) \in {None, plat.secure}

\* The install media is booted only when nothing else can boot, wherever the
\* installation went: a machine never lands on the media it was installed from.
MediaLast ==
    [][ vm # None /\ vm' # None /\ vm.booted = "off" /\ vm'.booted = "iso"
          => \A d \in Attached(vm.spec) : disk[d] # "bootable" ]_vars

\* A guest that has sealed its disk can open it on every later boot, through
\* restarts, kills, edits and changes of the host's packages, as long as its
\* own tpm and secureBoot settings are the ones it was sealed under, the host
\* has offered no firmware with a store of another size and no destroy that
\* stopped part-way has taken the store or the TPM's state.
SealedOpens ==
    vm # None /\ vm.booted \in Disks /\ sealed # None /\ intact
        /\ vm.spec.tpm /\ vm.spec.secureBoot = sealed.secureBoot
    => tpm.life = sealed.life /\ PCR7 = sealed.pcr

\* The guest's boot entries and a disk's system are only ever given up by
\* destroy, or by a store whose size the template of the day disagrees with.
GuestStateKept ==
    [][ \/ Destroy \/ DestroyStops
        \/ /\ \A d \in Disks : disk[d] = "bootable" => disk'[d] = "bootable"
           /\ store # None /\ store.entries =>
                \/ store' # None /\ store'.entries
                \/ store.size # SizeOf[Firmware.vars] ]_vars

\* A swtpm gets out of tinq's hands (a second one beside it, or none left to
\* answer for it after destroy) only before it has written its pidfile.
VTPMInHand ==
    [][ (tpm'.twin /\ ~tpm.twin) \/ (tpm'.stray /\ ~tpm.stray)
          => tpm.proc = "starting" \/ tpm.twin ]_vars

\* The host and the file are such that the machine can run.
Fit ==
    /\ answer # None
    /\ spec.secureBoot => answer.secure # None /\ answer.secure.vars \notin VendorVars
    /\ spec.secureBoot /\ store # None => store.keys # "vendor"
    /\ vm # None => vm.spec = spec
    /\ Images[spec.image].is.arch = archFor(Hosts[host].goarch).imageArch

\* Running the verb again is enough: whatever earlier runs left behind, once
\* the host is fit and stays fit, the machine comes to boot an installed disk.
RetryBoots ==
    <>[]Fit => []<>(vm # None /\ vm.booted \in Disks)

-----------------------------------------------------------------------------
(* The inductive invariant. *)

Answers == {Detected(h) : h \in DOMAIN Hosts}
Keys == {"none", "vendor", "ours"}
Stores == [size : {0, LegacySize} \cup {SizeOf[v] : v \in DOMAIN SizeOf},
           entries : BOOLEAN, keys : Keys]
ASSUME NoneAssumption == None \notin Stores

VMs == [spec : Specs, code : DOMAIN StoreOf, smm : BOOLEAN,
        booted : Disks \cup {"off", "iso", "stuck"}]
Seals == [life : {0, 1}, pcr : Keys \cup {"off"}, secureBoot : BOOLEAN]

TypeOK ==
    /\ host \in DOMAIN Hosts /\ answer = Detected(host)
    /\ spec \in Specs
    /\ memo \in {<<>>} \cup {<<p>> : p \in Answers}
    /\ pc \in {"idle", "disks", "swtpm", "wait", "vars", "write", "launch"}
    /\ plat \in {None} \cup Answers
    /\ disk \in [Disks -> {"absent", "blank", "bootable"}]
    /\ store \in {None} \cup Stores
    /\ tpm \in [life : {0, 1}, proc : {"none", "starting", "serving"},
               pid : {"none", "live", "stale"}, twin : BOOLEAN, stray : BOOLEAN]
    /\ vm \in {None} \cup VMs
    /\ sealed \in {None} \cup Seals
    /\ intact \in BOOLEAN

\* A create works on a VM that is down, with a platform; when it comes to write
\* the store or to launch, the pair it wants was there, and the store at launch
\* has the size of its template.
CreateInv ==
    /\ pc # "idle" => plat # None /\ vm = None
    /\ pc \in {"write", "launch"} => Firmware # None
    /\ pc = "write" => store = TornStore /\ (sealed = None \/ ~intact)
    /\ pc = "launch" => store \in Stores /\ store.size = SizeOf[Firmware.vars]

\* A running VM has a store of the right size beside its firmware, smm=on for
\* the firmware that needs it, and our keys by the time the media has booted.
RunningInv ==
    vm # None =>
        /\ store \in Stores /\ store.size = StoreOf[vm.code]
        /\ vm.smm = vm.spec.secureBoot /\ vm.smm = (vm.code \in SecureCode)
        /\ vm.booted = "iso" /\ vm.smm => store.keys = "ours"

\* A TPM in service has a state, which stays for whoever was started with it.
TPMInv ==
    /\ tpm.proc # "none" => tpm.life = 1
    /\ tpm.proc = "serving" => tpm.pid = "live"
    /\ vm # None /\ vm.spec.tpm => tpm.life = 1

\* A sealed disk is sealed to that state, and to our keys if SecureBoot was on.
SealInv ==
    sealed # None =>
        /\ sealed.life = 1
        /\ ~sealed.secureBoot => sealed.pcr = "off"
        /\ sealed.secureBoot => sealed.pcr = "ours"
        /\ intact => /\ tpm.life = 1 /\ store \in Stores
                     /\ sealed.secureBoot => store.keys = "ours"

\* Nothing boots from the data disk.
DataInv == disk["data"] # "bootable"

Inv == TypeOK /\ CreateInv /\ RunningInv /\ TPMInv /\ SealInv /\ DataInv
=============================================================================
