----------------------------- MODULE BootProofs -----------------------------
(***************************************************************************)
(* Proofs about Boot, for any hosts whose descriptors tell the truth, any  *)
(* machine files and any number of faults: a VM is started with firmware,  *)
(* a store and a TPM that fit, and what its guest has put into them stays. *)
(***************************************************************************)
EXTENDS Boot, WellFoundedInduction, TLAPS

\* Zenon is tried first, then SMT.
USE ZenonT(20), SMTT(20)

-----------------------------------------------------------------------------
(* What Detect answers. *)

Below == {ss \in Nat \X Nat : ss[1] < ss[2]}

LEMMA Least ==
  ASSUME NEW S \in SUBSET Nat, S # {}
  PROVE  \E x \in S : \A y \in S : x <= y
<1>1. IsWellFoundedOn(Below, Nat)
  BY NatLessThanWellFounded DEF OpToRel, Below
<1>2. PICK x \in S : \A y \in S : <<y, x>> \notin Below
  BY <1>1, WFMin
<1>3. \A y \in S : y \in Nat /\ x \in Nat /\ ~(y < x)
  BY <1>2 DEF Below
<1> QED
  BY <1>3, SMT

LEMMA MinIn ==
  ASSUME NEW S \in SUBSET Nat, S # {}
  PROVE  Min(S) \in S
BY Least DEF Min

\* The file a basename stands for is in one of the directories.
LEMMA WinnerIsThere ==
  ASSUME NEW dirs, DOMAIN dirs \subseteq Nat,
         NEW n, \E i \in DOMAIN dirs : n \in DOMAIN dirs[i]
  PROVE  \E i \in DOMAIN dirs : n \in DOMAIN dirs[i] /\ WinningFile(dirs, n) = dirs[i][n]
<1> DEFINE S == {i \in DOMAIN dirs : n \in DOMAIN dirs[i]}
<1>1. PICK i \in S : \A j \in S : i <= j
  BY Least
<1>2. n \in DOMAIN dirs[i] /\ \A j \in DOMAIN dirs : j < i => n \notin DOMAIN dirs[j]
  BY <1>1, SMT
<1> QED
  BY <1>1, <1>2 DEF WinningFile

\* Every registry's suitable pair is as packaged.
LEMMA ScanIsPackaged ==
  ASSUME NEW h \in DOMAIN Hosts, NEW fwArch, NEW machine, NEW secure \in BOOLEAN
  PROVE  LET pairs == scanRegistry(Hosts[h].registry, fwArch, machine, secure)
         IN  DOMAIN pairs \subseteq Nat /\ \A n \in DOMAIN pairs : Packaged(pairs[n], secure)
<1> DEFINE dirs == Hosts[h].registry
           pairs == scanRegistry(dirs, fwArch, machine, secure)
<1>1. /\ DOMAIN dirs \subseteq Nat
      /\ \A i \in DOMAIN dirs : DOMAIN dirs[i] \subseteq Nat
      /\ \A i \in DOMAIN dirs : \A n \in DOMAIN dirs[i] :
            dirs[i][n] # None => Packaged(Pair(dirs[i][n]), NeedsSMM(dirs[i][n]))
  BY FirmwareAssumption
<1> HIDE DEF dirs
<1>2. DOMAIN pairs = {n \in UNION {DOMAIN dirs[i] : i \in DOMAIN dirs} :
                        /\ WinningFile(dirs, n) # None
                        /\ suitable(WinningFile(dirs, n), fwArch, machine, secure)}
  BY DEF scanRegistry
<1>3. \A n \in DOMAIN pairs : pairs[n] = Pair(WinningFile(dirs, n))
  BY <1>2 DEF scanRegistry
<1>4. DOMAIN pairs \subseteq Nat
  BY <1>1, <1>2
<1>5. ASSUME NEW n \in DOMAIN pairs
      PROVE  Packaged(pairs[n], secure)
  <2> DEFINE d == WinningFile(dirs, n)
  <2>1. d # None /\ suitable(d, fwArch, machine, secure)
    BY <1>2, <1>5
  <2>2. \E i \in DOMAIN dirs : n \in DOMAIN dirs[i]
    BY <1>2, <1>5
  <2>3. PICK i \in DOMAIN dirs : n \in DOMAIN dirs[i] /\ d = dirs[i][n]
    BY <1>1, <2>2, WinnerIsThere
  <2>4. Packaged(Pair(d), NeedsSMM(d))
    BY <1>1, <2>1, <2>3
  <2>5. NeedsSMM(d) = secure
    BY SMT, <2>1 DEF suitable, NeedsSMM
  <2> QED
    BY <1>3, <1>5, <2>4, <2>5
<1> QED
  BY <1>4, <1>5 DEF dirs

LEMMA ResolvedIsPackaged ==
  ASSUME NEW h \in DOMAIN Hosts, NEW table, NEW secure \in BOOLEAN,
         archFor(Hosts[h].goarch) # None,
         \A a \in Architectures : /\ DOMAIN table[a] \subseteq Nat
                                  /\ \A i \in DOMAIN table[a] : Packaged(table[a][i], secure)
  PROVE  LET p == resolveFirmware(Hosts[h], table, secure)
         IN  p # None => Packaged(p, secure)
<1> DEFINE arch == archFor(Hosts[h].goarch)
           pairs == scanRegistry(Hosts[h].registry, arch.fwArch, arch.machine, secure)
           rows == table[arch.fwArch]
           live == {n \in DOMAIN pairs : Installed(pairs[n], Hosts[h].files)}
           fixed == {i \in DOMAIN rows : Installed(rows[i], Hosts[h].files)}
<1>1. arch.fwArch \in Architectures
  BY DEF archFor, Architectures
<1>2. resolveFirmware(Hosts[h], table, secure)
         = IF live # {} THEN pairs[Min(live)] ELSE IF fixed # {} THEN rows[Min(fixed)] ELSE None
  BY DEF resolveFirmware
<1>3. DOMAIN pairs \subseteq Nat /\ \A n \in DOMAIN pairs : Packaged(pairs[n], secure)
  BY ScanIsPackaged
<1>4. DOMAIN rows \subseteq Nat /\ \A i \in DOMAIN rows : Packaged(rows[i], secure)
  BY <1>1
<1> HIDE DEF arch, pairs, rows
<1>5. ASSUME live # {}
      PROVE  Packaged(pairs[Min(live)], secure)
  <2>1. live \in SUBSET Nat
    BY <1>3
  <2>2. Min(live) \in live
    BY <2>1, <1>5, MinIn
  <2> QED
    BY <2>2, <1>3
<1>6. ASSUME fixed # {}
      PROVE  Packaged(rows[Min(fixed)], secure)
  <2>1. fixed \in SUBSET Nat
    BY <1>4
  <2>2. Min(fixed) \in fixed
    BY <2>1, <1>6, MinIn
  <2> QED
    BY <2>2, <1>4
<1> QED
  BY <1>2, <1>5, <1>6

\* Whatever is installed, Detect answers with plain firmware that is plain, and
\* secure firmware that is secure, each beside a template of its size.
LEMMA DetectedIsPackaged ==
  ASSUME NEW p \in Answers, p # None
  PROVE  /\ Packaged(p.firmware, FALSE)
         /\ p.secure # None => Packaged(p.secure, TRUE)
<1>1. PICK h \in DOMAIN Hosts : p = Detect(Hosts[h], fallbackTable, secureFallbackTable)
  BY DEF Answers, Detected
<1>2. /\ archFor(Hosts[h].goarch) # None
      /\ resolveFirmware(Hosts[h], fallbackTable, FALSE) # None
      /\ p = [firmware |-> resolveFirmware(Hosts[h], fallbackTable, FALSE),
              secure |-> resolveFirmware(Hosts[h], secureFallbackTable, TRUE)]
  BY <1>1 DEF Detect
<1>3. Packaged(resolveFirmware(Hosts[h], fallbackTable, FALSE), FALSE)
  BY <1>2, ResolvedIsPackaged, FirmwareAssumption
<1>4. resolveFirmware(Hosts[h], secureFallbackTable, TRUE) # None
         => Packaged(resolveFirmware(Hosts[h], secureFallbackTable, TRUE), TRUE)
  BY <1>2, ResolvedIsPackaged, FirmwareAssumption
<1> QED
  BY <1>2, <1>3, <1>4

-----------------------------------------------------------------------------
(* The firmware that a host has. *)

\* The suffix test of machineMatches tells what resolving the alias would.
LEMMA PatternsAgree ==
  ASSUME NEW p \in MachinePatterns, NEW m \in {<<"q35">>, <<"virt">>}
  PROVE  machineMatches(p, m) <=> (Glob(p, Versioned(m)) \/ Glob(p, m))
<1> DEFINE q == <<"pc", "q35">>
           i == <<"pc", "i440fx">>
<1>1. /\ Versioned(<<"q35">>) = <<"pc", "q35", "11.0">>
      /\ Versioned(<<"virt">>) = <<"virt", "11.0">>
  BY SMT DEF Versioned
<1>2. CASE p.glob
  <2>1. p.stem \in {q, i, <<"virt">>}
    BY <1>2 DEF MachinePatterns
  <2>2. \A x, y : ~IsSuffix(<<x>>, <<y>>) <=> x # y
    BY SMT DEF IsSuffix, IsPrefix, Reverse
  <2>3. \A x, y, z : IsSuffix(<<x>>, <<y, z>>) <=> x = z
    BY SMT DEF IsSuffix, IsPrefix, Reverse
  <2>4. \A x, y, z : IsPrefix(<<x>>, <<y, z>>) <=> x = y
    BY SMT DEF IsPrefix
  <2>5. \A x, y, z : IsPrefix(<<x>>, <<y>>) <=> x = y
    BY SMT DEF IsPrefix
  <2>6. \A x, y, z, v : IsPrefix(<<x>>, <<y, z, v>>) <=> x = y
    BY SMT DEF IsPrefix
  <2>7. \A x, u, y, z, v : IsPrefix(<<x, u>>, <<y, z, v>>) <=> x = y /\ u = z
    BY SMT DEF IsPrefix
  <2>8. \A x, u, y, z : IsPrefix(<<x, u>>, <<y, z>>) <=> x = y /\ u = z
    BY SMT DEF IsPrefix
  <2>9. CASE p.stem = q
    BY SMT, <1>1, <1>2, <2>3, <2>7, <2>8, <2>9 DEF machineMatches, Glob
  <2>10. CASE p.stem = i
    BY SMT, <1>1, <1>2, <2>3, <2>7, <2>8, <2>10 DEF machineMatches, Glob
  <2>11. CASE p.stem = <<"virt">>
    BY SMT, <1>1, <1>2, <2>2, <2>4, <2>5, <2>6, <2>11 DEF machineMatches, Glob
  <2> QED
    BY <2>1, <2>9, <2>10, <2>11
<1>3. CASE ~p.glob
  <2>1. p.stem \in {<<"q35">>, <<"pc">>, <<"virt">>}
    BY <1>3 DEF MachinePatterns
  <2>2. p.stem # Versioned(m)
    BY SMT, <1>1, <2>1
  <2> QED
    BY <1>3, <2>2 DEF machineMatches, Glob
<1> QED
  BY <1>2, <1>3

\* The file that wins is the one of the first directory that has its basename.
LEMMA WinnerIsInForce ==
  ASSUME NEW dirs, DOMAIN dirs \subseteq Nat,
         NEW n, \E i \in DOMAIN dirs : n \in DOMAIN dirs[i]
  PROVE  WinningFile(dirs, n) = InForce(dirs, n)
<1> DEFINE S == {i \in DOMAIN dirs : n \in DOMAIN dirs[i]}
           W(i) == /\ n \in DOMAIN dirs[i]
                   /\ \A j \in DOMAIN dirs : j < i => n \notin DOMAIN dirs[j]
<1>1. PICK i \in S : \A j \in S : i <= j
  BY Least
<1>2. \A j \in S : (\A k \in S : j <= k) => j = i
  BY <1>1, SMT
<1>3. Min(S) = i
  BY <1>1, <1>2 DEF Min
<1>4. W(i) /\ \A j \in DOMAIN dirs : W(j) => j = i
  BY <1>1, SMT
<1>5. (CHOOSE j \in DOMAIN dirs : W(j)) = i
  BY <1>1, <1>4
<1> QED
  BY <1>3, <1>5 DEF WinningFile, InForce

\* An installed descriptor serves exactly when the code finds it suitable.
LEMMA SuitableServes ==
  ASSUME NEW h \in DOMAIN Hosts, NEW i \in DOMAIN Hosts[h].registry,
         NEW n \in DOMAIN Hosts[h].registry[i], NEW secure \in BOOLEAN,
         archFor(Hosts[h].goarch) # None
  PROVE  LET d == Hosts[h].registry[i][n]
             arch == archFor(Hosts[h].goarch)
         IN  Serves(d, Hosts[h], secure)
               <=> /\ d # None /\ suitable(d, arch.fwArch, arch.machine, secure)
                   /\ Installed(Pair(d), Hosts[h].files)
<1> DEFINE d == Hosts[h].registry[i][n]
           arch == archFor(Hosts[h].goarch)
<1> SUFFICES ASSUME d # None
             PROVE  Serves(d, Hosts[h], secure)
                      <=> /\ suitable(d, arch.fwArch, arch.machine, secure)
                          /\ Installed(Pair(d), Hosts[h].files)
  BY DEF Serves
<1>1. /\ "requires-smm" \in d.features => "secure-boot" \in d.features
      /\ \A t \in d.targets : t.machines \subseteq MachinePatterns
      /\ None \notin Hosts[h].files
  BY DescriptorAssumption
<1>2. (d.code \in SecureCode) = NeedsSMM(d)
  BY FirmwareAssumption DEF Packaged, Pair
<1>3. arch.machine \in {<<"q35">>, <<"virt">>}
  BY DEF archFor
<1> HIDE DEF d, arch
<1>4. Covers(d, arch) <=> matchesTarget(d, arch.fwArch, arch.machine)
  <2>1. \A t \in d.targets : \A p \in t.machines :
           machineMatches(p, arch.machine)
             <=> (Glob(p, Versioned(arch.machine)) \/ Glob(p, arch.machine))
    BY <1>1, <1>3, PatternsAgree
  <2> QED
    BY <2>1 DEF Covers, matchesTarget
<1>5. Installed(Pair(d), Hosts[h].files) <=> {d.code, d.vars} \subseteq Hosts[h].files
  BY DEF Installed, Pair
<1>6. {d.code, d.vars} \subseteq Hosts[h].files => d.code # None /\ d.vars # None
  BY <1>1
<1>7. (NeedsSMM(d) = secure) <=> IF secure THEN "secure-boot" \in d.features
                                 ELSE d.features \cap {"requires-smm", "secure-boot"} = {}
  BY <1>1 DEF NeedsSMM
<1> QED
  BY <1>2, <1>4, <1>5, <1>6, <1>7 DEF Serves, suitable, arch

\* What the registry has for this host is what resolveFirmware answers with.
LEMMA ResolvedIsReference ==
  ASSUME NEW h \in DOMAIN Hosts, NEW table, NEW secure \in BOOLEAN,
         archFor(Hosts[h].goarch) # None
  PROVE  Reference(Hosts[h], secure) \in {None, resolveFirmware(Hosts[h], table, secure)}
<1> DEFINE dirs == Hosts[h].registry
           arch == archFor(Hosts[h].goarch)
           names == UNION {DOMAIN dir : dir \in Range(dirs)}
           serving == {n \in names : Serves(InForce(dirs, n), Hosts[h], secure)}
           pairs == scanRegistry(dirs, arch.fwArch, arch.machine, secure)
           live == {n \in DOMAIN pairs : Installed(pairs[n], Hosts[h].files)}
<1>1. names = UNION {DOMAIN dirs[i] : i \in DOMAIN dirs}
  BY DEF Range
<1>2. /\ DOMAIN pairs = {n \in names : LET d == WinningFile(dirs, n)
                                       IN  d # None /\ suitable(d, arch.fwArch, arch.machine, secure)}
      /\ \A n \in DOMAIN pairs : pairs[n] = Pair(WinningFile(dirs, n))
  BY <1>1 DEF scanRegistry
<1>3. DOMAIN dirs \subseteq Nat /\ \A i \in DOMAIN dirs : DOMAIN dirs[i] \subseteq Nat
  BY FirmwareAssumption
<1>4. ASSUME NEW n \in names
      PROVE  /\ WinningFile(dirs, n) = InForce(dirs, n)
             /\ Serves(InForce(dirs, n), Hosts[h], secure)
                  <=> n \in DOMAIN pairs /\ Installed(Pair(InForce(dirs, n)), Hosts[h].files)
  <2>1. \E i \in DOMAIN dirs : n \in DOMAIN dirs[i]
    BY <1>1
  <2>2. WinningFile(dirs, n) = InForce(dirs, n)
    BY <1>3, <2>1, WinnerIsInForce
  <2>3. PICK i \in DOMAIN dirs : n \in DOMAIN dirs[i] /\ InForce(dirs, n) = dirs[i][n]
    BY <1>3, <2>1, <2>2, WinnerIsThere
  <2>4. Serves(dirs[i][n], Hosts[h], secure)
          <=> /\ dirs[i][n] # None /\ suitable(dirs[i][n], arch.fwArch, arch.machine, secure)
              /\ Installed(Pair(dirs[i][n]), Hosts[h].files)
    BY <2>3, SuitableServes
  <2> QED
    BY <1>2, <2>2, <2>3, <2>4
<1>5. resolveFirmware(Hosts[h], table, secure) = pairs[Min(live)] \/ live = {}
  BY DEF resolveFirmware
<1>6. Reference(Hosts[h], secure) = IF serving = {} THEN None ELSE Pair(InForce(dirs, Min(serving)))
  BY DEF Reference
<1> HIDE DEF dirs, arch, names, pairs
<1>7. serving = live
  BY <1>2, <1>4
<1>8. live # {} => Min(live) \in live
  <2>1. live \in SUBSET Nat
    BY <1>1, <1>2, <1>3
  <2> QED
    BY <2>1, MinIn
<1>9. live # {} => pairs[Min(live)] = Pair(InForce(dirs, Min(live)))
  BY <1>2, <1>4, <1>8
<1> QED
  BY <1>5, <1>6, <1>7, <1>9

-----------------------------------------------------------------------------
(* The invariant. *)

LEMMA InitInv == Init => Inv
<1> SUFFICES ASSUME Init PROVE Inv
  OBVIOUS
<1>1. LegacyStore \in Stores
  BY DEF Stores, Keys, LegacyStore
<1>2. TypeOK
  BY <1>1 DEF Init, TypeOK, NoTPM
<1> QED
  BY <1>2 DEF Init, Inv, CreateInv, RunningInv, TPMInv, SealInv, DataInv, NoTPM, Disks

\* The pair a create works with is as packaged.
LEMMA FirmwareIsPackaged ==
  ASSUME Inv, pc # "idle", Firmware # None
  PROVE  Packaged(Firmware, spec.secureBoot)
<1>1. plat \in Answers /\ plat # None /\ spec.secureBoot \in BOOLEAN
  BY SpecsAssumption DEF Inv, TypeOK, CreateInv
<1> QED
  BY <1>1, DetectedIsPackaged DEF Firmware

\* The steps that only move the invocation.
LEMMA CreateKeeps == ASSUME Inv, NEW c \in BOOLEAN, Create(c) PROVE Inv'
<1> DEFINE p == IF c /\ memo # <<>> THEN memo[1] ELSE answer
<1>1. p \in Answers
  BY SMT DEF Inv, TypeOK, Answers
<1>2. memo' \in {<<>>} \cup {<<q>> : q \in Answers}
  BY <1>1 DEF Inv, TypeOK, Create
<1>3. TypeOK'
  BY <1>1, <1>2 DEF Inv, TypeOK, Create, dirVars
<1> QED
  BY <1>3 DEF Inv, Create, dirVars, CreateInv, RunningInv, TPMInv, SealInv, DataInv, Firmware

LEMMA StepKeeps ==
  ASSUME Inv, AwaitPidfile \/ PidfileTimeout \/ Interrupt
  PROVE  Inv'
BY SMT DEF Inv, AwaitPidfile, PidfileTimeout, Interrupt, Goto, Finish, dirVars, TypeOK, CreateInv,
       RunningInv, TPMInv, SealInv, DataInv, Firmware

LEMMA EnsureQcow2Keeps == ASSUME Inv, EnsureQcow2 PROVE Inv'
<1>1. \/ UNCHANGED disk
      \/ \E d \in Disks : disk' = [disk EXCEPT ![d] = "blank"]
  BY DEF EnsureQcow2, Attached, Extras, Disks
<1>2. TypeOK'
  BY SMT, <1>1 DEF Inv, TypeOK, EnsureQcow2, Goto, dirVars
<1>3. DataInv'
  BY <1>1 DEF Inv, TypeOK, DataInv, Disks
<1> QED
  BY <1>2, <1>3 DEF Inv, EnsureQcow2, Goto, CreateInv, RunningInv, TPMInv, SealInv, Firmware

LEMMA EnsureSWTPMKeeps == ASSUME Inv, EnsureSWTPM PROVE Inv'
<1>1. vm = None /\ vm' = None
  BY DEF Inv, CreateInv, EnsureSWTPM
<1>2. \/ tpm' = tpm
      \/ tpm' = [tpm EXCEPT !.life = 1, !.proc = "starting", !.twin = tpm.twin \/ tpm.proc # "none"]
  BY DEF EnsureSWTPM
<1>3. TypeOK'
  BY <1>2 DEF Inv, TypeOK, EnsureSWTPM, Goto
<1>4. TPMInv' /\ (tpm.life = 1 => tpm'.life = 1)
  BY <1>1, <1>2 DEF Inv, TypeOK, TPMInv
<1> QED
  BY <1>1, <1>3, <1>4 DEF Inv, EnsureSWTPM, Goto, CreateInv, RunningInv, SealInv, DataInv, Firmware

LEMMA EnsureEFIVarsKeeps == ASSUME Inv, EnsureEFIVars PROVE Inv'
<1>1. CASE Firmware = None \/ Firmware.vars \notin Hosts[host].files
  BY SMT, <1>1 DEF Inv, EnsureEFIVars, Finish, TypeOK, CreateInv, RunningInv, TPMInv, SealInv, DataInv
<1>2. CASE Firmware # None /\ StoreMatches(Firmware.vars) /\ UNCHANGED <<store, intact>> /\ Goto("launch")
  BY SMT, <1>2 DEF Inv, EnsureEFIVars, Goto, StoreMatches, TypeOK, CreateInv, RunningInv, TPMInv, SealInv,
              DataInv, Firmware
<1>3. CASE /\ Firmware # None /\ ~StoreMatches(Firmware.vars)
           /\ store' = TornStore
           /\ intact' = (intact /\ (sealed = None \/ store.size = SizeOf[Firmware.vars]))
           /\ Goto("write")
  <2>1. TornStore \in Stores
    BY DEF TornStore, Stores, Keys
  <2>2. sealed = None \/ ~intact'
    BY <1>3, NoneAssumption DEF Inv, SealInv, StoreMatches
  <2>3. TypeOK'
    BY <1>3, <2>1 DEF Inv, TypeOK, EnsureEFIVars, Goto
  <2> QED
    BY <1>3, <2>1, <2>2, <2>3 DEF Inv, EnsureEFIVars, Goto, CreateInv, RunningInv, TPMInv, SealInv,
                                  DataInv, Firmware
<1> QED
  BY <1>1, <1>2, <1>3 DEF EnsureEFIVars

LEMMA WriteEFIVarsKeeps == ASSUME Inv, WriteEFIVars PROVE Inv'
<1>1. Firmware # None /\ Packaged(Firmware, spec.secureBoot)
  BY FirmwareIsPackaged DEF WriteEFIVars, Inv, CreateInv
<1>2. FreshStore(Firmware.vars) \in Stores /\ FreshStore(Firmware.vars).size = SizeOf[Firmware.vars]
  BY <1>1 DEF FreshStore, Stores, Keys, Packaged
<1>3. TypeOK'
  BY SMT, <1>2 DEF Inv, TypeOK, WriteEFIVars, Goto
<1>4. sealed = None \/ ~intact
  BY DEF Inv, CreateInv, WriteEFIVars
<1> QED
  BY <1>1, <1>2, <1>3, <1>4 DEF Inv, WriteEFIVars, Goto, CreateInv, RunningInv, TPMInv, SealInv,
                                DataInv, Firmware

LEMMA LaunchKeeps == ASSUME Inv, Launch PROVE Inv'
<1>1. Firmware # None /\ Packaged(Firmware, spec.secureBoot)
  BY FirmwareIsPackaged DEF Launch, Inv, CreateInv
<1>2. store \in Stores /\ store.size = StoreOf[Firmware.code]
  BY <1>1 DEF Inv, CreateInv, Launch, Packaged
<1>3. spec \in Specs /\ spec.secureBoot \in BOOLEAN
  BY SpecsAssumption DEF Inv, TypeOK
<1> DEFINE started == [spec |-> spec, code |-> Firmware.code, smm |-> spec.secureBoot, booted |-> "off"]
<1>4. started \in VMs
  BY <1>1, <1>3 DEF VMs, Packaged
<1>5. TypeOK'
  BY <1>4 DEF Inv, TypeOK, Launch, Finish, dirVars
<1>6. RunningInv'
  BY <1>1, <1>2 DEF Launch, RunningInv, Packaged, dirVars
<1>7. TPMInv'
  BY DEF Inv, TPMInv, Launch, dirVars
<1> QED
  BY <1>5, <1>6, <1>7 DEF Inv, Launch, Finish, dirVars, CreateInv, SealInv, DataInv

\* The firmware finds a device to boot, and none that comes before it boots.
LEMMA BootOrder ==
  ASSUME NEW s
  PROVE  /\ FirstBootable(s) \in BootDevices(s)
         /\ Bootable(FirstBootable(s))
         /\ \A e \in BootDevices(s) : Bootable(e) => BootIndex(FirstBootable(s)) <= BootIndex(e)
<1> DEFINE indices == {BootIndex(d) : d \in {e \in BootDevices(s) : Bootable(e)}}
<1>1. \A d \in BootDevices(s) : BootIndex(d) \in Nat
  BY DEF BootDevices, Attached, Extras, BootIndex
<1>2. "iso" \in BootDevices(s) /\ Bootable("iso")
  BY DEF BootDevices, Bootable
<1>3. indices \in SUBSET Nat /\ indices # {}
  BY <1>1, <1>2
<1>4. PICK x \in indices : \A y \in indices : x <= y
  BY <1>3, Least
<1>5. PICK d \in BootDevices(s) : Bootable(d) /\ x = BootIndex(d)
  BY <1>4
<1>6. \A e \in BootDevices(s) : Bootable(e) => BootIndex(d) <= BootIndex(e)
  BY <1>4, <1>5
<1> QED
  BY <1>5, <1>6 DEF FirstBootable

LEMMA GuestBootsKeeps == ASSUME Inv, GuestBoots PROVE Inv'
<1> DEFINE d == FirstBootable(vm.spec)
           stuck == \/ Secured /\ (~vm.smm \/ store.keys = "vendor")
                    \/ d = "iso" /\ Images[vm.spec.image].is.arch # archFor(Hosts[host].goarch).imageArch
<1>1. vm \in VMs /\ store \in Stores /\ vm.smm = Secured /\ pc = "idle"
  BY DEF GuestBoots, Inv, TypeOK, RunningInv, CreateInv, Secured
<1>2. d \in Disks \cup {"iso"}
  BY BootOrder DEF BootDevices, Attached, Extras, Disks
<1> HIDE DEF d
<1>3. /\ vm' = [vm EXCEPT !.booted = IF stuck THEN "stuck" ELSE d]
      /\ store' = IF ~stuck /\ d = "iso" /\ Secured /\ store.keys = "none"
                    THEN [store EXCEPT !.keys = "ours"] ELSE store
  BY DEF GuestBoots, d
<1>4. /\ vm' \in VMs /\ vm'.spec = vm.spec /\ vm'.code = vm.code /\ vm'.smm = vm.smm
      /\ vm'.booted = IF stuck THEN "stuck" ELSE d
  BY <1>1, <1>2, <1>3 DEF VMs
<1>5. /\ store' \in Stores /\ store'.size = store.size
      /\ store.keys = "ours" => store'.keys = "ours"
  BY <1>1, <1>3 DEF Stores, Keys
<1>6. vm'.booted = "iso" /\ vm.smm => store'.keys = "ours"
  <2> SUFFICES ASSUME vm'.booted = "iso", vm.smm PROVE store'.keys = "ours"
    OBVIOUS
  <2>1. ~stuck /\ d = "iso"
    BY <1>4
  <2>2. store.keys \in {"none", "ours"}
    BY <1>1, <2>1 DEF Stores, Keys
  <2> QED
    BY <1>1, <1>3, <2>1, <2>2 DEF Stores
<1> HIDE DEF stuck
<1>7. TypeOK'
  BY SMT, <1>4, <1>5 DEF Inv, TypeOK, GuestBoots
<1>8. RunningInv'
  BY <1>4, <1>5, <1>6 DEF Inv, RunningInv, GuestBoots
<1>9. TPMInv'
  BY <1>4 DEF Inv, TPMInv, GuestBoots
<1>10. SealInv'
  BY <1>5 DEF Inv, SealInv, GuestBoots
<1> QED
  BY <1>1, <1>7, <1>8, <1>9, <1>10 DEF Inv, CreateInv, DataInv, GuestBoots

LEMMA GuestInstallsKeeps == ASSUME Inv, GuestInstalls PROVE Inv'
<1>1. vm \in VMs /\ store \in Stores /\ vm.smm = Secured /\ vm.smm = vm.spec.secureBoot /\ pc = "idle"
  BY DEF GuestInstalls, Inv, TypeOK, RunningInv, CreateInv, Secured
<1>2. vm' \in VMs /\ vm'.spec = vm.spec /\ vm'.code = vm.code /\ vm'.smm = vm.smm /\ vm'.booted = "off"
  BY <1>1 DEF GuestInstalls, VMs
<1>3. store' \in Stores /\ store'.size = store.size /\ store'.keys = store.keys
  BY <1>1 DEF GuestInstalls, Stores
<1>4. disk' \in [Disks -> {"absent", "blank", "bootable"}] /\ disk'["data"] = disk["data"]
  BY DEF GuestInstalls, Inv, TypeOK, InstallTarget, Extras, Disks
<1>5. PCR7 = (IF vm.spec.secureBoot THEN store.keys ELSE "off") /\ (vm.smm => store.keys = "ours")
  BY <1>1 DEF PCR7, Inv, RunningInv, GuestInstalls
<1>6. sealed' # None =>
        /\ vm.spec.tpm
        /\ sealed' = [life |-> tpm.life, pcr |-> PCR7, secureBoot |-> vm.spec.secureBoot]
  BY DEF GuestInstalls
<1>7. sealed' # None => tpm.life = 1 /\ sealed' \in Seals
  BY <1>1, <1>5, <1>6 DEF Inv, TPMInv, VMs, Seals, Stores, GuestInstalls
<1>8. SealInv'
  BY <1>1, <1>3, <1>5, <1>6, <1>7 DEF SealInv, GuestInstalls
<1>9. TypeOK'
  BY SMT, <1>2, <1>3, <1>4, <1>7 DEF Inv, TypeOK, GuestInstalls
<1>10. RunningInv' /\ TPMInv'
  BY <1>2, <1>3 DEF Inv, RunningInv, TPMInv, GuestInstalls
<1> QED
  BY <1>1, <1>4, <1>8, <1>9, <1>10 DEF Inv, CreateInv, DataInv, GuestInstalls

LEMMA GuestRebootsKeeps == ASSUME Inv, GuestReboots PROVE Inv'
<1>1. vm \in VMs /\ pc = "idle"
  BY DEF GuestReboots, Inv, TypeOK, CreateInv
<1>2. vm' \in VMs /\ vm'.spec = vm.spec /\ vm'.code = vm.code /\ vm'.smm = vm.smm /\ vm'.booted = "off"
  BY <1>1 DEF GuestReboots, VMs
<1> QED
  BY SMT, <1>1, <1>2 DEF Inv, TypeOK, CreateInv, RunningInv, TPMInv, SealInv, DataInv, GuestReboots, dirVars

\* The swtpm comes and goes; its state stays.
LEMMA TPMKeeps == ASSUME Inv, SwtpmWritesPidfile \/ SwtpmDies PROVE Inv'
<1>1. tpm' \in {[tpm EXCEPT !.proc = "serving", !.pid = "live"], NoProcess(tpm)}
  BY DEF SwtpmWritesPidfile, SwtpmDies
<1>2. /\ tpm' \in [life : {0, 1}, proc : {"none", "starting", "serving"},
                   pid : {"none", "live", "stale"}, twin : BOOLEAN, stray : BOOLEAN]
      /\ tpm'.life = tpm.life
      /\ tpm'.proc = "serving" => tpm'.pid = "live" /\ tpm.proc = "starting"
      /\ tpm'.proc \in {"none", "serving"}
  BY <1>1 DEF Inv, TypeOK, NoProcess, SwtpmWritesPidfile, SwtpmDies
<1> QED
  BY SMT, <1>2 DEF Inv, TypeOK, CreateInv, RunningInv, TPMInv, SealInv, DataInv, Firmware,
              SwtpmWritesPidfile, SwtpmDies

\* What destroy leaves of the swtpm and its pidfile, finished or not.
LEMMA DestroyedTPM ==
  ASSUME Inv, Destroy \/ DestroyStops
  PROVE  /\ tpm' \in [life : {0, 1}, proc : {"none", "starting", "serving"},
                      pid : {"none", "live", "stale"}, twin : BOOLEAN, stray : BOOLEAN]
         /\ tpm'.proc # "none" => tpm'.proc = "starting" /\ tpm'.life = 1
         /\ tpm'.twin => tpm.twin
         /\ tpm'.stray => tpm.stray \/ tpm.twin \/ tpm.proc = "starting"
<1> DEFINE T == [life : {0, 1}, proc : {"none", "starting", "serving"},
                 pid : {"none", "live", "stale"}, twin : BOOLEAN, stray : BOOLEAN]
           Left(t) == /\ t \in T
                      /\ t.proc # "none" => t.proc = "starting" /\ t.life = 1
                      /\ t.twin => tpm.twin
                      /\ t.stray => tpm.stray \/ tpm.twin \/ tpm.proc = "starting"
<1>1. tpm \in T /\ (tpm.proc # "none" => tpm.life = 1) /\ (tpm.proc = "serving" => tpm.pid = "live")
  BY DEF Inv, TypeOK, TPMInv
<1>2. Left(Swept)
  BY <1>1 DEF Swept, NoTPM
<1>3. Left(Signalled)
  <2>1. CASE tpm.pid = "live"
    BY <1>1, <2>1 DEF Signalled, NoProcess
  <2>2. CASE tpm.pid # "live"
    BY <1>1, <2>2 DEF Signalled
  <2> QED
    BY <2>1, <2>2
<1>4. \A t, p : Left(t) /\ p \in {"none", "live", "stale"} => Left([t EXCEPT !.pid = p])
  OBVIOUS
<1>5. tpm' = Swept \/ \E t \in {Signalled, Swept}, p \in {Signalled.pid, "none"} :
                         tpm' = [t EXCEPT !.pid = p]
  BY DEF Destroy, DestroyStops
<1>6. Left(tpm')
  BY <1>2, <1>3, <1>4, <1>5
<1> QED
  BY <1>6

\* A sealed disk that a destroy leaves keeps its seal, and what it is sealed to
\* unless one of the two went.
LEMMA DestroyStopsKeeps == ASSUME Inv, DestroyStops PROVE Inv'
<1>1. /\ disk' \in [Disks -> {"absent", "blank", "bootable"}]
      /\ disk'["data"] # "bootable"
  BY DEF DestroyStops, Inv, TypeOK, DataInv, Disks
<1>2. store' \in {store, None} /\ vm' = None /\ pc = "idle"
  BY DEF DestroyStops
<1>3. \/ sealed' = sealed /\ intact' = (intact /\ store' = store /\ tpm'.life = tpm.life)
      \/ sealed' = None /\ intact' = TRUE
  BY DEF DestroyStops
<1>4. sealed' \in {None} \cup Seals /\ intact' \in BOOLEAN
  BY <1>3 DEF Inv, TypeOK
<1>5. TypeOK'
  <2>1. /\ UNCHANGED <<host, answer, spec, memo, pc, plat>>
        /\ store' \in {None} \cup Stores /\ vm' \in {None} \cup VMs
    BY <1>2 DEF DestroyStops, Inv, TypeOK
  <2>2. tpm' \in [life : {0, 1}, proc : {"none", "starting", "serving"},
                  pid : {"none", "live", "stale"}, twin : BOOLEAN, stray : BOOLEAN]
    BY DestroyedTPM
  <2> QED
    BY SMT, <1>1, <1>4, <2>1, <2>2 DEF Inv, TypeOK
<1>6. SealInv'
  BY <1>3 DEF Inv, SealInv
<1>7. TPMInv'
  BY <1>2, DestroyedTPM DEF TPMInv
<1> QED
  BY <1>1, <1>2, <1>5, <1>6, <1>7 DEF DestroyStops, Inv, CreateInv, RunningInv, DataInv

LEMMA EnvironmentKeeps ==
  ASSUME Inv, VMStops \/ HostReboots \/ HostChanges \/ ControllerRestarts \/ EditSpec \/ Destroy
  PROVE  Inv'
<1>1. CASE VMStops
  BY SMT, <1>1 DEF Inv, VMStops, dirVars, TypeOK, CreateInv, RunningInv, TPMInv, SealInv, DataInv, Firmware
<1>2. CASE HostReboots
  <2>1. /\ tpm' \in [life : {0, 1}, proc : {"none", "starting", "serving"},
                     pid : {"none", "live", "stale"}, twin : BOOLEAN, stray : BOOLEAN]
        /\ tpm'.life = tpm.life /\ tpm'.proc = "none"
    BY <1>2 DEF Inv, TypeOK, HostReboots, NoProcess
  <2> QED
    BY <1>2, <2>1 DEF Inv, HostReboots, Finish, TypeOK, CreateInv, RunningInv, TPMInv, SealInv, DataInv
<1>3. CASE HostChanges
  <2>1. host' \in DOMAIN Hosts /\ answer' = Detected(host')
    BY <1>3 DEF HostChanges
  <2> QED
    BY SMT, <1>3, <2>1 DEF Inv, HostChanges, dirVars, TypeOK, CreateInv, RunningInv, TPMInv, SealInv,
                      DataInv, Firmware
<1>4. CASE ControllerRestarts
  BY SMT, <1>4 DEF Inv, ControllerRestarts, dirVars, TypeOK, CreateInv, RunningInv, TPMInv, SealInv,
              DataInv, Firmware
<1>5. CASE EditSpec
  BY SMT, <1>5 DEF Inv, EditSpec, dirVars, TypeOK, CreateInv, RunningInv, TPMInv, SealInv, DataInv
<1>6. CASE Destroy
  BY <1>6 DEF Inv, Destroy, TypeOK, CreateInv, RunningInv, TPMInv, SealInv, DataInv, NoTPM, Swept, Disks
<1> QED
  BY <1>1, <1>2, <1>3, <1>4, <1>5, <1>6

LEMMA NextInv == Inv /\ [Next]_vars => Inv'
<1> SUFFICES ASSUME Inv, [Next]_vars PROVE Inv'
  OBVIOUS
<1>1. CASE \E c \in BOOLEAN : Create(c)
  BY <1>1, CreateKeeps
<1>2. CASE CreateStep
  BY <1>2, StepKeeps, EnsureQcow2Keeps, EnsureSWTPMKeeps, EnsureEFIVarsKeeps, WriteEFIVarsKeeps,
     LaunchKeeps DEF CreateStep
<1>3. CASE Guest
  BY <1>3, TPMKeeps, GuestBootsKeeps, GuestInstallsKeeps, GuestRebootsKeeps DEF Guest
<1>4. CASE Environment
  BY <1>4, StepKeeps, TPMKeeps, EnvironmentKeeps, DestroyStopsKeeps DEF Environment
<1>5. CASE UNCHANGED vars
  BY SMT, <1>5 DEF vars, dirVars, Inv, TypeOK, CreateInv, RunningInv, TPMInv, SealInv, DataInv, Firmware
<1> QED
  BY <1>1, <1>2, <1>3, <1>4, <1>5 DEF Next

-----------------------------------------------------------------------------
(* The theorems. *)

\* The inductive invariant of create on a changing host: what a create has
\* found out holds until it launches, and what a guest relies on holds while it
\* runs (main.go: create, ensureEFIVars, ensureSWTPM).
THEOREM BootInvariant == Spec => []Inv
BY InitInv, NextInv, PTL DEF Spec

\* Whatever is installed, removed, killed or edited, qemu runs with smm=on
\* exactly for firmware that needs it and beside a store of the size it works
\* with (main.go: ensureEFIVars, buildQEMUArgs; firmware.go: suitable).
THEOREM FirmwareAlwaysFits == Spec => []FirmwareFits
<1>1. Inv => FirmwareFits
  BY DEF Inv, RunningInv, FirmwareFits
<1> QED
  BY <1>1, BootInvariant, PTL

\* A create that has looked at the host works with the firmware that the
\* registry has for it, were the aliases resolved as qemu does: a descriptor of
\* a removed package, one that is masked and one that does not parse cost only
\* themselves (firmware.go: resolveFirmware, scanRegistry, machineMatches).
THEOREM FirmwareIsFound == Spec => []FirmwareFound
<1>1. Inv => FirmwareFound
  <2> SUFFICES ASSUME Inv, pc = "disks", plat = answer
               PROVE  /\ Reference(Hosts[host], FALSE) \in {None, plat.firmware}
                      /\ Reference(Hosts[host], TRUE) \in {None, plat.secure}
    BY DEF FirmwareFound
  <2>1. host \in DOMAIN Hosts /\ plat = Detected(host) /\ plat # None
    BY DEF Inv, TypeOK, CreateInv
  <2>2. /\ archFor(Hosts[host].goarch) # None
        /\ plat = [firmware |-> resolveFirmware(Hosts[host], fallbackTable, FALSE),
                   secure |-> resolveFirmware(Hosts[host], secureFallbackTable, TRUE)]
    BY <2>1 DEF Detected, Detect
  <2>3. /\ Reference(Hosts[host], FALSE)
             \in {None, resolveFirmware(Hosts[host], fallbackTable, FALSE)}
        /\ Reference(Hosts[host], TRUE)
             \in {None, resolveFirmware(Hosts[host], secureFallbackTable, TRUE)}
    BY <2>1, <2>2, ResolvedIsReference
  <2>4. /\ plat.firmware = resolveFirmware(Hosts[host], fallbackTable, FALSE)
        /\ plat.secure = resolveFirmware(Hosts[host], secureFallbackTable, TRUE)
    BY <2>2
  <2> QED
    BY <2>3, <2>4
<1> QED
  BY <1>1, BootInvariant, PTL

\* A guest that has sealed its disk finds the TPM state and the SecureBoot state
\* it was sealed to, on every boot (main.go: ensureSWTPM, ensureEFIVars), unless a
\* template of another size or a destroy that stopped part-way took it.
THEOREM SealedDisksOpen == Spec => []SealedOpens
<1>1. Inv => SealedOpens
  <2> SUFFICES ASSUME Inv, vm # None, sealed # None, intact, vm.spec.tpm,
                      vm.spec.secureBoot = sealed.secureBoot
               PROVE  tpm.life = sealed.life /\ PCR7 = sealed.pcr
    BY DEF SealedOpens
  <2>1. tpm.life = sealed.life
    BY DEF Inv, SealInv
  <2>2. Secured = sealed.secureBoot /\ sealed.secureBoot \in BOOLEAN
    BY DEF Inv, TypeOK, Seals, RunningInv, Secured
  <2>3. PCR7 = sealed.pcr
    BY <2>2 DEF Inv, SealInv, PCR7
  <2> QED
    BY <2>1, <2>3
<1> QED
  BY <1>1, BootInvariant, PTL

\* No step takes an installed system off a disk but destroy, and none drops the
\* guest's boot entries but destroy and a template of another size (main.go:
\* ensureQcow2, ensureEFIVars).
THEOREM GuestStateStays == Spec => GuestStateKept
<1> DEFINE Kept == \/ Destroy \/ DestroyStops
                   \/ /\ \A d \in Disks : disk[d] = "bootable" => disk'[d] = "bootable"
                      /\ store # None /\ store.entries =>
                           \/ store' # None /\ store'.entries
                           \/ store.size # SizeOf[Firmware.vars]
<1>1. ASSUME Inv, [Next]_vars
      PROVE  Kept
  <2> SUFFICES ASSUME ~Destroy, ~DestroyStops
               PROVE  Kept
    OBVIOUS
  <2>1. \A d \in Disks : disk[d] = "bootable" => disk'[d] = "bootable"
    <3>1. CASE UNCHANGED disk
      BY <3>1
    <3>2. CASE EnsureQcow2
      <4>1. UNCHANGED disk \/ \E e \in Disks : disk[e] = "absent" /\ disk' = [disk EXCEPT ![e] = "blank"]
        BY <3>2 DEF EnsureQcow2, Attached, Extras, Disks
      <4> QED
        BY <4>1, <1>1 DEF Inv, TypeOK
    <3>3. CASE GuestInstalls
      BY <3>3 DEF GuestInstalls
    <3> QED
      BY <1>1, <3>1, <3>2, <3>3
      DEF Next, Create, CreateStep, Guest, Environment, EnsureSWTPM, AwaitPidfile, PidfileTimeout,
          EnsureEFIVars, WriteEFIVars, Launch, SwtpmWritesPidfile, GuestBoots, GuestReboots, Interrupt,
          VMStops, SwtpmDies, HostReboots, HostChanges, ControllerRestarts, EditSpec, dirVars, vars
  <2>2. store # None /\ store.entries =>
          \/ store' # None /\ store'.entries
          \/ store.size # SizeOf[Firmware.vars]
    <3>1. CASE UNCHANGED store
      BY <3>1
    <3>2. CASE EnsureEFIVars
      BY <3>2 DEF EnsureEFIVars, StoreMatches
    <3>3. CASE WriteEFIVars
      BY <1>1, <3>3 DEF WriteEFIVars, Inv, CreateInv, TornStore
    <3>4. CASE GuestBoots \/ GuestInstalls
      <4>1. store' \in {store, [store EXCEPT !.keys = "ours"], [store EXCEPT !.entries = TRUE]}
        BY <3>4 DEF GuestBoots, GuestInstalls
      <4>2. store \in Stores
        BY <1>1, <3>4 DEF GuestBoots, GuestInstalls, Inv, RunningInv
      <4>3. store' \in Stores /\ (store.entries => store'.entries)
        BY <4>1, <4>2 DEF Stores, Keys
      <4> QED
        BY <4>3, NoneAssumption
    <3> QED
      BY <1>1, <3>1, <3>2, <3>3, <3>4
      DEF Next, Create, CreateStep, Guest, Environment, EnsureQcow2, EnsureSWTPM, AwaitPidfile,
          PidfileTimeout, Launch, SwtpmWritesPidfile, GuestReboots, Interrupt,
          VMStops, SwtpmDies, HostReboots, HostChanges, ControllerRestarts, EditSpec, dirVars, vars
  <2> QED
    BY <2>1, <2>2
<1>2. Inv /\ [Next]_vars => [Kept]_vars
  BY <1>1
<1> HIDE DEF Kept
<1>3. Spec => [][Kept]_vars
  BY <1>2, BootInvariant, PTL DEF Spec
<1> QED
  BY <1>3 DEF Kept, GuestStateKept

\* A swtpm gets out of tinq's hands only in the moment before it has written its
\* pidfile (main.go: ensureSWTPM, destroy).
THEOREM VTPMStaysInHand == Spec => VTPMInHand
<1> DEFINE InHand == (tpm'.twin /\ ~tpm.twin) \/ (tpm'.stray /\ ~tpm.stray)
                       => tpm.proc = "starting" \/ tpm.twin
<1>1. ASSUME Inv, [Next]_vars
      PROVE  InHand
  <2>1. CASE UNCHANGED tpm
    BY <2>1
  <2>2. CASE EnsureSWTPM
    BY <1>1, <2>2 DEF EnsureSWTPM, HasSWTPM, Inv, TypeOK, TPMInv
  <2>3. CASE SwtpmWritesPidfile \/ SwtpmDies \/ HostReboots
    BY <1>1, <2>3 DEF SwtpmWritesPidfile, SwtpmDies, HostReboots, NoProcess, Inv, TypeOK
  <2>4. CASE Destroy \/ DestroyStops
    BY <1>1, <2>4, DestroyedTPM
  <2> QED
    BY <1>1, <2>1, <2>2, <2>3, <2>4
    DEF Next, Create, CreateStep, Guest, Environment, EnsureQcow2, AwaitPidfile, PidfileTimeout,
        EnsureEFIVars, WriteEFIVars, Launch, GuestBoots, GuestInstalls, GuestReboots, Interrupt,
        VMStops, HostChanges, ControllerRestarts, EditSpec, dirVars, vars
<1>2. Inv /\ [Next]_vars => [InHand]_vars
  BY <1>1
<1> HIDE DEF InHand
<1>3. Spec => [][InHand]_vars
  BY <1>2, BootInvariant, PTL DEF Spec
<1> QED
  BY <1>3 DEF InHand, VTPMInHand

\* The install media boots only when no disk of the VM does (main.go:
\* buildQEMUArgs, the boot indices).
THEOREM MediaComesLast == Spec => MediaLast
<1> DEFINE OnlyMedia == vm # None /\ vm' # None /\ vm.booted = "off" /\ vm'.booted = "iso"
                     => \A d \in Attached(vm.spec) : disk[d] # "bootable"
<1>1. ASSUME Inv, [Next]_vars
      PROVE  OnlyMedia
  <2>1. CASE UNCHANGED vm \/ vm = None \/ vm' = None
    BY <2>1
  <2>2. CASE GuestBoots
    <3> SUFFICES ASSUME vm'.booted = "iso", NEW d \in Attached(vm.spec), disk[d] = "bootable"
                 PROVE  FALSE
      OBVIOUS
    <3>1. vm \in VMs
      BY <1>1, <2>2 DEF GuestBoots, Inv, TypeOK
    <3>2. FirstBootable(vm.spec) = "iso"
      BY <2>2, <3>1 DEF GuestBoots, VMs
    <3>3. d \in BootDevices(vm.spec) /\ Bootable(d)
      BY <1>1 DEF BootDevices, Attached, Bootable, Inv, DataInv
    <3>4. BootIndex("iso") <= BootIndex(d)
      BY <3>2, <3>3, BootOrder
    <3>5. d \in {"system", "extra0", "extra1"}
      BY <1>1 DEF Attached, Extras, Inv, DataInv
    <3> QED
      BY <3>4, <3>5, SMT DEF BootIndex
  <2>3. CASE GuestInstalls \/ GuestReboots
    BY <1>1, <2>3 DEF GuestInstalls, GuestReboots, Inv, TypeOK, VMs
  <2>4. CASE Launch
    BY <1>1, <2>4 DEF Launch, Inv, CreateInv
  <2> QED
    BY <1>1, <2>1, <2>2, <2>3, <2>4
    DEF Next, Create, CreateStep, Guest, Environment, EnsureQcow2, EnsureSWTPM, AwaitPidfile,
        PidfileTimeout, EnsureEFIVars, WriteEFIVars, SwtpmWritesPidfile, Interrupt, VMStops,
        SwtpmDies, HostReboots, HostChanges, ControllerRestarts, EditSpec, Destroy, DestroyStops, dirVars, vars
<1>2. Inv /\ [Next]_vars => [OnlyMedia]_vars
  BY <1>1
<1> HIDE DEF OnlyMedia
<1>3. Spec => [][OnlyMedia]_vars
  BY <1>2, BootInvariant, PTL DEF Spec
<1> QED
  BY <1>3 DEF OnlyMedia, MediaLast
=============================================================================
