------------------------------ MODULE Platform ------------------------------
(****************************************************************************)
(* The platform package: what a qemu command line needs to know about the    *)
(* host it runs on (platform.go, accel.go, firmware.go), and what can be     *)
(* told about a boot image without booting it (image.go).                    *)
(*                                                                          *)
(* Everything here is a function of the host's files.  A host is a record:   *)
(*   os, goarch     as Go names them                                         *)
(*   accels         what `qemu -accel help' lists, None when the binary is   *)
(*                  missing or does not answer in time                       *)
(*   kvm            "ok", "missing" or "noperm": opening /dev/kvm            *)
(*   registry       the descriptor directories in decreasing priority, each  *)
(*                  a function from basenames (numbers, sorted as the names  *)
(*                  are) to descriptors; None stands for a file that does    *)
(*                  not parse                                                *)
(*   files          the firmware files that are installed                    *)
(* Names are abstract: a machine type is the sequence of its dash-separated  *)
(* words, and a descriptor's machine pattern such a sequence that may end in *)
(* "-*".                                                                     *)
(****************************************************************************)
EXTENDS Integers, Sequences, SequencesExt, FiniteSets

CONSTANT None   \* no answer: an error or the empty string in the code

-----------------------------------------------------------------------------
(* Architecture and accelerator. *)

archFor(goarch) ==
    CASE goarch = "amd64" -> [machine |-> <<"q35">>, fwArch |-> "x86_64", imageArch |-> "amd64"]
      [] goarch = "arm64" -> [machine |-> <<"virt">>, fwArch |-> "aarch64", imageArch |-> "arm64"]
      [] OTHER -> None

accelFor(goos) ==
    CASE goos = "linux" -> "kvm" [] goos = "darwin" -> "hvf" [] OTHER -> None

\* What the qemu binary was built with.
Compiled(host) == host.accels # None /\ accelFor(host.os) \in host.accels

\* diagnoseKVM is asked on linux alone: HVF has no device to open.
Usable(host) == host.os = "linux" => host.kvm = "ok"

-----------------------------------------------------------------------------
(* Firmware. *)

\* filepath.Match, on the patterns that descriptors use.
Glob(pattern, machine) ==
    IF pattern.glob THEN /\ Len(pattern.stem) < Len(machine)
                         /\ IsPrefix(pattern.stem, machine)
                    ELSE pattern.stem = machine

\* filepath.Match, or else the alias that is the tail of the pattern's stem:
\* q35 for pc-q35-*.
machineMatches(pattern, machine) ==
    \/ Glob(pattern, machine)
    \/ pattern.glob /\ IsSuffix(machine, pattern.stem)

matchesTarget(d, fwArch, machine) ==
    \E t \in d.targets : /\ t.arch = fwArch
                         /\ \E p \in t.machines : machineMatches(p, machine)

suitable(d, fwArch, machine, secureBoot) ==
    /\ d.device = "flash" /\ d.code # None /\ d.vars # None
    /\ d.uefi
    /\ IF secureBoot THEN "secure-boot" \in d.features
                     ELSE d.features \cap {"requires-smm", "secure-boot"} = {}
    /\ matchesTarget(d, fwArch, machine)

\* The file that a basename stands for: the one in the earliest directory.
WinningFile(dirs, name) ==
    dirs[CHOOSE i \in DOMAIN dirs :
            /\ name \in DOMAIN dirs[i]
            /\ \A j \in DOMAIN dirs : j < i => name \notin DOMAIN dirs[j]][name]

Pair(d) == [code |-> d.code, vars |-> d.vars]

\* The suitable pairs by basename, which is the order they are tried in.
scanRegistry(dirs, fwArch, machine, secureBoot) ==
    LET names == UNION {DOMAIN dirs[i] : i \in DOMAIN dirs}
        fits == {n \in names : LET d == WinningFile(dirs, n)
                               IN  d # None /\ suitable(d, fwArch, machine, secureBoot)}
    IN  [n \in fits |-> Pair(WinningFile(dirs, n))]

Installed(pair, files) == pair.code \in files /\ pair.vars \in files

\* The first pair of the registry that is installed, or else of the table.
resolveFirmware(host, table, secureBoot) ==
    LET arch == archFor(host.goarch)
        pairs == scanRegistry(host.registry, arch.fwArch, arch.machine, secureBoot)
        rows == table[arch.fwArch]
        live == {n \in DOMAIN pairs : Installed(pairs[n], host.files)}
        fixed == {i \in DOMAIN rows : Installed(rows[i], host.files)}
    IN  IF live # {} THEN pairs[Min(live)]
        ELSE IF fixed # {} THEN rows[Min(fixed)]
        ELSE None

\* Detect.  Plain firmware must be there, secure-boot firmware need not.
Detect(host, fallbackTable, secureFallbackTable) ==
    IF \/ archFor(host.goarch) = None
       \/ accelFor(host.os) = None
       \/ ~Compiled(host) \/ ~Usable(host)
       \/ resolveFirmware(host, fallbackTable, FALSE) = None
    THEN None
    ELSE [firmware |-> resolveFirmware(host, fallbackTable, FALSE),
          secure |-> resolveFirmware(host, secureFallbackTable, TRUE)]

-----------------------------------------------------------------------------
(* Boot images.  An image is what its bytes spell out where the code looks:  *)
(*   sector         the sixteenth sector: "short" when the file ends in it,  *)
(*                  "primary" or "other" for a volume descriptor, "raw" else *)
(*   talos, parts   the volume identifier: whether it starts with TALOS_V,   *)
(*                  and its components after that, each with its kind        *)
(*                  ("digits", "upper", "empty", "mixed"), text and lower    *)
(*                  case text                                                *)
(*   root           the directory that the root record points at             *)
(* A directory is None when it is too long to be read or runs past the file, *)
(* else the sequence of its records.  A record is None for the zero padding  *)
(* that ends a sector, or a name and what the record points at.              *)

\* The first record with one of these names, before the first padding.
findChild(dir, names) ==
    IF dir = None THEN None
    ELSE LET hits == {i \in DOMAIN dir : /\ \A j \in 1..i : dir[j] # None
                                         /\ dir[i].name \in names}
         IN  IF hits = {} THEN None ELSE dir[Min(hits)].target

\* The names that begin with VMLINUZ, with and without a version suffix.
KernelNames == {"VMLINUZ", "VMLINUZ.;1"}

\* The machine word of the kernel at /BOOT/VMLINUZ, None for one that is
\* neither amd64 nor arm64 (peMachine answers 0 for a file that is not a PE).
InspectImageArch(image) ==
    IF image.sector # "primary" THEN None
    ELSE findChild(findChild(image.root, {"BOOT"}), KernelNames)

\* v<1>.<2>.<3>, and -<channel>.<5> for a pre-release.
InspectImageVersion(image) ==
    IF \/ image.sector # "primary"
       \/ ~image.talos
       \/ Len(image.parts) \notin {3, 5}
       \/ \E i \in DOMAIN image.parts :
              image.parts[i].kind # (IF i = 4 THEN "upper" ELSE "digits")
    THEN None
    ELSE [i \in DOMAIN image.parts |->
             IF i = 4 THEN image.parts[i].lower ELSE image.parts[i].text]
=============================================================================
