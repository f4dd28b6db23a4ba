------------------------------- MODULE MCBoot -------------------------------
(* Boot on an x86_64 Linux host whose packages come and go, with the files    *)
(* of one distribution, and on hosts that other answers of Detect are for.    *)
EXTENDS Boot, TLC

Q35 == {[stem |-> <<"pc", "q35">>, glob |-> TRUE]}
Virt == {[stem |-> <<"virt">>, glob |-> TRUE]}

Descriptor(arch, machines, code, template, features) ==
    [device |-> "flash", uefi |-> TRUE, code |-> code, vars |-> template,
     targets |-> {[arch |-> arch, machines |-> machines]}, features |-> features]

Enrolled == Descriptor("x86_64", Q35, "secboot4m", "enrolled4m",
                       {"secure-boot", "requires-smm", "enrolled-keys"})
Secure == Descriptor("x86_64", Q35, "secboot4m", "vars4m", {"secure-boot", "requires-smm"})
Plain == Descriptor("x86_64", Q35, "code4m", "vars4m", {})
Small == Descriptor("x86_64", Q35, "code2m", "vars2m", {})
Arm == Descriptor("aarch64", Virt, "armcode", "armvars", {})

\* The distribution's registry: secure firmware sorts before plain firmware.
Distribution == (40 :> Secure) @@ (50 :> Plain) @@ (60 :> Arm) @@ (70 :> Small)
Nothing == [n \in {} |-> None]

AllFiles == {"secboot4m", "enrolled4m", "vars4m", "code4m", "code2m", "secboot2m",
             "vars2m", "armcode", "armvars"}
MCSizeOf == [v \in {"vars4m", "enrolled4m", "vars2m", "armvars"} |->
                CASE v = "vars2m" -> 2 [] v = "armvars" -> 64 [] OTHER -> 4]
MCStoreOf == [c \in {"secboot4m", "code4m", "code2m", "secboot2m", "armcode"} |->
                 CASE c \in {"code2m", "secboot2m"} -> 2 [] c = "armcode" -> 64 [] OTHER -> 4]
MCTable == [x86_64 |-> <<[code |-> "code2m", vars |-> "vars2m"]>>,
            aarch64 |-> <<[code |-> "armcode", vars |-> "armvars"]>>]
MCSecureTable == [x86_64 |-> <<[code |-> "secboot2m", vars |-> "vars2m"]>>, aarch64 |-> <<>>]

Linux(registry, files) ==
    [os |-> "linux", goarch |-> "amd64", accels |-> {"tcg", "kvm"}, kvm |-> "ok",
     registry |-> registry, files |-> files]

Current == Linux(<<Nothing, Distribution>>, AllFiles)
\* The 4M package is removed and its descriptors stay behind.
Rotted == Linux(<<Nothing, Distribution>>, {"code2m", "secboot2m", "vars2m", "armcode", "armvars"})
\* An administrator masks the plain descriptor with a file that does not parse.
Masked == Linux(<<50 :> None, Distribution>>, AllFiles)
NoKVM == [Current EXCEPT !.kvm = "noperm"]
Preenrolled == Linux(<<Nothing, (30 :> Enrolled) @@ Distribution>>, AllFiles)
Bare == Linux(<<Nothing, Nothing>>, AllFiles)
OldBuild == [Current EXCEPT !.accels = {"tcg"}]
Mac == [os |-> "darwin", goarch |-> "arm64", accels |-> {"hvf"}, kvm |-> "missing",
        registry |-> <<60 :> Arm>>, files |-> {"armcode", "armvars"}]
Other == [Mac EXCEPT !.os = "freebsd"]

Digits(n) == [kind |-> "digits", text |-> n, lower |-> n]
Word(w, l) == [kind |-> "upper", text |-> w, lower |-> l]
Record(name, target) == [name |-> name, target |-> target]
Kernel(a) == <<Record("GRUB", None), Record("VMLINUZ", a)>>
Root(a) == <<Record("EFI", None), Record("BOOT", Kernel(a))>>
Iso(a, parts) ==
    [is |-> [arch |-> a], sector |-> "primary", talos |-> TRUE, parts |-> parts, root |-> Root(a)]

Release == Iso("amd64", <<Digits("1"), Digits("13"), Digits("7")>>)
Beta == Iso("amd64", <<Digits("1"), Digits("14"), Digits("0"), Word("BETA", "beta"), Digits("1")>>)
ArmRelease == Iso("arm64", <<Digits("1"), Digits("13"), Digits("7")>>)
\* An alpha build names its channel and no number.
Alpha == Iso("amd64", <<Digits("1"), Digits("14"), Digits("0"), Word("ALPHA", "alpha")>>)
\* A boot record before the primary descriptor: what is read at the places of
\* the root record and of the volume identifier is something else.
BootRecordFirst == [ArmRelease EXCEPT !.sector = "other", !.is = Release.is]

\* The two inspections, over every small image: a version is told exactly of a
\* primary descriptor whose identifier spells one, and it is that version; an
\* architecture only of one under which the kernel at its place is of it,
\* wherever other records and the padding of a sector stand.
Sectors == {"short", "raw", "other", "primary"}
Components == {Digits("1"), Word("RC", "rc"), [kind |-> "mixed", text |-> "1a", lower |-> "1a"],
               [kind |-> "empty", text |-> "", lower |-> ""]}
Spelled(v) == [i \in DOMAIN v |-> IF i = 4 THEN Word("RC", v[i]) ELSE Digits(v[i])]
Versions == {<<"1", "1", "1">>, <<"1", "1", "1", "rc", "1">>}
Lists(S, n) == UNION {[1..k -> S] : k \in 0..n}
Directories(name, target) ==
    {None} \cup Lists({None, Record("EFI", None), Record("GRUB", None), Record(name, target)}, 2)

ASSUME ImagesAreRead ==
    \A sector \in Sectors :
        /\ \A talos \in BOOLEAN, parts \in Lists(Components, 6) :
              LET v == InspectImageVersion([sector |-> sector, talos |-> talos, parts |-> parts])
              IN  IF sector = "primary" /\ talos /\ parts \in {Spelled(w) : w \in Versions}
                    THEN v \in Versions /\ Spelled(v) = parts
                    ELSE v = None
        /\ \A boot \in Directories("VMLINUZ", "amd64") : \A root \in Directories("BOOT", boot) :
              LET a == InspectImageArch([sector |-> sector, root |-> root])
              IN  /\ a \in {None, "amd64"}
                  /\ a = "amd64" => sector = "primary"
                  /\ sector = "primary" /\ root = Root("amd64") => a = "amd64"

File(iso, extras, target, vtpm, secureBoot) ==
    [image |-> iso, data |-> extras > 0, extras |-> extras, target |-> target,
     tpm |-> vtpm, secureBoot |-> secureBoot]

MCHosts == [current |-> Current, rotted |-> Rotted, masked |-> Masked, nokvm |-> NoKVM,
            preenrolled |-> Preenrolled, oldbuild |-> OldBuild, bare |-> Bare,
            mac |-> Mac, other |-> Other]
MCImages == [release |-> Release, beta |-> Beta, alpha |-> Alpha, arm |-> ArmRelease,
             bootrecord |-> BootRecordFirst]
MCSpecs == {File("release", 0, "system", TRUE, FALSE),
            File("beta", 0, "system", TRUE, TRUE),
            File("bootrecord", 2, "extras", FALSE, FALSE),
            File("arm", 1, "system", FALSE, FALSE),
            File("alpha", 1, "extras", TRUE, TRUE)}
=============================================================================
