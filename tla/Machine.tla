------------------------------- MODULE Machine -------------------------------
(****************************************************************************)
(* The QEMU driver of cmd/tinq/main.go: the life of the VMs of one host.     *)
(*                                                                          *)
(* State.  The host's process table, the state directory of each machine,    *)
(* and the tinq invocation that is working on it.  At most one invocation    *)
(* works on a machine at a time: the controller loop is serial and the       *)
(* repository's README asks the same of the file-driven verbs.               *)
(* Invocations on different machines interleave freely and share the pids.   *)
(*                                                                          *)
(* Failures.  A process may exit at any time, its pid may be handed to       *)
(* anyone, the host may reboot (pidfiles outlive every process), a tinq may  *)
(* be killed or its context cancelled between any two steps, and every step  *)
(* whose code returns an error may fail.                                     *)
(*                                                                          *)
(* Simplifications.                                                          *)
(*  - ProcessMatches and the kill(2) that follows it are one step: a pid     *)
(*    recycled between those two calls is not modelled, a pid recycled at    *)
(*    any other time is.                                                     *)
(*  - `qemu -daemonize -pidfile' starts a process and writes its pidfile in  *)
(*    one step: its parent returns after both.  `swtpm --daemon --pid' does  *)
(*    not: see EnsureSWTPM.                                                  *)
(*  - A signal has no effect of its own: a process may exit at any moment,   *)
(*    signalled or not, and one that was sent SIGKILL may linger in the      *)
(*    kernel (but executes no guest code again).                             *)
(*  - A zombie matches nothing (its command line is empty), so it is a free  *)
(*    pid here.                                                              *)
(****************************************************************************)
EXTENDS Naturals

CONSTANTS
    Machines,   \* the VMs of the host; a machine owns one state directory
    Pids,       \* the process ids the kernel hands out
    NoPid,      \* what readPid reports for a missing or unreadable pidfile
    Host,       \* the owner of a process that no machine owns
    WithTPM,    \* the machines whose spec sets tpm
    Verbs,      \* the verbs in use
    MaxPolls    \* polls in one waitGone budget

\* "delete" is the controller's delete tick, the others the file-driven verbs;
\* the controller's create and stop ticks observe first, like apply and stop.
AllVerbs == {"apply", "up", "stop", "destroy", "delete"}

ASSUME MachineAssumption ==
    /\ NoPid \notin Pids
    /\ Host \notin Machines
    /\ WithTPM \subseteq Machines
    /\ Verbs \subseteq AllVerbs
    /\ MaxPolls \in Nat

VARIABLES
    \* the process table, by pid
    kind,       \* what runs there: nothing, a stranger, a qemu, or an swtpm,
                \* "starting" until it has written its pidfile
    owner,      \* the machine whose state directory its command line names
    unlinked,   \* the files it has open are no longer in the state directory
    told,       \* the strongest signal it has been sent
    \* the state directories, by machine
    made,       \* the directory and its machine record exist
    disk,       \* system.qcow2 exists
    talosconfig,
    qemuPid,    \* the content of qemu.pid
    swtpmPid,   \* the content of swtpm.pid
    \* the invocations, by machine
    pc, verb,
    pid,        \* the pid Stop or destroy read from qemu.pid
    rung,       \* what waitGone is waiting for the effect of
    polls,      \* what is left of waitGone's budget
    cancelled,  \* its context is done
    \* history
    struck      \* code paths that have signalled a process of another owner

procVars == <<kind, owner, unlinked, told>>
dirVars == <<made, disk, talosconfig, qemuPid, swtpmPid>>
runVars == <<pc, verb, pid, rung, polls, cancelled>>
vars == <<procVars, dirVars, runVars, struck>>

-----------------------------------------------------------------------------
(* Processes and state directories. *)

MaybePid == Pids \cup {NoPid}

Start(p, k, m) ==
    /\ kind[p] = "free"
    /\ kind' = [kind EXCEPT ![p] = k]
    /\ owner' = [owner EXCEPT ![p] = m]
    /\ UNCHANGED <<unlinked, told>>

\* platform.ProcessMatches: the process at p names m's state directory on its
\* command line.  So does the machine's own swtpm, whose --tpmstate is there.
ProcessMatches(p, m) == p \in Pids /\ kind[p] \in {"qemu", "starting", "swtpm"} /\ owner[p] = m

\* hvf.Observe for a VM.
Observe(m) ==
    IF ~disk[m] THEN "Absent"
    ELSE IF ProcessMatches(qemuPid[m], m) THEN "Running" ELSE "Stopped"

\* The qemus that can still write to the system disk in m's state directory.
Writes(p, m) ==
    kind[p] = "qemu" /\ owner[p] = m /\ ~unlinked[p] /\ told[p] # "SIGKILL"
Writers(m) == {p \in Pids : Writes(p, m)}

\* `sig' is sent to pid p on behalf of m (nothing happens to a free pid, and
\* nothing undoes a SIGKILL).
Signal(path, p, sig, m) ==
    /\ told' = IF p \in Pids /\ kind[p] # "free" /\ told[p] # "SIGKILL"
                 THEN [told EXCEPT ![p] = sig] ELSE told
    /\ struck' = IF p \in Pids /\ kind[p] # "free" /\ owner[p] # m
                   THEN struck \cup {path} ELSE struck
    /\ UNCHANGED <<kind, owner, unlinked>>

-----------------------------------------------------------------------------
(* Invocations. *)

Labels == {"idle", "observe", "mkdir", "disk", "swtpm", "await", "launch", "config",
           "stopObserve", "stopPid", "shutdown", "term", "check", "select",
           "vtpm", "destroyPid", "sweep"}

At(m, l) == pc[m] = l

Goto(m, l) ==
    /\ pc' = [pc EXCEPT ![m] = l]
    /\ UNCHANGED <<verb, pid, rung, polls, cancelled>>

\* An invocation ends.  Its verb is kept when it reports success.
End(m, v) ==
    /\ pc' = [pc EXCEPT ![m] = "idle"]
    /\ verb' = [verb EXCEPT ![m] = v]
    /\ pid' = [pid EXCEPT ![m] = NoPid]
    /\ rung' = [rung EXCEPT ![m] = "guest"]
    /\ polls' = [polls EXCEPT ![m] = 0]
    /\ cancelled' = [cancelled EXCEPT ![m] = FALSE]

Succeed(m) == End(m, verb[m])
Fail(m) == End(m, "failed")
Reported(m, v) == At(m, "idle") /\ verb[m] = v

\* Enter waitGone with a fresh budget on the given rung of the ladder.
StartWait(m, r) ==
    /\ pc' = [pc EXCEPT ![m] = "check"]
    /\ rung' = [rung EXCEPT ![m] = r]
    /\ polls' = [polls EXCEPT ![m] = MaxPolls]
    /\ UNCHANGED <<verb, pid, cancelled>>

ReadPid(m, l) ==
    /\ pid' = [pid EXCEPT ![m] = qemuPid[m]]
    /\ pc' = [pc EXCEPT ![m] = l]
    /\ UNCHANGED <<verb, rung, polls, cancelled>>

Destroying(m) == verb[m] \in {"destroy", "delete"}

Begin(m, v) ==
    /\ At(m, "idle")
    /\ pc' = [pc EXCEPT ![m] = IF v = "delete" THEN "vtpm" ELSE "observe"]
    /\ verb' = [verb EXCEPT ![m] = v]
    /\ UNCHANGED <<procVars, dirVars, pid, rung, polls, cancelled, struck>>

\* Faulty: apply and up create whatever they observed.
DispatchBlindly(v, state) ==
    IF v \in {"apply", "up"} THEN "mkdir"
    ELSE IF v = "stop" /\ state = "Running" THEN "stopObserve"
    ELSE IF v = "destroy" /\ state # "Absent" THEN "vtpm"
    ELSE "idle"

\* standalone: what each verb does with the state it observed.  A delete tick
\* calls hvf.Destroy without observing first.
Dispatch(v, state) ==
    IF v \in {"apply", "up"} /\ state # "Running" THEN "mkdir"
    ELSE IF v = "up" THEN "config"
    ELSE IF v = "stop" /\ state = "Running" THEN "stopObserve"
    ELSE IF v = "destroy" /\ state # "Absent" THEN "vtpm"
    ELSE "idle"

Standalone(m) ==
    /\ At(m, "observe")
    /\ LET next == Dispatch(verb[m], Observe(m))
       IN  IF next = "idle" THEN Succeed(m) ELSE Goto(m, next)
    /\ UNCHANGED <<procVars, dirVars, struck>>

(* hvf.create, called with a machine observed not to be running. *)

\* detect, checkSite, MkdirAll and the machine record.
CreateDir(m) ==
    /\ At(m, "mkdir")
    /\ made' = [made EXCEPT ![m] = TRUE]
    /\ Goto(m, "disk")
    /\ UNCHANGED <<procVars, disk, talosconfig, qemuPid, swtpmPid, struck>>

\* resolveImage, then ensureQcow2 for the system, data and extra disks.
EnsureDisks(m) ==
    /\ At(m, "disk")
    /\ disk' = [disk EXCEPT ![m] = TRUE]
    /\ Goto(m, IF m \in WithTPM THEN "swtpm" ELSE "launch")
    /\ UNCHANGED <<procVars, made, talosconfig, qemuPid, swtpmPid, struck>>

\* ensureSWTPM: reuse the swtpm the pidfile names if it is this machine's ...
HasSWTPM(m) == ProcessMatches(swtpmPid[m], m)

\* ... or start one.  An old pidfile that names nobody stays where it is.
EnsureSWTPM(m) ==
    /\ At(m, "swtpm")
    /\ \/ HasSWTPM(m) /\ Goto(m, "launch") /\ UNCHANGED procVars
       \/ ~HasSWTPM(m) /\ Goto(m, "await") /\ \E p \in Pids : Start(p, "starting", m)
    /\ UNCHANGED <<dirVars, struck>>

\* The wait for the pidfile, which any pidfile ends ...
AwaitPidfile(m) ==
    /\ At(m, "await")
    /\ swtpmPid[m] # NoPid
    /\ Goto(m, "launch")
    /\ UNCHANGED <<procVars, dirVars, struck>>

\* ... and its deadline: "swtpm started but wrote no pidfile".
PidfileTimeout(m) ==
    /\ At(m, "await")
    /\ swtpmPid[m] = NoPid
    /\ Fail(m)
    /\ UNCHANGED <<procVars, dirVars, struck>>

\* qemu refuses to start when nothing listens on the swtpm socket.
SocketAnswers(m) ==
    m \in WithTPM =>
      \E p \in Pids : kind[p] \in {"starting", "swtpm"} /\ owner[p] = m /\ ~unlinked[p]

\* Faulty: qemu is started without -pidfile.
LaunchWithoutPidfile(m) ==
    /\ At(m, "launch")
    /\ SocketAnswers(m)
    /\ \E p \in Pids : Start(p, "qemu", m)
    /\ IF verb[m] = "up" THEN Goto(m, "config") ELSE Succeed(m)
    /\ UNCHANGED <<dirVars, struck>>

\* Firmware, efivars, the argument vector, and qemu itself.  The pidfile is read
\* back, and when that fails so does create, with qemu running.
LaunchQemu(m) ==
    /\ At(m, "launch")
    /\ SocketAnswers(m)
    /\ \E p \in Pids : /\ Start(p, "qemu", m)
                       /\ qemuPid' = [qemuPid EXCEPT ![m] = p]
    /\ \/ IF verb[m] = "up" THEN Goto(m, "config") ELSE Succeed(m)
       \/ Fail(m)
    /\ UNCHANGED <<made, disk, talosconfig, swtpmPid, struck>>

\* The exec fails.  qemu may have truncated and removed an older pidfile.
LaunchFails(m) ==
    /\ At(m, "launch")
    /\ qemuPid' \in {qemuPid, [qemuPid EXCEPT ![m] = NoPid]}
    /\ Fail(m)
    /\ UNCHANGED <<procVars, made, disk, talosconfig, swtpmPid, struck>>

\* The rest of `up', as far as the state directory is concerned: the node's
\* credentials are written.
WriteTalosconfig(m) ==
    /\ At(m, "config")
    /\ talosconfig' = [talosconfig EXCEPT ![m] = TRUE]
    /\ Succeed(m)
    /\ UNCHANGED <<procVars, made, disk, qemuPid, swtpmPid, struck>>

\* Every step that can return an error before it has changed anything.
StepFails(m) ==
    /\ pc[m] \in {"observe", "mkdir", "disk", "swtpm", "config", "stopObserve"}
    /\ Fail(m)
    /\ UNCHANGED <<procVars, dirVars, struck>>

-----------------------------------------------------------------------------
(* hvf.Stop and the signal ladder. *)

\* Stop observes for itself ...
StopObserve(m) ==
    /\ At(m, "stopObserve")
    /\ IF Observe(m) = "Running" THEN Goto(m, "stopPid") ELSE Succeed(m)
    /\ UNCHANGED <<procVars, dirVars, struck>>

\* ... and then reads the pidfile a second time.
StopReadPid(m) ==
    /\ At(m, "stopPid")
    /\ ReadPid(m, "shutdown")
    /\ UNCHANGED <<procVars, dirVars, struck>>

\* shutdownGuest is accepted: only with credentials, by a guest that is there,
\* under a context that still lives.
ShutdownAccepted(m) ==
    /\ At(m, "shutdown")
    /\ talosconfig[m]
    /\ ~cancelled[m]
    /\ \E p \in Pids : kind[p] = "qemu" /\ owner[p] = m
    /\ StartWait(m, "guest")
    /\ UNCHANGED <<procVars, dirVars, struck>>

\* shutdownGuest fails: no credentials, no answer in time, or a lost reply.
ShutdownUnavailable(m) ==
    /\ At(m, "shutdown")
    /\ Goto(m, "term")
    /\ UNCHANGED <<procVars, dirVars, struck>>

\* Faulty: the pidfile is taken at its word.
MayHaltUnchecked(m) == pid[m] \in Pids

\* The gate in front of the first signal.
MayHalt(m) == ProcessMatches(pid[m], m)

\* halt returned nil: Stop is done, destroy goes on to the sweep.
Halted(m) == IF Destroying(m) THEN Goto(m, "sweep") ELSE Succeed(m)

HaltTerm(m) ==
    /\ At(m, "term")
    /\ IF MayHalt(m)
         THEN Signal("ladder", pid[m], "SIGTERM", m) /\ StartWait(m, "SIGTERM")
         ELSE Halted(m) /\ UNCHANGED <<procVars, struck>>
    /\ UNCHANGED dirVars

Gone(m) == ~ProcessMatches(pid[m], m)

\* waitGone: identity first ...
WaitSeesGone(m) ==
    /\ At(m, "check")
    /\ Gone(m)
    /\ IF rung[m] = "guest" THEN Succeed(m) ELSE Halted(m)
    /\ UNCHANGED <<procVars, dirVars, struck>>

\* Faulty: destroy goes on to the sweep when SIGTERM has had its time.
WaitExpiresWithoutKill(m) ==
    /\ At(m, "check")
    /\ ~Gone(m)
    /\ polls[m] = 0
    /\ IF rung[m] = "guest" THEN Goto(m, "term")
       ELSE IF Destroying(m) THEN Goto(m, "sweep") ELSE Fail(m)
    /\ UNCHANGED <<procVars, dirVars, struck>>

\* ... the deadline second, which alone may escalate.
WaitExpires(m) ==
    /\ At(m, "check")
    /\ ~Gone(m)
    /\ polls[m] = 0
    /\ \/ /\ rung[m] = "guest"
          /\ Goto(m, "term")
          /\ UNCHANGED <<procVars, struck>>
       \/ /\ rung[m] = "SIGTERM"
          /\ Signal("ladder", pid[m], "SIGKILL", m)
          /\ StartWait(m, "SIGKILL")
       \/ /\ rung[m] = "SIGKILL"   \* "survived SIGKILL"
          /\ IF Destroying(m) /\ ~cancelled[m] THEN Goto(m, "sweep") ELSE Fail(m)
          /\ UNCHANGED <<procVars, struck>>
    /\ UNCHANGED dirVars

WaitPolls(m) ==
    /\ At(m, "check")
    /\ ~Gone(m)
    /\ polls[m] > 0
    /\ Goto(m, "select")
    /\ UNCHANGED <<procVars, dirVars, struck>>

\* Faulty: the deadline is renewed at every tick.
SelectTickForever(m) ==
    /\ At(m, "select")
    /\ pc' = [pc EXCEPT ![m] = "check"]
    /\ UNCHANGED <<procVars, dirVars, verb, pid, rung, polls, cancelled, struck>>

\* The select: with the tick and ctx.Done() both ready, Go takes either.
SelectTick(m) ==
    /\ At(m, "select")
    /\ pc' = [pc EXCEPT ![m] = "check"]
    /\ polls' = [polls EXCEPT ![m] = @ - 1]
    /\ UNCHANGED <<procVars, dirVars, verb, pid, rung, cancelled, struck>>

\* Faulty: an abandoned wait returns no error.
SelectDoneQuietly(m) ==
    /\ At(m, "select")
    /\ cancelled[m]
    /\ Succeed(m)
    /\ UNCHANGED <<procVars, dirVars, struck>>

\* The wait is abandoned, and with it the Stop or the destroy.
SelectDone(m) ==
    /\ At(m, "select")
    /\ cancelled[m]
    /\ Fail(m)
    /\ UNCHANGED <<procVars, dirVars, struck>>

-----------------------------------------------------------------------------
(* destroy. *)

\* SIGTERM to whatever pid swtpm.pid names.
DestroySWTPM(m) ==
    /\ At(m, "vtpm")
    /\ Signal("vtpm", swtpmPid[m], "SIGTERM", m)
    /\ Goto(m, "destroyPid")
    /\ UNCHANGED dirVars

DestroyReadPid(m) ==
    /\ At(m, "destroyPid")
    /\ ReadPid(m, "term")
    /\ UNCHANGED <<procVars, dirVars, struck>>

\* m's processes of these kinds have lost the files they have open.
Unlink(m, kinds) ==
    /\ unlinked' = [p \in Pids |-> unlinked[p] \/ (owner[p] = m /\ kind[p] \in kinds)]
    /\ UNCHANGED <<kind, owner, told>>

Sweep(m) ==
    /\ At(m, "sweep")
    /\ made' = [made EXCEPT ![m] = FALSE]
    /\ disk' = [disk EXCEPT ![m] = FALSE]
    /\ talosconfig' = [talosconfig EXCEPT ![m] = FALSE]
    /\ qemuPid' = [qemuPid EXCEPT ![m] = NoPid]
    /\ swtpmPid' = [swtpmPid EXCEPT ![m] = NoPid]
    /\ Unlink(m, {"qemu", "starting", "swtpm"})
    /\ Succeed(m)
    /\ UNCHANGED struck

\* An os.RemoveAll that stops part-way leaves any of the files.
SweepFails(m) ==
    /\ At(m, "sweep")
    /\ made[m]
    /\ disk' \in {disk, [disk EXCEPT ![m] = FALSE]}
    /\ talosconfig' \in {talosconfig, [talosconfig EXCEPT ![m] = FALSE]}
    /\ qemuPid' \in {qemuPid, [qemuPid EXCEPT ![m] = NoPid]}
    /\ swtpmPid' \in {swtpmPid, [swtpmPid EXCEPT ![m] = NoPid]}
    /\ Unlink(m, IF disk'[m] THEN {} ELSE {"qemu"})
    /\ Fail(m)
    /\ UNCHANGED <<made, struck>>

-----------------------------------------------------------------------------
(* The world around tinq. *)

Cancel(m) ==
    /\ ~At(m, "idle")
    /\ cancelled' = [cancelled EXCEPT ![m] = TRUE]
    /\ UNCHANGED <<procVars, dirVars, pc, verb, pid, rung, polls, struck>>

TinqKilled(m) ==
    /\ ~At(m, "idle")
    /\ Fail(m)
    /\ UNCHANGED <<procVars, dirVars, struck>>

\* A guest powers off, a qemu or swtpm crashes or obeys a signal, a stranger
\* ends.  qemu and swtpm remove their pidfile when they exit in good order, an
\* swtpm whatever has been written into it since.
ProcessExits(p) ==
    /\ kind[p] # "free"
    /\ kind' = [kind EXCEPT ![p] = "free"]
    /\ owner' = [owner EXCEPT ![p] = Host]
    /\ unlinked' = [unlinked EXCEPT ![p] = FALSE]
    /\ told' = [told EXCEPT ![p] = "nothing"]
    /\ \/ UNCHANGED <<qemuPid, swtpmPid>>
       \/ /\ kind[p] = "qemu"
          /\ qemuPid[owner[p]] = p
          /\ qemuPid' = [qemuPid EXCEPT ![owner[p]] = NoPid]
          /\ UNCHANGED swtpmPid
       \/ /\ kind[p] = "swtpm"
          /\ swtpmPid' = [swtpmPid EXCEPT ![owner[p]] = NoPid]
          /\ UNCHANGED qemuPid
    /\ UNCHANGED <<made, disk, talosconfig, runVars, struck>>

\* The daemonized swtpm writes its pidfile, some time after its parent returned,
\* if the directory is there by then.
SwtpmWritesPidfile(p) ==
    /\ kind[p] = "starting"
    /\ made[owner[p]]
    /\ kind' = [kind EXCEPT ![p] = "swtpm"]
    /\ swtpmPid' = [swtpmPid EXCEPT ![owner[p]] = p]
    /\ UNCHANGED <<owner, unlinked, told, made, disk, talosconfig, qemuPid, runVars, struck>>

StrangerStarts(p) ==
    /\ Start(p, "stranger", Host)
    /\ UNCHANGED <<dirVars, runVars, struck>>

HostReboots ==
    /\ kind' = [p \in Pids |-> "free"]
    /\ owner' = [p \in Pids |-> Host]
    /\ unlinked' = [p \in Pids |-> FALSE]
    /\ told' = [p \in Pids |-> "nothing"]
    /\ pc' = [m \in Machines |-> "idle"]
    /\ verb' = [m \in Machines |-> IF At(m, "idle") THEN verb[m] ELSE "failed"]
    /\ pid' = [m \in Machines |-> NoPid]
    /\ rung' = [m \in Machines |-> "guest"]
    /\ polls' = [m \in Machines |-> 0]
    /\ cancelled' = [m \in Machines |-> FALSE]
    /\ UNCHANGED <<dirVars, struck>>

-----------------------------------------------------------------------------
Init ==
    /\ kind = [p \in Pids |-> "free"]
    /\ owner = [p \in Pids |-> Host]
    /\ unlinked = [p \in Pids |-> FALSE]
    /\ told = [p \in Pids |-> "nothing"]
    /\ made = [m \in Machines |-> FALSE]
    /\ disk = [m \in Machines |-> FALSE]
    /\ talosconfig = [m \in Machines |-> FALSE]
    /\ qemuPid = [m \in Machines |-> NoPid]
    /\ swtpmPid = [m \in Machines |-> NoPid]
    /\ pc = [m \in Machines |-> "idle"]
    /\ verb = [m \in Machines |-> "failed"]
    /\ pid = [m \in Machines |-> NoPid]
    /\ rung = [m \in Machines |-> "guest"]
    /\ polls = [m \in Machines |-> 0]
    /\ cancelled = [m \in Machines |-> FALSE]
    /\ struck = {}

\* The steps of a running invocation: deciding what to do, creating, waiting,
\* signalling and sweeping.
Decides(m) == Standalone(m) \/ StopObserve(m) \/ StopReadPid(m) \/ DestroyReadPid(m) \/ StepFails(m)
Creates(m) ==
    \/ CreateDir(m) \/ EnsureDisks(m) \/ EnsureSWTPM(m) \/ AwaitPidfile(m) \/ PidfileTimeout(m)
    \/ LaunchQemu(m) \/ LaunchFails(m) \/ WriteTalosconfig(m)
Waits(m) ==
    \/ ShutdownAccepted(m) \/ ShutdownUnavailable(m)
    \/ WaitSeesGone(m) \/ WaitPolls(m) \/ SelectTick(m) \/ SelectDone(m)
Signals(m) == HaltTerm(m) \/ WaitExpires(m) \/ DestroySWTPM(m)
Sweeps(m) == Sweep(m) \/ SweepFails(m)

TinqStep(m) == Decides(m) \/ Creates(m) \/ Waits(m) \/ Signals(m) \/ Sweeps(m)

UserStep(m) == (\E v \in Verbs : Begin(m, v)) \/ Cancel(m) \/ TinqKilled(m)

HostStep ==
    \/ \E p \in Pids : ProcessExits(p) \/ SwtpmWritesPidfile(p) \/ StrangerStarts(p)
    \/ HostReboots

Next == (\E m \in Machines : TinqStep(m) \/ UserStep(m)) \/ HostStep

Spec == Init /\ [][Next]_vars
FairSpec == Spec /\ \A m \in Machines : WF_vars(TinqStep(m))

-----------------------------------------------------------------------------
(* Correctness. *)

ProcTypes ==
    /\ kind \in [Pids -> {"free", "stranger", "qemu", "starting", "swtpm"}]
    /\ owner \in [Pids -> Machines \cup {Host}]
    /\ unlinked \in [Pids -> BOOLEAN]
    /\ told \in [Pids -> {"nothing", "SIGTERM", "SIGKILL"}]

DirTypes ==
    /\ made \in [Machines -> BOOLEAN]
    /\ disk \in [Machines -> BOOLEAN]
    /\ talosconfig \in [Machines -> BOOLEAN]
    /\ qemuPid \in [Machines -> MaybePid]
    /\ swtpmPid \in [Machines -> MaybePid]

RunTypes ==
    /\ pc \in [Machines -> Labels]
    /\ verb \in [Machines -> AllVerbs \cup {"failed"}]
    /\ pid \in [Machines -> MaybePid]
    /\ rung \in [Machines -> {"guest", "SIGTERM", "SIGKILL"}]
    /\ polls \in [Machines -> 0..MaxPolls]
    /\ cancelled \in [Machines -> BOOLEAN]
    /\ \A m \in Machines : At(m, "select") => polls[m] > 0

TypeOK ==
    /\ ProcTypes
    /\ DirTypes
    /\ RunTypes
    /\ struck \subseteq {"ladder", "vtpm"}

\* The rule stated on halt: whatever the pidfiles say after reboots and
\* recycled pids, neither SIGTERM nor SIGKILL of the ladder reaches a process
\* of another machine or of the host.
LadderSparesStrangers == "ladder" \notin struck

\* The qemu that can write to a machine's disk is the one its pidfile names, so
\* Observe never calls a machine Stopped or Absent while something writes to it.
WriterIsTracked ==
    \A m \in Machines : \A p \in Pids :
      Writes(p, m) => disk[m] /\ qemuPid[m] = p

\* The state is never swept from under a live qemu: destroy removes the disk
\* only of a process that is gone or was sent SIGKILL and outlived the wait.
SweepsOnlyTheDead ==
    \A p \in Pids : kind[p] = "qemu" /\ unlinked[p] => told[p] = "SIGKILL"

\* A stop that reports success left no qemu writing to the machine's disk; a
\* cancelled or expired wait is never reported as one.
StopMeansStopped ==
    \A m \in Machines : Reported(m, "stop") => \A p \in Pids : ~Writes(p, m)

\* A delete tick that reports success, the one thing that releases the
\* finalizer, left no state directory and no process that has a file of it open;
\* a qemu it could not get rid of was sent SIGKILL.  (An swtpm it did not know of
\* may be left: one that had not written its pidfile, or not into the one there.)
DeleteLeavesNothing ==
    \A m \in Machines : Reported(m, "delete") =>
      /\ ~made[m] /\ ~disk[m] /\ ~talosconfig[m] /\ swtpmPid[m] = NoPid
      /\ \A p \in Pids : owner[p] = m =>
           unlinked[p] /\ (kind[p] = "qemu" => told[p] = "SIGKILL")

\* A run that reports success has done what it was asked for.
TrueReports == StopMeansStopped /\ DeleteLeavesNothing

\* What the comment on halt says of signals: "EVERY signal is gated on
\* ProcessMatches", so destroy signals no stranger either.
EverySignalIsGated == struck = {}

\* The driver keeps the promise of DiskCustody: one writer at a time, and no
\* disk discarded under a writer, through crashes, reboots and cancelled runs.
Custody == INSTANCE DiskCustody WITH
             data <- disk,
             writers <- [m \in Machines |-> Writers(m)]

CustodyKept == Custody!Spec

\* Every invocation ends: each rung of the ladder has a budget, and neither a
\* deaf guest nor a process that survives SIGKILL keeps a run waiting for ever.
RunEnds == \A m \in Machines : ~At(m, "idle") ~> At(m, "idle")

\* The most steps an invocation can still take, at label l, on rung r and with n
\* polls left: two for every poll of a wait and one for its end, on each rung
\* still ahead of it.
WaitSteps == 2 * MaxPolls + 1
RungSteps(r) ==
    IF r = "SIGKILL" THEN 1 ELSE IF r = "SIGTERM" THEN 1 + WaitSteps ELSE 2 + 2 * WaitSteps
Ahead(l, r, n) ==
    CASE l = "idle" -> 0
      [] l \in {"sweep", "config"} -> 1
      [] l = "launch" -> 2
      [] l = "await" -> 3
      [] l = "swtpm" -> 4
      [] l = "disk" -> 5
      [] l = "mkdir" -> 6
      [] l = "select" -> RungSteps(r) + 2 * n
      [] l = "check" -> RungSteps(r) + 2 * n + 1
      [] l = "term" -> 2 + 2 * WaitSteps
      [] l = "shutdown" -> 3 + 3 * WaitSteps
      [] l \in {"stopPid", "destroyPid"} -> 4 + 3 * WaitSteps
      [] l \in {"stopObserve", "vtpm"} -> 5 + 3 * WaitSteps
      [] l = "observe" -> 6 + 3 * WaitSteps

StepsLeft(m) == Ahead(pc[m], rung[m], polls[m])

\* Every step of an invocation uses up one of these, and whatever processes,
\* other invocations and the host do in between gives it none back.
RunIsBounded ==
    [][\A m \in Machines :
         /\ TinqStep(m) => StepsLeft(m)' < StepsLeft(m)
         /\ ~At(m, "idle") => StepsLeft(m)' <= StepsLeft(m)]_vars

-----------------------------------------------------------------------------
(* The inductive invariant behind the safety properties above. *)

\* Which verbs reach which steps.
VerbInv(m) ==
    /\ pc[m] \in {"mkdir", "disk", "swtpm", "await", "launch", "config"} => verb[m] \in {"apply", "up"}
    /\ pc[m] \in {"stopObserve", "stopPid", "shutdown"} => verb[m] = "stop"
    /\ pc[m] \in {"term", "check", "select"} => verb[m] \in {"stop", "destroy", "delete"}
    /\ pc[m] \in {"check", "select"} /\ rung[m] = "guest" => verb[m] = "stop"
    /\ pc[m] \in {"vtpm", "destroyPid", "sweep"} => verb[m] \in {"destroy", "delete"}
    /\ pc[m] = "observe" => verb[m] \in {"apply", "up", "stop", "destroy"}

\* Processes: only qemus and swtpms belong to machines, and a qemu that lost its
\* files had been killed.
ProcInv(p) ==
    /\ kind[p] = "free" => ~unlinked[p] /\ told[p] = "nothing"
    /\ kind[p] \in {"free", "stranger"} <=> owner[p] = Host
    /\ kind[p] = "qemu" /\ unlinked[p] => told[p] = "SIGKILL"

\* Invocations: create works on a machine nothing writes to, the ladder holds
\* the pid of whatever writes, and past SIGKILL nothing writes any more.
LadderInv(m) ==
    /\ pc[m] \in {"swtpm", "await", "launch"} => disk[m]
    /\ pc[m] \in {"mkdir", "disk", "swtpm", "await", "launch", "sweep"} =>
         \A p \in Pids : ~Writes(p, m)
    /\ pc[m] \in {"shutdown", "term", "check", "select"} =>
         \A p \in Pids : Writes(p, m) => pid[m] = p
    /\ pc[m] \in {"check", "select"} /\ rung[m] = "SIGKILL" =>
         \A p \in Pids : ~Writes(p, m)

Inv ==
    /\ TypeOK
    /\ LadderSparesStrangers
    /\ WriterIsTracked
    /\ \A p \in Pids : ProcInv(p)
    /\ \A m \in Machines : VerbInv(m)
    /\ \A m \in Machines : LadderInv(m)
    /\ StopMeansStopped
    /\ DeleteLeavesNothing
=============================================================================
