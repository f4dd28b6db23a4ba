---------------------------- MODULE DiskCustody ----------------------------
(****************************************************************************)
(* What the driver promises about a machine's system disk, whatever happens  *)
(* to processes, pids and invocations: it is created once, at most one qemu  *)
(* writes to it at a time, it outlives every one of them, and it is          *)
(* discarded only when nothing can write to it any more.                     *)
(****************************************************************************)
CONSTANTS Machines, Pids

VARIABLES
    data,       \* machine -> whether its system disk exists
    writers     \* machine -> the processes that can write to that disk

custody == <<data, writers>>

Init ==
    /\ data = [m \in Machines |-> FALSE]
    /\ writers = [m \in Machines |-> {}]

Create(m) ==
    /\ ~data[m]
    /\ data' = [data EXCEPT ![m] = TRUE]
    /\ UNCHANGED writers

Start(m, p) ==
    /\ data[m]
    /\ writers[m] = {}
    /\ writers' = [writers EXCEPT ![m] = {p}]
    /\ UNCHANGED data

\* Writers go away for any reason, on several machines at once in a reboot.
Stop ==
    /\ writers' \in [Machines -> SUBSET Pids]
    /\ \A m \in Machines : writers'[m] \subseteq writers[m]
    /\ UNCHANGED data

Discard(m) ==
    /\ writers[m] = {}
    /\ data' = [data EXCEPT ![m] = FALSE]
    /\ UNCHANGED writers

Next ==
    \/ \E m \in Machines : \/ Create(m)
                           \/ \E p \in Pids : Start(m, p)
                           \/ Discard(m)
    \/ Stop

Spec == Init /\ [][Next]_custody
=============================================================================
