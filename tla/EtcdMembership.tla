--------------------------- MODULE EtcdMembership ---------------------------
(****************************************************************************)
(* What tinq promises about the etcd of one cluster, without any of its       *)
(* files, runs and retries (cmd/tinq/lifecycle.go, cluster/membership.go):    *)
(* it is formed once, its member list changes one machine at a time and with  *)
(* the consent of a majority that is up, and a member takes its data away     *)
(* only after it has left, unless the operator gave its vote up or nobody     *)
(* else is left.  Cluster implements it.                                      *)
(****************************************************************************)
EXTENDS Naturals, FiniteSets

CONSTANT Machines

VARIABLES
    formed,     \* it has been bootstrapped
    voters,     \* the member list
    replicas,   \* the members that have their data
    serving,    \* the ones of them that are up
    abandoned   \* the machines whose vote the operator has given up

etcdVars == <<formed, voters, replicas, serving, abandoned>>

Init ==
    /\ ~formed
    /\ voters = {} /\ replicas = {} /\ serving = {} /\ abandoned = {}

Majority == 2 * Cardinality(serving) > Cardinality(voters)

Form(m) ==
    /\ ~formed /\ formed'
    /\ voters' = {m} /\ replicas' = {m}
    /\ UNCHANGED abandoned

Join(m) ==
    /\ Majority /\ m \notin voters
    /\ voters' = voters \cup {m} /\ replicas' = replicas \cup {m}
    /\ UNCHANGED <<formed, abandoned>>

\* Somebody else stays.
Leave(m) ==
    /\ Majority /\ m \in voters
    /\ voters' = voters \ {m} /\ replicas' = replicas \ {m}
    /\ voters' # {}
    /\ UNCHANGED <<formed, abandoned>>

\* The operator gives a vote up (--force, --with-joiners), and its data may go.
Abandon(m) ==
    /\ abandoned' = abandoned \cup {m}
    /\ replicas' \in {replicas, replicas \ {m}}
    /\ UNCHANGED <<formed, voters>>

\* The last of the data goes, and the cluster with it.
Dissolve ==
    /\ \E m \in Machines : replicas \subseteq {m}
    /\ voters' = {} /\ replicas' = {} /\ abandoned' = {}
    /\ UNCHANGED formed

\* Members stop and start.
Flap == UNCHANGED <<formed, voters, replicas, abandoned>>

Next ==
    /\ \/ \E m \in Machines : Form(m) \/ Join(m) \/ Leave(m) \/ Abandon(m)
       \/ Dissolve \/ Flap
    /\ serving' \subseteq replicas'

Spec == Init /\ [][Next]_etcdVars
=============================================================================
