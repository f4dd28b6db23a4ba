---------------------------- MODULE ClusterEtcd -----------------------------
(* Cluster seen as the etcd of each of its clusters, one per bundle. *)
EXTENDS Cluster

\* The etcd of a cluster as its operator knows it.
Etcd(b) == INSTANCE EtcdMembership WITH
    formed <- boots[b] > 0,
    voters <- members[b],
    replicas <- {m \in members[b] : pki[m] = b /\ etcd[m] = "data"},
    serving <- Voting(b),
    abandoned <- {m \in Machines : <<b, m>> \in excused}

\* Up and destroy, in all their steps, retries and failures, do to each etcd
\* only what EtcdMembership lets them: form it once, change its member list by
\* one with a majority that is up, and take no member's data before it has left.
\* (It is \A b \in Bundles : Etcd(b)!Spec, with the quantifier inside, and for a
\* cluster up to its first removal that stops part-way.)
ImplementsEtcd ==
    /\ \A b \in Bundles : Etcd(b)!Init
    /\ [][\A b \in Bundles : Intact(b)' => [Etcd(b)!Next]_(Etcd(b)!etcdVars)]_vars
=============================================================================
