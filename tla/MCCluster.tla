----------------------------- MODULE MCCluster -----------------------------
(* Cluster on the machines cp0, which creates a cluster, and cp1, cp2 and     *)
(* cp3, which join it.                                                        *)
EXTENDS ClusterEtcd, TLC

CONSTANTS b1, b2, b3, cp0, cp1, cp2, cp3

JoinOwner == [m \in Machines |-> IF m = cp0 THEN NoMachine ELSE cp0]

\* cp2 joins through cp1.
JoinChain == [m \in Machines |->
                IF m = cp0 THEN NoMachine ELSE IF m = cp1 THEN cp0 ELSE cp1]

Symmetry == Permutations(Bundles)
=============================================================================
