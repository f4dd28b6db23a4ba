---------------------------- MODULE NetworkCheck ----------------------------
(***************************************************************************)
(* A machine file under the hands of an operator, who edits one field of   *)
(* its network at a time, and what the checks of StaticNetwork say of it   *)
(* after every edit.  The same fields stand for the static block of a      *)
(* machine to adopt (address, gateway, resolvers, MAC and the maintenance  *)
(* address) and, read as a segment with an address on it, for a VM's       *)
(* spec.clusterNetwork.                                                    *)
(***************************************************************************)
EXTENDS StaticNetwork

CONSTANTS Resolvers,    \* the lists of resolvers an operator may write
          Reserved      \* the prefixes a cluster network must not touch

ASSUME ReservedAssumption == \A r \in Reserved : r \in Prefixes /\ IsFour(r.addr)

VARIABLES net, gateway, resolvers, mac, maintenance
vars == <<net, gateway, resolvers, mac, maintenance>>

Block == [net |-> net, gateway |-> gateway, resolvers |-> resolvers, mac |-> mac]

Init ==
    /\ net = [addr |-> NotAddress, bits |-> 0]
    /\ gateway = NotAddress
    /\ resolvers = {}
    /\ mac = ""
    /\ maintenance = NotAddress

EditAddress ==
    /\ net' \in Prefixes
    /\ UNCHANGED <<gateway, resolvers, mac, maintenance>>

EditGateway ==
    /\ gateway' \in Literals
    /\ UNCHANGED <<net, resolvers, mac, maintenance>>

EditResolvers ==
    /\ resolvers' \in Resolvers
    /\ UNCHANGED <<net, gateway, mac, maintenance>>

EditMac ==
    /\ mac' \in Macs
    /\ UNCHANGED <<net, gateway, resolvers, maintenance>>

EditMaintenance ==
    /\ maintenance' \in Literals
    /\ UNCHANGED <<net, gateway, resolvers, mac>>

Next == EditAddress \/ EditGateway \/ EditResolvers \/ EditMac \/ EditMaintenance

Spec == Init /\ [][Next]_vars

-----------------------------------------------------------------------------
\* An accepted static block leaves the node reachable: it holds a host address
\* of the segment it is plugged into, its router is another host there, and it
\* has a resolver it can speak to.  And a block like that is never refused
\* (network.go: CheckNetwork, whose tests go through masks and successors and
\* meet the edges at /0, /31, /32 and the last address of all).
AcceptedIsReachable ==
    CheckNetwork(Block, maintenance) <=>
        /\ IsFour(net.addr)
        /\ LET segment == Segment(net)
           IN  /\ net.addr \in Hosts(segment)
               /\ gateway \in Hosts(segment) \ {net.addr}
               /\ maintenance \in segment
        /\ resolvers # {} /\ \A r \in resolvers : IsFour(r)
        /\ mac = "mac"

\* A cluster network that is accepted is a whole segment apart from every
\* reserved one, with room for two hosts, and the VM holds a host address of
\* it: in particular no VM holds the network address, which every node's
\* Flannel is pointed at (clusternet.go: specClusterNetwork).
ClusterAddressIsHost ==
    SpecClusterNetwork(net, gateway, Reserved) <=>
        /\ IsFour(net.addr)
        /\ LET segment == Segment(net)
           IN  /\ net.addr = Min(segment)
               /\ Cardinality(Hosts(segment)) >= 2
               /\ gateway \in Hosts(segment)
               /\ \A r \in Reserved : segment \cap Segment(r) = {}
=============================================================================
