------------------------------- MODULE MCSite -------------------------------
EXTENDS Site

Names == [m \in Machines |-> m]

\* A quarter of the address space for the segment, another one reserved.
Lan(a) == [name |-> "cluster", cidr |-> [addr |-> 8, bits |-> 2], addr |-> a]
OtherLan(a) == [name |-> "cluster", cidr |-> [addr |-> 8, bits |-> 1], addr |-> a]
BadLan == [name |-> "cluster", cidr |-> [addr |-> 8, bits |-> 2], addr |-> 8]
UserMode == {[addr |-> 4, bits |-> 2]}

Forward(proto, a, p) == {[protocol |-> proto, addr |-> a, port |-> p, guest |-> 1]}
GB(n) == [number |-> n, unit |-> "Gi"]

Owner == [network |-> Lan(9), forwards |-> Forward("tcp", "127.0.0.1", 1),
          memory |-> GB(2), joins |-> ""]
Joiner == [network |-> Lan(10), forwards |-> Forward("both", "0.0.0.0", 2),
           memory |-> GB(3), joins |-> "cp0"]
\* The joiner moved to the owner's address.
Moved == [Joiner EXCEPT !.network = Lan(9), !.joins = ""]
\* A VM beside the cluster, with a port of the joiner's and its memory in MB.
Apart == [network |-> None, forwards |-> Forward("udp", "127.0.0.1", 2),
          memory |-> [number |-> 2048, unit |-> "MB"], joins |-> ""]
\* A joiner the host has no room for beside its owner.
Large == [Joiner EXCEPT !.memory = GB(4)]
\* Another CIDR under the network's name; and a file that is not valid.
Wider == [Owner EXCEPT !.network = OtherLan(10), !.forwards = {}]
Wrong == [Owner EXCEPT !.network = BadLan]

SiteFiles == {Owner, Joiner, Moved, Apart, Large, Wider, Wrong}
=============================================================================
