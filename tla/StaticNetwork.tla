--------------------------- MODULE StaticNetwork ---------------------------
(***************************************************************************)
(* The two checks of addresses a machine file goes through before anything *)
(* is dialled or created: CheckNetwork for the static block of a machine   *)
(* that is adopted, and specClusterNetwork for the shared segment of VMs.  *)
(*                                                                         *)
(* An IPv4 address is a number below 2^W, W being 32 in the program.  What *)
(* does not parse, and what is IPv6, are the two literals NotAddress and   *)
(* SixAddress, so the arithmetic below only ever sees IPv4.                *)
(***************************************************************************)
EXTENDS Integers, FiniteSets, FiniteSetsExt

CONSTANT W

ASSUME WidthAssumption == W \in Nat /\ W >= 2

Addresses == 0 .. 2^W - 1
NotAddress == -1
SixAddress == -2
Literals == Addresses \cup {NotAddress, SixAddress}
Prefixes == [addr : Literals, bits : 0 .. W]

IsFour(a) == a \in Addresses

\* netip: the number of addresses a prefix holds, its first one, membership.
Size(p) == 2^(W - p.bits)
Masked(p) == (p.addr \div Size(p)) * Size(p)
Contains(p, a) == IsFour(a) /\ Masked([p EXCEPT !.addr = a]) = Masked(p)

\* netip: the address after a; the last one has no successor, and the invalid
\* address that stands in for it is in no prefix.
NextAddr(a) == IF a = 2^W - 1 THEN NotAddress ELSE a + 1

\* netip: two prefixes overlap when they agree on the shorter of the two.
Overlaps(p, q) ==
    LET bits == Min({p.bits, q.bits})
    IN  Masked([p EXCEPT !.bits = bits]) = Masked([q EXCEPT !.bits = bits])

-----------------------------------------------------------------------------
\* A static block: an address with its prefix length, a gateway, resolvers
\* and the MAC of the NIC ("" for none, "bad" for one that does not parse).
Macs == {"", "bad", "mac"}

\* The all-ones host part, as the code tests it.
IsBroadcast(p, a) == p.bits < W - 1 /\ ~Contains(p, NextAddr(a))

AddressPasses(n) ==
    /\ IsFour(n.net.addr)
    /\ n.net.addr # Masked(n.net)
    /\ ~IsBroadcast(n.net, n.net.addr)

\* Faulty: only containment is asked of the gateway.
GatewayInside(n) == Contains(n.net, n.gateway)

GatewayPasses(n) ==
    /\ Contains(n.net, n.gateway)
    /\ n.gateway # Masked(n.net)
    /\ ~IsBroadcast(n.net, n.gateway)
    /\ n.gateway # n.net.addr

\* At least one resolver, and every one of them IPv4.
ResolversPass(n) == n.resolvers # {} /\ n.resolvers \subseteq Addresses

\* The address the node answers on while it is in maintenance mode has to be
\* on the segment it comes back on.
CheckNetwork(n, maintenance) ==
    /\ AddressPasses(n)
    /\ GatewayPasses(n)
    /\ ResolversPass(n)
    /\ n.mac \notin {"", "bad"}
    /\ Contains(n.net, maintenance)

-----------------------------------------------------------------------------
\* spec.clusterNetwork: a segment and the VM's address on it.  Reserved are
\* QEMU's user-mode network and the pod and service CIDRs.

\* Faulty: a CIDR whose host bits are set is accepted as it stands.
SegmentFits(cidr, reserved) ==
    /\ IsFour(cidr.addr)
    /\ cidr.bits <= W - 2
    /\ \A r \in reserved : ~Overlaps(cidr, r)

SegmentPasses(cidr, reserved) ==
    /\ IsFour(cidr.addr)
    /\ cidr.addr = Masked(cidr)
    /\ cidr.bits <= W - 2
    /\ \A r \in reserved : ~Overlaps(cidr, r)

ClusterAddressPasses(cidr, a) ==
    /\ IsFour(a)
    /\ Contains(cidr, a)
    /\ a # cidr.addr
    /\ Contains(cidr, NextAddr(a))

SpecClusterNetwork(cidr, a, reserved) ==
    SegmentPasses(cidr, reserved) /\ ClusterAddressPasses(cidr, a)

-----------------------------------------------------------------------------
\* What the checks are for, said of sets of addresses rather than of masks.
Segment(p) == {a \in Addresses : \E k \in 0 .. Size(p) - 1 :
                    a = p.addr - (p.addr % Size(p)) + k}

\* The addresses a host may hold: not the segment's own and, where there is
\* one, not its broadcast address.
Hosts(s) == s \ ({Min(s)} \cup (IF Cardinality(s) > 2 THEN {Max(s)} ELSE {}))
=============================================================================
