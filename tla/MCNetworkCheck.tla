--------------------------- MODULE MCNetworkCheck ---------------------------
EXTENDS NetworkCheck

\* No resolver, one, one that is IPv6 beside one that is not.
ResolverLists == {{}, {1}, {1, SixAddress}}

\* Two reserved segments of different lengths.
ReservedSegments == {[addr |-> 4, bits |-> 3], [addr |-> 9, bits |-> 4]}
=============================================================================
