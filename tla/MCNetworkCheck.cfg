SPECIFICATION Spec
CONSTANTS
    W = 4
    Resolvers <- ResolverLists
    Reserved <- ReservedSegments
INVARIANTS
    AcceptedIsReachable
    ClusterAddressIsHost
