SPECIFICATION Spec
CONSTANTS
    W = 4
    Generator = 14
    DefaultKube <- BuildKube
    KubeBounds <- Compatibility
    EphemeralFloor = 8
    OwnerEndpoint = 13
    Manifests <- ConfigFiles
    Disks <- NodeDisks
    Links <- NodeLinks
    NodeVersions = {12, 14}
    Upgrades = {14}
    MaxBundles = 3
INVARIANTS
    TrustKept
    RecordMatchesLayout
    UneditedIsUnchanged
    InstallWorks
PROPERTIES
    RecordFollowsNode
    KubernetesFits
