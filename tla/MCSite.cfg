SPECIFICATION Spec
CONSTANTS
    W = 4
    Machines = {"cp0", "cp1"}
    NameOf <- Names
    Files <- SiteFiles
    Reserved <- UserMode
    HostMemory = 6024
INVARIANTS
    BindsSucceed
    RecordIsRunning
    RecordsAgree
PROPERTIES
    JoinerFits
