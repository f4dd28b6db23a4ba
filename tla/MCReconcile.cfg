CONSTANTS
  vm1 = vm1
  hw1 = hw1
  s1 = s1
  Names = {vm1, hw1}
  Sites = {s1}
  Hardware = {hw1}
  Broken = {hw1}
  Edits = {"power"}
  Finalizer = Finalizer
  Other = Other
  Settled = {hw1}
  MaxUID = 2
  MaxGen = 2
  MaxFaults = 2
SPECIFICATION FairSpec
INVARIANTS
  NoOrphans
  TrueStatuses
PROPERTIES
  ConvergedIsKept
  DeletionCompletes
  Converges
