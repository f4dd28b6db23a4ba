CONSTANTS
  cp0 = cp0
  cp1 = cp1
  cp2 = cp2
  cp3 = cp3
  Machines = {cp0, cp1, cp2}
  Joins <- JoinChain
  NoMachine = NoMachine
  b1 = b1
  b2 = b2
  b3 = b3
  Bundles = {b1, b2}
  NoBundle = NoBundle
  WithStorage = {}
  DestroyFlags = {"none", "joiners"}
  Patient = TRUE
  Lossy = FALSE
  MaxKills = 1
  MaxStops = 2
  MaxCuts = 0
SPECIFICATION Spec
SYMMETRY Symmetry
INVARIANTS
  OwnerSecretsKept
  KubeconfigMatches
PROPERTIES
  ImplementsEtcd
