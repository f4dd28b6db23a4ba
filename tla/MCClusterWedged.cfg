CONSTANTS
  cp0 = cp0
  cp1 = cp1
  cp2 = cp2
  cp3 = cp3
  Machines = {cp0, cp1}
  Joins <- JoinOwner
  NoMachine = NoMachine
  b1 = b1
  b2 = b2
  b3 = b3
  Bundles = {b1}
  NoBundle = NoBundle
  WithStorage = {}
  DestroyFlags = {"none"}
  Patient = TRUE
  Lossy = FALSE
  MaxKills = 1
  MaxStops = 0
  MaxCuts = 0
SPECIFICATION Spec
PROPERTIES
  WedgedIsDestroyed
