CONSTANTS
  cp0 = cp0
  cp1 = cp1
  cp2 = cp2
  cp3 = cp3
  Machines = {cp0, cp1}
  Joins <- JoinOwner
  NoMachine = NoMachine
  b1 = b1
  b2 = b2
  b3 = b3
  Bundles = {b1, b2}
  NoBundle = NoBundle
  WithStorage = {cp0}
  DestroyFlags = {"none"}
  Patient = TRUE
  Lossy = FALSE
  MaxKills = 1
  MaxStops = 1
  MaxCuts = 1
SPECIFICATION FairSpec
PROPERTIES
  RetrySucceeds
