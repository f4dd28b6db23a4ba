CONSTANTS
  m1 = m1
  p1 = p1
  p2 = p2
  Machines = {m1}
  Pids = {p1, p2}
  NoPid = NoPid
  Host = Host
  WithTPM = {m1}
  Verbs = {"apply", "delete"}
  MaxPolls = 1
SPECIFICATION Spec
SYMMETRY Symmetry
INVARIANTS
  EverySignalIsGated
