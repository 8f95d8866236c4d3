SPECIFICATION Spec
CONSTANTS
  VCpu = {c1, c2}
  Bsp = c1
  c1 = c1
  c2 = c2
  VMPL_MAX = 2
  Page = {p1, p2}
  Backed = {p1}
  p1 = p1
  p2 = p2
  Ghcb = {g1}
  g1 = g1
  Creators = {c1}
  MaxEvent = 1
  MaxGhcb = 2
  MaxCreate = 2
  MaxSwitch = 3
INVARIANTS
  VmcbMatchesVmpl
  GhcbKept
  PinsExact
  CreateTakesEffect
PROPERTIES
  VcReachesMonitor
  UpdateTaken
CHECK_DEADLOCK FALSE
