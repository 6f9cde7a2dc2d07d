SPECIFICATION Spec
CONSTANTS
  d1 = d1
  d2 = d2
  d3 = d3
  Profile = {d1, d2, d3}
  MaxPulls = 2
  Faults = {"crash", "power"}
  Absent = Absent
INVARIANTS
  GateMeansWhole
  OutcomeIsTrue
PROPERTIES
  NoMoveUnderBrowser
  LeasesReturned
CHECK_DEADLOCK FALSE
