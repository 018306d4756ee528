CONSTANTS
  ann = ann
  bob = bob
  Users <- People
  Grace = 1
  BatchLimit = 1
  MaxIterations = 2
  Workers = 2
  Faults = {"crash", "refused", "lost"}
  Budget = 3
  Horizon = 1
SPECIFICATION Spec
INVARIANTS WelcomedIsComplete AgreesWithChat
PROPERTIES PurgeIsDue GoneInTheEnd
CHECK_DEADLOCK FALSE
