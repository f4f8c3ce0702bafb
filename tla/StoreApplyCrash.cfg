SPECIFICATION Spec
CONSTANTS
  Appliers = {p1, p2}
  Renderers = {q1}
  Forced = {q1}
  Restorers = {}
  ConfWriters = {}
  TacacsOnly = {p2}
  Hand = {}
  FileEditAt = {}
  ArtEditAt = {}
  NArt = 2
  Retention = 1
  Faults = {"crash", "record", "restart"}
  NoOne = NoOne
  NoFile = NoFile
  p1 = p1
  p2 = p2
  q1 = q1
INVARIANT AcknowledgedStays
INVARIANT OkMeansRendered
CHECK_DEADLOCK FALSE
