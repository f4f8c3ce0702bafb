SPECIFICATION Spec
CONSTANTS
  Appliers = {p1}
  Renderers = {q1}
  Forced = {q1}
  Restorers = {r1}
  ConfWriters = {c1}
  TacacsOnly = {p1}
  Hand = {h1}
  FileEditAt = {"start", "stage", "keep", "install", "record", "restore", "restore_rec", "undo_store", "undo_conf"}
  ArtEditAt = {"start"}
  NArt = 2
  Retention = 2
  Faults = {"writer","render","install","record","snapshot","copy"}
  NoOne = NoOne
  c1 = c1
  NoFile = NoFile
  h1 = h1
  p1 = p1
  q1 = q1
  r1 = r1
CHECK_DEADLOCK FALSE
INVARIANTS AllOrNothing DaemonIsCurrent UndoKept HandEditKept
PROPERTIES OnlyForceDiscards
