\* Two descriptors and two addresses: both are reused.
CONSTANTS
  Client = {c1, c2}
  Fd = {f1, f2}
  Nobody = Nobody
  Listen = Listen
  MaxCommands = 2
  MaxEvents = 4
SPECIFICATION Spec
SYMMETRY Symmetry
CHECK_DEADLOCK FALSE
INVARIANTS TypeOK ClientsMatchConnections PointersLive EndedCollected CommandsRegistered
PROPERTIES WakeupKept TimerKept
