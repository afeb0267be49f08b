\* Liveness: two clients, one of which may close its connection, a QUIT behind another command.
CONSTANTS
  Client = {c1, c2}
  Fd = {f1, f2}
  Nobody = Nobody
  Listen = Listen
  MaxCommands = 2
  MaxEvents = 20
SPECIFICATION CalmSpec
CHECK_DEADLOCK FALSE
PROPERTIES ClosedFreed QuitLeaves
