\* A write event is requested for a client that ends in the same batch.
CONSTANTS
  Client = {c1, c2}
  Fd = {f1, f2}
  Nobody = Nobody
  Listen = Listen
  MaxCommands = 1
  MaxEvents = 20
SPECIFICATION Spec
CHECK_DEADLOCK FALSE
PROPERTY Dispatch
