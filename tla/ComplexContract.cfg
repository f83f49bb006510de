SPECIFICATION Spec
CONSTANTS
  MaxSessions = 2
  MaxConns = 2
  Syncs = 1
  MaxCalls = 3
  MaxFaults = 2
INVARIANTS TypeOK SlotsMatchSessions SlotsReturned SessionInStep
PROPERTIES ImplementsService RequestsEnd ShutdownEnds
\* the providers wait for datagrams: the model stops when MaxCalls have come
CHECK_DEADLOCK FALSE
