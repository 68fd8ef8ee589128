SPECIFICATION RestartSpec
CONSTANTS
  c1 = c1
  c2 = c2
  c3 = c3
  Clients = {c1, c2}
  FDs = {4, 5, 6, 7, 8, 9, 10, 11, 12, 13}
  Requests <- RestartRequests
  Backlog = 1
  MaxThreads = 2
  MaxProcs = 2
  Prompt = {}
  Leavers = {}
  MaxStarts = 2
\* A server that nobody starts again, and clients that say nothing.
CHECK_DEADLOCK FALSE
INVARIANT OneLife
PROPERTY Restarts
PROPERTY Settled
