SPECIFICATION Spec
CONSTANTS
  c1 = c1
  c2 = c2
  c3 = c3
  Clients = {c1, c2, c3}
  FDs = {4, 5, 6, 7, 8}
  Requests <- PageRequests
  Backlog = 1
  MaxThreads = 3
  MaxProcs = 0
  Prompt = {}
  Leavers = {}
SYMMETRY Symmetry
INVARIANT OwnPages
