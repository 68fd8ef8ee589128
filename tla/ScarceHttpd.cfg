SPECIFICATION Spec
CONSTANTS
  c1 = c1
  c2 = c2
  c3 = c3
  Clients = {c1, c2}
  FDs = {4, 5, 6, 7, 8}
  Requests <- RoughRequests
  Backlog = 1
  MaxThreads = 1
  MaxProcs = 1
  Prompt = {}
  Leavers = {c1, c2}
SYMMETRY Symmetry
INVARIANT Accounting
INVARIANT Answered
INVARIANT OwnAnswers
PROPERTY ClosedByOwner
