SPECIFICATION RestartSpec
CONSTANTS
  c1 = c1
  c2 = c2
  c3 = c3
  Clients = {c1, c2}
  FDs = {4, 5, 6, 7, 8, 9, 10, 11, 12, 13}
  Requests <- OnePost
  Backlog = 1
  MaxThreads = 2
  MaxProcs = 2
  Prompt = {}
  Leavers = {}
  MaxStarts = 0
CHECK_DEADLOCK FALSE
PROPERTY InputEnds
