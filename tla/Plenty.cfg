\* Nothing fails: descriptors, threads and children for both clients.
SPECIFICATION FairSpec
CONSTANTS
  c1 = c1
  c2 = c2
  c3 = c3
  Clients = {c1, c2}
  FDs = {4, 5, 6, 7, 8, 9, 10, 11, 12, 13}
  Requests <- CleanRequests
  Backlog = 1
  MaxThreads = 2
  MaxProcs = 2
  Prompt = {c1, c2}
  Leavers = {}
INVARIANT TypeOK
INVARIANT Answered
INVARIANT Survives
INVARIANT SafeReply
PROPERTY Serves
PROPERTY Served
PROPERTY Reaped
