SPECIFICATION FairSpec
CONSTANTS
  p1 = p1
  p2 = p2
  r1 = r1
  r2 = r2
  Belveth = Belveth
  Pages <- MCPages
  Requests <- MCRequests
  Champions <- MCChampions
  Durations = {8}
  Limit = 1
  Cores = 2
  Restarts = 1
  NoRequest = NoRequest
  NoPage = NoPage
  NoSelection = NoSelection
  Unread = Unread
INVARIANTS TypeOK
PROPERTIES ImplementsAdmission ButtonReturns
