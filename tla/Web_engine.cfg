SPECIFICATION Spec
CONSTANTS
  p1 = p1
  p2 = p2
  r1 = r1
  r2 = r2
  Belveth = Belveth
  Pages <- MCPages
  Requests <- MCRequests
  Champions <- MCChampions
  Durations = {8, 60}
  Limit = 1
  Cores = 1
  Restarts = 0
  NoRequest = NoRequest
  NoPage = NoPage
  NoSelection = NoSelection
  Unread = Unread
INVARIANT CountDoesNotMatter
