SPECIFICATION Spec
CONSTANTS
  t1 = t1
  t2 = t2
  a1 = a1
  k1 = k1
  k2 = k2
  u1 = u1
  s1 = s1
  r1 = r1
  NoKey = NoKey
  NoResource = NoResource
  Threads <- MCThreads
  Actions <- MCActions
  Keys <- MCKeys
  Users <- MCUsers
  Sessions <- MCSessions
  Resources <- MCResources
  Requests <- MCRequests
  TTLs = {1}
  MaxNow = 1
  MaxFaults = 1
INVARIANT
  ExpiredMeansNoMutation
