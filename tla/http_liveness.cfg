SPECIFICATION PersistentSpec
CONSTANTS
  t1 = t1
  t2 = t2
  a1 = a1
  a2 = a2
  k1 = k1
  k2 = k2
  alice = alice
  bob = bob
  s1 = s1
  s2 = s2
  r1 = r1
  r2 = r2
  c1 = c1
  NoKey = NoKey
  NoResource = NoResource
  None = None
  GeneratedIds = {a1}
  Missing = {"command"}
  Threads <- MCThreads
  Actions = {a1, a2}
  Keys = {k1, k2}
  Users = {alice, bob}
  Sessions = {s1, s2}
  Resources = {r1, r2}
  Clients = {c1}
  HttpRequests <- MCFewRequests
  Repeated <- MCRepeated
  Requests <- MCFewServiceRequests
  TTLs = {1}
  MaxNow = 1
  MaxFaults = 0
  MaxLosses = 1
VIEW Visible
PROPERTIES
  EveryCallAnswered
  LocksAreReleased
  RetriedApplyConcludes
