SPECIFICATION FairSpec
CONSTANTS
  t1 = t1
  t2 = t2
  a1 = a1
  a2 = a2
  k1 = k1
  k2 = k2
  u1 = u1
  s1 = s1
  r1 = r1
  g1 = g1
  g2 = g2
  g3 = g3
  NoKey = NoKey
  None = None
  Threads <- MCThreads
  Stores <- MCStores
  Actions <- MCActions
  Keys <- MCKeys
  Users = {u1}
  Sessions = {s1}
  Resources = {r1}
  Calls <- MCCalls
  Quiet = TRUE
  MaxFaults = 1
INVARIANTS
  TypeOK
  ReservationIsExclusive
  ChangesAreDurable
PROPERTIES
  ImplementsAtomicStore
  LockIsReleased
