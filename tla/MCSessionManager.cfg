CONSTANTS
  w1 = w1
  w2 = w2
  s1 = s1
  s2 = s2
  p1 = p1
  None = None
  Worker <- MCWorkers
  SessionId <- MCSessionIds
  Payload <- MCPayloads
  Lifespan = 1
  Day = 2
  StartTime = 5
  MaxTime = 7
  IntMax = 15
  Faults = TRUE
SPECIFICATION FairSpec
INVARIANTS TypeOK NoExpiredSession OneSessionPerId
PROPERTIES ImplementsLeases CallReturns
