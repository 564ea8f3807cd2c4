CONSTANTS
  w1 = w1
  w2 = w2
  s1 = s1
  s2 = s2
  p1 = p1
  None = None
  Worker <- MCWorkers
  SessionId <- MCOneSession
  Payload <- MCPayloads
  Lifespan = 9
  Day = 2
  StartTime = 5
  MaxTime = 6
  IntMax = 12
  Faults = FALSE
SPECIFICATION Spec
PROPERTIES StoredForLifespan
