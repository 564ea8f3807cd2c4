CONSTANTS
  w1 = w1
  w2 = w2
  b1 = b1
  b2 = b2
  s1 = s1
  s2 = s2
  n1 = n1
  n2 = n2
  op1 = op1
  op2 = op2
  host = host
  Empty = Empty
  None = None
  Place <- UnrequiredPlaces
  Config <- Unrequired
  Worker <- OneWorker
  Browser <- OneBrowser
  SessionId <- MCSessionIds
  Nonce <- MCNonces
  Server <- OneServer
  Approved <- OneBrowser
  Hanging <- NoBrowser
  Lifespan = 1
  Day = 5
  Hour = 1
  StartTime = 1
  MaxTime = 2
  Faults = TRUE
  Reloads = TRUE
SPECIFICATION Spec
INVARIANTS UserNamed
