CONSTANTS
  w1 = w1
  w2 = w2
  b1 = b1
  b2 = b2
  s1 = s1
  s2 = s2
  n1 = n1
  n2 = n2
  op1 = op1
  op2 = op2
  host = host
  Empty = Empty
  None = None
  Place <- RootedPlaces
  Config <- Rooted
  Worker <- MCWorkers
  Browser <- MCBrowsers
  SessionId <- MCSessionIds
  Nonce <- MCNonces
  Server <- OneServer
  Approved <- MCBrowsers
  Hanging <- OtherBrowser
  Lifespan = 1
  Day = 5
  Hour = 1
  StartTime = 1
  MaxTime = 1
  Faults = FALSE
  Reloads = FALSE
SPECIFICATION FairSpec
PROPERTIES LoginCompletes
