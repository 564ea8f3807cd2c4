CONSTANTS
  w1 = w1
  w2 = w2
  n1 = n1
  op1 = op1
  op2 = op2
  h1 = h1
  rn1 = rn1
  None = None
  Worker <- MCWorkers
  Nonce <- OneNonce
  Server <- MCServers
  Handle <- OneHandle
  ResponseNonce <- MCResponseNonces
  AssocTerm <- MCAssocTerms
  Hour = 1
  StartTime = 9
  MaxTime = 11
  IntMax = 15
  Faults = TRUE
SPECIFICATION Spec
SYMMETRY MCSymmetry
INVARIANTS TypeOK OneEndpointPerLogin AcceptedNonceRecorded NoStaleLogin KilledStaysDead
PROPERTIES DroppedOnlyWhenDue ImplementsAttempts
