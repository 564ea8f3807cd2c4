CONSTANTS
  v1 = v1
  v2 = v2
  t1 = t1
  b1 = b1
  b2 = b2
  b = b
  a1 = a1
  a2 = a2
  Id = Id
  Empty = Empty
  None = None
  Text <- Texts
  Alias <- Aliases
  Pattern <- Patterns
  Number <- Numbers
  Value <- Values
  Asks <- MCAsks
  Data <- MCData
  Forms <- NoForms
  BodyFaults = FALSE
  Beginning <- MCBeginning
  ByPost = FALSE
  Long = FALSE
  MaxDirectives = 1
  MaxLogins = 1
  Char <- Characters
  MaxLength = 3
SPECIFICATION MCSpec
INVARIANTS NeedlesReplaced
