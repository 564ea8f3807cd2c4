CONSTANTS
  v1 = v1
  v2 = v2
  t1 = t1
  b1 = b1
  b2 = b2
  b = b
  a1 = a1
  a2 = a2
  Id = Id
  Empty = Empty
  None = None
  Text <- Texts
  Alias <- Aliases
  Pattern <- Patterns
  Number <- Numbers
  Value <- Values
  Asks <- MCAsks
  Data <- MCData
  Forms <- MCForms
  BodyFaults = TRUE
  Beginning <- MCBeginning
  ByPost = TRUE
  Long = TRUE
  MaxDirectives = 2
  MaxLogins = 2
  Char <- Characters
  MaxLength = 4
SPECIFICATION MCSpec
INVARIANTS TypeOK OwnParamsKept UrlsClean OnlyProviderAnswers GetResponseHasNonce ExtensionsOfThisLogin AttributesHeld NothingMissing NothingElseReplaced HiddenFieldsSurvive TrustRootIgnoresQuery OwnCookieFound
