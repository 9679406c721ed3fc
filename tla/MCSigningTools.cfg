SPECIFICATION Spec
CONSTANTS
  Threads = {t1, t2}
  MainThread = t1
  Length <- TwoOfEach
  Start = 30
  MaxClock = 32
  Skew = 1
  Expirations = {1, 2}
  Keys <- SomeKeys
  ParamTexts <- ParamTextsUpTo4
  HeaderTexts <- HeaderTextsUpTo4
INVARIANTS
  TypeOK
  StampsOtherwise
  ParametersAsTyped
  HeadersAsTyped
  AcceptedOtherwise
