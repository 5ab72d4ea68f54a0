SPECIFICATION FairPoolSpec
CONSTANTS
  c1 = c1
  c2 = c2
  c3 = c3
  c4 = c4
  f1 = f1
  f2 = f2
  image1 = image1
  None = None
  NoCall = NoCall
  Tokens = {image1}
  SafeTokens = {image1}
  HostRuntimes = {"nodejs", "playwright", "puppeteer"}
  Identifiers = {f1, f2}
  Calls = {c1, c2, c3, c4}
  Request <- Neighbours
  QueueCap = 1
INVARIANTS
  AnswersMatch
  NoCallCutShort
PROPERTIES
  CallsEnd
  OrphansEnd
CHECK_DEADLOCK FALSE
