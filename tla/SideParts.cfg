SPECIFICATION SpecParts
CONSTANTS
  x = x
  y = y
  z = z
  Calls <- AllCalls
  Similar <- AlikeCalls
  Steps = {0, 1, 2}
  Window = 4
  ExactThreshold = 3
  SimilarThreshold = 3
  r1 = r1
  r2 = r2
  a = a
  b = b
  Requests = {r1, r2}
  Ids = {a, b}
  IdOf <- SharedId
  Clients = {c1}
  NoRequest = NoRequest
  Pollers = {t1, t2, t3}
INVARIANTS CountsMatchWindow ExactLoopMeansRepeated
PROPERTIES HandlersKeepConsent PollingFollowsFlag
