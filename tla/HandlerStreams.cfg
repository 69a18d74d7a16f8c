SPECIFICATION Spec
CONSTANTS
  s1 = s1
  s2 = s2
  x = x
  y = y
  done = done
  pause = pause
  bad = bad
  t = t
  Calls <- ControlCalls
  Similar <- NoneAlike
  Steps = {0, 1}
  Window = 3
  ExactThreshold = 2
  SimilarThreshold = 3
  Tools = {t}
  ToolOf <- OneTool
  Kind <- CallKinds
  MaxCalls = 1
  Sessions = {s1, s2}
  Direct = {}
  MaxSteps = 2
  Nobody = Nobody
PROPERTIES ImplementsRunProtocol EveryRunEnds
