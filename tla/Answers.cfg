SPECIFICATION SuiteSpec
CONSTANTS
  c1 = c1
  c2 = c2
  Callers = {c1, c2}
  MaxCalls = 3
  Writers = {"w1", "w2"}
  Values = {"p", "q"}
  Attempts = 2
  MaxSends = 2
  MaxWire = 1
  MaxTouches = 1
CHECK_DEADLOCK FALSE
INVARIANTS PendingIsExact AnswersAreOwn
PROPERTIES CallsEnd ShownSettles
