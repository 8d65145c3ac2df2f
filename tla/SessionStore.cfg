SPECIFICATION Spec
CONSTANTS
  MaxSessions = 2
  Request = {r1}
  MessageId = {m1}
  h1 = h1
  h2 = h2
  Host <- MCHost
  Option <- MCOption
  None = None
INVARIANTS LaunchIsIdempotent MessageOnce EventsTellAll CountersAreExact
PROPERTIES OutcomeIsFinal SessionsSettle
