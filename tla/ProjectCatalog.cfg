SPECIFICATION Spec
CONSTANTS
  Request = {r1, r2, r3}
  Name = {a, b}
  Staging = {s1, s2}
  MaxProjects = 2
  MaxCrashes = 1
  None = None
SYMMETRY Symmetry
INVARIANTS OneProjectPerRequest LimitRespected ForeignUntouched LaunchIsOurs RetryIdempotent CallsAreServed
