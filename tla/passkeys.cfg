\* Two browsers, three ceremonies, three Finish requests: a registration and two
\* authentications that overlap, and two browsers that register at the same time.
SPECIFICATION Spec
CONSTANTS
  Clients = {c1, c2}
  MaxCeremonies = 3
  MaxRequests = 3
  LoginDuration = 0
  DefaultDuration = 1
  MaxTime = 1
SYMMETRY Symmetric
INVARIANTS PasskeysSound  VerifiedMeansLoggedIn
PROPERTIES IsOneTimeTicket CounterBackOnlyOnOverlap
CHECK_DEADLOCK FALSE
