\* Five requests on a queue of two, no expiry: polls and posts in every number.
SPECIFICATION Spec
CONSTANTS
  Reqs = {r1, r2, r3, r4, r5}
  RequestKinds <- Traffic
  Validator = "noop"
  Tokens <- OneToken
  QueueSize = 2
  DefaultQueueSize = 3
  MaxPayloadSize = 2
  DefaultPayloadLimit = 4
  Expiry = 0
  ScanInterval = 0
  MaxTime = 0
SYMMETRY Symmetric
INVARIANTS DeliveriesSound 
CHECK_DEADLOCK FALSE
