\* Three requests, the default queue size, a ttl of one tick scanned every two.
SPECIFICATION Spec
CONSTANTS
  Reqs = {r1, r2, r3}
  RequestKinds <- Traffic
  Validator = "noop"
  Tokens <- OneToken
  QueueSize = 0
  DefaultQueueSize = 2
  MaxPayloadSize = 2
  DefaultPayloadLimit = 4
  Expiry = 1
  ScanInterval = 2
  MaxTime = 5
SYMMETRY Symmetric
INVARIANTS IInv StalenessBound
PROPERTIES LostOnly IsLossyQueue
CHECK_DEADLOCK FALSE
