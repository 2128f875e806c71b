\* One webhook, one poll whose client may leave while it waits.
SPECIFICATION Spec
CONSTANTS
  Reqs = {r1, r2}
  RequestKinds <- Traffic
  Validator = "noop"
  Tokens <- OneToken
  QueueSize = 2
  DefaultQueueSize = 3
  MaxPayloadSize = 2
  DefaultPayloadLimit = 4
  Expiry = 0
  ScanInterval = 0
  MaxTime = 0
SYMMETRY Symmetric
PROPERTY EmptyAnswerMeansEmptyQueue
CHECK_DEADLOCK FALSE
