\* Every kind of malformed request beside good traffic, validated by signature.
SPECIFICATION Spec
CONSTANTS
  Reqs = {r1, r2, r3}
  RequestKinds <- Malformed
  Validator = "signature"
  Tokens <- TwoTokens
  QueueSize = 1
  DefaultQueueSize = 2
  MaxPayloadSize = 0
  DefaultPayloadLimit = 2
  Expiry = 0
  ScanInterval = 0
  MaxTime = 0
SYMMETRY Symmetric
INVARIANT AnswerInv
CHECK_DEADLOCK FALSE
