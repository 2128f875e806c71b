\* Liveness: three requests, expiry on, the relay may be stopped at any time.
SPECIFICATION FairSpec
CONSTANTS
  Reqs = {r1, r2, r3}
  RequestKinds <- Traffic
  Validator = "noop"
  Tokens <- OneToken
  QueueSize = 1
  DefaultQueueSize = 2
  MaxPayloadSize = 2
  DefaultPayloadLimit = 4
  Expiry = 1
  ScanInterval = 0
  MaxTime = 1
PROPERTIES CancelledFinish StopReleasesPolls NoLostWakeup
CHECK_DEADLOCK FALSE
