\* The outcome of a refresh and the status it is counted with.
SPECIFICATION AcmeSpec
CONSTANTS
  Hosts = {h1}
  Stops = {s1}
  Outcomes = {"ok", "expired", "failed"}
  MainStop = s1
  p1 = p1
  p2 = p2
  Procs = {p1, p2}
  Fleets <- Teams
  StoreNames = {"cert"}
  MaxCalls = 1
  MaxCrashes = 0
INVARIANT EveryOutcomeCounted
CHECK_DEADLOCK FALSE
