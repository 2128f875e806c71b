\* Two hosts with every outcome and two calls of stop; every command; two processes
\* that share a certificate store and make three calls, in one of which one may die.
SPECIFICATION FairAcmeSpec
CONSTANTS
  Hosts = {h1, h2}
  Stops = {s1, s2, s3}
  Outcomes = {"ok", "expired", "failed"}
  MainStop = s3
  p1 = p1
  p2 = p2
  Procs = {p1, p2}
  Fleets <- Teams
  StoreNames = {"cert", "cert+rsa", "host+token", "account+key"}
  MaxCalls = 3
  MaxCrashes = 1
INVARIANTS
  ClientInv CommandSound 
PROPERTIES KeepsRefreshing EndsWhenDone CommandEnds
CHECK_DEADLOCK FALSE
