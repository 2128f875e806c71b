\* Every way in which a file can be unfit, one of two hosts allowed, and a certificate
\* that is renewed while three handshakes are under way.
SPECIFICATION ServingSpec
CONSTANTS
  h1 = h1
  h2 = h2
  i1 = i1
  i2 = i2
  i3 = i3
  Handshakes <- ThreeHandshakes
  Hosts <- TwoHosts
  ServerNames <- Names
  ToASCII <- NamesToASCII
  AllowedHosts <- AllowFirst
  Files <- EveryFile
  RootCAs <- OneRoot
  TTL = 2
  MaxHandshake = 1
  MaxTime = 5
SYMMETRY Symmetric
INVARIANTS ServingInv StaleServedBound
CHECK_DEADLOCK FALSE
