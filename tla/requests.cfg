\* Three addresses with servers of every kind; two requests through the handlers while
\* headers are registered and a file changes; files of two entries, loaded twice.
SPECIFICATION RequestsSpec
CONSTANTS
  Name = 0
  IPv4 = {1, 2}
  IPv6 = {3}
  Options <- Validators
  Servers <- Fleet
  Reqs = {1, 2}
  Asks <- Demands
  Setups <- Configs
  Private = {"p1", "p2"}
  MaxRegs = 2
  MaxChanges = 1
  Texts <- Files
  Patterns <- Grants
  Components = {"", "a", "b", "x"}
  MaxComponents = 3
  Secrets <- UserSecrets
  Keyring <- AllKeys
  Hellos <- Offers
  MaxLoads = 2
INVARIANTS
   AddressDecides GoGetAnswered RegistrationsInOrder
  SettingsSound AllowedIsInclusion ManagerServes
PROPERTY EndsUnlessHandshaking
CHECK_DEADLOCK FALSE
