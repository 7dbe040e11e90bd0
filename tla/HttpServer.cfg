SPECIFICATION FairSpec
CONSTANTS
  c1 = c1
  c2 = c2
  c3 = c3
  NoClient = NoClient
  Clients <- AllClients
  Loads <- AllLoads
  MaxClients = 2
  Window = 2
INVARIANTS
  CountsMatch
  NoNewsMissed
  StopLeavesNothing
  StreamsAreDecodable
PROPERTY OnlyUnheardHang
CHECK_DEADLOCK FALSE
