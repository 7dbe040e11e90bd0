SPECIFICATION FairSpec
CONSTANTS
  c1 = c1
  c2 = c2
  c3 = c3
  NoClient = NoClient
  Clients <- AllClients
  Loads <- JpegLoad
  MaxClients = 1
  Window = 2
PROPERTY StopReturns
CHECK_DEADLOCK FALSE
