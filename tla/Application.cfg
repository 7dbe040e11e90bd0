SPECIFICATION FairSpec
CONSTANTS
  a = a
  b = b
  good = good
  other = other
  silent = silent
  bad = bad
  r1 = r1
  Cameras <- MCCameras
  Versions <- MCVersions
  FirstVersion = good
  NoVersion = NoVersion
  Valid <- MCValid
  CamerasOf <- MCCamerasOf
  WithServer <- MCWithServer
  Clients <- MCClients
  Nobody = Nobody
  Main = Main
  MaxHups = 2
  MaxEvents = 2
INVARIANTS
  OneGeneration
  HooksAlternate
  ReloadIsWhole
PROPERTIES
  ReloadAnswered
  TermEndsProgram
