CONSTANTS
  Home = Home
  Cafe = Cafe
  Ssid = {Home, Cafe}
  AP <- MCAP
  NetOf <- MCNetOf
  Rssi <- MCRssi
  Steady <- MCSteady
  None = None
  MaxUser = 2
  MaxEvents = 1
SPECIFICATION Spec
INVARIANTS TypeOK NeverSilent ViewIsTrue
PROPERTIES Recovers WishIsTried
CHECK_DEADLOCK FALSE
