CONSTANTS
  Home = Home
  Cafe = Cafe
  Hidden = Hidden
  Key = Key
  c1 = c1
  c2 = c2
  Ssid = {Home, Cafe, Hidden}
  Nameless = Hidden
  NoSecret = NoSecret
  Secret = {Key, NoSecret}
  Torn = Torn
  Erased = Erased
  Blank = Blank
  Entries = 2
  Client = {c1, c2}
  NoItem = NoItem
  Empty = Empty
  MaxAps = 2
SPECIFICATION Spec
INVARIANTS TypeOK AnswersAreWhole
PROPERTIES KeepsNetworks
SYMMETRY MCSymmetry
