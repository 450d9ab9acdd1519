SPECIFICATION FairSpec
CONSTANTS
  Default = Default
  None = None
  NumLoops = 2
  Gains = {g1}
  Ports = {1, 2}
  Orders <- MCOrders
  Lossy = TRUE
  MaxUp = 2
  MaxDown = 1
  MaxResends = 1
INVARIANTS
  TypeOK
  ResendRestores
PROPERTIES
  ComesBack
  ShownStateSettles
