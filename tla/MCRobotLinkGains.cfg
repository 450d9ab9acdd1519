SPECIFICATION Spec
CONSTANTS
  Default = Default
  None = None
  NumLoops = 3
  Gains = {g1}
  Ports = {1, 2}
  Orders <- MCAllGains
  Lossy = FALSE
  MaxUp = 1
  MaxDown = 2
  MaxResends = 1
CONSTRAINT MCStays
INVARIANTS
  GainsMatch
