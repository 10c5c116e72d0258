SPECIFICATION FairSpec
CONSTANTS
  Pods = {a, b}
  Ports = {p1, p2}
  None = None
  NetnsVanishes = TRUE
  Sticky = {b}
  MaxFailures = 0
PROPERTY DeletedIsReleased
