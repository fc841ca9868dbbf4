SPECIFICATION Spec
CONSTANTS
  Ghosts = {g1}
  Portals = {p1}
  MaxLoops = 2
PROPERTY
  PortalsKeepTheInterval
