SPECIFICATION FairSpec
CONSTANTS
  Ghosts = {g1}
  Portals = {p1}
  MaxLoops = 2
INVARIANTS
  NoLoopGetsAway
  OneLoopKeepsTheInterval
PROPERTIES
  ReplacedLoopStops
  EnqueuedIsTaken
