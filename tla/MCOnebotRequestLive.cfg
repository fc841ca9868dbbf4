CONSTANTS
  Calls = {k1, k2}
  Conns = {c1, c2}
  NoCall = NoCall
  NoConn = NoConn
  MaxReplies = 1
SPECIFICATION FairSpec
PROPERTIES
  EveryCallReturns
  ReplacedLoopEnds
