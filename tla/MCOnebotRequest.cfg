CONSTANTS
  Calls = {k1, k2}
  Conns = {c1, c2}
  NoCall = NoCall
  NoConn = NoConn
  MaxReplies = 2
SPECIFICATION Spec
SYMMETRY Symmetry
INVARIANTS
  AnswerMatchesCall
  WaitersAreCallsUnderWay
  OneLiveConnection
PROPERTIES
  ImplementsAgentCall
