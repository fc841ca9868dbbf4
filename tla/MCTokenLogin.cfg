CONSTANTS
  Tokens = {t1, t2}
  Accounts = {a1, a2}
  Conns = {c1, c2}
  NoClient = NoClient
  NoConn = NoConn
  NoAccount = NoAccount
  MaxCrashes = 2
SPECIFICATION FairSpec
CHECK_DEADLOCK FALSE
INVARIANTS
  TypeOK
  CompleteLoginIsReachable
  AgentIsTheLogin
  ReleasedIsGone
PROPERTIES
  SavedLoginComesBack
CONSTRAINTS Ordered Bounded
