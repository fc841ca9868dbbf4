SPECIFICATION Spec
CONSTANTS
  Users = {1, 2}
  Groups = {1}
  Self = 2
  MaxMessages = 2
  MaxEvents = 4
  MaxRestarts = 1
CHECK_DEADLOCK FALSE
INVARIANTS
  TypeOK
  ChatsStayApart
  RepliesKeepTheirTarget
PROPERTIES
  ImplementsRoomFeed
