SPECIFICATION FairSpec
CONSTANTS
  Members = {m1, m2}
  Nicks = {"nick", "newnick"}
  Cards = {"card"}
  MaxTroubles = 2
  MaxQueue = 1
INVARIANTS
  RoomIsAsSeen
PROPERTIES
  RoomCatchesUp
