--------------------------- MODULE GroupRoomProofs ---------------------------
(***************************************************************************)
(* Proofs about GroupRoom for every group, every set of names and any      *)
(* number of troubles.                                                     *)
(***************************************************************************)
EXTENDS GroupRoom, TLAPS

USE GroupAssumption

Rooms == [exists: BOOLEAN, members: SUBSET Members, admins: SUBSET Members,
          name: 0..2, avatar: Avatar]

(* The names of a group's members are names, and its admins are members.   *)
LEMMA GroupFacts ==
  ASSUME NEW g \in GroupInfo
  PROVE  /\ InGroup(g) \subseteq Members /\ Admins(g) \subseteq InGroup(g)
         /\ \A m \in Members : DisplayName(g, m) \in Nicks \cup Cards
         /\ \A m \in Members : g.member[m].nick \in Nicks
         /\ g.name \in {1, 2} /\ g.pic \in 0..2
  BY DEF GroupInfo, NoPicture, MemberInfo, InGroup, Admins, DisplayName

(* The initial states have their types.                                    *)
LEMMA InitTypeOK == Init => TypeOK
<1> SUFFICES ASSUME Init PROVE TypeOK
  OBVIOUS
<1>1. group \in GroupInfo
  <2>1. (CHOOSE n \in Nicks : TRUE) \in Nicks
    OBVIOUS
  <2> QED
    BY <2>1 DEF Init, GroupInfo, NoPicture, MemberInfo
<1>2. NoAnswer \in GroupInfo
  BY <1>1 DEF NoAnswer
<1>3. room \in Rooms /\ room.admins \subseteq room.members
  BY DEF Init, NoRoom, NoPicture, ErrorPage, Avatar, Rooms
<1>4. {FALSE, TRUE} \subseteq BOOLEAN
  OBVIOUS
<1>5. {retried, enqueued, clean} \subseteq BOOLEAN
  BY <1>4, Zenon DEF Init
<1> QED
  BY <1>1, <1>2, <1>3, <1>5 DEF Init, TypeOK, Rooms

(* Every change of the group is a group.                                   *)
LEMMA GroupChangesTyped == TypeOK /\ GroupChanges => TypeOK'
<1> SUFFICES ASSUME TypeOK, GroupChanges PROVE TypeOK'
  OBVIOUS
<1> USE DEF TypeOK
<1>1. group' \in GroupInfo
  <2>1. ASSUME NEW m \in Members, NEW i \in MemberInfo,
               group' = [group EXCEPT !.member = [@ EXCEPT ![m] = i]]
        PROVE  group' \in GroupInfo
    BY <2>1 DEF GroupInfo
  <2>2. ASSUME NEW m \in Members, NEW n \in Nicks, NEW c \in Cards \cup {NoName}
        PROVE  /\ [group.member[m] EXCEPT !.in = ~ @] \in MemberInfo
               /\ [group.member[m] EXCEPT !.admin = ~ @] \in MemberInfo
               /\ [group.member[m] EXCEPT !.nick = n] \in MemberInfo
               /\ [group.member[m] EXCEPT !.card = c] \in MemberInfo
    <3>1. group.member[m] \in MemberInfo
      BY DEF GroupInfo
    <3> QED
      BY <3>1 DEF MemberInfo
  <2>3. [group EXCEPT !.name = 3 - @] \in GroupInfo
    BY DEF GroupInfo
  <2>4. \A pic \in {NoPicture, 1, 2} : [group EXCEPT !.pic = pic] \in GroupInfo
    BY DEF GroupInfo
  <2> QED
    BY <2>1, <2>2, <2>3, <2>4 DEF GroupChanges
<1>2. troubles' \in 0..MaxTroubles
  BY DEF GroupChanges, Trouble
<1> QED
  BY <1>1, <1>2 DEF GroupChanges, portalVars

(* Trouble is counted within its bound.                                    *)
LEMMA TroubleTyped == troubles \in 0..MaxTroubles /\ Trouble => troubles' \in 0..MaxTroubles
  BY DEF Trouble

(* The room that is made of an answer is a room, and so are its names.     *)
LEMMA RoomTyped == TypeOK /\ GetGroupMemberList => TypeOK'
<1> SUFFICES ASSUME TypeOK, GetGroupMemberList PROVE TypeOK'
  OBVIOUS
<1> USE DEF TypeOK
<1>1. PICK a \in Avatar :
        /\ WrapAvatar(answer, a)
        /\ room' = [exists |-> TRUE, members |-> InGroup(group),
                    admins |-> Admins(group), name |-> answer.name, avatar |-> a]
  BY DEF GetGroupMemberList
<1>2. room' \in Rooms /\ room'.admins \subseteq room'.members
  <2>1. /\ InGroup(group) \in SUBSET Members /\ Admins(group) \in SUBSET Members
        /\ Admins(group) \subseteq InGroup(group) /\ answer.name \in 0..2
    BY GroupFacts
  <2> QED
    BY <1>1, <2>1 DEF Rooms
<1>3. shown' \in [Members -> Nicks \cup Cards \cup {NoName}]
  BY DEF GetGroupMemberList
<1>4. NoAnswer \in GroupInfo
  BY DEF NoAnswer
<1>5. troubles' \in 0..MaxTroubles
  BY <1>1, TroubleTyped DEF WrapAvatar
<1> QED
  BY <1>2, <1>3, <1>4, <1>5 DEF GetGroupMemberList, Rooms

(* The steps between a round's requests.                                   *)
LEMMA PortalTyped == TypeOK /\ Portal => TypeOK'
<1> SUFFICES ASSUME TypeOK, Portal PROVE TypeOK'
  OBVIOUS
<1> USE DEF TypeOK
<1>1. NoAnswer \in GroupInfo
  BY DEF NoAnswer
<1>2. TRUE \in BOOLEAN /\ FALSE \in BOOLEAN
  OBVIOUS
<1>3. CASE Begin
  BY <1>2, <1>3 DEF Begin
<1>4. CASE GetGroupInfo
  BY <1>4 DEF GetGroupInfo
<1>5. CASE GetGroupMemberList
  BY <1>5, RoomTyped
<1>6. CASE ChatInfoFails
  <2>1. troubles' \in 0..MaxTroubles
    BY <1>6, TroubleTyped DEF ChatInfoFails
  <2>2. {retried', enqueued', clean'} \subseteq BOOLEAN
    BY <1>2, <1>6 DEF ChatInfoFails
  <2>3. /\ events' \in Seq({"message", "resync"})
        /\ step' \in {"idle", "group"} /\ (step' # "idle" => events' # <<>>)
    BY <1>6 DEF ChatInfoFails, Done
  <2> QED
    BY <1>1, <1>6, <2>1, <2>2, <2>3 DEF ChatInfoFails
<1>7. CASE ConvertMessage
  <2>1. {retried', enqueued', clean'} \subseteq BOOLEAN
    BY <1>2, <1>7 DEF ConvertMessage
  <2>2. /\ events' \in Seq({"message", "resync"})
        /\ step' \in {"idle", "fetch"} /\ (step' # "idle" => events' # <<>>)
    BY <1>7 DEF ConvertMessage, Done
  <2> QED
    BY <1>7, <2>1, <2>2 DEF ConvertMessage
<1>8. CASE FetchNames
  BY <1>8, GroupFacts DEF FetchNames
<1>9. CASE FetchNamesFails
  <2>1. troubles' \in 0..MaxTroubles
    BY <1>9, TroubleTyped DEF FetchNamesFails
  <2>2. {retried', enqueued', clean'} \subseteq BOOLEAN
    BY <1>2, <1>9 DEF FetchNamesFails
  <2> QED
    BY <1>9, <2>1, <2>2 DEF FetchNamesFails, Done
<1>10. CASE EndNames
  BY <1>1, <1>10 DEF EndNames, Done
<1>11. ASSUME NEW m \in Members, UpdateName(m) PROVE TypeOK'
  BY <1>11, GroupFacts DEF UpdateName
<1>12. ASSUME NEW m \in Members, UpdateNameFails(m) PROVE TypeOK'
  <2>1. troubles' \in 0..MaxTroubles
    BY <1>12, TroubleTyped DEF UpdateNameFails
  <2>2. {retried', enqueued', clean'} \subseteq BOOLEAN
    BY <1>2, <1>12 DEF UpdateNameFails
  <2> QED
    BY <1>12, <2>1, <2>2 DEF UpdateNameFails
<1> QED
  BY <1>3, <1>4, <1>5, <1>6, <1>7, <1>8, <1>9, <1>10, <1>11, <1>12 DEF Portal

(* However the group, its messages, the resync and the portal interleave,  *)
(* the room only has members and admins of a group, names that a member    *)
(* may have, and a step under way always has its event.                    *)
THEOREM TypeCorrect == Spec => []TypeOK
<1>1. TypeOK /\ [Next]_vars => TypeOK'
  <2> SUFFICES ASSUME TypeOK, [Next]_vars PROVE TypeOK'
    OBVIOUS
  <2>1. CASE GroupChanges
    BY <2>1, GroupChangesTyped
  <2>2. CASE MessageArrives
    <3> USE DEF TypeOK
    <3>1. events' \in Seq({"message", "resync"}) /\ events' # <<>>
      BY <2>2 DEF MessageArrives
    <3> QED
      BY <2>2, <3>1 DEF MessageArrives
  <2>3. CASE ResyncLoop
    <3> USE DEF TypeOK
    <3>1. troubles' \in 0..MaxTroubles
      BY <2>3, TroubleTyped DEF ResyncLoop
    <3>2. {retried', enqueued', clean'} \subseteq BOOLEAN
      <4>1. FALSE \in BOOLEAN
        OBVIOUS
      <4> QED
        BY <2>3, <4>1 DEF ResyncLoop
    <3>3. events' \in Seq({"message", "resync"}) /\ (events # <<>> => events' # <<>>)
      BY <2>3 DEF ResyncLoop
    <3> QED
      BY <2>3, <3>1, <3>2, <3>3 DEF ResyncLoop
  <2>4. CASE Portal
    BY <2>4, PortalTyped
  <2>5. ASSUME NEW m \in Members, GhostIsNamed(m) PROVE TypeOK'
    BY <2>5, GroupFacts DEF GhostIsNamed, TypeOK
  <2>6. CASE UNCHANGED vars
    BY <2>6 DEF vars, portalVars, TypeOK
  <2> QED
    BY <2>1, <2>2, <2>3, <2>4, <2>5, <2>6 DEF Next
<1> QED
  BY <1>1, InitTypeOK, PTL DEF Spec

-----------------------------------------------------------------------------
(* The members, the power levels and the name of the room were seen.       *)
RoomSeen ==
  /\ \E g \in seen : room.members = InGroup(g) /\ room.admins = Admins(g)
  /\ \E g \in seen : room.name = g.name

(* What a round without failures has done so far: an answer that is held   *)
(* was seen in this round, so was the room once it is made of one, and so  *)
(* are the names of the members that updateMemberDisplayname is through    *)
(* with.                                                                   *)
RoundInv ==
  /\ group \in seen
  /\ clean =>
       /\ step \in {"members", "names"} => answer \in seen
       /\ step \in {"convert", "fetch", "names"} => RoomSeen
       /\ step = "names" => \A m \in (room.members \cap InGroup(answer)) \ naming :
                              shown[m] = DisplayName(answer, m)
  /\ RoomIsAsSeen

(* In the group, only more is seen.                                        *)
LEMMA ChangesKeepRound == RoundInv /\ GroupChanges => RoundInv'
<1> SUFFICES ASSUME RoundInv, GroupChanges PROVE RoundInv'
  OBVIOUS
<1>1. /\ seen' = seen \cup {group'}
      /\ UNCHANGED <<room, shown, step, answer, naming, clean>>
  BY DEF GroupChanges, portalVars
<1>2. RoomSeen => RoomSeen'
  BY <1>1 DEF RoomSeen, InGroup, Admins
<1>3. RoomIsAsSeen'
  BY <1>1 DEF RoundInv, RoomIsAsSeen, InGroup, Admins, DisplayName
<1> QED
  BY <1>1, <1>2, <1>3 DEF RoundInv, InGroup, DisplayName

(* Every step of the portal.                                               *)
LEMMA PortalKeepsRound == TypeOK /\ RoundInv /\ Portal => RoundInv'
<1> SUFFICES ASSUME TypeOK, RoundInv, Portal PROVE RoundInv'
  OBVIOUS
<1> USE DEF RoundInv, RoomIsAsSeen, RoomSeen, InGroup, Admins, DisplayName
<1>1. CASE Begin
  BY <1>1 DEF Begin
<1>2. CASE GetGroupInfo
  BY <1>2 DEF GetGroupInfo
<1>3. CASE GetGroupMemberList
  <2>1. /\ seen' = seen /\ group' = group /\ clean' = clean
        /\ step' \in {"fetch", "convert"}
        /\ room'.members = InGroup(group) /\ room'.admins = Admins(group)
        /\ room'.name = answer.name
    BY <1>3 DEF GetGroupMemberList
  <2>2. clean => answer \in seen
    BY <1>3 DEF GetGroupMemberList
  <2> QED
    BY <2>1, <2>2
<1>4. CASE ChatInfoFails
  BY <1>4 DEF ChatInfoFails
<1>5. CASE ConvertMessage
  BY <1>5 DEF ConvertMessage, Done
<1>6. CASE FetchNames
  BY <1>6 DEF FetchNames
<1>7. CASE FetchNamesFails
  BY <1>7 DEF FetchNamesFails
<1>8. CASE EndNames
  BY <1>8 DEF EndNames, Done
<1>9. ASSUME NEW m \in Members, UpdateName(m) PROVE RoundInv'
  <2>1. /\ step = "names" /\ step' = "names" /\ naming' = naming \ {m}
        /\ UNCHANGED <<seen, group, clean, room, answer>>
    BY <1>9 DEF UpdateName
  <2>2. \A n \in (room.members \cap InGroup(answer)) \ naming' :
          n = m \/ n \in (room.members \cap InGroup(answer)) \ naming
    BY <2>1
  <2>3. \A n \in room.members : shown'[n] = IF n = m THEN DisplayName(answer, m)
                                                    ELSE shown[n]
    BY <1>9 DEF UpdateName, TypeOK
  <2> QED
    BY <2>1, <2>2, <2>3
<1>10. ASSUME NEW m \in Members, UpdateNameFails(m) PROVE RoundInv'
  BY <1>10 DEF UpdateNameFails
<1> QED
  BY <1>1, <1>2, <1>3, <1>4, <1>5, <1>6, <1>7, <1>8, <1>9, <1>10 DEF Portal

(* A round of requests that no failure disturbed leaves a room of which    *)
(* nothing is older than the round, whatever happened in the group while   *)
(* it went on (handle_onebot.go:133-151, chatinfo.go:105-163, 324-360).    *)
THEOREM RoundsAreFresh == Spec => []RoomIsAsSeen
<1>1. Init => RoundInv
  BY DEF Init, NoRoom, RoundInv, RoomIsAsSeen
<1>2. TypeOK /\ RoundInv /\ [Next]_vars => RoundInv'
  <2> SUFFICES ASSUME TypeOK, RoundInv, [Next]_vars PROVE RoundInv'
    OBVIOUS
  <2> USE DEF RoundInv, RoomIsAsSeen, RoomSeen, InGroup, Admins, DisplayName
  <2>1. CASE GroupChanges
    BY <2>1, ChangesKeepRound
  <2>2. CASE MessageArrives \/ ResyncLoop
    BY <2>2 DEF MessageArrives, ResyncLoop
  <2>3. CASE Portal
    BY <2>3, PortalKeepsRound
  <2>4. ASSUME NEW m \in Members, GhostIsNamed(m) PROVE RoundInv'
    BY <2>4 DEF GhostIsNamed
  <2>5. CASE UNCHANGED vars
    BY <2>5 DEF vars, portalVars
  <2> QED
    BY <2>1, <2>2, <2>3, <2>4, <2>5 DEF Next
<1>3. RoundInv => RoomIsAsSeen
  BY DEF RoundInv
<1> QED
  BY <1>1, <1>2, <1>3, TypeCorrect, PTL DEF Spec
=============================================================================
