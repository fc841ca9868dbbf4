------------------------------ MODULE GroupRoom ------------------------------
(***************************************************************************)
(* The room of a group and the group itself (pkg/connector/chatinfo.go and *)
(* handle_onebot.go, pkg/onebot/api.go, pkg/util/util.go).                 *)
(*                                                                         *)
(* The first message of a group creates the room from two requests, for    *)
(* the group and for its members; once the message is handled a third one  *)
(* fetches the members again, for the names they have in the group.  Every *)
(* message puts the portal into the resync queue, and a resync does the    *)
(* same three requests.  Nothing else tells the bridge of a change of the  *)
(* group, which may happen between any two requests.                       *)
(*                                                                         *)
(* External: the portal handles one event at a time, asks the PylonClient  *)
(* once more when the event had no info for a room to be created, makes    *)
(* joins, leaves and power levels of the members it is given, removes an   *)
(* avatar or, when its ID has changed, loads it, and loads it again after  *)
(* a load that failed; the homeserver gives a joining ghost, and any ghost *)
(* that is renamed, its global name in the room as well.                   *)
(***************************************************************************)
EXTENDS Naturals, Sequences

CONSTANTS
  Members,       \* the accounts that may be in the group
  Nicks, Cards,  \* their nicknames, and the names they may have in the group
  MaxTroubles,   \* bound: the changes to the group and the failures, together
  MaxQueue       \* bound: the messages waiting at the portal

NoName == "none"    \* no card, or a ghost that has no name yet

ASSUME GroupAssumption ==
  /\ Nicks # {} /\ NoName \notin Nicks \cup Cards
  /\ MaxTroubles \in Nat /\ MaxQueue \in Nat

(* MemberInfo and GroupInfo as the agent would answer them; in and admin   *)
(* are whether the account is in the list, and its role.                   *)
MemberInfo == [in: BOOLEAN, admin: BOOLEAN, nick: Nicks, card: Cards \cup {NoName}]
(* ErrorPage is what a host may answer instead of a picture.               *)
NoPicture == 0
ErrorPage == 3
GroupInfo == [member: [Members -> MemberInfo], name: {1, 2}, pic: {NoPicture, 1, 2}]
Avatar == [id: 0..2, pic: 0..ErrorPage]

VARIABLES
  agent,     \* "NapCat" (or LLOneBot) or "WeChat"
  group,     \* the group
  room,      \* the room: exists, members, admins, name, avatar
  shown,     \* shown[m]: the name of the ghost of m in the room
  ghost,     \* ghost[m]: its global name
  events,    \* the events waiting at the portal; the first is being handled
  step,      \* where the handling of the first event is
  retried,   \* the bridge asked the PylonClient again
  answer,    \* the answer to the last request
  naming,    \* the members updateMemberDisplayname has yet to go through
  enqueued,  \* the portal is in the resync queue
  troubles,  \* the changes to the group and the failures so far
  seen,      \* history: the group since the last round of requests began
  clean      \* history: that round had no failure, and no ghost was renamed

portalVars == <<room, shown, events, step, retried, answer, naming, enqueued>>
vars == <<agent, group, ghost, portalVars, troubles, seen, clean>>

InGroup(g) == {m \in Members : g.member[m].in}
Admins(g) == {m \in InGroup(g) : g.member[m].admin}

(* No answer is held.                                                      *)
NoAnswer == CHOOSE g \in GroupInfo : TRUE

(* cmp.Or(member.Card, member.Nickname)                                    *)
DisplayName(g, m) ==
  IF g.member[m].card # NoName THEN g.member[m].card ELSE g.member[m].nick

NoRoom == [exists |-> FALSE, members |-> {}, admins |-> {}, name |-> 0,
           avatar |-> [id |-> NoPicture, pic |-> NoPicture]]

Init ==
  /\ agent \in {"NapCat", "WeChat"}
  /\ \E in \in SUBSET Members :
       group = [member |-> [m \in Members |->
                  [in |-> m \in in, admin |-> FALSE, nick |-> CHOOSE n \in Nicks : TRUE,
                   card |-> NoName]],
                name |-> 1, pic |-> 1]
  /\ room = NoRoom
  /\ shown = [m \in Members |-> NoName] /\ ghost = [m \in Members |-> NoName]
  /\ events = <<>> /\ step = "idle" /\ retried = FALSE /\ answer = NoAnswer
  /\ naming = {} /\ enqueued = FALSE
  /\ troubles = 0 /\ seen = {group} /\ clean = TRUE

Trouble == troubles < MaxTroubles /\ troubles' = troubles + 1

-----------------------------------------------------------------------------
(* The group, and what goes on around the portal *)

GroupChanges ==
  /\ Trouble
  /\ \/ \E m \in Members, n \in Nicks, c \in Cards \cup {NoName} :
          \/ group' = [group EXCEPT !.member[m].in = ~ @]
          \/ group' = [group EXCEPT !.member[m].admin = ~ @]
          \/ group' = [group EXCEPT !.member[m].nick = n]
          \/ group' = [group EXCEPT !.member[m].card = c]
     \/ group' = [group EXCEPT !.name = 3 - @]
     \/ \E pic \in {NoPicture, 1, 2} : group' = [group EXCEPT !.pic = pic]
  /\ seen' = seen \cup {group'}
  /\ UNCHANGED <<agent, ghost, portalVars, clean>>

(* handleOnebotEvent queues a message of the group.                        *)
MessageArrives ==
  /\ Len(events) < MaxQueue
  /\ events' = Append(events, "message")
  /\ UNCHANGED <<agent, group, ghost, room, shown, step, retried, answer, naming, enqueued,
                 troubles, seen, clean>>

(* doGhostResync queues a ChatResync; without a login the batch is lost.   *)
(* (Bound: one at a time, the loop being hours slower than the portal.)    *)
ResyncLoop ==
  /\ enqueued /\ \A i \in DOMAIN events : events[i] # "resync"
  /\ enqueued' = FALSE
  /\ \/ events' = Append(events, "resync") /\ troubles' = troubles
     \/ Trouble /\ events' = events
  /\ UNCHANGED <<agent, group, ghost, room, shown, step, retried, answer, naming,
                 seen, clean>>

(* GetUserInfo, or doGhostResync, gives a ghost the nickname.              *)
GhostIsNamed(m) ==
  /\ ghost[m] # group.member[m].nick
  /\ ghost' = [ghost EXCEPT ![m] = group.member[m].nick]
  /\ shown' = IF m \in room.members THEN [shown EXCEPT ![m] = ghost'[m]] ELSE shown
  /\ clean' = FALSE
  /\ UNCHANGED <<agent, group, room, events, step, retried, answer, naming, enqueued,
                 troubles, seen>>

-----------------------------------------------------------------------------
(* GetChatInfo of the event, or of the PylonClient *)

event == Head(events)
Done == /\ events' = Tail(events) /\ step' = "idle"

Begin ==
  /\ step = "idle" /\ events # <<>> /\ (event = "resync" \/ ~ room.exists)
  /\ step' = "group" /\ retried' = FALSE
  /\ seen' = {group} /\ clean' = TRUE
  /\ UNCHANGED <<agent, group, ghost, room, shown, events, answer, naming, enqueued,
                 troubles>>

(* GetGroupInfo: name and avatar.                                          *)
GetGroupInfo ==
  /\ step = "group" /\ step' = "members"
  /\ answer' = group
  /\ UNCHANGED <<agent, group, ghost, room, shown, events, retried, naming, enqueued,
                 troubles, seen, clean>>

(* The ID of an avatar is a hash of its URL, which is the same for all     *)
(* pictures of a group unless the agent gives it, or gives none.           *)
AvatarID(g) == IF agent = "NapCat" THEN 1 ELSE g.pic

(* The avatar a of the room, from an answer g: that of its ID, or none.  A *)
(* load may fail, or take an error page for the picture (util.GetBytes).   *)
WrapAvatar(g, a) ==
  \/ /\ a = IF room.avatar.id = AvatarID(g) THEN room.avatar
            ELSE [id |-> AvatarID(g), pic |-> IF agent = "NapCat" THEN group.pic ELSE g.pic]
     /\ troubles' = troubles
  \/ /\ AvatarID(g) \notin {NoPicture, room.avatar.id}
     /\ a \in {room.avatar, [id |-> AvatarID(g), pic |-> ErrorPage]}
     /\ Trouble

(* Mutant: members who left stay in the room. *)
GetGroupMemberListPartial ==
  /\ step = "members"
  /\ \E a \in Avatar :
       /\ WrapAvatar(answer, a)
       /\ room' = [exists |-> TRUE, members |-> room.members \cup InGroup(group),
                   admins |-> Admins(group), name |-> answer.name, avatar |-> a]
  /\ shown' = [m \in Members |-> IF m \in InGroup(group) \ room.members THEN ghost[m]
                                                                        ELSE shown[m]]
  /\ step' = IF room.exists THEN "fetch" ELSE "convert"
  /\ answer' = NoAnswer
  /\ UNCHANGED <<agent, group, ghost, events, retried, naming, enqueued, seen, clean>>

(* GetGroupMemberList: the members, all of them, with their power levels;  *)
(* the room is made, or brought up to date.                                *)
GetGroupMemberList ==
  /\ step = "members"
  /\ \E a \in Avatar :
       /\ WrapAvatar(answer, a)
       /\ room' = [exists |-> TRUE, members |-> InGroup(group),
                   admins |-> Admins(group), name |-> answer.name, avatar |-> a]
  /\ shown' = [m \in Members |-> IF m \in InGroup(group) \ room.members THEN ghost[m]
                                                                        ELSE shown[m]]
  /\ step' = IF room.exists THEN "fetch" ELSE "convert"
  /\ answer' = NoAnswer
  /\ UNCHANGED <<agent, group, ghost, events, retried, naming, enqueued, seen, clean>>

(* Either request fails: the resync is dropped; a room to be created is    *)
(* tried once more, and then the message is lost.                          *)
ChatInfoFails ==
  /\ step \in {"group", "members"}
  /\ Trouble
  /\ clean' = FALSE /\ answer' = NoAnswer
  /\ IF room.exists \/ retried THEN Done /\ retried' = retried
                               ELSE step' = "group" /\ retried' = TRUE /\ events' = events
  /\ UNCHANGED <<agent, group, ghost, room, shown, naming, enqueued, seen>>

-----------------------------------------------------------------------------
(* ConvertMessage enqueues the portal, whose LastSync is never set; after  *)
(* it the post handler runs if there was no room before.                   *)
ConvertMessage ==
  /\ \/ step = "convert" /\ step' = "fetch" /\ events' = events
     \/ step = "idle" /\ events # <<>> /\ event = "message" /\ room.exists /\ Done
  /\ enqueued' = TRUE
  /\ UNCHANGED <<agent, group, ghost, room, shown, retried, answer, naming,
                 troubles, seen, clean>>

(* updateMemberDisplayname, which fetches the members again ...            *)
FetchNames ==
  /\ step = "fetch" /\ step' = "names"
  /\ answer' = group /\ naming' = InGroup(group)
  /\ UNCHANGED <<agent, group, ghost, room, shown, events, retried, enqueued,
                 troubles, seen, clean>>

FetchNamesFails ==
  /\ step = "fetch" /\ Done
  /\ Trouble
  /\ clean' = FALSE
  /\ UNCHANGED <<agent, group, ghost, room, shown, retried, answer, naming, enqueued,
                 seen>>

(* Mutant: a ghost that has a name in the room keeps it. *)
UpdateNameOnce(m) ==
  /\ step = "names" /\ m \in naming
  /\ naming' = naming \ {m}
  /\ shown' = IF m \in room.members /\ shown[m] = NoName
                THEN [shown EXCEPT ![m] = DisplayName(answer, m)] ELSE shown
  /\ UNCHANGED <<agent, group, ghost, room, events, step, retried, answer, enqueued,
                 troubles, seen, clean>>

(* ... and gives each that is in the room the name it has in the group.    *)
UpdateName(m) ==
  /\ step = "names" /\ m \in naming
  /\ naming' = naming \ {m}
  /\ shown' = IF m \in room.members
                THEN [shown EXCEPT ![m] = DisplayName(answer, m)] ELSE shown
  /\ UNCHANGED <<agent, group, ghost, room, events, step, retried, answer, enqueued,
                 troubles, seen, clean>>

(* GetIntentFor, GetMemberInfo or SendState fails: this member is skipped. *)
UpdateNameFails(m) ==
  /\ step = "names" /\ m \in naming
  /\ Trouble
  /\ naming' = naming \ {m} /\ clean' = FALSE
  /\ UNCHANGED <<agent, group, ghost, room, shown, events, step, retried, answer, enqueued,
                 seen>>

EndNames ==
  /\ step = "names" /\ naming = {} /\ Done
  /\ answer' = NoAnswer
  /\ UNCHANGED <<agent, group, ghost, room, shown, retried, naming, enqueued,
                 troubles, seen, clean>>

-----------------------------------------------------------------------------

Portal ==
  \/ Begin \/ GetGroupInfo \/ GetGroupMemberList \/ ChatInfoFails \/ ConvertMessage
  \/ FetchNames \/ FetchNamesFails \/ EndNames
  \/ \E m \in Members : UpdateName(m) \/ UpdateNameFails(m)

Next ==
  \/ GroupChanges \/ MessageArrives \/ ResyncLoop \/ Portal
  \/ \E m \in Members : GhostIsNamed(m)

Spec == Init /\ [][Next]_vars

(* The portal goes on, requests having a timeout; the resync loop comes    *)
(* round (GhostResync); and people go on writing in the group.             *)
Fairness == WF_vars(Portal) /\ WF_vars(ResyncLoop) /\ WF_vars(MessageArrives)

FairSpec == Spec /\ Fairness

-----------------------------------------------------------------------------
(* Properties *)

(* The variables have their types, and only a room that exists has names.  *)
TypeOK ==
  /\ agent \in {"NapCat", "WeChat"}
  /\ group \in GroupInfo /\ answer \in GroupInfo /\ seen \subseteq GroupInfo
  /\ room \in [exists: BOOLEAN, members: SUBSET Members, admins: SUBSET Members,
               name: 0..2, avatar: Avatar]
  /\ room.admins \subseteq room.members
  /\ shown \in [Members -> Nicks \cup Cards \cup {NoName}]
  /\ ghost \in [Members -> Nicks \cup {NoName}]
  /\ events \in Seq({"message", "resync"})
  /\ step \in {"idle", "group", "members", "convert", "fetch", "names"}
  /\ step # "idle" => events # <<>>
  /\ naming \subseteq Members /\ {retried, enqueued, clean} \subseteq BOOLEAN
  /\ troubles \in 0..MaxTroubles

(* A round of requests leaves nothing older than itself.  When its event   *)
(* is through, and no request failed, members and power levels are those   *)
(* of one moment since the round began, the group's name is of such a      *)
(* moment, and so is the name of every member that stayed in the group     *)
(* (handle_onebot.go:133-151, chatinfo.go:105-163, 324-360).               *)
RoomIsAsSeen ==
  step = "idle" /\ room.exists /\ clean =>
    /\ \E g \in seen : room.members = InGroup(g) /\ room.admins = Admins(g)
    /\ \E g \in seen : room.name = g.name
    /\ \A m \in room.members :
         (\A g \in seen : m \in InGroup(g)) => \E g \in seen : shown[m] = DisplayName(g, m)

InStep ==
  /\ room.exists /\ room.name = group.name
  /\ room.members = InGroup(group) /\ room.admins = Admins(group)
  /\ \A m \in room.members : shown[m] = DisplayName(group, m)
  /\ agent = "WeChat" => /\ room.avatar.id = group.pic
                         /\ room.avatar.pic \in {group.pic, ErrorPage}

(* When the group stops changing and requests stop failing, the room ends  *)
(* up like the group for good, although renamed ghosts lose the names they *)
(* had in it.  Its avatar does so only with an agent whose URLs tell       *)
(* pictures apart, and not if a host answered the one load of the picture  *)
(* with an error page: that stays, being under the picture's ID            *)
(* (chatinfo.go:201-217, 292-310, 324-383, util.go:77-131).                *)
RoomCatchesUp == <>[]InStep
=============================================================================
