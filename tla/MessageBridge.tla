---------------------------- MODULE MessageBridge ----------------------------
(***************************************************************************)
(* Messages, replies and recalls between the chats of one login and their  *)
(* Matrix rooms (pkg/connector/handle_onebot.go, handle_matrix.go and      *)
(* ids.go, pkg/ids/ids.go, pkg/onebot/protocol.go).                        *)
(*                                                                         *)
(* The agent reports what happens in the chats, also what the login itself *)
(* sent, be it from a phone or through the bridge.  Each report is handled *)
(* in a goroutine of its own, which hands it to the portal of the chat.    *)
(* The bridge library (external) handles one event of a portal at a time,  *)
(* drops a message whose ID has a row already, and inserts a row for what  *)
(* it sends to the room.  A Matrix message becomes a request; its row is   *)
(* inserted with the ID in the answer, and not at all when the request     *)
(* fails, although the agent may still serve it.  When the process dies,   *)
(* what is being handled is lost in both directions; rows stay.            *)
(*                                                                         *)
(* A network message is its position in network, an event its position in  *)
(* timeline, and an ID the record of its parts.                            *)
(***************************************************************************)
EXTENDS Naturals, Sequences, FiniteSets

CONSTANTS
  Users, Groups,   \* the numbers of contacts and groups, which may coincide
  Self,            \* the number of the login
  MaxMessages,     \* bound: the messages in the chats
  MaxEvents,       \* bound: the events in the rooms
  MaxRestarts      \* bound: how often the process dies

ASSUME BridgeAssumption ==
  /\ Users \subseteq Nat \ {0} /\ Groups \subseteq Nat \ {0} /\ Self \in Users
  /\ MaxMessages \in Nat /\ MaxEvents \in Nat /\ MaxRestarts \in Nat

None == 0

(* The chats, with the peer types of ids.go.                               *)
Chats == [type: {"user"}, peer: Users] \cup [type: {"group"}, peer: Groups]

Senders(c) == {Self} \cup (IF c.type = "user" THEN {c.peer} ELSE Users)

-----------------------------------------------------------------------------
(* IDs *)

(* Mutant: the ID of a group is its number, like that of a contact. *)
MakePortalKeyUntyped(type, peer) ==
  [id |-> <<peer>>, receiver |-> IF type = "group" THEN None ELSE Self]

(* makePortalKey: "group\u0001<peer>" for a group, "<peer>" for a contact. *)
MakePortalKey(type, peer) ==
  [id       |-> IF type = "group" THEN <<type, peer>> ELSE <<peer>>,
   receiver |-> IF type = "group" THEN None ELSE Self]

Portals == {MakePortalKey(c.type, c.peer) : c \in Chats}

ParsePortalID(id) ==
  IF Len(id) = 1 THEN [type |-> "user", peer |-> id[1]]
                 ELSE [type |-> id[1], peer |-> id[2]]

MakeMessageID(peer, m) == [fake |-> FALSE, peer |-> peer, msg |-> m]

MakeFakeMessageID(peer, m) == [fake |-> TRUE, peer |-> peer, msg |-> m]

(* Mutant: the ID of a fake message is taken apart like any other. *)
ParseMessageIDOfFake(id) == id.msg

(* The message in an ID, or None, the error for a fake one.                *)
ParseMessageID(id) == IF id.fake THEN None ELSE id.msg

(* Mutant: a message sent by the login itself counts as any other. *)
GetPeerIDOfSender(msg) == IF msg.type = "private" THEN msg.sender ELSE msg.group

(* The peer of a message; in a private one sent by the login itself        *)
(* (post_type "message_sent") that is the target.                          *)
GetPeerID(msg) ==
  IF msg.type = "private" THEN IF msg.sent THEN msg.target ELSE msg.sender
                          ELSE msg.group

-----------------------------------------------------------------------------
(* Reports of the agent, as onebot.Message *)

Message(c, sender, sent, m, reply, empty, fake) ==
  [type   |-> IF c.type = "user" THEN "private" ELSE "group",
   sent   |-> sent,
   sender |-> sender,
   target |-> IF sent /\ c.type = "user" THEN c.peer ELSE None,
   group  |-> IF c.type = "group" THEN c.peer ELSE None,
   id     |-> m, reply |-> reply, empty |-> empty, fake |-> fake]

(* GetPortalKey and GetID of OnebotMessageEvent.                           *)
GetPortalKey(msg) ==
  MakePortalKey(IF msg.type = "private" THEN "user" ELSE "group", GetPeerID(msg))

GetID(msg) ==
  IF msg.fake THEN MakeFakeMessageID(GetPeerID(msg), msg.id)
              ELSE MakeMessageID(GetPeerID(msg), msg.id)

(* The message handleOnebotEvent makes of the recall of message m: a       *)
(* [revoke] that replies to m.                                             *)
Revoke(c, author, m) == Message(c, author, FALSE, m, m, FALSE, TRUE)

VARIABLES
  network,    \* the messages in the chats, as [chat, sender, reply]
  recalled,   \* those that were recalled
  received,   \* the reports that are being handled
  timeline,   \* the Matrix events, as [portal, kind, shows, replyTo]; "sent" is Matrix's
  rows,       \* the message table, as [portal, id, event]
  sending,    \* sending[p]: the HandleMatrixMessage of portal p
  requests,   \* the requests to send the agent has not served
  failed,     \* the events whose HandleMatrixMessage returned an error or was cut short
  deletes,    \* history: the messages deleted for an event, as <<event, message>>
  restarts    \* how often the process died

vars == <<network, recalled, received, timeline, rows, sending, requests, failed, deletes,
          restarts>>

Idle == [event |-> None, msg |-> None]

Init ==
  /\ network = <<>> /\ recalled = {} /\ received = {}
  /\ timeline = <<>> /\ rows = {}
  /\ sending = [p \in Portals |-> Idle]
  /\ requests = {} /\ failed = {} /\ deletes = {} /\ restarts = 0

HasRow(p, id) == \E r \in rows : r.portal = p /\ r.id = id

(* The event a reply resolves to, or None.                                 *)
EventOf(p, id) ==
  IF HasRow(p, id) THEN (CHOOSE r \in rows : r.portal = p /\ r.id = id).event ELSE None

-----------------------------------------------------------------------------
(* The chats *)

(* Someone writes, perhaps as a reply.  The report has no segments when    *)
(* the agent could not make any of the message.                            *)
ChatMessage(c, sender, reply, empty) ==
  /\ Len(network) < MaxMessages
  /\ reply # None => network[reply].chat = c
  /\ network' = Append(network, [chat |-> c, sender |-> sender, reply |-> reply])
  /\ received' = received \cup
       {Message(c, sender, sender = Self, Len(network'), reply, empty, FALSE)}
  /\ UNCHANGED <<recalled, timeline, rows, sending, requests, failed, deletes,
                restarts>>

(* A message is recalled: by its author, by an admin of the group, or      *)
(* because HandleMatrixMessageRemove asked for it.                         *)
Recall(m) ==
  /\ m \notin recalled
  /\ recalled' = recalled \cup {m}
  /\ received' = received \cup {Revoke(network[m].chat, network[m].sender, m)}
  /\ UNCHANGED <<network, timeline, rows, sending, requests, failed, deletes, restarts>>

(* The agent serves a request, whether or not it is still waited for, and  *)
(* reports the message as sent by the login.                               *)
AgentSends(q) ==
  /\ Len(network) < MaxMessages
  /\ network' = Append(network, [chat |-> q.chat, sender |-> Self, reply |-> q.reply])
  /\ received' = received \cup
       {Message(q.chat, Self, TRUE, Len(network'), q.reply, FALSE, FALSE)}
  /\ requests' = requests \ {q}
  /\ timeline' = [timeline EXCEPT ![q.event].shows = Len(network')]
  /\ sending' = [p \in Portals |-> IF sending[p].event = q.event
                                     THEN [sending[p] EXCEPT !.msg = Len(network')]
                                     ELSE sending[p]]
  /\ UNCHANGED <<recalled, rows, failed, deletes, restarts>>

-----------------------------------------------------------------------------
(* handleOnebotEvent *)

(* A message without segments, and the recall of a private message of the  *)
(* login itself.                                                           *)
Ignored(msg) ==
  \/ msg.empty
  \/ msg.fake /\ msg.type = "private" /\ msg.sender = Self

Ignore(msg) ==
  /\ Ignored(msg)
  /\ received' = received \ {msg}
  /\ UNCHANGED <<network, recalled, timeline, rows, sending, requests, failed,
                deletes, restarts>>

(* The portal gets to the message; the reply resolves if its message has a *)
(* row by then.                                                            *)
Bridge(msg) ==
  LET p == GetPortalKey(msg) IN
  /\ ~ Ignored(msg)
  /\ sending[p] = Idle /\ ~ HasRow(p, GetID(msg))
  /\ Len(timeline) < MaxEvents
  /\ timeline' = Append(timeline,
       [portal |-> p, kind |-> IF msg.fake THEN "revoke" ELSE "message", shows |-> msg.id,
        replyTo |-> IF msg.reply = None THEN None
                    ELSE EventOf(p, MakeMessageID(GetPeerID(msg), msg.reply))])
  /\ rows' = rows \cup {[portal |-> p, id |-> GetID(msg), event |-> Len(timeline')]}
  /\ received' = received \ {msg}
  /\ UNCHANGED <<network, recalled, sending, requests, failed, deletes, restarts>>

Deduplicate(msg) ==
  LET p == GetPortalKey(msg) IN
  /\ ~ Ignored(msg)
  /\ sending[p] = Idle /\ HasRow(p, GetID(msg))
  /\ received' = received \ {msg}
  /\ UNCHANGED <<network, recalled, timeline, rows, sending, requests, failed,
                deletes, restarts>>

-----------------------------------------------------------------------------
(* HandleMatrixMessage and HandleMatrixMessageRemove *)

RoomExists(p) == \E e \in DOMAIN timeline : timeline[e].portal = p

(* The row of the event replied to; the library passes it only if there is *)
(* one in this portal.                                                     *)
ReplyRows(p, target) == {r \in rows : r.portal = p /\ r.event = target}

MatrixEvent(p, target) ==
  [portal |-> p, kind |-> "sent", shows |-> None, replyTo |-> target]

(* SendPrivateMessage or SendGroupMessage, by the type of the chat.        *)
SendMessage(chat, event, reply) == [chat |-> chat, event |-> event, reply |-> reply]

(* The request goes to the chat in the ID of the portal.  A reply to a     *)
(* fake message is sent without its reply.                                 *)
HandleMatrixMessage(p, target) ==
  /\ RoomExists(p) /\ sending[p] = Idle /\ Len(timeline) < MaxEvents
  /\ target # None => ReplyRows(p, target) # {}
  /\ timeline' = Append(timeline, MatrixEvent(p, target))
  /\ sending' = [sending EXCEPT ![p] = [Idle EXCEPT !.event = Len(timeline')]]
  /\ requests' = requests \cup
       {SendMessage(ParsePortalID(p.id), Len(timeline'),
          IF target = None THEN None
          ELSE ParseMessageID((CHOOSE r \in ReplyRows(p, target) : TRUE).id))}
  /\ UNCHANGED <<network, recalled, received, rows, failed, deletes, restarts>>

(* Not logged in, or ToOnebot fails: media that cannot be downloaded, a    *)
(* location that cannot be parsed, another type of message.                *)
RefuseMatrixMessage(p) ==
  /\ RoomExists(p) /\ sending[p] = Idle /\ Len(timeline) < MaxEvents
  /\ timeline' = Append(timeline, MatrixEvent(p, None))
  /\ failed' = failed \cup {Len(timeline')}
  /\ UNCHANGED <<network, recalled, received, rows, sending, requests, deletes,
                restarts>>

(* Mutant: a request that failed leads to a row as well. *)
SendAnsweredOrNot(p) ==
  /\ sending[p] # Idle
  /\ rows' = rows \cup
       {[portal |-> p, id |-> MakeMessageID(ParsePortalID(p.id).peer, sending[p].msg),
         event |-> sending[p].event]}
  /\ sending' = [sending EXCEPT ![p] = Idle]
  /\ UNCHANGED <<network, recalled, received, timeline, requests, failed, deletes,
                restarts>>

SendAnswered(p) ==
  /\ sending[p].msg # None
  /\ rows' = rows \cup
       {[portal |-> p, id |-> MakeMessageID(ParsePortalID(p.id).peer, sending[p].msg),
         event |-> sending[p].event]}
  /\ sending' = [sending EXCEPT ![p] = Idle]
  /\ UNCHANGED <<network, recalled, received, timeline, requests, failed, deletes,
                restarts>>

(* The request fails or times out: an error, and no row.                   *)
SendFails(p) ==
  /\ sending[p] # Idle
  /\ failed' = failed \cup {sending[p].event}
  /\ sending' = [sending EXCEPT ![p] = Idle]
  /\ UNCHANGED <<network, recalled, received, timeline, rows, requests, deletes,
                restarts>>

(* The redaction of an event with a row; DeleteMessage asks the agent for  *)
(* a recall.  The target of a fake message is an error.  (Bound: one, on   *)
(* which no other step depends.)                                           *)
HandleMatrixMessageRemove(r) ==
  /\ sending[r.portal] = Idle /\ deletes = {}
  /\ ParseMessageID(r.id) # None
  /\ deletes' = {<<r.event, ParseMessageID(r.id)>>}
  /\ UNCHANGED <<network, recalled, received, timeline, rows, sending, requests,
                failed, restarts>>

-----------------------------------------------------------------------------

Chat ==
  \/ \E c \in Chats : \E sender \in Senders(c), reply \in {None} \cup DOMAIN network,
         empty \in BOOLEAN : ChatMessage(c, sender, reply, empty)
  \/ \E m \in DOMAIN network : Recall(m)
  \/ \E q \in requests : AgentSends(q)

HandleOnebotEvent == \E msg \in received : Ignore(msg) \/ Bridge(msg) \/ Deduplicate(msg)

Matrix ==
  \/ \E p \in Portals, target \in {None} \cup DOMAIN timeline : HandleMatrixMessage(p, target)
  \/ \E p \in Portals : RefuseMatrixMessage(p) \/ SendAnswered(p) \/ SendFails(p)
  \/ \E r \in rows : HandleMatrixMessageRemove(r)

(* The process dies and comes up again: reports and sends that are being   *)
(* handled are gone, the agent still has its requests.                     *)
Restart ==
  /\ restarts < MaxRestarts /\ restarts' = restarts + 1
  /\ received' = {}
  /\ failed' = failed \cup {sending[p].event : p \in {q \in Portals : sending[q] # Idle}}
  /\ sending' = [p \in Portals |-> Idle]
  /\ UNCHANGED <<network, recalled, timeline, rows, requests, deletes>>

Next == Chat \/ HandleOnebotEvent \/ Matrix \/ Restart

Spec == Init /\ [][Next]_vars

-----------------------------------------------------------------------------
(* Properties *)

Events == DOMAIN timeline
Messages == DOMAIN network

(* The variables have their types; what is under way names what exists.    *)
TypeOK ==
  /\ network \in Seq([chat: Chats, sender: Users, reply: Messages \cup {None}])
  /\ recalled \subseteq Messages
  /\ \A msg \in received : msg.id \in Messages /\ msg.reply \in Messages \cup {None}
  /\ timeline \in Seq([portal: Portals, kind: {"message", "revoke", "sent"},
                       shows: Messages \cup {None}, replyTo: Events \cup {None}])
  /\ \A r \in rows : r.portal \in Portals /\ r.event \in Events /\ r.id.msg \in Messages
  /\ sending \in [Portals -> [event: Events \cup {None}, msg: Messages \cup {None}]]
  /\ requests \subseteq [chat: Chats, event: Events, reply: Messages \cup {None}]
  /\ failed \subseteq Events /\ deletes \subseteq Events \X Messages
  /\ restarts \in 0..MaxRestarts

(* The bridge seen from its rooms: the chat of each message, and of each   *)
(* event what it shows.                                                    *)
Written == [m \in Messages |-> network[m].chat]

RoomEvents == [e \in Events |-> [chat  |-> ParsePortalID(timeline[e].portal.id),
                                 kind  |-> timeline[e].kind,
                                 shows |-> timeline[e].shows]]

Feed == INSTANCE RoomFeed WITH
  Unsent <- None, written <- Written, feed <- RoomEvents, unsure <- failed

(* A message is shown once, in the room of its chat, though the agent      *)
(* reports what the bridge itself sent, perhaps before it answers the      *)
(* request, and though the process may die in between.  It is shown again  *)
(* only if Matrix was never told that the first had been sent.  For that   *)
(* the IDs made from an answer and from a report must agree (GetPeerID,    *)
(* handle_matrix.go:54-58, OnebotMessageEvent.GetID).                      *)
ImplementsRoomFeed == Feed!Spec

(* Contacts and groups with the same number stay apart, in both            *)
(* directions: an event is in the room of the chat of the message it       *)
(* shows, and its deletion concerns that message (makePortalKey,           *)
(* ParsePortalID, GetPeerID).                                              *)
ChatsStayApart ==
  \A e \in Events :
    timeline[e].shows # None =>
      /\ timeline[e].portal.id =
           (LET c == network[timeline[e].shows].chat IN
            IF c.type = "group" THEN <<"group", c.peer>> ELSE <<c.peer>>)
      /\ \A d \in deletes : d[1] = e => d[2] = timeline[e].shows

Shows(e, m) == m # None /\ timeline[e].kind # "revoke" /\ timeline[e].shows = m

ReplyKept(e) ==
  LET target == timeline[e].replyTo
      reply == network[timeline[e].shows].reply IN
  /\ target # None => reply = IF timeline[target].kind = "revoke" THEN None
                              ELSE timeline[target].shows
  /\ \A g \in 1..(e - 1) : Shows(g, reply) /\ g \notin failed => target # None

RevokeKept(e) ==
  /\ timeline[e].replyTo # None => Shows(timeline[e].replyTo, timeline[e].shows)
  /\ \A d \in deletes : d[1] # e

(* A reply keeps its target on its way, in both directions.  An event that *)
(* replies to one showing a message goes with a network message that       *)
(* replies to that message, one that replies to a [revoke] with one that   *)
(* replies to nothing; a network message whose target was shown before is  *)
(* shown as a reply to it.  A [revoke] replies to the message it recalls,  *)
(* if anything, and is never deleted itself (MakeMessageID,                *)
(* MakeFakeMessageID, ParseMessageID).                                     *)
RepliesKeepTheirTarget ==
  \A e \in Events :
    IF timeline[e].kind = "revoke" THEN RevokeKept(e)
    ELSE timeline[e].shows # None => ReplyKept(e)
=============================================================================
