------------------------- MODULE MessageBridgeProofs -------------------------
(***************************************************************************)
(* Proofs about MessageBridge for any contacts, groups, numbers of         *)
(* messages, events and restarts.  The inductive invariant IInv says how   *)
(* the four places that name a message agree: the network, the reports,    *)
(* the rows and the events; the refinement of RoomFeed follows from it.    *)
(***************************************************************************)
EXTENDS MessageBridge, SequenceTheorems, TLAPS

USE BridgeAssumption

(* The portal of a chat.                                                   *)
KeyOf(c) == MakePortalKey(c.type, c.peer)

NetMessage == [chat: Chats, sender: Users, reply: Nat]
Event == [portal: Portals, kind: {"message", "revoke", "sent"}, shows: Nat, replyTo: Nat]
MessageID == [fake: BOOLEAN, peer: Nat, msg: Nat]
Row == [portal: Portals, id: MessageID, event: Nat]
Request == [chat: Chats, event: Nat, reply: Nat]

(* The variables without what they name.                                   *)
Shapes ==
  /\ network \in Seq(NetMessage) /\ timeline \in Seq(Event)
  /\ recalled \subseteq Messages
  /\ rows \subseteq Row
  /\ sending \in [Portals -> [event: Nat, msg: Nat]]
  /\ requests \subseteq Request
  /\ failed \subseteq Events /\ deletes \subseteq Events \X Messages
  /\ restarts \in 0..MaxRestarts

(* Chats go on by their members, and replies stay in the chat.             *)
NetworkInv ==
  \A m \in Messages :
    /\ network[m].sender \in Senders(network[m].chat)
    /\ network[m].reply # None => /\ network[m].reply \in 1..(m - 1)
                                  /\ network[network[m].reply].chat = network[m].chat

(* A report, of message m or of its recall, says what is so.               *)
Reports(msg, n, m) ==
  \/ \E empty \in BOOLEAN :
       msg = Message(n.chat, n.sender, n.sender = Self, m, n.reply, empty, FALSE)
  \/ msg = Revoke(n.chat, n.sender, m)

ReportInv == \A msg \in received : msg.id \in Messages /\ Reports(msg, network[msg.id], msg.id)

(* The ID under which the row of event e is found.                         *)
IDOf(e) == [fake |-> timeline[e].kind = "revoke",
            peer |-> ParsePortalID(timeline[e].portal.id).peer,
            msg  |-> timeline[e].shows]

(* An event is in the room of its chat, and is being sent or has a row,    *)
(* unless its sender knows nothing of it.                                  *)
EventOK(e) ==
  LET v == timeline[e] IN
  /\ v.shows # None => v.shows \in Messages /\ v.portal = KeyOf(network[v.shows].chat)
  /\ v.shows = None => v.kind = "sent"
  /\ v.replyTo # None => v.replyTo \in 1..(e - 1) /\ timeline[v.replyTo].shows # None
  /\ e \notin failed => \/ sending[v.portal].event = e
                        \/ v.shows # None /\ HasRow(v.portal, IDOf(e))

EventInv == \A e \in Events : EventOK(e)

RowOK(r) ==
  /\ r.event \in Events
  /\ r.portal = timeline[r.event].portal /\ r.id = IDOf(r.event)
  /\ timeline[r.event].shows # None

RowInv == \A r \in rows : RowOK(r)

(* HandleMatrixMessage knows its event, and the message once it is sent.   *)
SendingOK(p) ==
  IF sending[p].event = None THEN sending[p].msg = None
  ELSE /\ sending[p].event \in Events
       /\ timeline[sending[p].event].portal = p
       /\ timeline[sending[p].event].kind = "sent"
       /\ timeline[sending[p].event].shows = sending[p].msg

SendingInv == \A p \in Portals : SendingOK(p)

(* What a network message for event e must reply to.                       *)
ReplyOf(e) ==
  LET t == timeline[e].replyTo IN
  IF t = None \/ timeline[t].kind = "revoke" THEN None ELSE timeline[t].shows

(* A request is the only one for its event, which shows nothing yet.       *)
RequestOK(q) ==
  /\ q.event \in Events
  /\ timeline[q.event].kind = "sent" /\ timeline[q.event].shows = None
  /\ timeline[q.event].portal = KeyOf(q.chat)
  /\ q.reply = ReplyOf(q.event)
  /\ q.reply # None => q.reply \in Messages /\ network[q.reply].chat = q.chat

RequestInv ==
  /\ \A q \in requests : RequestOK(q)
  /\ \A q, r \in requests : q.event = r.event => q = r

DeleteInv ==
  \A d \in deletes : timeline[d[1]].kind # "revoke" /\ timeline[d[1]].shows = d[2]

(* What RepliesKeepTheirTarget says of event e.                            *)
ReplyOK(e) ==
  IF timeline[e].kind = "revoke" THEN RevokeKept(e)
  ELSE timeline[e].shows # None => ReplyKept(e)

ReplyInv == \A e \in Events : ReplyOK(e)

IInv ==
  /\ Shapes /\ NetworkInv /\ ReportInv /\ EventInv /\ RowInv /\ SendingInv /\ RequestInv
  /\ DeleteInv /\ ReplyInv

-----------------------------------------------------------------------------
(* IDs *)

(* A chat is a type and a number, and nothing is 0.                        *)
LEMMA ChatFacts ==
  ASSUME NEW c \in Chats
  PROVE  /\ c = [type |-> c.type, peer |-> c.peer]
         /\ c.peer \in Nat \ {0}
         /\ \/ c.type = "user" /\ c.peer \in Users
            \/ c.type = "group" /\ c.peer \in Groups
         /\ Senders(c) \subseteq Users
  BY DEF Chats, Senders

(* A portal has the ID of its chat, and the chat is read off it.           *)
LEMMA KeyFacts ==
  ASSUME NEW c \in Chats
  PROVE  KeyOf(c) \in Portals /\ ParsePortalID(KeyOf(c).id) = c
<1>1. KeyOf(c) \in Portals
  BY DEF Portals, KeyOf
<1>2. CASE c.type = "user"
  <2>1. KeyOf(c).id = <<c.peer>>
    BY <1>2 DEF KeyOf, MakePortalKey
  <2> QED
    BY <1>1, <1>2, <2>1, ChatFacts DEF ParsePortalID
<1>3. CASE c.type = "group"
  <2>1. KeyOf(c).id = <<"group", c.peer>>
    BY <1>3 DEF KeyOf, MakePortalKey
  <2> QED
    BY <1>1, <1>3, <2>1, ChatFacts DEF ParsePortalID
<1> QED
  BY <1>2, <1>3, ChatFacts

(* Every portal is that of the chat in its ID.                             *)
LEMMA PortalFacts ==
  ASSUME NEW p \in Portals
  PROVE  ParsePortalID(p.id) \in Chats /\ KeyOf(ParsePortalID(p.id)) = p
<1>1. PICK c \in Chats : p = KeyOf(c)
  BY DEF Portals, KeyOf
<1> QED
  BY <1>1, KeyFacts

(* The fields of a report.                                                 *)
LEMMA ReportFields ==
  ASSUME NEW n \in NetMessage, NEW m, NEW msg, Reports(msg, n, m)
  PROVE  /\ msg.type = IF n.chat.type = "user" THEN "private" ELSE "group"
         /\ msg.sender = n.sender /\ msg.fake \in BOOLEAN
         /\ msg.group = IF n.chat.type = "group" THEN n.chat.peer ELSE None
         /\ msg.sent <=> ~ msg.fake /\ n.sender = Self
         /\ n.chat.type = "user" /\ msg.sent => msg.target = n.chat.peer
         /\ msg.reply = IF msg.fake THEN m ELSE n.reply
<1>1. CASE msg = Revoke(n.chat, n.sender, m)
  BY <1>1 DEF Revoke, Message
<1>2. ASSUME NEW empty \in BOOLEAN,
             msg = Message(n.chat, n.sender, n.sender = Self, m, n.reply, empty, FALSE)
      PROVE  /\ msg.type = IF n.chat.type = "user" THEN "private" ELSE "group"
             /\ msg.sender = n.sender /\ msg.fake = FALSE
             /\ msg.group = IF n.chat.type = "group" THEN n.chat.peer ELSE None
             /\ msg.sent <=> n.sender = Self
             /\ n.chat.type = "user" /\ msg.sent => msg.target = n.chat.peer
             /\ msg.reply = n.reply
  BY <1>2 DEF Message
<1> QED
  BY <1>1, <1>2 DEF Reports

(* Whatever of a report is not ignored goes to the portal of its chat,     *)
(* under the ID made from that chat, although it names its chat in         *)
(* different ways (GetPeerID).                                             *)
LEMMA ReportFacts ==
  ASSUME Shapes, NetworkInv, ReportInv,
         NEW msg \in received, ~ Ignored(msg)
  PROVE  LET n == network[msg.id] IN
         /\ msg.id \in Messages /\ msg.fake \in BOOLEAN
         /\ GetPeerID(msg) = n.chat.peer
         /\ GetPortalKey(msg) = KeyOf(n.chat)
         /\ GetID(msg) = [fake |-> msg.fake, peer |-> n.chat.peer, msg |-> msg.id]
         /\ msg.reply = IF msg.fake THEN msg.id ELSE n.reply
<1> DEFINE n == network[msg.id]
<1>1. msg.id \in Messages /\ Reports(msg, n, msg.id)
  BY DEF ReportInv
<1>2. n \in NetMessage /\ n.sender \in Senders(n.chat)
  BY <1>1 DEF Shapes, NetworkInv, Messages
<1>3. n.chat \in Chats
  BY <1>2 DEF NetMessage
<1> HIDE DEF n
<1>4. /\ msg.type = IF n.chat.type = "user" THEN "private" ELSE "group"
      /\ msg.sender = n.sender /\ msg.fake \in BOOLEAN
      /\ msg.group = IF n.chat.type = "group" THEN n.chat.peer ELSE None
      /\ msg.sent <=> ~ msg.fake /\ n.sender = Self
      /\ n.chat.type = "user" /\ msg.sent => msg.target = n.chat.peer
      /\ msg.reply = IF msg.fake THEN msg.id ELSE n.reply
  BY <1>1, <1>2, ReportFields
<1>5. GetPeerID(msg) = n.chat.peer
  <2>1. CASE n.chat.type = "user"
    <3>1. n.sender \in {Self, n.chat.peer}
      BY <1>2, <2>1 DEF Senders
    <3> QED
      BY <1>4, <2>1, <3>1 DEF GetPeerID, Ignored
  <2>2. CASE n.chat.type = "group"
    BY <1>4, <2>2 DEF GetPeerID
  <2> QED
    BY <1>3, <2>1, <2>2, ChatFacts
<1>6. GetPortalKey(msg) = KeyOf(n.chat)
  BY <1>3, <1>4, <1>5, ChatFacts DEF GetPortalKey, KeyOf
<1>7. GetID(msg) = [fake |-> msg.fake, peer |-> n.chat.peer, msg |-> msg.id]
  BY <1>4, <1>5 DEF GetID, MakeFakeMessageID, MakeMessageID
<1> QED
  BY <1>1, <1>4, <1>5, <1>6, <1>7 DEF n

(* What the variables hold, one by one.                                    *)
LEMMA Typed ==
  ASSUME Shapes
  PROVE  /\ \A m \in Messages : /\ m \in Nat \ {0} /\ network[m] \in NetMessage
                                /\ network[m].chat \in Chats /\ network[m].sender \in Users
                                /\ network[m].reply \in Nat
         /\ \A e \in Events : /\ e \in Nat \ {0} /\ timeline[e] \in Event
                              /\ timeline[e].portal \in Portals
                              /\ timeline[e].shows \in Nat /\ timeline[e].replyTo \in Nat
                              /\ \A g \in 1..(e - 1) : g \in Events
<1>1. \A m \in Messages : m \in Nat \ {0} /\ network[m] \in NetMessage
  BY DEF Shapes, Messages
<1>2. \A e \in Events : /\ e \in Nat \ {0} /\ timeline[e] \in Event
                       /\ \A g \in 1..(e - 1) : g \in Events
  BY DEF Shapes, Events
<1> QED
  BY <1>1, <1>2 DEF NetMessage, Event

-----------------------------------------------------------------------------
(* Steps that show nothing *)

(* A sequence of S whose members are in T is a sequence of T.              *)
LEMMA NarrowSeq ==
  ASSUME NEW S, NEW T, NEW s \in Seq(S), \A i \in DOMAIN s : s[i] \in T
  PROVE  s \in Seq(T)
  OBVIOUS

(* What Append does to a sequence, in the form the steps use.              *)
LEMMA AppendFacts ==
  ASSUME NEW S, NEW s \in Seq(S), NEW x \in S
  PROVE  LET t == Append(s, x) IN
         /\ t \in Seq(S) /\ Len(t) = Len(s) + 1 /\ Len(t) \in Nat \ {0}
         /\ DOMAIN t = DOMAIN s \cup {Len(t)} /\ Len(t) \notin DOMAIN s
         /\ t[Len(t)] = x
         /\ \A i \in DOMAIN s : t[i] = s[i] /\ i \in 1..(Len(t) - 1)
         /\ \A i \in 1..(Len(t) - 1) : i \in DOMAIN s
  OBVIOUS

(* Messages stay as they are.                                              *)
NetworkKept == \A m \in Messages : m \in Messages' /\ network'[m] = network[m]

(* A step of the chats alone keeps all that is said of the rooms.          *)
LEMMA QuietSteps ==
  ASSUME IInv, NetworkKept, UNCHANGED <<timeline, rows, sending, requests, failed, deletes>>
  PROVE  /\ EventInv' /\ RowInv' /\ SendingInv' /\ RequestInv' /\ DeleteInv'
         /\ ReplyInv'
<1> USE DEF IInv, NetworkKept, Events, Shapes
<1>1. EventInv'
  <2>1. ASSUME NEW e \in Events, EventOK(e) PROVE EventOK(e)'
    <3>1. \A p, id : HasRow(p, id)' <=> HasRow(p, id)
      BY DEF HasRow
    <3>2. IDOf(e)' = IDOf(e)
      BY DEF IDOf
    <3> QED
      BY <2>1, <3>1, <3>2 DEF EventOK
  <2> QED
    BY <2>1 DEF EventInv
<1>2. RowInv' /\ SendingInv' /\ DeleteInv'
  BY DEF RowInv, RowOK, IDOf, SendingInv, SendingOK, DeleteInv
<1>3. RequestInv'
  BY DEF RequestInv, RequestOK, ReplyOf
<1>4. ReplyInv'
  BY DEF ReplyInv, ReplyOK, RevokeKept, ReplyKept, Shows, EventInv, EventOK
<1> QED
  BY <1>1, <1>2, <1>3, <1>4

(* A message that is added replies within its chat, to an older one.       *)
LEMMA NetworkGrows ==
  ASSUME IInv, NEW n \in NetMessage, network' = Append(network, n),
         n.sender \in Senders(n.chat),
         n.reply # None => n.reply \in Messages /\ network[n.reply].chat = n.chat
  PROVE  /\ network' \in Seq(NetMessage) /\ NetworkKept /\ NetworkInv'
         /\ Messages' = Messages \cup {Len(network')} /\ Len(network') \notin Messages
         /\ Len(network') \in Nat \ {0} /\ network'[Len(network')] = n
<1> USE DEF IInv, Shapes
<1>1. /\ network' \in Seq(NetMessage) /\ NetworkKept
      /\ Messages' = Messages \cup {Len(network')} /\ Len(network') \notin Messages
      /\ Len(network') \in Nat \ {0} /\ network'[Len(network')] = n
      /\ \A m \in Messages : m \in 1..(Len(network') - 1)
  BY AppendFacts DEF NetworkKept, Messages
<1>2. NetworkInv'
  <2> SUFFICES ASSUME NEW m \in Messages'
               PROVE  /\ network'[m].sender \in Senders(network'[m].chat)
                      /\ network'[m].reply # None =>
                           /\ network'[m].reply \in 1..(m - 1)
                           /\ network'[network'[m].reply].chat = network'[m].chat
    BY DEF NetworkInv
  <2>1. CASE m \in Messages
    <3>1. network[m].reply # None => network[m].reply \in Messages
      BY <2>1 DEF NetworkInv, Messages
    <3> QED
      BY <1>1, <2>1, <3>1 DEF NetworkInv, NetworkKept
  <2>2. CASE m = Len(network')
    BY <1>1, <2>2 DEF NetworkKept
  <2> QED
    BY <1>1, <2>1, <2>2
<1> QED
  BY <1>1, <1>2

(* Reports stay true when messages are added.                              *)
LEMMA ReportsKept ==
  ASSUME ReportInv, NetworkKept, NEW msg \in received
  PROVE  msg.id \in Messages' /\ Reports(msg, network'[msg.id], msg.id)
<1>1. msg.id \in Messages /\ Reports(msg, network[msg.id], msg.id)
  BY DEF ReportInv
<1> QED
  BY <1>1 DEF NetworkKept

(* Someone writes in a chat.                                               *)
LEMMA ChatMessageStep ==
  ASSUME IInv, NEW c \in Chats, NEW sender \in Senders(c),
         NEW reply \in {None} \cup Messages, NEW empty \in BOOLEAN,
         ChatMessage(c, sender, reply, empty)
  PROVE  IInv'
<1> DEFINE n == [chat |-> c, sender |-> sender, reply |-> reply]
           new == Message(c, sender, sender = Self, Len(network'), reply, empty, FALSE)
<1>1. n \in NetMessage
  <2>1. sender \in Users /\ reply \in Nat
    BY ChatFacts DEF IInv, Shapes, Messages, None
  <2> QED
    BY <2>1 DEF NetMessage
<1>2. /\ network' \in Seq(NetMessage) /\ NetworkKept /\ NetworkInv'
      /\ Messages' = Messages \cup {Len(network')} /\ network'[Len(network')] = n
  BY <1>1, NetworkGrows DEF ChatMessage
<1>3. ReportInv'
  <2>1. Reports(new, n, Len(network')) /\ new.id = Len(network')
    BY DEF Reports, Message
  <2>2. ReportInv
    BY DEF IInv
  <2>3. received' = received \cup {new}
    BY DEF ChatMessage
  <2> HIDE DEF n, new
  <2> QED
    BY <1>2, <2>1, <2>2, <2>3, ReportsKept DEF ReportInv
<1>4. Shapes'
  BY <1>2 DEF ChatMessage, IInv, Shapes, Events
<1> QED
  BY <1>2, <1>3, <1>4, QuietSteps DEF ChatMessage, IInv

(* A message is recalled.                                                  *)
LEMMA RecallStep ==
  ASSUME IInv, NEW m \in Messages, Recall(m) PROVE IInv'
<1> DEFINE new == Revoke(network[m].chat, network[m].sender, m)
<1>1. NetworkKept /\ NetworkInv' /\ Messages' = Messages
  BY DEF Recall, NetworkKept, Messages, IInv, NetworkInv
<1>2. ReportInv'
  <2>1. Reports(new, network'[m], m) /\ new.id = m
    BY DEF Reports, Revoke, Message, Recall
  <2>2. received' = received \cup {new} /\ ReportInv
    BY DEF Recall, IInv
  <2> HIDE DEF new
  <2> QED
    BY <1>1, <2>1, <2>2, ReportsKept DEF ReportInv
<1>3. Shapes'
  BY DEF Recall, IInv, Shapes, Events, Messages
<1> QED
  BY <1>1, <1>2, <1>3, QuietSteps DEF Recall, IInv

(* A report is dropped.                                                    *)
LEMMA DropStep ==
  ASSUME IInv, NEW msg \in received, Ignore(msg) \/ Deduplicate(msg) PROVE IInv'
<1>1. /\ received' \subseteq received
      /\ UNCHANGED <<network, recalled, timeline, rows, sending, requests, failed, deletes,
                     restarts>>
  BY DEF Ignore, Deduplicate
<1>2. NetworkKept /\ NetworkInv' /\ ReportInv' /\ Shapes'
  BY <1>1 DEF NetworkKept, Messages, IInv, NetworkInv, ReportInv, Shapes, Events
<1> QED
  BY <1>1, <1>2, QuietSteps DEF IInv

-----------------------------------------------------------------------------
(* Steps that add an event *)

(* A new event is the last; the others keep their places.                  *)
LEMMA TimelineGrows ==
  ASSUME IInv, NEW v \in Event, timeline' = Append(timeline, v)
  PROVE  /\ timeline' \in Seq(Event)
         /\ Events' = Events \cup {Len(timeline')} /\ Len(timeline') \notin Events
         /\ Len(timeline') \in Nat \ {0} /\ timeline'[Len(timeline')] = v
         /\ \A e \in Events : timeline'[e] = timeline[e] /\ e \in 1..(Len(timeline') - 1)
         /\ \A e \in 1..(Len(timeline') - 1) : e \in Events
  BY AppendFacts DEF IInv, Shapes, Events

(* An event that is added leaves what was there as it is.                  *)
LEMMA OldEvents ==
  ASSUME IInv, NEW v \in Event, timeline' = Append(timeline, v), network' = network,
         deletes' = deletes, rows \subseteq rows', failed \subseteq failed',
         \A p \in Portals : sending'[p] = sending[p] \/ sending[p].event = None
  PROVE  /\ \A e \in Events : EventOK(e)' /\ ReplyOK(e)'
         /\ \A r \in rows : RowOK(r)'
         /\ \A q \in requests : RequestOK(q)'
         /\ \A p \in Portals : sending'[p] = sending[p] => SendingOK(p)'
         /\ DeleteInv'
<1> USE TimelineGrows DEF IInv
<1>1. ASSUME NEW e \in Events PROVE EventOK(e)' /\ ReplyOK(e)'
  <2>1. /\ EventOK(e) /\ ReplyOK(e) /\ e \in Events' /\ timeline'[e] = timeline[e]
        /\ \A g \in 1..(e - 1) : g \in Events /\ timeline'[g] = timeline[g]
        /\ timeline[e].portal \in Portals /\ e # None
    BY Typed DEF EventInv, ReplyInv, None
  <2>2. EventOK(e)'
    BY <2>1 DEF EventOK, IDOf, HasRow, Messages
  <2>3. ReplyOK(e)'
    BY <2>1 DEF EventOK, ReplyOK, RevokeKept, ReplyKept, Shows
  <2> QED
    BY <2>2, <2>3
<1>2. ASSUME NEW r \in rows PROVE RowOK(r)'
  BY DEF RowInv, RowOK, IDOf
<1>3. ASSUME NEW q \in requests PROVE RequestOK(q)'
  <2>1. /\ RequestOK(q) /\ EventOK(q.event)
        /\ timeline[q.event].replyTo # None => timeline[q.event].replyTo \in Events
    BY Typed DEF RequestInv, RequestOK, EventInv, EventOK
  <2>2. q.event \in Events' /\ timeline'[q.event] = timeline[q.event]
    BY <2>1 DEF RequestOK
  <2>3. ReplyOf(q.event)' = ReplyOf(q.event)
    BY <2>1, <2>2 DEF ReplyOf
  <2> QED
    BY <2>1, <2>2, <2>3 DEF RequestOK, Messages
<1>4. ASSUME NEW p \in Portals, sending'[p] = sending[p] PROVE SendingOK(p)'
  BY <1>4 DEF SendingInv, SendingOK
<1>5. DeleteInv'
  BY DEF DeleteInv, Shapes
<1> QED
  BY <1>1, <1>2, <1>3, <1>4, <1>5

(* The row of an event is found under the ID of what it shows.             *)
LEMMA RowsAreFound ==
  ASSUME IInv, NEW p, NEW id, HasRow(p, id)
  PROVE  /\ EventOf(p, id) \in Events /\ EventOf(p, id) # None
         /\ timeline[EventOf(p, id)].shows = id.msg /\ id.msg # None
         /\ timeline[EventOf(p, id)].kind = "revoke" <=> id.fake
<1>1. PICK r \in rows : r.id = id /\ EventOf(p, id) = r.event
  BY DEF HasRow, EventOf
<1>2. /\ r.event \in Events /\ id = IDOf(r.event) /\ timeline[r.event].shows # None
      /\ r.event # None
  BY <1>1, Typed DEF IInv, RowInv, RowOK, None
<1>3. /\ id.msg = timeline[r.event].shows
      /\ (id.fake) <=> (timeline[r.event].kind = "revoke")
  BY <1>2 DEF IDOf
<1> QED
  BY <1>1, <1>2, <1>3

(* A report that replies to message m becomes a reply to what shows m.     *)
LEMMA ReplyIsFound ==
  ASSUME IInv, NEW c \in Chats, NEW m \in Messages, network[m].chat = c,
         sending[KeyOf(c)] = Idle,
         NEW t, t = EventOf(KeyOf(c), MakeMessageID(c.peer, m))
  PROVE  /\ t # None => t \in Events /\ Shows(t, m)
         /\ \A g \in Events : Shows(g, m) /\ g \notin failed => t # None
<1> DEFINE id == MakeMessageID(c.peer, m)
<1>1. t # None => t \in Events /\ Shows(t, m)
  <2>1. t # None => HasRow(KeyOf(c), id)
    BY DEF EventOf
  <2> QED
    BY <2>1, RowsAreFound DEF MakeMessageID, Shows
<1>2. ASSUME NEW g \in Events, Shows(g, m), g \notin failed PROVE t # None
  <2>1. timeline[g].portal = KeyOf(c) /\ timeline[g].shows = m /\ timeline[g].kind # "revoke"
    BY <1>2 DEF IInv, EventInv, EventOK, Shows
  <2>2. sending[timeline[g].portal].event # g
    BY <2>1, Typed DEF IInv, Idle, None
  <2>3. IDOf(g) = id
    BY <2>1, KeyFacts DEF IDOf, MakeMessageID
  <2>4. HasRow(KeyOf(c), id)
    BY <1>2, <2>1, <2>2, <2>3 DEF IInv, EventInv, EventOK
  <2> QED
    BY <2>4, RowsAreFound
<1> QED
  BY <1>1, <1>2

(* The event that a report becomes.                                        *)
LEMMA BridgedEvent ==
  ASSUME IInv, NEW msg \in received, Bridge(msg)
  PROVE  \E n \in NetMessage, p \in Portals, t \in {None} \cup Events, v \in Event :
           /\ n = network[msg.id] /\ n.chat \in Chats /\ p = KeyOf(n.chat)
           /\ p = GetPortalKey(msg) /\ ParsePortalID(p.id) = n.chat
           /\ msg.id \in Messages /\ msg.id # None /\ msg.fake \in BOOLEAN
           /\ GetID(msg) = [fake |-> msg.fake, peer |-> n.chat.peer, msg |-> msg.id]
           /\ msg.reply = IF msg.fake THEN msg.id ELSE n.reply
           /\ t = IF msg.reply = None THEN None
                  ELSE EventOf(p, MakeMessageID(n.chat.peer, msg.reply))
           /\ v.portal = p /\ v.shows = msg.id /\ v.replyTo = t
           /\ v.kind = IF msg.fake THEN "revoke" ELSE "message"
           /\ timeline' = Append(timeline, v)
<1> USE DEF IInv
<1>1. PICK n \in NetMessage, p \in Portals :
        /\ n = network[msg.id] /\ n.chat \in Chats /\ p = KeyOf(n.chat)
        /\ p = GetPortalKey(msg) /\ ParsePortalID(p.id) = n.chat
        /\ msg.id \in Messages /\ msg.id # None /\ msg.fake \in BOOLEAN
        /\ GetPeerID(msg) = n.chat.peer
        /\ GetID(msg) = [fake |-> msg.fake, peer |-> n.chat.peer, msg |-> msg.id]
        /\ msg.reply = IF msg.fake THEN msg.id ELSE n.reply
  BY ReportFacts, KeyFacts, Typed DEF Bridge, None
<1>2. PICK t \in {None} \cup Events :
        t = IF msg.reply = None THEN None
            ELSE EventOf(p, MakeMessageID(n.chat.peer, msg.reply))
  <2>1. \A id : EventOf(p, id) \in {None} \cup Events
    BY RowsAreFound DEF EventOf
  <2> QED
    BY <2>1
<1>3. PICK v \in Event :
        /\ v = [portal |-> p, kind |-> IF msg.fake THEN "revoke" ELSE "message",
                shows |-> msg.id, replyTo |-> t]
        /\ v.portal = p /\ v.shows = msg.id /\ v.replyTo = t
        /\ v.kind = IF msg.fake THEN "revoke" ELSE "message"
  <2> DEFINE w == [portal |-> p, kind |-> IF msg.fake THEN "revoke" ELSE "message",
                   shows |-> msg.id, replyTo |-> t]
  <2>1. t \in Nat /\ msg.id \in Nat
    BY <1>1, <1>2, Typed DEF None
  <2>2. w \in Event
    BY <1>1, <2>1 DEF Event
  <2> QED
    BY <2>2
<1>4. timeline' = Append(timeline, v)
  BY <1>1, <1>2, <1>3 DEF Bridge
<1> WITNESS n \in NetMessage, p \in Portals, t \in {None} \cup Events, v \in Event
<1> QED
  BY <1>1, <1>2, <1>3, <1>4

(* A report becomes an event with a row; what it replies to is found       *)
(* unless its sender knows nothing of it.                                  *)
LEMMA BridgeStep ==
  ASSUME IInv, NEW msg \in received, Bridge(msg) PROVE IInv'
<1> USE DEF IInv
<1>1. PICK n \in NetMessage, p \in Portals, t \in {None} \cup Events, v \in Event :
        /\ n = network[msg.id] /\ n.chat \in Chats /\ p = KeyOf(n.chat)
        /\ p = GetPortalKey(msg) /\ ParsePortalID(p.id) = n.chat
        /\ msg.id \in Messages /\ msg.id # None /\ msg.fake \in BOOLEAN
        /\ GetID(msg) = [fake |-> msg.fake, peer |-> n.chat.peer, msg |-> msg.id]
        /\ msg.reply = IF msg.fake THEN msg.id ELSE n.reply
        /\ t = IF msg.reply = None THEN None
               ELSE EventOf(p, MakeMessageID(n.chat.peer, msg.reply))
        /\ v.portal = p /\ v.shows = msg.id /\ v.replyTo = t
        /\ v.kind = IF msg.fake THEN "revoke" ELSE "message"
        /\ timeline' = Append(timeline, v)
  BY BridgedEvent
<1>2. PICK e \in Nat \ {0} :
        /\ e = Len(timeline') /\ timeline' \in Seq(Event)
        /\ Events' = Events \cup {e} /\ e \notin Events /\ timeline'[e] = v
        /\ \A g \in Events : timeline'[g] = timeline[g] /\ g \in 1..(e - 1)
        /\ \A g \in 1..(e - 1) : g \in Events
  BY <1>1, TimelineGrows
<1>3. PICK row \in Row :
        /\ row.portal = p /\ row.id = GetID(msg) /\ row.event = e
        /\ rows' = rows \cup {row}
  <2>1. GetID(msg) \in MessageID
    BY <1>1, ChatFacts, Typed DEF MessageID
  <2>2. rows' = rows \cup {[portal |-> p, id |-> GetID(msg), event |-> e]}
    BY <1>1, <1>2 DEF Bridge
  <2> QED
    BY <2>1, <2>2 DEF Row
<1>4. /\ sending[p] = Idle /\ received' \subseteq received
      /\ UNCHANGED <<network, recalled, sending, requests, failed, deletes, restarts>>
  BY <1>1 DEF Bridge
<1>5. /\ \A g \in Events : EventOK(g)' /\ ReplyOK(g)'
      /\ \A r \in rows : RowOK(r)'
      /\ \A q \in requests : RequestOK(q)'
      /\ \A q \in Portals : sending'[q] = sending[q] => SendingOK(q)'
      /\ DeleteInv'
  BY <1>1, <1>3, <1>4, OldEvents
<1>6. row.id = IDOf(e)'
  BY <1>1, <1>2, <1>3 DEF IDOf
<1>7. RowInv'
  <2>1. RowOK(row)'
    BY <1>1, <1>2, <1>3, <1>6 DEF RowOK
  <2> QED
    BY <1>3, <1>5, <2>1 DEF RowInv
<1>8. Shapes'
  BY <1>2, <1>3, <1>4 DEF Shapes, Messages
<1>9. NetworkInv' /\ ReportInv' /\ SendingInv' /\ RequestInv'
  BY <1>4, <1>5 DEF NetworkInv, ReportInv, SendingInv, RequestInv, Messages
<1>10. t # None => timeline[t].shows # None
  <2>1. \A id : EventOf(p, id) # None => timeline[EventOf(p, id)].shows # None
    BY RowsAreFound DEF EventOf
  <2> QED
    BY <1>1, <2>1
<1>11. EventInv'
  <2>1. HasRow(p, IDOf(e))'
    BY <1>3, <1>6 DEF HasRow
  <2>2. /\ msg.id \in Messages' /\ msg.id # None /\ p = KeyOf(network'[msg.id].chat)
        /\ timeline'[e].portal = p /\ timeline'[e].shows = msg.id /\ timeline'[e].replyTo = t
    BY <1>1, <1>2, <1>4 DEF Messages
  <2>3. t # None => t \in 1..(e - 1) /\ timeline'[t].shows # None
    BY <1>2, <1>10
  <2>4. EventOK(e)'
    BY <2>1, <2>2, <2>3 DEF EventOK
  <2> QED
    BY <1>2, <1>5, <2>4 DEF EventInv
<1>12. ReplyOK(e)'
  <2>1. CASE msg.reply = None
    <3>1. ~ msg.fake /\ t = None /\ n.reply = None
      BY <1>1, <2>1
    <3> QED
      BY <1>1, <1>2, <1>4, <3>1 DEF ReplyOK, ReplyKept, Shows, None
  <2>2. CASE msg.reply # None
    <3>1. msg.reply \in Messages /\ network[msg.reply].chat = n.chat
      BY <1>1, <2>2, Typed DEF NetworkInv, Messages, Shapes
    <3>2. /\ t # None => t \in Events /\ Shows(t, msg.reply)
          /\ \A g \in Events : Shows(g, msg.reply) /\ g \notin failed => t # None
      BY <1>1, <1>4, <2>2, <3>1, ReplyIsFound
    <3>3. \A g \in Events : Shows(g, msg.reply)' <=> Shows(g, msg.reply)
      BY <1>2 DEF Shows
    <3>4. \A d \in deletes' : d[1] # e
      BY <1>2, <1>4 DEF Shapes
    <3>5. /\ timeline'[e].replyTo = t /\ timeline'[e].shows = msg.id
          /\ timeline'[e].kind = IF msg.fake THEN "revoke" ELSE "message"
          /\ msg.reply = IF msg.fake THEN msg.id ELSE network'[msg.id].reply
          /\ failed' = failed
      BY <1>1, <1>2, <1>4
    <3>6. CASE msg.fake
      BY <3>2, <3>3, <3>4, <3>5, <3>6 DEF ReplyOK, RevokeKept
    <3>7. CASE ~ msg.fake
      <4>1. t # None => timeline'[t].kind # "revoke" /\ timeline'[t].shows = msg.reply
        BY <3>2, <3>3 DEF Shows
      <4>2. \A g \in 1..(e - 1) : Shows(g, msg.reply)' /\ g \notin failed' => t # None
        BY <1>2, <3>2, <3>3, <3>5
      <4> QED
        BY <3>5, <3>7, <4>1, <4>2 DEF ReplyOK, ReplyKept
    <3> QED
      BY <1>1, <3>6, <3>7
  <2> QED
    BY <2>1, <2>2
<1>13. ReplyInv'
  BY <1>2, <1>5, <1>12 DEF ReplyInv
<1> QED
  BY <1>5, <1>7, <1>8, <1>9, <1>11, <1>13

(* What is written in a room shows nothing yet.  A row that HandleMatrix-  *)
(* Message finds for the event replied to is the row of that event.        *)
LEMMA SentEvents ==
  ASSUME IInv, NEW p \in Portals, NEW target \in {None} \cup Events,
         target # None => ReplyRows(p, target) # {}
  PROVE  /\ MatrixEvent(p, target) \in Event
         /\ target # None => timeline[target].shows # None /\ timeline[target].portal = p
         /\ \A r \in ReplyRows(p, target) :
              ParseMessageID(r.id) = IF timeline[target].kind = "revoke" THEN None
                                     ELSE timeline[target].shows
<1>1. MatrixEvent(p, target) \in Event
  BY Typed DEF MatrixEvent, Event, IInv, None
<1>2. ASSUME NEW r \in ReplyRows(p, target)
      PROVE  /\ timeline[target].shows # None /\ timeline[target].portal = p
             /\ ParseMessageID(r.id) = IF timeline[target].kind = "revoke" THEN None
                                       ELSE timeline[target].shows
  <2>1. /\ r.event = target /\ p = timeline[target].portal
        /\ r.id = IDOf(target) /\ timeline[target].shows # None
    BY DEF ReplyRows, IInv, RowInv, RowOK
  <2>2. IDOf(target).msg = timeline[target].shows
    BY DEF IDOf
  <2>3. IDOf(target).fake <=> (timeline[target].kind = "revoke")
    BY DEF IDOf
  <2>4. ParseMessageID(IDOf(target)) = IF timeline[target].kind = "revoke" THEN None
                                      ELSE timeline[target].shows
    BY <2>2, <2>3 DEF ParseMessageID
  <2> QED
    BY <2>1, <2>4
<1> QED
  BY <1>1, <1>2

(* A Matrix event becomes a request, which replies as the event does.      *)
LEMMA HandleMatrixMessageStep ==
  ASSUME IInv, NEW p \in Portals, NEW target \in {None} \cup Events,
         HandleMatrixMessage(p, target)
  PROVE  IInv'
<1> USE DEF IInv
<1>1. PICK v \in Event : /\ v = MatrixEvent(p, target) /\ v.portal = p /\ v.kind = "sent"
                         /\ v.shows = None /\ v.replyTo = target
  BY SentEvents DEF HandleMatrixMessage, MatrixEvent
<1>2. timeline' = Append(timeline, v)
  BY <1>1 DEF HandleMatrixMessage
<1>3. PICK e \in Nat \ {0} :
        /\ e = Len(timeline') /\ timeline' \in Seq(Event)
        /\ Events' = Events \cup {e} /\ e \notin Events /\ timeline'[e] = v
        /\ \A g \in Events : timeline'[g] = timeline[g] /\ g \in 1..(e - 1)
        /\ \A g \in 1..(e - 1) : g \in Events
  BY <1>2, TimelineGrows
<1>4. PICK reply \in Nat :
        /\ reply = IF target = None \/ timeline[target].kind = "revoke" THEN None
                   ELSE timeline[target].shows
        /\ requests' = requests \cup {SendMessage(ParsePortalID(p.id), e, reply)}
  <2>1. CASE target = None
    BY <1>3, <2>1 DEF HandleMatrixMessage, None
  <2>2. CASE target # None
    <3>1. (CHOOSE r \in ReplyRows(p, target) : TRUE) \in ReplyRows(p, target)
      BY <2>2 DEF HandleMatrixMessage
    <3>2. ParseMessageID((CHOOSE r \in ReplyRows(p, target) : TRUE).id)
            = IF timeline[target].kind = "revoke" THEN None ELSE timeline[target].shows
      BY <2>2, <3>1, SentEvents DEF HandleMatrixMessage
    <3>3. timeline[target].shows \in Nat
      BY <2>2, Typed
    <3> QED
      BY <1>3, <2>2, <3>2, <3>3 DEF HandleMatrixMessage, None
  <2> QED
    BY <2>1, <2>2
<1>5. PICK q \in Request : /\ q.chat = ParsePortalID(p.id) /\ q.event = e /\ q.reply = reply
                           /\ requests' = requests \cup {q}
  BY <1>4, PortalFacts DEF SendMessage, Request
<1>6. /\ sending[p] = Idle /\ sending' \in [Portals -> [event: Nat, msg: Nat]]
      /\ sending'[p].event = e /\ sending'[p].msg = None
      /\ \A r \in Portals : r # p => sending'[r] = sending[r]
      /\ UNCHANGED <<network, recalled, received, rows, failed, deletes, restarts>>
  <2>1. sending[p] = Idle /\ sending' = [sending EXCEPT ![p] = [event |-> e, msg |-> None]]
    <3>1. [Idle EXCEPT !.event = e] = [event |-> e, msg |-> None]
      BY DEF Idle
    <3> QED
      BY <1>3, <3>1 DEF HandleMatrixMessage
  <2>2. [event |-> e, msg |-> None] \in [event: Nat, msg: Nat]
    BY DEF None
  <2> QED
    BY <2>1, <2>2 DEF HandleMatrixMessage, Shapes
<1>7. /\ \A g \in Events : EventOK(g)' /\ ReplyOK(g)'
      /\ \A r \in rows : RowOK(r)'
      /\ \A r \in requests : RequestOK(r)'
      /\ \A r \in Portals : sending'[r] = sending[r] => SendingOK(r)'
      /\ DeleteInv'
  BY <1>2, <1>6, OldEvents DEF Idle
<1>8. target # None => /\ target \in Events /\ timeline[target].shows # None
                       /\ timeline[target].portal = p
  BY SentEvents DEF HandleMatrixMessage
<1>9. EventInv' /\ ReplyInv'
  <2>1. EventOK(e)' /\ ReplyOK(e)'
    BY <1>1, <1>3, <1>6, <1>8 DEF EventOK, ReplyOK
  <2> QED
    BY <1>3, <1>7, <2>1 DEF EventInv, ReplyInv
<1>10. SendingInv'
  <2>1. SendingOK(p)'
    BY <1>1, <1>3, <1>6 DEF SendingOK, None
  <2> QED
    BY <1>6, <1>7, <2>1 DEF SendingInv
<1>11. RequestInv'
  <2>1. q.reply = ReplyOf(e)'
    BY <1>1, <1>3, <1>4, <1>5, <1>8 DEF ReplyOf
  <2>2. ASSUME q.reply # None PROVE q.reply \in Messages /\ network[q.reply].chat = q.chat
    <3>1. /\ target \in Events /\ timeline[target].portal = p
          /\ q.reply = timeline[target].shows
      BY <1>4, <1>5, <1>8, <2>2
    <3>2. q.reply \in Messages /\ p = KeyOf(network[q.reply].chat)
      BY <2>2, <3>1 DEF EventInv, EventOK
    <3> QED
      BY <1>5, <3>2, KeyFacts, Typed
  <2>3. KeyOf(q.chat) = p
    BY <1>5, PortalFacts
  <2>4. RequestOK(q)'
    BY <1>1, <1>3, <1>5, <1>6, <2>1, <2>2, <2>3 DEF RequestOK, Messages
  <2>5. \A r \in requests : r.event # e
    BY <1>3 DEF RequestInv, RequestOK
  <2> QED
    BY <1>5, <1>7, <2>4, <2>5 DEF RequestInv
<1>12. Shapes'
  BY <1>3, <1>5, <1>6 DEF Shapes, Messages
<1>13. NetworkInv' /\ ReportInv' /\ RowInv'
  BY <1>6, <1>7 DEF NetworkInv, ReportInv, RowInv, Messages
<1> QED
  BY <1>7, <1>9, <1>10, <1>11, <1>12, <1>13

(* A Matrix event is refused: there is no request.                         *)
LEMMA RefuseMatrixMessageStep ==
  ASSUME IInv, NEW p \in Portals, RefuseMatrixMessage(p) PROVE IInv'
<1> USE DEF IInv
<1>1. PICK v \in Event : /\ v = MatrixEvent(p, None) /\ v.portal = p /\ v.kind = "sent"
                         /\ v.shows = None /\ v.replyTo = None
  <2>1. MatrixEvent(p, None) \in Event
    BY SentEvents
  <2> QED
    BY <2>1 DEF MatrixEvent
<1>2. timeline' = Append(timeline, v)
  BY <1>1 DEF RefuseMatrixMessage
<1>3. PICK e \in Nat \ {0} :
        /\ e = Len(timeline') /\ timeline' \in Seq(Event)
        /\ Events' = Events \cup {e} /\ e \notin Events /\ timeline'[e] = v
  BY <1>2, TimelineGrows
<1>4. /\ failed' = failed \cup {e}
      /\ UNCHANGED <<network, recalled, received, rows, sending, requests, deletes, restarts>>
  BY <1>3 DEF RefuseMatrixMessage
<1>5. /\ \A g \in Events : EventOK(g)' /\ ReplyOK(g)'
      /\ \A r \in rows : RowOK(r)'
      /\ \A r \in requests : RequestOK(r)'
      /\ \A r \in Portals : sending'[r] = sending[r] => SendingOK(r)'
      /\ DeleteInv'
  BY <1>2, <1>4, OldEvents
<1>6. EventInv' /\ ReplyInv'
  <2>1. EventOK(e)' /\ ReplyOK(e)'
    BY <1>1, <1>3, <1>4 DEF EventOK, ReplyOK
  <2> QED
    BY <1>3, <1>5, <2>1 DEF EventInv, ReplyInv
<1>7. Shapes'
  BY <1>3, <1>4 DEF Shapes, Messages
<1>8. NetworkInv' /\ ReportInv' /\ RowInv' /\ SendingInv' /\ RequestInv'
  BY <1>4, <1>5 DEF NetworkInv, ReportInv, RowInv, SendingInv, RequestInv, Messages
<1> QED
  BY <1>5, <1>6, <1>7, <1>8

-----------------------------------------------------------------------------
(* Steps that settle an event *)

(* An event that becomes a message is the only one that changes, and       *)
(* nothing refers to what it showed, which was nothing.                    *)
LEMMA AgentSendsStep ==
  ASSUME IInv, NEW q \in requests, AgentSends(q) PROVE IInv'
<1> USE DEF IInv
<1>1. /\ q \in Request /\ RequestOK(q)
      /\ \A r \in requests : r.event = q.event => r = q
  BY DEF Shapes, RequestInv
<1>2. PICK n \in NetMessage :
        /\ n.chat = q.chat /\ n.sender = Self /\ n.reply = q.reply
        /\ n = [chat |-> q.chat, sender |-> Self, reply |-> q.reply]
        /\ network' = Append(network, n)
  BY <1>1 DEF AgentSends, NetMessage, Request
<1>3. PICK m \in Nat \ {0} :
        /\ m = Len(network') /\ network' \in Seq(NetMessage) /\ NetworkKept /\ NetworkInv'
        /\ Messages' = Messages \cup {m} /\ m \notin Messages /\ network'[m] = n
  <2>1. n.sender \in Senders(n.chat)
    BY <1>2 DEF Senders
  <2>2. n.reply # None => n.reply \in Messages /\ network[n.reply].chat = n.chat
    BY <1>1, <1>2 DEF RequestOK
  <2> QED
    BY <1>2, <2>1, <2>2, NetworkGrows
<1>4. PICK s \in Events : s = q.event
  BY <1>1 DEF RequestOK
<1>5. /\ timeline' \in Seq(Event) /\ Events' = Events
      /\ timeline'[s].shows = m
      /\ \A e \in Events :
           /\ timeline'[e].portal = timeline[e].portal /\ timeline'[e].kind = timeline[e].kind
           /\ timeline'[e].replyTo = timeline[e].replyTo
           /\ e # s => timeline'[e] = timeline[e]
  <2>1. timeline' = [timeline EXCEPT ![s].shows = m] /\ timeline \in Seq(Event)
    BY <1>3, <1>4 DEF AgentSends, Shapes
  <2>2. [timeline[s] EXCEPT !.shows = m] \in Event
    BY <1>3, Typed DEF Event
  <2> QED
    BY <2>1, <2>2, Typed DEF Events, Event
<1>6. /\ sending' \in [Portals -> [event: Nat, msg: Nat]]
      /\ \A p \in Portals : /\ sending'[p].event = sending[p].event
                            /\ sending'[p].msg = IF sending[p].event = s THEN m
                                                 ELSE sending[p].msg
  <2>1. \A p \in Portals : sending[p] \in [event: Nat, msg: Nat]
    BY DEF Shapes
  <2>2. sending' = [p \in Portals |-> IF sending[p].event = s
                                        THEN [sending[p] EXCEPT !.msg = m]
                                        ELSE sending[p]]
    BY <1>3, <1>4 DEF AgentSends
  <2> QED
    BY <2>1, <2>2
<1>7. /\ requests' = requests \ {q}
      /\ UNCHANGED <<recalled, rows, failed, deletes, restarts>>
  BY DEF AgentSends
<1>8. timeline[s].shows = None /\ timeline[s].kind = "sent" /\ timeline[s].portal = KeyOf(q.chat)
  BY <1>1, <1>4 DEF RequestOK
<1>9. ReportInv'
  <2> DEFINE new == Message(q.chat, Self, TRUE, m, q.reply, FALSE, FALSE)
  <2>1. Reports(new, n, m) /\ new.id = m
    BY <1>2 DEF Reports, Message
  <2>2. received' = received \cup {new}
    BY <1>3 DEF AgentSends
  <2> HIDE DEF new
  <2> QED
    BY <1>3, <2>1, <2>2, ReportsKept DEF ReportInv
<1>10. ASSUME NEW e \in Events PROVE EventOK(e)'
  <2>1. EventOK(e) /\ timeline[e].portal \in Portals
    BY Typed DEF EventInv
  <2>2. timeline[e].replyTo # None => /\ timeline[e].replyTo \in 1..(e - 1)
                                     /\ timeline[e].replyTo \in Events
                                     /\ timeline[e].replyTo # s
    BY <1>8, <2>1, Typed DEF EventOK
  <2>3. CASE e = s
    BY <1>2, <1>3, <1>5, <1>6, <1>7, <1>8, <2>1, <2>2, <2>3 DEF EventOK, None
  <2>4. CASE e # s
    <3>1. IDOf(e)' = IDOf(e)
      BY <1>5, <2>4 DEF IDOf
    <3>2. HasRow(timeline[e].portal, IDOf(e)) => HasRow(timeline[e].portal, IDOf(e))'
      BY <1>5, <1>7, <2>4, <3>1 DEF HasRow
    <3> QED
      BY <1>3, <1>5, <1>6, <1>7, <2>1, <2>2, <2>4, <3>2 DEF EventOK, NetworkKept
  <2> QED
    BY <2>3, <2>4
<1>11. RowInv'
  <2>1. ASSUME NEW r \in rows PROVE RowOK(r)'
    <3>1. RowOK(r) /\ r.event \in Events /\ r.event # s
      BY <1>8 DEF RowInv, RowOK
    <3>2. timeline'[r.event] = timeline[r.event] /\ r.event \in Events'
      BY <1>5, <3>1
    <3> QED
      BY <3>1, <3>2 DEF RowOK, IDOf
  <2> QED
    BY <1>7, <2>1 DEF RowInv
<1>12. SendingInv'
  BY <1>3, <1>5, <1>6 DEF SendingInv, SendingOK, None, Events
<1>13. RequestInv'
  <2>1. ASSUME NEW r \in requests, r # q PROVE RequestOK(r)'
    <3>1. RequestOK(r) /\ r.event \in Events /\ r.event # s
      BY <1>1, <1>4, <2>1 DEF RequestInv, RequestOK
    <3>2. timeline[r.event].replyTo # None => /\ timeline[r.event].replyTo \in Events
                                             /\ timeline[r.event].replyTo # s
      BY <1>8, <3>1, Typed DEF EventInv, EventOK
    <3>3. ReplyOf(r.event)' = ReplyOf(r.event)
      BY <1>5, <3>1, <3>2 DEF ReplyOf
    <3> QED
      BY <1>3, <1>5, <3>1, <3>3 DEF RequestOK, NetworkKept
  <2> QED
    BY <1>7, <2>1 DEF RequestInv
<1>14. DeleteInv'
  <2>1. ASSUME NEW d \in deletes PROVE d[1] \in Events /\ d[1] # s
    BY <1>8, Typed DEF DeleteInv, Shapes, None
  <2> QED
    BY <1>5, <1>7, <2>1 DEF DeleteInv
<1>15. ASSUME NEW e \in Events PROVE ReplyOK(e)'
  <2>1. /\ EventOK(e) /\ ReplyOK(e) /\ e \in Events'
        /\ \A g \in 1..(e - 1) : g \in Events
    BY <1>5, Typed DEF EventInv, ReplyInv
  <2>2. timeline[e].replyTo # None => /\ timeline[e].replyTo \in Events
                                     /\ timeline[e].replyTo # s
    BY <1>8, <2>1 DEF EventOK
  <2>3. \A g \in Events, i \in {None} \cup Messages : Shows(g, i)' <=> Shows(g, i)
    BY <1>3, <1>5, <1>8 DEF Shows
  <2>4. CASE e = s
    <3>1. network'[m].reply = ReplyOf(e) /\ network'[m].reply \in {None} \cup Messages
      BY <1>1, <1>2, <1>3, <1>4, <2>4 DEF RequestOK
    <3>2. ReplyKept(e)'
      BY <1>5, <1>7, <2>1, <2>2, <2>3, <2>4, <3>1 DEF ReplyKept, ReplyOf, Shows
    <3> QED
      BY <1>5, <1>8, <2>4, <3>2 DEF ReplyOK
  <2>5. CASE e # s
    <3>1. timeline'[e] = timeline[e] /\ timeline[e].shows \in {None} \cup Messages
      BY <1>5, <2>1, <2>5 DEF EventOK
    <3>2. timeline[e].shows # None =>
            /\ network'[timeline[e].shows] = network[timeline[e].shows]
            /\ network[timeline[e].shows].reply \in {None} \cup Messages
      BY <1>3, <3>1 DEF NetworkKept, NetworkInv, Messages, Shapes
    <3> QED
      BY <1>5, <1>7, <2>1, <2>2, <2>3, <3>1, <3>2 DEF ReplyOK, RevokeKept, ReplyKept
  <2> QED
    BY <2>4, <2>5
<1>16. EventInv' /\ ReplyInv'
  BY <1>5, <1>10, <1>15 DEF EventInv, ReplyInv
<1>17. Shapes'
  BY <1>3, <1>5, <1>6, <1>7 DEF Shapes
<1> QED
  BY <1>3, <1>9, <1>11, <1>12, <1>13, <1>14, <1>16, <1>17

(* Steps that add no event and no message, and keep what settles one.      *)
LEMMA SettledEvents ==
  ASSUME IInv, UNCHANGED <<network, timeline, requests>>,
         rows \subseteq rows', failed \subseteq failed',
         \A e \in Events : /\ sending[timeline[e].portal].event = e
                           => \/ sending'[timeline[e].portal].event = e \/ e \in failed'
                              \/ timeline[e].shows # None
                                 /\ HasRow(timeline[e].portal, IDOf(e))'
  PROVE  NetworkInv' /\ EventInv' /\ RequestInv' /\ \A r \in rows : RowOK(r)'
<1> USE DEF IInv, Messages, Events
<1>1. NetworkInv' /\ RequestInv'
  BY DEF NetworkInv, RequestInv, RequestOK, ReplyOf
<1>2. \A r \in rows : RowOK(r)'
  BY DEF RowInv, RowOK, IDOf
<1>3. ASSUME NEW e \in Events PROVE EventOK(e)'
  <2>1. EventOK(e)
    BY DEF EventInv
  <2>2. HasRow(timeline[e].portal, IDOf(e)) => HasRow(timeline[e].portal, IDOf(e))'
    BY DEF HasRow, IDOf
  <2> QED
    BY <2>1, <2>2 DEF EventOK
<1> QED
  BY <1>1, <1>2, <1>3 DEF EventInv

(* What HandleMatrixMessage is sending.                                    *)
LEMMA SendingFacts ==
  ASSUME IInv, NEW p \in Portals, sending[p] # Idle
  PROVE  /\ sending[p].event \in Events /\ timeline[sending[p].event].portal = p
         /\ timeline[sending[p].event].kind = "sent"
         /\ timeline[sending[p].event].shows = sending[p].msg
<1>1. sending[p] \in [event: Nat, msg: Nat] /\ SendingOK(p)
  BY DEF IInv, Shapes, SendingInv
<1> QED
  BY <1>1 DEF SendingOK, Idle, None

(* Only an event of portal p is sent there, so the others go on.           *)
LEMMA OthersAreSent ==
  ASSUME IInv, NEW p \in Portals, sending' = [sending EXCEPT ![p] = Idle],
         UNCHANGED timeline
  PROVE  /\ sending' \in [Portals -> [event: Nat, msg: Nat]] /\ SendingInv'
         /\ \A e \in Events : \/ sending'[timeline[e].portal].event
                                   = sending[timeline[e].portal].event
                              \/ timeline[e].portal = p
<1>1. Idle \in [event: Nat, msg: Nat]
  BY DEF Idle, None
<1>2. \A q \in Portals : sending'[q] = IF q = p THEN Idle ELSE sending[q]
  BY DEF IInv, Shapes
<1>3. SendingInv'
  BY <1>2 DEF IInv, SendingInv, SendingOK, Idle, Events
<1> QED
  BY <1>1, <1>2, <1>3, Typed DEF IInv, Shapes

(* The row made from an answer is the one a report would look for.         *)
LEMMA SendAnsweredStep ==
  ASSUME IInv, NEW p \in Portals, SendAnswered(p) PROVE IInv'
<1> USE DEF IInv
<1>1. /\ sending' = [sending EXCEPT ![p] = Idle] /\ sending[p].msg # None
      /\ UNCHANGED <<network, recalled, received, timeline, requests, failed, deletes,
                     restarts>>
  BY DEF SendAnswered
<1>2. PICK e \in Events : /\ sending[p].event = e /\ timeline[e].portal = p
                          /\ timeline[e].kind = "sent" /\ timeline[e].shows = sending[p].msg
  BY <1>1, SendingFacts DEF Idle
<1>3. PICK row \in Row : /\ row.portal = p /\ row.event = e /\ row.id = IDOf(e)
                         /\ rows' = rows \cup {row}
  <2> DEFINE id == MakeMessageID(ParsePortalID(p.id).peer, timeline[e].shows)
             new == [portal |-> p, id |-> id, event |-> e]
  <2>1. id = IDOf(e)
    BY <1>2 DEF MakeMessageID, IDOf
  <2>2. id \in MessageID
    BY PortalFacts, ChatFacts, Typed DEF MakeMessageID, MessageID
  <2>3. new \in Row
    BY <2>2, Typed DEF Row
  <2>4. rows' = rows \cup {new}
    BY <1>2 DEF SendAnswered
  <2> QED
    BY <2>1, <2>3, <2>4
<1>4. /\ sending' \in [Portals -> [event: Nat, msg: Nat]] /\ SendingInv'
      /\ \A g \in Events : \/ sending'[timeline[g].portal].event
                                = sending[timeline[g].portal].event
                           \/ timeline[g].portal = p
  BY <1>1, OthersAreSent
<1>5. HasRow(p, IDOf(e))'
  BY <1>1, <1>3 DEF HasRow, IDOf
<1>6. NetworkInv' /\ EventInv' /\ RequestInv' /\ \A r \in rows : RowOK(r)'
  BY <1>1, <1>2, <1>3, <1>4, <1>5, SettledEvents
<1>7. RowOK(row)'
  BY <1>1, <1>2, <1>3 DEF RowOK, IDOf, Events
<1>8. RowInv'
  BY <1>3, <1>6, <1>7 DEF RowInv
<1>9. Shapes'
  BY <1>1, <1>3, <1>4 DEF Shapes, Messages, Events
<1>10. ReportInv' /\ DeleteInv' /\ ReplyInv'
  BY <1>1 DEF ReportInv, Messages, DeleteInv, ReplyInv, Events, ReplyOK, RevokeKept, ReplyKept,
              Shows
<1> QED
  BY <1>4, <1>6, <1>8, <1>9, <1>10

(* A send that fails leaves an event whose sender was told.                *)
LEMMA SendFailsStep ==
  ASSUME IInv, NEW p \in Portals, SendFails(p) PROVE IInv'
<1> USE DEF IInv
<1>1. /\ sending' = [sending EXCEPT ![p] = Idle] /\ sending[p] # Idle
      /\ UNCHANGED <<network, recalled, received, timeline, rows, requests, deletes,
                     restarts>>
  BY DEF SendFails
<1>2. PICK e \in Events : e = sending[p].event /\ failed' = failed \cup {e}
  BY <1>1, SendingFacts DEF SendFails
<1>3. /\ sending' \in [Portals -> [event: Nat, msg: Nat]] /\ SendingInv'
      /\ \A g \in Events : \/ sending'[timeline[g].portal].event
                                = sending[timeline[g].portal].event
                           \/ timeline[g].portal = p
  BY <1>1, OthersAreSent
<1>4. NetworkInv' /\ EventInv' /\ RequestInv' /\ RowInv'
  BY <1>1, <1>2, <1>3, SettledEvents DEF RowInv
<1>5. Shapes'
  BY <1>1, <1>2, <1>3 DEF Shapes, Messages, Events
<1>6. ReportInv' /\ DeleteInv' /\ ReplyInv'
  BY <1>1, <1>2 DEF ReportInv, Messages, DeleteInv, ReplyInv, Events, ReplyOK, RevokeKept,
                    ReplyKept, Shows
<1> QED
  BY <1>3, <1>4, <1>5, <1>6

(* An event is deleted by the ID in its row.                               *)
LEMMA RemoveStep ==
  ASSUME IInv, NEW r \in rows, HandleMatrixMessageRemove(r) PROVE IInv'
<1> USE DEF IInv
<1>1. PICK e \in Events : /\ e = r.event /\ r.id = IDOf(e) /\ timeline[e].shows # None
                          /\ timeline[e].shows \in Messages
  BY DEF RowInv, RowOK, EventInv, EventOK
<1>2. ParseMessageID(r.id) = timeline[e].shows /\ timeline[e].kind # "revoke"
  <2>1. IDOf(e).msg = timeline[e].shows
    BY DEF IDOf
  <2>2. IDOf(e).fake <=> (timeline[e].kind = "revoke")
    BY DEF IDOf
  <2> QED
    BY <1>1, <2>1, <2>2 DEF HandleMatrixMessageRemove, ParseMessageID
<1>3. /\ deletes' = {<<e, timeline[e].shows>>}
      /\ UNCHANGED <<network, recalled, received, timeline, rows, sending, requests, failed,
                     restarts>>
  BY <1>1, <1>2 DEF HandleMatrixMessageRemove
<1>4. NetworkInv' /\ EventInv' /\ RequestInv' /\ RowInv'
  BY <1>3, SettledEvents DEF RowInv
<1>5. Shapes'
  BY <1>1, <1>3 DEF Shapes, Messages, Events
<1>6. ReportInv' /\ SendingInv' /\ DeleteInv'
  BY <1>2, <1>3 DEF ReportInv, Messages, SendingInv, SendingOK, Events, DeleteInv
<1>7. ReplyInv'
  BY <1>2, <1>3 DEF ReplyInv, Events, ReplyOK, RevokeKept, ReplyKept, Shows
<1> QED
  BY <1>4, <1>5, <1>6, <1>7

(* The process dies: the events that were being sent fail.                 *)
LEMMA RestartStep ==
  ASSUME IInv, Restart PROVE IInv'
<1> USE DEF IInv
<1>1. /\ sending' = [p \in Portals |-> Idle] /\ received' = {}
      /\ restarts' \in 0..MaxRestarts
      /\ UNCHANGED <<network, recalled, timeline, rows, requests, deletes>>
  BY DEF Restart, Shapes
<1>2. /\ failed \subseteq failed' /\ failed' \subseteq Events
      /\ \A p \in Portals : sending[p] # Idle => sending[p].event \in failed'
  BY SendingFacts DEF Restart, Shapes
<1>3. \A e \in Events : sending[timeline[e].portal].event = e => e \in failed'
  BY <1>2, Typed DEF Idle, None
<1>4. NetworkInv' /\ EventInv' /\ RequestInv' /\ RowInv'
  BY <1>1, <1>2, <1>3, SettledEvents DEF RowInv
<1>5. Shapes' /\ SendingInv'
  BY <1>1, <1>2 DEF Shapes, Messages, Events, SendingInv, SendingOK, Idle, None
<1>6. ReportInv' /\ DeleteInv'
  BY <1>1 DEF ReportInv, DeleteInv
<1>7. ReplyInv'
  BY <1>1, <1>2 DEF ReplyInv, Events, ReplyOK, RevokeKept, ReplyKept, Shows
<1> QED
  BY <1>4, <1>5, <1>6, <1>7

-----------------------------------------------------------------------------
(* The theorems *)

(* The initial state satisfies IInv.                                       *)
LEMMA InitInv == Init => IInv
<1> SUFFICES ASSUME Init PROVE IInv
  OBVIOUS
<1>1. Messages = {} /\ Events = {}
  BY DEF Init, Messages, Events
<1>2. Shapes
  BY <1>1 DEF Init, Shapes, Idle, None
<1>3. SendingInv
  BY DEF Init, SendingInv, SendingOK, Idle, None
<1> QED
  BY <1>1, <1>2, <1>3 DEF Init, IInv, NetworkInv, ReportInv, EventInv, RowInv, RequestInv,
                          DeleteInv, ReplyInv

(* IInv is inductive.                                                      *)
LEMMA NextInv == IInv /\ [Next]_vars => IInv'
<1> SUFFICES ASSUME IInv, [Next]_vars PROVE IInv'
  OBVIOUS
<1>1. CASE Chat
  BY <1>1, ChatMessageStep, RecallStep, AgentSendsStep DEF Chat, Messages
<1>2. CASE HandleOnebotEvent
  BY <1>2, DropStep, BridgeStep DEF HandleOnebotEvent
<1>3. CASE Matrix
  BY <1>3, HandleMatrixMessageStep, RefuseMatrixMessageStep, SendAnsweredStep, SendFailsStep,
     RemoveStep DEF Matrix, Events
<1>4. CASE Restart
  BY <1>4, RestartStep
<1>5. CASE UNCHANGED vars
  <2>1. NetworkKept /\ NetworkInv' /\ ReportInv' /\ Shapes'
    BY <1>5 DEF vars, NetworkKept, Messages, IInv, NetworkInv, ReportInv, Shapes, Events
  <2> QED
    BY <1>5, <2>1, QuietSteps DEF IInv, vars
<1> QED
  BY <1>1, <1>2, <1>3, <1>4, <1>5 DEF Next

(* IInv holds in every reachable state.                                    *)
LEMMA Invariance == Spec => []IInv
  BY InitInv, NextInv, PTL DEF Spec

(* TypeOK: the variables have their types, and what is under way names     *)
(* messages and events that exist.                                         *)
THEOREM TypeCorrect == Spec => []TypeOK
<1>1. ASSUME IInv PROVE TypeOK
  <2> USE <1>1 DEF IInv
  <2>1. network \in Seq([chat: Chats, sender: Users, reply: Messages \cup {None}])
    <3> DEFINE S == [chat: Chats, sender: Users, reply: Messages \cup {None}]
    <3>1. ASSUME NEW m \in Messages PROVE network[m] \in S
      <4>1. network[m] \in NetMessage /\ network[m].reply \in Messages \cup {None}
        BY Typed DEF NetworkInv, Messages, Shapes
      <4> QED
        BY <4>1 DEF NetMessage
    <3>2. network \in Seq(NetMessage) /\ Messages = DOMAIN network
      BY DEF Shapes, Messages
    <3> HIDE DEF S
    <3>3. network \in Seq(S)
      BY <3>1, <3>2, NarrowSeq
    <3> QED
      BY <3>3 DEF S
  <2>2. timeline \in Seq([portal: Portals, kind: {"message", "revoke", "sent"},
                          shows: Messages \cup {None}, replyTo: Events \cup {None}])
    <3> DEFINE S == [portal: Portals, kind: {"message", "revoke", "sent"},
                     shows: Messages \cup {None}, replyTo: Events \cup {None}]
    <3>1. ASSUME NEW e \in Events PROVE timeline[e] \in S
      <4>1. /\ timeline[e] \in Event /\ timeline[e].shows \in Messages \cup {None}
            /\ timeline[e].replyTo \in Events \cup {None}
        BY Typed DEF EventInv, EventOK
      <4> QED
        BY <4>1 DEF Event
    <3>2. timeline \in Seq(Event) /\ Events = DOMAIN timeline
      BY DEF Shapes, Events
    <3> HIDE DEF S
    <3>3. timeline \in Seq(S)
      BY <3>1, <3>2, NarrowSeq
    <3> QED
      BY <3>3 DEF S
  <2>3. \A msg \in received : msg.id \in Messages /\ msg.reply \in Messages \cup {None}
    <3> SUFFICES ASSUME NEW msg \in received
                 PROVE  msg.id \in Messages /\ msg.reply \in Messages \cup {None}
      OBVIOUS
    <3>1. msg.id \in Messages /\ Reports(msg, network[msg.id], msg.id)
      BY DEF ReportInv
    <3>2. msg.reply = IF msg.fake THEN msg.id ELSE network[msg.id].reply
      BY <3>1, Typed, ReportFields
    <3>3. network[msg.id].reply \in Messages \cup {None}
      BY <3>1, Typed DEF NetworkInv, Messages, Shapes
    <3> QED
      BY <3>1, <3>2, <3>3
  <2>4. \A r \in rows : r.portal \in Portals /\ r.event \in Events /\ r.id.msg \in Messages
    <3> SUFFICES ASSUME NEW r \in rows
                 PROVE  r.portal \in Portals /\ r.event \in Events /\ r.id.msg \in Messages
      OBVIOUS
    <3>1. RowOK(r) /\ EventOK(r.event)
      BY DEF RowInv, RowOK, EventInv
    <3>2. IDOf(r.event).msg = timeline[r.event].shows
      BY DEF IDOf
    <3> QED
      BY <3>1, <3>2, Typed DEF RowOK, EventOK
  <2>5. sending \in [Portals -> [event: Events \cup {None}, msg: Messages \cup {None}]]
    <3>1. \A p \in Portals : /\ sending[p] \in [event: Nat, msg: Nat]
                             /\ sending[p].event \in Events \cup {None}
                             /\ sending[p].msg \in Messages \cup {None}
      BY DEF Shapes, SendingInv, SendingOK, EventInv, EventOK
    <3> QED
      BY <3>1 DEF Shapes
  <2>6. requests \subseteq [chat: Chats, event: Events, reply: Messages \cup {None}]
    BY DEF Shapes, Request, RequestInv, RequestOK
  <2> QED
    BY <2>1, <2>2, <2>3, <2>4, <2>5, <2>6 DEF TypeOK, Shapes
<1> QED
  BY <1>1, Invariance, PTL

(* ChatsStayApart: an event is in the room of the chat of what it shows,   *)
(* though a contact and a group may have the same number.                  *)
THEOREM ChatsApart == Spec => []ChatsStayApart
<1>1. ASSUME IInv PROVE ChatsStayApart
  <2> USE <1>1 DEF IInv
  <2> SUFFICES ASSUME NEW e \in Events, timeline[e].shows # None
               PROVE  LET c == network[timeline[e].shows].chat IN
                      /\ timeline[e].portal.id
                           = IF c.type = "group" THEN <<"group", c.peer>> ELSE <<c.peer>>
                      /\ \A d \in deletes : d[1] = e => d[2] = timeline[e].shows
    BY DEF ChatsStayApart
  <2>1. PICK c \in Chats : /\ c = network[timeline[e].shows].chat
                           /\ timeline[e].portal = KeyOf(c)
    BY Typed DEF EventInv, EventOK
  <2>2. KeyOf(c).id = IF c.type = "group" THEN <<"group", c.peer>> ELSE <<c.peer>>
    BY DEF KeyOf, MakePortalKey
  <2> QED
    BY <2>1, <2>2 DEF DeleteInv
<1> QED
  BY <1>1, Invariance, PTL

(* RepliesKeepTheirTarget: a reply keeps its target in both directions,    *)
(* and a revoke replies to what it recalls.                                *)
THEOREM RepliesKept == Spec => []RepliesKeepTheirTarget
<1>1. IInv => RepliesKeepTheirTarget
  BY DEF IInv, ReplyInv, ReplyOK, RepliesKeepTheirTarget
<1> QED
  BY <1>1, Invariance, PTL
-----------------------------------------------------------------------------
(* The rooms *)

RoomEvent == [chat: Chats, kind: {"message", "revoke", "sent"}, shows: Nat]

(* A sequence is an Append if it is longer by one and agrees before that.  *)
LEMMA AppendedTo ==
  ASSUME NEW S, NEW s \in Seq(S), NEW t \in Seq(S), NEW x \in S,
         Len(t) = Len(s) + 1, t[Len(t)] = x, \A i \in 1..Len(s) : t[i] = s[i]
  PROVE  t = Append(s, x)
<1>1. Append(s, x) \in Seq(S) /\ Len(Append(s, x)) = Len(t)
  OBVIOUS
<1>2. \A i \in 1..Len(t) : t[i] = Append(s, x)[i]
  OBVIOUS
<1> QED
  BY <1>1, <1>2, SeqEqual

(* The mapped variables are sequences, like what they are read off.        *)
Mapped ==
  /\ Written \in Seq(Chats) /\ Len(Written) = Len(network)
  /\ DOMAIN Written = Messages /\ \A m \in Messages : Written[m] = network[m].chat
  /\ RoomEvents \in Seq(RoomEvent) /\ Len(RoomEvents) = Len(timeline)
  /\ DOMAIN RoomEvents = Events
  /\ \A e \in Events :
       /\ RoomEvents[e] \in RoomEvent
       /\ RoomEvents[e].chat = ParsePortalID(timeline[e].portal.id)
       /\ RoomEvents[e].kind = timeline[e].kind
       /\ RoomEvents[e].shows = timeline[e].shows

LEMMA MapFacts == Shapes => Mapped
<1> SUFFICES ASSUME Shapes PROVE Mapped
  OBVIOUS
<1>1. Messages = 1..Len(network) /\ Len(network) \in Nat
  BY DEF Shapes, Messages
<1>2. Written \in [1..Len(network) -> Chats] /\ DOMAIN Written = Messages
  BY <1>1, Typed DEF Written
<1>3. Written \in Seq(Chats) /\ Len(Written) = Len(network)
  BY <1>1, <1>2, SeqDef
<1>4. Events = 1..Len(timeline) /\ Len(timeline) \in Nat
  BY DEF Shapes, Events
<1>5. ASSUME NEW e \in Events
      PROVE  /\ RoomEvents[e] \in RoomEvent
             /\ RoomEvents[e].chat = ParsePortalID(timeline[e].portal.id)
             /\ RoomEvents[e].kind = timeline[e].kind
             /\ RoomEvents[e].shows = timeline[e].shows
  <2>1. ParsePortalID(timeline[e].portal.id) \in Chats
    BY Typed, PortalFacts
  <2>2. timeline[e].kind \in {"message", "revoke", "sent"} /\ timeline[e].shows \in Nat
    BY Typed DEF Event
  <2> QED
    BY <2>1, <2>2 DEF RoomEvents, RoomEvent
<1>6. RoomEvents \in [1..Len(timeline) -> RoomEvent] /\ DOMAIN RoomEvents = Events
  BY <1>4, <1>5 DEF RoomEvents
<1>7. RoomEvents \in Seq(RoomEvent) /\ Len(RoomEvents) = Len(timeline)
  BY <1>4, <1>6, SeqDef
<1> QED
  BY <1>2, <1>3, <1>5, <1>6, <1>7 DEF Written, Mapped

(* The same of the next state.                                             *)
LEMMA MapFactsNext == Shapes' => Mapped'
  BY MapFacts, PTL

(* A network message is a message of its chat, seen from the rooms.        *)
LEMMA WrittenGrows ==
  ASSUME IInv, IInv', NEW n \in NetMessage, network' = Append(network, n)
  PROVE  Written' = Append(Written, n.chat)
<1> USE DEF IInv
<1>1. /\ Len(network') = Len(network) + 1 /\ Messages' = Messages \cup {Len(network')}
      /\ network'[Len(network')] = n /\ \A m \in Messages : network'[m] = network[m]
      /\ Messages = 1..Len(network)
  BY AppendFacts DEF Shapes, Messages
<1>2. n.chat \in Chats
  BY DEF NetMessage
<1>3. Written \in Seq(Chats) /\ Len(Written) = Len(network)
      /\ \A m \in Messages : Written[m] = network[m].chat
  BY MapFacts DEF Mapped
<1>4. Written' \in Seq(Chats) /\ Len(Written') = Len(network')
      /\ \A m \in Messages' : Written'[m] = network'[m].chat
  BY MapFactsNext DEF Mapped
<1> QED
  BY <1>1, <1>2, <1>3, <1>4, AppendedTo

(* An event is an event of its room.                                       *)
LEMMA RoomEventsGrow ==
  ASSUME IInv, IInv', NEW v \in Event, timeline' = Append(timeline, v)
  PROVE  RoomEvents' = Append(RoomEvents, [chat |-> ParsePortalID(v.portal.id),
                                           kind |-> v.kind, shows |-> v.shows])
<1> USE DEF IInv
<1>1. /\ Len(timeline') = Len(timeline) + 1 /\ Events' = Events \cup {Len(timeline')}
      /\ timeline'[Len(timeline')] = v /\ \A e \in Events : timeline'[e] = timeline[e]
      /\ Events = 1..Len(timeline)
  BY AppendFacts DEF Shapes, Events
<1>2. PICK x \in RoomEvent : x = [chat |-> ParsePortalID(v.portal.id), kind |-> v.kind,
                                  shows |-> v.shows]
  BY PortalFacts DEF Event, RoomEvent
<1>3. /\ RoomEvents \in Seq(RoomEvent) /\ Len(RoomEvents) = Len(timeline)
      /\ \A e \in Events : RoomEvents[e] = [chat |-> ParsePortalID(timeline[e].portal.id),
                                            kind |-> timeline[e].kind,
                                            shows |-> timeline[e].shows]
  BY MapFacts DEF RoomEvents, Mapped
<1>4. /\ RoomEvents' \in Seq(RoomEvent) /\ Len(RoomEvents') = Len(timeline')
      /\ \A e \in Events' : RoomEvents'[e] = [chat |-> ParsePortalID(timeline'[e].portal.id),
                                              kind |-> timeline'[e].kind,
                                              shows |-> timeline'[e].shows]
  BY MapFactsNext DEF Mapped, RoomEvents
<1>5. RoomEvents'[Len(timeline')] = x
  <2>1. PICK i \in Events' : i = Len(timeline') /\ timeline'[i] = v
    BY <1>1
  <2> QED
    BY <1>2, <1>4, <2>1
<1>6. ASSUME NEW e \in Events PROVE RoomEvents'[e] = RoomEvents[e]
  <2>1. e \in Events' /\ timeline'[e] = timeline[e]
    BY <1>1
  <2>2. RoomEvents'[e] = [chat |-> ParsePortalID(timeline[e].portal.id),
                         kind |-> timeline[e].kind, shows |-> timeline[e].shows]
    BY <1>4, <2>1
  <2> QED
    BY <1>3, <2>2
<1>7. /\ Len(RoomEvents') = Len(RoomEvents) + 1 /\ RoomEvents'[Len(RoomEvents')] = x
      /\ \A i \in 1..Len(RoomEvents) : RoomEvents'[i] = RoomEvents[i]
      /\ RoomEvents \in Seq(RoomEvent) /\ RoomEvents' \in Seq(RoomEvent)
  BY <1>1, <1>3, <1>4, <1>5, <1>6
<1>8. RoomEvents' = Append(RoomEvents, x)
  BY <1>7, AppendedTo
<1> QED
  BY <1>2, <1>8

(* The rooms change only with the messages and the events.                 *)
LEMMA RoomsUnchanged ==
  ASSUME UNCHANGED <<network, timeline>>
  PROVE  UNCHANGED <<Written, RoomEvents>>
  BY DEF Written, RoomEvents, Messages, Events

(* AgentSends is Deliver: the message goes to the chat of the room it      *)
(* was written in.                                                         *)
LEMMA DeliverStep ==
  ASSUME IInv, IInv', NEW q \in requests, AgentSends(q)
  PROVE  Feed!Next
<1> USE DEF IInv
<1>1. q \in Request /\ RequestOK(q) /\ q.chat \in Chats
  BY DEF Shapes, RequestInv, Request
<1>2. PICK s \in Events : s = q.event
  BY <1>1 DEF RequestOK
<1>3. PICK n \in NetMessage : n.chat = q.chat /\ network' = Append(network, n)
  <2> DEFINE n == [chat |-> q.chat, sender |-> Self, reply |-> q.reply]
  <2>1. n \in NetMessage
    BY <1>1 DEF NetMessage, Request
  <2> QED
    BY <2>1 DEF AgentSends
<1>4. Written' = Append(Written, q.chat)
  BY <1>3, WrittenGrows
<1>5. PICK m \in Nat : m = Len(network') /\ m = Len(Written')
  BY MapFactsNext DEF Mapped, Shapes
<1>6. /\ RoomEvents[s].chat = q.chat /\ RoomEvents[s].kind = "sent"
      /\ RoomEvents[s].shows = None
  BY <1>1, <1>2, MapFacts, KeyFacts DEF RequestOK, Mapped
<1>7. RoomEvents' = [RoomEvents EXCEPT ![s].shows = m]
  <2>1. timeline' = [timeline EXCEPT ![s].shows = m] /\ timeline \in Seq(Event)
    BY <1>2, <1>5 DEF AgentSends, Shapes
  <2>2. /\ Events' = Events
        /\ \A e \in Events : e # s => timeline'[e] = timeline[e]
        /\ timeline'[s] = [timeline[s] EXCEPT !.shows = m]
    BY <2>1 DEF Events
  <2>3. /\ timeline'[s].portal = timeline[s].portal /\ timeline'[s].kind = timeline[s].kind
        /\ timeline'[s].shows = m
    BY <2>2, Typed DEF Event
  <2> QED
    BY <2>2, <2>3 DEF RoomEvents
<1>8. s \in DOMAIN RoomEvents /\ failed' = failed
  BY MapFacts DEF AgentSends, Mapped
<1>9. Feed!Deliver(s)
  BY <1>4, <1>5, <1>6, <1>7, <1>8 DEF Feed!Deliver
<1> QED
  BY <1>8, <1>9 DEF Feed!Next

(* Bridge is Show: were the message, or its recall, shown already, its row *)
(* would have been found.                                                  *)
LEMMA ShowStep ==
  ASSUME IInv, IInv', NEW msg \in received, Bridge(msg)
  PROVE  Feed!Next
<1> USE DEF IInv
<1>1. PICK n \in NetMessage, p \in Portals, v \in Event :
        /\ n = network[msg.id] /\ n.chat \in Chats /\ p = KeyOf(n.chat)
        /\ p = GetPortalKey(msg) /\ ParsePortalID(p.id) = n.chat
        /\ msg.id \in Messages /\ msg.id # None /\ msg.fake \in BOOLEAN
        /\ GetID(msg) = [fake |-> msg.fake, peer |-> n.chat.peer, msg |-> msg.id]
        /\ v.portal = p /\ v.shows = msg.id
        /\ v.kind = IF msg.fake THEN "revoke" ELSE "message"
        /\ timeline' = Append(timeline, v)
  BY BridgedEvent
<1>2. sending[p] = Idle /\ ~ HasRow(p, GetID(msg)) /\ failed' = failed /\ network' = network
  BY <1>1 DEF Bridge
<1>3. ~ Feed!Stands(v.kind = "revoke", msg.id)
  <2> SUFFICES ASSUME NEW e \in Events, e \notin failed,
                      (timeline[e].kind = "revoke") = (v.kind = "revoke"),
                      timeline[e].shows = msg.id
               PROVE  FALSE
    BY MapFacts DEF Feed!Stands, Mapped
  <2>1. timeline[e].portal = p
    BY <1>1 DEF EventInv, EventOK
  <2>2. IDOf(e) = GetID(msg)
    BY <1>1, <2>1 DEF IDOf
  <2>3. sending[p].event = e
    BY <1>1, <1>2, <2>1, <2>2 DEF EventInv, EventOK
  <2> QED
    BY <1>2, <2>3, Typed DEF Idle, None
<1>4. RoomEvents' = Append(RoomEvents, [chat |-> Written[msg.id], kind |-> v.kind,
                                        shows |-> msg.id])
  BY <1>1, RoomEventsGrow, MapFacts DEF Mapped
<1>5. Written' = Written
  BY <1>2 DEF Written, Messages
<1>6. Feed!Show(v.kind, msg.id)
  BY <1>2, <1>3, <1>4, <1>5 DEF Feed!Show
<1>7. v.kind \in {"message", "revoke"} /\ msg.id \in DOMAIN Written
  BY <1>1, MapFacts DEF Mapped
<1> QED
  BY <1>6, <1>7 DEF Feed!Next

(* HandleMatrixMessage is Compose, refused or not.                         *)
LEMMA ComposeStep ==
  ASSUME IInv, IInv', NEW p \in Portals, NEW target \in {None} \cup Events,
         HandleMatrixMessage(p, target) \/ RefuseMatrixMessage(p)
  PROVE  Feed!Next
<1> USE DEF IInv
<1>1. PICK v \in Event : /\ v.portal = p /\ v.kind = "sent" /\ v.shows = None
                         /\ timeline' = Append(timeline, v)
  <2>1. \A t : (t = target /\ HandleMatrixMessage(p, target)) \/ t = None
                 => MatrixEvent(p, t) \in Event
    BY SentEvents DEF HandleMatrixMessage
  <2> QED
    BY <2>1 DEF HandleMatrixMessage, RefuseMatrixMessage, MatrixEvent
<1>2. RoomEvents' = Append(RoomEvents, [chat |-> ParsePortalID(p.id), kind |-> "sent",
                                        shows |-> None])
  BY <1>1, RoomEventsGrow
<1>3. Len(RoomEvents') = Len(timeline')
  BY MapFactsNext DEF Mapped
<1>4. failed' \in {failed, failed \cup {Len(RoomEvents')}} /\ network' = network
  BY <1>3 DEF HandleMatrixMessage, RefuseMatrixMessage
<1>5. Written' = Written
  BY <1>4 DEF Written, Messages
<1>6. Feed!Compose(ParsePortalID(p.id))
  BY <1>2, <1>4, <1>5 DEF Feed!Compose
<1> QED
  BY <1>6, PortalFacts DEF Feed!Next

(* A failed send and a restart leave senders without a confirmation.       *)
LEMMA GiveUpStep ==
  ASSUME IInv, (\E p \in Portals : SendFails(p)) \/ Restart
  PROVE  Feed!Next
<1>1. PICK events \in SUBSET Events : /\ failed' = failed \cup events
                                      /\ \A e \in events : timeline[e].kind = "sent"
                                      /\ UNCHANGED <<network, timeline>>
  <2>1. CASE Restart
    <3> DEFINE events == {sending[p].event : p \in {q \in Portals : sending[q] # Idle}}
    <3>1. events \in SUBSET Events /\ \A e \in events : timeline[e].kind = "sent"
      BY SendingFacts
    <3> QED
      BY <2>1, <3>1 DEF Restart
  <2>2. ASSUME NEW p \in Portals, SendFails(p)
        PROVE  /\ failed' = failed \cup {sending[p].event}
               /\ sending[p].event \in Events
               /\ timeline[sending[p].event].kind = "sent"
               /\ UNCHANGED <<network, timeline>>
    BY <2>2, SendingFacts DEF SendFails
  <2> QED
    BY <2>1, <2>2
<1>2. Feed!GiveUp(events)
  BY <1>1, MapFacts, RoomsUnchanged DEF Feed!GiveUp, IInv, Mapped
<1> QED
  BY <1>2, MapFacts DEF Feed!Next, IInv, Mapped

(* The initial state maps to that of RoomFeed.                             *)
LEMMA FeedInit == Init => Feed!Init
<1> SUFFICES ASSUME Init PROVE Feed!Init
  OBVIOUS
<1>1. /\ Written \in Seq(Chats) /\ Len(Written) = 0
      /\ RoomEvents \in Seq(RoomEvent) /\ Len(RoomEvents) = 0
  BY InitInv, MapFacts DEF IInv, Init, Mapped
<1>2. Written = <<>> /\ RoomEvents = <<>>
  BY <1>1, EmptySeq
<1> QED
  BY <1>2 DEF Feed!Init, Init

(* Every step maps to a step of RoomFeed or to none.                       *)
LEMMA FeedNext == IInv /\ IInv' /\ [Next]_vars => [Feed!Next]_(Feed!vars)
<1> SUFFICES ASSUME IInv, IInv', [Next]_vars PROVE Feed!Next \/ UNCHANGED Feed!vars
  OBVIOUS
<1>1. ASSUME UNCHANGED <<network, timeline, failed>> PROVE UNCHANGED Feed!vars
  BY <1>1, RoomsUnchanged DEF Feed!vars
<1>2. CASE Chat
  <2>1. ASSUME NEW c \in Chats, NEW sender \in Senders(c), NEW reply \in {None} \cup Messages,
               NEW empty \in BOOLEAN, ChatMessage(c, sender, reply, empty)
        PROVE  Feed!Next
    <3> DEFINE n == [chat |-> c, sender |-> sender, reply |-> reply]
    <3>1. n \in NetMessage
      <4>1. sender \in Users /\ reply \in Nat
        BY ChatFacts DEF IInv, Shapes, Messages, None
      <4> QED
        BY <4>1 DEF NetMessage
    <3>2. Written' = Append(Written, c)
      BY <2>1, <3>1, WrittenGrows DEF ChatMessage
    <3>3. RoomEvents' = RoomEvents
      BY <2>1 DEF ChatMessage, RoomEvents, Events
    <3>4. Feed!Write(c)
      BY <2>1, <3>2, <3>3 DEF Feed!Write, ChatMessage
    <3> QED
      BY <3>4 DEF Feed!Next
  <2>2. ASSUME NEW m \in Messages, Recall(m) PROVE UNCHANGED Feed!vars
    BY <1>1, <2>2 DEF Recall
  <2> QED
    BY <1>2, <2>1, <2>2, DeliverStep DEF Chat, Messages
<1>3. CASE HandleOnebotEvent
  <2>1. ASSUME NEW msg \in received, Ignore(msg) \/ Deduplicate(msg)
        PROVE  UNCHANGED Feed!vars
    BY <1>1, <2>1 DEF Ignore, Deduplicate
  <2> QED
    BY <1>3, <2>1, ShowStep DEF HandleOnebotEvent
<1>4. CASE Matrix
  <2>1. ASSUME NEW p \in Portals, SendAnswered(p) PROVE UNCHANGED Feed!vars
    BY <1>1, <2>1 DEF SendAnswered
  <2>2. ASSUME NEW r \in rows, HandleMatrixMessageRemove(r) PROVE UNCHANGED Feed!vars
    BY <1>1, <2>2 DEF HandleMatrixMessageRemove
  <2>3. ASSUME NEW p \in Portals, RefuseMatrixMessage(p) PROVE Feed!Next
    BY <2>3, ComposeStep
  <2> QED
    BY <1>4, <2>1, <2>2, <2>3, ComposeStep, GiveUpStep DEF Matrix, Events
<1>5. CASE Restart
  BY <1>5, GiveUpStep
<1>6. CASE UNCHANGED vars
  BY <1>1, <1>6 DEF vars
<1> QED
  BY <1>2, <1>3, <1>4, <1>5, <1>6 DEF Next

(* ImplementsRoomFeed: every message is shown once, in the room of its     *)
(* chat, and what is written in a room becomes at most one message.        *)
THEOREM Refinement == Spec => ImplementsRoomFeed
  BY FeedInit, FeedNext, Invariance, PTL DEF Spec, ImplementsRoomFeed, Feed!Spec
=============================================================================
