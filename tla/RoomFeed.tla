------------------------------ MODULE RoomFeed ------------------------------
(***************************************************************************)
(* What the bridge promises to the people in the rooms of one login, with  *)
(* no ID, row, report or request in sight.  A room shows the messages of   *)
(* its own chat, each once, and one recall of each.  What is written in a  *)
(* room becomes at most one message of the chat, and nothing shows that    *)
(* message again unless the sender was left without a confirmation.  What  *)
(* an event shows never changes.  MessageBridge is shown to implement this *)
(* module.                                                                 *)
(***************************************************************************)
EXTENDS Naturals, Sequences

CONSTANTS Chats,    \* the chats of the login, each with its room
          Unsent    \* what an event shows that is no message of a chat yet: no position

VARIABLES
  written,  \* written[m]: the chat that message m is in
  feed,     \* the events in the rooms, as [chat, kind, shows]
  unsure    \* the events whose sender got no confirmation

vars == <<written, feed, unsure>>

Init == written = <<>> /\ feed = <<>> /\ unsure = {}

(* Some event stands for message m, or for its recall.                     *)
Stands(recall, m) ==
  \E e \in DOMAIN feed \ unsure : (feed[e].kind = "revoke") = recall /\ feed[e].shows = m

(* Someone writes in a chat.                                               *)
Write(c) ==
  /\ written' = Append(written, c)
  /\ UNCHANGED <<feed, unsure>>

(* A message, or its recall, is shown in the room of its chat.             *)
Show(kind, m) ==
  /\ ~ Stands(kind = "revoke", m)
  /\ feed' = Append(feed, [chat |-> written[m], kind |-> kind, shows |-> m])
  /\ UNCHANGED <<written, unsure>>

(* Someone writes in a room, and is perhaps told at once that it failed.   *)
Compose(c) ==
  /\ feed' = Append(feed, [chat |-> c, kind |-> "sent", shows |-> Unsent])
  /\ unsure' \in {unsure, unsure \cup {Len(feed')}}
  /\ UNCHANGED written

(* It becomes a message of the chat, be it confirmed or not.               *)
Deliver(e) ==
  /\ feed[e].kind = "sent" /\ feed[e].shows = Unsent
  /\ written' = Append(written, feed[e].chat)
  /\ feed' = [feed EXCEPT ![e].shows = Len(written')]
  /\ UNCHANGED unsure

(* The senders of some events are left without a confirmation.             *)
GiveUp(events) ==
  /\ \A e \in events : feed[e].kind = "sent"
  /\ unsure' = unsure \cup events
  /\ UNCHANGED <<written, feed>>

Next ==
  \/ \E c \in Chats : Write(c) \/ Compose(c)
  \/ \E kind \in {"message", "revoke"}, m \in DOMAIN written : Show(kind, m)
  \/ \E e \in DOMAIN feed : Deliver(e)
  \/ \E events \in SUBSET DOMAIN feed : GiveUp(events)

Spec == Init /\ [][Next]_vars
=============================================================================
