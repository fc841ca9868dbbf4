--------------------------- MODULE ForwardMessage ---------------------------
(***************************************************************************)
(* Converting one OneBot message whose segments may be merged forwards     *)
(* (pkg/msgconv/from_onebot.go, from_onebot_forward_msg.go, segrender.go,  *)
(* DownloadForwardMsg of pkg/onebot/api.go), and saving what it became.    *)
(*                                                                         *)
(* OnebotToMatrix walks over the segments.  For a forward it fetches the   *)
(* forwarded messages, flattens those that are forwards themselves, sends  *)
(* the root "[Chat History]" and inserts its row under part ID "0", lets   *)
(* one goroutine per message convert it under a semaphore, and threads the *)
(* parts, in order, to the root.  A message without a converted forward    *)
(* becomes the single part "0".  The bridge then sends the parts and       *)
(* inserts a row for each.                                                 *)
(*                                                                         *)
(* A part ID is the tuple of its numbers: "" is <<>>, "0" is <<0>> and     *)
(* "0-2-1" is <<0, 2, 1>>.  An event is its position in the room.          *)
(***************************************************************************)
EXTENDS Integers, FiniteSets, SequencesExt

CONSTANTS
  Nodes,            \* the forwarded messages there may be
  Placeholder,      \* the message that stands for a forward without content
  Broken,           \* flattenForward met a message that is not a list
  Kind,             \* Kind[n]: what message n is made of
  Inline,           \* Inline[n]: the messages in the forward segments of n
  Contents,         \* what get_forward_msg may answer, or a segment hold
  Inputs,           \* the messages OnebotToMatrix is called with
  Concurrency,      \* forwardConcurrency, 8 in the code
  MaxForwardDepth   \* maxForwardDepth, 10 in the code

Kinds == {"text", "image", "file", "share", "forward", "unreadable", "malformed"}

ASSUME ForwardAssumption ==
  /\ Placeholder \in Nodes /\ Kind \in [Nodes -> Kinds]
  /\ Kind[Placeholder] = "text" /\ Broken \notin Nodes
  /\ Inline \in [Nodes -> Seq(Nodes)]
  /\ Contents \subseteq Seq(Nodes) \ {<<>>}
  /\ Inputs \subseteq [readable: BOOLEAN, hasID: BOOLEAN, segments: Seq({"other", "forward"})]
  /\ Concurrency \in Nat \ {0} /\ MaxForwardDepth \in Nat

VARIABLES
  msg,        \* the message
  pc,         \* where OnebotToMatrix is
  seg,        \* the segments already handled
  attempt,    \* the failed attempts of DownloadForwardMsg
  data,       \* the messages of the forward at hand
  flat,       \* ... flattened
  root,       \* the event of its root
  worker,     \* worker[i]: the goroutine of flat[i]
  sem,        \* slots taken of the semaphore
  results,    \* results[i]: the parts of flat[i]
  firstErr,   \* some goroutine failed
  parts,      \* cm.Parts
  handled,    \* forwardHandled
  converted,  \* history: the forwards in parts, as [root, flat]
  room,       \* the events sent to the room
  rows,       \* the rows of the message in the database
  failed      \* history: the events whose row the database could not write

forwardVars == <<data, flat, root, worker, sem, results, firstErr>>
vars == <<msg, pc, seg, attempt, forwardVars, parts, handled, converted, room, rows, failed>>

-----------------------------------------------------------------------------
(* flattenForward *)

(* Mutant: a forward without content is left out. *)
InnerSkipped(n) == Inline[n]

(* What walk puts in the place of a message that holds forwards.           *)
Inner(n) == IF Inline[n] = <<>> THEN <<Placeholder>> ELSE Inline[n]

(* Walk[d][n]: the messages that n becomes at nesting depth d.  Nothing    *)
(* below the deepest level is looked into.                                 *)
Walk[d \in 0..(MaxForwardDepth + 1)] ==
  [n \in Nodes |->
     IF d > MaxForwardDepth THEN <<n>>
     ELSE IF Kind[n] = "unreadable" THEN <<Broken>>
     ELSE IF Kind[n] = "forward"
       THEN FlattenSeq([i \in DOMAIN Inner(n) |-> Walk[d + 1][Inner(n)[i]]])
     ELSE <<n>>]

Flatten(ns) == FlattenSeq([i \in DOMAIN ns |-> Walk[0][ns[i]]])

-----------------------------------------------------------------------------
(* Parts *)

Part(id, i, thread) == [id |-> id, item |-> i, thread |-> thread]

(* Mutant: the two parts of a file get one ID. *)
ItemIDsShared(n, i) == IF Kind[n] = "file" THEN <<<<0, i - 1>>, <<0, i - 1>>>> ELSE <<<<0, i - 1>>>>

(* The part IDs convertMessageItem gives message i: a lone file gets a     *)
(* header part, a share has the ID of convertShareMessage, which is empty. *)
ItemIDs(n, i) ==
  CASE Kind[n] = "file"  -> <<<<0, i - 1, 0>>, <<0, i - 1, 1>>>>
    [] Kind[n] = "share" -> <<<<>>>>
    [] OTHER             -> <<<<0, i - 1>>>>

(* ... threaded to the root.                                               *)
ItemParts(n, i) == [j \in DOMAIN ItemIDs(n, i) |-> Part(ItemIDs(n, i)[j], i, root)]

RootRow(event) == [id |-> <<0>>, event |-> event]

(* Mutant: the row of an ID is written over. *)
InsertOver(row) == rows' = {r \in rows : r.id # row.id} \cup {row} /\ failed' = failed

(* Message.Insert of the bridge (external).  The unique key of the message *)
(* table refuses the later of two rows with the same part ID; or there is  *)
(* no row for another reason, as for a root whose sender has no ghost row. *)
(* Either error is only logged.                                            *)
Insert(row) ==
  \/ /\ rows' = IF \E r \in rows : r.id = row.id THEN rows ELSE rows \cup {row}
     /\ failed' = failed
  \/ rows' = rows /\ failed' = failed \cup {row.event}

-----------------------------------------------------------------------------

NoForward == /\ data = <<>> /\ flat = <<>> /\ root = 0 /\ sem = 0
             /\ worker = <<>> /\ results = <<>> /\ firstErr = FALSE

ForgetForward == /\ data' = <<>> /\ flat' = <<>> /\ root' = 0 /\ sem' = 0
                 /\ worker' = <<>> /\ results' = <<>> /\ firstErr' = FALSE

Init ==
  /\ msg \in Inputs
  /\ pc = "segments" /\ seg = 0 /\ attempt = 0
  /\ NoForward
  /\ parts = <<>> /\ handled = FALSE /\ converted = <<>>
  /\ room = <<>> /\ rows = {} /\ failed = {}

(* The message is not a list of segments: an error text is its one part.   *)
Unreadable ==
  /\ pc = "segments" /\ ~ msg.readable
  /\ parts' = <<Part(<<0>>, 0, 0)>>
  /\ pc' = "save"
  /\ UNCHANGED <<msg, seg, attempt, forwardVars, handled, converted, room, rows, failed>>

(* A segment that is not a forward only adds to the part built at the end. *)
OtherSegment ==
  /\ pc = "segments" /\ msg.readable
  /\ seg < Len(msg.segments) /\ msg.segments[seg + 1] = "other"
  /\ seg' = seg + 1
  /\ UNCHANGED <<msg, pc, attempt, forwardVars, parts, handled, converted, room, rows, failed>>

(* DownloadForwardMsg is called only for a message that has an ID.         *)
ForwardSegment ==
  /\ pc = "segments" /\ msg.readable
  /\ seg < Len(msg.segments) /\ msg.segments[seg + 1] = "forward"
  /\ pc' = IF msg.hasID THEN "fetch" ELSE "inline"
  /\ seg' = seg + 1
  /\ attempt' = 0
  /\ UNCHANGED <<msg, forwardVars, parts, handled, converted, room, rows, failed>>

Fetched ==
  /\ pc = "fetch"
  /\ \E d \in Contents : data' = d
  /\ pc' = "flatten"
  /\ UNCHANGED <<msg, seg, attempt, flat, root, worker, sem, results, firstErr,
                 parts, handled, converted, room, rows, failed>>

(* An error, an answer that cannot be decoded or an empty one.             *)
FetchFails ==
  /\ pc = "fetch"
  /\ attempt' = attempt + 1
  /\ pc' = IF attempt < 2 THEN "fetch" ELSE "inline"
  /\ UNCHANGED <<msg, seg, forwardVars, parts, handled, converted, room, rows, failed>>

(* The content the segment itself holds, if it holds any.                  *)
UseInline ==
  /\ pc = "inline"
  /\ \/ \E d \in Contents : data' = d /\ pc' = "flatten"
     \/ data' = <<>> /\ pc' = "segments"
  /\ UNCHANGED <<msg, seg, attempt, flat, root, worker, sem, results, firstErr,
                 parts, handled, converted, room, rows, failed>>

(* flattenForward fails, or gives nothing, which is not an error: then the *)
(* forward counts as handled, without parts.                               *)
FlattenFails ==
  /\ pc = "flatten"
  /\ Flatten(data) = <<>> \/ Broken \in ToSet(Flatten(data))
  /\ handled' = (handled \/ Flatten(data) = <<>>)
  /\ ForgetForward
  /\ pc' = "segments"
  /\ UNCHANGED <<msg, seg, attempt, parts, converted, room, rows, failed>>

(* SendMessage, then GetGhostByID and the insertion of the row of the root *)
(* with whatever comes of them: the failure of either is only logged.      *)
(* Then every flattened message gets its goroutine.                        *)
SendRoot ==
  /\ pc = "flatten" /\ Broken \notin ToSet(Flatten(data)) /\ Flatten(data) # <<>>
  /\ flat' = Flatten(data)
  /\ room' = Append(room, "root")
  /\ root' = Len(room')
  /\ Insert(RootRow(root'))
  /\ worker' = [i \in DOMAIN flat' |-> "waiting"]
  /\ results' = [i \in DOMAIN flat' |-> <<>>]
  /\ pc' = "workers"
  /\ UNCHANGED <<msg, seg, attempt, data, sem, firstErr, parts, handled, converted>>

SendRootFails ==
  /\ pc = "flatten" /\ Broken \notin ToSet(Flatten(data)) /\ Flatten(data) # <<>>
  /\ ForgetForward
  /\ pc' = "segments"
  /\ UNCHANGED <<msg, seg, attempt, parts, handled, converted, room, rows, failed>>

-----------------------------------------------------------------------------
(* The goroutine of message i *)

(* Mutant: one slot too many. *)
AcquireOver(i) ==
  /\ worker[i] = "waiting" /\ sem <= Concurrency
  /\ sem' = sem + 1
  /\ worker' = [worker EXCEPT ![i] = "converting"]
  /\ UNCHANGED <<msg, pc, seg, attempt, data, flat, root, results, firstErr,
                 parts, handled, converted, room, rows, failed>>

Acquire(i) ==
  /\ worker[i] = "waiting" /\ sem < Concurrency
  /\ sem' = sem + 1
  /\ worker' = [worker EXCEPT ![i] = "converting"]
  /\ UNCHANGED <<msg, pc, seg, attempt, data, flat, root, results, firstErr,
                 parts, handled, converted, room, rows, failed>>

(* Mutant: results appended as they come. *)
StoreNext(i) ==
  results' = [results EXCEPT ![Cardinality({j \in DOMAIN worker : worker[j] = "finished"}) + 1]
                = ItemParts(flat[i], i)]

StoreResult(i) == results' = [results EXCEPT ![i] = ItemParts(flat[i], i)]

Convert(i) ==
  /\ worker[i] = "converting"
  /\ Kind[flat[i]] \notin {"unreadable", "malformed"}
  /\ StoreResult(i)
  /\ sem' = sem - 1
  /\ worker' = [worker EXCEPT ![i] = "finished"]
  /\ UNCHANGED <<msg, pc, seg, attempt, data, flat, root, firstErr,
                 parts, handled, converted, room, rows, failed>>

(* Mutant: the error path keeps its slot. *)
ConvertFailsAndKeepsSlot(i) ==
  /\ worker[i] = "converting" /\ Kind[flat[i]] = "unreadable"
  /\ firstErr' = TRUE
  /\ worker' = [worker EXCEPT ![i] = "finished"]
  /\ UNCHANGED <<msg, pc, seg, attempt, data, flat, root, sem, results,
                 parts, handled, converted, room, rows, failed>>

(* Mutant: a message that could not be converted is tried again. *)
ConvertFailsAndRetries(i) ==
  /\ worker[i] = "converting" /\ Kind[flat[i]] = "unreadable"
  /\ sem' = sem - 1
  /\ worker' = [worker EXCEPT ![i] = "waiting"]
  /\ UNCHANGED <<msg, pc, seg, attempt, data, flat, root, results, firstErr,
                 parts, handled, converted, room, rows, failed>>

ConvertFails(i) ==
  /\ worker[i] = "converting" /\ Kind[flat[i]] = "unreadable"
  /\ firstErr' = TRUE
  /\ sem' = sem - 1
  /\ worker' = [worker EXCEPT ![i] = "finished"]
  /\ UNCHANGED <<msg, pc, seg, attempt, data, flat, root, results,
                 parts, handled, converted, room, rows, failed>>

(* A segment without the field that its getter asserts: the goroutine has  *)
(* no recover, so its panic ends the process.                              *)
ConvertPanics(i) ==
  /\ worker[i] = "converting" /\ Kind[flat[i]] = "malformed"
  /\ pc' = "crashed"
  /\ ForgetForward
  /\ UNCHANGED <<msg, seg, attempt, parts, handled, converted, room, rows, failed>>

Worker(i) == Acquire(i) \/ Convert(i) \/ ConvertFails(i) \/ ConvertPanics(i)

-----------------------------------------------------------------------------
(* After wg.Wait *)

AllFinished == \A i \in DOMAIN worker : worker[i] = "finished"

ForwardFails ==
  /\ pc = "workers" /\ AllFinished /\ firstErr
  /\ ForgetForward
  /\ pc' = "segments"
  /\ UNCHANGED <<msg, seg, attempt, parts, handled, converted, room, rows, failed>>

Merge ==
  /\ pc = "workers" /\ AllFinished /\ ~ firstErr
  /\ parts' = parts \o FlattenSeq(results)
  /\ handled' = TRUE
  /\ converted' = Append(converted, [root |-> root, flat |-> flat])
  /\ ForgetForward
  /\ pc' = "segments"
  /\ UNCHANGED <<msg, seg, attempt, room, rows, failed>>

(* The end of OnebotToMatrix: without a converted forward, what the other  *)
(* segments left is the one part, and gets the ID "0".                     *)
Return ==
  /\ pc = "segments" /\ msg.readable /\ seg = Len(msg.segments)
  /\ parts' = IF handled THEN parts ELSE <<Part(<<0>>, 0, 0)>>
  /\ pc' = "save"
  /\ UNCHANGED <<msg, seg, attempt, forwardVars, handled, converted, room, rows, failed>>

(* The bridge sends the parts one by one and inserts a row for each; a row *)
(* that is refused is logged.                                              *)
Saved == Cardinality({e \in DOMAIN room : room[e] = "part"})

SavePart ==
  /\ pc = "save" /\ Saved < Len(parts)
  /\ room' = Append(room, "part")
  /\ Insert([id |-> parts[Saved + 1].id, event |-> Len(room')])
  /\ UNCHANGED <<msg, pc, seg, attempt, forwardVars, parts, handled, converted>>

AllSaved == pc = "save" /\ Saved = Len(parts)

Segments == Unreadable \/ OtherSegment \/ ForwardSegment \/ Return
Download == Fetched \/ FetchFails \/ UseInline
Root == FlattenFails \/ SendRoot \/ SendRootFails
AfterWait == ForwardFails \/ Merge

Next ==
  \/ Segments \/ Download \/ Root \/ AfterWait \/ SavePart
  \/ \E i \in DOMAIN worker : Worker(i)

Spec == Init /\ [][Next]_vars

(* Goroutines are scheduled, and every request, upload and SendMessage     *)
(* ends.  A waiting goroutine needs no more than weak fairness for its     *)
(* slot: there are finitely many, and each takes one slot once.            *)
FairSpec ==
  /\ Spec
  /\ WF_vars(Segments) /\ WF_vars(Download) /\ WF_vars(Root) /\ WF_vars(AfterWait)
  /\ WF_vars(\E i \in DOMAIN worker : Worker(i))
  /\ WF_vars(SavePart)

-----------------------------------------------------------------------------
(* Properties *)

PartRecord == [id: Seq(Nat), item: Nat, thread: Nat]

(* The variables have their types: a slot is taken by each goroutine that  *)
(* converts, and never more than forwardConcurrency of them.               *)
TypeOK ==
  /\ msg \in Inputs
  /\ pc \in {"segments", "fetch", "inline", "flatten", "workers", "save", "crashed"}
  /\ seg \in 0..Len(msg.segments) /\ attempt \in 0..3
  /\ data \in Contents \cup {<<>>} /\ flat \in Seq(Nodes)
  /\ root \in 0..Len(room)
  /\ worker \in [DOMAIN flat -> {"waiting", "converting", "finished"}]
  /\ sem \in 0..Concurrency
  /\ sem = Cardinality({i \in DOMAIN worker : worker[i] = "converting"})
  /\ results \in [DOMAIN flat -> Seq(PartRecord)] /\ firstErr \in BOOLEAN
  /\ parts \in Seq(PartRecord) /\ handled \in BOOLEAN
  /\ converted \in Seq([root: Nat, flat: Seq(Nodes)])
  /\ room \in Seq({"root", "part"})
  /\ rows \subseteq [id: Seq(Nat), event: DOMAIN room] /\ failed \subseteq DOMAIN room

(* Whatever order the goroutines finish in, the parts are those of the     *)
(* converted forwards one after the other, in each the messages are in     *)
(* their order and none is missing, and each part is threaded to the root  *)
(* of its own forward (step 7 and 8 of convertForwardMessage).             *)
ForwardPartsInOrder ==
  converted # <<>> /\ pc # "crashed" =>
    /\ \A p, q \in DOMAIN parts : p < q =>
         \/ parts[p].thread < parts[q].thread
         \/ parts[p].thread = parts[q].thread /\ parts[p].item <= parts[q].item
    /\ \A p \in DOMAIN parts : \E k \in DOMAIN converted :
         parts[p].thread = converted[k].root /\ parts[p].item \in DOMAIN converted[k].flat
    /\ \A k \in DOMAIN converted :
         /\ room[converted[k].root] = "root"
         /\ \A i \in DOMAIN converted[k].flat : \E p \in DOMAIN parts :
              parts[p].thread = converted[k].root /\ parts[p].item = i

(* A message that was converted is shown: it has a part, whatever its      *)
(* segments were, whatever get_forward_msg said and whatever failed.       *)
MessageIsShown == pc = "save" => parts # <<>>

(* Once a message with one forward and at most one share in it is saved,   *)
(* each of its events, the root included, is found by a row of its own, so *)
(* that a reply or a reaction to it resolves: but for the events whose row *)
(* the database could not write, none of them keeps another from its row.  *)
EventsHaveRows ==
  AllSaved /\ Len(converted) = 1 /\ Cardinality({e \in DOMAIN room : room[e] = "root"}) = 1
    /\ Cardinality({p \in DOMAIN parts : parts[p].id = <<>>}) <= 1
  => \A e \in DOMAIN room \ failed : \E r \in rows : r.event = e

(* The part ID under which event e was saved: the parts come after the     *)
(* roots.                                                                  *)
EventID(e) == IF room[e] = "root" THEN <<0>> ELSE parts[e - (Len(room) - Saved)].id

(* Also with several forwards or shares, whose IDs are the same, an ID     *)
(* leads to one event, and the ID of every event whose row the database    *)
(* did not fail to write leads to it or to an earlier one: what resolves   *)
(* to an event goes on to do so while the rest of the message is saved     *)
(* (from_onebot_forward_msg.go:338-352, 394-408).                          *)
IDsKeepTheirEvent ==
  /\ \A r, q \in rows : r.id = q.id \/ r.event = q.event => r = q
  /\ \A e \in DOMAIN room \ failed :
       \E r \in rows : r.id = EventID(e) /\ r.event <= e

(* What the conversion still has to do: the segments, what is left of the  *)
(* forward at hand, and its goroutines or the parts to be saved.           *)
SegmentsLeft == IF pc \in {"save", "crashed"} THEN 0 ELSE Len(msg.segments) - seg + 1
ForwardLeft ==
  CASE pc = "fetch"   -> 6 - attempt
    [] pc = "inline"  -> 3
    [] pc = "flatten" -> 2
    [] pc = "workers" -> 1
    [] OTHER          -> 0
WorkLeft ==
  IF pc = "save" THEN Len(parts) - Saved
  ELSE Cardinality({i \in DOMAIN worker : worker[i] # "finished"})
       + Cardinality({i \in DOMAIN worker : worker[i] = "waiting"})

(* Every step leaves less to do, in this order: no answer, no failure, no  *)
(* retry and no schedule of the goroutines keeps a conversion going, and   *)
(* none of its steps is taken back.                                        *)
ConversionAdvances ==
  [][\/ SegmentsLeft' < SegmentsLeft
     \/ SegmentsLeft' = SegmentsLeft /\ ForwardLeft' < ForwardLeft
     \/ UNCHANGED <<SegmentsLeft, ForwardLeft>> /\ WorkLeft' < WorkLeft]_vars

(* The conversion ends: wg.Wait returns, the message is sent and saved, or *)
(* the process died.                                                       *)
ConversionEnds == <>(AllSaved \/ pc = "crashed")

(* What the comment on the root row says (from_onebot_forward_msg.go:329): *)
(* with part ID "0" it sorts before all the parts of the message, so that  *)
(* GetFirstPartByID returns it.  The code gives a share the empty part ID, *)
(* which sorts before "0".                                                 *)
RootSortsFirst ==
  \A r \in rows : room[r.event] = "root" => \A q \in rows : IsPrefix(r.id, q.id)
=============================================================================
