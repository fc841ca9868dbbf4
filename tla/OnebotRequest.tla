--------------------------- MODULE OnebotRequest ---------------------------
(***************************************************************************)
(* The request/response half of one onebot.Client                          *)
(* (pkg/onebot/client.go): goroutines calling Client.request over a        *)
(* WebSocket that the agent opens, drops and opens again.                  *)
(*                                                                         *)
(* Processes: the calls, one StartLoop goroutine per socket, one goroutine *)
(* per response that was read (go c.handleResponse), Client.Release, and   *)
(* the agent.  The critical sections of websocketRequestsLock touch only   *)
(* memory and are one step each.  connLock is a variable, because          *)
(* _request holds it over a write to the network.                          *)
(*                                                                         *)
(* Frames that are not responses leave this state alone and are not        *)
(* modelled, but for malformed JSON, which ends the read loop.  Responses  *)
(* on the wire form a set: the agent may send them in any order, so a lost *)
(* suffix of them is any subset.                                           *)
(***************************************************************************)
EXTENDS Naturals, FiniteSets

CONSTANTS Calls,        \* the calls of Client.request
          Conns,        \* the sockets the agent opens, each used once
          NoCall,       \* "no call": a free connLock, a handler before lookup
          NoConn,       \* Client.conn == nil
          MaxReplies    \* bound: how many answers the agent gives in all

ASSUME NamesAssumption == NoCall \notin Calls /\ NoConn \notin Conns
ASSUME MaxRepliesAssumption == MaxReplies \in Nat

VARIABLES
  conn,        \* Client.conn
  connLock,    \* the call that holds connLock while it writes, or NoCall
  sock,        \* sock[c]: "new", "open", "gone" (by the peer), "closed" (by us)
  loop,        \* loop[c]: where the StartLoop goroutine of c is
  requestID,   \* Client.websocketRequestID
  waiters,     \* Client.websocketRequests: echo -> the call whose channel it is
  pc,          \* pc[k]: where call k is in Client.request
  echo,        \* echo[k]: Request.Echo of call k, 0 before it has one
  channel,     \* channel[k]: content of respChan, {} or one reply
  outcome,     \* outcome[k]: what request returns, "none" before
  returned,    \* returned[k]: {}, or the reply that request returned
  asked,       \* asked[k]: the socket on which the agent got the request
  given,       \* the answers the agent has given
  wire,        \* their frames, not yet read, with the socket each is on
  handlers     \* the handleResponse goroutines

connVars  == <<conn, sock, loop>>
callVars  == <<pc, echo, outcome, returned>>
tableVars == <<requestID, waiters>>
agentVars == <<asked, given, wire>>
vars == <<conn, connLock, sock, loop, requestID, waiters, pc, echo,
          channel, outcome, returned, asked, given, wire, handlers>>

Statuses == {"ok", "failed"}
Answer   == [of : Calls, status : Statuses, serial : 1 .. MaxReplies]

(* A response frame: the echo it carries and what it answers. *)
Response == [echo : Nat, answer : Answer]

(* A handleResponse goroutine: its frame, and the channel it looked up. *)
Handler == [resp : Response, chan : Calls \cup {NoCall}]

Init ==
  /\ conn = NoConn
  /\ connLock = NoCall
  /\ sock = [c \in Conns |-> "new"]
  /\ loop = [c \in Conns |-> "none"]
  /\ requestID = 0
  /\ waiters = [e \in {} |-> NoCall]
  /\ pc = [k \in Calls |-> "idle"]
  /\ echo = [k \in Calls |-> 0]
  /\ channel = [k \in Calls |-> {}]
  /\ outcome = [k \in Calls |-> "none"]
  /\ returned = [k \in Calls |-> {}]
  /\ asked = [k \in Calls |-> NoConn]
  /\ given = {}
  /\ wire = {}
  /\ handlers = {}

-----------------------------------------------------------------------------
(* Client.request, one action per step another goroutine can interleave with. *)

(* Mutant: the echo is the number of requests in flight, plus one. *)
BeginByTableSize(k) ==
  /\ pc[k] = "idle"
  /\ requestID' = Cardinality(DOMAIN waiters) + 1
  /\ echo' = [echo EXCEPT ![k] = requestID']
  /\ waiters' = [e \in DOMAIN waiters \cup {requestID'} |->
                   IF e = requestID' THEN k ELSE waiters[e]]
  /\ pc' = [pc EXCEPT ![k] = "lock"]
  /\ UNCHANGED <<connVars, connLock, channel, outcome, returned, agentVars, handlers>>

(* Mutant: the waiter is never registered. *)
BeginUnregistered(k) ==
  /\ pc[k] = "idle"
  /\ requestID' = requestID + 1
  /\ echo' = [echo EXCEPT ![k] = requestID']
  /\ pc' = [pc EXCEPT ![k] = "lock"]
  /\ UNCHANGED <<connVars, connLock, waiters, channel, outcome, returned, agentVars,
                 handlers>>

(* The echo is drawn from the atomic counter and the waiter is registered  *)
(* (addWebsocketResponseWaiter): one step, since no other goroutine sees   *)
(* the echo before the table does.                                         *)
Begin(k) ==
  /\ pc[k] = "idle"
  /\ requestID' = requestID + 1
  /\ echo' = [echo EXCEPT ![k] = requestID']
  /\ waiters' = [e \in DOMAIN waiters \cup {requestID'} |->
                   IF e = requestID' THEN k ELSE waiters[e]]
  /\ pc' = [pc EXCEPT ![k] = "lock"]
  /\ UNCHANGED <<connVars, connLock, channel, outcome, returned, agentVars, handlers>>

(* _request takes connLock and finds a connection to write to ... *)
StartWrite(k) ==
  /\ pc[k] = "lock" /\ connLock = NoCall
  /\ conn # NoConn
  /\ connLock' = k
  /\ pc' = [pc EXCEPT ![k] = "write"]
  /\ UNCHANGED <<connVars, tableVars, echo, channel, outcome, returned,
                 agentVars, handlers>>

(* ... or none, and request returns its error. *)
NotConnected(k) ==
  /\ pc[k] = "lock" /\ connLock = NoCall
  /\ conn = NoConn
  /\ pc' = [pc EXCEPT ![k] = "cleanup"]
  /\ outcome' = [outcome EXCEPT ![k] = "unsent"]
  /\ UNCHANGED <<connVars, connLock, tableVars, echo, channel, returned,
                 agentVars, handlers>>

(* WriteJSON succeeds and connLock is released.  The agent gets the frame, *)
(* unless it is already gone: then the kernel has taken the bytes and they *)
(* are lost.                                                               *)
FinishWrite(k) ==
  /\ pc[k] = "write" /\ connLock = k
  /\ sock[conn] \in {"open", "gone"}
  /\ asked' = IF sock[conn] = "open" THEN [asked EXCEPT ![k] = conn] ELSE asked
  /\ connLock' = NoCall
  /\ pc' = [pc EXCEPT ![k] = "select"]
  /\ UNCHANGED <<connVars, tableVars, echo, channel, outcome, returned, given,
                 wire, handlers>>

(* WriteJSON fails. *)
FailWrite(k) ==
  /\ pc[k] = "write" /\ connLock = k
  /\ sock[conn] # "open"
  /\ connLock' = NoCall
  /\ pc' = [pc EXCEPT ![k] = "cleanup"]
  /\ outcome' = [outcome EXCEPT ![k] = "unsent"]
  /\ UNCHANGED <<connVars, tableVars, echo, channel, returned, agentVars,
                 handlers>>

(* Mutant: the status of the response is not looked at. *)
ReceiveAny(k) ==
  /\ pc[k] = "select"
  /\ \E r \in channel[k] :
       /\ channel' = [channel EXCEPT ![k] = {}]
       /\ returned' = [returned EXCEPT ![k] = {r}]
       /\ outcome' = [outcome EXCEPT ![k] = "data"]
  /\ pc' = [pc EXCEPT ![k] = "cleanup"]
  /\ UNCHANGED <<connVars, connLock, tableVars, echo, agentVars, handlers>>

(* The select takes the response; a status other than ok is an error. *)
Receive(k) ==
  /\ pc[k] = "select"
  /\ \E r \in channel[k] :
       /\ channel' = [channel EXCEPT ![k] = {}]
       /\ returned' = [returned EXCEPT ![k] = {r}]
       /\ outcome' = [outcome EXCEPT
                        ![k] = IF r.answer.status = "ok" THEN "data" ELSE "refused"]
  /\ pc' = [pc EXCEPT ![k] = "cleanup"]
  /\ UNCHANGED <<connVars, connLock, tableVars, echo, agentVars, handlers>>

(* Mutant: the select has no ctx.Done case that can fire on its own. *)
TimeoutNever(k) == FALSE /\ UNCHANGED vars

(* The select takes ctx.Done.  The deadline may have passed by any moment,  *)
(* also before the write ended, and when the response is ready as well.    *)
Timeout(k) ==
  /\ pc[k] = "select"
  /\ pc' = [pc EXCEPT ![k] = "cleanup"]
  /\ outcome' = [outcome EXCEPT ![k] = "timeout"]
  /\ UNCHANGED <<connVars, connLock, tableVars, echo, channel, returned,
                 agentVars, handlers>>

(* The deferred removeWebsocketResponseWaiter: only a waiter of its own. *)
Cleanup(k) ==
  /\ pc[k] = "cleanup"
  /\ waiters' = [e \in {d \in DOMAIN waiters : ~(d = echo[k] /\ waiters[d] = k)} |->
                   waiters[e]]
  /\ pc' = [pc EXCEPT ![k] = "done"]
  /\ UNCHANGED <<connVars, connLock, requestID, echo, channel, outcome,
                 returned, agentVars, handlers>>

-----------------------------------------------------------------------------
(* The sockets: StartLoop, and the connection half of Release. *)

(* The agent opens a socket and ServeHTTP starts its loop. *)
Accept(c) ==
  /\ sock[c] = "new"
  /\ sock' = [sock EXCEPT ![c] = "open"]
  /\ loop' = [loop EXCEPT ![c] = "install"]
  /\ UNCHANGED <<conn, connLock, tableVars, callVars, channel, agentVars, handlers>>

(* Mutant: the connection that is replaced stays open. *)
InstallOver(c) ==
  /\ loop[c] = "install" /\ connLock = NoCall
  /\ conn' = c
  /\ loop' = [loop EXCEPT ![c] = "read"]
  /\ UNCHANGED <<connLock, sock, tableVars, callVars, channel, agentVars, handlers>>

(* updateConnection(conn) at the head of StartLoop. *)
Install(c) ==
  /\ loop[c] = "install" /\ connLock = NoCall
  /\ sock' = [d \in Conns |-> IF d = conn THEN "closed" ELSE sock[d]]
  /\ conn' = c
  /\ loop' = [loop EXCEPT ![c] = "read"]
  /\ UNCHANGED <<connLock, tableVars, callVars, channel, agentVars, handlers>>

(* ReadMessage returns a response: a goroutine is started for it.  Bytes    *)
(* that were received before the socket failed or was closed are still     *)
(* read.                                                                   *)
ReadResponse(c) ==
  /\ loop[c] = "read"
  /\ \E m \in wire :
       /\ m.on = c
       /\ wire' = wire \ {m}
       /\ handlers' = handlers \cup {[resp |-> m.resp, chan |-> NoCall]}
  /\ UNCHANGED <<connVars, connLock, tableVars, callVars, channel, asked, given>>

(* ReadMessage fails, and the loop returns. *)
ReadError(c) ==
  /\ loop[c] = "read" /\ sock[c] # "open"
  /\ loop' = [loop EXCEPT ![c] = "clear"]
  /\ UNCHANGED <<conn, connLock, sock, tableVars, callVars, channel, agentVars, handlers>>

(* A text frame that is not JSON ends the loop; the socket stays open. *)
MalformedFrame(c) ==
  /\ loop[c] = "read" /\ sock[c] = "open"
  /\ loop' = [loop EXCEPT ![c] = "clear"]
  /\ UNCHANGED <<conn, connLock, sock, tableVars, callVars, channel, agentVars, handlers>>

(* The deferred function of StartLoop. *)
Clear(c) ==
  /\ loop[c] = "clear" /\ connLock = NoCall
  /\ conn' = IF conn = c THEN NoConn ELSE conn
  /\ loop' = [loop EXCEPT ![c] = "done"]
  /\ UNCHANGED <<connLock, sock, tableVars, callVars, channel, agentVars, handlers>>

(* Release: updateConnection(nil). *)
ReleaseConn ==
  /\ connLock = NoCall /\ conn # NoConn
  /\ sock' = [sock EXCEPT ![conn] = "closed"]
  /\ conn' = NoConn
  /\ UNCHANGED <<connLock, loop, tableVars, callVars, channel, agentVars, handlers>>

-----------------------------------------------------------------------------
(* handleResponse *)

(* The lookup under the read lock; a response nobody waits for is dropped. *)
Lookup(h) ==
  /\ h \in handlers /\ h.chan = NoCall
  /\ handlers' = (handlers \ {h}) \cup
                   {[resp |-> h.resp, chan |-> waiters[e]] :
                       e \in DOMAIN waiters \cap {h.resp.echo}}
  /\ UNCHANGED <<connVars, connLock, tableVars, callVars, channel, agentVars>>

(* The send that does not block: a full channel drops the response. *)
Deliver(h) ==
  /\ h \in handlers /\ h.chan # NoCall
  /\ channel' = [channel EXCEPT ![h.chan] = IF @ = {} THEN {h.resp} ELSE @]
  /\ handlers' = handlers \ {h}
  /\ UNCHANGED <<connVars, connLock, tableVars, callVars, agentVars>>

-----------------------------------------------------------------------------
(* The agent and the network (external).  The agent copies the echo of the *)
(* request into each answer, and sends it on the socket of the request.    *)

AgentAnswers(a) ==
  LET c == asked[a.of] IN
  /\ c # NoConn
  /\ sock[c] = "open"
  /\ {b.serial : b \in given} = 1 .. (a.serial - 1)
  /\ given' = given \cup {a}
  /\ wire' = wire \cup {[on |-> c, resp |-> [echo |-> echo[a.of], answer |-> a]]}
  /\ UNCHANGED <<connVars, connLock, tableVars, callVars, channel, asked, handlers>>

PeerGone(c) ==
  /\ sock[c] = "open"
  /\ sock' = [sock EXCEPT ![c] = "gone"]
  /\ UNCHANGED <<conn, connLock, loop, tableVars, callVars, channel, agentVars, handlers>>

-----------------------------------------------------------------------------
CallStep(k) == \/ StartWrite(k)  \/ NotConnected(k)
               \/ FinishWrite(k) \/ FailWrite(k)
               \/ Receive(k)     \/ Timeout(k)    \/ Cleanup(k)

LoopStep(c) == Install(c) \/ ReadError(c) \/ Clear(c)

HandlerStep(h) == Lookup(h) \/ Deliver(h)

(* Every call has returned and every loop has ended. *)
Quiet == /\ \A k \in Calls : pc[k] = "done"
         /\ \A c \in Conns : loop[c] = "done"
         /\ handlers = {}
         /\ UNCHANGED vars

Next ==
  \/ \E k \in Calls : Begin(k) \/ CallStep(k)
  \/ \E c \in Conns : \/ Accept(c) \/ LoopStep(c) \/ ReadResponse(c)
                      \/ MalformedFrame(c) \/ PeerGone(c)
  \/ \E h \in handlers : HandlerStep(h)
  \/ \E a \in Answer : AgentAnswers(a)
  \/ ReleaseConn
  \/ Quiet

Spec == Init /\ [][Next]_vars

(* The goroutines that are running are scheduled, deadlines pass, and a    *)
(* write to a socket ends (FinishWrite, FailWrite): the last is an         *)
(* assumption on the network, since no write deadline is set.  Nothing is  *)
(* assumed of the agent, of callers that have not begun, or of Release.    *)
Fairness ==
  /\ \A k \in Calls : WF_vars(CallStep(k))
  /\ \A c \in Conns : WF_vars(LoopStep(c))
  /\ WF_vars(\E h \in handlers : HandlerStep(h))

FairSpec == Spec /\ Fairness
-----------------------------------------------------------------------------
(* Every variable has its type; a response channel holds at most the one   *)
(* response it has room for (client.go:201).                               *)
TypeOK ==
  /\ conn \in Conns \cup {NoConn}
  /\ connLock \in Calls \cup {NoCall}
  /\ sock \in [Conns -> {"new", "open", "gone", "closed"}]
  /\ loop \in [Conns -> {"none", "install", "read", "clear", "done"}]
  /\ requestID \in Nat
  /\ DOMAIN waiters \subseteq Nat
  /\ waiters \in [DOMAIN waiters -> Calls]
  /\ pc \in [Calls -> {"idle", "lock", "write", "select", "cleanup", "done"}]
  /\ echo \in [Calls -> Nat]
  /\ channel \in [Calls -> SUBSET Response]
  /\ \A k \in Calls : \A r, s \in channel[k] : r = s
  /\ outcome \in [Calls -> {"none", "data", "refused", "timeout", "unsent"}]
  /\ returned \in [Calls -> SUBSET Response]
  /\ asked \in [Calls -> Conns \cup {NoConn}]
  /\ given \subseteq Answer
  /\ wire \subseteq [on : Conns, resp : Response]
  /\ handlers \subseteq Handler

(* A call never returns the response to another call, however late,        *)
(* repeated or reordered the responses are (client.go:195-251).            *)
AnswerMatchesCall ==
  \A k \in Calls : \A r \in returned[k] : r.answer.of = k

(* The table of waiters holds exactly the calls that are under way: none   *)
(* leaks when a call fails or times out, none is overwritten by another    *)
(* call, and each is there before its request can be answered              *)
(* (client.go:203-204, 253-268).                                           *)
WaitersAreCallsUnderWay ==
  /\ \A k \in Calls : pc[k] \in {"lock", "write", "select", "cleanup"} =>
                        echo[k] \in DOMAIN waiters /\ waiters[echo[k]] = k
  /\ \A e \in DOMAIN waiters :
       LET k == waiters[e] IN
       echo[k] = e /\ pc[k] \in {"lock", "write", "select", "cleanup"}

(* Every response under way, on the wire, in a handler or in a channel,    *)
(* carries the echo of the call it answers, no two calls share an echo,    *)
(* and a handler holds the channel of that call only.  This is why         *)
(* AnswerMatchesCall holds, also for a handler that looked its channel up  *)
(* before the call gave up (client.go:199-204, 238-251).                   *)
EchoIdentifiesCall ==
  /\ \A j, k \in Calls : echo[j] = echo[k] /\ echo[j] # 0 => j = k
  /\ \A k \in Calls : echo[k] <= requestID /\ (pc[k] = "idle" <=> echo[k] = 0)
  /\ \A k \in Calls : asked[k] # NoConn => pc[k] # "idle"
  /\ \A m \in wire : /\ m.resp.answer \in given
                      /\ m.resp.echo = echo[m.resp.answer.of]
  /\ \A h \in handlers : /\ h.resp.answer \in given
                          /\ h.resp.echo = echo[h.resp.answer.of]
                          /\ h.chan \in {NoCall, h.resp.answer.of}
  /\ \A k \in Calls : \A r \in channel[k] : r.answer \in given /\ r.answer.of = k
  /\ \A a \in given : asked[a.of] # NoConn

(* While a request is being written, its writer alone holds connLock, and  *)
(* neither a new connection, the exit of a loop nor Release takes the      *)
(* connection away from under it (client.go:61-67, 185-193, 227-236).      *)
WriterKeepsConnection ==
  /\ \A k \in Calls : pc[k] = "write" <=> connLock = k
  /\ connLock # NoCall => conn # NoConn

(* A client reads one live connection at a time: a loop that still reads a *)
(* socket other than the installed one finds it closed, and will end, and  *)
(* no request is written to a socket the bridge itself has closed          *)
(* (client.go:58-74, 138-139, 185-193).                                    *)
OneLiveConnection ==
  /\ conn # NoConn => sock[conn] \in {"open", "gone"}
  /\ \A c \in Conns : loop[c] = "read" /\ c # conn => sock[c] = "closed"

-----------------------------------------------------------------------------
(* The client implements the promise to its callers.  A call is open from  *)
(* the moment it begins until its select, or its failed write, decides.    *)
Phase(k) == CASE outcome[k] = "data" -> "data"
              [] outcome[k] \in {"refused", "timeout", "unsent"} -> "error"
              [] OTHER -> IF pc[k] = "idle" THEN "idle" ELSE "open"

Value(k) == {r.answer : r \in returned[k]}

AbstractCall == INSTANCE AgentCall WITH
  phase  <- [k \in Calls |-> Phase(k)],
  served <- given,
  value  <- [k \in Calls |-> Value(k)]

(* Each call returns once, with an answer the agent gave to it, as data    *)
(* only if its status is ok, or with an error (client.go:195-225).         *)
ImplementsAgentCall == AbstractCall!Spec

-----------------------------------------------------------------------------
(* Every call that begins returns, answered or not, connected or not       *)
(* (client.go:215-224).                                                    *)
EveryCallReturns == \A k \in Calls : pc[k] # "idle" ~> pc[k] = "done"

(* The loop of a connection that was replaced or released ends             *)
(* (client.go:70-74, 185-193).                                             *)
ReplacedLoopEnds ==
  \A c \in Conns : (loop[c] = "read" /\ conn # c) ~> loop[c] = "done"
=============================================================================
