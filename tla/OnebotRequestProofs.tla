------------------------ MODULE OnebotRequestProofs ------------------------
(***************************************************************************)
(* Proofs about OnebotRequest for every set of calls and sockets and any   *)
(* number of replies: responses reach the call they answer, the table of   *)
(* waiters is exact, and the client implements AgentCall.                  *)
(***************************************************************************)
EXTENDS OnebotRequest, TLAPS

(* Correlation rests on the types, the lock, the table of waiters and the  *)
(* echoes.                                                                 *)
IInv == /\ TypeOK
        /\ WriterKeepsConnection
        /\ WaitersAreCallsUnderWay
        /\ EchoIdentifiesCall
        /\ AnswerMatchesCall

USE NamesAssumption, MaxRepliesAssumption

-----------------------------------------------------------------------------
(* The initial state has the types. *)
LEMMA InitTypeOK == Init => TypeOK
  BY DEF Init, TypeOK, Response, Answer, Handler

(* Every step keeps the types. *)
LEMMA NextTypeOK == TypeOK /\ [Next]_vars => TypeOK'
<1> SUFFICES ASSUME TypeOK, [Next]_vars PROVE TypeOK'
  OBVIOUS
<1> USE DEF TypeOK, connVars, callVars, tableVars, agentVars
<1>1. ASSUME NEW k \in Calls, Begin(k) PROVE TypeOK'
  BY <1>1 DEF Begin
<1>2. ASSUME NEW k \in Calls, StartWrite(k) PROVE TypeOK'
  BY <1>2 DEF StartWrite
<1>3. ASSUME NEW k \in Calls, NotConnected(k) PROVE TypeOK'
  BY <1>3 DEF NotConnected
<1>4. ASSUME NEW k \in Calls, FinishWrite(k) PROVE TypeOK'
  BY <1>4 DEF FinishWrite
<1>5. ASSUME NEW k \in Calls, FailWrite(k) PROVE TypeOK'
  BY <1>5 DEF FailWrite
<1>6. ASSUME NEW k \in Calls, Receive(k) PROVE TypeOK'
  BY <1>6 DEF Receive
<1>7. ASSUME NEW k \in Calls, Timeout(k) PROVE TypeOK'
  BY <1>7 DEF Timeout
<1>8. ASSUME NEW k \in Calls, Cleanup(k) PROVE TypeOK'
  BY <1>8 DEF Cleanup
<1>9. ASSUME NEW c \in Conns, Accept(c) PROVE TypeOK'
  BY <1>9 DEF Accept
<1>10. ASSUME NEW c \in Conns, Install(c) PROVE TypeOK'
  BY <1>10 DEF Install
<1>11. ASSUME NEW c \in Conns, ReadError(c) \/ MalformedFrame(c) PROVE TypeOK'
  BY <1>11 DEF ReadError, MalformedFrame
<1>12. ASSUME NEW c \in Conns, Clear(c) PROVE TypeOK'
  BY <1>12 DEF Clear
<1>13. ASSUME NEW c \in Conns, ReadResponse(c) PROVE TypeOK'
  BY <1>13 DEF ReadResponse, Handler
<1>14. ASSUME NEW c \in Conns, PeerGone(c) PROVE TypeOK'
  BY <1>14 DEF PeerGone
<1>15. ASSUME NEW h \in handlers, Lookup(h) PROVE TypeOK'
  BY <1>15 DEF Lookup, Handler
<1>16. ASSUME NEW h \in handlers, Deliver(h) PROVE TypeOK'
  BY <1>16 DEF Deliver, Handler
<1>17. ASSUME NEW a \in Answer, AgentAnswers(a) PROVE TypeOK'
  BY <1>17 DEF AgentAnswers, Answer, Response
<1>18. CASE ReleaseConn
  BY <1>18 DEF ReleaseConn
<1>19. CASE UNCHANGED vars
  BY <1>19 DEF vars
<1> QED
  BY <1>1, <1>2, <1>3, <1>4, <1>5, <1>6, <1>7, <1>8, <1>9, <1>10, <1>11, <1>12,
     <1>13, <1>14, <1>15, <1>16, <1>17, <1>18, <1>19
  DEF Next, CallStep, LoopStep, HandlerStep, Quiet

(* Every variable keeps its type, and no response channel ever holds more  *)
(* than the response it has room for.                                      *)
THEOREM TypeCorrect == Spec => []TypeOK
<1>1. Init => TypeOK
  BY InitTypeOK
<1>2. TypeOK /\ [Next]_vars => TypeOK'
  BY NextTypeOK
<1> QED
  BY <1>1, <1>2, PTL DEF Spec

-----------------------------------------------------------------------------
(* Every step keeps the connection of a writer. *)
LEMMA NextWriter == IInv /\ [Next]_vars => WriterKeepsConnection'
<1> SUFFICES ASSUME IInv, [Next]_vars PROVE WriterKeepsConnection'
  OBVIOUS
<1> USE DEF IInv, TypeOK, WriterKeepsConnection, connVars, callVars
<1>1. ASSUME NEW k \in Calls, StartWrite(k) \/ FinishWrite(k) \/ FailWrite(k)
      PROVE WriterKeepsConnection'
  BY <1>1 DEF StartWrite, FinishWrite, FailWrite
<1>2. ASSUME NEW k \in Calls,
             Begin(k) \/ NotConnected(k) \/ Receive(k) \/ Timeout(k) \/ Cleanup(k)
      PROVE WriterKeepsConnection'
  BY <1>2 DEF Begin, NotConnected, Receive, Timeout, Cleanup
<1>3. ASSUME NEW c \in Conns, Install(c) \/ Clear(c) PROVE WriterKeepsConnection'
  BY <1>3 DEF Install, Clear
<1>4. CASE ReleaseConn
  BY <1>4 DEF ReleaseConn
<1>5. CASE UNCHANGED <<pc, conn, connLock>>
  BY <1>5
<1> QED
  BY <1>1, <1>2, <1>3, <1>4, <1>5
  DEF Next, CallStep, LoopStep, HandlerStep, Quiet, Accept, ReadError, MalformedFrame,
      ReadResponse, PeerGone, Lookup, Deliver, AgentAnswers, vars

(* Every step keeps the table of waiters exact. *)
LEMMA NextWaiters == IInv /\ [Next]_vars => WaitersAreCallsUnderWay'
<1> SUFFICES ASSUME IInv, [Next]_vars PROVE WaitersAreCallsUnderWay'
  OBVIOUS
<1> USE DEF IInv, TypeOK, WaitersAreCallsUnderWay, callVars, tableVars
<1>1. ASSUME NEW k \in Calls, Begin(k) PROVE WaitersAreCallsUnderWay'
  BY <1>1 DEF Begin, EchoIdentifiesCall
<1>2. ASSUME NEW k \in Calls,
             StartWrite(k) \/ NotConnected(k) \/ FinishWrite(k) \/ FailWrite(k)
      PROVE WaitersAreCallsUnderWay'
  BY <1>2 DEF StartWrite, NotConnected, FinishWrite, FailWrite
<1>3. ASSUME NEW k \in Calls, Receive(k) \/ Timeout(k) PROVE WaitersAreCallsUnderWay'
  BY <1>3 DEF Receive, Timeout
<1>4. ASSUME NEW k \in Calls, Cleanup(k) PROVE WaitersAreCallsUnderWay'
  BY <1>4 DEF Cleanup
<1>5. CASE UNCHANGED <<pc, echo, waiters>>
  BY <1>5
<1> QED
  BY <1>1, <1>2, <1>3, <1>4, <1>5
  DEF Next, CallStep, LoopStep, HandlerStep, Quiet, Accept, Install, ReadError,
      MalformedFrame, Clear, ReadResponse, PeerGone, Lookup, Deliver, AgentAnswers,
      ReleaseConn, vars

(* Every step keeps each response under way tied to its call. *)
LEMMA NextEchoes == IInv /\ [Next]_vars => EchoIdentifiesCall'
<1> SUFFICES ASSUME IInv, [Next]_vars PROVE EchoIdentifiesCall'
  OBVIOUS
<1> USE DEF IInv, TypeOK, EchoIdentifiesCall, connVars, callVars, tableVars, agentVars,
            Response, Answer, Handler
<1>1. ASSUME NEW k \in Calls, Begin(k) PROVE EchoIdentifiesCall'
  BY <1>1 DEF Begin
<1>2. ASSUME NEW k \in Calls, StartWrite(k) \/ NotConnected(k) \/ FailWrite(k)
      PROVE EchoIdentifiesCall'
  BY <1>2 DEF StartWrite, NotConnected, FailWrite
<1>3. ASSUME NEW k \in Calls, FinishWrite(k) PROVE EchoIdentifiesCall'
  BY <1>3 DEF FinishWrite, WriterKeepsConnection
<1>4. ASSUME NEW k \in Calls, Receive(k) PROVE EchoIdentifiesCall'
  BY <1>4 DEF Receive
<1>5. ASSUME NEW k \in Calls, Timeout(k) \/ Cleanup(k) PROVE EchoIdentifiesCall'
  BY <1>5 DEF Timeout, Cleanup
<1>6. ASSUME NEW c \in Conns, ReadResponse(c) PROVE EchoIdentifiesCall'
  BY <1>6 DEF ReadResponse
<1>7. ASSUME NEW h \in handlers, Lookup(h) PROVE EchoIdentifiesCall'
  <2>1. \A e \in DOMAIN waiters \cap {h.resp.echo} : waiters[e] = h.resp.answer.of
    BY DEF WaitersAreCallsUnderWay
  <2> QED
    BY <1>7, <2>1 DEF Lookup
<1>8. ASSUME NEW h \in handlers, Deliver(h) PROVE EchoIdentifiesCall'
  BY <1>8 DEF Deliver
<1>9. ASSUME NEW a \in Answer, AgentAnswers(a) PROVE EchoIdentifiesCall'
  BY <1>9 DEF AgentAnswers
<1>10. CASE UNCHANGED <<requestID, pc, echo, asked, given, wire, handlers, channel>>
  BY <1>10
<1> QED
  BY <1>1, <1>2, <1>3, <1>4, <1>5, <1>6, <1>7, <1>8, <1>9, <1>10
  DEF Next, CallStep, LoopStep, HandlerStep, Quiet, Accept, Install, ReadError,
      MalformedFrame, Clear, PeerGone, ReleaseConn, vars

(* Every step keeps what the calls returned theirs. *)
LEMMA NextAnswers == IInv /\ [Next]_vars => AnswerMatchesCall'
<1> SUFFICES ASSUME IInv, [Next]_vars PROVE AnswerMatchesCall'
  OBVIOUS
<1> USE DEF IInv, TypeOK, AnswerMatchesCall, callVars
<1>1. ASSUME NEW k \in Calls, Receive(k) PROVE AnswerMatchesCall'
  BY <1>1 DEF Receive, EchoIdentifiesCall
<1>2. CASE UNCHANGED returned
  BY <1>2
<1> QED
  BY <1>1, <1>2
  DEF Next, CallStep, LoopStep, HandlerStep, Quiet, Begin, StartWrite, NotConnected,
      FinishWrite, FailWrite, Timeout, Cleanup, Accept, Install, ReadError,
      MalformedFrame, Clear, ReadResponse, PeerGone, Lookup, Deliver, AgentAnswers,
      ReleaseConn, vars

(* The invariant of the client's correlation of requests and responses. *)
THEOREM Invariance == Spec => []IInv
<1>1. Init => IInv
  <2>1. Init => TypeOK
    BY InitTypeOK
  <2> QED
    BY <2>1 DEF Init, IInv, WriterKeepsConnection, WaitersAreCallsUnderWay, EchoIdentifiesCall,
              AnswerMatchesCall
<1>2. IInv /\ [Next]_vars => IInv'
  BY NextTypeOK, NextWriter, NextWaiters, NextEchoes, NextAnswers DEF IInv
<1> QED
  BY <1>1, <1>2, PTL DEF Spec

(* A call never returns the response to another call. *)
THEOREM AnswersMatchCalls == Spec => []AnswerMatchesCall
<1>1. IInv => AnswerMatchesCall
  BY DEF IInv
<1> QED
  BY <1>1, Invariance, PTL

(* The table of waiters holds exactly the calls under way. *)
THEOREM NoWaiterLeaks == Spec => []WaitersAreCallsUnderWay
<1>1. IInv => WaitersAreCallsUnderWay
  BY DEF IInv
<1> QED
  BY <1>1, Invariance, PTL

(* Nothing takes the connection away from under a request that is being    *)
(* written.                                                                *)
THEOREM WriterHasConnection == Spec => []WriterKeepsConnection
<1>1. IInv => WriterKeepsConnection
  BY DEF IInv
<1> QED
  BY <1>1, Invariance, PTL

-----------------------------------------------------------------------------
(* The loop of a socket starts when the socket opens, a socket that waits  *)
(* to be installed was not closed, and the loop of the installed one runs. *)
LoopMatchesSocket ==
  \A c \in Conns : /\ sock[c] = "new" <=> loop[c] = "none"
                   /\ loop[c] = "install" => sock[c] # "closed"
                   /\ conn = c => loop[c] \in {"read", "clear"}

ConnInv == TypeOK /\ LoopMatchesSocket /\ OneLiveConnection

(* Every step keeps the connections in order. *)
LEMMA NextConn == ConnInv /\ [Next]_vars => ConnInv'
<1> SUFFICES ASSUME ConnInv, [Next]_vars PROVE ConnInv'
  OBVIOUS
<1>t. TypeOK'
  BY NextTypeOK DEF ConnInv
<1> SUFFICES (LoopMatchesSocket /\ OneLiveConnection)'
  BY <1>t DEF ConnInv
<1> USE DEF ConnInv, TypeOK, LoopMatchesSocket, OneLiveConnection,
            connVars
<1>1. ASSUME NEW c \in Conns, Accept(c)
      PROVE (LoopMatchesSocket /\ OneLiveConnection)'
  BY <1>1 DEF Accept
<1>2. ASSUME NEW c \in Conns, Install(c)
      PROVE (LoopMatchesSocket /\ OneLiveConnection)'
  BY <1>2 DEF Install
<1>3. ASSUME NEW c \in Conns, ReadError(c) \/ MalformedFrame(c) \/ PeerGone(c)
      PROVE (LoopMatchesSocket /\ OneLiveConnection)'
  BY <1>3 DEF ReadError, MalformedFrame, PeerGone
<1>4. ASSUME NEW c \in Conns, Clear(c)
      PROVE (LoopMatchesSocket /\ OneLiveConnection)'
  BY <1>4 DEF Clear
<1>5. CASE ReleaseConn
  BY <1>5 DEF ReleaseConn
<1>6. CASE UNCHANGED connVars
  BY <1>6
<1> QED
  BY <1>1, <1>2, <1>3, <1>4, <1>5, <1>6
  DEF Next, CallStep, LoopStep, HandlerStep, Quiet, Begin, StartWrite, NotConnected,
      FinishWrite, FailWrite, Receive, Timeout, Cleanup, ReadResponse, Lookup, Deliver,
      AgentAnswers, vars

(* A loop that still reads a socket other than the installed one finds it  *)
(* closed, and the installed one was not closed by the bridge.             *)
THEOREM OneConnection == Spec => []OneLiveConnection
<1>1. Init => ConnInv
  BY InitTypeOK
  DEF Init, ConnInv, LoopMatchesSocket, OneLiveConnection
<1>2. ConnInv => OneLiveConnection
  BY DEF ConnInv
<1> QED
  BY <1>1, <1>2, NextConn, PTL DEF Spec

-----------------------------------------------------------------------------
(* A call has an outcome exactly from the step that decides it. *)
OutcomeMatchesPc ==
  \A k \in Calls : /\ outcome[k] = "none" <=> pc[k] \in {"idle", "lock", "write", "select"}
                   /\ outcome[k] = "none" => returned[k] = {}

(* Every step keeps outcomes and program counters in step. *)
LEMMA NextOutcome == TypeOK /\ OutcomeMatchesPc /\ [Next]_vars => OutcomeMatchesPc'
<1> SUFFICES ASSUME TypeOK, OutcomeMatchesPc, [Next]_vars PROVE OutcomeMatchesPc'
  OBVIOUS
<1> USE DEF TypeOK, OutcomeMatchesPc, callVars
<1>1. ASSUME NEW k \in Calls,
             Begin(k) \/ StartWrite(k) \/ NotConnected(k) \/ FinishWrite(k) \/ FailWrite(k)
      PROVE OutcomeMatchesPc'
  BY <1>1 DEF Begin, StartWrite, NotConnected, FinishWrite, FailWrite
<1>2. ASSUME NEW k \in Calls, Receive(k) \/ Timeout(k) \/ Cleanup(k)
      PROVE OutcomeMatchesPc'
  BY <1>2 DEF Receive, Timeout, Cleanup
<1>3. CASE UNCHANGED callVars
  BY <1>3
<1> QED
  BY <1>1, <1>2, <1>3
  DEF Next, CallStep, LoopStep, HandlerStep, Quiet, Accept, Install, ReadError,
      MalformedFrame, Clear, ReadResponse, PeerGone, Lookup, Deliver, AgentAnswers,
      ReleaseConn, vars

(* Every step of the client is a step of the abstract calls, or none. *)
LEMMA StepSimulation ==
  IInv /\ OutcomeMatchesPc /\ [Next]_vars => [AbstractCall!Next]_(AbstractCall!vars)
<1> SUFFICES ASSUME IInv, OutcomeMatchesPc, [Next]_vars
             PROVE [AbstractCall!Next]_(AbstractCall!vars)
  OBVIOUS
<1> USE DEF IInv, TypeOK, OutcomeMatchesPc, AbstractCall!vars, callVars
<1>1. ASSUME NEW k \in Calls, Begin(k) PROVE AbstractCall!Issue(k)
  BY <1>1 DEF Phase, Value, Begin, AbstractCall!Issue, agentVars
<1>2. ASSUME NEW k \in Calls, NotConnected(k) \/ FailWrite(k) \/ Timeout(k)
      PROVE AbstractCall!Fail(k)
  <2>1. Phase(k) = "open" /\ Phase(k)' = "error"
    BY <1>2 DEF NotConnected, FailWrite, Timeout, Phase
  <2>2. \A j \in Calls \ {k} : Phase(j)' = Phase(j)
    BY <1>2 DEF NotConnected, FailWrite, Timeout, Phase
  <2>3. UNCHANGED <<given, returned>>
    BY <1>2 DEF NotConnected, FailWrite, Timeout, agentVars
  <2>4. [j \in Calls |-> Phase(j)]' = [[j \in Calls |-> Phase(j)] EXCEPT ![k] = "error"]
    BY <2>1, <2>2
  <2>5. UNCHANGED [j \in Calls |-> Value(j)]
    BY <2>3 DEF Value
  <2> QED
    BY <2>1, <2>3, <2>4, <2>5 DEF AbstractCall!Fail
<1>3. ASSUME NEW k \in Calls, Receive(k) PROVE AbstractCall!Return(k)
  <2>1. PICK r \in channel[k] :
          /\ returned' = [returned EXCEPT ![k] = {r}]
          /\ outcome' = [outcome EXCEPT
                           ![k] = IF r.answer.status = "ok" THEN "data" ELSE "refused"]
    BY <1>3 DEF Receive
  <2>2. r.answer \in given /\ r.answer.of = k
    BY DEF EchoIdentifiesCall
  <2>3. /\ Phase(k) = "open"
        /\ Phase(k)' = IF r.answer.status = "ok" THEN "data" ELSE "error"
    BY <1>3, <2>1 DEF Receive, Phase
  <2>4. \A j \in Calls \ {k} : Phase(j)' = Phase(j)
    BY <1>3, <2>1 DEF Receive, Phase
  <2>5. UNCHANGED given
    BY <1>3 DEF Receive, agentVars
  <2>6. [j \in Calls |-> Phase(j)]'
          = [[j \in Calls |-> Phase(j)] EXCEPT
               ![k] = IF r.answer.status = "ok" THEN "data" ELSE "error"]
    BY <2>3, <2>4
  <2>7. [j \in Calls |-> Value(j)]'
          = [[j \in Calls |-> Value(j)] EXCEPT ![k] = {r.answer}]
    <3>1. Value(k)' = {r.answer}
      BY <2>1 DEF Value
    <3>2. \A j \in Calls \ {k} : Value(j)' = Value(j)
      BY <2>1 DEF Value
    <3> QED
      BY <3>1, <3>2
  <2> QED
    BY <2>2, <2>3, <2>5, <2>6, <2>7 DEF AbstractCall!Return
<1>4. ASSUME NEW a \in Answer, AgentAnswers(a) PROVE AbstractCall!Serve(a)
  <2>1. a.of \in Calls /\ a \notin given
    BY <1>4 DEF AgentAnswers, Answer
  <2>2. pc[a.of] # "idle"
    BY <1>4, <2>1 DEF AgentAnswers, EchoIdentifiesCall
  <2> QED
    BY <1>4, <2>1, <2>2 DEF AgentAnswers, AbstractCall!Serve, Phase, Value
<1>5. ASSUME NEW k \in Calls, StartWrite(k) \/ FinishWrite(k) \/ Cleanup(k)
      PROVE UNCHANGED AbstractCall!vars
  BY <1>5 DEF StartWrite, FinishWrite, Cleanup, Phase, Value, agentVars
<1>6. ASSUME UNCHANGED <<callVars, given>> PROVE UNCHANGED AbstractCall!vars
  BY <1>6 DEF Phase, Value
<1>7. Answer = AbstractCall!Answer
  BY DEF Answer, Statuses, AbstractCall!Answer, AbstractCall!Statuses
<1> QED
  BY <1>1, <1>2, <1>3, <1>4, <1>5, <1>6, <1>7
  DEF Next, CallStep, LoopStep, HandlerStep, Quiet, Accept, Install, ReadError,
      MalformedFrame, Clear, ReadResponse, PeerGone, Lookup, Deliver, ReleaseConn,
      AbstractCall!Next, agentVars, vars

(* The client implements the promise to its callers: each call returns     *)
(* once, with an answer the agent gave to that call or with an error.      *)
THEOREM Refinement == Spec => ImplementsAgentCall
<1>1. Init => AbstractCall!Init /\ OutcomeMatchesPc
  BY DEF Init, AbstractCall!Init, Phase, Value, OutcomeMatchesPc
<1>2. IInv => TypeOK
  BY DEF IInv
<1> QED
  BY <1>1, <1>2, Invariance, NextOutcome, StepSimulation, PTL
  DEF Spec, ImplementsAgentCall, AbstractCall!Spec
=============================================================================
