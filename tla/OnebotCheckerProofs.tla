------------------------- MODULE OnebotCheckerProofs -------------------------
(***************************************************************************)
(* Proofs about OnebotChecker for every set of loops and checkers and any  *)
(* number of frames: the argument of client.go:125-126 that sending a      *)
(* status under the lock always has a receiver.                            *)
(***************************************************************************)
EXTENDS OnebotChecker, TLAPS

(* The checker that cancelChecker names was started and not cancelled. *)
CancellableCheckerRuns ==
  cancelChecker # NoChecker => /\ cancelChecker \notin cancelled
                               /\ checker[cancelChecker] \in {"select", "store"}

(* Only a cancelled checker stops, and only one that was started is        *)
(* cancelled; the lock is held by a loop only over its send.               *)
LifeCycle ==
  /\ \A g \in Checkers : checker[g] = "stopped" => g \in cancelled
  /\ \A g \in cancelled : checker[g] # "unborn"
  /\ \A l \in Loops : lock = l <=> loop[l] = "send"

IInv == /\ TypeOK
        /\ CancellableCheckerRuns
        /\ LifeCycle
        /\ SendHasReceiver
        /\ RunningCheckerIsCancellable

USE NamesAssumption, MaxFramesAssumption

(* The initial states satisfy the invariant. *)
LEMMA InitInv == Init => IInv
<1> SUFFICES ASSUME Init PROVE IInv
  OBVIOUS
<1>1. TypeOK
  <2>1. MaxFrames \in 0 .. MaxFrames
    OBVIOUS
  <2>2. FALSE \in BOOLEAN
    OBVIOUS
  <2>3. /\ storing \in [Checkers -> BOOLEAN]
        /\ online \in [Loops -> BOOLEAN]
        /\ isLoggedIn \in BOOLEAN
    BY <2>2, Zenon DEF Init
  <2> QED
    BY <2>1, <2>3 DEF Init, TypeOK
<1>2. CancellableCheckerRuns /\ LifeCycle
  BY DEF Init, CancellableCheckerRuns, LifeCycle
<1>3. SendHasReceiver /\ RunningCheckerIsCancellable
  BY DEF Init, SendHasReceiver, RunningCheckerIsCancellable
<1> QED
  BY <1>1, <1>2, <1>3 DEF IInv

(* Every step keeps the invariant. *)
LEMMA NextInv == IInv /\ [Next]_vars => IInv'
<1> SUFFICES ASSUME IInv, [Next]_vars PROVE IInv'
  OBVIOUS
<1> USE DEF IInv, TypeOK, CancellableCheckerRuns, LifeCycle, SendHasReceiver,
            RunningCheckerIsCancellable, checkerVars, loopVars
<1>1. ASSUME NEW l \in Loops, LifecycleConnect(l) PROVE IInv'
  BY <1>1 DEF LifecycleConnect
<1>2. ASSUME NEW l \in Loops, Heartbeat(l) PROVE IInv'
  BY <1>2 DEF Heartbeat
<1>3. ASSUME NEW l \in Loops, LockAndStart(l) PROVE IInv'
  <2>1. CASE cancelChecker # NoChecker
    BY <1>3, <2>1 DEF LockAndStart
  <2>2. CASE cancelChecker = NoChecker
    <3>1. PICK g \in Checkers : /\ checker[g] = "unborn"
                                /\ checker' = [checker EXCEPT ![g] = "select"]
                                /\ cancelChecker' = g
      BY <1>3, <2>2 DEF LockAndStart
    <3>2. g \notin cancelled
      BY <3>1
    <3> QED
      BY <1>3, <2>2, <3>1, <3>2 DEF LockAndStart
  <2> QED
    BY <2>1, <2>2
<1>4. ASSUME NEW l \in Loops, NEW g \in Checkers, Send(l, g) PROVE IInv'
  BY <1>4 DEF Send
<1>5. ASSUME NEW l \in Loops, EndLoop(l) PROVE IInv'
  BY <1>5 DEF EndLoop
<1>6. ASSUME NEW g \in Checkers, TimeAfter(g) PROVE IInv'
  BY <1>6 DEF TimeAfter
<1>7. ASSUME NEW g \in Checkers, Store(g) PROVE IInv'
  BY <1>7 DEF Store
<1>8. ASSUME NEW g \in Checkers, StopChecker(g) PROVE IInv'
  BY <1>8 DEF StopChecker
<1>9. CASE CancelChecker
  BY <1>9 DEF CancelChecker
<1>10. CASE UNCHANGED vars
  BY <1>10 DEF vars
<1> QED
  BY <1>1, <1>2, <1>3, <1>4, <1>5, <1>6, <1>7, <1>8, <1>9, <1>10 DEF Next, Quiet

(* The invariant of the checkers. *)
THEOREM Invariance == Spec => []IInv
  BY InitInv, NextInv, PTL DEF Spec

(* The variables keep their types, whatever loops and checkers do.         *)
THEOREM TypeCorrect == Spec => []TypeOK
<1>1. IInv => TypeOK
  BY DEF IInv
<1> QED
  BY <1>1, Invariance, PTL

(* A loop that sends a status under the lock always has a checker that was *)
(* not cancelled to take it, which is the claim of client.go:125-126.      *)
THEOREM SenderHasReceiver == Spec => []SendHasReceiver
<1>1. IInv => SendHasReceiver
  BY DEF IInv
<1> QED
  BY <1>1, Invariance, PTL

(* No checker runs that nothing can stop. *)
THEOREM RunningCheckersCancellable == Spec => []RunningCheckerIsCancellable
<1>1. IInv => RunningCheckerIsCancellable
  BY DEF IInv
<1> QED
  BY <1>1, Invariance, PTL
=============================================================================
