--------------------------- MODULE OnebotChecker ---------------------------
(***************************************************************************)
(* The login status of one onebot.Client (pkg/onebot/client.go): the read  *)
(* loops that handle lifecycle and heartbeat events, the checker goroutine *)
(* that a heartbeat starts, and the part of Release that cancels it.       *)
(*                                                                         *)
(* A heartbeat is handed to a checker over statusChannel, which has no     *)
(* buffer, by a loop that holds cancelCheckerLock until it is taken.  A    *)
(* cancelled checker still takes statuses until its select picks ctx.Done, *)
(* and any checker on the channel may take the status of any loop.         *)
(*                                                                         *)
(* Time is not modelled: the timer of a checker may fire whenever the      *)
(* checker is in its select.  Which sockets are open is OnebotRequest's    *)
(* concern; here a loop that has not ended may always read another frame,  *)
(* as it may after Release, from what was buffered.                        *)
(***************************************************************************)
EXTENDS Naturals

CONSTANTS Loops,       \* the StartLoop goroutines of the client
          Checkers,    \* the checker goroutines; bounds how many are started
          NoLoop,      \* cancelCheckerLock is free
          NoChecker,   \* Client.cancelChecker == nil
          MaxFrames    \* bound: the meta events each loop handles

ASSUME NamesAssumption == NoLoop \notin Loops /\ NoChecker \notin Checkers
ASSUME MaxFramesAssumption == MaxFrames \in Nat

VARIABLES
  isLoggedIn,     \* Client.isLoggedIn
  lock,           \* the loop that holds cancelCheckerLock over its send
  cancelChecker,  \* the checker that Client.cancelChecker cancels
  cancelled,      \* the checkers whose context is cancelled
  checker,        \* checker[g]: "unborn", "select", "store" or "stopped"
  storing,        \* storing[g]: what checker g is about to store
  loop,           \* loop[l]: "read", "lock", "send" or "done"
  online,         \* online[l]: Status.Online of the heartbeat l handles
  left            \* left[l]: how many more meta events l handles

checkerVars == <<checker, storing, cancelled>>
loopVars    == <<loop, online, left>>
vars == <<isLoggedIn, lock, cancelChecker, cancelled, checker, storing,
          loop, online, left>>

Init == /\ isLoggedIn = FALSE
        /\ lock = NoLoop
        /\ cancelChecker = NoChecker
        /\ cancelled = {}
        /\ checker = [g \in Checkers |-> "unborn"]
        /\ storing = [g \in Checkers |-> FALSE]
        /\ loop = [l \in Loops |-> "read"]
        /\ online = [l \in Loops |-> FALSE]
        /\ left = [l \in Loops |-> MaxFrames]

-----------------------------------------------------------------------------
(* StartLoop *)

(* A lifecycle event of sub type "connect". *)
LifecycleConnect(l) ==
  /\ loop[l] = "read" /\ left[l] > 0
  /\ isLoggedIn' = TRUE
  /\ left' = [left EXCEPT ![l] = @ - 1]
  /\ UNCHANGED <<lock, cancelChecker, checkerVars, loop, online>>

(* A heartbeat event is read ... *)
Heartbeat(l) ==
  /\ loop[l] = "read" /\ left[l] > 0
  /\ \E s \in BOOLEAN : online' = [online EXCEPT ![l] = s]
  /\ left' = [left EXCEPT ![l] = @ - 1]
  /\ loop' = [loop EXCEPT ![l] = "lock"]
  /\ UNCHANGED <<isLoggedIn, lock, cancelChecker, checkerVars>>

(* ... and under cancelCheckerLock a checker is started if there is none   *)
(* to cancel.  The lock is kept for the send.                              *)
LockAndStart(l) ==
  /\ loop[l] = "lock" /\ lock = NoLoop
  /\ lock' = l
  /\ \/ /\ cancelChecker # NoChecker
        /\ UNCHANGED <<checker, cancelChecker>>
     \/ /\ cancelChecker = NoChecker
        /\ \E g \in Checkers : /\ checker[g] = "unborn"
                               /\ checker' = [checker EXCEPT ![g] = "select"]
                               /\ cancelChecker' = g
  /\ loop' = [loop EXCEPT ![l] = "send"]
  /\ UNCHANGED <<isLoggedIn, cancelled, storing, online, left>>

(* The status passes from the loop to a checker in its select; the loop    *)
(* releases the lock and reads on.                                         *)
Send(l, g) ==
  /\ loop[l] = "send" /\ lock = l
  /\ checker[g] = "select"
  /\ checker' = [checker EXCEPT ![g] = "store"]
  /\ storing' = [storing EXCEPT ![g] = online[l]]
  /\ lock' = NoLoop
  /\ loop' = [loop EXCEPT ![l] = "read"]
  /\ UNCHANGED <<isLoggedIn, cancelChecker, cancelled, online, left>>

(* The read fails, or the frame is not JSON. *)
EndLoop(l) ==
  /\ loop[l] = "read"
  /\ loop' = [loop EXCEPT ![l] = "done"]
  /\ UNCHANGED <<isLoggedIn, lock, cancelChecker, checkerVars, online, left>>

-----------------------------------------------------------------------------
(* The checker goroutine of startChecker. *)

(* Mutant: the timer leaves the status as it is. *)
TimeAfterIgnored(g) ==
  /\ checker[g] = "select"
  /\ checker' = [checker EXCEPT ![g] = "store"]
  /\ storing' = [storing EXCEPT ![g] = isLoggedIn]
  /\ UNCHANGED <<isLoggedIn, lock, cancelChecker, cancelled, loopVars>>

(* time.After(checkInterval) fires before a status comes. *)
TimeAfter(g) ==
  /\ checker[g] = "select"
  /\ checker' = [checker EXCEPT ![g] = "store"]
  /\ storing' = [storing EXCEPT ![g] = FALSE]
  /\ UNCHANGED <<isLoggedIn, lock, cancelChecker, cancelled, loopVars>>

(* isLoggedIn.Store, and back to the select. *)
Store(g) ==
  /\ checker[g] = "store"
  /\ isLoggedIn' = storing[g]
  /\ checker' = [checker EXCEPT ![g] = "select"]
  /\ UNCHANGED <<lock, cancelChecker, storing, cancelled, loopVars>>

(* Mutant: the select has no ctx.Done case. *)
StopNever(g) == FALSE /\ UNCHANGED vars

(* ctx.Done *)
StopChecker(g) ==
  /\ checker[g] = "select" /\ g \in cancelled
  /\ checker' = [checker EXCEPT ![g] = "stopped"]
  /\ UNCHANGED <<isLoggedIn, lock, cancelChecker, storing, cancelled, loopVars>>

-----------------------------------------------------------------------------
(* Mutant: Release does not take cancelCheckerLock. *)
CancelUnlocked ==
  /\ cancelChecker # NoChecker
  /\ \E g \in Checkers : checker[g] = "unborn"
  /\ cancelled' = cancelled \cup {cancelChecker}
  /\ cancelChecker' = NoChecker
  /\ UNCHANGED <<isLoggedIn, lock, checker, storing, loopVars>>

(* Mutant: Release forgets the checker without cancelling it. *)
CancelForgotten ==
  /\ lock = NoLoop
  /\ cancelChecker # NoChecker
  /\ \E g \in Checkers : checker[g] = "unborn"
  /\ cancelChecker' = NoChecker
  /\ UNCHANGED <<isLoggedIn, lock, cancelled, checker, storing, loopVars>>

(* The checker part of Release.  (Bound: the last checker is not released, *)
(* so that a later heartbeat finds one to start.)                          *)
CancelChecker ==
  /\ lock = NoLoop
  /\ cancelChecker # NoChecker
  /\ \E g \in Checkers : checker[g] = "unborn"
  /\ cancelled' = cancelled \cup {cancelChecker}
  /\ cancelChecker' = NoChecker
  /\ UNCHANGED <<isLoggedIn, lock, checker, storing, loopVars>>

-----------------------------------------------------------------------------
(* Every loop has ended and no checker runs. *)
Quiet == /\ \A l \in Loops : loop[l] = "done"
         /\ \A g \in Checkers : checker[g] \in {"unborn", "stopped"}
         /\ UNCHANGED vars

Next == \/ \E l \in Loops : \/ LifecycleConnect(l) \/ Heartbeat(l)
                            \/ LockAndStart(l) \/ EndLoop(l)
                            \/ \E g \in Checkers : Send(l, g)
        \/ \E g \in Checkers : TimeAfter(g) \/ Store(g) \/ StopChecker(g)
        \/ CancelChecker
        \/ Quiet

Spec == Init /\ [][Next]_vars

(* The goroutines are scheduled and timers fire (weak).  The mutex is      *)
(* handed to a waiter in the end, and a select that is reached again and   *)
(* again with a case ready takes that case in the end, since Go draws      *)
(* among the ready cases at random (strong).  Nothing is assumed of the    *)
(* agent or of Release.                                                    *)
Fairness ==
  /\ \A l \in Loops : /\ SF_vars(LockAndStart(l))
                      /\ SF_vars(\E g \in Checkers : Send(l, g))
  /\ \A g \in Checkers : /\ WF_vars(TimeAfter(g))
                         /\ WF_vars(Store(g))
                         /\ SF_vars(StopChecker(g))

FairSpec == Spec /\ Fairness
-----------------------------------------------------------------------------
(* Every variable has its type. *)
TypeOK ==
  /\ isLoggedIn \in BOOLEAN
  /\ lock \in Loops \cup {NoLoop}
  /\ cancelChecker \in Checkers \cup {NoChecker}
  /\ cancelled \in SUBSET Checkers
  /\ checker \in [Checkers -> {"unborn", "select", "store", "stopped"}]
  /\ storing \in [Checkers -> BOOLEAN]
  /\ loop \in [Loops -> {"read", "lock", "send", "done"}]
  /\ online \in [Loops -> BOOLEAN]
  /\ left \in [Loops -> 0 .. MaxFrames]

(* The claim of client.go:125-126: the loop that sends a status holds the  *)
(* lock Release needs, so the checker it sends to is alive and will not    *)
(* be cancelled before it has the status.                                  *)
SendHasReceiver ==
  \A l \in Loops : loop[l] = "send" =>
    /\ lock = l
    /\ cancelChecker \in Checkers \ cancelled
    /\ checker[cancelChecker] \in {"select", "store"}

(* Every checker that runs and was not cancelled is the one Release would  *)
(* cancel: two heartbeats never leave a checker behind that nothing can    *)
(* stop (client.go:121-124, 141-146).                                      *)
RunningCheckerIsCancellable ==
  \A g \in Checkers : checker[g] \in {"select", "store"} /\ g \notin cancelled
                        => cancelChecker = g

(* A heartbeat is handled in the end, whatever the checkers and Release    *)
(* are doing: the send under the lock does not block the read loop for     *)
(* ever (client.go:119-128).                                               *)
HeartbeatHandled ==
  \A l \in Loops : loop[l] = "lock" ~> loop[l] = "read"

(* A checker that was cancelled stops, also while heartbeats keep coming   *)
(* for its successor (client.go:141-146, 171-181).                         *)
CancelledCheckerStops ==
  \A g \in Checkers : g \in cancelled ~> checker[g] = "stopped"

(* When the loops have ended and the checker was not cancelled, the client *)
(* is logged out in the end and stays so: a broken connection does not     *)
(* leave a client that says it is logged in, also when a cancelled checker *)
(* still has a status to store (client.go:173-176).                        *)
SilenceLogsOut ==
  (cancelChecker # NoChecker /\ \A l \in Loops : loop[l] = "done")
    ~> ([](~isLoggedIn) \/ cancelChecker = NoChecker)
=============================================================================
