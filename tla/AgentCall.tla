----------------------------- MODULE AgentCall -----------------------------
(***************************************************************************)
(* What the OneBot client promises to a caller of its API, with no         *)
(* connection, lock, timer or channel in sight: a call is issued, the      *)
(* agent may serve it any number of times, and the call returns exactly    *)
(* once, either with one of the answers the agent gave to that very call   *)
(* or with an error.  OnebotRequest is shown to implement this module.     *)
(***************************************************************************)
EXTENDS Naturals

CONSTANTS Calls,        \* the calls of Client.request, one goroutine each
          MaxReplies    \* bound: how many answers the agent gives in all

Statuses == {"ok", "failed"}

(* An answer of the agent: the call it is for, the "status" field of the   *)
(* frame, and a number that tells it from the agent's other answers.       *)
Answer == [of : Calls, status : Statuses, serial : 1 .. MaxReplies]

VARIABLES phase,    \* phase[k]: "idle", "open", "data" or "error"
          served,   \* the answers the agent has given
          value     \* value[k]: {}, or the one answer that call k returned

vars == <<phase, served, value>>

Init == /\ phase = [k \in Calls |-> "idle"]
        /\ served = {}
        /\ value = [k \in Calls |-> {}]

Issue(k) == /\ phase[k] = "idle"
            /\ phase' = [phase EXCEPT ![k] = "open"]
            /\ UNCHANGED <<served, value>>

(* The agent answers a call that was issued; it does not know whether the  *)
(* caller still waits.                                                     *)
Serve(a) == /\ phase[a.of] # "idle"
            /\ a \notin served
            /\ served' = served \cup {a}
            /\ UNCHANGED <<phase, value>>

(* The call returns an answer of its own, as data only if its status is ok. *)
Return(k) == /\ phase[k] = "open"
             /\ \E a \in served :
                  /\ a.of = k
                  /\ value' = [value EXCEPT ![k] = {a}]
                  /\ phase' = [phase EXCEPT ![k] = IF a.status = "ok" THEN "data" ELSE "error"]
             /\ UNCHANGED served

(* The call returns an error without an answer. *)
Fail(k) == /\ phase[k] = "open"
           /\ phase' = [phase EXCEPT ![k] = "error"]
           /\ UNCHANGED <<served, value>>

Next == \/ \E k \in Calls : Issue(k) \/ Return(k) \/ Fail(k)
        \/ \E a \in Answer : Serve(a)

Spec == Init /\ [][Next]_vars
=============================================================================
