-------------------------- MODULE GhostResyncProofs --------------------------
(***************************************************************************)
(* Proofs about GhostResync, for any number of loops, ghosts and portals:  *)
(* its variables keep their types, no resync loop gets away, and a loop    *)
(* that is alone keeps the interval.                                       *)
(***************************************************************************)
EXTENDS GhostResync, TLAPS

LEMMA LoopsAreNumbers == NoLoop \notin Loops /\ Loops \subseteq Nat
  BY ResyncAssumption DEF Loops, NoLoop

(* Every step keeps the types. *)
LEMMA NextTypeOK == TypeOK /\ [Next]_vars => TypeOK'
<1> SUFFICES ASSUME TypeOK, [Next]_vars PROVE TypeOK'
  OBVIOUS
<1> USE DEF TypeOK, loopVars
<1>1. CASE Disconnect
  BY <1>1 DEF Disconnect
<1>2. ASSUME NEW l \in Loops, StartLoops(l) \/ RunLoop(l) \/ CancelLoop(l) PROVE TypeOK'
  BY <1>2 DEF StartLoops, RunLoop, CancelLoop
<1>3. ASSUME NEW x \in Items, Enqueue(x) \/ WeekPasses(x) PROVE TypeOK'
  BY <1>3 DEF Enqueue, WeekPasses
<1>4. ASSUME NEW l \in Loops, Stop(l) \/ Fire(l) PROVE TypeOK'
  BY <1>4 DEF Stop, Fire
<1>5. ASSUME NEW l \in Loops, Rotate(l) PROVE TypeOK'
  BY <1>5 DEF Rotate
<1>6. ASSUME NEW l \in Loops, Check(l) \/ EndSync(l) PROVE TypeOK'
  BY <1>6 DEF Check, EndSync
<1>7. ASSUME NEW l \in Loops, NEW p \in Portals, SyncPortal(l, p) PROVE TypeOK'
  BY <1>7 DEF SyncPortal, Items
<1>8. ASSUME NEW l \in Loops, NEW g \in Ghosts, SyncGhost(l, g) PROVE TypeOK'
  BY <1>8 DEF SyncGhost, Items
<1>9. CASE AgentComesOrGoes
  <2>1. loggedIn' \in BOOLEAN
    BY <1>9 DEF AgentComesOrGoes
  <2> QED
    BY <1>9, <2>1 DEF AgentComesOrGoes
<1>10. CASE UNCHANGED vars
  BY <1>10 DEF vars
<1> QED
  BY <1>1, <1>2, <1>3, <1>4, <1>5, <1>6, <1>7, <1>8, <1>9, <1>10 DEF Next, Sync

(* Only a loop at work holds a batch, and the rest of the typing. *)
THEOREM TypeCorrect == Spec => []TypeOK
<1>1. Init => TypeOK
  BY DEF Init, TypeOK
<1> QED
  BY <1>1, NextTypeOK, PTL DEF Spec

-----------------------------------------------------------------------------
(* Every step keeps each loop current, cancelled, or in the hands of the   *)
(* call that will cancel it.                                               *)
LEMMA NextNoLoopGetsAway == TypeOK /\ NoLoopGetsAway /\ [Next]_vars => NoLoopGetsAway'
<1> SUFFICES ASSUME TypeOK, NoLoopGetsAway, [Next]_vars PROVE NoLoopGetsAway'
  OBVIOUS
<1> USE DEF TypeOK, NoLoopGetsAway, loopVars
<1>1. CASE Disconnect
  BY <1>1 DEF Disconnect
<1>2. ASSUME NEW l \in Loops, StartLoops(l) PROVE NoLoopGetsAway'
  BY <1>2 DEF StartLoops
<1>3. ASSUME NEW l \in Loops, RunLoop(l) PROVE NoLoopGetsAway'
  <2> SUFFICES ASSUME NEW m \in Loops, loop[m] # "none", m # stopLoops,
                      m \notin cancelled \cup stopping, m # replaces[l]
               PROVE \E k \in Loops : loop'[k] = "created" /\ replaces'[k] = m
    BY <1>3, LoopsAreNumbers DEF RunLoop
  <2>1. PICK k \in Loops : loop[k] = "created" /\ replaces[k] = m
    OBVIOUS
  <2>2. loop'[k] = "created" /\ replaces'[k] = m
    BY <1>3, <2>1 DEF RunLoop
  <2> QED
    BY <2>2
<1>4. ASSUME NEW l \in Loops, CancelLoop(l) PROVE NoLoopGetsAway'
  BY <1>4 DEF CancelLoop
<1>5. ASSUME NEW l \in Loops, Stop(l) \/ Rotate(l) \/ Check(l) \/ EndSync(l)
      PROVE NoLoopGetsAway'
  <2>1. /\ loop[l] # "none" /\ loop[l] # "created"
        /\ \A k \in Loops \ {l} : loop'[k] = loop[k]
        /\ UNCHANGED loopVars
    BY <1>5 DEF Stop, Rotate, Check, EndSync
  <2> QED
    BY <2>1
<1>6. CASE UNCHANGED <<loop, loopVars>>
  BY <1>6
<1> QED
  BY <1>1, <1>2, <1>3, <1>4, <1>5, <1>6
  DEF Next, Sync, Enqueue, WeekPasses, Fire, SyncPortal, SyncGhost, AgentComesOrGoes, vars

(* However calls of Connect and Disconnect overlap, every loop but the     *)
(* current one is cancelled or about to be (startLoops, Disconnect).       *)
THEOREM LoopsAreCancelled == Spec => []NoLoopGetsAway
<1>1. Init => TypeOK /\ NoLoopGetsAway
  BY DEF Init, TypeOK, NoLoopGetsAway
<1>2. TypeOK /\ NoLoopGetsAway /\ [Next]_vars => (TypeOK /\ NoLoopGetsAway)'
  BY NextTypeOK, NextNoLoopGetsAway
<1> QED
  BY <1>1, <1>2, PTL DEF Spec

-----------------------------------------------------------------------------
(* Every step keeps the interval of a loop that is alone.  A loop that     *)
(* ever ran is never "none" again, so the loop alone after a step was      *)
(* alone before it; its Check takes what is fresh out of the batch, and    *)
(* what SyncGhost makes fresh is no longer in the batch.                   *)
LEMMA NextKeepsTheInterval ==
  TypeOK /\ OneLoopKeepsTheInterval /\ [Next]_vars => OneLoopKeepsTheInterval'
<1> SUFFICES ASSUME TypeOK, OneLoopKeepsTheInterval, [Next]_vars,
                    NEW l \in Loops, loop'[l] = "sync",
                    \A k \in Loops \ {l} : loop'[k] = "none"
             PROVE  batch'[l] \cap fresh' \cap Ghosts = {}
  BY DEF OneLoopKeepsTheInterval
<1> USE DEF TypeOK, loopVars
<1>1. \A k \in Loops : loop'[k] = "none" => loop[k] = "none"
  <2>1. ASSUME NEW k \in Loops, StartLoops(k) \/ RunLoop(k) \/ Stop(k) \/ Rotate(k)
                                 \/ Check(k) \/ EndSync(k)
        PROVE  \A m \in Loops : loop'[m] = "none" => loop[m] = "none"
    BY <2>1 DEF StartLoops, RunLoop, Stop, Rotate, Check, EndSync
  <2>2. CASE UNCHANGED loop
    BY <2>2
  <2> QED
    BY <2>1, <2>2
    DEF Next, Sync, Disconnect, CancelLoop, Enqueue, WeekPasses, Fire, SyncPortal, SyncGhost,
        AgentComesOrGoes, vars
<1>2. \A k \in Loops \ {l} : loop[k] = "none"
  BY <1>1
<1>3. loop[l] = "sync" => batch[l] \cap fresh \cap Ghosts = {}
  BY <1>2 DEF OneLoopKeepsTheInterval
<1>4. CASE Check(l)
  BY <1>4 DEF Check
<1>5. ASSUME NEW p \in Portals, SyncPortal(l, p) PROVE batch'[l] \cap fresh' \cap Ghosts = {}
  BY <1>3, <1>5 DEF SyncPortal
<1>6. ASSUME NEW g \in Ghosts, SyncGhost(l, g) PROVE batch'[l] \cap fresh' \cap Ghosts = {}
  BY <1>3, <1>6 DEF SyncGhost
<1>7. ASSUME NEW x \in Items, WeekPasses(x) PROVE batch'[l] \cap fresh' \cap Ghosts = {}
  BY <1>3, <1>7 DEF WeekPasses
<1>8. ASSUME loop[l] = "sync", batch'[l] = batch[l], fresh' = fresh
      PROVE  batch'[l] \cap fresh' \cap Ghosts = {}
  BY <1>3, <1>8
<1>9. ASSUME NEW k \in Loops, StartLoops(k) \/ RunLoop(k) \/ Stop(k) \/ Rotate(k) \/ EndSync(k)
      PROVE  FALSE
  <2>1. loop'[k] # "none" /\ loop'[k] # "sync"
    BY <1>9 DEF StartLoops, RunLoop, Stop, Rotate, EndSync
  <2> QED
    BY <2>1
<1>10. ASSUME NEW k \in Loops \ {l}, Check(k) \/ (\E p \in Portals : SyncPortal(k, p))
                                      \/ (\E g \in Ghosts : SyncGhost(k, g))
       PROVE  FALSE
  BY <1>2, <1>10 DEF Check, SyncPortal, SyncGhost
<1>11. CASE UNCHANGED <<loop, batch, fresh>>
  BY <1>8, <1>11
<1> QED
  BY <1>4, <1>5, <1>6, <1>7, <1>9, <1>10, <1>11
  DEF Next, Sync, Disconnect, CancelLoop, Enqueue, Fire, AgentComesOrGoes, vars

(* As long as the login was never reconnected, no ghost is fetched again   *)
(* within resyncMinInterval, though it may be enqueued again while its     *)
(* batch is being handled (the second check, in doGhostResync).            *)
THEOREM TheIntervalIsKept == Spec => []OneLoopKeepsTheInterval
<1>1. Init => TypeOK /\ OneLoopKeepsTheInterval
  BY DEF Init, TypeOK, OneLoopKeepsTheInterval
<1>2. TypeOK /\ OneLoopKeepsTheInterval /\ [Next]_vars => (TypeOK /\ OneLoopKeepsTheInterval)'
  BY NextTypeOK, NextKeepsTheInterval
<1> QED
  BY <1>1, <1>2, PTL DEF Spec
=============================================================================
