----------------------------- MODULE GhostResync -----------------------------
(***************************************************************************)
(* The background resync of a login (pkg/connector/chatinfo.go, and        *)
(* startLoops and Disconnect of client.go).                                *)
(*                                                                         *)
(* Converting messages enqueues the ghosts and group portals they meet.    *)
(* A loop wakes up every few hours, takes the whole queue and fetches what *)
(* was not synced within resyncMinInterval.  Each Connect starts a loop    *)
(* and cancels the one before it; Disconnect cancels the last.  A          *)
(* cancelled loop finishes the batch it is at before it notices.           *)
(*                                                                         *)
(* A loop is a number.  Time is abstract: a timer may fire, and the week   *)
(* since a sync may be over, at any moment.                                *)
(***************************************************************************)
EXTENDS Naturals, FiniteSets

CONSTANTS
  Ghosts, Portals,  \* what may be resynced
  MaxLoops          \* bound: how many loops are ever started

ASSUME ResyncAssumption == Ghosts \cap Portals = {} /\ MaxLoops \in Nat

Items == Ghosts \cup Portals
Loops == 1..MaxLoops
NoLoop == 0

VARIABLES
  stopLoops,   \* the loop whose cancel function pc.stopLoops holds, or NoLoop
  loop,        \* loop[l]: where ghostResyncLoop is
  replaces,    \* replaces[l]: the loop that startLoops of l took out
  stopping,    \* the loops Disconnect took out and has not cancelled yet
  cancelled,   \* the loops whose context is cancelled
  timer,       \* timer[l]: of its time.Timer
  queue,       \* pc.resyncQueue
  batch,       \* batch[l]: what l took from the queue and has not handled
  fresh,       \* the items whose stored LastSync is within resyncMinInterval
  synced,      \* history: the items synced within resyncMinInterval
  loggedIn     \* pc.IsLoggedIn()

loopVars == <<stopLoops, replaces, stopping, cancelled>>
vars == <<loopVars, loop, timer, queue, batch, fresh, synced, loggedIn>>

Init ==
  /\ stopLoops = NoLoop /\ stopping = {} /\ cancelled = {}
  /\ loop = [l \in Loops |-> "none"]
  /\ replaces = [l \in Loops |-> NoLoop]
  /\ timer = [l \in Loops |-> "stopped"]
  /\ queue = {} /\ batch = [l \in Loops |-> {}]
  /\ fresh = {} /\ synced = {}
  /\ loggedIn = FALSE

-----------------------------------------------------------------------------
(* Connect and Disconnect *)

(* startLoops: the swap of pc.stopLoops ...                                *)
StartLoops(l) ==
  /\ loop[l] = "none" /\ \A k \in Loops : k < l => loop[k] # "none"
  /\ stopLoops' = l
  /\ replaces' = [replaces EXCEPT ![l] = stopLoops]
  /\ loop' = [loop EXCEPT ![l] = "created"]
  /\ UNCHANGED <<stopping, cancelled, timer, queue, batch, fresh, synced, loggedIn>>

(* Mutant: the old loop is not cancelled. *)
RunLoopOnly(l) ==
  /\ loop[l] = "created"
  /\ replaces' = [replaces EXCEPT ![l] = NoLoop]
  /\ loop' = [loop EXCEPT ![l] = "select"]
  /\ timer' = [timer EXCEPT ![l] = "running"]
  /\ UNCHANGED <<stopLoops, stopping, cancelled, queue, batch, fresh, synced, loggedIn>>

(* ... the cancel function of the old loop, and go ghostResyncLoop, which  *)
(* starts its timer.                                                       *)
RunLoop(l) ==
  /\ loop[l] = "created"
  /\ cancelled' = cancelled \cup ({replaces[l]} \ {NoLoop})
  /\ replaces' = [replaces EXCEPT ![l] = NoLoop]
  /\ loop' = [loop EXCEPT ![l] = "select"]
  /\ timer' = [timer EXCEPT ![l] = "running"]
  /\ UNCHANGED <<stopLoops, stopping, queue, batch, fresh, synced, loggedIn>>

(* Mutant: Disconnect forgets the loop. *)
DisconnectForgets ==
  /\ stopLoops # NoLoop
  /\ stopLoops' = NoLoop
  /\ UNCHANGED <<replaces, stopping, cancelled, loop, timer, queue, batch, fresh, synced, loggedIn>>

(* Disconnect: the swap with nil, ...                                      *)
Disconnect ==
  /\ stopLoops # NoLoop
  /\ stopping' = stopping \cup {stopLoops}
  /\ stopLoops' = NoLoop
  /\ UNCHANGED <<replaces, cancelled, loop, timer, queue, batch, fresh, synced, loggedIn>>

(* ... and the cancel function it got.                                     *)
CancelLoop(l) ==
  /\ l \in stopping
  /\ cancelled' = cancelled \cup {l}
  /\ stopping' = stopping \ {l}
  /\ UNCHANGED <<stopLoops, replaces, loop, timer, queue, batch, fresh, synced, loggedIn>>

-----------------------------------------------------------------------------
(* Messages *)

(* EnqueueGhostResync and EnqueuePortalResync.                             *)
Enqueue(x) ==
  /\ x \notin fresh
  /\ queue' = queue \cup {x}
  /\ UNCHANGED <<loopVars, loop, timer, batch, fresh, synced, loggedIn>>

-----------------------------------------------------------------------------
(* ghostResyncLoop *)

(* ctx.Done(); when the timer has fired too, select takes either.          *)
Stop(l) ==
  /\ loop[l] = "select" /\ l \in cancelled
  /\ loop' = [loop EXCEPT ![l] = "stopped"]
  /\ timer' = [timer EXCEPT ![l] = "stopped"]
  /\ UNCHANGED <<loopVars, queue, batch, fresh, synced, loggedIn>>

Fire(l) ==
  /\ timer[l] = "running"
  /\ timer' = [timer EXCEPT ![l] = "fired"]
  /\ UNCHANGED <<loopVars, loop, queue, batch, fresh, synced, loggedIn>>

(* Mutant: no timer.Reset. *)
RotateOnce(l) ==
  /\ loop[l] = "select" /\ timer[l] = "fired"
  /\ batch' = [batch EXCEPT ![l] = queue]
  /\ queue' = {}
  /\ timer' = [timer EXCEPT ![l] = "stopped"]
  /\ loop' = [loop EXCEPT ![l] = IF queue = {} THEN "select" ELSE "check"]
  /\ UNCHANGED <<loopVars, fresh, synced, loggedIn>>

(* rotateResyncQueue and timer.Reset.                                      *)
Rotate(l) ==
  /\ loop[l] = "select" /\ timer[l] = "fired"
  /\ batch' = [batch EXCEPT ![l] = queue]
  /\ queue' = {}
  /\ timer' = [timer EXCEPT ![l] = "running"]
  /\ loop' = [loop EXCEPT ![l] = IF queue = {} THEN "select" ELSE "check"]
  /\ UNCHANGED <<loopVars, fresh, synced, loggedIn>>

(* Mutant: the interval is checked on enqueuing only. *)
CheckLogin(l) ==
  /\ loop[l] = "check"
  /\ batch' = [batch EXCEPT ![l] = IF loggedIn THEN @ ELSE {}]
  /\ loop' = [loop EXCEPT ![l] = "sync"]
  /\ UNCHANGED <<loopVars, timer, queue, fresh, synced, loggedIn>>

(* The start of doGhostResync: without a login the batch is dropped, else  *)
(* what was synced too recently is.                                        *)
Check(l) ==
  /\ loop[l] = "check"
  /\ batch' = [batch EXCEPT ![l] = IF loggedIn THEN @ \ fresh ELSE {}]
  /\ loop' = [loop EXCEPT ![l] = "sync"]
  /\ UNCHANGED <<loopVars, timer, queue, fresh, synced, loggedIn>>

(* A portal is handed to the bridge as a ChatResync event, which fetches   *)
(* the chat and the member names.  Nothing sets the LastSync of a portal.  *)
SyncPortal(l, p) ==
  /\ loop[l] = "sync" /\ p \in batch[l] \cap Portals
  /\ batch' = [batch EXCEPT ![l] = @ \ {p}]
  /\ synced' = synced \cup {p}
  /\ UNCHANGED <<loopVars, loop, timer, queue, fresh, loggedIn>>

(* GetUserInfo is answered, and UpdateInfo runs updateGhostLastSyncAt; an  *)
(* error only skips the ghost.                                             *)
SyncGhost(l, g) ==
  /\ loop[l] = "sync" /\ batch[l] \cap Portals = {} /\ g \in batch[l]
  /\ batch' = [batch EXCEPT ![l] = @ \ {g}]
  /\ \/ fresh' = fresh \cup {g} /\ synced' = synced \cup {g}
     \/ UNCHANGED <<fresh, synced>>
  /\ UNCHANGED <<loopVars, loop, timer, queue, loggedIn>>

EndSync(l) ==
  /\ loop[l] = "sync" /\ batch[l] = {}
  /\ loop' = [loop EXCEPT ![l] = "select"]
  /\ UNCHANGED <<loopVars, timer, queue, batch, fresh, synced, loggedIn>>

-----------------------------------------------------------------------------
(* The environment *)

(* resyncMinInterval is over since x was last synced.                      *)
WeekPasses(x) ==
  /\ x \in synced
  /\ synced' = synced \ {x}
  /\ fresh' = fresh \ {x}
  /\ UNCHANGED <<loopVars, loop, timer, queue, batch, loggedIn>>

AgentComesOrGoes ==
  /\ loggedIn' = ~ loggedIn
  /\ UNCHANGED <<loopVars, loop, timer, queue, batch, fresh, synced>>

-----------------------------------------------------------------------------

Sync(l) ==
  \/ Check(l) \/ EndSync(l)
  \/ \E p \in Portals : SyncPortal(l, p)
  \/ \E g \in Ghosts : SyncGhost(l, g)

Next ==
  \/ Disconnect
  \/ \E l \in Loops : StartLoops(l) \/ RunLoop(l) \/ CancelLoop(l)
  \/ \E x \in Items : Enqueue(x) \/ WeekPasses(x)
  \/ \E l \in Loops : Stop(l) \/ Fire(l) \/ Rotate(l) \/ Sync(l)
  \/ AgentComesOrGoes

Spec == Init /\ [][Next]_vars

(* Calls of Connect and Disconnect go on, timers fire, and the requests of *)
(* a resync end (by their own timeout if need be).  Stop needs strong      *)
(* fairness: a select with two ready cases picks one at random, so it does *)
(* not take the timer for ever.                                            *)
FairSpec ==
  /\ Spec
  /\ \A l \in Loops :
       /\ WF_vars(RunLoop(l)) /\ WF_vars(CancelLoop(l))
       /\ WF_vars(Fire(l)) /\ WF_vars(Rotate(l)) /\ WF_vars(Sync(l))
       /\ SF_vars(Stop(l))

-----------------------------------------------------------------------------
(* Properties *)

(* The variables have their types; only a loop at work holds a batch.      *)
TypeOK ==
  /\ stopLoops \in Loops \cup {NoLoop} /\ stopping \subseteq Loops
  /\ cancelled \subseteq Loops /\ replaces \in [Loops -> Loops \cup {NoLoop}]
  /\ loop \in [Loops -> {"none", "created", "select", "check", "sync", "stopped"}]
  /\ timer \in [Loops -> {"stopped", "running", "fired"}]
  /\ queue \subseteq Items /\ batch \in [Loops -> SUBSET Items]
  /\ \A l \in Loops : batch[l] # {} => loop[l] \in {"check", "sync"}
  /\ fresh \subseteq synced /\ synced \subseteq Items /\ loggedIn \in BOOLEAN

(* However calls of Connect and Disconnect overlap, no loop gets away: one *)
(* that is not the current one is cancelled, or the call that took it out  *)
(* still holds its cancel function (the swaps in startLoops and            *)
(* Disconnect).                                                            *)
NoLoopGetsAway ==
  \A l \in Loops : loop[l] # "none" =>
    \/ l = stopLoops
    \/ l \in cancelled \cup stopping
    \/ \E k \in Loops : loop[k] = "created" /\ replaces[k] = l

(* A loop that was taken out ends, though it may be in the middle of a     *)
(* batch and its timer may keep firing.                                    *)
ReplacedLoopStops ==
  \A l \in Loops :
    loop[l] # "none" /\ l # stopLoops ~> loop[l] = "stopped"

(* As long as a login stays connected, what is enqueued is taken up: the   *)
(* timer of its loop is set again after every round.                       *)
EnqueuedIsTaken ==
  \A x \in Items, l \in Loops :
    x \in queue /\ stopLoops = l ~> x \notin queue \/ stopLoops # l

(* As long as the login was never reconnected, its loop does not fetch a   *)
(* ghost again within resyncMinInterval, although the ghost may be         *)
(* enqueued again while its batch is being handled (the second check, in   *)
(* doGhostResync).  A loop that was taken out and its successor may both   *)
(* fetch it.                                                               *)
OneLoopKeepsTheInterval ==
  \A l \in Loops :
    loop[l] = "sync" /\ (\A k \in Loops \ {l} : loop[k] = "none")
      => batch[l] \cap fresh \cap Ghosts = {}

(* What EnqueuePortalResync checks and the log line of doGhostResync says  *)
(* (chatinfo.go:281, "Not resyncing, last sync was too recent"): an item   *)
(* synced within resyncMinInterval is not synced again.  No code writes    *)
(* the LastSync of a portal, so every round syncs it again.                *)
PortalsKeepTheInterval ==
  [][\A l \in Loops, p \in Portals \cap synced : ~ SyncPortal(l, p)]_vars
=============================================================================
