# A TLA+ verification project for matrix-pylon

matrix-pylon bridges Matrix rooms and OneBot chats. An *agent* (NapCat,
LLOneBot, ...) connects to the bridge over a WebSocket, reports what happens in
the chats of one account, and serves requests. The bridge is a connector for
the `bridgev2` library of mautrix-go. That library keeps the rooms and the
database, and calls the connector; here it is external, modelled from how the
connector uses it.

Contents: [the system](#the-system), [modules](#the-modules),
[runs](#the-runs), [bounds](#bounds), [fairness](#fairness),
[proofs](#what-is-proved), [findings](#findings),
[what is not modelled](#what-is-not-modelled), [plan](#plan).

## The system

### Inventory

| Part | State it keeps | Operations | Correct when |
|---|---|---|---|
| OneBot client, requests (`pkg/onebot/client.go`) | `conn`, `connLock`, `websocketRequests`, `websocketRequestID`, a response channel per call | `request`, `handleResponse`, `StartLoop`, `updateConnection`, `Release` | a call gets its own answer or an error, once; no waiter leaks; one live connection |
| OneBot client, status (`client.go`) | `isLoggedIn`, `cancelChecker`, `statusChannel` | lifecycle and heartbeat events, `startChecker`, `Release` | a heartbeat never blocks the read loop; no checker escapes `Release`; silence logs out |
| OneBot service (`service.go`) | `clients`: token to client | `NewClient`, `ServeHTTP`, `removeClient`, `Start`, `Stop` | an agent reaches the client of its token and of its account only |
| Login (`connector/login.go`, `connector.go`, `client.go`) | the login's client, the user's client, the saved rows | `TokenLogin.Start`, `Wait`, `Cancel`, `LoadUserLogin`, `Connect`, `LogoutRemote` | a login that completed stays reachable, also beside another login of its account; a saved one comes back after a crash |
| Messages from OneBot (`connector/handle_onebot.go`, `pkg/ids`, `msgconv/from_onebot.go`) | the rows of the bridge | `handleOnebotEvent`, `OnebotMessageEvent`, `OnebotToMatrix` | each message is shown once, in its room, replying to what it replied to |
| Media and segments (`onebot/protocol.go`, `api.go`, `msgconv/segrender.go`, `from_onebot.go`, `from_onebot_forward_msg.go`, `util.go`) | one conversion | `generateSegments`, `DownloadMedia`, `reploadAttachment`, `renderSegment`, the assembly of a message or an item | bad data costs itself only; no segment vanishes; media are given up last |
| Messages to OneBot (`connector/handle_matrix.go`, `msgconv/to_onebot.go`) | none | `HandleMatrixMessage`, `HandleMatrixMessageRemove` | requests go to the right chat and name the right message |
| Forwarded messages (`msgconv/from_onebot_forward_msg.go`, `segrender.go`, `DownloadForwardMsg`) | one conversion: semaphore, results, parts | `flattenForward`, `convertMessageItem`, `convertForwardMessage` | all parts, in order, threaded; nothing left running |
| Background resync (`connector/chatinfo.go`, `client.go`) | `resyncQueue`, `stopLoops`, one goroutine per `Connect` | `startLoops`, `Disconnect`, `EnqueueGhostResync`, `EnqueuePortalResync`, `ghostResyncLoop`, `doGhostResync` | no loop outlives its login; the queue is taken up; not too often |
| Chat and group room (`connector/chatinfo.go`, `handle_onebot.go`) | the room and the names of its members, kept by the bridge | `getGroupChatInfo`, `wrapAvatar`, `updateMemberDisplayname`, the post handler | the room follows the group, though several requests describe it and its avatar is a download |
| Container entrypoint (`internal/entrypoint`) | files, directory, user of a container | `Handle` and its steps | an unprivileged bridge over files of its own, but for what failed; no edit overwritten, but while the config is rewritten |
| Direct chat info, mentions, emoji, configuration | none | sequential functions | see [what is not modelled](#what-is-not-modelled) |

### How the parts interact

`ServeHTTP` finds a client by its token, upgrades the request to a WebSocket and
starts the client's read loop in a goroutine of its own (`service.go:114`). The
read loop starts a goroutine for each response
(`handleResponse`) and for each event (`handleOnebotEvent`), and handles
heartbeats itself. Event goroutines put messages into the queue of their
portal; the portal converts one message at a time, which calls `request` and
may start eight goroutines for a forward. Matrix messages enter through the
same portal queue and call `request`. Conversions also fill the resync queue
that a loop per login empties; what the loop takes comes back to the portal as a
resync, which asks the agent for the group, its members, and the members again
for their names. The login flow owns a client of its own until
the agent has named its account; then it releases it and the bridge makes the
user's client, under the same token. The row of a login is keyed by its account:
a second login of the account, under another token, takes the row of the first
over, whose client lives on until it is disconnected or the process ends. When
the bridge ends, `Service.Stop`
releases every client that is registered.

### Hard behaviours

- Responses that are late, repeated or reordered, against deadlines and
  failing writes; two sockets of one agent replacing each other.
- An unbuffered channel sent to under a lock that `Release` needs.
- The hand-over of a token between two clients, while agents connect, a user
  cancels, and the process dies; and that of an account's row between two tokens.
- The agent's report of a message the bridge itself sent, racing the answer to
  the request; a send that fails for the bridge and succeeds in the chat.
- Goroutines of a forward that fail, or end in any order.
- A group that changes between the requests that describe it, and a bridge that
  learns of it only when somebody writes.
- An unlocked iteration over the clients while logins and sockets come and go.
- Media with several sources, each of which may fail or answer nonsense.
- Overlapping `Connect` and `Disconnect`.
- A bootstrap that is killed between any two steps, over files that an
  administrator edits and it rewrites itself, and that goes on when a call fails.

`PROJECT.json` lists each hazard with its line and the properties aimed at it.

## The modules

| Module | Models | State and actions |
|---|---|---|
| `AgentCall` | the promise of the client to its callers | a call is issued, the agent serves it any number of times, it returns once, with data only from an answer that was given to it |
| `OnebotRequest` | requests and the connection | the fields of `Client`, one program counter per call and per read loop, the set of `handleResponse` goroutines; `connLock` is a variable, since it is held over a network write; critical sections that only touch memory are one step. Instantiates `AgentCall` as `AbstractCall` |
| `OnebotRequestProofs` | its theorems | |
| `OnebotChecker` | the status checker | `isLoggedIn`, the lock, the checkers; the hand-over of a status over the unbuffered channel is one joint step of a loop and a checker |
| `OnebotCheckerProofs` | its theorems | |
| `OnebotService` | the registry, for any clients | `NewClient`, the steps of `ServeHTTP`, `Release` in two steps, and `Stop`, which visits the clients one by one while all else goes on, as operators that `TokenLogin` composes |
| `TokenLogin` | logging in and out over the registry (EXTENDS `OnebotService`) | where `Wait`, `Cancel` and `LogoutRemote` of each token are; the rows, one for an account, as the tokens in them; `Stop` is called when the bridge ends; `Crash` loses the memory and keeps the rows |
| `TokenLoginProofs` | its theorems | |
| `RoomFeed` | the promise of the bridge to the people in its rooms | messages are written, rooms show each of them and each recall once, what is written in a room becomes at most one message, and senders may be left without a confirmation |
| `MessageBridge` | messages, replies and recalls in both directions | the chats, the reports under way, the rooms and the message table; `HandleMatrixMessage` is three steps, so that the agent's report may come before the answer; `Restart` loses what is under way and keeps the rows. Instantiates `RoomFeed` as `Feed`: `Written` is the chat of each message, `RoomEvents` what each event shows and in which chat |
| `MessageBridgeProofs` | its theorems | |
| `MediaMessage` | the segments of one message | the decoded segments, what each was rendered to, and the steps of `DownloadMedia`; `Shown` is what the converted message shows of each |
| `ForwardMessage` | one message with forwards | the segment walk, the download with its retries, `flattenForward` as a recursive function, the goroutines and the semaphore, the merge, and the rows, each insertion of which may fail |
| `ConversionProofs` | theorems about both: they flatten lists in the same way | |
| `GhostResync` | the background resync | `stopLoops`, the loops with their timers and batches, the queue. Swapping the cancel function and calling it are two steps |
| `GhostResyncProofs` | its theorems | |
| `GroupRoom` | the room of a group | the group as the agent would describe it, the room, the names shown, and the event the portal is handling; each request is a step, and the group may change before the next; the download of the avatar is part of the step that makes the room, and may fail or bring an error page |
| `GroupRoomProofs` | its theorems | |
| `Entrypoint` | the container entrypoint | where `Handle` is, the directory, the paths, the files with their owner, what the config has in it, the user and group; one action per step of `Handle`, three for the rewriting of the config, each of which may fail where the code ignores the error |
| `EntrypointProofs` | its theorems | |
| `MC...` | instances for TLC | |

`OnebotRequest` and `OnebotChecker` split one `Client` along its two locks: the
first leaves out frames that are not responses, the second which socket is
open. `OnebotService` models the same read loop a third time, at the grain of
the registry (install, read, clear), because `TokenLogin` needs many clients
and no calls. `GhostResync` ends where a resync is queued at a portal, and
`GroupRoom` begins there. `ForwardMessage` has the parts of one message, and
`MediaMessage` what becomes of the segments of one part; `MessageBridge` has
neither and counts a message as one event.

An operator that starts with "Mutant:" in its comment is a variant of the
definition after it with a plausible bug; nothing uses it but the mutation
check, which shows that the properties would notice.

## The runs

| Run | Question | Result |
|---|---|---|
| `request_safety` | Do responses reach their calls, do waiters leak, do connections replace each other cleanly, does the client implement `AgentCall`? | holds; deadlock is checked too |
| `request_liveness` | Does every call return, and does the loop of a replaced connection end? | holds |
| `checker` | Does the send under the lock always have a receiver, does a checker escape `Release`, does silence log out? | holds; deadlock is checked too |
| `token_login` | Is a completed login reachable, by agents of its own account only, also after crashes, and when another token logs the same account in? Is what was released, by `Wait`, a logout or `Stop`, gone? | holds, but for a `Cancel` that overlaps `Wait`, or takes a client away from `Stop` |
| `messages` | Does the bridge implement `RoomFeed`, do chats with equal numbers stay apart, do replies, recalls and deletions keep their target? | holds; a second copy appears only after a send that failed for Matrix, or was cut short, and succeeded in the chat |
| `media` | Does bad data cost itself only, does every segment leave a trace, are media given up only when no source is left? | holds, within the limits stated at `NothingVanishes` and `FallbacksAreTried` |
| `forward` | Are the parts of forwards complete, in order and threaded, is the message shown, are its events found again, does an ID go on leading to its event, does each step leave less to do, and does the conversion end? | holds, within the limits stated at `EventsHaveRows`; an event whose own row cannot be written has none |
| `forward_root` | Does the root sort before the other parts, as its comment says? | violated |
| `resync` | Does a loop get away from its `Disconnect`, is the queue taken up, does one loop keep the interval for ghosts? | holds; deadlock is checked too |
| `resync_portals` | Is the interval kept for portals? | violated |
| `group_room` | Is the room as one round of requests saw the group, and does it end up like the group? | holds; the avatar only with agents whose URLs tell pictures apart, and unless an error page was taken for it; deadlock is checked too |
| `entrypoint` | Does the bridge end up unprivileged over files of its own, do edits survive restarts, does the wait for a usable config end? | holds, but for what `fixPerms` of that start tried in vain, and for edits that meet the rewriting of the config |

Deadlock is not checked where the system really stops: `token_login` (all
logins decided, sockets used up), `messages` (the bounds used up), `forward`
and `media` (the message is converted), and `entrypoint` (the bridge runs, no
start left).

Every module has its types as a theorem. Where a type invariant says something
of the code as well (the semaphore of `ForwardMessage`, the stages of
`TokenLogin`, the rows of `MessageBridge`) it is an invariant of the run too.

## Bounds

- `OnebotRequest`: two calls, two sockets, two answers. Two calls are what it
  takes to mistake one for the other, two sockets to replace one; two answers
  allow a repetition or one for each call. The liveness run has one answer.
  The calls and the sockets are symmetric in the safety run, where no property
  is a liveness property.
- `OnebotChecker`: two loops, two checkers, two frames per loop: an old loop
  and its successor, a cancelled checker and its successor.
- `TokenLogin`: two tokens, two accounts, two sockets (one for each agent), two
  crashes, of which stops count as one each. Tokens are random and meet in the
  row of an account only; two that log the same account in are what that takes,
  and a right and a wrong agent, and a crash of the login as well as of the reload,
  are reached. Where both tokens are used there is no `Stop`, no `Cancel` and one
  crash at most (`Bounded`). So `Stop` has at most one client to come to at a time,
  but may come to both clients of the token in turn. Which token, socket and
  account is the first does not matter, as nothing else tells them apart, and is
  fixed (`Ordered`; TLC's symmetry would not do, one property being a liveness
  property). The theorems have none of these bounds.
- `MessageBridge`: contact 1 and group 1, the same number, and the login 2,
  which is also a contact of its own; two messages and four events, enough for
  a message, its recall, a reply to either, and a report after a failed send.
  One restart and one deletion: neither enables another of its kind.
- `MediaMessage`: up to three segments out of sixteen, which cover each way
  through `DownloadMedia` and each way to show a segment: alone, beside text,
  beside other media.
- `GroupRoom`: two accounts, two nicknames, one card, two changes or failures in
  all, one message waiting: enough for one member to leave while another is
  renamed, or for a failure or an error page in the round that follows a change.
  Two pictures and none: one that goes, one that comes, and a group without.
- `ForwardMessage`: messages of up to two forwards, contents of up to three
  messages (of which a nested forward makes more), two slots. `MaxForwardDepth`
  is 0, so that two levels reach it; the code's 10 differs only in how many
  levels that takes.
- `GhostResync`: two loops, a ghost and a portal.
- `Entrypoint`: twelve deployments and three starts of each: two interrupted
  ones and one that ends, so that a config can be torn by one start, mended by
  the administrator, and rewritten by the next. An edit sets the domain, or is
  one further change to a config that has it.

## Fairness

- Goroutines are scheduled, and deadlines and timers pass: weak fairness of
  each worker's steps. This is Go's scheduler and `context.WithTimeout`.
- A write to a WebSocket ends. The code sets no write deadline, so this is an
  assumption on the network, made by `request_liveness` alone.
- A `select` that is reached again and again with the same case ready takes it
  in the end, because Go draws among ready cases: strong fairness of
  `StopChecker` (`OnebotChecker`) and `Stop` (`GhostResync`). A mutex is handed
  to a waiter in the end: strong fairness of `LockAndStart` and `Send`.
- Requests, uploads and sends of `ForwardMessage` and `GhostResync` end, by
  their own deadlines.
- `TokenLogin`: `Wait`, once it has its answer, and the start of the bridge go
  on. Nothing is assumed of agents, users or crashes.
- `GroupRoom`: the portal goes on (its requests have deadlines), the resync loop
  comes round (`GhostResync`), and people go on writing in the group: without a
  message nothing is ever enqueued. Changes and failures are bounded, so that
  they end; nothing is assumed of when.
- `Entrypoint`: `Handle` goes on, an exited container is restarted while the
  bound allows, and not every attempt to register with a usable config fails
  (strong fairness of `Register`).

No run assumes that the agent answers, that a user acts, or that `Release` is
called.

## What is proved

TLAPS checks these for every value of the constants, under the named
assumptions of each module (the markers for "none" are not members of the sets,
bounds are naturals).

- `OnebotRequest`. The inductive invariant `IInv` joins `TypeOK`,
  `WriterKeepsConnection`, `WaitersAreCallsUnderWay`, `EchoIdentifiesCall` and
  `AnswerMatchesCall`. That a call returns its own answer is not inductive by
  itself: `Receive` takes what a handler put into the channel, a handler
  looked the channel up by an echo in the past, and a frame carries the echo of
  its request. `EchoIdentifiesCall` says that no two calls share an echo and
  that frames, handlers and channels all carry the echo of the call they are
  for; it needs `WaitersAreCallsUnderWay`, and that the counter is above all
  echoes given. From `IInv` follow `AnswersMatchCalls`, `NoWaiterLeaks` and
  `Refinement`: every step of the client is a step of `AgentCall` or a stutter.
  `OneConnection` has an invariant of its own, which adds that the loop of a
  socket matches the state of the socket.
- `OnebotChecker`. `SenderHasReceiver` is the claim of the comment at
  `client.go:125-126`. It needs that the checker that `cancelChecker` names runs
  and is not cancelled, which in turn needs the life cycle of checkers: one
  that has not been started is never cancelled, and a stopped one always was.
- `GhostResync`. `LoopsAreCancelled`: `NoLoopGetsAway` is inductive with
  `TypeOK`, because each swap of `stopLoops` hands the cancel function it takes
  out to exactly one call.
  `TheIntervalIsKept`: so is `OneLoopKeepsTheInterval`, because the second check
  takes fresh ghosts out of the batch, and while the loop is alone nobody else
  marks a ghost fresh, which it does as it takes the ghost out.
- `GroupRoom`. `RoundsAreFresh`: what an undisturbed round leaves in the room
  was all true at some moment of the round, for any group and any number of
  changes. `RoomIsAsSeen` speaks of the end of a round only. `RoundInv` adds what
  holds in between: the group of now has been seen, so has the answer that is
  held, and so have the parts of the room that the round is done with, down to
  the names of the members that `updateMemberDisplayname` has gone through.
- `Entrypoint`. `TheBridgeIsReady` and `TheEditsSurvive` follow from four
  invariants. `ProcessInv`: the group is given up before the user, and both
  before the bridge is entered. `PlaceInv`: there is one config at most, and it
  lies where every start of this deployment looks for it, or a later start might
  pick another place. `ContentInv`: a registration is made only from a config with
  a domain, and only the rewriting takes the domain away again, tearing the
  config; so what `removeReadOnlyLogWriter` has read and goes to write has the
  domain in it, and the bridge never runs with the example. `StageInv`: with
  absolute paths each stage of `Handle` finds what the stages before it made, in
  this start or in one that was killed, or the history variable `missed` has it
  among what failed in this start. A config path that is resolved twice is why
  the paths have to be absolute (see the findings).
- `MessageBridge`. `ChatsApart`, `RepliesKept`, and `Refinement`: every step of the
  bridge is one of `RoomFeed` or a stutter. The heart of `IInv` is `EventInv`: an
  event whose sender is not left without a confirmation is being sent, or has a
  row under the ID that a report of its message would have. So a report of
  something the room has finds its row and is dropped, which is what `Show` of
  `RoomFeed` asks. `RowInv` says the converse, that a row names an event of its
  room; with it two rows of one ID show one message, and a reply finds its
  target. Both rest on lemmas about IDs: `ParsePortalID` inverts
  `makePortalKey`, keys of different chats differ, and a fake ID is no real one.
  `ReportInv` ties each report to the network message it is of (a report may
  arrive long after), `RequestInv` each request to its event, so that the agent
  serves it once for one event.
- `TokenLogin`. `CompleteIsReachable`, `AgentIsTheLogins`, `WhatIsReleasedIsGone`.
  None is inductive: `RegistryInv` says which client a token may have at each
  stage of its login, `RowInv` what the row of an account may be, which several
  logins take over and delete in turn, `ReachInv` that nothing takes the user's client away
  between `LoadUserLogin` and the end of `Wait` unless a `Cancel`, a logout or `Stop`
  does, and `AgentInv` that a socket which was found to belong to the user's
  client serves the account of the login, already before it is installed.
  `HeldInv` follows `Stop`: what it found at its beginning is still due, or was
  released, and its socket is in its hands or closed. It has to count the
  client that `Stop` is visiting, since `Release` is two steps.
  `SavedIsRegisteredOrLoaded` is `SavedLoginComesBack` without its fairness: a saved
  login that nothing takes away is registered, or about to be loaded.
- `ForwardMessage`. `PartsInOrder`, `EveryMessageIsShown`, `EveryEventHasARow`,
  `EveryIDLeadsToOneEvent`, and the semaphore as part of `TypeCorrect`. `WorkerInv`: what
  a finished goroutine left in `results` is what its message converts to, unless
  one failed; so the merge, whenever the last of them ends, appends the parts
  in order (`PartsInv`). `RoomInv` relates events and rows while parts are saved:
  as long as there is one root and one share at most, the IDs differ
  (`IDsApart`), so `Insert` never meets a row of the same ID, and only an event
  whose own insertion failed has no row. With several forwards rows are lost, and
  `EveryIDLeadsToOneEvent` says what is left: every ID leads to one event and every
  event has one ID, and the ID of an event whose insertion did not fail leads to
  it or to an earlier event, so that no later part takes a row over.
  `EveryStepAdvances` is the termination argument for the conversion: each step,
  failures and retries of the download included, leaves fewer segments, or the
  same and less of the forward at hand (`ForwardLeft`), or the same and fewer
  goroutines or parts (`WorkLeft`). `NobodyWaitsInVain` says that the three are
  naturals, and that while `wg.Wait` waits one goroutine is converting, or one is
  waiting and has a free slot; the lemma `NoEndlessDescent` that such
  numbers do not descend for ever. What `ConversionEnds` adds is fairness: that
  steps are taken.
- `MediaMessage`. The types and the three invariants of the run, for messages of
  any length. `DecodedInv` says that the decoded segments are segments of the list that
  decode, `SourceInv` which sources were asked where `DownloadMedia` stands, and
  `PieceInv` that the pieces are those of the segments.

Two definitions are recursive over data: `FlattenSeq` of the community modules,
with which `flattenForward` and `generateSegments` build lists, and `Walk`. The
library's induction theorems cannot be used, as they take an operator. But
`WFMin` of the same library takes a set, and every nonempty set of naturals has a
least element: `SetInduction` in `ConversionProofs` is induction stated for a set
of naturals. With it `FlattenSeqLists` shows that the flattened list has exactly
the elements of its lists, in their order, and `WalkDef` that the recursion of
`Walk` has a solution, hence that `Walk` is the function its definition says.

Each inductive invariant was checked by TLC on the instance of its run before it
was proved. The proofs changed the models in a few places. `Walk` had a `CASE`
whose guards overlap beyond `maxForwardDepth`; as TLA+ says nothing of which arm
is taken, nothing could be proved of it, and it now asks in the order of the
code. (`GetPeerID` got the same form; its arms did not overlap.) What
`SelectSeq` computes cannot be proved, as the provers cannot expand it;
`generateSegments` is now `FlattenSeq` of one list per segment, and counts of
events are cardinalities. The variables and the specification of `MediaMessage`
got names of their own, so that one module can prove things about it and about
`ForwardMessage`.

Only model-checked: liveness (`EveryCallReturns`, `ReplacedLoopEnds`,
`HeartbeatHandled`, `CancelledCheckerStops`, `SilenceLogsOut`, `SavedLoginComesBack`,
`ConversionEnds`, `ReplacedLoopStops`, `EnqueuedIsTaken`, `RoomCatchesUp` and
`RegistrationComes`), because the provers reach neither fairness nor ENABLED.
Two of them are proved but for the fairness: `SavedLoginComesBack` and
`ConversionEnds` (above). Every invariant and action property and both
refinements that passing runs check are proved.

## Findings

1. `forward_root`. The comment at `from_onebot_forward_msg.go:329-330` says that
   the root row, part "0", sorts before all parts of its message. A share or
   JSON message inside a forward gets the empty part ID, which sorts first.
2. `resync_portals`. `chatinfo.go:203` and `:273-283` compare the `LastSync` of a
   portal with `resyncMinInterval`, and nothing ever writes it.

Three more differ from their comments and show without a run:

- `entrypoint.go:114-116` says that after `os.Chdir` the bridge's relative
  lookups land on the config that was set up. With a relative
  `-c conf/config.yaml` they land on `conf/conf/config.yaml` (`Entrypoint` has the
  relative paths, and checks what the entrypoint itself does with them).
- `entrypoint.go:291-294` says that in a system directory the individual data
  files are fixed; a registration that lies beside the config there is not.
- `api.go:183-186` promises the request as fallback for links; a market face,
  sticker or video whose link fails the second time (`api.go:229-232`) is given
  up without it (`FallbacksAreTried` states what holds).

The models also have behaviour that no comment denies and that a reader should
know of:

- Forwards: a second forward of one message loses its rows to the first (all
  forwards have number 0), as does the fallback part after a root was sent. The
  row of a root may fail to be written, which `from_onebot_forward_msg.go:349`
  calls non-fatal: the root is then an event that nothing can be resolved to. A
  malformed segment inside a forward panics outside any recover
  (`ConvertPanics`). A single media that is no image hides the text beside it.
- Media: `util.Download` does not look at the status of a response, so an error
  page is uploaded as the media. In an encrypted room an image beside text has
  no URL to show.
- Logging in: a second login of an account takes its row over, so that the first
  one's token is refused after a restart, and a logout of either deletes the row
  of both. A `Cancel` that overlaps the end of `Wait` unregisters the user's
  client; a `NewLogin` that fails after `LoadUserLogin` leaves a client registered
  for a login that does not exist; a socket that `ServeHTTP` looked up before
  `Release` is installed on a released client, and `Stop` does not close it.
- Resync and rooms: a batch is dropped when the agent is logged out. The
  message that was to create a room is lost when its chat info fails twice. With
  NapCat and LLOneBot the avatar of a group never changes after the first
  (`chatinfo.go:374` hashes a URL that is the same for all pictures). With other
  agents an error page that was taken for the avatar stays until the group has
  another picture.
- Bootstrap: no error of `os.Chown`, nor of reading or writing the config, is
  looked at, so the bridge may start without its files or with the read-only log
  writer. A config with that writer is truncated and written again in place: a
  kill in between loses all of it, and an edit made meanwhile may be lost.
- The event handler of a client is set without synchronisation
  (`client.go:100`), after the client can already be reached.

## What is not modelled

- Direct chats and identifiers (`getDirectChatInfo`, `contactToUserInfo`,
  `ResolveIdentifier`): records built from constants or one answer, no state.
- Mentions, HTML, Markdown and emoji in both directions
  (`constructMentionSegments`, `onebot_emoji.go`): rendering of text. The text of a
  message is abstracted: a message is its position, a segment its kind.
- Config parsing, capabilities, gzip and MIME detection, `main`: data and I/O.
- Network writes that never end: `WriteJSON` has no write deadline
  (`client.go:235`). `request_liveness` assumes that they end.
- The checker's timeout is computed in `uint32` (`client.go:167`) from an interval
  the agent gives; `OnebotChecker` lets the timer fire whenever it may, so that
  it covers every interval, and says nothing of when.
- Entrypoint: the children that write the example config and the registration
  are external, and write their file as a whole or not at all. A config that was
  cut short after the domain counts as written. Edits are atomic, and do not
  remove the domain or the config.
- Whether the client of a login is disconnected when another login takes over its
  row is the library's; both are covered, as one of the behaviours of a logout.
  That the ghost row of a root's sender is missing shows only in the insertion
  that it makes fail. A failed load of an avatar is tried again with the next
  resync (the library's).
- A data race of `Stop` with a write to the map may end the process; that is
  among the crashes.
- The library: that a portal handles one event at a time, resolves replies
  from its rows, drops messages whose ID has a row, and makes of a list of
  members what it makes, is taken from how the connector uses it, and is marked
  external. With the library's asynchronous event handling switched on,
  `ImplementsRoomFeed` would not be promised.

## Plan

Written: the modules above, in the order client, checker, service and login,
forwards, resync, entrypoint, messages, media, group room, and the abstract
room feed. What is left of the model is rendering (above).

The safety properties are proved (above). What could follow:

1. `OnebotService`: lemmas about `ServeHTTP` and `Release` for any composition, of
   which the steps of `TokenLogin` are cases.
2. Measures like that of `ForwardMessage` for the calls of `OnebotRequest` and the
   stages of `Entrypoint`.
3. Shorter proofs: the lemmas about `Append` and about records of sequences that
   several modules repeat.
