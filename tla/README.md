# A formal model of openclaw-onepilot-channel

The repository is a plugin of the OpenClaw gateway. It connects an agent that
runs on some host to the Onepilot app on the user's phone: user messages come in
over a Realtime channel, a turn of the agent is run for each, the reply goes
back to the backend, and tool calls that execute commands wait for the user's
approval. This directory holds TLA+ modules of its concurrent core, the TLC runs
that check them, and proofs that TLAPS checks. Paths are relative to the
repository; its source is in `src/src`.

## 1. The system

| Part | State it keeps | Operations | Talks to |
|---|---|---|---|
| `stream.js` subscription | current socket, pending join, auth token, four timers, `stopped` | connect, renew the token, heartbeat, watchdog, reconnect, close | token endpoint, `ws-raw.js`, the callbacks `onInsert`, `onSubscribed`, `onTerminal` of `index.js` |
| `ws-raw.js` socket | `readyState`, TCP connection, frame buffer | upgrade, send, close; calls `onopen`, `onmessage`, `onclose`, `onerror` | Realtime server |
| `index.js` inbound | active subscriptions, high-water mark and in-flight flag of each, session cache | `register`, `onInsert`, `onSubscribed`/`runCatchUp`, eviction | stream, history endpoint, `handleUserMessage` |
| `messaging.js` turn | per turn: listener, trail, coalescer, heartbeat, `cleanedUp` | history, progress, agent run, delivery with retries, failure notice, `finalize` | history and ingest endpoints, the gateway, its event bus, `progress.js` |
| `progress.js` | none (a row per session at the backend) | `broadcast`, `progressUpsert`, `progressFinalize` | Realtime broadcast, `agent-progress-upsert` |
| `approvals-gate.js` | `_pending`: local approvals with timers | the `before_tool_call` hook, `applyDecision` | bridge, broadcasts, `approvals-context.js` |
| `approvals-gate-upstream.js`, `gateway-rpc.js` | one RPC client | `request`, `waitDecision`, `resolve` | approval manager of the gateway |
| `messaging.js` `/approve` | none | routes an answer to the manager or the local map, posts a confirmation | bridge, gate, ingest endpoint |
| `approvals-context.js` | approvals by tool call id and by session and tool | `recordApproval`, `gc`, the `tool_result_persist` hook | the gate |
| `approvals.js`, `bin/approvals-cli.js` | flag file, backup of an old configuration | enable, disable, migrate, forward upstream approvals | files, broadcasts |
| `wrapper-api.js` | token cache, runtime file; the accounts in the gateway's configuration | health, configure, configure-key, revoke, uninstall, approvals flag | the `openclaw` CLI, `pop-keys.js`, `mint-agent-key` |
| `pop-keys.js` | key files | create a key pair, sign a request | files |
| `outbound.js` | none | post a text with retries | ingest endpoint |
| `env.js`, `constants.js` | none | read the environment | |

Node runs one callback at a time, so a step of the system is the code between
two awaits, timers, frames or answers; what makes it hard is that these come in
any order:

- **the channel**: four timers, a token mint in flight on behalf of a connection
  that is gone, callbacks of a socket that has been replaced, a server that
  closes, rejects or goes silent. It is correct when it never hangs, keeps its
  timers running, holds one connection, and gives the server every new token;
- **delivery**: Realtime has no replay, so each join starts a catch-up against a
  mark that streamed rows go on raising. It is correct when each message is
  dispatched, and once;
- **approvals**: an answer may be early, late, repeated, contradictory, or
  delivered on a path that cannot reach where it belongs, and each RPC may fail.
  The gate is correct when a call passes only with consent, and what the user
  was told is what happened;
- **turns**: several at a time share an event bus and a progress row, writes are
  not awaited, and a POST that failed may have been carried out. A turn is
  correct when it ends once, cleans up, never loses a reply in silence, and
  looks alive to the app exactly as long as it is;
- **configuration**: requests, processes that overlap in a restart, and the user
  all change the same files, by way of a command line that may fail or be slow,
  and each may stop at any step. It is correct when nobody's change is lost,
  nothing is left half written, and the app can still get in.

`PROJECT.json` lists these hazards one by one, each at its line, with the
properties that cover it.

## 2. The modules

| Module | Code | Checked by | Proofs |
|---|---|---|---|
| `Link` | what the channel promises its caller | `MCStream`, `MCInbound` | `StreamProofs` |
| `Stream` | `stream.js` over `ws-raw.js` | `MCStream` | `StreamProofs` |
| `Inbound` | `index.js`: `onInsert`, `onSubscribed`, `runCatchUp`, registration | `MCInbound` | `InboundProofs` |
| `ApprovalGate` | `approvals-gate.js`, its bridge, `/approve` of `messaging.js` | `MCApprovalGate` | `ApprovalGateProofs` |
| `ToolCalls` | the tool calls that both hooks are run for | with both | with both |
| `Consent` | what the gate promises whoever calls tools | `MCApprovalGate` | `ApprovalGateProofs` |
| `ApprovalMarkers` | `approvals-context.js` | `MCApprovalMarkers` | `ApprovalGateProofs` |
| `Turn` | `handleUserMessage` of `messaging.js`, with `progress.js` | `MCTurn` | `TurnProofs` |
| `Answer` | what `handleUserMessage` promises of each message | `MCTurn` | `TurnProofs` |
| `Heartbeat` | its coalescer and heartbeat, with a clock | `Heartbeat` | `HeartbeatProofs` |
| `Outbound` | `sendText`, `sendPayload` and the session cache of `index.js`, `maybeHandleApproval` of `approvals.js`, `outbound.js` | `MCOutbound` | `OutboundProofs` |
| `Approvals` | the migration in `approvals.js` | `MCApprovals` | `ApprovalsProofs` |
| `WrapperApi` | `wrapper-api.js`, `pop-keys.js` | `MCWrapperApi` | `WrapperApiProofs` |

The `map` of `PROJECT.json` gives the lines of each definition. A definition
whose name ends in `_Slip` is the definition after it with a plausible mistake
(a dropped guard, a missing reset, a value read too late). No action uses it:
put in the place of the right one, it makes the property named beside it in
`PROJECT.json` fail, which shows that the property looks at that code.

**Stream.** `ws`, `pendingJoinRef`, `stopped` and the timers are the variables
of `startStreamSubscription`; `readyState` is that of every `RawWebSocket`, with
"lingering" for one that received a close frame and whose TCP connection is
still to go. A join is named by the socket whose `onopen` sent it, for the code
uses the same counter for all of them. `dialing` and `renewing` count the calls
that await a token: several can be in flight. There is no clock: an armed timer
may fire in any state, a token may age in any state, and `quiet` says that the
gap since the last reply exceeds the limit. The server streams to a connection
from the moment it accepts the join (`Accept`, `joined`); its `phx_reply` is
then in `replies` until `onmessage` reads it (`JoinOk`), and with it calls
`onSubscribed` or takes it for the reply to another join. `onclose` is one
operator, `HandleClose`, whichever socket it belongs to, as in the code, where
every socket's handler changes the same variables.

**Link.** Four values: the channel has not ended, the server streams to it
(`joined`), the caller is still to hear of that (`due`), and was told. `Join` is
the server's accept, `Tell` the reading of its reply. `Stream` implements it
(`ImplementsLink`): a subscription is any joined socket, its news are due while
a reply is under way that `onmessage` will take for the right one, and it is
told once `onSubscribed` ran for it.

**Inbound.** Its joins, drops and ends are the steps of `Link`. The table is a
sequence of rows with a time; `pipe` holds what the server has streamed and
`onInsert` has not seen. The accept of a join (`Accept`) and the reading of its
reply (`JoinOk`), which starts the catch-up, are two steps: a row inserted
between them is streamed and is in the history too. `during` records such rows,
and those inserted while an answer of the history is awaited. Each subscription
has its mark and its catch-up, since an evicted one may still be answered. The
history request is answered (`CatchUpAnswered`) before its rows are dispatched
(`CatchUpDone`): between the two the code awaits the body. `excused` records the
rows that a skipped, failed or truncated catch-up left out, and `Tied` finds
those that share their millisecond with another, so that `NothingElseLost` can
say that nothing else is lost.

**ApprovalGate.** `pc` follows each hook through its awaits. `id` says where an
approval is registered, which is what the prefix `plugin:` tells the code. `mgr`
is the manager of the gateway, modelled from the three RPCs. Each answer is
handled once for every path that delivers it, since a row that is streamed may
be caught up as well. The flag file and the session cache may change at any
time, so the hook reads any value of them (`FlagRead`).

**Consent.** The gate seen from outside: calls the user is asked about, answers
that were sent, the one that was taken for each call, those the user was told
are submitted, and how each call ended. In `ApprovalGate` the answer that was
taken is in the manager for an upstream call and in the verdict of the hook for
a local one (`Taken`); an answer is submitted if either path that delivers it
said so (`Submitted`). `ImplementsConsent` is the refinement.

**ApprovalMarkers.** The two indices as sets of approvals, the sweep by age
(`aged`), and for each persisted result the approvals that marked it: at most
one, which is what `OneShot` and the choice of the lookup come to.

**Turn.** `pc` follows each turn; `Continues` collects what may follow an await.
`writes` and `finals` count upserts in flight, which land in any order or, with
`LostWrites`, not at all. `ends` counts the end broadcasts that are sent;
whether one arrives nobody learns, since `broadcast()` gives up after three
seconds and swallows every failure (`progress.js:56-72`), so the app hears of
the end at most once. An attempt to POST may be carried out and still be seen as
failed. `excused` records the sessions whose clearing was lost or overtaken,
which `RowCleared` leaves out.

**Answer.** A turn seen from the app: a message is taken up or lost, replies and
notices are posted for it, and its end is announced by one broadcast, which may
be lost: as an error only if nothing was posted, and as done only if something
was or the backend refused it to the end. In `Turn`, `StateOf` reads that off
`pc` and the end broadcasts, and `Denied` off the refusals and the attempts used
up. `ImplementsAnswer` is the refinement.

**Heartbeat.** The part of a turn that depends on time, second by second:
`sinceEvent` and `sinceBroadcast` are what the code computes from
`lastAgentEventAt` and `lastBroadcastAt`, `untilCheck` is the interval timer,
and `flight` holds the ages of the broadcasts that are under way. The windows
are constants; the run gives them the values of the code. `silence` is what the
app's own deadline measures.

**Outbound.** A row is a user message, which names a session; `stream` holds the
rows that the server has streamed and `onInsert` has not read. `cache` is the
inner `Map` of the account, one session for each key; the order that a `Map`
keeps is used only by `lookupAnySessionForAccount` (section 6). A call of
`sendPayload` looks there, asks the history, and gives up. Two ways lead from an
approval to `sendOnepilotText`, as in the code: the payload's account is not
configured (`NoAccount`, `index.js:252`), and the handling throws
(`ApprovalThrows`, `index.js:285-292`); `fell` says which one a call took.
`newest` is what the cache should know, and `mixed` names the keys for which it
may not: a row that is still in the stream may be overtaken by a history answer
that holds a newer one (`Overtaken`).

**Approvals.** The configuration is two settings, one that the migration
restores and one that it must not touch, each named by the edit that made it.
Opening a file truncates it and filling it is another step; `file` follows what
an open descriptor refers to after a rename.

**WrapperApi.** `req` follows a request from the check of its token to its
answer, `seen` is the account that its handler read. A token, a key pair and a
set of fields are named by the request that made them. What a request sends is
in its body (`AnyBody`): a `configure` may hold any field, the agent and the
token (or null for them) included, and merges it unchecked (`Patched`), as
`wrapper-api.js:154-159` does; `imposed` records the agents that were bound that
way. A CLI command that reads may fail, which the code takes for an empty
configuration (`Reads`); a response may be lost. Several processes run, each
with its cached token; one may be killed while it writes a key file. A process
that started listens later or, after a listen error, never (`Listen`). The
runtime file may then not be written, and not be removed at the exit; the code
ignores both, and `lost` and `left` record it. `mishap` says that something
happened that may lock the app out, which `NeverLockedOut` then excludes.

The channel and the delivery are composed through `Link`: `Stream` is shown to
implement it, and `Inbound` uses its steps, so that its runs and proofs hold for
every channel that does. The product of both would have far more states and no
variable in common but these. The gate and the markers are about the same
`ToolCalls` and take their steps side by side; `RecordsApproved` says where they
touch, the hook that records an approval it lets through, and the proofs draw
what follows for a marked result. The other modules meet in single values: that
an answer may be delivered on two paths (`Inbound` to `ApprovalGate`), that some
session is known (`Outbound` to `ApprovalGate`), that the flag is on
(`Approvals` to both), each taken there as any value at any time.

## 3. The runs

`MCX.tla` adds the definitions that the `.cfg` files need; a run is `tlc -config
<run>.cfg <module>`. `CHECK_DEADLOCK FALSE` is in each configuration: a closed
channel, an exhausted set of rows, finished calls and finished turns are
legitimate ends. The number of distinct states is in brackets.

### Runs that pass

| Run | Properties | What it shows | Bounds |
|---|---|---|---|
| `StreamSafety` (1.9 M) | `SelfHealing`, `KeepaliveRunning`, `NewestToken`, `QuietMeansDead` | with every fault, errors on connections that were closed before included, and whatever the interleaving of mints, renewals, joins and closes, the channel keeps a way forward, its timers and its newest token | two sockets, two concurrent `connect()`s and renewals |
| `StreamLiveness` (18 k) | `SingleConnection`, `ImplementsLink`, `KeepsSubscribing`, `RevocationStops`, `SilentLinkReplaced` | with rejected joins and silent servers but no late errors: one connection, a catch-up for each accepted join whose reply arrives, as `Link` has it; a subscription again and again, an end after a revocation, no silent connection for ever | the same |
| `InboundSafety` (383 k) | `OncePerPath`, `DuplicateOnlyInOverlap`, `NothingElseLost`, `MessagesHandled` | neither path repeats itself, both dispatch a row only if it was inserted between the server's accept of a join and the reading of its reply, or during a history request, and a message is missed only for a reason that is named | two rows, two subscriptions, a history of one row |
| `GateSafety` (417 k) | `ConsentRequired`, `SubmittedOnce`, `PendingIsWaiting`, `ConfirmationKept`, `HooksReturn`, `ImplementsConsent` | with RPCs that fail at any point and answers delivered twice: no call passes without consent, no contradictory confirmation, no hook that hangs; one answer is taken for each call, for good, as `Consent` has it | two calls |
| `MarkersSafety` (8.5 k) | `OneShot`, `MarkerIsGenuine` | one result for each approval, of the same tool and session | three calls, two soft keys |
| `TurnSafety` (571 k) | `EndsOnce`, `RowCleared`, `NoWriteAfterFinalize`, `ImplementsAnswer`, `TurnsEnd` | two turns of one session with lost and late writes: each ends, sends one broadcast of that, with a reply or a notice and never in silence, as `Answer` has it, and cleans up | two turns, one event each, two attempts to post the reply and one for the notice |
| `HeartbeatSafety` (483 k) | `NoFalseStall`, `HangShows`, `TextsInOrder`, `NoTextStuck` | the app takes no working turn for stalled and sees each hang; the reasoning text arrives whole | the windows of the code (5, 18, 20 and 25 s), a delay of 1 s, two pieces of text |
| `OutboundSafety` (3.6 M) | `CacheFresh`, `ApprovalNeverText`, `ToldTruly` | an approval goes to the newest known session, but for news that crossed, and out as a text only if its account is not configured or its handling threw; and the gateway hears the truth of a text | two session keys, two calls, two messages, two attempts |
| `ApprovalsSafety` (118 k) | `NeverTorn`, `BackupOutlives`, `EditsKept` | crashes and overlaps of migrations with edits from outside leave a configuration that parses and keeps the edits, but for causes that are named | three migrations, three edits |
| `WrapperSafety` (2.1 M) | `NeverLockedOut`, `SignsRegistered`, `RuntimeFileTrue`, `WritesKeepOthers` | no request, failure or crash locks the app out, loses a field, binds an unregistered key, hides the newest process or leaves the file to one that exited, but for causes that are named | three requests, two processes, two agents; a `configure` sends one part of the account anew (an agent, a token or null for it, or the rest) and never null for the agent |

The `TypeOK` of every module is proved (`TypeCorrect`, section 5), as is
`CatchUpOnJoin`, which `ImplementsLink` implies (`due` in `Link`).

Why the bounds are enough. The subscription has one `ws`, and a handler can only
confuse its own socket with the current one, which takes two sockets. The calls
in flight are counted, and a second one is what it takes to answer out of order.
What can go wrong in `Inbound` needs one row on each side of a mark; a history
of one row truncates it as soon as there are two. Two calls of the gate never
touch each other's entries, which the second call confirms; two turns share the
row and the bus, and their retries only count. A lost update takes two requests
and a lockout a third to show; the bodies that the run of `WrapperApi` leaves
out hold several changes at once, which differ in nothing that a property
relates, and null for the agent, which unbinds the account. Two user messages
are enough for one to overtake the other. Each configuration file is one value
that two migrations can disagree about, and the third comes after both. The
proofs of section 5 have no bounds.

### Runs that find a disagreement

Each of these checks one statement of the repository's documents or comments
that the code does not keep. `PROJECT.json` quotes the lines.

| Run | Statement | What the code does |
|---|---|---|
| `GateLiveAnswer` | upstream ids reach the manager | not over the live stream: `onInsert` passes no bridge |
| `MarkersWrongCall` | a marker means the user allowed the run | the soft key can mark another call's result |

### Weak points the properties name

The following is behaviour of the code that the models contain and that the
properties leave room for. It has no run of its own; where a property names the
exception, removing it shows a trace.

- A renewal that is refused for good closes the socket like any other failure,
  and the reconnection asks again, or reuses a token that is still fresh
  (`stream.js:121`); `TESTING.md:165` has the plugin go quiet at the refusal.
  `RevocationStops` says that it stops in the end.
- A row that is streamed during a catch-up, or between the server's accept of
  the join and the reading of its reply, is dispatched by both paths
  (`index.js:390`, `401`): `DuplicateOnlyInOverlap`. `TESTING.md:83-89`
  describes a "dedupe probe" that would prevent it, which is not in the source.
- An upsert that is not awaited may land after the one that clears the row
  (`messaging.js:406`), which then stays active: `excused` in `RowCleared`. The
  comment at `messaging.js:349-351` says "always cleared".
- `onclose` does not look at whose socket it belongs to. When a connection errs
  after its close frame, it fires a second time, drops the socket that came next
  and opens another beside it (`stream.js:302`, `ws-raw.js:100-104`).
  `SingleConnection` fails when `"lateError"` is added to `ServerFaults`.
- A rejected `phx_join` is logged and not tried again (`stream.js:274`):
  `TurnedAway` in `KeepsSubscribing`.
- `close()` waits for the peer to end its side (`ws-raw.js:111-120`). If the
  peer is gone, nothing but the operating system ends the wait: fairness of
  `ClosingEnds`, on which `SilentLinkReplaced` rests.
- A join during a catch-up starts none (`index.js:391`), a failed one is not
  repeated (`index.js:60`), and rows of one millisecond look alike
  (`index.js:75`): `Explained` in `NothingElseLost` and `MessagesHandled`.
- A local id enters `_pending` after the broadcast returned
  (`approvals-gate.js:200`): an answer that is faster is told that nothing is
  pending, and the hook then waits for its timer.
- Any error of `waitDecision` is taken for a timeout (`approvals-gate.js:208`),
  also after the user was told that the decision was submitted: `GaveUp` in
  `ConfirmationKept`.
- A POST that was carried out and not acknowledged is repeated, and the notice
  may follow a reply that was stored (`messaging.js:434`): `Answer` counts what
  was posted and leaves room for more than one.
- The heartbeat has no margin for a slow network (`messaging.js:17-19`): with a
  delay of two seconds `NoFalseStall` fails, and the code gives a request up
  only after three (`progress.js:17`), with which it fails as well.
  `MarginOfTheCode` proves that one second is all there is.
- The end broadcast is sent once and not repeated when it is lost
  (`progress.js:56-72`): `EndsOnce` and `Answer` speak of the one that is sent,
  and an app that missed it falls back on its own deadline.
- `configure` merges any field of the body without a check
  (`wrapper-api.js:158`), whereas `src/README.md:16` says that the API never
  accepts a user-supplied `agentProfileId`. It may bind the account to an agent
  that no key was made or registered for (`imposed` in `SignsRegistered`), and
  it may replace or clear the token, also the app's own (`mishap`).
- The app is locked out when the one response that carries its token is lost
  (`wrapper-api.js:260`), when a revocation can only disable the account
  (`wrapper-api.js:116`), when a `configure` whose read failed, or that comes
  after a revocation, makes an account without a token (`wrapper-api.js:152`),
  when one holds another token, and when a write is based on a stale read:
  `mishap` in `NeverLockedOut`, `overtaken` and `misread` in `WritesKeepOthers`.
- A crash while a key file is written leaves one that exists and does not parse
  (`pop-keys.js:52`); no later call replaces it. `SignsRegistered` says that no
  configure-key ever binds the account to such a file. Two processes that both
  write one may leave the account with a key that was not registered;
  `RegisteredWhenAlone` proves that this takes two processes that overlap, or an
  imposed agent.
- An old process that exits late removes the runtime file of its successor
  (`wrapper-api.js:333`): `lost` in `RuntimeFileTrue`. A file that cannot be
  written is only warned of (`wrapper-api.js:323-325`) and one that cannot be
  removed stays without a word (`333`), naming an older process or one that
  exited: `lost` and `left`. Where processes do not overlap, the file names the
  one that listens if it could be written (`FoundWhenAlone`).
- All migrations write one `.tmp` file (`approvals.js:117`): two at a time may
  rename a truncated one, `overlapped` in `NeverTorn`; one at a time never tears
  the configuration, wherever each crashes (`WholeOneAtATime`). A crash before
  the backup is removed has it restored once more, over what was edited since:
  `exposed` in `EditsKept`.
- A catch-up may dispatch newest first, and the answer of a history request be
  older than a message that was streamed while it was awaited (`index.js:277`,
  `409`), or newer than one that is read from the stream after it: the cached
  session is then not the newest, `mixed` in `CacheFresh`.
- The prompt of an approval is stored as a message of the agent when the account
  named in its payload is not configured (`index.js:252`) or its handling throws
  (`285-292`, "falling back to text send"): `fell` in `ApprovalNeverText`.
- All turns of a user compare the same session key (`messaging.js:278`), so that
  each hears the others' events: `AgentEvent` of `Turn`.

## 4. Fairness

- `Stream`: timers fire, time passes, and a request is answered or fails: the
  code has an action for each outcome, so weak fairness is for their
  disjunction. That a mint, an upgrade and a join succeed when they are tried
  again and again (`Accepted`, `Answered`) is strong fairness: with a backend
  that always fails nothing can be promised. An upgrade is assumed to be
  answered or to fail, and a connection that is being closed to go away in the
  end: the code has no timeout for either, only the operating system's. `Close`,
  `Revoke` and the faults are not fair: nobody has to do them.
- `Inbound`: the channel keeps joining, and where it joins again and again the
  reply is read at last (strong fairness of `JoinOk`, since a drop takes it
  away), which is what `Stream` promises but for a rejected join; frames are
  read and history requests answered. Registration is not fair: nothing in the
  plugin calls `register` again, so `MessagesHandled` is stated for a
  subscription that lives.
- `ApprovalGate`: awaits end and timers fire, at the gateway too. The user is
  not fair: `HooksReturn` holds for one who never answers.
- `Turn`: what a turn awaits comes, so that it takes one of the steps that
  `Continues` collects: requests are answered or fail, and an agent's run ends.
  Nothing is assumed of the writes in flight, which nobody awaits. The code sets
  no limit to a run; it relies on the gateway. A retry that fails is another
  action of the same request, so that weak fairness for their disjunction and
  the bound on the retries give `TurnsEnd`.
- Of the server it is assumed, in `Stream`, `Inbound` and `Outbound`, that it
  streams from its accept of a join on, and that a connection delivers in order:
  the reply to the join is ahead of what is streamed, and rows come in the order
  of their creation.
- `Heartbeat`, `Outbound`, `Approvals` and `WrapperApi` have safety properties
  only. In `Heartbeat` the clock stops where a timer is due (`Quiet`), which is
  what makes a deadline a safety property.

## 5. The proofs

TLAPS proves, for every value of the constants that satisfies the assumptions
named in the modules:

| Theorem | Says |
|---|---|
| `StreamProofs!TypeCorrect`, `SelfHealingCorrect`, `KeepaliveCorrect`, `NewestTokenCorrect`, `WatchdogCorrect` | the safety of the channel, for any sockets, bounds and faults |
| `StreamProofs!SingleConnectionCorrect`, `CatchUpCorrect`, `ChannelImplementsLink` | one connection, a catch-up for each accepted join whose reply arrives (`CatchUpOnJoin`), and the refinement of `Link`, when no error follows a close frame (`NoLateErrors`) |
| `InboundProofs!TypeCorrect`, `OncePerPathCorrect`, `DuplicateOnlyInOverlapCorrect`, `NothingElseLostCorrect` | the safety of the delivery, for any rows, subscriptions and history limit |
| `ApprovalGateProofs!TypeCorrect`, `ConsentCorrect`, `SubmittedOnceCorrect`, `PendingCorrect`, `ConfirmationCorrect` | the safety of the gate, for any calls, with or without a bridge, failing RPCs included |
| `ApprovalGateProofs!GateImplementsConsent` | the refinement of `Consent`: map, manager, bridge and both paths of an answer do no more than ask, take one answer and end the call by it |
| `ApprovalGateProofs!MarkersTypeCorrect`, `OneShotCorrect`, `GenuineCorrect` | the safety of the markers |
| `ApprovalGateProofs!MarkerWasAllowedCorrect`, `DistinctKeysSuffice` | gate and markers together: whatever approval a result is marked with, the user allowed it; and the wrong call is marked only where calls share a soft key |
| `TurnProofs!TypeCorrect`, `EndsOnceCorrect`, `NoWriteAfterFinalizeCorrect`, `RowClearedCorrect` | the safety of the turns, for any turns, sessions and numbers of retries |
| `TurnProofs!TurnsImplementAnswer` | the refinement of `Answer`: no exit of a turn loses a reply in silence, announces an error after a post, or posts after the end |
| `HeartbeatProofs!TypeCorrect`, `HangCorrect`, `NoFalseStallCorrect`, `TextsInOrderCorrect`, `NoTextStuckCorrect` | the deadlines, for any windows; that no turn is falsely stalled, for windows that add up (`InTime`) |
| `HeartbeatProofs!CodeNeverFalselyStalls` | no false stall with the windows of the code, if a broadcast needs one second at most |
| `OutboundProofs!TypeCorrect`, `CacheFreshCorrect`, `ApprovalNeverTextCorrect`, `ToldTrulyCorrect` | the safety of the outbound channel, for any keys, calls, messages and attempts, accounts that are missing and handlers that throw included |
| `ApprovalsProofs!TypeCorrect`, `NeverTornCorrect`, `BackupOutlivesCorrect`, `EditsKeptCorrect` | the migration, for any number of calls and edits |
| `ApprovalsProofs!WholeOneAtATime` | migrations one at a time, crashes included, never leave a torn configuration |
| `WrapperApiProofs!TypeCorrect`, `RuntimeFileTrueCorrect`, `NeverLockedOutCorrect`, `WritesKeepOthersCorrect`, `SignsRegisteredCorrect` | the wrapper API, for any requests and whatever they hold (`AnyBody`), any processes and agents |
| `WrapperApiProofs!FoundWhenAlone`, `RegisteredWhenAlone` | while processes do not overlap: the runtime file names the one that listens if that could write it, and the key an agent signs with is registered unless a `configure` imposed the agent |

Each proof has the same shape: types first, then an inductive invariant with one
step for each action, then the temporal step.

- **Channel.** `ChannelInv` is `SelfHealing`, `KeepaliveRunning`, `NewestToken`
  and `QuietMeansDead` with one part more, `WatchdogBacked`: an armed watchdog
  has the heartbeat beside it, so that a gap in the replies is never one that
  the channel itself caused by asking nothing. The rest needs `NoLateErrors`.
  `DriverInv` says that the channel has one driver at a time, a socket or a
  timer or a `connect()` (`OneDriver`), and that a join the server has yet to
  answer is the one `onmessage` waits for (`JoinsExpected`); without these
  `SingleConnection` and `CatchUpOnJoin` are true and not inductive. With it
  every step of the channel is a step of `Link` or a stutter.
- **Delivery.** `ChannelInv` of `InboundProofs`, `LiveInv` and `UnusedInv` say
  that the stream brings the rows in their order and each once. `MarkInv` places
  the mark: no row above it was dispatched, and a catch-up has dispatched
  nothing above the mark it started from. `OverlapInv` adds what a row that one
  path has and the other may still bring has in common with the pair that
  `during` records; together they give both claims about duplicates. `LooseInv`
  says that a message which nothing accounts for is on its way (`OnItsWay`): in
  the stream, in a catch-up that is asked or answered, or above the mark of the
  next one. That a history leaves out only what is gone needs `AnswerInv`, and
  cardinalities of the rows that are newer. The highest row of a set is found by
  well-founded induction (`WFMin`).
- **Gate.** `GateInv` adds that only registered calls are pending anywhere
  (`RegisteredOnce`), that a decision the manager holds was sent by the user
  (`DecisionWasSent`), without which `WaitReturns` could approve anything, and
  that an answer that was confirmed has settled its approval
  (`SubmittedSettles`), which is what keeps a second one from being confirmed.
  `KeptInv` adds, for `ConfirmationKept`, that the hook returned what the
  manager holds or gave up (`RulingKept`), and that what was confirmed is what
  the hook returned or the manager holds (`SubmittedRuled`). For the refinement,
  `ShownIsRegistered` says that an answer can be sent only for a call that is
  registered, and `SubmittedStep` that no step but the one that handles an
  answer adds to what was submitted. Each step of the gate is then one step of
  `Consent` or a stutter: an answer that reaches a local hook takes it and ends
  the call at once, one that reaches the manager takes it, and the hook returns
  with it later.
- **Markers.** `MarkersInv` adds that what is in the indices has not marked a
  result and was recorded under its own soft key (`IndicesAreUnused`): a match
  by either index then cannot repeat a marker. A result is marked with an
  approved call, the gate approves none without consent, and so
  `MarkerWasAllowedCorrect` follows from the two invariants and from
  `RecordsApproved`.
- **Turns.** `EndInv` ties `pc`, the listener and the number of end broadcasts
  together, `TellInv` says what a turn with a reply has done when it reaches
  `finally` (`Told`) and that one which ends with an error has tried to post
  nothing (`Untold`), which with `EndInv` makes every step one of `Answer` or a
  stutter (`AnswerStep`); and `RowInv` that an active row has a turn, a write or
  a clearing behind it, or is excused.
- **Heartbeat.** `HangInv` bounds what is in flight by the silence of the agent.
  `AliveInv` says that the last broadcast is no older than what is left of the
  check allows, and that the app has heard it or has another on its way in time.
  The start of a turn is a case of its own (`Starting`), since the first
  broadcast counts from its return and the checks begin two requests later.
  `InTime` holds for the windows of the code and a delay of one second: 18 + 5 +
  1 < 25, and 15 + 5 + 3 < 25 for the last check at the start that may find the
  broadcast fresh; `MarginOfTheCode` shows that for a longer delay it does not.
- **Outbound.** `FreshInv` is `CacheFresh` with what is known of the cache
  between the steps. `NewestKnown`: what the plugin knows of a key is one of the
  key's messages. `MarkInv`: a message above the mark was not read from the
  stream. `StreamInv`: what is still in the stream is no older than what is
  known of its key, or the key is in `mixed`. `CatchUpInv`: what a catch-up may
  bring in was not read from the stream, or its key is in `mixed`, and it brings
  in again whatever was fetched above its mark; so that with one row for a key
  the order of the dispatch is no matter, and with more the newest is the last
  or the key becomes mixed. `FetchInv`: a fetched answer is no older than what
  is known. `SendInv` follows a call: one that looks for a session forwards an
  approval that has not fallen through (`ApprovalInv`), one that posts has
  attempts left and has stored no more copies than it used (`PostInv`).
- **Migration.** `HoldInv` says what a call holds at each step. `WholeInv`: the
  one that writes the tmp file has it to itself and has filled it before the
  rename; where migrations come one at a time, `overlapped` stays false.
  `CleanInv`: what is written is restored. `OtherInv` and `TrackedInv`: an edit
  that is not exposed came before every read, or after every migration.
- **Wrapper API.** `CurrentInv` says that a request that was not overtaken has
  seen the account as it is, or none; `InInv` that without a mishap the app
  holds the token of the account. For the keys, `SignInv` says of an agent whose
  file one process wrote that the keys of the account, and of all that requests
  may still make the account, are the one in the file and registered
  (`FileTrue`), but for an account whose agent was imposed (`KeyTrue`); it needs
  that a process writes one key file at a time (`OneWriter`). Where processes do
  not overlap, a request is served by the one that runs (`Served`) and a key
  file is written once (`OnceInv`), so that no agent is contended and `SignInv`
  leaves the imposed agents only.

**Only model-checked.** Liveness, which is out of TLAPS's reach here
(`KeepsSubscribing`, `RevocationStops`, `SilentLinkReplaced`, `MessagesHandled`,
`HooksReturn`, `TurnsEnd`), and the violations, which are traces. Every
invariant and every other action property or refinement that a run checks is a
theorem.

## 6. What is not modelled

Parsing and encoding of frames, of server-sent events and of message contents;
logging; the backend's own logic beyond the answers it gives; wall-clock
durations but for those of `Heartbeat`; `env.js` and `constants.js`, which have
no state. Signing is a pure computation. Of `wrapper-api.js`, `health` changes
nothing, `uninstall` ends the plugin, and the validation of a body only refuses
it; the accounts are one, the only one the app uses, with the fields of the
plugin's schema: `configure-key` builds the account from a fixed list
(`wrapper-api.js:188-198`) and drops any other. Of `index.js`,
`lookupAnySessionForAccount` picks the entry that was inserted last, which is
not the most recent one as its comment says (`index.js:42-49`): a fallback for
calls without a session key, which `ApprovalGate` sees as some session. Of a
turn, the reasoning trail that is stored with the reply is left out.

## 7. Plan

1. An abstract specification of the delivery, as `Consent` and `Answer` are of
   the gate and the turn, which `Inbound` implements; and that the exceptions of
   `EditsKept` and `WritesKeepOthers` do not arise when nothing overlaps and
   nothing crashes, as `WholeOneAtATime` and `RegisteredWhenAlone` have it of
   theirs.
2. The stored reasoning trail of a turn, and the choice of a session for a call
   without a key.
3. Larger instances of `Inbound` (three rows) and of `WrapperApi` (four
   requests), which take longer than the runs are meant to.
