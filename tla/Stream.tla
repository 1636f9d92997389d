------------------------------- MODULE Stream -------------------------------
(***************************************************************************)
(* The inbound channel of one account: src/stream.js (token, connection,   *)
(* keepalive and reconnection) over src/ws-raw.js (the WebSocket), between *)
(* a backend that mints tokens and a Realtime server that may drop, close, *)
(* silence or reject a connection at any moment.                           *)
(*                                                                         *)
(* Abstractions.  There is no clock: an armed timer may fire in any state, *)
(* a token may age in any state, and a gap in the replies is the Boolean   *)
(* quiet; so the durations, the backoff and the heartbeat references (kept *)
(* for diagnostics only) do not appear.  A RawWebSocket object is a member *)
(* of Sockets, reused once its TCP connection is gone.  The constructor    *)
(* does not throw (the plugin's schema validates streamUrl), and a server  *)
(* sends nothing after its own close frame.                                *)
(*                                                                         *)
(* A definition whose name ends in _Slip is the one after it with a        *)
(* plausible mistake in the code; no action uses it.                       *)
(***************************************************************************)
EXTENDS Naturals

CONSTANTS
    Sockets,        \* RawWebSocket objects
    None,           \* ws = null, pendingJoinRef = null
    MaxDials,       \* bound on concurrent connect() calls awaiting a token
    MaxRenewals,    \* bound on concurrent renewAndPushToken() calls
    Faults          \* which faults of the environment are enabled

AllFaults == {"lateError",  \* 'error' on a connection after its close frame
              "joinError",  \* the server rejects a phx_join
              "mute"}       \* the server goes silent on an open connection

ASSUME SocketsAssumption == None \notin Sockets
ASSUME BoundsAssumption == MaxDials \in Nat \ {0} /\ MaxRenewals \in Nat \ {0}
ASSUME FaultsAssumption == Faults \subseteq AllFaults

VARIABLES
    readyState,     \* of each socket; "lingering" is readyState 3 after a
                    \* close frame, with the TCP connection still to go
    ws,             \* the socket the subscription uses
    pendingJoinRef, \* whose phx_join onmessage waits for; a join is named by
                    \* the socket whose onopen sent it
    token,          \* authToken and tokenExpMs
    dialing,        \* connect() calls that await ensureAuthToken()
    renewing,       \* renewAndPushToken() calls that await the mint
    stopped,
    timers,         \* the armed timers
    quiet           \* Date.now() - lastReplyAt > HEARTBEAT_REPLY_TIMEOUT_MS

VARIABLES           \* the environment, and what it has been told
    joins,          \* per socket, the joins the server has yet to answer
    replies,        \* per socket, the joins it accepted whose phx_reply is on
                    \* the way
    joined,         \* sockets the server streams INSERTs to
    mute,           \* sockets on which the server has gone silent
    holders,        \* sockets whose server side was sent the newest token
    revoked,        \* the agent key was revoked
    refused,        \* history: some mint was answered with a terminal error
    subscribed      \* history: sockets whose join reached onSubscribed

code == <<readyState, ws, pendingJoinRef, token, dialing, renewing, stopped,
          timers, quiet>>
env  == <<joins, replies, joined, mute, holders, revoked, refused, subscribed>>
vars == <<code, env>>

States     == {"unused", "connecting", "open", "closing", "lingering"}
LiveStates == {"connecting", "open", "closing"}
Timers     == {"heartbeat", "watchdog", "renew", "reconnect"}

\* What onopen arms and onclose clears.
PerSocket_NoWatchdogSlip == {"heartbeat", "renew"}
PerSocket == {"heartbeat", "watchdog", "renew"}

DataTypes ==
    /\ readyState \in [Sockets -> States]
    /\ ws \in Sockets \cup {None}
    /\ pendingJoinRef \in Sockets \cup {None}
    /\ token \in {"none", "fresh", "stale"}
    /\ dialing \in Nat /\ renewing \in Nat
    /\ timers \subseteq Timers
    /\ joins \in [Sockets -> SUBSET Sockets]
    /\ replies \in [Sockets -> SUBSET Sockets]
    /\ joined \subseteq Sockets /\ mute \subseteq Sockets
    /\ holders \subseteq Sockets /\ subscribed \subseteq Sockets

FlagTypes ==
    /\ stopped \in BOOLEAN /\ quiet \in BOOLEAN
    /\ revoked \in BOOLEAN /\ refused \in BOOLEAN

TypeOK == DataTypes /\ FlagTypes

Init ==     \* startStreamSubscription: `void connect()` with no token yet
    /\ readyState = [s \in Sockets |-> "unused"]
    /\ ws = None /\ pendingJoinRef = None
    /\ token = "none" /\ dialing = 1 /\ renewing = 0
    /\ stopped = FALSE /\ timers = {} /\ quiet = FALSE
    /\ joins = [s \in Sockets |-> {}] /\ replies = [s \in Sockets |-> {}]
    /\ joined = {} /\ mute = {} /\ holders = {} /\ subscribed = {}
    /\ revoked = FALSE /\ refused = FALSE

-----------------------------------------------------------------------------
(* Helpers.                                                                *)

CurrentOpen == ws # None /\ readyState[ws] = "open"

\* Slip: also nothing while ws is set, which onclose resets too late.
WithReconnect_GuardSlip(armed) ==
    IF stopped \/ ws # None THEN armed ELSE armed \cup {"reconnect"}

\* scheduleReconnect: nothing when stopped or already armed.
WithReconnect(armed) == IF stopped THEN armed ELSE armed \cup {"reconnect"}

\* RawWebSocket.close() on ws: a no-op unless the socket is open.
CloseCurrent ==
    readyState' = IF CurrentOpen
                  THEN [readyState EXCEPT ![ws] = "closing"]
                  ELSE readyState

\* startReplyWatchdog: a fresh socket starts with a fresh lastReplyAt.
FreshWatchdog_Slip == quiet' = quiet
FreshWatchdog      == quiet' = FALSE

\* The join that onmessage will accept, once onopen of s has sent one.
AwaitedJoin_Slip(s) == IF pendingJoinRef = None THEN s ELSE pendingJoinRef
AwaitedJoin(s)      == s

\* The sockets on which a renewed token is pushed.
PushedTo_Slip == {}
PushedTo      == IF CurrentOpen THEN {ws} ELSE {}

\* `ws = new RawWebSocket(url)`.
OpenSocket ==
    \E s \in Sockets :
        /\ readyState[s] = "unused"
        /\ \A t \in Sockets : s \notin joins[t] \cup replies[t]
        /\ readyState' = [readyState EXCEPT ![s] = "connecting"]
        /\ ws' = s

\* onclose of s, whichever socket ws is now; s goes on to state next.
HandleClose(s, next) ==
    /\ readyState' = [readyState EXCEPT ![s] = next]
    /\ ws' = None
    /\ timers' = WithReconnect(timers \ PerSocket)
    /\ joins' = [joins EXCEPT ![s] = {}]
    /\ replies' = [replies EXCEPT ![s] = {}]
    /\ joined' = joined \ {s}
    /\ mute' = mute \ {s}
    /\ holders' = holders \ {s}
    /\ subscribed' = subscribed \ {s}
    /\ UNCHANGED <<pendingJoinRef, token, dialing, renewing, stopped, quiet,
                   revoked, refused>>

-----------------------------------------------------------------------------
(* connect() and the mint it awaits.                                       *)

\* The reconnect timer fires: connect() up to its first await.  A token that
\* is not near expiry is used as it is, without asking the backend.
Reconnect ==
    /\ "reconnect" \in timers
    /\ timers' = timers \ {"reconnect"}
    /\ \/ /\ stopped
          /\ UNCHANGED <<readyState, ws, dialing>>
       \/ /\ ~stopped /\ token = "fresh"
          /\ OpenSocket
          /\ UNCHANGED dialing
       \/ /\ ~stopped /\ token # "fresh" /\ dialing < MaxDials
          /\ dialing' = dialing + 1
          /\ UNCHANGED <<readyState, ws>>
    /\ UNCHANGED <<pendingJoinRef, token, renewing, stopped, quiet, env>>

\* The mint succeeds: connect() goes on, without looking at stopped again.
DialOk ==
    /\ dialing > 0 /\ ~revoked
    /\ dialing' = dialing - 1
    /\ token' = "fresh"
    /\ holders' = {}
    /\ OpenSocket
    /\ UNCHANGED <<pendingJoinRef, renewing, stopped, timers, quiet, joins,
                   replies, joined, mute, revoked, refused, subscribed>>

\* Slip: a refusal for good is taken for a transient one.
DialTerminal_Slip ==
    /\ dialing > 0 /\ revoked
    /\ dialing' = dialing - 1
    /\ refused' = TRUE
    /\ timers' = WithReconnect(timers)
    /\ UNCHANGED <<readyState, ws, pendingJoinRef, token, renewing, stopped,
                   quiet, joins, replies, joined, mute, holders, revoked,
                   subscribed>>

\* The mint is refused for good: the channel stops until it is re-paired.
DialTerminal ==
    /\ dialing > 0 /\ revoked
    /\ dialing' = dialing - 1
    /\ stopped' = TRUE
    /\ refused' = TRUE
    /\ timers' = timers \ {"reconnect"}
    /\ UNCHANGED <<readyState, ws, pendingJoinRef, token, renewing, quiet,
                   joins, replies, joined, mute, holders, revoked,
                   subscribed>>

\* The mint fails otherwise (network, 429, 5xx).
DialTransient ==
    /\ dialing > 0
    /\ dialing' = dialing - 1
    /\ timers' = WithReconnect(timers)
    /\ UNCHANGED <<readyState, ws, pendingJoinRef, token, renewing, stopped,
                   quiet, env>>

-----------------------------------------------------------------------------
(* The life of a socket.                                                   *)

\* onopen of s: arm the timers, reset the watchdog, send the join.  send()
\* writes to ws, which need not be s, and drops the frame unless ws is open.
UpgradeOk(s) ==
    LET target == IF ws = s \/ CurrentOpen THEN ws ELSE None
    IN  /\ readyState[s] = "connecting"
        /\ readyState' = [readyState EXCEPT ![s] = "open"]
        /\ timers' = timers \cup PerSocket
        /\ FreshWatchdog
        /\ pendingJoinRef' = AwaitedJoin(s)
        /\ joins' = [t \in Sockets |->
                        IF t = target THEN joins[t] \cup {s} ELSE joins[t]]
        /\ holders' = holders \cup ({target} \ {None})
        /\ UNCHANGED <<ws, token, dialing, renewing, stopped, replies, joined,
                       mute, revoked, refused, subscribed>>

\* req 'error', a non-101 response, or a bad accept key: _emitError.
UpgradeFails(s) ==
    /\ readyState[s] = "connecting"
    /\ HandleClose(s, "unused")

\* 'close' or 'error' of the TCP connection of a socket that is up.
SocketGone(s) ==
    /\ readyState[s] \in {"open", "closing"}
    /\ HandleClose(s, "unused")

\* A close frame: onclose at once, socket.end(), and the connection lingers.
CloseFrame(s) ==
    /\ readyState[s] \in {"open", "closing"} /\ s \notin mute
    /\ HandleClose(s, "lingering")

\* 'error' while it lingers: _emitError calls onclose a second time.
LateError(s) ==
    /\ "lateError" \in Faults
    /\ readyState[s] = "lingering"
    /\ HandleClose(s, "unused")

\* 'close' while it lingers: readyState is 3 already, so nothing is called.
LingerEnds(s) ==
    /\ readyState[s] = "lingering"
    /\ readyState' = [readyState EXCEPT ![s] = "unused"]
    /\ UNCHANGED <<ws, pendingJoinRef, token, dialing, renewing, stopped,
                   timers, quiet, env>>

-----------------------------------------------------------------------------
(* Frames from the server.                                                 *)

Speaks(s) == readyState[s] \in {"open", "closing"} /\ s \notin mute

\* The server accepts join r on s: it streams from now on, and its phx_reply is
\* on the way, ahead of all it streams.
Accept(s, r) ==
    /\ Speaks(s) /\ r \in joins[s]
    /\ joins' = [joins EXCEPT ![s] = @ \ {r}]
    /\ replies' = [replies EXCEPT ![s] = @ \cup {r}]
    /\ joined' = joined \cup {s}
    /\ UNCHANGED <<code, mute, holders, revoked, refused, subscribed>>

\* onmessage reads the reply, and compares r with pendingJoinRef.
JoinOk(s, r) ==
    /\ Speaks(s) /\ r \in replies[s]
    /\ quiet' = FALSE
    /\ replies' = [replies EXCEPT ![s] = @ \ {r}]
    /\ IF pendingJoinRef = r
       THEN /\ pendingJoinRef' = None
            /\ subscribed' = subscribed \cup {s}
       ELSE UNCHANGED <<pendingJoinRef, subscribed>>
    /\ UNCHANGED <<readyState, ws, token, dialing, renewing, stopped, timers,
                   joins, joined, mute, holders, revoked, refused>>

\* The server rejects it: the code only logs the reply.
JoinError(s, r) ==
    /\ "joinError" \in Faults
    /\ Speaks(s) /\ r \in joins[s]
    /\ quiet' = FALSE
    /\ joins' = [joins EXCEPT ![s] = @ \ {r}]
    /\ UNCHANGED <<readyState, ws, pendingJoinRef, token, dialing, renewing,
                   stopped, timers, replies, joined, mute, holders, revoked,
                   refused, subscribed>>

\* A heartbeat reply, a change or any other frame: noteServerReply.
ServerFrame(s) ==
    /\ Speaks(s) /\ quiet
    /\ quiet' = FALSE
    /\ UNCHANGED <<readyState, ws, pendingJoinRef, token, dialing, renewing,
                   stopped, timers, env>>

\* A system error "token has expired".
TokenExpiredNotice(s) ==
    /\ Speaks(s) /\ token = "stale" /\ renewing < MaxRenewals
    /\ renewing' = renewing + 1
    /\ quiet' = FALSE
    /\ UNCHANGED <<readyState, ws, pendingJoinRef, token, dialing, stopped,
                   timers, env>>

-----------------------------------------------------------------------------
(* Token renewal.                                                          *)

RenewTimer ==
    /\ "renew" \in timers /\ renewing < MaxRenewals
    /\ timers' = timers \ {"renew"}
    /\ renewing' = renewing + 1
    /\ UNCHANGED <<readyState, ws, pendingJoinRef, token, dialing, stopped,
                   quiet, env>>

\* renewAndPushToken: push to ws if it is open, and re-arm the timer.
RenewOk ==
    /\ renewing > 0 /\ ~revoked
    /\ renewing' = renewing - 1
    /\ token' = "fresh"
    /\ holders' = PushedTo
    /\ timers' = timers \cup {"renew"}
    /\ UNCHANGED <<readyState, ws, pendingJoinRef, dialing, stopped, quiet,
                   joins, replies, joined, mute, revoked, refused,
                   subscribed>>

\* Slip: it schedules the reconnection that onclose schedules too.
RenewFails_Slip ==
    /\ renewing > 0
    /\ renewing' = renewing - 1
    /\ CloseCurrent
    /\ timers' = WithReconnect(timers)
    /\ refused' \in {refused, refused \/ revoked}
    /\ UNCHANGED <<ws, pendingJoinRef, token, dialing, stopped, quiet,
                   joins, replies, joined, mute, holders, revoked,
                   subscribed>>

\* Its catch block is the same for a terminal and a transient failure.
RenewFails ==
    /\ renewing > 0
    /\ renewing' = renewing - 1
    /\ CloseCurrent
    /\ refused' \in {refused, refused \/ revoked}
    /\ UNCHANGED <<ws, pendingJoinRef, token, dialing, stopped, timers, quiet,
                   joins, replies, joined, mute, holders, revoked,
                   subscribed>>

-----------------------------------------------------------------------------
(* The watchdog, time, and the world outside.                              *)

\* The server answers heartbeats, which send() writes to ws.
Answering == CurrentOpen /\ ws \notin mute /\ "heartbeat" \in timers

SilenceElapses ==
    /\ ~quiet /\ "watchdog" \in timers /\ ~Answering
    /\ quiet' = TRUE
    /\ UNCHANGED <<readyState, ws, pendingJoinRef, token, dialing, renewing,
                   stopped, timers, env>>

WatchdogTick ==
    /\ "watchdog" \in timers /\ quiet /\ CurrentOpen
    /\ CloseCurrent
    /\ UNCHANGED <<ws, pendingJoinRef, token, dialing, renewing, stopped,
                   timers, quiet, env>>

TokenAges ==
    /\ token = "fresh"
    /\ token' = "stale"
    /\ UNCHANGED <<readyState, ws, pendingJoinRef, dialing, renewing, stopped,
                   timers, quiet, env>>

GoMute(s) ==
    /\ "mute" \in Faults
    /\ readyState[s] = "open" /\ s \notin mute
    /\ mute' = mute \cup {s}
    /\ UNCHANGED <<code, joins, replies, joined, holders, revoked, refused,
                   subscribed>>

Revoke ==
    /\ ~revoked
    /\ revoked' = TRUE
    /\ UNCHANGED <<code, joins, replies, joined, mute, holders, refused,
                   subscribed>>

\* close() of the handle that startStreamSubscription returns.
Close ==
    /\ ~stopped
    /\ stopped' = TRUE
    /\ timers' = {}
    /\ CloseCurrent
    /\ UNCHANGED <<ws, pendingJoinRef, token, dialing, renewing, quiet, env>>

-----------------------------------------------------------------------------
SocketStep(s) ==
    \/ UpgradeOk(s) \/ UpgradeFails(s) \/ SocketGone(s)
    \/ CloseFrame(s) \/ LateError(s) \/ LingerEnds(s)
    \/ \E r \in Sockets : Accept(s, r) \/ JoinOk(s, r) \/ JoinError(s, r)
    \/ ServerFrame(s) \/ TokenExpiredNotice(s) \/ GoMute(s)

Next ==
    \/ Reconnect \/ DialOk \/ DialTerminal \/ DialTransient
    \/ \E s \in Sockets : SocketStep(s)
    \/ RenewTimer \/ RenewOk \/ RenewFails
    \/ SilenceElapses \/ WatchdogTick \/ TokenAges
    \/ Revoke \/ Close

Spec == Init /\ [][Next]_vars

\* A connection that is being closed goes away: the peer answers, or the
\* operating system gives it up.
ClosingEnds(s) == readyState[s] = "closing" /\ SocketGone(s)

\* A join accepted, and its reply read, while the connection is still wanted.
Accepted(s) == readyState[s] = "open" /\ \E r \in Sockets : Accept(s, r)
Answered(s) == readyState[s] = "open" /\ \E r \in Sockets : JoinOk(s, r)

\* Timers fire, time passes, every request and every close is answered (weak
\* fairness); a mint, an upgrade and a join that are tried again and again
\* are not refused every time, and the reply to a join is not lost every time
\* (strong fairness).
Fairness ==
    /\ WF_vars(Reconnect) /\ WF_vars(RenewTimer) /\ WF_vars(WatchdogTick)
    /\ WF_vars(SilenceElapses) /\ WF_vars(TokenAges)
    /\ WF_vars(DialOk \/ DialTerminal \/ DialTransient)
    /\ WF_vars(RenewOk \/ RenewFails)
    /\ SF_vars(DialOk) /\ SF_vars(DialTerminal)
    /\ \A s \in Sockets :
        /\ WF_vars(UpgradeOk(s) \/ UpgradeFails(s))
        /\ WF_vars(ClosingEnds(s)) /\ WF_vars(LingerEnds(s))
        /\ SF_vars(UpgradeOk(s))
        /\ SF_vars(Accepted(s)) /\ SF_vars(Answered(s))

FairSpec == Spec /\ Fairness

-----------------------------------------------------------------------------
(* Safety.                                                                 *)

\* The channel never hangs: unless it was stopped, it has a socket that can
\* still report its own end, a reconnect timer, or a connect() under way
\* (stream.js onclose, scheduleReconnect, connect).
SelfHealing ==
    /\ ~stopped => ws # None \/ "reconnect" \in timers \/ dialing > 0
    /\ ws # None => readyState[ws] \in LiveStates

\* While the current socket is open, its heartbeat and its watchdog run and a
\* renewal of its token is due or under way, whatever earlier sockets, late
\* renewals or failed ones did to the shared timers.
KeepaliveRunning ==
    CurrentOpen /\ ~stopped =>
        /\ {"heartbeat", "watchdog"} \subseteq timers
        /\ "renew" \in timers \/ renewing > 0

\* The server side of the open socket always holds the newest token, however
\* the renewals and the reconnections interleave: otherwise the server drops
\* the channel when the older one expires.
NewestToken == CurrentOpen => ws \in holders

\* The account has at most one connection, and connects through one path at a
\* time (index.js:15, one subscription per process to avoid duplicate inserts).
Live == {s \in Sockets : readyState[s] \in LiveStates}
SingleConnection == \A s, t \in Live : s = t

\* The watchdog only ever finds the open socket quiet when the server really
\* has gone silent on it: a fresh socket never inherits an old one's silence.
QuietMeansDead == quiet /\ CurrentOpen => ws \in mute

\* Every subscription the server established has called onSubscribed, so that
\* the catch-up ran for it, or a reply that onmessage will take for the right
\* one is under way, also when an earlier join was never answered.
CatchUpOnJoin ==
    \A s \in joined : s \in subscribed \/ pendingJoinRef \in replies[s]

-----------------------------------------------------------------------------
(* Liveness.                                                               *)

Receiving == CurrentOpen /\ ws \in joined \cap subscribed /\ ws \notin mute

\* The server rejected the join of the current connection: nothing tries again
\* before that connection goes.
TurnedAway == CurrentOpen /\ joins[ws] = {} /\ ws \notin joined

\* A channel that is not stopped is subscribed again and again, whatever is
\* dropped, closed, silenced or refused on the way, but for a rejected join.
KeepsSubscribing == []<>(stopped \/ Receiving \/ TurnedAway)

\* After a revocation the channel stops in the end.
RevocationStops == revoked ~> stopped

\* A connection on which the server went silent is given up (stream.js:68-75).
SilentLinkReplaced ==
    \A s \in Sockets : (ws = s /\ s \in mute) ~> (ws # s \/ stopped)

-----------------------------------------------------------------------------
(* What the channel promises index.js: module Link.  A stopped channel has *)
(* come to its end when its last socket and its last mint are gone.        *)

Ended == stopped /\ Live = {} /\ dialing = 0

Abstract == INSTANCE Link WITH
    active <- ~Ended,
    joined <- joined # {},
    due    <- \E s \in joined \ subscribed : pendingJoinRef \in replies[s],
    told   <- joined # {} /\ joined \subseteq subscribed

\* However sockets, joins, mints and stops interleave, the account has one
\* subscription at a time, each is announced by onSubscribed once, by a reply
\* that onmessage will take for the right one if it arrives, and only while the
\* subscription lasts; none begins once the channel has ended.
ImplementsLink == Abstract!Spec
=============================================================================
