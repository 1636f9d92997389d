---------------------------- MODULE StreamProofs ----------------------------
(***************************************************************************)
(* Proofs of the safety of Stream, for every set of sockets, every bound   *)
(* and every choice of faults.  ChannelInv is inductive by itself; the     *)
(* properties that need every socket to report its end once, OneDriver     *)
(* first of all, rest on NoLateErrors.                                     *)
(***************************************************************************)
EXTENDS Stream, TLAPS

\* onopen arms the watchdog and the heartbeat together, and both are cleared
\* together (stream.js onclose, close).
WatchdogBacked == "watchdog" \in timers => "heartbeat" \in timers

ChannelInv ==
    /\ SelfHealing
    /\ KeepaliveRunning
    /\ NewestToken
    /\ WatchdogBacked
    /\ QuietMeansDead

\* No 'error' follows a close frame, so that onclose runs once per socket.
NoLateErrors == "lateError" \notin Faults

\* There is one way at a time to the next connection: the socket, the
\* reconnect timer, or a connect() that awaits its token.
OneDriver ==
    /\ \A s \in Sockets : readyState[s] \in LiveStates => s = ws
    /\ ws # None => "reconnect" \notin timers /\ dialing = 0
    /\ "reconnect" \in timers => dialing = 0
    /\ dialing <= 1

\* A join, and then its reply, are under way only on the current socket, and
\* once it is up; and the join is the one that onmessage looks for.
JoinsExpected ==
    \A s, r \in Sockets : r \in joins[s] \cup replies[s] =>
        /\ s = ws /\ r = s /\ pendingJoinRef = s
        /\ readyState[s] # "connecting"
        /\ r \notin joins[s] \cap replies[s]

\* What is told of, or about to be, is a subscription that the server streams.
OfJoined ==
    /\ subscribed \subseteq joined
    /\ \A s \in Sockets : replies[s] # {} => s \in joined

-----------------------------------------------------------------------------
(* Types.                                                                  *)

\* The Boolean variables stay Boolean.
LEMMA FlagsInductive == FlagTypes /\ [Next]_vars => FlagTypes'
<1> SUFFICES ASSUME FlagTypes, [Next]_vars PROVE FlagTypes'
  OBVIOUS
<1> QED
  <2>1. CASE Reconnect
    BY <2>1, Zenon DEF Reconnect, OpenSocket, env, FlagTypes
  <2>2. CASE DialOk
    BY <2>2, Zenon DEF DialOk, OpenSocket, FlagTypes
  <2>3. CASE DialTerminal
    BY <2>3, Zenon DEF DialTerminal, FlagTypes
  <2>4. CASE DialTransient
    BY <2>4, Zenon DEF DialTransient, WithReconnect, env, FlagTypes
  <2>5. CASE RenewTimer
    BY <2>5, Zenon DEF RenewTimer, env, FlagTypes
  <2>6. CASE RenewOk
    BY <2>6, Zenon DEF RenewOk, PushedTo, CurrentOpen, FlagTypes
  <2>7. CASE RenewFails
    BY <2>7, Zenon DEF RenewFails, CloseCurrent, CurrentOpen, FlagTypes
  <2>8. CASE SilenceElapses
    BY <2>8, Zenon DEF SilenceElapses, Answering, env, FlagTypes
  <2>9. CASE WatchdogTick
    BY <2>9, Zenon DEF WatchdogTick, CloseCurrent, env, FlagTypes
  <2>10. CASE TokenAges
    BY <2>10, Zenon DEF TokenAges, env, FlagTypes
  <2>11. CASE Revoke
    BY <2>11, Zenon DEF Revoke, code, FlagTypes
  <2>12. CASE Close
    BY <2>12, Zenon DEF Close, CloseCurrent, env, FlagTypes
  <2>13. ASSUME NEW s \in Sockets, NEW next \in States, HandleClose(s, next)
       PROVE  FlagTypes'
    BY <2>13, Zenon DEF HandleClose, WithReconnect, PerSocket, FlagTypes
  <2>14. ASSUME NEW s \in Sockets,
             UpgradeFails(s) \/ SocketGone(s) \/ CloseFrame(s) \/ LateError(s)
       PROVE  FlagTypes'
    BY <2>13, <2>14 DEF UpgradeFails, SocketGone, CloseFrame, LateError, States
  <2>15. ASSUME NEW s \in Sockets, UpgradeOk(s) PROVE FlagTypes'
    BY <2>15, Zenon DEF UpgradeOk, FreshWatchdog, AwaitedJoin, PerSocket,
        FlagTypes
  <2>16. ASSUME NEW s \in Sockets, LingerEnds(s) PROVE FlagTypes'
    BY <2>16, Zenon DEF LingerEnds, env, FlagTypes
  <2>17. ASSUME NEW s \in Sockets, ServerFrame(s) PROVE FlagTypes'
    BY <2>17, Zenon DEF ServerFrame, Speaks, env, FlagTypes
  <2>18. ASSUME NEW s \in Sockets, TokenExpiredNotice(s) PROVE FlagTypes'
    BY <2>18, Zenon DEF TokenExpiredNotice, Speaks, env, FlagTypes
  <2>19. ASSUME NEW s \in Sockets, GoMute(s) PROVE FlagTypes'
    BY <2>19, Zenon DEF GoMute, code, FlagTypes
  <2>20. ASSUME NEW s \in Sockets, NEW r \in Sockets, JoinOk(s, r)
       PROVE  FlagTypes'
    BY <2>20, Zenon DEF JoinOk, Speaks, FlagTypes
  <2>21. ASSUME NEW s \in Sockets, NEW r \in Sockets, JoinError(s, r)
       PROVE  FlagTypes'
    BY <2>21, Zenon DEF JoinError, Speaks, FlagTypes
  <2>23. ASSUME NEW s \in Sockets, NEW r \in Sockets, Accept(s, r)
       PROVE  FlagTypes'
    BY <2>23, Zenon DEF Accept, Speaks, code, FlagTypes
  <2>22. CASE UNCHANGED vars
    BY <2>22, Zenon DEF vars, code, env, FlagTypes
  <2> QED
    BY <2>1, <2>2, <2>3, <2>4, <2>5, <2>6, <2>7, <2>8, <2>9, <2>10, <2>11,
       <2>12, <2>14, <2>15, <2>16, <2>17, <2>18, <2>19, <2>20, <2>21, <2>22,
       <2>23, Zenon DEF Next, SocketStep

\* The other variables keep their types.
LEMMA DataInductive == DataTypes /\ [Next]_vars => DataTypes'
<1> SUFFICES ASSUME DataTypes, [Next]_vars PROVE DataTypes'
  OBVIOUS
<1> QED
  <2>1. CASE Reconnect
    BY <2>1 DEF Reconnect, OpenSocket, env, DataTypes, States, Timers
  <2>2. CASE DialOk
    BY <2>2 DEF DialOk, OpenSocket, DataTypes, States, Timers
  <2>3. CASE DialTerminal
    BY <2>3 DEF DialTerminal, DataTypes, States, Timers
  <2>4. CASE DialTransient
    BY <2>4 DEF DialTransient, WithReconnect, env, DataTypes, States, Timers
  <2>5. CASE RenewTimer
    BY <2>5 DEF RenewTimer, env, DataTypes, States, Timers
  <2>6. CASE RenewOk
    BY <2>6 DEF RenewOk, PushedTo, CurrentOpen, DataTypes, States, Timers
  <2>7. CASE RenewFails
    BY <2>7 DEF RenewFails, CloseCurrent, CurrentOpen, DataTypes, States,
        Timers
  <2>8. CASE SilenceElapses
    BY <2>8 DEF SilenceElapses, Answering, env, DataTypes, States, Timers
  <2>9. CASE WatchdogTick
    BY <2>9 DEF WatchdogTick, CloseCurrent, env, DataTypes, States, Timers
  <2>10. CASE TokenAges
    BY <2>10 DEF TokenAges, env, DataTypes, States, Timers
  <2>11. CASE Revoke
    BY <2>11 DEF Revoke, code, DataTypes, States, Timers
  <2>12. CASE Close
    BY <2>12 DEF Close, CloseCurrent, env, DataTypes, States, Timers
  <2>13. ASSUME NEW s \in Sockets, NEW next \in States, HandleClose(s, next)
       PROVE  DataTypes'
    BY <2>13 DEF HandleClose, WithReconnect, PerSocket, DataTypes, States,
        Timers
  <2>14. ASSUME NEW s \in Sockets,
             UpgradeFails(s) \/ SocketGone(s) \/ CloseFrame(s) \/ LateError(s)
       PROVE  DataTypes'
    BY <2>13, <2>14 DEF UpgradeFails, SocketGone, CloseFrame, LateError, States
  <2>15. ASSUME NEW s \in Sockets, UpgradeOk(s) PROVE DataTypes'
    BY <2>15 DEF UpgradeOk, FreshWatchdog, AwaitedJoin, PerSocket, DataTypes,
        States, Timers
  <2>16. ASSUME NEW s \in Sockets, LingerEnds(s) PROVE DataTypes'
    BY <2>16 DEF LingerEnds, env, DataTypes, States, Timers
  <2>17. ASSUME NEW s \in Sockets, ServerFrame(s) PROVE DataTypes'
    BY <2>17 DEF ServerFrame, Speaks, env, DataTypes, States, Timers
  <2>18. ASSUME NEW s \in Sockets, TokenExpiredNotice(s) PROVE DataTypes'
    BY <2>18 DEF TokenExpiredNotice, Speaks, env, DataTypes, States, Timers
  <2>19. ASSUME NEW s \in Sockets, GoMute(s) PROVE DataTypes'
    BY <2>19 DEF GoMute, code, DataTypes, States, Timers
  <2>20. ASSUME NEW s \in Sockets, NEW r \in Sockets, JoinOk(s, r)
       PROVE  DataTypes'
    BY <2>20 DEF JoinOk, Speaks, DataTypes, States, Timers
  <2>21. ASSUME NEW s \in Sockets, NEW r \in Sockets, JoinError(s, r)
       PROVE  DataTypes'
    BY <2>21 DEF JoinError, Speaks, DataTypes, States, Timers
  <2>23. ASSUME NEW s \in Sockets, NEW r \in Sockets, Accept(s, r)
       PROVE  DataTypes'
    BY <2>23 DEF Accept, Speaks, code, DataTypes, States, Timers
  <2>22. CASE UNCHANGED vars
    BY <2>22 DEF vars, code, env, DataTypes, States, Timers
  <2> QED
    BY <2>1, <2>2, <2>3, <2>4, <2>5, <2>6, <2>7, <2>8, <2>9, <2>10, <2>11,
       <2>12, <2>14, <2>15, <2>16, <2>17, <2>18, <2>19, <2>20, <2>21, <2>22,
       <2>23, Zenon DEF Next, SocketStep

\* Every variable keeps its type: what startStreamSubscription, the sockets
\* and their environment can reach.
THEOREM TypeCorrect == Spec => []TypeOK
<1>1. Init => FlagTypes
  BY Zenon DEF Init, FlagTypes
<1>2. Init => DataTypes
  BY DEF Init, DataTypes, States, Timers
<1>3. TypeOK /\ [Next]_vars => TypeOK'
  BY FlagsInductive, DataInductive DEF TypeOK
<1> QED
  BY <1>1, <1>2, <1>3, PTL DEF Spec, TypeOK

-----------------------------------------------------------------------------
(* The channel heals itself and keeps its connection alive.                *)

\* ChannelInv is preserved by every step, whatever the environment does.
LEMMA ChannelInductive ==
    DataTypes /\ ChannelInv /\ [Next]_vars => ChannelInv'
<1> SUFFICES ASSUME DataTypes, ChannelInv, [Next]_vars PROVE ChannelInv'
  OBVIOUS
<1> USE SocketsAssumption
<1> USE DEF ChannelInv, SelfHealing, KeepaliveRunning, NewestToken,
            WatchdogBacked, QuietMeansDead
<1> QED
  <2>1. CASE Reconnect
    BY <2>1 DEF Reconnect, OpenSocket, env, LiveStates, CurrentOpen,
        DataTypes, States, Timers
  <2>2. CASE DialOk
    BY <2>2 DEF DialOk, OpenSocket, LiveStates, CurrentOpen, DataTypes,
        States, Timers
  <2>3. CASE DialTerminal
    BY <2>3 DEF DialTerminal, LiveStates, CurrentOpen, DataTypes, States,
        Timers
  <2>4. CASE DialTransient
    BY <2>4 DEF DialTransient, WithReconnect, env, LiveStates, CurrentOpen,
        DataTypes, States, Timers
  <2>5. CASE RenewTimer
    BY <2>5 DEF RenewTimer, env, LiveStates, CurrentOpen, DataTypes, States,
        Timers
  <2>6. CASE RenewOk
    BY <2>6 DEF RenewOk, PushedTo, CurrentOpen, LiveStates, DataTypes,
        States, Timers
  <2>7. CASE RenewFails
    BY <2>7 DEF RenewFails, CloseCurrent, CurrentOpen, LiveStates, DataTypes,
        States, Timers
  <2>8. CASE SilenceElapses
    BY <2>8 DEF SilenceElapses, Answering, env, LiveStates, CurrentOpen,
        DataTypes, States, Timers
  <2>9. CASE WatchdogTick
    BY <2>9 DEF WatchdogTick, CloseCurrent, env, LiveStates, CurrentOpen,
        DataTypes, States, Timers
  <2>10. CASE TokenAges
    BY <2>10 DEF TokenAges, env, LiveStates, CurrentOpen, DataTypes, States,
        Timers
  <2>11. CASE Revoke
    BY <2>11 DEF Revoke, code, LiveStates, CurrentOpen, DataTypes, States,
        Timers
  <2>12. CASE Close
    BY <2>12 DEF Close, CloseCurrent, env, LiveStates, CurrentOpen, DataTypes,
        States, Timers
  <2>13. ASSUME NEW s \in Sockets, NEW next \in States, HandleClose(s, next)
       PROVE  ChannelInv'
    BY <2>13 DEF HandleClose, WithReconnect, PerSocket, LiveStates,
        CurrentOpen, DataTypes, States, Timers
  <2>14. ASSUME NEW s \in Sockets,
             UpgradeFails(s) \/ SocketGone(s) \/ CloseFrame(s) \/ LateError(s)
       PROVE  ChannelInv'
    BY <2>13, <2>14 DEF UpgradeFails, SocketGone, CloseFrame, LateError, States
  <2>15. ASSUME NEW s \in Sockets, UpgradeOk(s) PROVE ChannelInv'
    BY <2>15 DEF UpgradeOk, FreshWatchdog, AwaitedJoin, PerSocket,
        LiveStates, CurrentOpen, DataTypes,
        States, Timers
  <2>16. ASSUME NEW s \in Sockets, LingerEnds(s) PROVE ChannelInv'
    BY <2>16 DEF LingerEnds, env, LiveStates, CurrentOpen, DataTypes, States,
        Timers
  <2>17. ASSUME NEW s \in Sockets, ServerFrame(s) PROVE ChannelInv'
    BY <2>17 DEF ServerFrame, Speaks, env, LiveStates, CurrentOpen, DataTypes,
        States, Timers
  <2>18. ASSUME NEW s \in Sockets, TokenExpiredNotice(s) PROVE ChannelInv'
    BY <2>18 DEF TokenExpiredNotice, Speaks, env, LiveStates, CurrentOpen,
        DataTypes, States, Timers
  <2>19. ASSUME NEW s \in Sockets, GoMute(s) PROVE ChannelInv'
    BY <2>19 DEF GoMute, code, LiveStates, CurrentOpen, DataTypes, States,
        Timers
  <2>20. ASSUME NEW s \in Sockets, NEW r \in Sockets, JoinOk(s, r)
       PROVE  ChannelInv'
    BY <2>20 DEF JoinOk, Speaks, LiveStates, CurrentOpen, DataTypes, States,
        Timers
  <2>21. ASSUME NEW s \in Sockets, NEW r \in Sockets, JoinError(s, r)
       PROVE  ChannelInv'
    BY <2>21 DEF JoinError, Speaks, LiveStates, CurrentOpen, DataTypes,
        States, Timers
  <2>23. ASSUME NEW s \in Sockets, NEW r \in Sockets, Accept(s, r)
       PROVE  ChannelInv'
    BY <2>23 DEF Accept, Speaks, code, LiveStates, CurrentOpen, DataTypes,
        States, Timers
  <2>22. CASE UNCHANGED vars
    BY <2>22 DEF vars, code, env, LiveStates, CurrentOpen, DataTypes, States,
        Timers
  <2> QED
    BY <2>1, <2>2, <2>3, <2>4, <2>5, <2>6, <2>7, <2>8, <2>9, <2>10, <2>11,
       <2>12, <2>14, <2>15, <2>16, <2>17, <2>18, <2>19, <2>20, <2>21, <2>22,
       <2>23, Zenon DEF Next, SocketStep

\* ChannelInv holds in every state.
THEOREM ChannelCorrect == Spec => []ChannelInv
<1>1. Init => ChannelInv
  BY DEF Init, ChannelInv, SelfHealing, KeepaliveRunning, NewestToken,
         WatchdogBacked, QuietMeansDead, CurrentOpen
<1>2. TypeOK /\ ChannelInv /\ [Next]_vars => ChannelInv'
  BY ChannelInductive DEF TypeOK
<1> QED
  BY <1>1, <1>2, TypeCorrect, PTL DEF Spec

\* The channel never hangs without a socket, a timer or a connect() under
\* way, even when onclose runs twice for a socket (scheduleReconnect).
THEOREM SelfHealingCorrect == Spec => []SelfHealing
<1>1. ChannelInv => SelfHealing
  BY DEF ChannelInv
<1> QED
  BY <1>1, ChannelCorrect, PTL

\* An open connection has its heartbeat, its watchdog and a renewal.
THEOREM KeepaliveCorrect == Spec => []KeepaliveRunning
<1>1. ChannelInv => KeepaliveRunning
  BY DEF ChannelInv
<1> QED
  BY <1>1, ChannelCorrect, PTL

\* An open connection was given the newest token.
THEOREM NewestTokenCorrect == Spec => []NewestToken
<1>1. ChannelInv => NewestToken
  BY DEF ChannelInv
<1> QED
  BY <1>1, ChannelCorrect, PTL

\* The watchdog never takes an answering server for a silent one.
THEOREM WatchdogCorrect == Spec => []QuietMeansDead
<1>1. ChannelInv => QuietMeansDead
  BY DEF ChannelInv
<1> QED
  BY <1>1, ChannelCorrect, PTL

-----------------------------------------------------------------------------
(* One connection at a time.                                               *)

DriverInv == OneDriver /\ JoinsExpected /\ OfJoined /\ CatchUpOnJoin

\* DriverInv is preserved by every step when no socket reports twice.
LEMMA DriverInductive ==
    NoLateErrors /\ DataTypes /\ DriverInv /\ [Next]_vars => DriverInv'
<1> SUFFICES ASSUME NoLateErrors, DataTypes, DriverInv, [Next]_vars
             PROVE  DriverInv'
  OBVIOUS
<1> USE SocketsAssumption
<1> USE DEF DriverInv, OneDriver, JoinsExpected, OfJoined,
            CatchUpOnJoin
<1> QED
  <2>1. CASE Reconnect
    BY <2>1 DEF Reconnect, OpenSocket, env, CurrentOpen, LiveStates,
        DataTypes, States, Timers
  <2>2. CASE DialOk
    BY <2>2 DEF DialOk, OpenSocket, CurrentOpen, LiveStates, DataTypes,
        States, Timers
  <2>3. CASE DialTerminal
    BY <2>3 DEF DialTerminal, CurrentOpen, LiveStates, DataTypes, States,
        Timers
  <2>4. CASE DialTransient
    BY <2>4 DEF DialTransient, WithReconnect, env, CurrentOpen, LiveStates,
        DataTypes, States, Timers
  <2>5. CASE RenewTimer
    BY <2>5 DEF RenewTimer, env, CurrentOpen, LiveStates, DataTypes, States,
        Timers
  <2>6. CASE RenewOk
    BY <2>6 DEF RenewOk, PushedTo, CurrentOpen, LiveStates, DataTypes,
        States, Timers
  <2>7. CASE RenewFails
    BY <2>7 DEF RenewFails, CloseCurrent, CurrentOpen, LiveStates, DataTypes,
        States, Timers
  <2>8. CASE SilenceElapses
    BY <2>8 DEF SilenceElapses, Answering, env, CurrentOpen, LiveStates,
        DataTypes, States, Timers
  <2>9. CASE WatchdogTick
    BY <2>9 DEF WatchdogTick, CloseCurrent, env, CurrentOpen, LiveStates,
        DataTypes, States, Timers
  <2>10. CASE TokenAges
    BY <2>10 DEF TokenAges, env, CurrentOpen, LiveStates, DataTypes, States,
        Timers
  <2>11. CASE Revoke
    BY <2>11 DEF Revoke, code, CurrentOpen, LiveStates, DataTypes, States,
        Timers
  <2>12. CASE Close
    BY <2>12 DEF Close, CloseCurrent, env, CurrentOpen, LiveStates, DataTypes,
        States, Timers
  <2>13. ASSUME NEW s \in Sockets, NEW next \in States,
             readyState[s] \in LiveStates, next \notin LiveStates,
             HandleClose(s, next)
       PROVE  DriverInv'
    BY <2>13 DEF HandleClose, WithReconnect, PerSocket, CurrentOpen,
        LiveStates, DataTypes, States, Timers
  <2>14. ASSUME NEW s \in Sockets,
             UpgradeFails(s) \/ SocketGone(s) \/ CloseFrame(s) \/ LateError(s)
       PROVE  DriverInv'
    BY <2>13, <2>14 DEF UpgradeFails, SocketGone, CloseFrame, LateError,
        NoLateErrors, LiveStates, States
  <2>15. ASSUME NEW s \in Sockets, UpgradeOk(s) PROVE DriverInv'
    BY <2>15 DEF UpgradeOk, FreshWatchdog, AwaitedJoin, PerSocket,
        CurrentOpen, LiveStates, DataTypes,
        States, Timers
  <2>16. ASSUME NEW s \in Sockets, LingerEnds(s) PROVE DriverInv'
    BY <2>16 DEF LingerEnds, env, CurrentOpen, LiveStates, DataTypes, States,
        Timers
  <2>17. ASSUME NEW s \in Sockets, ServerFrame(s) PROVE DriverInv'
    BY <2>17 DEF ServerFrame, Speaks, env, CurrentOpen, LiveStates, DataTypes,
        States, Timers
  <2>18. ASSUME NEW s \in Sockets, TokenExpiredNotice(s) PROVE DriverInv'
    BY <2>18 DEF TokenExpiredNotice, Speaks, env, CurrentOpen, LiveStates,
        DataTypes, States, Timers
  <2>19. ASSUME NEW s \in Sockets, GoMute(s) PROVE DriverInv'
    BY <2>19 DEF GoMute, code, CurrentOpen, LiveStates, DataTypes, States,
        Timers
  <2>20. ASSUME NEW s \in Sockets, NEW r \in Sockets, JoinOk(s, r)
       PROVE  DriverInv'
    BY <2>20 DEF JoinOk, Speaks, CurrentOpen, LiveStates, DataTypes, States,
        Timers
  <2>21. ASSUME NEW s \in Sockets, NEW r \in Sockets, JoinError(s, r)
       PROVE  DriverInv'
    BY <2>21 DEF JoinError, Speaks, CurrentOpen, LiveStates, DataTypes,
        States, Timers
  <2>23. ASSUME NEW s \in Sockets, NEW r \in Sockets, Accept(s, r)
       PROVE  DriverInv'
    BY <2>23 DEF Accept, Speaks, code, CurrentOpen, LiveStates, DataTypes,
        States, Timers
  <2>22. CASE UNCHANGED vars
    BY <2>22 DEF vars, code, env, CurrentOpen, LiveStates, DataTypes, States,
        Timers
  <2> QED
    BY <2>1, <2>2, <2>3, <2>4, <2>5, <2>6, <2>7, <2>8, <2>9, <2>10, <2>11,
       <2>12, <2>14, <2>15, <2>16, <2>17, <2>18, <2>19, <2>20, <2>21, <2>22,
       <2>23, Zenon DEF Next, SocketStep

\* Without late errors DriverInv holds in every state.
LEMMA DriverCorrect == NoLateErrors => (Spec => []DriverInv)
<1> SUFFICES ASSUME NoLateErrors PROVE Spec => []DriverInv
  OBVIOUS
<1>1. Init => DriverInv
  BY DEF Init, DriverInv, OneDriver, JoinsExpected, OfJoined,
            CatchUpOnJoin, LiveStates
<1>2. TypeOK /\ DriverInv /\ [Next]_vars => DriverInv'
  BY DriverInductive DEF TypeOK
<1> QED
  BY <1>1, <1>2, TypeCorrect, PTL DEF Spec

\* The account never has two connections at once, as long as no socket calls
\* onclose twice.
THEOREM SingleConnectionCorrect ==
    NoLateErrors => (Spec => []SingleConnection)
<1> SUFFICES ASSUME NoLateErrors PROVE Spec => []SingleConnection
  OBVIOUS
<1>1. DriverInv => SingleConnection
  BY DEF DriverInv, OneDriver, SingleConnection, Live
<1> QED
  BY <1>1, DriverCorrect, PTL

\* Under the same condition every subscription of the server's has run the
\* catch-up, or has the reply that starts it under way, whatever joins were
\* left unanswered before.
THEOREM CatchUpCorrect == NoLateErrors => (Spec => []CatchUpOnJoin)
<1> SUFFICES ASSUME NoLateErrors PROVE Spec => []CatchUpOnJoin
  OBVIOUS
<1>1. DriverInv => CatchUpOnJoin
  BY DEF DriverInv
<1> QED
  BY <1>1, DriverCorrect, PTL
-----------------------------------------------------------------------------
(* The channel implements Link.                                            *)

\* The server streams to connections that are up only: HandleClose takes a
\* socket that goes out of joined.
JoinedUp == \A s \in joined : readyState[s] \in {"open", "closing"}

LinkInv == DriverInv /\ JoinedUp

\* JoinedUp is preserved by every step.
LEMMA JoinedUpInductive == DataTypes /\ JoinedUp /\ [Next]_vars => JoinedUp'
<1> SUFFICES ASSUME DataTypes, JoinedUp, [Next]_vars PROVE JoinedUp'
  OBVIOUS
<1> USE SocketsAssumption DEF JoinedUp, DataTypes, States
<1> QED
  <2>1. CASE Reconnect
    BY <2>1 DEF Reconnect, OpenSocket, env
  <2>2. CASE DialOk
    BY <2>2 DEF DialOk, OpenSocket
  <2>3. CASE DialTerminal \/ DialTransient
    BY <2>3 DEF DialTerminal, DialTransient, env
  <2>4. CASE RenewTimer \/ RenewOk
    BY <2>4 DEF RenewTimer, RenewOk, env
  <2>5. CASE RenewFails \/ WatchdogTick \/ Close
    BY <2>5 DEF RenewFails, WatchdogTick, Close, CloseCurrent, CurrentOpen, env
  <2>6. CASE SilenceElapses \/ TokenAges \/ Revoke
    BY <2>6 DEF SilenceElapses, TokenAges, Revoke, env, code
  <2>7. ASSUME NEW s \in Sockets, NEW next \in States, HandleClose(s, next)
       PROVE  JoinedUp'
    BY <2>7 DEF HandleClose
  <2>8. ASSUME NEW s \in Sockets,
             UpgradeFails(s) \/ SocketGone(s) \/ CloseFrame(s) \/ LateError(s)
       PROVE  JoinedUp'
    BY <2>7, <2>8 DEF UpgradeFails, SocketGone, CloseFrame, LateError
  <2>9. ASSUME NEW s \in Sockets, UpgradeOk(s) \/ LingerEnds(s)
       PROVE  JoinedUp'
    BY <2>9 DEF UpgradeOk, LingerEnds, env
  <2>10. ASSUME NEW s \in Sockets,
              ServerFrame(s) \/ TokenExpiredNotice(s) \/ GoMute(s)
       PROVE  JoinedUp'
    BY <2>10 DEF ServerFrame, TokenExpiredNotice, GoMute, env, code
  <2>11. ASSUME NEW s \in Sockets, NEW r \in Sockets,
              Accept(s, r) \/ JoinOk(s, r) \/ JoinError(s, r)
       PROVE  JoinedUp'
    BY <2>11 DEF Accept, JoinOk, JoinError, Speaks, code
  <2>12. CASE UNCHANGED vars
    BY <2>12 DEF vars, code, env
  <2> QED
    BY <2>1, <2>2, <2>3, <2>4, <2>5, <2>6, <2>8, <2>9, <2>10, <2>11, <2>12,
       Zenon DEF Next, SocketStep

\* Every step of the channel is a step of Link or changes nothing of it.
LEMMA LinkStep ==
    NoLateErrors /\ DataTypes /\ LinkInv /\ [Next]_vars
        => [Abstract!Next]_(Abstract!vars)
<1> SUFFICES ASSUME NoLateErrors, DataTypes, LinkInv, [Next]_vars
             PROVE  [Abstract!Next]_(Abstract!vars)
  OBVIOUS
<1> USE SocketsAssumption
<1> USE DEF LinkInv, JoinedUp, DriverInv, OneDriver, JoinsExpected,
            OfJoined, CatchUpOnJoin, DataTypes, Live, LiveStates, States, Ended,
            Abstract!Next, Abstract!Join, Abstract!Tell, Abstract!Drop,
            Abstract!End, Abstract!Begin, Abstract!vars
<1> QED
  <2>1. CASE Reconnect
    BY <2>1 DEF Reconnect, OpenSocket, env
  <2>2. CASE DialOk
    BY <2>2 DEF DialOk, OpenSocket
  <2>3. CASE DialTerminal
    BY <2>3 DEF DialTerminal
  <2>4. CASE DialTransient
    BY <2>4 DEF DialTransient, env
  <2>5. CASE RenewTimer \/ RenewOk
    BY <2>5 DEF RenewTimer, RenewOk, env
  <2>6. CASE RenewFails \/ WatchdogTick
    BY <2>6 DEF RenewFails, WatchdogTick, CloseCurrent, CurrentOpen, env
  <2>7. CASE Close
    BY <2>7 DEF Close, CloseCurrent, CurrentOpen, env
  <2>8. CASE SilenceElapses \/ TokenAges \/ Revoke
    BY <2>8 DEF SilenceElapses, TokenAges, Revoke, env, code
  <2>9. ASSUME NEW s \in Sockets, NEW next \in States,
              readyState[s] \in LiveStates, HandleClose(s, next)
       PROVE  [Abstract!Next]_(Abstract!vars)
    BY <2>9 DEF HandleClose
  <2>10. ASSUME NEW s \in Sockets,
             UpgradeFails(s) \/ SocketGone(s) \/ CloseFrame(s) \/ LateError(s)
       PROVE  [Abstract!Next]_(Abstract!vars)
    BY <2>9, <2>10 DEF UpgradeFails, SocketGone, CloseFrame, LateError,
        NoLateErrors
  <2>11. ASSUME NEW s \in Sockets, UpgradeOk(s)
       PROVE  [Abstract!Next]_(Abstract!vars)
    BY <2>11 DEF UpgradeOk
  <2>12. ASSUME NEW s \in Sockets, LingerEnds(s)
       PROVE  [Abstract!Next]_(Abstract!vars)
    BY <2>12 DEF LingerEnds, env
  <2>13. ASSUME NEW s \in Sockets,
              ServerFrame(s) \/ TokenExpiredNotice(s) \/ GoMute(s)
       PROVE  [Abstract!Next]_(Abstract!vars)
    BY <2>13 DEF ServerFrame, TokenExpiredNotice, GoMute, env, code
  <2>14. ASSUME NEW s \in Sockets, NEW r \in Sockets, JoinOk(s, r)
       PROVE  [Abstract!Next]_(Abstract!vars)
    BY <2>14 DEF JoinOk, Speaks
  <2>15. ASSUME NEW s \in Sockets, NEW r \in Sockets, JoinError(s, r)
       PROVE  [Abstract!Next]_(Abstract!vars)
    BY <2>15 DEF JoinError, Speaks
  <2>16. ASSUME NEW s \in Sockets, NEW r \in Sockets, Accept(s, r)
       PROVE  [Abstract!Next]_(Abstract!vars)
    BY <2>16 DEF Accept, Speaks, code
  <2>17. CASE UNCHANGED vars
    BY <2>17 DEF vars, code, env
  <2> QED
    BY <2>1, <2>2, <2>3, <2>4, <2>5, <2>6, <2>7, <2>8, <2>10, <2>11, <2>12,
       <2>13, <2>14, <2>15, <2>16, <2>17, Zenon DEF Next, SocketStep

\* Where no socket calls onclose twice, the channel of stream.js implements
\* Link: what module Inbound is built on.
THEOREM ChannelImplementsLink == NoLateErrors => (Spec => ImplementsLink)
<1> SUFFICES ASSUME NoLateErrors PROVE Spec => ImplementsLink
  OBVIOUS
<1>1. Init => Abstract!Init
  BY DEF Init, Abstract!Init, Ended
<1>2. Init => JoinedUp
  BY DEF Init, JoinedUp
<1>3. TypeOK /\ JoinedUp /\ [Next]_vars => JoinedUp'
  BY JoinedUpInductive DEF TypeOK
<1>4. TypeOK /\ DriverInv /\ JoinedUp /\ [Next]_vars
          => [Abstract!Next]_(Abstract!vars)
  BY LinkStep DEF TypeOK, LinkInv
<1> QED
  BY <1>1, <1>2, <1>3, <1>4, TypeCorrect, DriverCorrect, PTL
     DEF Spec, ImplementsLink, Abstract!Spec
=============================================================================
