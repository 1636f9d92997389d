--------------------------- MODULE HeartbeatProofs ---------------------------
(* Theorems about module Heartbeat, for all windows and bounds.            *)
EXTENDS Heartbeat, SequenceTheorems, TLAPS

USE DEF vars, turn, texts

\* Constants are natural numbers.
LEMMA Constants ==
    /\ CheckInterval \in Nat /\ CheckInterval > 0
    /\ BroadcastAfter \in Nat /\ LivenessWindow \in Nat
    /\ StallAfter \in Nat /\ MaxDelay \in Nat /\ MaxTexts \in Nat
BY ConstantsAssumption

\* The bounds that the steps below need.
LEMMA Sums ==
    /\ \A s \in Nat : 0 <= s + LivenessWindow + MaxDelay
    /\ \A u \in 0..CheckInterval : 0 + u <= BroadcastAfter + CheckInterval
BY Constants

-----------------------------------------------------------------------------
(* Types.                                                                  *)

\* What a broadcast does to the requests under way and to the clock.
BroadcastOrNot == Broadcast \/ UNCHANGED <<flight, sinceBroadcast>>

\* A broadcast keeps the types of what it touches.
LEMMA BroadcastTypes ==
    ASSUME TypeOK, BroadcastOrNot
    PROVE  flight' \subseteq 0..MaxDelay /\ sinceBroadcast' \in Nat
<1>1. CASE Broadcast
    BY <1>1, Constants DEF TypeOK, Broadcast
<1>2. CASE UNCHANGED <<flight, sinceBroadcast>>
    BY <1>2 DEF TypeOK
<1> QED BY <1>1, <1>2 DEF BroadcastOrNot

\* A flush keeps the types of what it touches.
LEMMA FlushTypes ==
    ASSUME TypeOK, FlushReasoningBuf
    PROVE  /\ buffer' \in Seq(1..MaxTexts) /\ sent' \in Seq(1..MaxTexts)
           /\ armed' \in BOOLEAN /\ flight' \subseteq 0..MaxDelay
           /\ sinceBroadcast' \in Nat /\ produced' \in 0..MaxTexts
<1> USE Constants
<1>1. sent \o buffer \in Seq(1..MaxTexts)
    BY ConcatProperties DEF TypeOK
<1>2. <<>> \in Seq(1..MaxTexts)
    BY EmptySeq
<1>3. BroadcastOrNot
    BY DEF FlushReasoningBuf, BroadcastOrNot
<1>4. flight' \subseteq 0..MaxDelay /\ sinceBroadcast' \in Nat
    BY <1>3, BroadcastTypes
<1> QED BY <1>1, <1>2, <1>4 DEF TypeOK, FlushReasoningBuf

LEMMA TypeInductive == TypeOK /\ [Next]_vars => TypeOK'
<1> SUFFICES ASSUME TypeOK, [Next]_vars PROVE TypeOK'
    OBVIOUS
<1> USE Constants
<1>1. CASE StartedReturns BY <1>1 DEF TypeOK, StartedReturns
<1>2. CASE SeedReturns BY <1>2 DEF TypeOK, SeedReturns
<1>3. CASE Thinking
    <2>1. buffer' \in Seq(1..MaxTexts)
        BY <1>3, AppendProperties DEF TypeOK, Thinking, EnqueueReasoningDelta
    <2> QED BY <1>3, <2>1 DEF TypeOK, Thinking, EnqueueReasoningDelta
<1>4. CASE Tool BY <1>4 DEF TypeOK, Tool, Broadcast
<1>5. CASE Other BY <1>5 DEF TypeOK, Other
<1>6. CASE ReasoningTimer
    <2>1. FlushReasoningBuf BY <1>6 DEF ReasoningTimer
    <2> QED BY <1>6, <2>1, FlushTypes DEF TypeOK, ReasoningTimer
<1>7. CASE HeartbeatTimer
    <2>1. BroadcastOrNot BY <1>7 DEF HeartbeatTimer, BroadcastOrNot
    <2> QED BY <1>7, <2>1, BroadcastTypes DEF TypeOK, HeartbeatTimer
<1>8. CASE Finalize
    <2>1. CASE armed
        BY <1>8, <2>1, FlushTypes DEF TypeOK, Finalize
    <2>2. CASE ~armed BY <1>8, <2>2 DEF TypeOK, Finalize
    <2> QED BY <2>1, <2>2
<1>9. CASE Arrives BY <1>9 DEF TypeOK, Arrives
<1>10. CASE Lost BY <1>10 DEF TypeOK, Lost
<1>11. CASE Tick
    <2>1. flight' \subseteq 0..MaxDelay
        <3>1. flight \subseteq 0..MaxDelay /\ MaxDelay \notin flight
              /\ flight' = {age + 1 : age \in flight}
            BY <1>11 DEF TypeOK, Tick, Quiet
        <3>2. \A age \in flight : age + 1 \in 0..MaxDelay
            BY <3>1
        <3> QED BY <3>1, <3>2
    <2> QED BY <1>11, <2>1 DEF TypeOK, Tick, Quiet
<1>12. CASE UNCHANGED vars BY <1>12 DEF TypeOK
<1> QED
    BY <1>1, <1>2, <1>3, <1>4, <1>5, <1>6, <1>7, <1>8, <1>9, <1>10, <1>11,
       <1>12 DEF Next

LEMMA TypeInit == Init => TypeOK
<1> SUFFICES ASSUME Init PROVE TypeOK
    OBVIOUS
<1>1. <<>> \in Seq(1..MaxTexts)
    BY EmptySeq
<1>2. 0 \in 0..MaxDelay /\ CheckInterval \in 0..CheckInterval
      /\ 0 \in 0..MaxTexts
    BY Constants
<1>3. flight \subseteq 0..MaxDelay
    BY <1>2 DEF Init
<1> QED BY <1>1, <1>2, <1>3 DEF Init, TypeOK

\* Every variable keeps its type.
THEOREM TypeCorrect == Spec => []TypeOK
BY TypeInit, TypeInductive, PTL DEF Spec

-----------------------------------------------------------------------------
(* A hang shows.                                                           *)

\* What is in flight was sent while the agent was alive, and so the app has
\* heard nothing since for as long as the agent was quiet beyond its window.
HangInv ==
    pc # "over" =>
        /\ armed => sinceEvent = 0
        /\ \A age \in flight : sinceEvent <= LivenessWindow + age
        /\ sinceEvent <= silence + LivenessWindow + MaxDelay

LEMMA HangInductive ==
    TypeOK /\ HangInv /\ [Next]_vars => HangInv'
<1> SUFFICES ASSUME TypeOK, HangInv, [Next]_vars, pc' # "over" PROVE HangInv'
    BY DEF HangInv
<1> USE Constants
<1>1. CASE StartedReturns
    BY <1>1 DEF TypeOK, HangInv, StartedReturns
<1>2. CASE SeedReturns
    BY <1>2 DEF TypeOK, HangInv, SeedReturns
<1>3. CASE Thinking
    BY <1>3 DEF TypeOK, HangInv, Thinking, EnqueueReasoningDelta
<1>4. CASE Tool
    BY <1>4 DEF TypeOK, HangInv, Tool, Broadcast
<1>5. CASE Other
    BY <1>5 DEF TypeOK, HangInv, Other
<1>6. CASE ReasoningTimer
    <2>1. sinceEvent' = 0 /\ ~armed'
        BY <1>6 DEF HangInv, ReasoningTimer, FlushReasoningBuf
    <2>2. flight' \subseteq Nat /\ silence' \in Nat
        <3>1. BroadcastOrNot /\ UNCHANGED silence
            BY <1>6 DEF ReasoningTimer, FlushReasoningBuf, BroadcastOrNot
        <3> QED BY <3>1, BroadcastTypes DEF TypeOK
    <2>3. \A age \in flight' : 0 <= LivenessWindow + age
        BY <2>2
    <2>4. 0 <= silence' + LivenessWindow + MaxDelay
        <3>1. silence' \in Nat BY <2>2
        <3> QED BY <3>1, Sums
    <2> QED BY <2>1, <2>3, <2>4 DEF HangInv
<1>7. CASE HeartbeatTimer
    <2>1. pc # "over" /\ UNCHANGED <<sinceEvent, silence, armed>>
        BY <1>7 DEF HeartbeatTimer
    <2>2. flight' = flight
            \/ (flight' = flight \cup {0} /\ sinceEvent < LivenessWindow)
        <3>1. CASE AgentAlive /\ BroadcastStale
            BY <1>7, <3>1 DEF HeartbeatTimer, AgentAlive, Broadcast
        <3>2. CASE ~(AgentAlive /\ BroadcastStale)
            BY <1>7, <3>2 DEF HeartbeatTimer
        <3> QED BY <3>1, <3>2
    <2>3. \A age \in flight' : sinceEvent <= LivenessWindow + age
        <3>1. \A age \in flight : sinceEvent <= LivenessWindow + age
            BY <2>1 DEF HangInv
        <3>2. sinceEvent \in Nat BY DEF TypeOK
        <3> QED BY <2>2, <3>1, <3>2
    <2> QED BY <2>1, <2>3 DEF HangInv
<1>8. CASE Finalize
    BY <1>8 DEF Finalize
<1>9. CASE Arrives
    BY <1>9 DEF TypeOK, HangInv, Arrives
<1>10. CASE Lost
    BY <1>10 DEF TypeOK, HangInv, Lost
<1>11. CASE Tick
    BY <1>11 DEF TypeOK, HangInv, Tick, Quiet
<1>12. CASE UNCHANGED vars
    BY <1>12 DEF HangInv
<1> QED
    BY <1>1, <1>2, <1>3, <1>4, <1>5, <1>6, <1>7, <1>8, <1>9, <1>10, <1>11,
       <1>12 DEF Next

\* For all windows: the heartbeat falls silent with the agent, and the app's
\* stall flag comes at most LivenessWindow, StallAfter and MaxDelay after the
\* agent's last event.
THEOREM HangCorrect == Spec => []HangShows
<1>1. Init => HangInv
    BY Constants DEF Init, HangInv
<1>2. TypeOK /\ HangInv => HangShows
    BY Constants DEF TypeOK, HangInv, HangShows, Watched
<1> QED BY <1>1, <1>2, HangInductive, TypeCorrect, PTL DEF Spec

-----------------------------------------------------------------------------
(* A live turn is not taken for stalled.                                   *)

\* The checks of a heartbeat, from its start.
Checks == {CheckInterval * n : n \in Nat}

\* The windows add up: a broadcast just fresh enough for one check, the next
\* check, and the way to the app.  At the start of a turn the checks begin
\* when two requests have been awaited, and the broadcast counts from the
\* return of the first.
InTime ==
    /\ MaxDelay <= BroadcastAfter
    /\ BroadcastAfter + CheckInterval + MaxDelay < StallAfter
    /\ \A m \in Checks : m <= BroadcastAfter
            => m + CheckInterval + 3 * MaxDelay < StallAfter

LEMMA ChecksGoOn ==
    /\ Checks \subseteq Nat /\ 0 \in Checks
    /\ \A m \in Checks : m + CheckInterval \in Checks
<1>1. ASSUME NEW n \in Nat
      PROVE  /\ CheckInterval * n \in Nat
             /\ CheckInterval * n + CheckInterval = CheckInterval * (n + 1)
             /\ n + 1 \in Nat
    BY Constants
<1>2. CheckInterval * 0 = 0
    BY Constants
<1> QED BY <1>1, <1>2 DEF Checks

LEMMA ShortDelay == InTime => 3 * MaxDelay < StallAfter
BY Constants, ChecksGoOn DEF InTime

\* No broadcast since the turn's first: the age of that is what has passed
\* since the last check, but for the time that the seed took.
Starting ==
    /\ silence <= sinceBroadcast + MaxDelay
    /\ pc = "running" => \E m \in Checks :
        /\ m <= BroadcastAfter
        /\ m + CheckInterval <= sinceBroadcast + untilCheck
        /\ sinceBroadcast + untilCheck <= m + CheckInterval + MaxDelay

\* The last broadcast is no older than what is left of the check allows, and
\* the app has heard it, or one that is in flight is on its way in time.
AliveInv ==
    pc # "over" =>
        /\ \A age \in flight : sinceBroadcast <= age
        /\ pc # "running" => sinceBroadcast <= waited
        /\ pc = "started" => silence <= waited \/ excused
        /\ ~excused =>
            /\ sinceEvent >= LivenessWindow => sinceBroadcast <= MaxDelay
            /\ pc = "running" => sinceBroadcast + untilCheck
                                    <= BroadcastAfter + CheckInterval
            /\ flight = {} => silence <= sinceBroadcast \/ Starting
            /\ flight # {} => \E age \in flight :
                silence + MaxDelay < StallAfter + age

\* The app has heard enough for another request to be in time.
LEMMA HeardEnough ==
    ASSUME TypeOK, AliveInv, InTime, ~excused, flight = {}, pc # "over"
    PROVE  silence + MaxDelay < StallAfter
<1> USE Constants, ShortDelay, ChecksGoOn
<1>1. CASE pc # "running"
    <2>1. silence <= sinceBroadcast + MaxDelay /\ sinceBroadcast <= MaxDelay
        BY <1>1 DEF TypeOK, AliveInv, Starting
    <2> QED BY <2>1 DEF TypeOK
<1>2. CASE pc = "running" /\ silence <= sinceBroadcast
    <2>1. sinceBroadcast <= BroadcastAfter + CheckInterval
        BY <1>2 DEF TypeOK, AliveInv
    <2> QED BY <1>2, <2>1 DEF TypeOK, InTime
<1>3. CASE pc = "running" /\ Starting
    <2>1. PICK m \in Checks :
            /\ m <= BroadcastAfter
            /\ sinceBroadcast + untilCheck <= m + CheckInterval + MaxDelay
        BY <1>3 DEF Starting
    <2>2. m + CheckInterval + 3 * MaxDelay < StallAfter
        BY <2>1 DEF InTime
    <2> QED BY <1>3, <2>1, <2>2 DEF TypeOK, Starting
<1> QED BY <1>1, <1>2, <1>3 DEF AliveInv

\* A broadcast keeps the invariant.
LEMMA BroadcastAlive ==
    ASSUME TypeOK, AliveInv, InTime, Broadcast, pc # "over",
           UNCHANGED <<turn, silence, excused>>,
           untilCheck' \in 0..CheckInterval,
           sinceEvent' \in Nat
    PROVE  AliveInv'
<1> USE Constants
<1>1. 0 \in flight' /\ sinceBroadcast' = 0
    BY DEF Broadcast
<1>2. ASSUME ~excused
      PROVE  \E age \in flight' : silence + MaxDelay < StallAfter + age
    <2>1. CASE flight = {}
        <3>1. silence + MaxDelay < StallAfter + 0
            BY <1>2, <2>1, HeardEnough
        <3> QED BY <1>1, <3>1
    <2>2. CASE flight # {}
        BY <1>2, <2>2 DEF AliveInv, Broadcast
    <2> QED BY <2>1, <2>2
<1>3. \A age \in flight' : sinceBroadcast' <= age
    BY <1>1 DEF TypeOK, Broadcast
<1>4. flight' # {}
    BY <1>1
<1>5. waited' \in Nat /\ sinceBroadcast' <= waited'
    BY <1>1 DEF TypeOK
<1>6. sinceBroadcast' <= MaxDelay
    BY <1>1
<1>7. sinceBroadcast' + untilCheck' <= BroadcastAfter + CheckInterval
    <2>1. 0 + untilCheck' <= BroadcastAfter + CheckInterval
        BY Sums
    <2> QED BY <1>1, <2>1
<1> QED BY <1>2, <1>3, <1>4, <1>5, <1>6, <1>7 DEF AliveInv

LEMMA AliveInductive ==
    InTime /\ TypeOK /\ AliveInv /\ [Next]_vars => AliveInv'
<1> SUFFICES ASSUME InTime, TypeOK, AliveInv, [Next]_vars, pc' # "over"
             PROVE  AliveInv'
    BY DEF AliveInv
<1> USE Constants
<1>1. CASE StartedReturns
    <2>1. ASSUME ~excused PROVE silence <= 0 + MaxDelay
        BY <1>1, <2>1 DEF TypeOK, AliveInv, StartedReturns
    <2> QED BY <1>1, <2>1 DEF TypeOK, AliveInv, Starting, StartedReturns
<1>2. CASE SeedReturns
    <2>1. sinceBroadcast <= MaxDelay
        BY <1>2 DEF TypeOK, AliveInv, SeedReturns
    <2>2. \E m \in Checks :
            /\ m <= BroadcastAfter
            /\ m + CheckInterval <= sinceBroadcast + CheckInterval
            /\ sinceBroadcast + CheckInterval
                    <= m + CheckInterval + MaxDelay
        <3>1. 0 \in Checks BY ChecksGoOn
        <3>2. /\ 0 <= BroadcastAfter
              /\ 0 + CheckInterval <= sinceBroadcast + CheckInterval
              /\ sinceBroadcast + CheckInterval
                    <= 0 + CheckInterval + MaxDelay
            BY <2>1 DEF TypeOK
        <3> QED BY <3>1, <3>2
    <2>3. silence <= sinceBroadcast => silence <= sinceBroadcast + MaxDelay
        BY DEF TypeOK
    <2>4. ~excused /\ flight = {} => Starting'
        BY <1>2, <2>2, <2>3 DEF AliveInv, Starting, SeedReturns
    <2>5. sinceBroadcast + CheckInterval <= BroadcastAfter + CheckInterval
        BY <2>1 DEF TypeOK, InTime
    <2> QED BY <1>2, <2>4, <2>5 DEF AliveInv, SeedReturns
<1>3. CASE Thinking
    BY <1>3 DEF TypeOK, AliveInv, Starting, Thinking, EnqueueReasoningDelta
<1>4. CASE Tool
    BY <1>4, BroadcastAlive DEF TypeOK, Tool
<1>5. CASE Other
    BY <1>5 DEF TypeOK, AliveInv, Starting, Other
<1>6. CASE ReasoningTimer
    <2>0. pc # "over" BY <1>6 DEF ReasoningTimer
    <2>1. CASE buffer # <<>>
        BY <1>6, <2>0, <2>1, BroadcastAlive
           DEF TypeOK, ReasoningTimer, FlushReasoningBuf
    <2>2. CASE buffer = <<>>
        BY <1>6, <2>2
           DEF AliveInv, Starting, ReasoningTimer, FlushReasoningBuf
    <2> QED BY <2>1, <2>2
<1>7. CASE HeartbeatTimer
    <2>1. CASE AgentAlive /\ BroadcastStale
        BY <1>7, <2>1, BroadcastAlive DEF TypeOK, HeartbeatTimer
    <2>2. CASE ~(AgentAlive /\ BroadcastStale)
        <3>1. ~excused => sinceBroadcast <= BroadcastAfter
            BY <1>7, <2>2 DEF TypeOK, AliveInv, InTime, HeartbeatTimer,
                              AgentAlive, BroadcastStale
        <3>2. UNCHANGED <<turn, sinceEvent, flight, silence, excused,
                          sinceBroadcast>>
              /\ untilCheck' = CheckInterval /\ pc # "over"
            BY <1>7, <2>2 DEF HeartbeatTimer
        <3>3. ~excused => sinceBroadcast' + untilCheck'
                            <= BroadcastAfter + CheckInterval
            BY <3>1, <3>2 DEF TypeOK
        <3>4. ASSUME Starting, ~excused PROVE Starting'
            <4>1. PICK m \in Checks :
                    /\ m + CheckInterval <= sinceBroadcast
                    /\ sinceBroadcast <= m + CheckInterval + MaxDelay
                BY <1>7, <3>4 DEF TypeOK, Starting, HeartbeatTimer
            <4>2. m + CheckInterval \in Checks /\ m \in Nat
                BY ChecksGoOn
            <4>3. DEFINE n == m + CheckInterval
            <4>4. /\ n <= BroadcastAfter
                  /\ n + CheckInterval <= sinceBroadcast' + untilCheck'
                  /\ sinceBroadcast' + untilCheck'
                        <= n + CheckInterval + MaxDelay
                BY <3>1, <3>2, <3>4, <4>1, <4>2 DEF TypeOK
            <4>5. silence' <= sinceBroadcast' + MaxDelay
                BY <3>2, <3>4 DEF Starting
            <4> QED BY <4>2, <4>4, <4>5 DEF Starting
        <3> QED BY <3>2, <3>3, <3>4 DEF AliveInv
    <2> QED BY <2>1, <2>2
<1>8. CASE Finalize
    BY <1>8 DEF Finalize
<1>9. CASE Arrives
    <2>1. PICK age \in flight : flight' = flight \ {age}
        BY <1>9 DEF Arrives
    <2>2. sinceBroadcast <= MaxDelay
        BY <1>9, <2>1 DEF TypeOK, AliveInv, Arrives
    <2>3. \A a \in flight' : 0 + MaxDelay < StallAfter + a
        BY <2>1, ShortDelay DEF TypeOK
    <2>4. 0 <= sinceBroadcast
        BY DEF TypeOK
    <2>5. sinceEvent >= LivenessWindow => sinceBroadcast <= MaxDelay
        BY <2>2
    <2>6. pc = "running" => sinceBroadcast + untilCheck
                                <= BroadcastAfter + CheckInterval
        BY <2>2 DEF TypeOK, InTime
    <2>7. /\ silence' = 0 /\ pc # "over"
          /\ UNCHANGED <<turn, sinceEvent, sinceBroadcast, untilCheck>>
          /\ flight' \subseteq flight
        BY <1>9, <2>1 DEF Arrives
    <2>8. pc = "started" => 0 <= waited
        BY DEF TypeOK
    <2> QED BY <2>3, <2>4, <2>5, <2>6, <2>7, <2>8 DEF AliveInv
<1>10. CASE Lost
    BY <1>10 DEF TypeOK, AliveInv, Starting, Lost
<1>11. CASE Tick
    <2> USE <1>11
    <2>1. \A age \in flight' : sinceBroadcast' <= age
        BY DEF TypeOK, AliveInv, Tick
    <2>2. pc # "running" => sinceBroadcast' <= waited'
        BY DEF TypeOK, AliveInv, Tick
    <2>3. pc = "started" => silence' <= waited' \/ excused'
        BY DEF TypeOK, AliveInv, Tick
    <2>4. ASSUME ~excused'
          PROVE  /\ sinceEvent' < LivenessWindow
                 /\ pc = "running" => sinceBroadcast' + untilCheck'
                                        <= BroadcastAfter + CheckInterval
                 /\ flight' = {} =>
                        silence' <= sinceBroadcast' \/ Starting'
        <3>1. ~excused /\ sinceEvent' < LivenessWindow
            <4>1. sinceEvent' \in Nat BY DEF TypeOK, Tick
            <4>2. ~excused /\ ~(sinceEvent' >= LivenessWindow)
                BY <2>4 DEF Tick
            <4> QED BY <4>1, <4>2
        <3>2. pc = "running" => sinceBroadcast' + untilCheck'
                                    <= BroadcastAfter + CheckInterval
            BY <3>1 DEF TypeOK, AliveInv, Tick, Quiet
        <3>3. flight' = {} => flight = {}
            BY DEF Tick
        <3>4. /\ silence' = silence + 1
              /\ sinceBroadcast' = sinceBroadcast + 1
              /\ silence \in Nat /\ sinceBroadcast \in Nat
            BY DEF TypeOK, Tick
        <3>5. ASSUME silence <= sinceBroadcast
              PROVE  silence' <= sinceBroadcast'
            BY <3>4, <3>5
        <3>6. ASSUME Starting PROVE Starting'
            <4>1. silence' <= sinceBroadcast' + MaxDelay
                BY <3>4, <3>6 DEF Starting
            <4>2. pc = "running" => sinceBroadcast' + untilCheck'
                                        = sinceBroadcast + untilCheck
                BY <3>4 DEF TypeOK, Tick, Quiet
            <4> QED BY <3>1, <3>2, <3>6, <4>1, <4>2 DEF Starting, Tick
        <3>7. flight = {} => silence <= sinceBroadcast \/ Starting
            BY <3>1 DEF AliveInv, Tick
        <3> QED BY <3>1, <3>2, <3>3, <3>5, <3>6, <3>7
    <2>5. ASSUME ~excused', flight' # {}
          PROVE  \E age \in flight' :
                    silence' + MaxDelay < StallAfter + age
        <3>1. PICK age \in flight : silence + MaxDelay < StallAfter + age
            BY <2>5 DEF TypeOK, AliveInv, Tick
        <3>2. age + 1 \in flight' BY <3>1 DEF Tick
        <3>3. silence' + MaxDelay < StallAfter + (age + 1)
            BY <3>1 DEF TypeOK, Tick
        <3> QED BY <3>2, <3>3
    <2> QED BY <2>1, <2>2, <2>3, <2>4, <2>5 DEF TypeOK, AliveInv, Tick
<1>12. CASE UNCHANGED vars
    BY <1>12 DEF AliveInv, Starting
<1> QED
    BY <1>1, <1>2, <1>3, <1>4, <1>5, <1>6, <1>7, <1>8, <1>9, <1>10, <1>11,
       <1>12 DEF Next

\* For all windows that add up: while the agent gives signs of life and no
\* broadcast is lost, the app never takes the turn for stalled.
THEOREM NoFalseStallCorrect == InTime => (Spec => []NoFalseStall)
<1>1. SUFFICES ASSUME InTime PROVE Spec => []NoFalseStall
    OBVIOUS
<1>2. Init => AliveInv
    BY <1>1, Constants, ShortDelay DEF Init, AliveInv, Starting
<1>3. TypeOK /\ AliveInv /\ [Next]_vars => AliveInv'
    BY <1>1, AliveInductive
<1>4. TypeOK /\ AliveInv => NoFalseStall
    <2> SUFFICES ASSUME TypeOK, AliveInv, pc # "over", ~excused
                 PROVE  silence < StallAfter
        BY DEF NoFalseStall
    <2>1. CASE flight = {}
        BY <1>1, <2>1, Constants, HeardEnough DEF TypeOK
    <2>2. CASE flight # {}
        BY <2>2, Constants DEF TypeOK, AliveInv
    <2> QED BY <2>1, <2>2
<1> QED BY <1>2, <1>3, <1>4, TypeCorrect, PTL DEF Spec

\* The windows of the code, in seconds.
WindowsOfTheCode ==
    /\ CheckInterval = 5 /\ BroadcastAfter = 18
    /\ LivenessWindow = 20 /\ StallAfter = 25

\* The windows of the code leave a broadcast one second, and no more.
LEMMA MarginOfTheCode == WindowsOfTheCode => (InTime <=> MaxDelay <= 1)
<1> SUFFICES ASSUME WindowsOfTheCode PROVE InTime <=> MaxDelay <= 1
    OBVIOUS
<1> USE Constants DEF WindowsOfTheCode
<1>1. ASSUME InTime PROVE MaxDelay <= 1
    BY <1>1 DEF InTime
<1>2. ASSUME MaxDelay <= 1 PROVE InTime
    <2>1. ASSUME NEW n \in Nat, 5 * n <= 18 PROVE 5 * n <= 15
        BY <2>1
    <2>2. \A m \in Checks : m <= 18 => m \in Nat /\ m <= 15
        BY <2>1 DEF Checks
    <2> QED BY <1>2, <2>2, ChecksGoOn DEF InTime
<1> QED BY <1>1, <1>2

\* With the windows of the code and a network that needs a second at most,
\* the app never takes a live turn for stalled, however long it runs.
THEOREM CodeNeverFalselyStalls ==
    WindowsOfTheCode /\ MaxDelay <= 1 => (Spec => []NoFalseStall)
BY MarginOfTheCode, NoFalseStallCorrect

-----------------------------------------------------------------------------
(* The reasoning text.                                                     *)

\* Counting on: the next piece after the first n.
LEMMA OneMore ==
    ASSUME NEW n \in Nat
    PROVE  Append([i \in 1..n |-> i], n + 1) = [i \in 1..(n + 1) |-> i]
<1> DEFINE s == [i \in 1..n |-> i]
<1>1. s \in Seq(Nat) /\ Len(s) = n
    OBVIOUS
<1>2. Append(s, n + 1) \in Seq(Nat) /\ Len(Append(s, n + 1)) = n + 1
    BY <1>1, AppendProperties
<1>3. \A i \in 1..(n + 1) : Append(s, n + 1)[i] = i
    BY <1>1, AppendProperties
<1>4. DOMAIN Append(s, n + 1) = 1..(n + 1)
    BY <1>2, LenProperties
<1> QED BY <1>2, <1>3, <1>4

LEMMA TextsInductive ==
    TypeOK /\ TextsInOrder /\ [Next]_vars => TextsInOrder'
<1> SUFFICES ASSUME TypeOK, TextsInOrder, [Next]_vars PROVE TextsInOrder'
    OBVIOUS
<1>1. CASE Thinking
    <2>1. sent \o Append(buffer, produced + 1)
            = Append(sent \o buffer, produced + 1)
        <3>1. sent \in Seq(Nat) /\ buffer \in Seq(Nat) /\ produced + 1 \in Nat
            BY Constants, SeqMonotonic DEF TypeOK
        <3>2. <<produced + 1>> \in Seq(Nat)
            BY <3>1
        <3>3. sent \o buffer \in Seq(Nat)
            BY <3>1, ConcatProperties
        <3>4. Append(buffer, produced + 1) = buffer \o <<produced + 1>>
            BY <3>1, AppendIsConcat
        <3>5. Append(sent \o buffer, produced + 1)
                = (sent \o buffer) \o <<produced + 1>>
            BY <3>1, <3>3, AppendIsConcat
        <3> QED BY <3>1, <3>2, <3>4, <3>5, ConcatAssociative
    <2>2. sent' \o buffer' = Append(sent \o buffer, produced + 1)
        BY <1>1, <2>1 DEF Thinking, EnqueueReasoningDelta
    <2>3. produced' = produced + 1 /\ produced \in Nat
        BY <1>1, Constants DEF Thinking, TypeOK
    <2> QED BY <2>2, <2>3, OneMore DEF TextsInOrder
<1>2. ASSUME FlushReasoningBuf PROVE TextsInOrder'
    <2>1. sent \o buffer \in Seq(1..MaxTexts)
        BY ConcatProperties DEF TypeOK
    <2>2. (sent \o buffer) \o <<>> = sent \o buffer
        BY <2>1, ConcatEmptySeq
    <2> QED BY <1>2, <2>2 DEF FlushReasoningBuf, TextsInOrder
<1>3. CASE UNCHANGED texts BY <1>3 DEF TextsInOrder
<1> QED
    BY <1>1, <1>2, <1>3
       DEF Next, StartedReturns, SeedReturns, Tool, Other, ReasoningTimer,
           HeartbeatTimer, Finalize, Arrives, Lost, Tick

\* The pieces are broadcast once each and in their order, whatever the timers
\* and the end of the turn do.
THEOREM TextsInOrderCorrect == Spec => []TextsInOrder
<1>1. Init => TextsInOrder
    BY ConcatEmptySeq, EmptySeq DEF Init, TextsInOrder
<1> QED BY <1>1, TextsInductive, TypeCorrect, PTL DEF Spec

LEMMA NoTextStuckInductive ==
    TypeOK /\ NoTextStuck /\ [Next]_vars => NoTextStuck'
<1> SUFFICES ASSUME TypeOK, NoTextStuck, [Next]_vars PROVE NoTextStuck'
    OBVIOUS
<1>1. CASE Thinking
    BY <1>1 DEF NoTextStuck, Thinking, EnqueueReasoningDelta
<1>2. CASE ReasoningTimer
    BY <1>2 DEF NoTextStuck, ReasoningTimer, FlushReasoningBuf
<1>3. CASE Finalize
    BY <1>3 DEF NoTextStuck, Finalize, FlushReasoningBuf
<1>4. CASE UNCHANGED <<buffer, armed>> /\ (pc' = "over" => pc = "over")
    BY <1>4 DEF NoTextStuck
<1> QED
    BY <1>1, <1>2, <1>3, <1>4
       DEF Next, StartedReturns, SeedReturns, Tool, Other, HeartbeatTimer,
           Arrives, Lost, Tick

\* No text stays behind without a timer, nor after the end of the turn.
THEOREM NoTextStuckCorrect == Spec => []NoTextStuck
<1>1. Init => NoTextStuck
    BY DEF Init, NoTextStuck
<1> QED BY <1>1, NoTextStuckInductive, TypeCorrect, PTL DEF Spec
=============================================================================
