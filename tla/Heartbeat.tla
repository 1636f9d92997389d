------------------------------ MODULE Heartbeat ------------------------------
(***************************************************************************)
(* What the app hears of one running turn: the listener, the coalescer of  *)
(* the reasoning text and the heartbeat of handleUserMessage in            *)
(* src/messaging.js.  The app marks a turn as stalled when it has heard    *)
(* nothing for StallAfter; the heartbeat must keep it from doing so while  *)
(* the agent works, and must not while the agent hangs.                    *)
(*                                                                         *)
(* Time passes in seconds.  Timers fire when they are due, and the window  *)
(* of the coalescer (200 ms) ends within the second.  Broadcasts are not   *)
(* awaited but for the first: each arrives within MaxDelay, in any order,  *)
(* or is lost.  The progress row is in module Turn.                        *)
(*                                                                         *)
(* A definition whose name ends in _Slip is the one after it with a        *)
(* plausible mistake in the code; no action uses it.                       *)
(***************************************************************************)
EXTENDS Naturals, Sequences

CONSTANTS
    CheckInterval,      \* HEARTBEAT_CHECK_INTERVAL_MS
    BroadcastAfter,     \* HEARTBEAT_BROADCAST_AFTER_MS
    LivenessWindow,     \* HEARTBEAT_LIVENESS_WINDOW_MS
    StallAfter,         \* stallThresholdSeconds of the app
    MaxDelay,           \* of a request; the code aborts it after 3 s
    MaxTexts            \* bound on the pieces of reasoning text

ASSUME ConstantsAssumption ==
    /\ CheckInterval \in Nat \ {0}
    /\ {BroadcastAfter, LivenessWindow, StallAfter, MaxDelay, MaxTexts}
            \subseteq Nat

VARIABLES
    pc,             \* where handleUserMessage is
    waited,         \* for how long in that step
    sinceEvent,     \* now - lastAgentEventAt
    sinceBroadcast, \* now - lastBroadcastAt
    untilCheck,     \* until heartbeatTimer fires
    buffer,         \* reasoningBuf
    armed,          \* reasoningTimer # null
    flight          \* the ages of the broadcasts under way

VARIABLES           \* history, for the properties
    produced,       \* pieces of text that the agent produced
    sent,           \* the pieces that were broadcast, in that order
    silence,        \* since the app heard of the turn
    excused         \* since then a broadcast was lost or the agent was quiet
                    \* for LivenessWindow

turn  == <<pc, waited>>
texts == <<buffer, armed, produced, sent>>
vars  == <<turn, sinceEvent, sinceBroadcast, untilCheck, texts, flight,
           silence, excused>>

\* Bound: the clock is watched for as long as a hang takes to show.
Watched == LivenessWindow + MaxDelay + StallAfter

TypeOK ==
    /\ pc \in {"started", "seeding", "running", "over"}
    /\ waited \in 0..MaxDelay
    /\ sinceEvent \in Nat /\ sinceBroadcast \in Nat
    /\ untilCheck \in 0..CheckInterval
    /\ produced \in 0..MaxTexts
    /\ buffer \in Seq(1..MaxTexts) /\ sent \in Seq(1..MaxTexts)
    /\ armed \in BOOLEAN /\ excused \in BOOLEAN
    /\ flight \subseteq 0..MaxDelay
    /\ silence \in Nat

\* The listener is there, and the broadcast of "started" is under way.
Init ==
    /\ pc = "started" /\ waited = 0
    /\ sinceEvent = 0 /\ sinceBroadcast = 0
    /\ untilCheck = CheckInterval
    /\ buffer = <<>> /\ armed = FALSE
    /\ flight = {0}
    /\ produced = 0 /\ sent = <<>>
    /\ silence = 0 /\ excused = FALSE

-----------------------------------------------------------------------------
(* The turn.                                                               *)

\* A broadcast is handed to fetch, and lastBroadcastAt set.
Broadcast == flight' = flight \cup {0} /\ sinceBroadcast' = 0

\* The first broadcast is awaited, delivered or not.
StartedReturns ==
    /\ pc = "started"
    /\ pc' = "seeding" /\ waited' = 0
    /\ sinceBroadcast' = 0
    /\ UNCHANGED <<sinceEvent, untilCheck, texts, flight, silence, excused>>

\* So is the upsert that seeds the row; then the heartbeat starts.
SeedReturns ==
    /\ pc = "seeding"
    /\ pc' = "running" /\ waited' = 0
    /\ untilCheck' = CheckInterval
    /\ UNCHANGED <<sinceEvent, sinceBroadcast, texts, flight, silence,
                   excused>>

\* enqueueReasoningDelta
EnqueueReasoningDelta ==
    /\ buffer' = Append(buffer, produced + 1)
    /\ armed' = TRUE

\* An event with reasoning text.
Thinking ==
    /\ pc # "over" /\ produced < MaxTexts
    /\ sinceEvent' = 0
    /\ EnqueueReasoningDelta
    /\ produced' = produced + 1
    /\ UNCHANGED <<turn, sinceBroadcast, untilCheck, sent, flight, silence,
                   excused>>

\* The start of a tool.
Tool ==
    /\ pc # "over"
    /\ sinceEvent' = 0
    /\ Broadcast
    /\ UNCHANGED <<turn, untilCheck, texts, silence, excused>>

\* Any other event of the agent is a sign of life only.
Other ==
    /\ pc # "over"
    /\ sinceEvent' = 0
    /\ UNCHANGED <<turn, sinceBroadcast, untilCheck, texts, flight, silence,
                   excused>>

\* Slip: the text stays in the buffer.
FlushReasoningBuf_Slip ==
    /\ armed' = FALSE
    /\ sent' = sent \o buffer
    /\ IF buffer # <<>>
       THEN Broadcast ELSE UNCHANGED <<flight, sinceBroadcast>>
    /\ UNCHANGED <<buffer, produced>>

\* flushReasoningBuf
FlushReasoningBuf ==
    /\ armed' = FALSE
    /\ buffer' = <<>>
    /\ sent' = sent \o buffer
    /\ IF buffer # <<>>
       THEN Broadcast ELSE UNCHANGED <<flight, sinceBroadcast>>
    /\ UNCHANGED produced

\* The timer of the coalescer fires.
ReasoningTimer ==
    /\ armed
    /\ FlushReasoningBuf
    /\ UNCHANGED <<turn, sinceEvent, untilCheck, silence, excused>>

\* Slip: the window of the app's stall flag is counted in.
AgentAlive_Slip == sinceEvent < LivenessWindow + StallAfter

AgentAlive == sinceEvent < LivenessWindow

\* Slip: the other window.
BroadcastStale_Slip == sinceBroadcast > LivenessWindow

BroadcastStale == sinceBroadcast > BroadcastAfter

\* An empty reasoning_delta when the agent is alive and the app has not heard
\* from it.
HeartbeatTimer ==
    /\ pc = "running" /\ untilCheck = 0
    /\ untilCheck' = CheckInterval
    /\ IF AgentAlive /\ BroadcastStale
       THEN Broadcast ELSE UNCHANGED <<flight, sinceBroadcast>>
    /\ UNCHANGED <<turn, sinceEvent, texts, silence, excused>>

\* Slip: the text that waits for the timer is dropped with it.
Finalize_Slip ==
    /\ pc = "running"
    /\ pc' = "over"
    /\ armed' = FALSE
    /\ UNCHANGED <<waited, sinceEvent, sinceBroadcast, untilCheck, buffer,
                   produced, sent, flight, silence, excused>>

\* finalize: the listener and the timers go, and the text that waits is sent.
Finalize ==
    /\ pc = "running"
    /\ pc' = "over"
    /\ IF armed THEN FlushReasoningBuf
                ELSE UNCHANGED <<texts, flight, sinceBroadcast>>
    /\ UNCHANGED <<waited, sinceEvent, untilCheck, silence, excused>>

-----------------------------------------------------------------------------
(* The network and the clock.                                              *)

\* Any broadcast extends the app's deadline, an empty one too.
Arrives ==
    /\ pc # "over"
    /\ \E age \in flight : flight' = flight \ {age}
    /\ silence' = 0 /\ excused' = FALSE
    /\ UNCHANGED <<turn, sinceEvent, sinceBroadcast, untilCheck, texts>>

Lost ==
    /\ pc # "over"
    /\ \E age \in flight : flight' = flight \ {age}
    /\ excused' = TRUE
    /\ UNCHANGED <<turn, sinceEvent, sinceBroadcast, untilCheck, texts,
                   silence>>

\* Nothing is due.
Quiet ==
    /\ ~armed
    /\ pc = "running" => untilCheck > 0
    /\ pc # "running" => waited < MaxDelay
    /\ MaxDelay \notin flight

\* A second passes.
Tick ==
    /\ pc # "over" /\ Quiet
    /\ sinceEvent < Watched /\ silence < Watched
    /\ waited' = IF pc = "running" THEN waited ELSE waited + 1
    /\ untilCheck' = IF pc = "running" THEN untilCheck - 1 ELSE untilCheck
    /\ sinceEvent' = sinceEvent + 1
    /\ sinceBroadcast' = sinceBroadcast + 1
    /\ flight' = {age + 1 : age \in flight}
    /\ silence' = silence + 1
    /\ excused' = (excused \/ sinceEvent' >= LivenessWindow)
    /\ UNCHANGED <<pc, texts>>

Next ==
    \/ StartedReturns \/ SeedReturns \/ Thinking \/ Tool \/ Other
    \/ ReasoningTimer \/ HeartbeatTimer \/ Finalize \/ Arrives \/ Lost \/ Tick

Spec == Init /\ [][Next]_vars

-----------------------------------------------------------------------------
(* Properties.                                                             *)

\* While the agent gives a sign of life at least every LivenessWindow and no
\* broadcast is lost, the app never takes the turn for stalled.
NoFalseStall == pc # "over" => silence < StallAfter \/ excused

\* An agent that hangs is not covered up: LivenessWindow and StallAfter after
\* its last event the app has seen the turn stall.
HangShows == pc # "over" /\ sinceEvent >= Watched => silence >= StallAfter

\* Every piece of reasoning text is broadcast once and in its order, whatever
\* the timer, the heartbeat and the end of the turn do.
TextsInOrder == sent \o buffer = [i \in 1..produced |-> i]

\* None stays behind: text in the buffer has a timer, and no text is left when
\* the turn is over.
NoTextStuck == (buffer # <<>> => armed) /\ (pc = "over" => buffer = <<>>)
=============================================================================
