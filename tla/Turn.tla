-------------------------------- MODULE Turn --------------------------------
(***************************************************************************)
(* handleUserMessage of src/messaging.js, for a message that is not an     *)
(* /approve: load the history, show progress, run the agent, deliver the   *)
(* reply with retries or else a notice, and clean up.  Several turns run   *)
(* at a time, in one session or in several, of one user.                   *)
(*                                                                         *)
(* Abstractions.  Texts are left out, so the progress row of a session     *)
(* (src/progress.js) is only active or not; broadcasts that nothing reads  *)
(* back do not appear, but for the one that ends a turn.  The coalescer,   *)
(* the heartbeat and the delays between the tries are left out.            *)
(*                                                                         *)
(* A definition whose name ends in _Slip is the one after it with a        *)
(* plausible mistake in the code; no action uses it.                       *)
(***************************************************************************)
EXTENDS Naturals

CONSTANTS
    Turns,          \* user messages
    SessionOf,      \* the session of each
    MaxEvents,      \* bound on the events and deltas of one agent run
    IngestTries,    \* attempts of postIngestWithRetry
    NoticeTries,    \* attempts of sendDeliveryFailureNotice
    LostWrites      \* progress writes can fail, or outlive their time limit

ASSUME SessionAssumption == DOMAIN SessionOf = Turns
ASSUME TriesAssumption ==
    IngestTries \in Nat \ {0} /\ NoticeTries \in Nat \ {0}
ASSUME BoundsAssumption == MaxEvents \in Nat /\ LostWrites \in BOOLEAN

VARIABLES
    pc,         \* where each turn is
    listening,  \* turns subscribed to the agent's events
    events,     \* events and deltas that each agent run has produced
    writes,     \* in flight: upserts of each turn with isActive true
    finals,     \* in flight: upserts of each turn with isActive false
    row,        \* the progress row of each session
    tries,      \* attempts made by the retry loop that is running
    stored,     \* copies of the reply of each turn in the messages table
    notices,    \* copies of its failure notice there
    ending,     \* cleanedUp, and the kind that finalize was called with
    ends        \* end-of-turn broadcasts that each turn sent

VARIABLES       \* history, for the properties
    refused,    \* turns whose notice the backend refused
    excused     \* sessions where the clearing of the row was lost, or an
                \* upsert landed after the finalize of its turn

vars == <<pc, listening, events, writes, finals, row, tries, stored, notices,
          ending, ends, refused, excused>>

Sessions == {SessionOf[t] : t \in Turns}
Steps == {"idle", "history", "seed", "gateway", "ingest", "notice", "finally",
          "ending", "clearing", "done", "dropped"}

TypeOK ==
    /\ pc \in [Turns -> Steps]
    /\ listening \subseteq Turns
    /\ events \in [Turns -> 0..MaxEvents]
    /\ writes \in [Turns -> Nat] /\ finals \in [Turns -> Nat]
    /\ row \in [Sessions -> {"none", "active", "inactive"}]
    /\ tries \in [Turns -> Nat]
    /\ stored \in [Turns -> Nat] /\ notices \in [Turns -> Nat]
    /\ ending \in [Turns -> {"none", "error", "done"}]
    /\ ends \in [Turns -> Nat]
    /\ excused \subseteq Sessions /\ refused \subseteq Turns

Init ==
    /\ pc = [t \in Turns |-> "idle"]
    /\ listening = {} /\ excused = {} /\ refused = {}
    /\ events = [t \in Turns |-> 0]
    /\ writes = [t \in Turns |-> 0] /\ finals = [t \in Turns |-> 0]
    /\ row = [s \in Sessions |-> "none"]
    /\ tries = [t \in Turns |-> 0]
    /\ stored = [t \in Turns |-> 0] /\ notices = [t \in Turns |-> 0]
    /\ ending = [t \in Turns |-> "none"] /\ ends = [t \in Turns |-> 0]

-----------------------------------------------------------------------------
Goto(t, step) == pc' = [pc EXCEPT ![t] = step]
SetRow(t, value) == row' = [row EXCEPT ![SessionOf[t]] = value]
Excuse(t) == excused' = excused \cup {SessionOf[t]}

delivery == <<tries, stored, notices, refused>>
progress == <<events, writes, finals, row, excused>>

\* Dispatched by onInsert or runCatchUp.
Start(t) ==
    /\ pc[t] = "idle"
    /\ Goto(t, "history")
    /\ UNCHANGED <<listening, progress, delivery, ending, ends>>

\* The history arrives: subscribe to the agent's events.
HistoryLoaded(t) ==
    /\ pc[t] = "history"
    /\ Goto(t, "seed")
    /\ listening' = listening \cup {t}
    /\ UNCHANGED <<progress, delivery, ending, ends>>

\* It does not: the message is dropped, and nothing tells the user.
HistoryFails(t) ==
    /\ pc[t] = "history"
    /\ Goto(t, "dropped")
    /\ UNCHANGED <<listening, progress, delivery, ending, ends>>

\* The awaited upsert that seeds the row.
SeedRow(t) ==
    /\ pc[t] = "seed"
    /\ Goto(t, "gateway")
    /\ \/ SetRow(t, "active") /\ UNCHANGED writes
       \/ LostWrites /\ UNCHANGED <<row, writes>>
       \/ /\ LostWrites
          /\ writes' = [writes EXCEPT ![t] = @ + 1] /\ UNCHANGED row
    /\ UNCHANGED <<listening, events, finals, excused, delivery, ending,
                   ends>>

\* An event of the run of t reaches every listener, since the session key
\* they compare names the user and not the turn; each upserts, unawaited.
AgentEvent(t) ==
    /\ pc[t] = "gateway" /\ events[t] < MaxEvents
    /\ events' = [events EXCEPT ![t] = @ + 1]
    /\ writes' = [u \in Turns |-> IF u \in listening THEN writes[u] + 1
                                                     ELSE writes[u]]
    /\ UNCHANGED <<pc, listening, finals, row, excused, delivery, ending,
                   ends>>

\* A delta of the reply: upsertPartial, unawaited.
ReplyDelta(t) ==
    /\ pc[t] = "gateway" /\ events[t] < MaxEvents
    /\ events' = [events EXCEPT ![t] = @ + 1]
    /\ writes' = [writes EXCEPT ![t] = @ + 1]
    /\ UNCHANGED <<pc, listening, finals, row, excused, delivery, ending,
                   ends>>

\* Slips: the listener stays; an early return.
Finalize_ListenerSlip(t, kind) ==
    /\ Goto(t, "ending")
    /\ ending' = [ending EXCEPT ![t] = kind]
    /\ UNCHANGED listening
Finalize_ReturnSlip(t, kind) ==
    /\ Goto(t, "finally")
    /\ ending' = [ending EXCEPT ![t] = kind]
    /\ listening' = listening \ {t}

\* finalize(kind), up to its first await.
Finalize(t, kind) ==
    /\ Goto(t, "ending")
    /\ ending' = [ending EXCEPT ![t] = kind]
    /\ listening' = listening \ {t}

\* The gateway's answer ends with a reply.
Replied(t) ==
    /\ pc[t] = "gateway"
    /\ Goto(t, "ingest")
    /\ UNCHANGED <<listening, progress, delivery, ending, ends>>

\* It is an error, breaks off, or has no text.
GatewayFails(t) ==
    /\ pc[t] = "gateway"
    /\ Finalize(t, "error")
    /\ UNCHANGED <<progress, delivery, ends>>

-----------------------------------------------------------------------------
(* Delivery.                                                               *)

\* One attempt to POST, which the server may have carried out although the
\* caller sees a network error or a 5xx.
Attempt(t, posted, carriedOut) ==
    /\ tries' = [tries EXCEPT ![t] = @ + 1]
    /\ posted' = [posted EXCEPT ![t] = @ + IF carriedOut THEN 1 ELSE 0]

IngestOk(t) ==
    /\ pc[t] = "ingest"
    /\ Attempt(t, stored, TRUE)
    /\ Goto(t, "finally")
    /\ UNCHANGED <<listening, progress, notices, refused, ending, ends>>

\* Slips: the count of the attempts starts again; the last gives no notice.
IngestFails_CountSlip(t) ==
    /\ pc[t] = "ingest"
    /\ \E carriedOut \in BOOLEAN :
            stored' = [stored EXCEPT ![t] = IF carriedOut THEN 1 ELSE @]
    /\ tries' = [tries EXCEPT ![t] = (@ + 1) % IngestTries]
    /\ UNCHANGED <<pc, listening, progress, notices, refused, ending, ends>>
IngestFails_SilentSlip(t) ==
    /\ pc[t] = "ingest"
    /\ \E carriedOut \in BOOLEAN :
            stored' = [stored EXCEPT ![t] = @ + IF carriedOut THEN 1 ELSE 0]
    /\ IF tries[t] + 1 < IngestTries
       THEN tries' = [tries EXCEPT ![t] = @ + 1] /\ UNCHANGED pc
       ELSE tries' = [tries EXCEPT ![t] = 0] /\ Goto(t, "finally")
    /\ UNCHANGED <<listening, progress, notices, refused, ending, ends>>

\* A network error or a 5xx: again, or the notice when it was the last try.
IngestFails(t) ==
    /\ pc[t] = "ingest"
    /\ \E carriedOut \in BOOLEAN :
            stored' = [stored EXCEPT ![t] = @ + IF carriedOut THEN 1 ELSE 0]
    /\ IF tries[t] + 1 < IngestTries
       THEN tries' = [tries EXCEPT ![t] = @ + 1] /\ UNCHANGED pc
       ELSE tries' = [tries EXCEPT ![t] = 0] /\ Goto(t, "notice")
    /\ UNCHANGED <<listening, progress, notices, refused, ending, ends>>

\* Any other refusal is not tried again.
IngestRefused(t) ==
    /\ pc[t] = "ingest"
    /\ tries' = [tries EXCEPT ![t] = 0]
    /\ Goto(t, "notice")
    /\ UNCHANGED <<listening, progress, stored, notices, refused, ending,
                   ends>>

NoticeOk(t) ==
    /\ pc[t] = "notice"
    /\ Attempt(t, notices, TRUE)
    /\ Goto(t, "finally")
    /\ UNCHANGED <<listening, progress, stored, refused, ending, ends>>

NoticeFails(t) ==
    /\ pc[t] = "notice"
    /\ \E carriedOut \in BOOLEAN : Attempt(t, notices, carriedOut)
    /\ IF tries[t] + 1 < NoticeTries THEN UNCHANGED pc ELSE Goto(t, "finally")
    /\ UNCHANGED <<listening, progress, stored, refused, ending, ends>>

NoticeRefused(t) ==
    /\ pc[t] = "notice"
    /\ Attempt(t, notices, FALSE)
    /\ refused' = refused \cup {t}
    /\ Goto(t, "finally")
    /\ UNCHANGED <<listening, progress, stored, ending, ends>>

-----------------------------------------------------------------------------
(* Cleaning up.                                                            *)

\* Slip: nothing remembers that finalize ran.
Finally_Slip(t) ==
    /\ pc[t] = "finally"
    /\ Finalize(t, "done")
    /\ UNCHANGED <<progress, delivery, ends>>

\* The finally block: finalize("done"), which does nothing the second time.
Finally(t) ==
    /\ pc[t] = "finally"
    /\ IF ending[t] = "none"
       THEN Finalize(t, "done")
       ELSE Goto(t, "done") /\ UNCHANGED <<ending, listening>>
    /\ UNCHANGED <<progress, delivery, ends>>

\* The awaited broadcast of "error" or "done".  It returns in any case: it is
\* sent once, given up after 3 s, and whatever went wrong is only logged.
EndBroadcast(t) ==
    /\ pc[t] = "ending"
    /\ ends' = [ends EXCEPT ![t] = @ + 1]
    /\ Goto(t, "clearing")
    /\ UNCHANGED <<listening, progress, delivery, ending>>

\* progressFinalize, awaited; an error path goes on to the finally block.
ClearRow(t) ==
    /\ pc[t] = "clearing"
    /\ Goto(t, IF ending[t] = "error" THEN "finally" ELSE "done")
    /\ \/ SetRow(t, "inactive") /\ UNCHANGED <<finals, excused>>
       \/ LostWrites /\ Excuse(t) /\ UNCHANGED <<row, finals>>
       \/ /\ LostWrites
          /\ finals' = [finals EXCEPT ![t] = @ + 1]
          /\ UNCHANGED <<row, excused>>
    /\ UNCHANGED <<listening, events, writes, delivery, ending, ends>>

\* An upsert in flight reaches the backend, in whatever order, or is lost.
WriteLands(t) ==
    /\ writes[t] > 0
    /\ writes' = [writes EXCEPT ![t] = @ - 1]
    /\ \/ /\ SetRow(t, "active")
          /\ IF ending[t] = "none" THEN UNCHANGED excused ELSE Excuse(t)
       \/ LostWrites /\ UNCHANGED <<row, excused>>
    /\ UNCHANGED <<pc, listening, events, finals, delivery, ending, ends>>

FinalLands(t) ==
    /\ finals[t] > 0
    /\ finals' = [finals EXCEPT ![t] = @ - 1]
    /\ \/ SetRow(t, "inactive") /\ UNCHANGED excused
       \/ Excuse(t) /\ UNCHANGED row
    /\ UNCHANGED <<pc, listening, events, writes, delivery, ending, ends>>

\* What follows each await of a turn.
Continues(t) ==
    \/ HistoryLoaded(t) \/ HistoryFails(t) \/ SeedRow(t)
    \/ Replied(t) \/ GatewayFails(t)
    \/ IngestOk(t) \/ IngestFails(t) \/ IngestRefused(t)
    \/ NoticeOk(t) \/ NoticeFails(t) \/ NoticeRefused(t)
    \/ Finally(t) \/ EndBroadcast(t) \/ ClearRow(t)

TurnStep(t) ==
    \/ Start(t) \/ AgentEvent(t) \/ ReplyDelta(t) \/ Continues(t)
    \/ WriteLands(t) \/ FinalLands(t)

Next == \E t \in Turns : TurnStep(t)

Spec == Init /\ [][Next]_vars

\* Every await of a turn ends: requests are answered or fail, and the agent's
\* run ends.
FairSpec == Spec /\ \A t \in Turns : WF_vars(Continues(t))

-----------------------------------------------------------------------------
(* Properties.                                                             *)

\* A turn that reached the agent sends exactly one broadcast that it is over,
\* whichever of its exits it took (finalize runs from three places): the app,
\* for which broadcast() may lose it, hears of the end at most once.
EndsOnce ==
    \A t \in Turns :
        /\ ends[t] <= 1
        /\ pc[t] = "done" => ends[t] = 1

\* What the app and the backend see of a turn.
StateOf(t) ==
    CASE pc[t] \in {"idle", "history"} -> "new"
      [] pc[t] = "dropped"             -> "lost"
      [] ends[t] > 0                   -> ending[t]
      [] OTHER                         -> "taken"
Denied == refused \cup
    {t \in Turns : /\ pc[t] \in {"finally", "ending", "clearing", "done"}
                   /\ tries[t] = NoticeTries}

\* The turns answer as module Answer has it: a reply the agent gave is never
\* lost without a word, unless the backend refused the notice or failed all
\* the attempts to post it; an error is announced only if nothing was posted;
\* and nothing is posted once the end of the turn was announced.
Promise == INSTANCE Answer WITH
    Messages  <- Turns,
    state     <- [t \in Turns |-> StateOf(t)],
    posted    <- [t \in Turns |-> stored[t] + notices[t]],
    denied    <- Denied,
    announced <- ends
ImplementsAnswer == Promise!Spec

\* After finalize a turn starts no upsert any more, though other turns of the
\* user go on and their events carry the session key it listened to.
NoWriteAfterFinalize ==
    [][\A t \in Turns : ending[t] # "none" => writes'[t] <= writes[t]]_vars

\* The progress row of a session whose turns are over is not active, unless
\* the write that clears it was lost, or an unawaited upsert of a turn landed
\* after its finalize.
Over(s) == \A t \in Turns : SessionOf[t] = s =>
    pc[t] \in {"idle", "done", "dropped"} /\ writes[t] = 0 /\ finals[t] = 0
RowCleared ==
    \A s \in Sessions \ excused : Over(s) => row[s] # "active"

\* Every turn ends.
TurnsEnd == \A t \in Turns : pc[t] = "history" ~> pc[t] \in {"done", "dropped"}
=============================================================================
