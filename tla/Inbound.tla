------------------------------- MODULE Inbound -------------------------------
(***************************************************************************)
(* How user messages reach the agent: src/index.js, onInsert for the rows  *)
(* that Realtime streams, onSubscribed and runCatchUp for the rows that    *)
(* landed while it did not.  Realtime has no replay; the history endpoint  *)
(* returns the newest user rows of the last ten minutes, up to a limit.    *)
(* Of the channel itself the steps of module Link are left, which module   *)
(* Stream implements.  The server streams from its accept of the join on,  *)
(* behind the phx_reply on the same connection; the plugin hears of the    *)
(* subscription when it reads that reply, and of the rows after it.        *)
(*                                                                         *)
(* A row is named by its place in the messages table, and a subscription   *)
(* by its number: register() makes one, with a high-water mark and an      *)
(* in-flight flag of its own, after a start of the process or an eviction. *)
(* handleUserMessage, which is fire-and-forget here, is one dispatch.      *)
(*                                                                         *)
(* A definition whose name ends in _Slip is the one after it with a        *)
(* plausible mistake in the code; no action uses it.                       *)
(***************************************************************************)
EXTENDS Naturals, FiniteSets, SequencesExt

CONSTANTS
    MaxRows,        \* bound on the rows inserted
    MaxSubs,        \* bound on the subscriptions made
    Limit           \* limit= of the history request

ASSUME BoundsAssumption == MaxRows \in Nat /\ MaxSubs \in Nat \ {0}
ASSUME LimitAssumption == Limit \in Nat

VARIABLES
    rows,       \* the table: kind and created_at (in ms) of each row
    old,        \* rows 1..old are out of the history's window
    joined,     \* the server streams INSERTs to the current subscription
    told,       \* the phx_reply was read
    pipe,       \* streamed rows that onInsert has yet to see
    sub,        \* the current subscription
    active,     \* it is in _activeSubscriptions
    lastSeen,   \* lastSeenUserAt, per subscription
    catchUp,    \* catchUpInFlight and the runCatchUp call, per subscription
    live,       \* dispatches by onInsert, per subscription and row
    caught      \* dispatches by runCatchUp, per subscription and row

VARIABLES       \* history, for the properties
    excused,    \* rows that a skipped, failed or truncated catch-up left out
    during      \* pairs of a subscription and a message to this agent that was
                \* inserted while the reply to the join, or the answer to the
                \* catch-up, was awaited

vars == <<rows, old, joined, told, pipe, sub, active, lastSeen, catchUp,
          live, caught, excused, during>>

\* The channel, as module Stream implements it.
Channel == INSTANCE Link WITH due <- joined /\ ~told

Kinds  == {"own", "otherAgent", "assistant"}
RowIds == 1..MaxRows
Subs   == 1..MaxSubs
Stored == 1..Len(rows)
Idle   == [phase |-> "idle", since |-> 0, rows |-> {}]
InFlight == {"asked", "answered"}

TypeOK ==
    /\ rows \in Seq([kind : Kinds, ts : Nat]) /\ Len(rows) <= MaxRows
    /\ old \in 0..Len(rows)
    /\ joined \in BOOLEAN /\ told \in BOOLEAN /\ active \in BOOLEAN
    /\ pipe \in Seq(Stored)
    /\ sub \in Subs
    /\ lastSeen \in [Subs -> Nat]
    /\ catchUp \in [Subs -> [phase : InFlight \cup {"idle"}, since : Nat,
                             rows : SUBSET Stored]]
    /\ live \in [Subs \X RowIds -> Nat]
    /\ caught \in [Subs \X RowIds -> Nat]
    /\ excused \subseteq Stored
    /\ during \subseteq Subs \X Stored

Init ==
    /\ rows = <<>> /\ old = 0
    /\ joined = FALSE /\ told = FALSE /\ pipe = <<>>
    /\ sub = 1 /\ active = TRUE
    /\ lastSeen = [k \in Subs |-> 0]
    /\ catchUp = [k \in Subs |-> Idle]
    /\ live = [x \in Subs \X RowIds |-> 0]
    /\ caught = [x \in Subs \X RowIds |-> 0]
    /\ excused = {} /\ during = {}

-----------------------------------------------------------------------------
(* Helpers.                                                                *)

Own(r) == rows[r].kind = "own"
Handled(r) == \E k \in Subs : live[<<k, r>>] > 0 \/ caught[<<k, r>>] > 0

\* Rows that neither a dispatch nor the stream accounts for.
Missing == {r \in Stored : Own(r) /\ ~Handled(r) /\ ~Contains(pipe, r)}

\* `if (ts > lastSeenUserAt) lastSeenUserAt = ts`, over the rows of a set.
Raise_Slip(mark, S) == Min({mark} \cup {rows[r].ts : r \in S})
Raise(mark, S)      == Max({mark} \cup {rows[r].ts : r \in S})

LastTs == IF rows = <<>> THEN 0 ELSE rows[Len(rows)].ts

\* What mode=recent-user&minutes=10&limit=Limit selects now.
Recent == {r \in (old + 1)..Len(rows) : rows[r].kind # "assistant"}
History ==
    {r \in Recent : Cardinality({q \in Recent : q > r}) < Limit}

-----------------------------------------------------------------------------
(* The backend: rows are inserted and age, the channel joins and drops.    *)

\* Subscriptions that have yet to hear what the stream may bring as well: the
\* reply to the join, or the answer of the history, is awaited.
Overlapping == {k \in Subs : \/ catchUp[k].phase = "asked"
                             \/ k = sub /\ joined /\ ~told}

\* Two rows may fall within one millisecond.
Insert(kind) ==
    /\ Len(rows) < MaxRows
    /\ \E ts \in {Max({LastTs, 1}), LastTs + 1} :
            rows' = Append(rows, [kind |-> kind, ts |-> ts])
    /\ pipe' = IF joined THEN Append(pipe, Len(rows) + 1) ELSE pipe
    /\ during' = during \cup
            {<<k, Len(rows) + 1>> : k \in {j \in Overlapping : kind = "own"}}
    /\ UNCHANGED <<old, joined, told, sub, active, lastSeen, catchUp, live,
                   caught, excused>>

\* A row gets older than the ten minutes of the history.
Age ==
    /\ old < Len(rows)
    /\ old' = old + 1
    /\ UNCHANGED <<rows, joined, told, pipe, sub, active, lastSeen, catchUp,
                   live, caught, excused, during>>

\* The connection drops, and what it had not delivered is gone.
Drop ==
    /\ Channel!Drop
    /\ pipe' = <<>>
    /\ UNCHANGED <<rows, old, sub, lastSeen, catchUp, live, caught,
                   excused, during>>

\* The server accepts the join of the current subscription.
Accept ==
    /\ Channel!Join
    /\ UNCHANGED <<rows, old, pipe, sub, lastSeen, catchUp, live, caught,
                   excused, during>>

\* The reply is read: onSubscribed starts a catch-up, or does nothing when
\* one is in flight.
JoinOk ==
    /\ Channel!Tell
    /\ IF catchUp[sub].phase = "idle"
       THEN /\ catchUp' = [catchUp EXCEPT ![sub] =
                    [phase |-> "asked", since |-> lastSeen[sub], rows |-> {}]]
            /\ UNCHANGED excused
       ELSE /\ excused' = excused \cup Missing
            /\ UNCHANGED catchUp
    /\ UNCHANGED <<rows, old, pipe, sub, lastSeen, live, caught, during>>

-----------------------------------------------------------------------------
(* The plugin.                                                             *)

\* onInsert: filter by role and agent, raise the mark, dispatch.
Deliver ==
    /\ told /\ pipe # <<>>
    /\ pipe' = Tail(pipe)
    /\ IF Own(Head(pipe))
       THEN /\ lastSeen' = [lastSeen EXCEPT ![sub] = Raise(@, {Head(pipe)})]
            /\ live' = [live EXCEPT ![<<sub, Head(pipe)>>] = @ + 1]
       ELSE UNCHANGED <<lastSeen, live>>
    /\ UNCHANGED <<rows, old, joined, told, sub, active, catchUp, caught,
                   excused, during>>

\* The backend answers the history request of subscription k.
CatchUpAnswered(k) ==
    /\ catchUp[k].phase = "asked"
    /\ catchUp' = [catchUp EXCEPT ![k].phase = "answered",
                                  ![k].rows = History]
    /\ excused' = excused \cup (Missing \ History)
    /\ UNCHANGED <<rows, old, joined, told, pipe, sub, active, lastSeen,
                   live, caught, during>>

\* The request or the reading of its body fails: nothing is tried again.
CatchUpFails(k) ==
    /\ catchUp[k].phase \in InFlight
    /\ catchUp' = [catchUp EXCEPT ![k] = Idle]
    /\ excused' = excused \cup Missing
    /\ UNCHANGED <<rows, old, joined, told, pipe, sub, active, lastSeen,
                   live, caught, during>>

\* runCatchUp filters the rows against the mark it was called with, and
\* dispatches the rest in one go.  Slips: it reads the mark after the await,
\* or lets through the row that set the mark.
Fresh_LiveMarkSlip(k) ==
    {r \in catchUp[k].rows : Own(r) /\ rows[r].ts > lastSeen[k]}
Fresh_BoundarySlip(k) ==
    {r \in catchUp[k].rows : Own(r) /\ rows[r].ts >= catchUp[k].since}
Fresh(k) == {r \in catchUp[k].rows : Own(r) /\ rows[r].ts > catchUp[k].since}

CatchUpDone(k) ==
    /\ catchUp[k].phase = "answered"
    /\ lastSeen' = [lastSeen EXCEPT ![k] = Raise(@, Fresh(k))]
    /\ caught' = [x \in Subs \X RowIds |->
                    IF x[1] = k /\ x[2] \in Fresh(k) THEN caught[x] + 1
                                                     ELSE caught[x]]
    /\ catchUp' = [catchUp EXCEPT ![k] = Idle]
    /\ UNCHANGED <<rows, old, joined, told, pipe, sub, active, live, excused,
                   during>>

-----------------------------------------------------------------------------
(* Registration, eviction and restart.                                     *)

\* onTerminal: the key was refused while no connection was up.
Evict ==
    /\ active /\ ~joined
    /\ Channel!End
    /\ UNCHANGED <<rows, old, pipe, sub, lastSeen, catchUp, live, caught,
                   excused, during>>

\* The process dies, with its catch-ups.
Crash ==
    /\ Channel!End
    /\ pipe' = <<>>
    /\ catchUp' = [k \in Subs |-> Idle]
    /\ UNCHANGED <<rows, old, sub, lastSeen, live, caught, excused, during>>

\* register(): a new subscription unless one is active.
Register ==
    /\ sub < MaxSubs /\ Channel!Begin
    /\ sub' = sub + 1
    /\ UNCHANGED <<rows, old, pipe, lastSeen, catchUp, live, caught, excused,
                   during>>

Next ==
    \/ \E kind \in Kinds : Insert(kind)
    \/ Age \/ Accept \/ JoinOk \/ Drop \/ Deliver
    \/ \E k \in Subs : CatchUpAnswered(k) \/ CatchUpFails(k) \/ CatchUpDone(k)
    \/ Evict \/ Crash \/ Register

Spec == Init /\ [][Next]_vars

\* The channel keeps joining and reads a reply again and again (Stream's
\* KeepsSubscribing), frames are read, and a history request is answered or
\* fails.
FairSpec ==
    /\ Spec
    /\ WF_vars(Accept) /\ SF_vars(JoinOk) /\ WF_vars(Deliver)
    /\ \A k \in Subs : WF_vars(CatchUpAnswered(k) \/ CatchUpDone(k))

-----------------------------------------------------------------------------
(* Properties.                                                             *)

\* Within one subscription a row is dispatched at most once by the stream and
\* at most once by a catch-up, however many catch-ups run: each asks only for
\* what is above the mark (lastSeenUserAt).
OncePerPath ==
    \A k \in Subs, r \in RowIds : live[<<k, r>>] <= 1 /\ caught[<<k, r>>] <= 1

\* A row is dispatched on both paths of one subscription only if it was
\* inserted while that subscription awaited the reply to its join (stream.js
\* onmessage), from the server's accept on, or the answer of a catch-up.
DuplicateOnlyInOverlap ==
    \A k \in Subs, r \in RowIds :
        live[<<k, r>>] > 0 /\ caught[<<k, r>>] > 0 => <<k, r>> \in during

\* A message may be missed for two reasons only: a catch-up that was skipped
\* (another was in flight), failed or truncated left it out, or it shares its
\* millisecond with another row, which the mark cannot tell from it.
Tied(r) == r \in Stored /\ \E q \in Stored \ {r} : rows[q].ts = rows[r].ts
Explained(r) == r \in excused \/ Tied(r)

\* Once the channel is up, nothing is in the stream and no catch-up runs,
\* every message was dispatched, or its loss has one of these reasons.
Settled == told /\ pipe = <<>> /\ catchUp[sub].phase \notin InFlight
OwnRows == {r \in Stored : Own(r)}
NothingElseLost == Settled => \A r \in OwnRows : Handled(r) \/ Explained(r)

\* Every message is dispatched in the end, or missed for these reasons, as long
\* as the subscription lives.
MessagesHandled ==
    \A r \in RowIds :
        r \in Stored /\ rows[r].kind = "own"
            ~> Handled(r) \/ Explained(r) \/ ~active
=============================================================================
