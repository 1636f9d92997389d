------------------------------- MODULE Outbound -------------------------------
(***************************************************************************)
(* What the gateway sends through the channel, and the cache of sessions   *)
(* it needs for that: sendPayload and the cache of src/index.js,           *)
(* maybeHandleApproval of src/approvals.js, sendOnepilotText of            *)
(* src/outbound.js.  An approval is broadcast to the chat session that the *)
(* user has open, which the plugin knows from the user's own messages, as  *)
(* they are streamed, caught up with, or asked for.                        *)
(*                                                                         *)
(* Abstractions.  One account.  A user message names a session key and     *)
(* opens a session or goes on with the key's last one; a session is named  *)
(* by the number of the message that opened it.  Streamed messages reach   *)
(* the plugin in the order of their creation and behind the reply to the   *)
(* join.  What a catch-up can miss, and the broadcast itself, are in       *)
(* modules Inbound and Turn; the delays between the attempts are left out. *)
(*                                                                         *)
(* A definition whose name ends in _Slip is the one after it with a        *)
(* plausible mistake in the code; no action uses it.                       *)
(***************************************************************************)
EXTENDS Naturals, Sequences, FiniteSetsExt

CONSTANTS
    Keys,       \* session keys
    Sends,      \* calls of sendText and sendPayload
    MaxRows,    \* bound on the user messages
    Tries       \* attempts of postWithRetry

ASSUME BoundsAssumption == MaxRows \in Nat /\ Tries \in Nat \ {0}

VARIABLES
    rows,       \* the user messages, in the order of their creation
    connected,  \* the server has accepted the join, and streams
    told,       \* the plugin has read the server's reply to the join
    stream,     \* rows that were streamed, and not read yet
    mark,       \* lastSeenUserAt, as the number of a row
    catchUp,    \* the catch-up that is in flight, if any
    cache,      \* _sessionIdBySessionKey of the account; None for no entry
    send,       \* the state of each call
    posted      \* copies of the text of each call in the messages table

VARIABLES       \* history, for the properties
    live,       \* rows that were read from the stream
    newest,     \* per key, the newest row that the plugin knows; 0 for none
    mixed       \* keys for which older and newer news crossed

vars == <<rows, connected, told, stream, mark, catchUp, cache, send, posted,
          live, newest, mixed>>

Row     == 1..MaxRows
None    == 0
Idle    == [stage |-> "none", since |-> None, answer |-> {},
            newestFirst |-> FALSE]
Waits   == {"flag", "lookup", "fetch", "fetched", "post"}
Results == {"broadcast", "dropped", "skipped", "delivered", "thrown"}

\* What made sendPayload go on to send an approval's text: its account is not
\* configured, or its handling threw.
Falls == {"no", "account", "threw"}

TypeOK ==
    /\ rows \in Seq([key : Keys, session : Row]) /\ Len(rows) <= MaxRows
    /\ connected \in BOOLEAN /\ told \in BOOLEAN /\ stream \subseteq Row
    /\ mark \in 0..MaxRows
    /\ catchUp \in [stage : {"none", "asked", "answered"}, since : 0..MaxRows,
                    answer : SUBSET Row, newestFirst : BOOLEAN]
    /\ cache \in [Keys -> 0..MaxRows]
    /\ send \in [Sends -> [stage : {"idle"} \cup Waits \cup Results,
                           approval : BOOLEAN, key : Keys \cup {None},
                           row : 0..MaxRows, tries : 0..Tries,
                           refused : BOOLEAN, fell : Falls]]
    /\ posted \in [Sends -> 0..Tries]
    /\ live \subseteq Row /\ newest \in [Keys -> 0..MaxRows]
    /\ mixed \subseteq Keys

Init ==
    /\ rows = <<>> /\ connected = FALSE /\ told = FALSE /\ stream = {}
    /\ mark = 0
    /\ catchUp = Idle
    /\ cache = [k \in Keys |-> None]
    /\ send = [c \in Sends |-> [stage |-> "idle", approval |-> FALSE,
                                key |-> None, row |-> None, tries |-> 0,
                                refused |-> FALSE, fell |-> "no"]]
    /\ posted = [c \in Sends |-> 0]
    /\ live = {} /\ newest = [k \in Keys |-> None] /\ mixed = {}

-----------------------------------------------------------------------------
(* The cache.                                                              *)

channel == <<rows, connected, told, stream, mark, catchUp, live>>
known   == <<cache, newest, mixed>>

RowsOf(k) == {n \in DOMAIN rows : rows[n].key = k}
Latest(k) == Max(RowsOf(k) \cup {None})

LookupSessionId(k) == cache[k]

RememberSessionId(entries, row) == [entries EXCEPT ![row.key] = row.session]

\* Calls that have asked for the session of k and not yet used the answer.
Fetching(k) == {c \in Sends : send[c].key = k
                                /\ send[c].stage \in {"fetch", "fetched"}}

\* A row of k older than n is still on its way through the stream.
Overtaken(k, n) == \E m \in RowsOf(k) \cap stream : m < n

-----------------------------------------------------------------------------
(* User messages.                                                          *)

UserMessage(k) ==
    /\ Len(rows) < MaxRows
    /\ LET n == Len(rows) + 1 IN
        /\ \E session \in {n} \cup
                IF Latest(k) = None THEN {} ELSE {rows[Latest(k)].session} :
                rows' = Append(rows, [key |-> k, session |-> session])
        /\ stream' = IF connected THEN stream \cup {n} ELSE stream
    /\ UNCHANGED <<connected, told, mark, catchUp, live, known, send, posted>>

\* onInsert: the next row of the stream.
OnInsert ==
    /\ told /\ stream # {}
    /\ LET n == Min(stream)  k == rows[n].key IN
        /\ stream' = stream \ {n} /\ live' = live \cup {n}
        /\ mark' = Max({mark, n})
        /\ cache' = RememberSessionId(cache, rows[n])
        /\ newest' = [newest EXCEPT ![k] = Max({@, n})]
        /\ mixed' = IF catchUp.stage # "none" \/ Fetching(k) # {}
                    THEN mixed \cup {k}
                    ELSE IF n < newest[k] THEN mixed ELSE mixed \ {k}
    /\ UNCHANGED <<rows, connected, told, catchUp, send, posted>>

\* What is on its way is lost with the connection.
Drop ==
    /\ connected /\ connected' = FALSE
    /\ told' = FALSE /\ stream' = {}
    /\ UNCHANGED <<rows, mark, catchUp, live, known, send, posted>>

\* The server accepts the join, and streams from then on.
Accept ==
    /\ ~connected /\ connected' = TRUE
    /\ UNCHANGED <<rows, told, stream, mark, catchUp, live>>
    /\ UNCHANGED <<known, send, posted>>

\* The plugin reads the reply: onSubscribed.
JoinOk ==
    /\ connected /\ ~told /\ told' = TRUE
    /\ catchUp' = IF catchUp.stage # "none" THEN catchUp
                  ELSE [Idle EXCEPT !.stage = "asked", !.since = mark]
    /\ UNCHANGED <<rows, connected, stream, mark, live, known, send, posted>>

\* Slip: rows that were seen are not left out.
Unseen_Slip(since) == DOMAIN rows

\* The rows of the history that runCatchUp dispatches.
Unseen(since) == {n \in DOMAIN rows : n > since}

\* They come newest first, as loadHistory has them, or oldest first.
CatchUpAnswered ==
    /\ catchUp.stage = "asked"
    /\ \E newestFirst \in BOOLEAN :
        catchUp' = [catchUp EXCEPT !.stage = "answered",
                                   !.answer = Unseen(catchUp.since),
                                   !.newestFirst = newestFirst]
    /\ UNCHANGED <<rows, connected, told, stream, mark, live>>
    /\ UNCHANGED <<known, send, posted>>

CatchUpFails ==
    /\ catchUp.stage # "none"
    /\ catchUp' = Idle
    /\ UNCHANGED <<rows, connected, told, stream, mark, live>>
    /\ UNCHANGED <<known, send, posted>>

Caught(k) == RowsOf(k) \cap catchUp.answer

\* The row of a key that is dispatched last.
LastCaught(k) == IF catchUp.newestFirst THEN Min(Caught(k)) ELSE Max(Caught(k))

\* dispatch, for each row: the last one of a key stays in the cache, and the
\* highest raises the mark.  Two rows of a key that were not read from the
\* stream may be dispatched in the wrong order, and the stream may still hold
\* an older row than the history.
CatchUpDone ==
    /\ catchUp.stage = "answered"
    /\ cache' = [k \in Keys |-> IF Caught(k) = {} THEN cache[k]
                                ELSE rows[LastCaught(k)].session]
    /\ mark' = Max(catchUp.answer \cup {mark})
    /\ newest' = [k \in Keys |-> Max(Caught(k) \cup {newest[k]})]
    /\ mixed' = mixed \cup
        {k \in Keys : \/ \E m, n \in Caught(k) \ live : m # n
                      \/ Caught(k) # {} /\ Fetching(k) # {}
                      \/ \E n \in Caught(k) : Overtaken(k, n)}
    /\ catchUp' = Idle
    /\ UNCHANGED <<rows, connected, told, stream, live, send, posted>>

-----------------------------------------------------------------------------
(* Sending.                                                                *)

Goto(c, stage) == send' = [send EXCEPT ![c].stage = stage]
At(c, stage)   == send[c].stage = stage

\* sendText, or sendPayload with a payload whose text is all there is to send;
\* sendPayload with an approval.  All for a configured account.
Send(c) ==
    /\ At(c, "idle")
    /\ \/ Goto(c, "post")
       \/ \E k \in Keys :
            send' = [send EXCEPT ![c].stage = "flag", ![c].approval = TRUE,
                                 ![c].key = k]
    /\ UNCHANGED <<channel, known, posted>>

\* The account is not configured.  sendPayload then takes anything for text,
\* and sendOnepilotText throws, if the context names the account; it sends in
\* the name of the first account, if only the payload does.
NoAccount(c) ==
    /\ At(c, "idle")
    /\ \E approval \in BOOLEAN, stage \in {"post", "thrown"} :
        send' = [send EXCEPT ![c].stage = stage, ![c].approval = approval,
                             ![c].refused = stage = "thrown",
                             ![c].fell = IF approval THEN "account" ELSE "no"]
    /\ UNCHANGED <<channel, known, posted>>

\* maybeHandleApproval throws, as where its import of progress.js fails: the
\* handler logs "falling back to text send", and does.
ApprovalThrows(c) ==
    /\ send[c].stage \in {"flag", "lookup", "fetch", "broadcast"}
    /\ send' = [send EXCEPT ![c].stage = "post", ![c].fell = "threw"]
    /\ UNCHANGED <<channel, known, posted>>

\* isApprovalsForwardingEnabled
FlagRead(c) ==
    /\ At(c, "flag")
    /\ \E stage \in {"lookup", "dropped"} : Goto(c, stage)
    /\ UNCHANGED <<channel, known, posted>>

\* The cache is asked first.
Lookup(c) ==
    /\ At(c, "lookup")
    /\ Goto(c, IF LookupSessionId(send[c].key) # None THEN "broadcast"
                                                      ELSE "fetch")
    /\ UNCHANGED <<channel, known, posted>>

\* Slip: an approval without a session is not handled.
FetchFails_Slip(c) ==
    /\ At(c, "fetch")
    /\ Goto(c, "post")
    /\ UNCHANGED <<channel, known, posted>>

\* Then the history, which may fail, or know of no such session.
FetchFails(c) ==
    /\ At(c, "fetch")
    /\ Goto(c, "skipped")
    /\ UNCHANGED <<channel, known, posted>>

FetchAnswered(c) ==
    /\ At(c, "fetch") /\ Latest(send[c].key) # None
    /\ send' = [send EXCEPT ![c].stage = "fetched",
                            ![c].row = Latest(send[c].key)]
    /\ UNCHANGED <<channel, known, posted>>

\* Its answer is cached and used.
FetchDone(c) ==
    /\ At(c, "fetched")
    /\ LET k == send[c].key  n == send[c].row IN
        /\ cache' = RememberSessionId(cache, rows[n])
        /\ newest' = [newest EXCEPT ![k] = Max({@, n})]
        /\ mixed' = IF \/ Fetching(k) # {c} \/ catchUp.stage # "none"
                       \/ Overtaken(k, n)
                    THEN mixed \cup {k} ELSE mixed
    /\ send' = [send EXCEPT ![c].stage = "broadcast", ![c].row = None]
    /\ UNCHANGED <<channel, posted>>

\* One attempt of postWithRetry: a 2xx, a refusal, or a network error or 5xx,
\* which the server may have carried out.
PostOk(c) ==
    /\ At(c, "post")
    /\ posted' = [posted EXCEPT ![c] = @ + 1]
    /\ Goto(c, "delivered")
    /\ UNCHANGED <<channel, known>>

PostRefused(c) ==
    /\ At(c, "post")
    /\ send' = [send EXCEPT ![c].stage = "thrown", ![c].refused = TRUE]
    /\ UNCHANGED <<channel, known, posted>>

\* Slip: a 5xx is an answer like any other.
PostFails_Slip(c) ==
    /\ At(c, "post")
    /\ \E carriedOut \in {0, 1} :
            posted' = [posted EXCEPT ![c] = @ + carriedOut]
    /\ Goto(c, "delivered")
    /\ UNCHANGED <<channel, known>>

\* It is tried again, or thrown to the caller after the last try.
PostFails(c) ==
    /\ At(c, "post")
    /\ \E carriedOut \in {0, 1} :
            posted' = [posted EXCEPT ![c] = @ + carriedOut]
    /\ send' = [send EXCEPT
            ![c].tries = @ + 1,
            ![c].stage = IF send[c].tries + 1 = Tries THEN "thrown" ELSE @]
    /\ UNCHANGED <<channel, known>>

SendStep(c) ==
    \/ Send(c) \/ NoAccount(c) \/ FlagRead(c) \/ Lookup(c) \/ FetchFails(c)
    \/ FetchAnswered(c) \/ FetchDone(c) \/ ApprovalThrows(c)
    \/ PostOk(c) \/ PostRefused(c) \/ PostFails(c)

Next ==
    \/ \E k \in Keys : UserMessage(k)
    \/ OnInsert \/ Drop \/ Accept \/ JoinOk
    \/ CatchUpAnswered \/ CatchUpFails \/ CatchUpDone
    \/ \E c \in Sends : SendStep(c)

Spec == Init /\ [][Next]_vars

-----------------------------------------------------------------------------
(* Properties.                                                             *)

\* An approval for a key is broadcast to the session of the key's newest
\* message that the plugin knows, however streamed rows, catch-ups, drops and
\* fetched answers alternate; unless two of them crossed, a row that is still
\* in the stream was overtaken by the history, or a catch-up had two messages
\* of the key to bring in, and no newer message was read from the stream since:
\* then to an earlier session of the same key.
CacheFresh ==
    \A k \in Keys :
        \/ LookupSessionId(k) = None /\ newest[k] = None
        \/ \E n \in RowsOf(k) : /\ LookupSessionId(k) = rows[n].session
                                /\ k \in mixed \/ n = newest[k]

\* The prompt of an approval goes out as a message of the agent only where its
\* account is not configured or its handling threw: not when forwarding is off,
\* no session is known, or the fetch fails.
ApprovalNeverText ==
    \A c \in Sends : send[c].approval /\ send[c].fell = "no" =>
        posted[c] = 0 /\ send[c].stage \notin {"post", "delivered", "thrown"}

\* The gateway hears the truth of a text: what returns was stored, and what
\* throws was refused, had no account, or failed at every attempt.
ToldTruly ==
    \A c \in Sends :
        /\ At(c, "delivered") => posted[c] > 0
        /\ At(c, "thrown") => send[c].refused \/ send[c].tries = Tries
=============================================================================
