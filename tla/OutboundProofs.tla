--------------------------- MODULE OutboundProofs ---------------------------
(***************************************************************************)
(* Proofs of the safety of Outbound, for any session keys and calls, and   *)
(* for any bounds on the messages and the attempts.                        *)
(***************************************************************************)
EXTENDS Outbound, WellFoundedInduction, TLAPS

\* What the plugin knows of a key is one of the key's messages.
NewestKnown == \A k \in Keys : newest[k] \in RowsOf(k) \cup {None}

\* A message above the mark was not read from the stream.
MarkInv ==
    /\ mark <= Len(rows) /\ live \subseteq DOMAIN rows
    /\ \A n \in DOMAIN rows : n > mark => n \notin live

\* What is in the stream is no older than what is known of its key, or news of
\* the key crossed.
StreamInv ==
    /\ stream \subseteq DOMAIN rows
    /\ \A n \in stream : rows[n].key \in mixed \/ newest[rows[n].key] <= n

\* What a catch-up may dispatch was not read from the stream, or its key had a
\* message read meanwhile; and it brings in, again, whatever was fetched before
\* it began.
CatchUpInv ==
    catchUp.stage # "none" =>
        /\ catchUp.since <= mark
        /\ \A n \in DOMAIN rows :
            n > catchUp.since => n \notin live \/ rows[n].key \in mixed
        /\ catchUp.stage = "answered" =>
            /\ catchUp.answer \subseteq Unseen(catchUp.since)
            /\ \A k \in Keys \ mixed :
                newest[k] > catchUp.since => newest[k] \in catchUp.answer

\* A fetched answer is no older than what is known of its key.
FetchInv ==
    \A c \in Sends : At(c, "fetched") =>
        /\ send[c].row \in RowsOf(send[c].key)
        /\ send[c].key \in mixed \/ newest[send[c].key] <= send[c].row

FreshInv ==
    /\ NewestKnown /\ MarkInv /\ StreamInv /\ CatchUpInv /\ FetchInv
    /\ CacheFresh

\* A call that looks for a session forwards an approval, for a key, and was
\* not tried as a text.
ApprovalInv ==
    \A c \in Sends :
        /\ send[c].stage \in {"flag", "lookup", "fetch", "fetched", "broadcast"}
            => /\ send[c].approval /\ send[c].fell = "no"
               /\ send[c].key \in Keys /\ send[c].tries = 0
        /\ At(c, "idle") => ~send[c].approval /\ send[c].fell = "no"

\* A text that is being posted has attempts left, each carried out at most
\* once.
PostInv ==
    \A c \in Sends :
        /\ At(c, "idle") => send[c].tries = 0
        /\ At(c, "post") => send[c].tries < Tries
        /\ send[c].stage \in Waits \cup {"idle"} => posted[c] <= send[c].tries

SendInv == ApprovalInv /\ PostInv /\ ApprovalNeverText /\ ToldTruly

-----------------------------------------------------------------------------
(* Extrema.                                                                *)

\* A set of numbers has a least one.
LEMMA MinIs ==
    ASSUME NEW T \in SUBSET Nat, T # {}
    PROVE  Min(T) \in T /\ \A y \in T : Min(T) <= y
<1>1. PICK x \in T : \A y \in T : ~(<<y, x>> \in OpToRel(<, Nat))
  BY NatLessThanWellFounded, WFMin
<1>2. \A y \in T : ~(y < x)
  BY <1>1 DEF OpToRel
<1>3. \A y \in T : x <= y
  BY <1>2
<1> QED
  BY <1>3 DEF Min

\* A bounded one has a greatest.
LEMMA MaxIs ==
    ASSUME NEW T \in SUBSET Nat, T # {}, NEW n \in Nat, \A x \in T : x <= n
    PROVE  Max(T) \in T /\ \A y \in T : y <= Max(T)
<1> DEFINE D == {n - x : x \in T}
<1>1. D \in SUBSET Nat /\ D # {}
  OBVIOUS
<1>2. Min(D) \in D /\ \A d \in D : Min(D) <= d
  BY <1>1, MinIs
<1>3. PICK x \in T : Min(D) = n - x
  BY <1>2
<1>4. \A y \in T : y <= x
  <2> TAKE y \in T
  <2>1. n - y \in D
    OBVIOUS
  <2>2. n - x <= n - y
    <3> HIDE DEF D
    <3> QED
      BY <1>2, <1>3, <2>1
  <2> QED
    BY <2>2
<1> QED
  BY <1>4 DEF Max

-----------------------------------------------------------------------------
(* The rows.                                                               *)

\* A row's key and session.
LEMMA RowType ==
    ASSUME TypeOK, NEW n \in DOMAIN rows
    PROVE  rows[n].key \in Keys /\ rows[n].session \in Row /\ n \in Row
<1> DEFINE R == [key : Keys, session : Row]
<1>1. rows \in Seq(R) /\ Len(rows) <= MaxRows
  BY DEF TypeOK
<1>2. rows[n] \in R /\ n \in 1..Len(rows)
  <2> HIDE DEF R
  <2> QED
    BY <1>1
<1> QED
  BY <1>1, <1>2, BoundsAssumption DEF Row

\* The newest row of a key, if it has any.
LEMMA LatestIs ==
    ASSUME TypeOK, NEW k
    PROVE  /\ Latest(k) \in RowsOf(k) \cup {None}
           /\ \A n \in RowsOf(k) \cup {None} : n <= Latest(k)
           /\ Latest(k) = None <=> RowsOf(k) = {}
<1> DEFINE T == RowsOf(k) \cup {None}
<1>1. Len(rows) \in Nat /\ DOMAIN rows = 1..Len(rows)
  BY DEF TypeOK
<1>2. T \in SUBSET Nat /\ T # {} /\ \A x \in T : x <= Len(rows)
  BY <1>1 DEF RowsOf, None
<1>3. Max(T) \in T /\ \A y \in T : y <= Max(T)
  BY <1>1, <1>2, MaxIs
<1>4. \A n \in RowsOf(k) : n # None
  BY <1>1 DEF RowsOf, None
<1>5. Latest(k) = Max(T)
  BY DEF Latest
<1> HIDE DEF T
<1>6. RowsOf(k) # {} => Latest(k) # None
  <2> SUFFICES ASSUME NEW n \in RowsOf(k) PROVE Latest(k) # None
    OBVIOUS
  <2>1. n \in Nat /\ n # 0 /\ n <= Max(T) /\ Max(T) \in Nat
    BY <1>2, <1>3, <1>4 DEF T, None
  <2> QED
    BY <1>5, <2>1 DEF None
<1> QED
  BY <1>3, <1>5, <1>6 DEF T

\* A message is added at the end, under its key.
LEMMA RowAdded ==
    ASSUME TypeOK, NEW k \in Keys, UserMessage(k)
    PROVE  /\ rows' \in Seq([key : Keys, session : Row])
           /\ Len(rows) \in Nat /\ Len(rows') = Len(rows) + 1
           /\ Len(rows') <= MaxRows
           /\ \A n \in DOMAIN rows : rows'[n] = rows[n]
           /\ rows'[Len(rows')].key = k
<1> DEFINE R == [key : Keys, session : Row]
           N == Len(rows) + 1
<1>1. /\ rows \in Seq(R) /\ Len(rows) \in Nat
      /\ Len(rows) < MaxRows /\ MaxRows \in Nat
  BY BoundsAssumption DEF TypeOK, UserMessage
<1>2. PICK session \in {N} \cup IF Latest(k) = None THEN {}
                               ELSE {rows[Latest(k)].session} :
        rows' = Append(rows, [key |-> k, session |-> session])
  BY DEF UserMessage
<1>3. session \in Row
  <2>1. CASE session = N
    BY <1>1, <2>1 DEF Row
  <2>2. CASE Latest(k) # None /\ session = rows[Latest(k)].session
    <3>1. Latest(k) \in DOMAIN rows
      BY <2>2, LatestIs DEF RowsOf
    <3> QED
      BY <2>2, <3>1, RowType
  <2> QED
    BY <1>2, <2>1, <2>2
<1> DEFINE row == [key |-> k, session |-> session]
<1>4. row \in R /\ row.key = k
  BY <1>3
<1> HIDE DEF R, row
<1>5. /\ rows' \in Seq(R) /\ Len(rows') = Len(rows) + 1
      /\ \A n \in DOMAIN rows : rows'[n] = rows[n]
      /\ rows'[Len(rows) + 1] = row
  BY <1>1, <1>2, <1>4 DEF row
<1> QED
  BY <1>1, <1>4, <1>5 DEF R

\* The rows of a key are still there after any step, and a message adds one
\* to its own key.
LEMMA RowsKept ==
    ASSUME TypeOK, [Next]_vars
    PROVE  /\ Len(rows) <= Len(rows')
           /\ \A n \in DOMAIN rows : n \in DOMAIN rows' /\ rows'[n] = rows[n]
           /\ \A k \in Keys : RowsOf(k) \subseteq RowsOf(k)'
<1>1. Len(rows) \in Nat /\ DOMAIN rows = 1..Len(rows)
  BY DEF TypeOK
<1>2. CASE \E k \in Keys : UserMessage(k)
  <2>1. PICK k \in Keys : UserMessage(k)
    BY <1>2
  <2>2. /\ Len(rows') = Len(rows) + 1 /\ DOMAIN rows' = 1..Len(rows')
        /\ \A n \in DOMAIN rows : rows'[n] = rows[n]
    BY <2>1, RowAdded
  <2>3. \A n \in DOMAIN rows : n \in DOMAIN rows'
    BY <1>1, <2>2
  <2> QED
    BY <1>1, <2>2, <2>3 DEF RowsOf
<1>3. CASE UNCHANGED rows
  BY <1>1, <1>3 DEF RowsOf
<1>4. (\E k \in Keys : UserMessage(k)) \/ UNCHANGED rows
  BY DEF Next, vars, channel, OnInsert, Drop, Accept, JoinOk, CatchUpAnswered,
         CatchUpFails, CatchUpDone, SendStep, Send, NoAccount, FlagRead, Lookup,
         FetchFails, FetchAnswered, FetchDone, ApprovalThrows, PostOk,
         PostRefused, PostFails
<1> QED
  BY <1>2, <1>3, <1>4

\* The higher of a number and some rows.
LEMMA HighestIs ==
    ASSUME NEW S \in SUBSET Row, NEW m \in 0..MaxRows
    PROVE  /\ Max(S \cup {m}) \in 0..MaxRows
           /\ Max(S \cup {m}) \in S \cup {m}
           /\ \A y \in S \cup {m} : y <= Max(S \cup {m})
<1> DEFINE T == S \cup {m}
<1>1. T \in SUBSET (0..MaxRows) /\ T # {} /\ MaxRows \in Nat
  BY BoundsAssumption DEF Row
<1> HIDE DEF T
<1>2. T \in SUBSET Nat /\ \A x \in T : x <= MaxRows
  BY <1>1
<1>3. Max(T) \in T /\ \A y \in T : y <= Max(T)
  BY <1>1, <1>2, MaxIs
<1> QED
  BY <1>1, <1>3 DEF T

\* What a catch-up dispatches last for a key is one of its rows.
LEMMA LastCaughtIs ==
    ASSUME TypeOK, NEW k \in Keys, Caught(k) # {}
    PROVE  LastCaught(k) \in Caught(k)
<1>1. /\ Caught(k) \in SUBSET Nat /\ MaxRows \in Nat
      /\ \A n \in Caught(k) : n <= MaxRows
  BY BoundsAssumption DEF Caught, TypeOK, Row
<1>2. Min(Caught(k)) \in Caught(k) /\ Max(Caught(k)) \in Caught(k)
  BY <1>1, MinIs, MaxIs
<1> QED
  BY <1>2 DEF LastCaught

-----------------------------------------------------------------------------
(* Types, and the calls.                                                   *)

\* The calls are as they were, or one of them has taken a step.
LEMMA CallsStep ==
    ASSUME [Next]_vars
    PROVE  UNCHANGED <<send, posted>> \/ \E c \in Sends : SendStep(c)
BY DEF Next, vars, UserMessage, OnInsert, Drop, Accept, JoinOk, CatchUpAnswered,
       CatchUpFails, CatchUpDone

\* The types of a call.
Call == [stage : {"idle"} \cup Waits \cup Results, approval : BOOLEAN,
         key : Keys \cup {None}, row : 0..MaxRows, tries : 0..Tries,
         refused : BOOLEAN, fell : Falls]

CallsOK == send \in [Sends -> Call] /\ posted \in [Sends -> 0..Tries]

\* A step of a call that sets what becomes of it, all else unchanged.
Becomes(c, call, copies) ==
    /\ send' = [send EXCEPT ![c] = call]
    /\ posted' = [posted EXCEPT ![c] = copies]

\* What the invariants say of one call.
CallInv(call, copies) ==
    /\ call.stage \in {"flag", "lookup", "fetch", "fetched", "broadcast"}
        => call.approval /\ call.fell = "no" /\ call.key \in Keys
            /\ call.tries = 0
    /\ call.stage = "idle" => ~call.approval /\ call.fell = "no"
    /\ call.approval /\ call.fell = "no" =>
        copies = 0 /\ call.stage \notin {"post", "delivered", "thrown"}
    /\ call.stage = "idle" => call.tries = 0
    /\ call.stage = "post" => call.tries < Tries
    /\ call.stage \in Waits \cup {"idle"} => copies <= call.tries
    /\ call.stage = "delivered" => copies > 0
    /\ call.stage = "thrown" => call.refused \/ call.tries = Tries

LEMMA SendInvIs == SendInv <=> \A c \in Sends : CallInv(send[c], posted[c])
BY DEF SendInv, ApprovalInv, PostInv, ApprovalNeverText, ToldTruly, At, CallInv

LEMMA CallsInductive ==
    TypeOK /\ SendInv /\ [Next]_vars => CallsOK' /\ SendInv'
<1> SUFFICES ASSUME TypeOK, SendInv, [Next]_vars
             PROVE  CallsOK' /\ SendInv'
  OBVIOUS
<1>0. Tries \in Nat /\ Tries # 0 /\ CallsOK
  BY BoundsAssumption DEF TypeOK, CallsOK, Call
<1>1. CASE UNCHANGED <<send, posted>>
  BY <1>0, <1>1 DEF CallsOK, SendInv, ApprovalInv, PostInv,
                    ApprovalNeverText, ToldTruly, At
<1> SUFFICES ASSUME NEW c \in Sends, SendStep(c)
             PROVE  CallsOK' /\ SendInv'
  BY <1>1, CallsStep
<1>a. send[c] \in Call /\ posted[c] \in 0..Tries /\ CallInv(send[c], posted[c])
  BY <1>0, SendInvIs DEF CallsOK
<1>b. SUFFICES \E call \in Call, copies \in 0..Tries :
            Becomes(c, call, copies) /\ CallInv(call, copies)
  <2>1. PICK call \in Call, copies \in 0..Tries :
            Becomes(c, call, copies) /\ CallInv(call, copies)
    BY <1>b
  <2>2. CallsOK'
    BY <1>0, <2>1 DEF Becomes, CallsOK
  <2>3. \A d \in Sends : CallInv(send'[d], posted'[d])
    BY <1>0, <2>1, SendInvIs DEF Becomes, CallsOK
  <2>4. SendInv'
    BY <2>3 DEF SendInv, ApprovalInv, PostInv, ApprovalNeverText, ToldTruly,
                At, CallInv
  <2> QED
    BY <2>2, <2>4
<1>2. CASE Send(c)
  <2>1. CASE Goto(c, "post")
    <3> DEFINE call == [send[c] EXCEPT !.stage = "post"]
    <3>1. Becomes(c, call, posted[c])
      BY <1>0, <2>1, <1>2 DEF Send, Goto, Becomes, CallsOK
    <3>2. call \in Call /\ CallInv(call, posted[c]) /\ posted[c] \in 0..Tries
      BY <1>0, <2>1, <1>2, <1>a DEF Send, At, Call, CallInv, Waits, Results
    <3> QED
      BY <3>1, <3>2
  <2>2. ASSUME NEW k \in Keys,
               send' = [send EXCEPT ![c].stage = "flag",
                                    ![c].approval = TRUE, ![c].key = k]
        PROVE  \E call \in Call, copies \in 0..Tries :
                 Becomes(c, call, copies) /\ CallInv(call, copies)
    <3> DEFINE call == [send[c] EXCEPT !.stage = "flag", !.approval = TRUE,
                                       !.key = k]
    <3>1. Becomes(c, call, posted[c])
      BY <1>0, <1>2, <2>2 DEF Send, Becomes, CallsOK
    <3>2. call \in Call
      BY <1>a DEF Call, Waits
    <3>3. /\ call.stage = "flag" /\ call.approval /\ call.key \in Keys
          /\ call.tries = send[c].tries /\ call.fell = send[c].fell
      BY <1>a DEF Call
    <3>4. send[c].stage = "idle"
      BY <1>2 DEF Send, At
    <3> HIDE DEF call
    <3>5. CallInv(call, posted[c])
      BY <1>0, <1>a, <3>3, <3>4 DEF CallInv, Waits
    <3> QED
      BY <1>a, <3>1, <3>2, <3>5
  <2> QED
    BY <1>2, <2>1, <2>2 DEF Send
<1>11. CASE NoAccount(c)
  <2>1. PICK approval \in BOOLEAN, stage \in {"post", "thrown"} :
          send' = [send EXCEPT ![c].stage = stage, ![c].approval = approval,
                        ![c].refused = stage = "thrown",
                        ![c].fell = IF approval THEN "account" ELSE "no"]
    BY <1>11 DEF NoAccount
  <2> DEFINE fell == IF approval THEN "account" ELSE "no"
             call == [send[c] EXCEPT !.stage = stage, !.approval = approval,
                            !.refused = stage = "thrown", !.fell = fell]
  <2>2. Becomes(c, call, posted[c])
    BY <1>0, <1>11, <2>1 DEF NoAccount, Becomes, CallsOK
  <2>3. call \in Call
    BY <1>a DEF Call, Waits, Results, Falls
  <2>4. /\ call.stage = stage /\ call.approval = approval /\ call.fell = fell
        /\ call.refused = (stage = "thrown") /\ call.tries = send[c].tries
    BY <1>a DEF Call
  <2>5. send[c].stage = "idle"
    BY <1>11 DEF NoAccount, At
  <2> HIDE DEF call
  <2>6. send[c].tries = 0 /\ posted[c] <= 0
    BY <1>a, <2>5 DEF CallInv
  <2>7. ASSUME stage = "post" PROVE CallInv(call, posted[c])
    BY <1>0, <2>4, <2>6, <2>7 DEF CallInv, Waits
  <2>8. ASSUME stage = "thrown" PROVE CallInv(call, posted[c])
    BY <1>0, <2>4, <2>6, <2>8 DEF CallInv, Waits
  <2>9. CallInv(call, posted[c])
    BY <2>7, <2>8
  <2> QED
    BY <1>a, <2>2, <2>3, <2>9
<1>12. CASE ApprovalThrows(c)
  <2> DEFINE call == [send[c] EXCEPT !.stage = "post", !.fell = "threw"]
  <2>1. Becomes(c, call, posted[c])
    BY <1>0, <1>12 DEF ApprovalThrows, Becomes, CallsOK
  <2>2. call \in Call
    BY <1>a DEF Call, Waits, Falls
  <2>3. /\ call.stage = "post" /\ call.fell = "threw"
        /\ call.tries = send[c].tries
    BY <1>a DEF Call
  <2>4. send[c].stage \in {"flag", "lookup", "fetch", "broadcast"}
    BY <1>12 DEF ApprovalThrows
  <2> HIDE DEF call
  <2>5. send[c].tries = 0 /\ posted[c] = 0
    BY <1>a, <2>4 DEF CallInv
  <2>6. CallInv(call, posted[c])
    BY <1>0, <2>3, <2>5 DEF CallInv, Waits
  <2> QED
    BY <1>a, <2>1, <2>2, <2>6
<1>3. CASE FlagRead(c)
  <2>1. CASE Goto(c, "lookup")
    <3> DEFINE call == [send[c] EXCEPT !.stage = "lookup"]
    <3>1. Becomes(c, call, posted[c])
      BY <1>0, <2>1, <1>3 DEF FlagRead, Goto, Becomes, CallsOK
    <3>2. call \in Call /\ CallInv(call, posted[c]) /\ posted[c] \in 0..Tries
      BY <1>0, <2>1, <1>3, <1>a DEF FlagRead, At, Call, CallInv, Waits, Results
    <3> QED
      BY <3>1, <3>2
  <2>2. CASE Goto(c, "dropped")
    <3> DEFINE call == [send[c] EXCEPT !.stage = "dropped"]
    <3>1. Becomes(c, call, posted[c])
      BY <1>0, <2>2, <1>3 DEF FlagRead, Goto, Becomes, CallsOK
    <3>2. call \in Call /\ CallInv(call, posted[c]) /\ posted[c] \in 0..Tries
      BY <1>0, <2>2, <1>3, <1>a DEF FlagRead, At, Call, CallInv, Waits, Results
    <3> QED
      BY <3>1, <3>2
  <2> QED
    BY <1>3, <2>1, <2>2 DEF FlagRead
<1>4. CASE Lookup(c)
  <2>1. CASE Goto(c, "broadcast")
    <3> DEFINE call == [send[c] EXCEPT !.stage = "broadcast"]
    <3>1. Becomes(c, call, posted[c])
      BY <1>0, <2>1, <1>4 DEF Lookup, Goto, Becomes, CallsOK
    <3>2. call \in Call /\ CallInv(call, posted[c]) /\ posted[c] \in 0..Tries
      BY <1>0, <2>1, <1>4, <1>a DEF Lookup, At, Call, CallInv, Waits, Results
    <3> QED
      BY <3>1, <3>2
  <2>2. CASE Goto(c, "fetch")
    <3> DEFINE call == [send[c] EXCEPT !.stage = "fetch"]
    <3>1. Becomes(c, call, posted[c])
      BY <1>0, <2>2, <1>4 DEF Lookup, Goto, Becomes, CallsOK
    <3>2. call \in Call /\ CallInv(call, posted[c]) /\ posted[c] \in 0..Tries
      BY <1>0, <2>2, <1>4, <1>a DEF Lookup, At, Call, CallInv, Waits, Results
    <3> QED
      BY <3>1, <3>2
  <2> QED
    BY <1>4, <2>1, <2>2 DEF Lookup
<1>5. CASE FetchFails(c)
  <2> DEFINE call == [send[c] EXCEPT !.stage = "skipped"]
  <2>1. Becomes(c, call, posted[c])
    BY <1>0, <1>5 DEF FetchFails, Goto, Becomes, CallsOK
  <2>2. call \in Call /\ CallInv(call, posted[c]) /\ posted[c] \in 0..Tries
    BY <1>0, <1>5, <1>a DEF FetchFails, At, Call, CallInv, Waits, Results
  <2> QED
    BY <2>1, <2>2
<1>6. CASE FetchAnswered(c)
  <2>0. Latest(send[c].key) \in 0..MaxRows
    <3>1. Latest(send[c].key) \in RowsOf(send[c].key)
      BY <1>6, LatestIs DEF FetchAnswered
    <3>2. Latest(send[c].key) \in Row
      BY <3>1, RowType DEF RowsOf
    <3> QED
      BY <3>2 DEF Row
  <2> DEFINE call == [send[c] EXCEPT !.stage = "fetched",
                                     !.row = Latest(send[c].key)]
  <2>1. Becomes(c, call, posted[c])
    BY <1>0, <1>6 DEF FetchAnswered, Goto, Becomes, CallsOK
  <2>2. call \in Call /\ CallInv(call, posted[c]) /\ posted[c] \in 0..Tries
    BY <1>0, <1>6, <1>a, <2>0
       DEF FetchAnswered, At, Call, CallInv, Waits, Results
  <2> QED
    BY <2>1, <2>2
<1>7. CASE FetchDone(c)
  <2> DEFINE call == [send[c] EXCEPT !.stage = "broadcast", !.row = None]
  <2>1. Becomes(c, call, posted[c])
    BY <1>0, <1>7 DEF FetchDone, Goto, Becomes, CallsOK
  <2>2. call \in Call
    <3>1. 0 \in 0..MaxRows
      BY BoundsAssumption
    <3> QED
      BY <1>a, <3>1 DEF Call, Results, None
  <2>3. /\ call.stage = "broadcast" /\ call.approval = send[c].approval
        /\ call.fell = send[c].fell /\ call.key = send[c].key
        /\ call.tries = send[c].tries
    BY <1>a DEF Call
  <2>4. send[c].stage = "fetched"
    BY <1>7 DEF FetchDone, At
  <2> HIDE DEF call
  <2>5. CallInv(call, posted[c])
    BY <1>a, <2>3, <2>4 DEF CallInv, Waits
  <2> QED
    BY <1>a, <2>1, <2>2, <2>5
<1>8. CASE PostOk(c)
  <2> DEFINE call == [send[c] EXCEPT !.stage = "delivered"]
  <2>1. Becomes(c, call, posted[c] + 1)
    BY <1>0, <1>8 DEF PostOk, Goto, Becomes, CallsOK
  <2>2. /\ call \in Call /\ CallInv(call, posted[c] + 1)
        /\ posted[c] + 1 \in 0..Tries
    BY <1>0, <1>8, <1>a DEF PostOk, At, Call, CallInv, Waits, Results
  <2> QED
    BY <2>1, <2>2
<1>9. CASE PostRefused(c)
  <2> DEFINE call == [send[c] EXCEPT !.stage = "thrown", !.refused = TRUE]
  <2>1. Becomes(c, call, posted[c])
    BY <1>0, <1>9 DEF PostRefused, Goto, Becomes, CallsOK
  <2>2. call \in Call /\ CallInv(call, posted[c]) /\ posted[c] \in 0..Tries
    BY <1>0, <1>9, <1>a DEF PostRefused, At, Call, CallInv, Waits, Results
  <2> QED
    BY <2>1, <2>2
<1>10. CASE PostFails(c)
  <2>1. PICK carriedOut \in {0, 1} :
          posted' = [posted EXCEPT ![c] = @ + carriedOut]
    BY <1>10 DEF PostFails
  <2> DEFINE call == [send[c] EXCEPT
                !.tries = @ + 1,
                !.stage = IF send[c].tries + 1 = Tries THEN "thrown" ELSE @]
             copies == posted[c] + carriedOut
  <2>2. Becomes(c, call, copies)
    BY <1>0, <1>10, <2>1 DEF PostFails, Becomes, CallsOK
  <2>3. send[c].stage = "post"
    BY <1>10 DEF PostFails, At
  <2>4. send[c].tries \in 0..Tries /\ send[c].tries < Tries
    BY <1>a, <2>3 DEF Call, CallInv
  <2>5. call \in Call
    <3>1. send[c].tries + 1 \in 0..Tries
      BY <1>0, <2>4
    <3>2. (IF send[c].tries + 1 = Tries THEN "thrown" ELSE send[c].stage)
            \in {"idle"} \cup Waits \cup Results
      BY <1>a DEF Call, Results
    <3> QED
      BY <1>a, <3>1, <3>2 DEF Call
  <2>6. /\ call.tries = send[c].tries + 1 /\ call.approval = send[c].approval
        /\ call.fell = send[c].fell
        /\ call.stage = IF send[c].tries + 1 = Tries THEN "thrown" ELSE "post"
    BY <1>a, <2>3 DEF Call
  <2> HIDE DEF call
  <2>7. CallInv(call, copies) /\ copies \in 0..Tries
    BY <1>0, <1>a, <2>3, <2>4, <2>6 DEF CallInv, Waits
  <2> QED
    BY <2>2, <2>5, <2>7
<1> QED
  BY <1>2, <1>3, <1>4, <1>5, <1>6, <1>7, <1>8, <1>9, <1>10, <1>11, <1>12
     DEF SendStep

\* The types of all but the calls.
KnownOK ==
    /\ rows \in Seq([key : Keys, session : Row]) /\ Len(rows) <= MaxRows
    /\ connected \in BOOLEAN /\ told \in BOOLEAN /\ stream \subseteq Row
    /\ mark \in 0..MaxRows
    /\ catchUp \in [stage : {"none", "asked", "answered"}, since : 0..MaxRows,
                    answer : SUBSET Row, newestFirst : BOOLEAN]
    /\ cache \in [Keys -> 0..MaxRows]
    /\ live \subseteq Row /\ newest \in [Keys -> 0..MaxRows]
    /\ mixed \subseteq Keys

\* The next row of the stream is the least, and it is some key's.
LEMMA NextRow ==
    ASSUME TypeOK, StreamInv, OnInsert
    PROVE  /\ Min(stream) \in stream /\ \A m \in stream : Min(stream) <= m
           /\ Min(stream) \in DOMAIN rows /\ Min(stream) \in Row
           /\ rows[Min(stream)].key \in Keys
           /\ rows[Min(stream)].session \in Row
<1>1. stream \in SUBSET Nat /\ stream # {} /\ stream \subseteq DOMAIN rows
  BY DEF TypeOK, Row, OnInsert, StreamInv
<1>2. Min(stream) \in stream /\ \A m \in stream : Min(stream) <= m
  BY <1>1, MinIs
<1> QED
  BY <1>1, <1>2, RowType

\* The higher of two rows.
LEMMA HigherIs ==
    ASSUME NEW n \in Row, NEW m \in 0..MaxRows
    PROVE  /\ Max({m, n}) \in 0..MaxRows /\ Max({m, n}) \in {m, n}
           /\ n <= Max({m, n}) /\ m <= Max({m, n})
<1>1. {m, n} = {n} \cup {m} /\ {n} \in SUBSET Row
  OBVIOUS
<1> QED
  BY <1>1, HighestIs

\* A call whose history was answered looks for a row of a key.
LEMMA FetchedRow ==
    ASSUME TypeOK, SendInv, FetchInv, NEW c \in Sends, At(c, "fetched")
    PROVE  /\ send[c].key \in Keys /\ send[c].row \in RowsOf(send[c].key)
           /\ send[c].row \in DOMAIN rows /\ send[c].row \in Row
           /\ rows[send[c].row].key = send[c].key
           /\ rows[send[c].row].session \in Row
<1>1. send[c].key \in Keys /\ send[c].row \in RowsOf(send[c].key)
  BY DEF SendInv, ApprovalInv, FetchInv, At
<1> QED
  BY <1>1, RowType DEF RowsOf

LEMMA KnownInductive ==
    TypeOK /\ SendInv /\ StreamInv /\ FetchInv /\ [Next]_vars => KnownOK'
<1> SUFFICES ASSUME TypeOK, SendInv, StreamInv, FetchInv, [Next]_vars
             PROVE  KnownOK'
  OBVIOUS
<1>0. MaxRows \in Nat /\ KnownOK
  BY BoundsAssumption DEF TypeOK, KnownOK
<1>a. /\ cache \in [Keys -> 0..MaxRows] /\ newest \in [Keys -> 0..MaxRows]
      /\ mixed \subseteq Keys /\ live \subseteq Row /\ mark \in 0..MaxRows
  BY DEF TypeOK
<1>b. \A n \in Row : n \in 0..MaxRows
  BY <1>0 DEF Row
<1>1. ASSUME NEW k \in Keys, UserMessage(k) PROVE KnownOK'
  <2>1. /\ rows' \in Seq([key : Keys, session : Row]) /\ Len(rows) \in Nat
        /\ Len(rows') = Len(rows) + 1 /\ Len(rows') <= MaxRows
    BY <1>1, RowAdded
  <2>2. stream' \subseteq Row
    <3>1. stream' \subseteq stream \cup {Len(rows) + 1}
      BY <1>1 DEF UserMessage
    <3>2. Len(rows) + 1 \in Row
      BY <1>0, <2>1 DEF Row
    <3> QED
      BY <1>0, <3>1, <3>2 DEF KnownOK
  <2>3. UNCHANGED <<connected, told, mark, catchUp, live, cache, newest, mixed>>
    BY <1>1 DEF UserMessage, known
  <2> QED
    BY <1>0, <2>1, <2>2, <2>3 DEF KnownOK
<1>9. CASE OnInsert
  <2> DEFINE n == Min(stream)
             k == rows[n].key
  <2>1. n \in Row /\ k \in Keys /\ rows[n].session \in Row
    BY <1>9, NextRow
  <2>2. /\ stream' \subseteq stream /\ live' = live \cup {n}
        /\ mark' = Max({mark, n})
        /\ cache' = [cache EXCEPT ![k] = rows[n].session]
        /\ newest' = [newest EXCEPT ![k] = Max({newest[k], n})]
        /\ mixed' \subseteq mixed \cup {k}
        /\ UNCHANGED <<rows, connected, told, catchUp>>
    BY <1>a, <1>9, <2>1 DEF OnInsert, RememberSessionId
  <2> HIDE DEF k, n
  <2>3. mark' \in 0..MaxRows
    BY <1>a, <2>1, <2>2, HigherIs
  <2>4. newest[k] \in 0..MaxRows
    BY <1>a, <2>1
  <2>5. Max({newest[k], n}) \in 0..MaxRows
    BY <2>1, <2>4, HigherIs
  <2>6. cache' \in [Keys -> 0..MaxRows] /\ newest' \in [Keys -> 0..MaxRows]
    BY <1>a, <1>b, <2>1, <2>2, <2>5
  <2>7. live' \subseteq Row /\ stream' \subseteq Row /\ mixed' \subseteq Keys
    BY <1>0, <1>a, <2>1, <2>2 DEF KnownOK
  <2> QED
    BY <1>0, <2>2, <2>3, <2>6, <2>7 DEF KnownOK
<1>10. CASE Accept
  BY <1>0, <1>10 DEF Accept, KnownOK, known
<1>2. CASE Drop
  BY <1>0, <1>2 DEF Drop, KnownOK, known
<1>3. CASE JoinOk
  BY <1>0, <1>3 DEF JoinOk, KnownOK, known, Idle, None
<1>4. CASE CatchUpAnswered
  <2>1. Unseen(catchUp.since) \subseteq Row
    BY RowType DEF Unseen
  <2> QED
    BY <1>0, <1>4, <2>1 DEF CatchUpAnswered, KnownOK, known
<1>5. CASE CatchUpFails
  BY <1>0, <1>5 DEF CatchUpFails, KnownOK, known, Idle, None
<1>6. CASE CatchUpDone
  <2>1. mark' \in 0..MaxRows
    <3>1. catchUp.answer \in SUBSET Row /\ mark \in 0..MaxRows
      BY <1>0 DEF KnownOK
    <3> QED
      BY <1>6, <3>1, HighestIs DEF CatchUpDone
  <2>2. cache' \in [Keys -> 0..MaxRows]
    <3>1. ASSUME NEW k \in Keys, Caught(k) # {}
          PROVE  rows[LastCaught(k)].session \in 0..MaxRows
      <4>1. LastCaught(k) \in DOMAIN rows
        BY <3>1, LastCaughtIs DEF Caught, RowsOf
      <4> QED
        BY <4>1, RowType DEF Row
    <3> QED
      BY <1>0, <1>6, <3>1 DEF CatchUpDone, KnownOK
  <2>3. newest' \in [Keys -> 0..MaxRows]
    <3>1. ASSUME NEW k \in Keys
          PROVE  Max(Caught(k) \cup {newest[k]}) \in 0..MaxRows
      <4>1. Caught(k) \in SUBSET Row /\ newest[k] \in 0..MaxRows
        BY <1>0 DEF KnownOK, Caught
      <4> QED
        BY <4>1, HighestIs
    <3> QED
      BY <1>6, <3>1 DEF CatchUpDone
  <2>4. mixed' \subseteq Keys
    BY <1>0, <1>6 DEF CatchUpDone, KnownOK
  <2>5. UNCHANGED <<rows, connected, told, stream, live>> /\ catchUp' = Idle
    BY <1>6 DEF CatchUpDone
  <2> QED
    BY <1>0, <2>1, <2>2, <2>3, <2>4, <2>5 DEF KnownOK, Idle, None
<1>7. ASSUME NEW c \in Sends, FetchDone(c) PROVE KnownOK'
  <2> DEFINE k == send[c].key
             n == send[c].row
  <2>1. /\ k \in Keys /\ n \in Row
        /\ rows[n].key = k /\ rows[n].session \in Row
    BY <1>7, FetchedRow DEF FetchDone
  <2>2. Max({newest[k], n}) \in 0..MaxRows
    <3>1. newest[k] \in 0..MaxRows
      BY <1>0, <2>1 DEF KnownOK
    <3> HIDE DEF k, n
    <3> QED
      BY <2>1, <3>1, HigherIs
  <2>3. /\ cache' = [cache EXCEPT ![k] = rows[n].session]
        /\ newest' = [newest EXCEPT ![k] = Max({newest[k], n})]
        /\ mixed' \subseteq mixed \cup {k}
        /\ UNCHANGED <<rows, connected, told, stream, mark, catchUp, live>>
    BY <1>0, <1>7, <2>1
       DEF FetchDone, RememberSessionId, channel, KnownOK
  <2> HIDE DEF k, n
  <2>4. cache' \in [Keys -> 0..MaxRows] /\ newest' \in [Keys -> 0..MaxRows]
    BY <1>a, <1>b, <2>1, <2>2, <2>3
  <2> QED
    BY <1>0, <2>1, <2>3, <2>4 DEF KnownOK
<1>8. CASE UNCHANGED <<channel, known>>
  BY <1>0, <1>8 DEF KnownOK, channel, known
<1> QED
  BY <1>1, <1>2, <1>3, <1>4, <1>5, <1>6, <1>7, <1>8, <1>9, <1>10
     DEF Next, vars, SendStep, Send, NoAccount, FlagRead, Lookup, FetchFails,
         FetchAnswered, ApprovalThrows, PostOk, PostRefused, PostFails,
         channel, known

-----------------------------------------------------------------------------
(* The cache.                                                              *)

\* FreshInv is preserved by a user message, which is newer than all that is
\* known.
LEMMA FreshUserMessage ==
    ASSUME TypeOK, FreshInv, NEW k \in Keys, UserMessage(k)
    PROVE  FreshInv'
<1> USE DEF At
<1> DEFINE N == Len(rows) + 1
<1>1. /\ Len(rows) \in Nat /\ Len(rows') = N
      /\ DOMAIN rows = 1..Len(rows) /\ DOMAIN rows' = 1..N
      /\ \A n \in DOMAIN rows : rows'[n] = rows[n]
      /\ rows'[N].key = k
  BY RowAdded
<1>2. DOMAIN rows' = DOMAIN rows \cup {N} /\ N \notin DOMAIN rows
  BY <1>1
<1>3. \A j \in Keys : RowsOf(j)' = IF j = k THEN RowsOf(j) \cup {N}
                                            ELSE RowsOf(j)
  BY <1>1, <1>2 DEF RowsOf
<1>4. /\ mark \in Nat /\ mark <= Len(rows)
      /\ catchUp.since \in Nat /\ newest \in [Keys -> 0..MaxRows]
  BY DEF TypeOK, FreshInv, MarkInv
<1>5. /\ UNCHANGED <<mark, catchUp, live, cache, newest, mixed, send>>
      /\ stream' \subseteq stream \cup {N}
  BY DEF UserMessage, known
<1>6. newest[k] <= N
  BY <1>1, <1>4 DEF FreshInv, NewestKnown, RowsOf, None
<1>7. NewestKnown'
  BY <1>3, <1>5 DEF FreshInv, NewestKnown
<1>8. MarkInv'
  BY <1>1, <1>2, <1>4, <1>5 DEF FreshInv, MarkInv
<1>9. StreamInv'
  BY <1>1, <1>2, <1>5, <1>6 DEF FreshInv, StreamInv
<1>10. CatchUpInv'
  BY <1>1, <1>2, <1>5 DEF FreshInv, MarkInv, CatchUpInv, Unseen
<1>11. FetchInv'
  BY <1>1, <1>2, <1>5 DEF FreshInv, FetchInv, RowsOf
<1>12. CacheFresh'
  BY <1>1, <1>3, <1>5 DEF FreshInv, CacheFresh, LookupSessionId, RowsOf
<1> QED
  BY <1>7, <1>8, <1>9, <1>10, <1>11, <1>12 DEF FreshInv

\* And by the reading of a streamed row: it is the newest that is known of its
\* key, or its key is mixed.
LEMMA FreshOnInsert ==
    ASSUME TypeOK, FreshInv, OnInsert
    PROVE  FreshInv'
<1> USE DEF At
<1> DEFINE n == Min(stream)
           k == rows[n].key
<1>1. /\ n \in stream /\ \A m \in stream : n <= m
      /\ n \in DOMAIN rows /\ n \in Row /\ k \in Keys
      /\ n \in RowsOf(k)
  BY NextRow DEF FreshInv, RowsOf
<1>2. /\ cache \in [Keys -> 0..MaxRows] /\ newest \in [Keys -> 0..MaxRows]
      /\ mixed \subseteq Keys /\ mark \in 0..MaxRows /\ stream \subseteq Row
      /\ catchUp.since \in Nat
  BY DEF TypeOK
<1>3. /\ stream' = stream \ {n} /\ live' = live \cup {n}
      /\ mark' = Max({mark, n})
      /\ cache' = [cache EXCEPT ![k] = rows[n].session]
      /\ newest' = [newest EXCEPT ![k] = Max({newest[k], n})]
      /\ mixed' = IF catchUp.stage # "none" \/ Fetching(k) # {}
                  THEN mixed \cup {k}
                  ELSE IF n < newest[k] THEN mixed ELSE mixed \ {k}
      /\ UNCHANGED <<rows, catchUp, send>>
  BY <1>1, <1>2 DEF OnInsert, RememberSessionId
<1>4. k \in mixed \/ newest[k] <= n
  BY <1>1 DEF FreshInv, StreamInv
<1>5. rows[n].key = k
  OBVIOUS
<1> HIDE DEF k, n
<1>6. newest[k] \in 0..MaxRows /\ newest'[k] = Max({newest[k], n})
  BY <1>1, <1>2, <1>3
<1>7. /\ newest'[k] \in {newest[k], n}
      /\ n <= newest'[k] /\ newest[k] <= newest'[k]
  BY <1>1, <1>6, HigherIs
<1>8. mark' \in {mark, n} /\ n <= mark' /\ mark <= mark' /\ mark' \in Nat
  <2>1. /\ mark' \in 0..MaxRows /\ mark' \in {mark, n}
        /\ n <= mark' /\ mark <= mark'
    BY <1>1, <1>2, <1>3, HigherIs
  <2> QED
    BY <2>1
<1>9. k \notin mixed' => newest'[k] = n
  <2>1. newest[k] \in Nat /\ n \in Nat
    BY <1>1, <1>6 DEF Row
  <2> QED
    BY <1>3, <1>4, <1>7, <2>1
<1>10. \A j \in Keys \ {k} : /\ newest'[j] = newest[j]
                             /\ cache'[j] = cache[j]
                             /\ j \in mixed' <=> j \in mixed
  BY <1>2, <1>3
<1>11. NewestKnown'
  BY <1>1, <1>3, <1>7, <1>10 DEF FreshInv, NewestKnown, RowsOf
<1>12. MarkInv'
  <2>1. mark' <= Len(rows) /\ live' \subseteq DOMAIN rows
    BY <1>1, <1>3, <1>8 DEF FreshInv, MarkInv, TypeOK
  <2>2. \A m \in DOMAIN rows : m > mark' => m \notin live'
    <3>1. /\ \A m \in DOMAIN rows : m \in Nat
          /\ \A m \in DOMAIN rows : m > mark => m \notin live
          /\ mark \in Nat /\ n \in Nat
      <4>1. DOMAIN rows = 1..Len(rows) /\ Len(rows) \in Nat
        BY DEF TypeOK
      <4> QED
        BY <1>1, <1>2, <4>1 DEF FreshInv, MarkInv, Row
    <3> QED
      BY <1>3, <1>8, <3>1
  <2> QED
    BY <1>3, <2>1, <2>2 DEF MarkInv
<1>13. StreamInv'
  <2> SUFFICES ASSUME NEW m \in stream'
               PROVE  rows[m].key \in mixed' \/ newest'[rows[m].key] <= m
    BY <1>3 DEF FreshInv, StreamInv
  <2>1. m \in stream /\ m \in DOMAIN rows /\ n <= m
    BY <1>1, <1>3 DEF FreshInv, StreamInv
  <2>2. CASE rows[m].key = k
    BY <1>9, <2>1, <2>2
  <2>3. CASE rows[m].key # k
    <3>1. rows[m].key \in Keys
      BY <2>1, RowType
    <3> QED
      BY <1>10, <2>1, <2>3, <3>1 DEF FreshInv, StreamInv
  <2> QED
    BY <2>2, <2>3
<1>14. CatchUpInv'
  <2> SUFFICES ASSUME catchUp.stage # "none" PROVE CatchUpInv'
    BY <1>3 DEF CatchUpInv
  <2>1. mixed' = mixed \cup {k}
    BY <1>3
  <2>2. catchUp.since <= mark'
    BY <1>2, <1>8 DEF FreshInv, CatchUpInv
  <2>3. \A m \in DOMAIN rows : m > catchUp.since
              => m \notin live' \/ rows[m].key \in mixed'
    BY <1>3, <1>5, <2>1 DEF FreshInv, CatchUpInv
  <2>4. catchUp.stage = "answered" =>
            /\ catchUp.answer \subseteq Unseen(catchUp.since)
            /\ \A j \in Keys \ mixed' :
                newest'[j] > catchUp.since => newest'[j] \in catchUp.answer
    BY <1>10, <2>1 DEF FreshInv, CatchUpInv
  <2> QED
    BY <1>3, <2>2, <2>3, <2>4 DEF CatchUpInv, Unseen
<1>15. FetchInv'
  <2> SUFFICES ASSUME NEW c \in Sends, send[c].stage = "fetched"
               PROVE  /\ send[c].row \in RowsOf(send[c].key)
                      /\ \/ send[c].key \in mixed'
                         \/ newest'[send[c].key] <= send[c].row
    BY <1>3 DEF FetchInv, RowsOf
  <2>1. /\ send[c].row \in RowsOf(send[c].key)
        /\ \/ send[c].key \in mixed
           \/ newest[send[c].key] <= send[c].row
    BY DEF FreshInv, FetchInv
  <2>2. CASE send[c].key = k
    BY <1>3, <2>1, <2>2 DEF Fetching
  <2>3. CASE send[c].key # k
    <3>1. send[c].key \in Keys
      BY <2>1, RowType DEF RowsOf
    <3> QED
      BY <1>10, <2>1, <2>3, <3>1
  <2> QED
    BY <2>2, <2>3
<1>16. CacheFresh'
  <2> SUFFICES ASSUME NEW j \in Keys
               PROVE  \/ cache'[j] = None /\ newest'[j] = None
                      \/ \E m \in RowsOf(j) :
                            /\ cache'[j] = rows[m].session
                            /\ j \in mixed' \/ m = newest'[j]
    BY <1>3 DEF CacheFresh, LookupSessionId, RowsOf
  <2>1. CASE j = k
    BY <1>1, <1>2, <1>3, <1>9, <2>1
  <2>2. CASE j # k
    BY <1>10, <2>2 DEF FreshInv, CacheFresh, LookupSessionId
  <2> QED
    BY <2>1, <2>2
<1> QED
  BY <1>11, <1>12, <1>13, <1>14, <1>15, <1>16 DEF FreshInv

\* An answered request holds whatever was known beyond its mark.
LEMMA FreshCatchUpAnswered ==
    ASSUME TypeOK, FreshInv, CatchUpAnswered
    PROVE  FreshInv'
<1> USE DEF At
<1>1. /\ catchUp.stage = "asked"
      /\ UNCHANGED <<rows, stream, mark, live, send>>
      /\ UNCHANGED <<cache, newest, mixed>>
  BY DEF CatchUpAnswered, known
<1>2. /\ catchUp'.since = catchUp.since
      /\ catchUp'.answer = Unseen(catchUp.since)
  BY DEF CatchUpAnswered, TypeOK
<1>3. \A k \in Keys : newest[k] > catchUp.since
        => newest[k] \in Unseen(catchUp.since)
  <2>1. catchUp.since \in Nat
    BY DEF TypeOK
  <2> QED
    BY <2>1 DEF FreshInv, NewestKnown, RowsOf, Unseen, None
<1>4. CatchUpInv'
  BY <1>1, <1>2, <1>3 DEF FreshInv, CatchUpInv, Unseen
<1> QED
  BY <1>1, <1>4 DEF FreshInv, NewestKnown, RowsOf, MarkInv, StreamInv,
                    FetchInv, CacheFresh, LookupSessionId

\* For a key that is not mixed, a catch-up brings in one message at most, and
\* that is the newest.
LEMMA CaughtOne ==
    ASSUME TypeOK, FreshInv, catchUp.stage = "answered", NEW k \in Keys \ mixed,
           \A m, n \in Caught(k) \ live : m = n
    PROVE  /\ Caught(k) # {} =>
                /\ LastCaught(k) \in RowsOf(k)
                /\ Max(Caught(k) \cup {newest[k]}) = LastCaught(k)
           /\ Caught(k) = {} => Max(Caught(k) \cup {newest[k]}) = newest[k]
<1>1. /\ Caught(k) \in SUBSET Row /\ newest[k] \in 0..MaxRows
      /\ catchUp.since \in Nat
  BY DEF Caught, TypeOK
<1>2. /\ Max(Caught(k) \cup {newest[k]}) \in Caught(k) \cup {newest[k]}
      /\ \A y \in Caught(k) : y <= Max(Caught(k) \cup {newest[k]})
  BY <1>1, HighestIs
<1>3. \A n \in Caught(k) : n \notin live /\ n > catchUp.since
  BY DEF FreshInv, CatchUpInv, Caught, RowsOf, Unseen
<1>4. newest[k] > catchUp.since /\ newest[k] # None => newest[k] \in Caught(k)
  BY DEF FreshInv, NewestKnown, CatchUpInv, Caught
<1>5. CASE Caught(k) # {}
  <2>1. LastCaught(k) \in Caught(k) /\ LastCaught(k) \in Nat
    BY <1>1, <1>5, LastCaughtIs DEF Row
  <2>2. Caught(k) = {LastCaught(k)}
    BY <1>3, <2>1
  <2>3. newest[k] \in Nat /\ (newest[k] = LastCaught(k)
                               \/ newest[k] <= catchUp.since)
    BY <1>1, <1>4, <2>2 DEF None
  <2>4. newest[k] <= LastCaught(k)
    BY <1>1, <1>3, <2>1, <2>3
  <2>5. Max(Caught(k) \cup {newest[k]}) = LastCaught(k)
    BY <1>2, <2>1, <2>2, <2>3, <2>4
  <2> QED
    BY <1>5, <2>1, <2>5 DEF Caught
<1>6. CASE Caught(k) = {}
  BY <1>2, <1>6
<1> QED
  BY <1>5, <1>6

LEMMA FreshCatchUpDone ==
    ASSUME TypeOK, FreshInv, CatchUpDone
    PROVE  FreshInv'
<1> USE DEF At
<1>1. /\ catchUp.stage = "answered" /\ catchUp' = Idle
      /\ cache' = [k \in Keys |-> IF Caught(k) = {} THEN cache[k]
                                  ELSE rows[LastCaught(k)].session]
      /\ mark' = Max(catchUp.answer \cup {mark})
      /\ newest' = [k \in Keys |-> Max(Caught(k) \cup {newest[k]})]
      /\ mixed' = mixed \cup
            {k \in Keys : \/ \E m, n \in Caught(k) \ live : m # n
                          \/ Caught(k) # {} /\ Fetching(k) # {}
                          \/ \E n \in Caught(k) : Overtaken(k, n)}
      /\ UNCHANGED <<rows, stream, live, send>>
  BY DEF CatchUpDone
<1>2. /\ catchUp.answer \in SUBSET Row /\ mark \in 0..MaxRows
      /\ Len(rows) \in Nat /\ DOMAIN rows = 1..Len(rows) /\ mixed \subseteq Keys
  BY DEF TypeOK
<1>3. /\ mark' \in catchUp.answer \cup {mark}
      /\ \A y \in catchUp.answer \cup {mark} : y <= mark'
  BY <1>1, <1>2, HighestIs
<1>4. catchUp.answer \subseteq DOMAIN rows
  BY <1>1 DEF FreshInv, CatchUpInv, Unseen
<1>5. \A k \in Keys : Caught(k) \subseteq RowsOf(k) /\ Caught(k) \in SUBSET Row
  BY <1>2 DEF Caught
<1>6. ASSUME NEW k \in Keys
      PROVE  newest'[k] \in Caught(k) \cup {newest[k]}
  <2>1. newest[k] \in 0..MaxRows
    BY DEF TypeOK
  <2> QED
    BY <1>1, <1>5, <2>1, HighestIs
<1>7. NewestKnown'
  BY <1>1, <1>5, <1>6 DEF FreshInv, NewestKnown, RowsOf
<1>8. MarkInv'
  <2>1. mark' <= Len(rows)
    BY <1>2, <1>3, <1>4 DEF FreshInv, MarkInv
  <2>2. mark <= mark' /\ mark' \in Nat
    BY <1>2, <1>3, <1>4
  <2>3. \A n \in DOMAIN rows : n > mark' => n \notin live
    BY <1>2, <2>2 DEF FreshInv, MarkInv
  <2> QED
    BY <1>1, <2>1, <2>3 DEF FreshInv, MarkInv
<1>12. StreamInv'
  <2> SUFFICES ASSUME NEW m \in stream
               PROVE  rows[m].key \in mixed' \/ newest'[rows[m].key] <= m
    BY <1>1 DEF FreshInv, StreamInv
  <2> DEFINE k == rows[m].key
  <2>1. m \in RowsOf(k) \cap stream /\ k \in Keys /\ m \in Nat
    BY <1>2, RowType DEF FreshInv, StreamInv, RowsOf
  <2>2. k \in mixed \/ newest[k] <= m
    BY DEF FreshInv, StreamInv
  <2>3. newest'[k] \in Caught(k) \cup {newest[k]}
    BY <1>6, <2>1
  <2> HIDE DEF k
  <2>4. k \notin mixed' => \A n \in Caught(k) : ~(m < n)
    BY <1>1, <2>1 DEF Overtaken
  <2>5. \A n \in Caught(k) : n \in Nat
    BY <1>5, <2>1 DEF Row
  <2>6. k \in mixed' \/ newest'[k] <= m
    BY <1>1, <2>1, <2>2, <2>3, <2>4, <2>5
  <2> QED
    BY <2>6 DEF k
<1>9. CatchUpInv'
  BY <1>1 DEF CatchUpInv, Idle
<1>10. FetchInv'
  <2> SUFFICES ASSUME NEW c \in Sends, send[c].stage = "fetched"
               PROVE  /\ send[c].row \in RowsOf(send[c].key)'
                      /\ \/ send[c].key \in mixed'
                         \/ newest'[send[c].key] <= send[c].row
    BY <1>1 DEF FetchInv
  <2>1. /\ send[c].row \in RowsOf(send[c].key)
        /\ \/ send[c].key \in mixed
           \/ newest[send[c].key] <= send[c].row
    BY DEF FreshInv, FetchInv
  <2>2. send[c].row \in RowsOf(send[c].key)'
    BY <1>1, <2>1 DEF RowsOf
  <2>3. CASE send[c].key \in Keys /\ send[c].key \notin mixed'
    <3>1. c \in Fetching(send[c].key)
      BY DEF Fetching
    <3>2. Caught(send[c].key) = {}
      BY <1>1, <2>3, <3>1
    <3>3. newest'[send[c].key] = newest[send[c].key]
      BY <1>6, <2>3, <3>2
    <3> QED
      BY <1>1, <2>1, <2>2, <2>3, <3>3
  <2>4. send[c].key \in Keys
    BY <2>1, RowType DEF RowsOf
  <2> QED
    BY <2>2, <2>3, <2>4
<1>11. CacheFresh'
  <2> SUFFICES ASSUME NEW k \in Keys
               PROVE  \/ cache'[k] = None /\ newest'[k] = None
                      \/ \E n \in RowsOf(k) :
                            /\ cache'[k] = rows[n].session
                            /\ k \in mixed' \/ n = newest'[k]
    BY <1>1 DEF CacheFresh, LookupSessionId, RowsOf
  <2>1. CASE k \in mixed'
    <3>1. CASE Caught(k) = {}
      <4>1. cache'[k] = cache[k] /\ newest'[k] = newest[k]
        BY <1>1, <1>6, <3>1
      <4> QED
        BY <2>1, <4>1 DEF FreshInv, CacheFresh, LookupSessionId
    <3>2. CASE Caught(k) # {}
      <4>1. /\ LastCaught(k) \in RowsOf(k)
            /\ cache'[k] = rows[LastCaught(k)].session
        BY <1>1, <1>5, <3>2, LastCaughtIs
      <4> QED
        BY <2>1, <4>1
    <3> QED
      BY <3>1, <3>2
  <2>2. CASE k \notin mixed'
    <3>1. k \notin mixed /\ \A m, n \in Caught(k) \ live : m = n
      BY <1>1, <2>2
    <3>2. CASE Caught(k) = {}
      <4>1. cache'[k] = cache[k] /\ newest'[k] = newest[k]
        BY <1>1, <1>6, <3>2
      <4> QED
        BY <3>1, <4>1 DEF FreshInv, CacheFresh, LookupSessionId
    <3>3. CASE Caught(k) # {}
      <4>1. /\ LastCaught(k) \in RowsOf(k)
            /\ Max(Caught(k) \cup {newest[k]}) = LastCaught(k)
        BY <1>1, <3>1, <3>3, CaughtOne
      <4>2. cache'[k] = rows[LastCaught(k)].session
        BY <1>1, <3>3
      <4>3. newest'[k] = LastCaught(k)
        BY <1>1, <4>1
      <4> QED
        BY <4>1, <4>2, <4>3
    <3> QED
      BY <3>2, <3>3
  <2> QED
    BY <2>1, <2>2
<1> QED
  BY <1>7, <1>8, <1>9, <1>10, <1>11, <1>12 DEF FreshInv

\* The history answers with the newest message of the key.
LEMMA FreshFetchAnswered ==
    ASSUME TypeOK, FreshInv, NEW c \in Sends, FetchAnswered(c)
    PROVE  FreshInv'
<1> USE DEF At
<1>1. /\ send' = [send EXCEPT ![c].stage = "fetched",
                             ![c].row = Latest(send[c].key)]
      /\ UNCHANGED <<rows, stream, mark, catchUp, live, cache, newest, mixed>>
      /\ Latest(send[c].key) # None
  BY DEF FetchAnswered, channel, known
<1>2. /\ send'[c].key = send[c].key /\ send'[c].row = Latest(send[c].key)
      /\ \A d \in Sends \ {c} : send'[d] = send[d]
  BY <1>1 DEF TypeOK
<1>3. /\ Latest(send[c].key) \in RowsOf(send[c].key)
      /\ \A n \in RowsOf(send[c].key) \cup {None} : n <= Latest(send[c].key)
  BY <1>1, LatestIs
<1>4. send[c].key \in Keys
  BY <1>3, RowType DEF RowsOf
<1>5. newest[send[c].key] <= Latest(send[c].key)
  BY <1>3, <1>4 DEF FreshInv, NewestKnown
<1>6. FetchInv'
  <2> SUFFICES ASSUME NEW d \in Sends, send'[d].stage = "fetched"
               PROVE  /\ send'[d].row \in RowsOf(send'[d].key)
                      /\ \/ send'[d].key \in mixed
                         \/ newest[send'[d].key] <= send'[d].row
    BY <1>1 DEF FetchInv, RowsOf
  <2>1. CASE d = c
    BY <1>2, <1>3, <1>5, <2>1
  <2>2. CASE d # c
    BY <1>2, <2>2 DEF FreshInv, FetchInv
  <2> QED
    BY <2>1, <2>2
<1> QED
  BY <1>1, <1>6 DEF FreshInv, NewestKnown, RowsOf, MarkInv, StreamInv,
                    CatchUpInv, Unseen, CacheFresh, LookupSessionId

\* An answer that nothing crossed is the newest message that is known.
LEMMA FreshFetchDone ==
    ASSUME TypeOK, SendInv, FreshInv, NEW c \in Sends, FetchDone(c)
    PROVE  FreshInv'
<1> USE DEF At
<1> DEFINE k == send[c].key
           n == send[c].row
<1>1. /\ k \in Keys /\ n \in RowsOf(k) /\ n \in Row
      /\ rows[n].key = k /\ send[c].stage = "fetched"
  BY FetchedRow DEF FetchDone, FreshInv
<1>2. /\ cache' = [cache EXCEPT ![k] = rows[n].session]
      /\ newest' = [newest EXCEPT ![k] = Max({newest[k], n})]
      /\ mixed' = IF \/ Fetching(k) # {c} \/ catchUp.stage # "none"
                     \/ Overtaken(k, n)
                  THEN mixed \cup {k} ELSE mixed
      /\ UNCHANGED <<rows, stream, mark, catchUp, live>>
      /\ send' = [send EXCEPT ![c].stage = "broadcast", ![c].row = None]
  BY <1>1 DEF FetchDone, RememberSessionId, channel, TypeOK
<1>3. /\ cache \in [Keys -> 0..MaxRows] /\ newest \in [Keys -> 0..MaxRows]
      /\ mixed \subseteq Keys /\ MaxRows \in Nat
  BY BoundsAssumption DEF TypeOK
<1>4. /\ Max({newest[k], n}) \in {newest[k], n}
      /\ n <= Max({newest[k], n}) /\ newest[k] <= Max({newest[k], n})
  <2>1. n \in Row /\ newest[k] \in 0..MaxRows
    BY <1>1, <1>3
  <2> HIDE DEF k, n
  <2> QED
    BY <2>1, HigherIs
<1>5. \A d \in Sends : send'[d].stage = "fetched" => d # c /\ send'[d] = send[d]
  BY <1>1, <1>2 DEF TypeOK
<1>6. k \notin mixed' => newest'[k] = n
  <2>1. k \notin mixed => newest[k] <= n
    BY <1>1 DEF FreshInv, FetchInv
  <2> HIDE DEF k, n
  <2>2. newest'[k] = Max({newest[k], n}) /\ (k \notin mixed' => k \notin mixed)
    BY <1>1, <1>2, <1>3
  <2>3. n \in Nat /\ newest[k] \in Nat
    BY <1>1, <1>3 DEF Row
  <2> QED
    BY <1>4, <2>1, <2>2, <2>3
<1> HIDE DEF k, n
<1>7. NewestKnown'
  BY <1>1, <1>2, <1>3, <1>4 DEF FreshInv, NewestKnown, RowsOf
<1>8. MarkInv'
  BY <1>2 DEF FreshInv, MarkInv
<1>12. StreamInv'
  <2> SUFFICES ASSUME NEW m \in stream
               PROVE  rows[m].key \in mixed' \/ newest'[rows[m].key] <= m
    BY <1>2 DEF FreshInv, StreamInv
  <2>1. rows[m].key \in mixed \/ newest[rows[m].key] <= m
    BY DEF FreshInv, StreamInv
  <2>2. m \in DOMAIN rows /\ m \in Nat
    BY DEF FreshInv, StreamInv, TypeOK, Row
  <2>3. CASE rows[m].key = k
    <3>1. k \notin mixed' => ~(m < n)
      BY <1>2, <2>2, <2>3 DEF Overtaken, RowsOf
    <3> QED
      BY <1>1, <1>6, <2>2, <2>3, <3>1 DEF Row
  <2>4. CASE rows[m].key # k
    BY <1>2, <1>3, <2>1, <2>4
  <2> QED
    BY <2>3, <2>4
<1>9. CatchUpInv'
  BY <1>2, <1>3 DEF FreshInv, CatchUpInv, Unseen
<1>10. FetchInv'
  <2> SUFFICES ASSUME NEW d \in Sends, send'[d].stage = "fetched"
               PROVE  /\ send'[d].row \in RowsOf(send'[d].key)
                      /\ \/ send'[d].key \in mixed'
                         \/ newest'[send'[d].key] <= send'[d].row
    BY <1>2 DEF FetchInv, RowsOf
  <2>1. /\ d # c /\ send'[d] = send[d] /\ send[d].stage = "fetched"
        /\ send[d].row \in RowsOf(send[d].key)
        /\ \/ send[d].key \in mixed
           \/ newest[send[d].key] <= send[d].row
    BY <1>5 DEF FreshInv, FetchInv
  <2>2. CASE send[d].key = k
    <3>1. d \in Fetching(k)
      BY <2>1, <2>2 DEF Fetching
    <3> QED
      BY <1>2, <2>1, <2>2, <3>1
  <2>3. CASE send[d].key # k
    BY <1>2, <1>3, <2>1, <2>3
  <2> QED
    BY <2>2, <2>3
<1>11. CacheFresh'
  <2> SUFFICES ASSUME NEW j \in Keys
               PROVE  \/ cache'[j] = None /\ newest'[j] = None
                      \/ \E m \in RowsOf(j) :
                            /\ cache'[j] = rows[m].session
                            /\ j \in mixed' \/ m = newest'[j]
    BY <1>2 DEF CacheFresh, LookupSessionId, RowsOf
  <2>1. CASE j = k
    BY <1>1, <1>2, <1>3, <1>6, <2>1
  <2>2. CASE j # k
    BY <1>2, <1>3, <2>2 DEF FreshInv, CacheFresh, LookupSessionId
  <2> QED
    BY <2>1, <2>2
<1> QED
  BY <1>7, <1>8, <1>9, <1>10, <1>11, <1>12 DEF FreshInv

\* FreshInv is preserved by every step.
LEMMA FreshInductive ==
    TypeOK /\ SendInv /\ FreshInv /\ [Next]_vars => FreshInv'
<1> SUFFICES ASSUME TypeOK, SendInv, FreshInv, [Next]_vars PROVE FreshInv'
  OBVIOUS
<1>1. CASE Drop
  BY <1>1 DEF Drop, FreshInv, NewestKnown, RowsOf, MarkInv, StreamInv,
              CatchUpInv, Unseen, FetchInv, CacheFresh, LookupSessionId, At,
              known
<1>7. CASE Accept
  BY <1>7 DEF Accept, FreshInv, NewestKnown, RowsOf, MarkInv, StreamInv,
              CatchUpInv, Unseen, FetchInv, CacheFresh, LookupSessionId, At,
              known
<1>2. CASE JoinOk
  <2>1. UNCHANGED <<rows, stream, mark, live, cache, newest, mixed, send>>
    BY <1>2 DEF JoinOk, known
  <2>2. CASE catchUp.stage # "none"
    BY <1>2, <2>1, <2>2
       DEF JoinOk, FreshInv, NewestKnown, RowsOf, MarkInv, StreamInv,
           CatchUpInv, Unseen, FetchInv, CacheFresh, LookupSessionId, At
  <2>3. CASE catchUp.stage = "none"
    <3>1. catchUp'.stage = "asked" /\ catchUp'.since = mark /\ mark \in Nat
      BY <1>2, <2>3 DEF JoinOk, Idle, TypeOK
    <3>2. CatchUpInv'
      BY <2>1, <3>1 DEF FreshInv, MarkInv, CatchUpInv
    <3> QED
      BY <2>1, <3>2 DEF FreshInv, NewestKnown, RowsOf, MarkInv, StreamInv,
                        FetchInv, CacheFresh, LookupSessionId, At
  <2> QED
    BY <2>2, <2>3
<1>3. CASE CatchUpFails
  <2>1. /\ UNCHANGED <<rows, stream, mark, live, cache, newest, mixed, send>>
        /\ catchUp'.stage = "none"
    BY <1>3 DEF CatchUpFails, known, Idle
  <2> QED
    BY <2>1 DEF FreshInv, NewestKnown, RowsOf, MarkInv, StreamInv, CatchUpInv,
                FetchInv, CacheFresh, LookupSessionId, At
<1>4. ASSUME UNCHANGED <<channel, known>>,
             \A c \in Sends : At(c, "fetched")'
                => At(c, "fetched") /\ send'[c] = send[c]
      PROVE  FreshInv'
  BY <1>4 DEF channel, known, FreshInv, NewestKnown, RowsOf, MarkInv,
              StreamInv, CatchUpInv, Unseen, FetchInv, CacheFresh,
              LookupSessionId, At
<1>5. ASSUME NEW c \in Sends,
             \/ Send(c) \/ NoAccount(c) \/ FlagRead(c) \/ Lookup(c)
             \/ FetchFails(c) \/ ApprovalThrows(c)
             \/ PostOk(c) \/ PostRefused(c) \/ PostFails(c)
      PROVE  FreshInv'
  <2>1. UNCHANGED <<channel, known>>
    BY <1>5 DEF Send, NoAccount, FlagRead, Lookup, FetchFails, ApprovalThrows,
                PostOk, PostRefused, PostFails
  <2> DEFINE Others == /\ \A d \in Sends \ {c} : send'[d] = send[d]
                       /\ send'[c].stage # "fetched"
  <2>2. ASSUME Send(c) \/ FlagRead(c) \/ Lookup(c) PROVE Others
    BY <2>2 DEF Send, FlagRead, Lookup, Goto, TypeOK
  <2>3. ASSUME FetchFails(c) \/ PostOk(c) \/ PostRefused(c) PROVE Others
    BY <2>3 DEF FetchFails, PostOk, PostRefused, Goto, TypeOK
  <2>4. ASSUME ApprovalThrows(c) PROVE Others
    BY <2>4 DEF ApprovalThrows, TypeOK
  <2>7. ASSUME NoAccount(c) PROVE Others
    <3>1. PICK approval \in BOOLEAN, stage \in {"post", "thrown"} :
          send' = [send EXCEPT ![c].stage = stage, ![c].approval = approval,
                        ![c].refused = stage = "thrown",
                        ![c].fell = IF approval THEN "account" ELSE "no"]
      BY <2>7 DEF NoAccount
    <3>2. \A d \in Sends \ {c} : send'[d] = send[d]
      BY <3>1 DEF TypeOK
    <3>3. send'[c].stage = stage
      BY <3>1 DEF TypeOK
    <3> QED
      BY <3>2, <3>3
  <2>5. ASSUME PostFails(c) PROVE Others
    BY <2>5 DEF PostFails, At, TypeOK
  <2>6. Others
    BY <1>5, <2>2, <2>3, <2>4, <2>5, <2>7
  <2> QED
    BY <1>4, <2>1, <2>6 DEF At
<1>6. CASE UNCHANGED vars
  BY <1>4, <1>6 DEF vars, channel, known, At
<1> QED
  BY <1>1, <1>2, <1>3, <1>5, <1>6, <1>7, FreshUserMessage, FreshOnInsert,
     FreshCatchUpAnswered, FreshCatchUpDone, FreshFetchAnswered, FreshFetchDone
     DEF Next, SendStep

-----------------------------------------------------------------------------
(* Theorems.                                                               *)

LEMMA InitOK == Init => TypeOK /\ SendInv /\ FreshInv
<1> SUFFICES ASSUME Init PROVE TypeOK /\ SendInv /\ FreshInv
  OBVIOUS
<1>1. MaxRows \in Nat /\ Tries \in Nat /\ Tries # 0
  BY BoundsAssumption
<1>2. TypeOK
  <2>1. CallsOK
    BY <1>1 DEF Init, CallsOK, Call, None, Falls
  <2>2. KnownOK
    <3>1. Idle \in [stage : {"none", "asked", "answered"}, since : 0..MaxRows,
                    answer : SUBSET Row, newestFirst : BOOLEAN]
      BY <1>1 DEF Idle, None
    <3>2. rows \in Seq([key : Keys, session : Row]) /\ Len(rows) <= MaxRows
      BY <1>1 DEF Init
    <3>3. /\ cache \in [Keys -> 0..MaxRows] /\ newest \in [Keys -> 0..MaxRows]
          /\ live \subseteq Row /\ mixed \subseteq Keys /\ mark \in 0..MaxRows
      BY <1>1 DEF Init, None
    <3>4. connected \in BOOLEAN /\ told \in BOOLEAN /\ stream \subseteq Row
      BY DEF Init
    <3> QED
      BY <3>1, <3>2, <3>3, <3>4 DEF Init, KnownOK
  <2> QED
    BY <2>1, <2>2 DEF TypeOK, CallsOK, KnownOK, Call
<1>3. SendInv
  BY <1>1 DEF Init, SendInv, ApprovalInv, PostInv, ApprovalNeverText,
              ToldTruly, At, Waits
<1>4. FreshInv
  BY <1>1 DEF Init, FreshInv, NewestKnown, MarkInv, StreamInv,
              CatchUpInv, Idle, FetchInv, CacheFresh, LookupSessionId, At, None
<1> QED
  BY <1>2, <1>3, <1>4

LEMMA Invariants == Spec => [](TypeOK /\ SendInv /\ FreshInv)
<1>1. TypeOK /\ SendInv /\ FreshInv /\ [Next]_vars
        => (TypeOK /\ SendInv /\ FreshInv)'
  <2> SUFFICES ASSUME TypeOK, SendInv, FreshInv, [Next]_vars
               PROVE  TypeOK' /\ SendInv' /\ FreshInv'
    OBVIOUS
  <2>1. CallsOK' /\ SendInv'
    BY CallsInductive
  <2>2. KnownOK'
    BY KnownInductive DEF FreshInv
  <2>3. FreshInv'
    BY FreshInductive
  <2> QED
    BY <2>1, <2>2, <2>3 DEF TypeOK, CallsOK, KnownOK, Call
<1> QED
  BY <1>1, InitOK, PTL DEF Spec

\* Every variable keeps its type: among others, no text is stored more often
\* than it was tried, whatever attempts were carried out and not acknowledged.
THEOREM TypeCorrect == Spec => []TypeOK
BY Invariants, PTL

\* The cache holds the session of the newest message known of each key, or an
\* earlier one of that key, where news crossed or the history overtook the
\* stream (rememberSessionId).
THEOREM CacheFreshCorrect == Spec => []CacheFresh
<1>1. FreshInv => CacheFresh
  BY DEF FreshInv
<1> QED
  BY <1>1, Invariants, PTL

\* Unless its account is unknown or maybeHandleApproval throws, no path of
\* sendPayload leads from an approval to the messages table.
THEOREM ApprovalNeverTextCorrect == Spec => []ApprovalNeverText
<1>1. SendInv => ApprovalNeverText
  BY DEF SendInv
<1> QED
  BY <1>1, Invariants, PTL

\* What sendText returns or throws is what happened (postWithRetry).
THEOREM ToldTrulyCorrect == Spec => []ToldTruly
<1>1. SendInv => ToldTruly
  BY DEF SendInv
<1> QED
  BY <1>1, Invariants, PTL
=============================================================================
