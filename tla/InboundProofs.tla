---------------------------- MODULE InboundProofs ----------------------------
(* Theorems about module Inbound, for any number of rows and subscriptions *)
(* and any limit of the history request.                                   *)
EXTENDS Inbound, SequenceTheorems, FiniteSetTheorems, WellFoundedInduction,
        TLAPS

-----------------------------------------------------------------------------
(* Maxima.                                                                 *)

\* A bounded set of natural numbers has a greatest element.
LEMMA MaxIs ==
    ASSUME NEW T \in SUBSET Nat, T # {}, NEW n \in Nat, \A x \in T : x <= n
    PROVE  Max(T) \in T /\ \A y \in T : Max(T) >= y
<1> DEFINE D == {n - x : x \in T}
<1>1. D \subseteq Nat /\ D # {}
    <2>1. \A x \in T : n - x \in Nat
        OBVIOUS
    <2>2. PICK x \in T : TRUE
        OBVIOUS
    <2>3. n - x \in D
        BY <2>2
    <2> QED BY <2>1, <2>3
<1>2. PICK d \in D : \A e \in D : ~(<<e, d>> \in OpToRel(<, Nat))
    <2> HIDE DEF D
    <2> QED BY <1>1, NatLessThanWellFounded, WFMin
<1>3. \A e \in D : ~(e < d)
    BY <1>1, <1>2 DEF OpToRel
<1>4. PICK x \in T : d = n - x
    OBVIOUS
<1>5. \A y \in T : x >= y
    <2> TAKE y \in T
    <2>1. n - y \in D
        OBVIOUS
    <2> QED BY <1>3, <1>4, <2>1
<1> QED BY <1>5 DEF Max

LEMMA MaxOfTwo ==
    ASSUME NEW a \in Nat, NEW b \in Nat
    PROVE  Max({a, b}) \in Nat /\ Max({a, b}) >= a /\ Max({a, b}) >= b
<1>1. \A x \in {a, b} : x <= a + b
    OBVIOUS
<1>2. Max({a, b}) \in {a, b} /\ \A y \in {a, b} : Max({a, b}) >= y
    BY <1>1, MaxIs
<1> QED BY <1>2

-----------------------------------------------------------------------------
(* Types and the order of rows.                                            *)

\* Later rows have the same time or a later one.
OrderInv ==
    /\ \A q, r \in Stored : q < r => rows[q].ts <= rows[r].ts
    /\ \A r \in Stored : rows[r].ts >= 1
Typed == TypeOK /\ OrderInv

\* What TypeOK says of rows.
LEMMA Rows ==
    ASSUME TypeOK
    PROVE  /\ Len(rows) \in Nat /\ Stored \subseteq RowIds
           /\ Stored \subseteq Nat
           /\ \A r \in Stored : rows[r].ts \in Nat /\ rows[r].kind \in Kinds
<1>1. \A r \in Stored : rows[r] \in [kind : Kinds, ts : Nat]
    BY ElementOfSeq DEF TypeOK, Stored
<1> QED BY <1>1, BoundsAssumption, LenProperties DEF TypeOK, Stored, RowIds

\* The new mark is the old one or the time of a row, and bounds both.
LEMMA RaiseIs ==
    ASSUME Typed, NEW mark \in Nat, NEW S \in SUBSET Stored
    PROVE  /\ Raise(mark, S) \in Nat /\ Raise(mark, S) >= mark
           /\ \A r \in S : Raise(mark, S) >= rows[r].ts
           /\ \/ Raise(mark, S) = mark
              \/ \E r \in S : Raise(mark, S) = rows[r].ts
<1> DEFINE T == {mark} \cup {rows[r].ts : r \in S}
<1>1. T \in SUBSET Nat /\ T # {}
    BY Rows DEF Typed
<1>2. PICK n \in Nat : \A x \in T : x <= n
    <2>1. CASE Stored = {}
        BY <2>1
    <2>2. CASE Stored # {}
        <3>1. Len(rows) \in Stored /\ \A r \in Stored : r <= Len(rows)
            BY <2>2, Rows DEF Typed, Stored
        <3>2. rows[Len(rows)].ts \in Nat
            BY <3>1, Rows DEF Typed
        <3>3. \A r \in Stored : rows[r].ts <= rows[Len(rows)].ts
            BY <3>1, Rows DEF Typed, OrderInv
        <3>4. PICK last \in Nat : last = rows[Len(rows)].ts
            BY <3>2
        <3>5. \A x \in T : x <= mark \/ x <= last
            BY <3>3, <3>4
        <3>6. \A x \in T : x <= mark + last
            <4> HIDE DEF T
            <4> QED BY <1>1, <3>5
        <3>7. mark + last \in Nat
            OBVIOUS
        <3> QED BY <3>6, <3>7
    <2> QED BY <2>1, <2>2
<1>3. Max(T) \in T /\ \A y \in T : Max(T) >= y
    <2> HIDE DEF T
    <2> QED BY <1>1, <1>2, MaxIs
<1> QED BY <1>1, <1>3 DEF Raise

LEMMA LastIs ==
    ASSUME Typed
    PROVE  LastTs \in Nat /\ \A r \in Stored : rows[r].ts <= LastTs
<1>1. CASE rows = <<>>
    <2>1. Stored = {}
        BY <1>1 DEF Stored
    <2> QED BY <1>1, <2>1 DEF LastTs
<1>2. CASE rows # <<>>
    <2>1. Len(rows) \in Stored
        BY <1>2, EmptySeq, Rows DEF Typed, TypeOK, Stored
    <2>2. \A r \in Stored : r <= Len(rows)
        BY Rows DEF Typed, Stored
    <2> QED BY <1>2, <2>1, <2>2, Rows DEF LastTs, Typed, OrderInv
<1> QED BY <1>1, <1>2

\* What an insertion does to the table.
LEMMA Inserted ==
    ASSUME Typed, NEW kind \in Kinds, Insert(kind)
    PROVE  /\ rows' \in Seq([kind : Kinds, ts : Nat])
           /\ Len(rows') = Len(rows) + 1 /\ Len(rows') <= MaxRows
           /\ \A r \in Stored : rows'[r] = rows[r]
           /\ rows'[Len(rows) + 1].ts \in Nat
           /\ rows'[Len(rows) + 1].ts >= 1
           /\ \A r \in Stored : rows[r].ts <= rows'[Len(rows) + 1].ts
           /\ pipe' \in {pipe, Append(pipe, Len(rows) + 1)}
<1>0. Len(rows) \in Nat /\ LastTs \in Nat /\ MaxRows \in Nat
    BY Rows, LastIs, BoundsAssumption DEF Typed
<1>1. PICK ts \in {Max({LastTs, 1}), LastTs + 1} :
            rows' = Append(rows, [kind |-> kind, ts |-> ts])
    BY DEF Insert
<1>2. ts \in Nat /\ ts >= LastTs /\ ts >= 1
    BY <1>0, MaxOfTwo
<1> DEFINE row == [kind |-> kind, ts |-> ts]
<1>3. row \in [kind : Kinds, ts : Nat] /\ row.ts = ts
    BY <1>2
<1> HIDE DEF row
<1>4. /\ rows' \in Seq([kind : Kinds, ts : Nat])
      /\ Len(rows') = Len(rows) + 1
      /\ \A r \in 1..Len(rows) : rows'[r] = rows[r]
      /\ rows'[Len(rows) + 1] = row
    BY <1>1, <1>3, AppendProperties DEF Typed, TypeOK, row
<1>5. Len(rows) < MaxRows /\ pipe' \in {pipe, Append(pipe, Len(rows) + 1)}
    BY DEF Insert
<1>6. \A r \in Stored : rows[r].ts <= ts
    BY <1>0, <1>2, LastIs, Rows DEF Typed
<1> QED BY <1>0, <1>2, <1>3, <1>4, <1>5, <1>6 DEF Stored

\* The head of the stream.
LEMMA Popped ==
    ASSUME TypeOK, pipe # <<>>
    PROVE  /\ Head(pipe) \in Stored /\ Tail(pipe) \in Seq(Stored)
           /\ Head(pipe) = pipe[1] /\ 1 \in 1..Len(pipe)
           /\ Len(Tail(pipe)) = Len(pipe) - 1
           /\ \A i \in 1..Len(Tail(pipe)) : Tail(pipe)[i] = pipe[i + 1]
BY HeadTailProperties, EmptySeq DEF TypeOK

\* The dispatch of one row by the stream.
Dispatch(r) == live' = [live EXCEPT ![<<sub, r>>] = @ + 1]

LEMMA TypeInductive == Typed /\ [Next]_vars => Typed'
<1> SUFFICES ASSUME Typed, [Next]_vars PROVE Typed'
    OBVIOUS
<1> USE DEF Channel!Join, Channel!Tell, Channel!Drop, Channel!End,
           Channel!Begin
<1>r. ASSUME UNCHANGED rows, TypeOK' PROVE Typed'
    BY <1>r DEF Typed, OrderInv, Stored
<1>m. \A k \in Subs : /\ lastSeen[k] \in Nat
                      /\ catchUp[k].since \in Nat
                      /\ catchUp[k].rows \in SUBSET Stored
    BY DEF Typed, TypeOK
<1>1. ASSUME NEW kind \in Kinds, Insert(kind) PROVE Typed'
    <2>1. PICK n \in Nat : n = Len(rows)
        BY Rows DEF Typed
    <2>2. PICK row : row = rows'[n + 1]
        OBVIOUS
    <2>3. /\ rows' \in Seq([kind : Kinds, ts : Nat]) /\ Len(rows') = n + 1
          /\ n + 1 <= MaxRows /\ \A r \in 1..n : rows'[r] = rows[r]
          /\ row.ts \in Nat /\ row.ts >= 1
          /\ \A r \in 1..n : rows[r].ts <= row.ts
          /\ pipe' \in {pipe, Append(pipe, n + 1)}
        BY <1>1, <2>1, <2>2, Inserted DEF Stored
    <2>4. Stored = 1..n /\ Stored' = 1..(n + 1) /\ Stored \subseteq Stored'
        BY <2>1, <2>3 DEF Stored
    <2>5. pipe \in Seq(Stored')
        BY <2>4, SeqMonotonic DEF Typed, TypeOK
    <2>6. pipe' \in Seq(Stored')
        BY <2>3, <2>4, <2>5, AppendProperties
    <2>7. during' \subseteq Subs \X Stored'
        BY <1>1, <2>1, <2>4 DEF Insert, Overlapping, Typed, TypeOK
    <2>8. /\ UNCHANGED <<old, joined, told, sub, active, lastSeen, catchUp>>
          /\ UNCHANGED <<live, caught, excused>>
        BY <1>1 DEF Insert
    <2>9. old \in 0..(n + 1)
        BY <2>1 DEF Typed, TypeOK
    <2>10. catchUp' \in [Subs -> [phase : InFlight \cup {"idle"}, since : Nat,
                                  rows : SUBSET Stored']]
        <3>1. catchUp \in [Subs -> [phase : InFlight \cup {"idle"},
                                    since : Nat, rows : SUBSET Stored]]
            BY DEF Typed, TypeOK
        <3>2. SUBSET Stored \subseteq SUBSET Stored'
            BY <2>4
        <3> QED BY <2>8, <3>1, <3>2
    <2>11. excused' \subseteq Stored'
        BY <2>4, <2>8 DEF Typed, TypeOK
    <2>12. TypeOK'
        BY <2>3, <2>6, <2>7, <2>8, <2>9, <2>10, <2>11 DEF Typed, TypeOK
    <2>13. OrderInv'
        <3>1. ASSUME NEW q \in 1..(n + 1), NEW r \in 1..(n + 1), q < r
              PROVE  rows'[q].ts <= rows'[r].ts
            <4>1. CASE r = n + 1
                BY <2>2, <2>3, <3>1, <4>1
            <4>2. CASE r # n + 1
                <5>1. q \in 1..n /\ r \in 1..n
                    BY <2>1, <3>1, <4>2, Rows DEF Typed
                <5> QED BY <2>3, <2>4, <3>1, <5>1 DEF Typed, OrderInv
            <4> QED BY <4>1, <4>2
        <3>2. ASSUME NEW r \in 1..(n + 1) PROVE rows'[r].ts >= 1
            <4>1. CASE r = n + 1
                BY <2>2, <2>3, <4>1
            <4>2. CASE r # n + 1
                BY <2>3, <2>4, <4>2 DEF Typed, OrderInv
            <4> QED BY <4>1, <4>2
        <3> QED BY <2>4, <3>1, <3>2 DEF OrderInv
    <2> QED BY <2>12, <2>13 DEF Typed
<1>2. CASE Age
    <2>1. old' \in 0..Len(rows)
        BY <1>2, Rows DEF Age, Typed, TypeOK
    <2> QED BY <1>2, <1>r, <2>1 DEF Age, Typed, TypeOK, Stored
<1>3. CASE Drop
    BY <1>3, <1>r, EmptySeq DEF Drop, Typed, TypeOK, Stored
<1>4. CASE JoinOk
    <2>1. lastSeen[sub] \in Nat
        BY <1>m DEF Typed, TypeOK
    <2>2. Missing \subseteq Stored
        BY DEF Missing
    <2>3. catchUp' \in [Subs -> [phase : InFlight \cup {"idle"}, since : Nat,
                                 rows : SUBSET Stored]]
        <3>1. [phase |-> "asked", since |-> lastSeen[sub], rows |-> {}]
                \in [phase : InFlight \cup {"idle"}, since : Nat,
                     rows : SUBSET Stored]
            BY <2>1 DEF InFlight
        <3>2. catchUp' \in {catchUp, [catchUp EXCEPT ![sub] =
                [phase |-> "asked", since |-> lastSeen[sub], rows |-> {}]]}
            BY <1>4 DEF JoinOk
        <3> QED BY <3>1, <3>2 DEF Typed, TypeOK
    <2> QED BY <1>4, <1>r, <2>2, <2>3 DEF JoinOk, Typed, TypeOK, Stored
<1>5. CASE Deliver
    <2>1. Head(pipe) \in Stored /\ Tail(pipe) \in Seq(Stored)
        BY <1>5, Popped DEF Deliver, Typed
    <2>2. Raise(lastSeen[sub], {Head(pipe)}) \in Nat
        BY <1>m, <2>1, RaiseIs DEF Typed, TypeOK
    <2>3. lastSeen' \in [Subs -> Nat]
        BY <1>5, <2>2 DEF Deliver, Typed, TypeOK
    <2>4. live' \in [Subs \X RowIds -> Nat]
        <3>1. <<sub, Head(pipe)>> \in Subs \X RowIds
            BY <2>1, Rows DEF Typed, TypeOK
        <3>2. live[<<sub, Head(pipe)>>] + 1 \in Nat
            BY <3>1 DEF Typed, TypeOK
        <3> QED BY <1>5, <3>1, <3>2 DEF Deliver, Typed, TypeOK
    <2> QED BY <1>5, <1>r, <2>1, <2>3, <2>4 DEF Deliver, Typed, TypeOK, Stored
<1>6. ASSUME NEW k \in Subs, CatchUpAnswered(k) PROVE Typed'
    <2>1. History \subseteq Stored /\ Missing \subseteq Stored
        <3>1. Recent \subseteq Stored
            BY Rows DEF Recent, Stored, Typed, TypeOK
        <3> QED BY <3>1 DEF History, Missing
    <2>2. catchUp' \in [Subs -> [phase : InFlight \cup {"idle"}, since : Nat,
                                 rows : SUBSET Stored]]
        BY <1>6, <2>1 DEF CatchUpAnswered, Typed, TypeOK, InFlight
    <2>3. excused' \subseteq Stored
        BY <1>6, <2>1 DEF CatchUpAnswered, Typed, TypeOK
    <2> QED BY <1>6, <1>r, <2>2, <2>3
            DEF CatchUpAnswered, Typed, TypeOK, Stored
<1>7. ASSUME NEW k \in Subs, CatchUpFails(k) PROVE Typed'
    <2>1. Missing \subseteq Stored
        BY DEF Missing
    <2>2. catchUp' \in [Subs -> [phase : InFlight \cup {"idle"}, since : Nat,
                                 rows : SUBSET Stored]]
        BY <1>7 DEF CatchUpFails, Typed, TypeOK, Idle
    <2> QED BY <1>7, <1>r, <2>1, <2>2 DEF CatchUpFails, Typed, TypeOK, Stored
<1>8. ASSUME NEW k \in Subs, CatchUpDone(k) PROVE Typed'
    <2>1. Fresh(k) \subseteq Stored
        BY <1>m DEF Fresh
    <2>2. Raise(lastSeen[k], Fresh(k)) \in Nat
        BY <1>m, <2>1, RaiseIs
    <2>3. lastSeen' \in [Subs -> Nat]
        BY <1>8, <2>2 DEF CatchUpDone, Typed, TypeOK
    <2>4. caught' \in [Subs \X RowIds -> Nat]
        BY <1>8 DEF CatchUpDone, Typed, TypeOK
    <2>5. catchUp' \in [Subs -> [phase : InFlight \cup {"idle"}, since : Nat,
                                 rows : SUBSET Stored]]
        BY <1>8 DEF CatchUpDone, Typed, TypeOK, Idle
    <2> QED BY <1>8, <1>r, <2>3, <2>4, <2>5
            DEF CatchUpDone, Typed, TypeOK, Stored
<1>9. CASE Evict
    BY <1>9, <1>r DEF Evict, Typed, TypeOK, Stored
<1>10. CASE Crash
    <2>1. catchUp' \in [Subs -> [phase : InFlight \cup {"idle"}, since : Nat,
                                 rows : SUBSET Stored]]
        BY <1>10 DEF Crash, Idle
    <2> QED BY <1>10, <1>r, <2>1, EmptySeq DEF Crash, Typed, TypeOK, Stored
<1>11. CASE Register
    <2>1. sub + 1 \in Subs
        BY <1>11, BoundsAssumption DEF Register, Typed, TypeOK, Subs
    <2> QED BY <1>11, <1>r, <2>1 DEF Register, Typed, TypeOK, Stored
<1>13. CASE Accept
    BY <1>13, <1>r DEF Accept, Typed, TypeOK, Stored
<1>12. CASE UNCHANGED vars
    BY <1>12, <1>r DEF vars, Typed, TypeOK, Stored
<1> QED
    BY <1>1, <1>2, <1>3, <1>4, <1>5, <1>6, <1>7, <1>8, <1>9, <1>10, <1>11,
       <1>12, <1>13 DEF Next

LEMMA TypedInit == Init => Typed
<1> SUFFICES ASSUME Init PROVE Typed
    OBVIOUS
<1>1. Stored = {} /\ Len(rows) = 0
    BY DEF Init, Stored
<1>2. rows \in Seq([kind : Kinds, ts : Nat]) /\ pipe \in Seq(Stored)
    BY EmptySeq DEF Init
<1>3. MaxRows \in Nat /\ 1 \in Subs /\ old \in 0..Len(rows)
    BY <1>1, BoundsAssumption DEF Init, Subs
<1>4. catchUp \in [Subs -> [phase : InFlight \cup {"idle"}, since : Nat,
                           rows : SUBSET Stored]]
    BY DEF Init, Idle
<1>5. /\ live \in [Subs \X RowIds -> Nat]
      /\ caught \in [Subs \X RowIds -> Nat] /\ lastSeen \in [Subs -> Nat]
    BY DEF Init
<1>6. /\ sub \in Subs /\ active \in BOOLEAN /\ joined \in BOOLEAN
      /\ told \in BOOLEAN /\ excused \subseteq Stored
      /\ during \subseteq Subs \X Stored
    BY <1>3 DEF Init
<1>7. Len(rows) <= MaxRows
    BY <1>1, <1>3
<1>8. TypeOK
    BY <1>2, <1>3, <1>4, <1>5, <1>6, <1>7 DEF TypeOK
<1> QED BY <1>1, <1>8 DEF Typed, OrderInv

LEMMA TypedCorrect == Spec => []Typed
BY TypedInit, TypeInductive, PTL DEF Spec

\* Every variable has its type, and every row that anything names is stored.
THEOREM TypeCorrect == Spec => []TypeOK
BY TypedCorrect, PTL DEF Typed

-----------------------------------------------------------------------------
(* What the steps do, row by row.                                          *)

Streaming(r) == Contains(pipe, r)
Sorted == \A i, j \in 1..Len(pipe) : i < j => pipe[i] < pipe[j]

LEMMA StreamedIsStored ==
    ASSUME TypeOK, NEW r, Streaming(r) PROVE r \in Stored
BY ElementOfSeq DEF TypeOK, Streaming, Contains

LEMMA EmptyStream == ASSUME pipe = <<>>, NEW r PROVE ~Streaming(r)
BY DEF Streaming, Contains

\* An insertion: the new row is n.
LEMMA InsertEffect ==
    ASSUME Typed, NEW kind \in Kinds, Insert(kind), NEW n, n = Len(rows) + 1
    PROVE  /\ n \in Nat /\ Stored' = Stored \cup {n} /\ n \notin Stored
           /\ \A r \in Stored : r < n
           /\ \A r \in Stored : rows'[r] = rows[r] /\ (Own(r)' <=> Own(r))
           /\ rows'[n].ts \in Nat /\ rows'[n].ts >= 1
           /\ \A r \in Stored : rows[r].ts <= rows'[n].ts
           /\ \A r : Streaming(r)' => Streaming(r) \/ r = n
           /\ \A r : Streaming(r) => Streaming(r)'
           /\ joined => Streaming(n)'
           /\ Sorted => Sorted'
           /\ ~joined => pipe' = pipe
<1>1. /\ n \in Nat /\ Stored = 1..(n - 1) /\ Stored' = 1..n
      /\ \A r \in Stored : rows'[r] = rows[r]
      /\ rows'[n].ts \in Nat /\ rows'[n].ts >= 1
      /\ \A r \in Stored : rows[r].ts <= rows'[n].ts
    BY Rows, Inserted DEF Typed, Stored
<1>2. pipe \in Seq(Stored') /\ n \in Stored'
    BY <1>1, SeqMonotonic DEF Typed, TypeOK
<1>3. PICK m \in Nat : m = Len(pipe)
    BY LenProperties DEF Typed, TypeOK
<1>4. /\ Len(Append(pipe, n)) = m + 1
      /\ \A i \in 1..m : Append(pipe, n)[i] = pipe[i]
      /\ Append(pipe, n)[m + 1] = n
    BY <1>2, <1>3, AppendProperties
<1>5. \A i \in 1..m : pipe[i] \in Stored /\ pipe[i] \in Nat
    BY <1>3, ElementOfSeq, Rows DEF Typed, TypeOK
<1>6. CASE joined
    <2>1. pipe' = Append(pipe, n)
        BY <1>6 DEF Insert
    <2>2. ASSUME NEW r, Streaming(r)' PROVE Streaming(r) \/ r = n
        <3>1. PICK i \in 1..(m + 1) : pipe'[i] = r
            BY <1>4, <2>1, <2>2 DEF Streaming, Contains
        <3> QED BY <1>3, <1>4, <2>1, <3>1 DEF Streaming, Contains
    <2>3. ASSUME NEW r, Streaming(r) PROVE Streaming(r)'
        <3>1. PICK i \in 1..m : pipe[i] = r
            BY <1>3, <2>3 DEF Streaming, Contains
        <3> QED BY <1>4, <2>1, <3>1 DEF Streaming, Contains
    <2>4. Streaming(n)'
        BY <1>4, <2>1 DEF Streaming, Contains
    <2>5. ASSUME Sorted PROVE Sorted'
        <3> SUFFICES ASSUME NEW i \in 1..(m + 1), NEW j \in 1..(m + 1), i < j
                     PROVE  pipe'[i] < pipe'[j]
            BY <1>4, <2>1 DEF Sorted
        <3>1. i \in 1..m /\ pipe'[i] = pipe[i] /\ pipe[i] < n
            BY <1>1, <1>4, <1>5, <2>1
        <3>2. CASE j = m + 1
            BY <1>4, <2>1, <3>1, <3>2
        <3>3. CASE j # m + 1
            BY <1>3, <1>4, <2>1, <2>5, <3>1, <3>3 DEF Sorted
        <3> QED BY <3>2, <3>3
    <2> QED BY <1>1, <1>6, <2>2, <2>3, <2>4, <2>5 DEF Own
<1>7. CASE ~joined
    <2>1. pipe' = pipe
        BY <1>7 DEF Insert
    <2> QED BY <1>1, <1>7, <2>1 DEF Own, Streaming, Sorted
<1> QED BY <1>6, <1>7

\* The reading of row h from the stream.
LEMMA DeliverEffect ==
    ASSUME Typed, Deliver, NEW h, h = Head(pipe)
    PROVE  /\ h \in Stored /\ Streaming(h)
           /\ \A r : Streaming(r)' => Streaming(r)
           /\ \A r : Streaming(r) => r = h \/ Streaming(r)'
           /\ Sorted => Sorted' /\ \A r : Streaming(r)' => h < r
           /\ \A k \in Subs, r \in RowIds :
                live'[<<k, r>>] = IF k = sub /\ r = h /\ Own(h)
                              THEN live[<<k, r>>] + 1 ELSE live[<<k, r>>]
           /\ \A k \in Subs : lastSeen'[k] >= lastSeen[k]
           /\ Own(h) => lastSeen'[sub] >= rows[h].ts
           /\ \A k \in Subs : lastSeen'[k] = lastSeen[k]
                \/ (k = sub /\ Own(h) /\ lastSeen'[k] = rows[h].ts)
<1>1. /\ h \in Stored /\ Tail(pipe) \in Seq(Stored)
      /\ h = pipe[1] /\ 1 \in 1..Len(pipe)
      /\ Len(Tail(pipe)) = Len(pipe) - 1
      /\ \A i \in 1..Len(Tail(pipe)) : Tail(pipe)[i] = pipe[i + 1]
    BY Popped DEF Deliver, Typed
<1>2. PICK m \in Nat : Len(pipe) = m + 1
    <2>1. Len(pipe) \in Nat
        BY LenProperties DEF Typed, TypeOK
    <2>2. Len(pipe) - 1 \in Nat /\ Len(pipe) = (Len(pipe) - 1) + 1
        BY <1>1, <2>1
    <2> QED BY <2>2
<1>3. Len(pipe') = m /\ \A i \in 1..m : pipe'[i] = pipe[i + 1]
    BY <1>1, <1>2 DEF Deliver
<1>4. Streaming(h)
    BY <1>1 DEF Streaming, Contains
<1>5. ASSUME NEW r, Streaming(r)' PROVE Streaming(r)
    <2>1. PICK i \in 1..m : pipe[i + 1] = r
        BY <1>3, <1>5 DEF Streaming, Contains
    <2> QED BY <1>2, <2>1 DEF Streaming, Contains
<1>6. ASSUME NEW r, Streaming(r) PROVE r = h \/ Streaming(r)'
    <2>1. PICK i \in 1..(m + 1) : pipe[i] = r
        BY <1>2, <1>6 DEF Streaming, Contains
    <2>2. CASE i = 1
        BY <1>1, <2>1, <2>2
    <2>3. CASE i # 1
        <3>1. i - 1 \in 1..m /\ pipe'[i - 1] = r
            BY <1>3, <2>1, <2>3
        <3> QED BY <1>3, <3>1 DEF Streaming, Contains
    <2> QED BY <2>2, <2>3
<1>7. ASSUME Sorted PROVE Sorted' /\ \A r : Streaming(r)' => h < r
    <2>1. Sorted'
        BY <1>2, <1>3, <1>7 DEF Sorted
    <2>2. ASSUME NEW r, Streaming(r)' PROVE h < r
        <3>1. PICK i \in 1..m : pipe[i + 1] = r
            BY <1>3, <2>2 DEF Streaming, Contains
        <3> QED BY <1>1, <1>2, <1>7, <3>1 DEF Sorted
    <2> QED BY <2>1, <2>2
<1>8. \A k \in Subs, r \in RowIds :
        live'[<<k, r>>] = IF k = sub /\ r = h /\ Own(h)
                      THEN live[<<k, r>>] + 1 ELSE live[<<k, r>>]
    <2>1. <<sub, h>> \in Subs \X RowIds
        BY <1>1, Rows DEF Typed, TypeOK
    <2> QED BY <2>1 DEF Deliver, Typed, TypeOK
<1>9. \A k \in Subs : lastSeen[k] \in Nat
    BY DEF Typed, TypeOK
<1>10. /\ Raise(lastSeen[sub], {h}) >= lastSeen[sub]
       /\ Raise(lastSeen[sub], {h}) >= rows[h].ts
       /\ Raise(lastSeen[sub], {h}) \in {lastSeen[sub], rows[h].ts}
    BY <1>1, <1>9, RaiseIs DEF Typed, TypeOK
<1>11. \A k \in Subs : lastSeen'[k] = IF k = sub /\ Own(h)
                        THEN Raise(lastSeen[sub], {h}) ELSE lastSeen[k]
    BY DEF Deliver, Typed, TypeOK
<1>12. sub \in Subs
    BY DEF Typed, TypeOK
<1>13. \A k \in Subs : lastSeen'[k] >= lastSeen[k]
    BY <1>9, <1>10, <1>11
<1>14. Own(h) => lastSeen'[sub] >= rows[h].ts
    BY <1>10, <1>11, <1>12
<1>15. \A k \in Subs : lastSeen'[k] = lastSeen[k]
            \/ (k = sub /\ Own(h) /\ lastSeen'[k] = rows[h].ts)
    BY <1>10, <1>11
<1> QED BY <1>1, <1>4, <1>5, <1>6, <1>7, <1>8, <1>13, <1>14, <1>15

\* The end of the catch-up of subscription k.
LEMMA DoneEffect ==
    ASSUME Typed, NEW k \in Subs, CatchUpDone(k)
    PROVE  /\ Fresh(k) \subseteq Stored
           /\ \A j \in Subs, r \in RowIds :
                caught'[<<j, r>>] = IF j = k /\ r \in Fresh(k)
                                THEN caught[<<j, r>>] + 1 ELSE caught[<<j, r>>]
           /\ \A j \in Subs : catchUp'[j] = IF j = k THEN Idle ELSE catchUp[j]
           /\ \A j \in Subs : lastSeen'[j] >= lastSeen[j]
           /\ \A r \in Fresh(k) : lastSeen'[k] >= rows[r].ts
           /\ \A j \in Subs : lastSeen'[j] = lastSeen[j]
                \/ (j = k /\ \E r \in Fresh(k) : lastSeen'[j] = rows[r].ts)
<1>1. Fresh(k) \subseteq Stored /\ \A j \in Subs : lastSeen[j] \in Nat
    BY DEF Typed, TypeOK, Fresh
<1>2. /\ Raise(lastSeen[k], Fresh(k)) >= lastSeen[k]
      /\ \A r \in Fresh(k) : Raise(lastSeen[k], Fresh(k)) >= rows[r].ts
      /\ \/ Raise(lastSeen[k], Fresh(k)) = lastSeen[k]
         \/ \E r \in Fresh(k) : Raise(lastSeen[k], Fresh(k)) = rows[r].ts
    BY <1>1, RaiseIs
<1>3. \A j \in Subs : lastSeen'[j] = IF j = k
                        THEN Raise(lastSeen[k], Fresh(k)) ELSE lastSeen[j]
    BY DEF CatchUpDone, Typed, TypeOK
<1>4. \A j \in Subs, r \in RowIds :
        caught'[<<j, r>>] = IF j = k /\ r \in Fresh(k)
                        THEN caught[<<j, r>>] + 1 ELSE caught[<<j, r>>]
    BY DEF CatchUpDone
<1>5. \A j \in Subs : catchUp'[j] = IF j = k THEN Idle ELSE catchUp[j]
    BY DEF CatchUpDone, Typed, TypeOK
<1> QED BY <1>1, <1>2, <1>3, <1>4, <1>5

\* Histories, catch-ups and Missing name stored rows.
LEMMA Subsets ==
    ASSUME Typed
    PROVE  /\ History \subseteq Stored /\ Missing \subseteq Stored
           /\ \A k \in Subs : /\ catchUp[k].rows \subseteq Stored
                              /\ catchUp[k].since \in Nat
                              /\ lastSeen[k] \in Nat
                              /\ catchUp[k].phase \in InFlight \cup {"idle"}
           /\ sub \in Subs
           /\ \A k \in Subs, r \in RowIds :
                live[<<k, r>>] \in Nat /\ caught[<<k, r>>] \in Nat
<1>1. Recent \subseteq Stored
    BY Rows DEF Recent, Stored, Typed, TypeOK
<1>2. History \subseteq Stored /\ Missing \subseteq Stored
    BY <1>1 DEF History, Missing
<1>3. \A k \in Subs, r \in RowIds :
        live[<<k, r>>] \in Nat /\ caught[<<k, r>>] \in Nat
    BY DEF Typed, TypeOK
<1> QED BY <1>2, <1>3 DEF Typed, TypeOK

-----------------------------------------------------------------------------
(* The stream delivers each row once, in order.                            *)

ChannelInv ==
    /\ Sorted
    /\ ~joined => pipe = <<>> /\ ~told
    /\ ~active => ~joined

\* What was dispatched comes before what is in the stream.
LiveInv ==
    \A k \in Subs, r \in RowIds :
        /\ live[<<k, r>>] <= 1
        /\ live[<<k, r>>] > 0
            => r \in Stored /\ \A p \in Stored : Streaming(p) => r < p

\* Subscriptions that were not made yet.
UnusedInv ==
    \A k \in Subs : k > sub =>
        /\ lastSeen[k] = 0 /\ catchUp[k].phase = "idle"
        /\ \A r \in RowIds : live[<<k, r>>] = 0 /\ caught[<<k, r>>] = 0

LEMMA ChannelInductive ==
    Typed /\ ChannelInv /\ [Next]_vars => ChannelInv'
<1> SUFFICES ASSUME Typed, ChannelInv, [Next]_vars PROVE ChannelInv'
    OBVIOUS
<1> USE DEF Channel!Join, Channel!Tell, Channel!Drop, Channel!End,
           Channel!Begin
<1>e. ASSUME pipe' = <<>>, ~active' => ~joined', ~joined' => ~told'
      PROVE  ChannelInv'
    BY <1>e DEF ChannelInv, Sorted
<1>u. ASSUME UNCHANGED pipe, ~joined' => pipe = <<>>, ~active' => ~joined',
             ~joined' => ~told'
      PROVE  ChannelInv'
    BY <1>u DEF ChannelInv, Sorted
<1>1. ASSUME NEW kind \in Kinds, Insert(kind) PROVE ChannelInv'
    <2>1. UNCHANGED <<joined, told, active>>
        BY <1>1 DEF Insert
    <2> QED BY <1>1, <2>1, InsertEffect DEF ChannelInv
<1>2. CASE Age BY <1>2, <1>u DEF Age, ChannelInv
<1>3. CASE Drop BY <1>3, <1>e DEF Drop, ChannelInv
<1>4. CASE JoinOk BY <1>4, <1>u DEF JoinOk, ChannelInv
<1>5. CASE Deliver
    <2>1. Sorted'
        BY <1>5, DeliverEffect DEF ChannelInv
    <2> QED BY <1>5, <2>1 DEF Deliver, ChannelInv
<1>6. ASSUME NEW k \in Subs, CatchUpAnswered(k) PROVE ChannelInv'
    BY <1>6, <1>u DEF CatchUpAnswered, ChannelInv
<1>7. ASSUME NEW k \in Subs, CatchUpFails(k) PROVE ChannelInv'
    BY <1>7, <1>u DEF CatchUpFails, ChannelInv
<1>8. ASSUME NEW k \in Subs, CatchUpDone(k) PROVE ChannelInv'
    BY <1>8, <1>u DEF CatchUpDone, ChannelInv
<1>9. CASE Evict BY <1>9, <1>u DEF Evict, ChannelInv
<1>10. CASE Crash BY <1>10, <1>e DEF Crash
<1>11. CASE Register BY <1>11, <1>u DEF Register, ChannelInv
<1>13. CASE Accept BY <1>13, <1>u DEF Accept, ChannelInv
<1>12. CASE UNCHANGED vars BY <1>12, <1>u DEF vars, ChannelInv
<1> QED
    BY <1>1, <1>2, <1>3, <1>4, <1>5, <1>6, <1>7, <1>8, <1>9, <1>10, <1>11,
       <1>12, <1>13 DEF Next

LEMMA LiveInductive ==
    Typed /\ ChannelInv /\ LiveInv /\ [Next]_vars => LiveInv'
<1> SUFFICES ASSUME Typed, ChannelInv, LiveInv, [Next]_vars PROVE LiveInv'
    OBVIOUS
<1>e. ASSUME pipe' = <<>>, UNCHANGED <<rows, live>> PROVE LiveInv'
    <2>1. \A p : ~Streaming(p)'
        BY <1>e DEF Streaming, Contains
    <2> QED BY <1>e, <2>1 DEF LiveInv, Stored
<1>u. ASSUME UNCHANGED <<rows, pipe, live>> PROVE LiveInv'
    BY <1>u DEF LiveInv, Stored, Streaming
<1>1. ASSUME NEW kind \in Kinds, Insert(kind) PROVE LiveInv'
    <2>1. PICK n : n = Len(rows) + 1
        OBVIOUS
    <2>2. UNCHANGED live
        BY <1>1 DEF Insert
    <2>3. /\ Stored' = Stored \cup {n} /\ \A r \in Stored : r < n
          /\ \A r : Streaming(r)' => Streaming(r) \/ r = n
        BY <1>1, <2>1, InsertEffect
    <2>4. \A p \in Stored' : Streaming(p)'
            => (p \in Stored /\ Streaming(p)) \/ p = n
        BY <2>3
    <2> QED BY <2>2, <2>3, <2>4 DEF LiveInv
<1>2. CASE Age BY <1>2, <1>u DEF Age
<1>3. CASE Drop BY <1>3, <1>e DEF Drop
<1>4. CASE JoinOk BY <1>4, <1>u DEF JoinOk
<1>5. CASE Deliver
    <2>1. PICK h : h = Head(pipe)
        OBVIOUS
    <2>2. /\ h \in Stored /\ Streaming(h)
          /\ \A r : Streaming(r)' => Streaming(r) /\ h < r
          /\ \A k \in Subs, r \in RowIds :
                live'[<<k, r>>] = IF k = sub /\ r = h /\ Own(h)
                              THEN live[<<k, r>>] + 1 ELSE live[<<k, r>>]
        BY <1>5, <2>1, DeliverEffect DEF ChannelInv
    <2>3. UNCHANGED rows /\ Stored' = Stored
        BY <1>5 DEF Deliver, Stored
    <2>4. \A r \in Stored : r \in Nat
        BY Rows DEF Typed
    <2> SUFFICES ASSUME NEW k \in Subs, NEW r \in RowIds
                 PROVE  /\ live'[<<k, r>>] <= 1
                        /\ live'[<<k, r>>] > 0
                            => r \in Stored /\ \A p \in Stored :
                                Streaming(p)' => r < p
        BY <2>3 DEF LiveInv
    <2>5. CASE k = sub /\ r = h /\ Own(h)
        <3>1. live[<<k, r>>] = 0
            <4>1. ~(live[<<k, r>>] > 0)
                BY <2>2, <2>4, <2>5 DEF LiveInv
            <4> QED BY <4>1, Subsets
        <3> QED BY <2>2, <2>5, <3>1
    <2>6. CASE ~(k = sub /\ r = h /\ Own(h))
        BY <2>2, <2>6 DEF LiveInv
    <2> QED BY <2>5, <2>6
<1>6. ASSUME NEW k \in Subs, CatchUpAnswered(k) PROVE LiveInv'
    BY <1>6, <1>u DEF CatchUpAnswered
<1>7. ASSUME NEW k \in Subs, CatchUpFails(k) PROVE LiveInv'
    BY <1>7, <1>u DEF CatchUpFails
<1>8. ASSUME NEW k \in Subs, CatchUpDone(k) PROVE LiveInv'
    BY <1>8, <1>u DEF CatchUpDone
<1>9. CASE Evict BY <1>9, <1>u DEF Evict
<1>10. CASE Crash BY <1>10, <1>e DEF Crash
<1>11. CASE Register BY <1>11, <1>u DEF Register
<1>13. CASE Accept BY <1>13, <1>u DEF Accept
<1>12. CASE UNCHANGED vars BY <1>12, <1>u DEF vars
<1> QED
    BY <1>1, <1>2, <1>3, <1>4, <1>5, <1>6, <1>7, <1>8, <1>9, <1>10, <1>11,
       <1>12, <1>13 DEF Next

LEMMA UnusedInductive == Typed /\ UnusedInv /\ [Next]_vars => UnusedInv'
<1> SUFFICES ASSUME Typed, UnusedInv, [Next]_vars PROVE UnusedInv'
    OBVIOUS
<1>t. sub \in Nat /\ \A k \in Subs : k \in Nat
    BY BoundsAssumption DEF Typed, TypeOK, Subs
<1>u. ASSUME UNCHANGED <<sub, lastSeen, catchUp, live, caught>>
      PROVE  UnusedInv'
    BY <1>u DEF UnusedInv
<1>c. ASSUME UNCHANGED <<sub, lastSeen, live, caught>>,
             \A j \in Subs : catchUp'[j].phase = "idle"
                \/ catchUp[j].phase # "idle" \/ j = sub
      PROVE  UnusedInv'
    BY <1>c, <1>t DEF UnusedInv
<1>1. ASSUME NEW kind \in Kinds, Insert(kind) PROVE UnusedInv'
    BY <1>1, <1>u DEF Insert
<1>2. CASE Age BY <1>2, <1>u DEF Age
<1>3. CASE Drop BY <1>3, <1>u DEF Drop
<1>4. CASE JoinOk
    <2>1. \A j \in Subs : j # sub => catchUp'[j] = catchUp[j]
        BY <1>4 DEF JoinOk, Typed, TypeOK
    <2>2. \A j \in Subs : catchUp'[j].phase = "idle"
                \/ catchUp[j].phase # "idle" \/ j = sub
        BY <2>1
    <2> QED BY <1>4, <1>c, <2>2 DEF JoinOk
<1>5. CASE Deliver
    <2>1. \A k \in Subs, r \in RowIds :
                k # sub => live'[<<k, r>>] = live[<<k, r>>]
        BY <1>5, DeliverEffect
    <2>2. \A k \in Subs : k # sub => lastSeen'[k] = lastSeen[k]
        BY <1>5, DeliverEffect
    <2>3. UNCHANGED <<sub, catchUp, caught>>
        BY <1>5 DEF Deliver
    <2> QED BY <1>t, <2>1, <2>2, <2>3 DEF UnusedInv
<1>6. ASSUME NEW k \in Subs, CatchUpAnswered(k) PROVE UnusedInv'
    <2>1. \A j \in Subs : catchUp[j].phase # "idle" \/ catchUp'[j] = catchUp[j]
        BY <1>6 DEF CatchUpAnswered, Typed, TypeOK
    <2> QED BY <1>6, <1>c, <2>1 DEF CatchUpAnswered
<1>7. ASSUME NEW k \in Subs, CatchUpFails(k) PROVE UnusedInv'
    <2>1. \A j \in Subs : catchUp'[j] \in {catchUp[j], Idle}
        BY <1>7 DEF CatchUpFails, Typed, TypeOK
    <2>2. Idle.phase = "idle"
        BY DEF Idle
    <2> QED BY <1>7, <1>c, <2>1, <2>2 DEF CatchUpFails
<1>8. ASSUME NEW k \in Subs, CatchUpDone(k) PROVE UnusedInv'
    <2>1. ~(k > sub)
        BY <1>8 DEF CatchUpDone, UnusedInv
    <2>2. UNCHANGED <<sub, live>>
        BY <1>8 DEF CatchUpDone
    <2>3. \A j \in Subs : j # k =>
            /\ catchUp'[j] = catchUp[j] /\ lastSeen'[j] = lastSeen[j]
            /\ \A r \in RowIds : caught'[<<j, r>>] = caught[<<j, r>>]
        BY <1>8, DoneEffect
    <2> QED BY <2>1, <2>2, <2>3 DEF UnusedInv
<1>9. CASE Evict BY <1>9, <1>u DEF Evict
<1>10. CASE Crash
    <2>1. \A j \in Subs : catchUp'[j].phase = "idle"
        BY <1>10 DEF Crash, Idle
    <2> QED BY <1>10, <1>c, <2>1 DEF Crash
<1>11. CASE Register
    BY <1>11, <1>t DEF Register, UnusedInv
<1>13. CASE Accept BY <1>13, <1>u DEF Accept
<1>12. CASE UNCHANGED vars BY <1>12, <1>u DEF vars
<1> QED
    BY <1>1, <1>2, <1>3, <1>4, <1>5, <1>6, <1>7, <1>8, <1>9, <1>10, <1>11,
       <1>12, <1>13 DEF Next

-----------------------------------------------------------------------------
(* The mark separates what a catch-up may dispatch from what was.          *)

Dispatched(k, r) == live[<<k, r>>] > 0 \/ caught[<<k, r>>] > 0

\* The mark is the latest time of a dispatched row; a catch-up has dispatched
\* nothing above the mark it started with; an answer waits only in "answered".
MarkInv ==
    \A k \in Subs :
        /\ \A r \in RowIds :
            /\ Dispatched(k, r) => r \in Stored /\ rows[r].ts <= lastSeen[k]
            /\ caught[<<k, r>>] <= 1
            /\ catchUp[k].phase \in InFlight /\ caught[<<k, r>>] > 0
                => rows[r].ts <= catchUp[k].since
        /\ catchUp[k].phase \in InFlight => catchUp[k].since <= lastSeen[k]
        /\ catchUp[k].phase # "answered" => catchUp[k].rows = {}
        /\ lastSeen[k] > 0
            => \E r \in Stored : Dispatched(k, r) /\ rows[r].ts = lastSeen[k]

LEMMA MarkInductive == Typed /\ MarkInv /\ [Next]_vars => MarkInv'
<1> SUFFICES ASSUME Typed, MarkInv, [Next]_vars PROVE MarkInv'
    OBVIOUS
<1>t. Stored \subseteq RowIds /\ \A r \in Stored : rows[r].ts \in Nat
    BY Rows DEF Typed
<1>u. ASSUME UNCHANGED <<rows, lastSeen, live, caught>>,
             \A j \in Subs : catchUp'[j] = catchUp[j] \/ catchUp'[j] = Idle
      PROVE  MarkInv'
    BY <1>u DEF MarkInv, Dispatched, Stored, Idle, InFlight
<1>1. ASSUME NEW kind \in Kinds, Insert(kind) PROVE MarkInv'
    <2>1. PICK n : n = Len(rows) + 1
        OBVIOUS
    <2>2. UNCHANGED <<lastSeen, live, caught, catchUp>>
        BY <1>1 DEF Insert
    <2>3. Stored \subseteq Stored' /\ \A r \in Stored : rows'[r] = rows[r]
        BY <1>1, <2>1, InsertEffect
    <2> QED BY <2>2, <2>3 DEF MarkInv, Dispatched
<1>2. CASE Age BY <1>2, <1>u DEF Age
<1>3. CASE Drop BY <1>3, <1>u DEF Drop
<1>4. CASE JoinOk
    <2>1. UNCHANGED <<rows, lastSeen, live, caught>> /\ Stored' = Stored
        BY <1>4 DEF JoinOk, Stored
    <2>2. \A j \in Subs : catchUp'[j] = catchUp[j]
            \/ /\ catchUp'[j].since = lastSeen[j] /\ catchUp'[j].rows = {}
               /\ catchUp'[j].phase = "asked"
        BY <1>4 DEF JoinOk, Typed, TypeOK
    <2> SUFFICES ASSUME NEW k \in Subs
                 PROVE
                    /\ catchUp'[k].phase \in InFlight =>
                        /\ catchUp'[k].since <= lastSeen[k]
                        /\ \A r \in RowIds : caught[<<k, r>>] > 0
                            => rows[r].ts <= catchUp'[k].since
                    /\ catchUp'[k].phase # "answered" => catchUp'[k].rows = {}
        BY <2>1 DEF MarkInv, Dispatched
    <2>3. CASE catchUp'[k] = catchUp[k]
        BY <2>3 DEF MarkInv
    <2>4. CASE /\ catchUp'[k].since = lastSeen[k] /\ catchUp'[k].rows = {}
               /\ catchUp'[k].phase = "asked"
        BY <2>4, Subsets DEF MarkInv, Dispatched
    <2> QED BY <2>2, <2>3, <2>4
<1>5. CASE Deliver
    <2>1. PICK h : h = Head(pipe)
        OBVIOUS
    <2>2. /\ h \in Stored
          /\ \A k \in Subs, r \in RowIds :
                live'[<<k, r>>] = IF k = sub /\ r = h /\ Own(h)
                              THEN live[<<k, r>>] + 1 ELSE live[<<k, r>>]
          /\ \A k \in Subs : lastSeen'[k] >= lastSeen[k]
          /\ Own(h) => lastSeen'[sub] >= rows[h].ts
          /\ \A k \in Subs : lastSeen'[k] = lastSeen[k]
                \/ (k = sub /\ Own(h) /\ lastSeen'[k] = rows[h].ts)
        BY <1>5, <2>1, DeliverEffect
    <2>3. UNCHANGED <<rows, caught, catchUp>> /\ Stored' = Stored
        BY <1>5 DEF Deliver, Stored
    <2>4. \A k \in Subs : lastSeen'[k] \in Nat
        BY TypeInductive DEF Typed, TypeOK
    <2>5. ASSUME NEW k \in Subs, NEW r \in RowIds, Dispatched(k, r)'
          PROVE  r \in Stored /\ rows[r].ts <= lastSeen'[k]
        <3>1. CASE Dispatched(k, r)
            <4>1. r \in Stored /\ rows[r].ts <= lastSeen[k]
                BY <3>1 DEF MarkInv
            <4> QED BY <1>t, <2>2, <2>4, <4>1, Subsets
        <3>2. CASE ~Dispatched(k, r)
            BY <2>2, <2>3, <2>5, <3>2 DEF Dispatched
        <3> QED BY <3>1, <3>2
    <2>6. ASSUME NEW k \in Subs, lastSeen'[k] > 0
          PROVE  \E r \in Stored :
                    Dispatched(k, r)' /\ rows[r].ts = lastSeen'[k]
        <3>1. CASE lastSeen'[k] = lastSeen[k]
            <4>1. PICK r \in Stored :
                    Dispatched(k, r) /\ rows[r].ts = lastSeen[k]
                BY <2>6, <3>1 DEF MarkInv
            <4>2. Dispatched(k, r)'
                BY <1>t, <2>2, <2>3, <4>1, Subsets DEF Dispatched
            <4> QED BY <3>1, <4>1, <4>2
        <3>2. CASE k = sub /\ Own(h) /\ lastSeen'[k] = rows[h].ts
            <4>1. live'[<<k, h>>] > 0
                BY <1>t, <2>2, <3>2, Subsets
            <4> QED BY <2>2, <3>2, <4>1 DEF Dispatched
        <3> QED BY <2>2, <3>1, <3>2
    <2>7. \A k \in Subs : catchUp[k].phase \in InFlight
                => catchUp[k].since <= lastSeen'[k]
        BY <2>2, <2>4, Subsets DEF MarkInv
    <2> QED BY <2>3, <2>5, <2>6, <2>7 DEF MarkInv
<1>6. ASSUME NEW k \in Subs, CatchUpAnswered(k) PROVE MarkInv'
    <2>1. UNCHANGED <<rows, lastSeen, live, caught>> /\ Stored' = Stored
        BY <1>6 DEF CatchUpAnswered, Stored
    <2>2. \A j \in Subs : catchUp'[j] = catchUp[j]
            \/ /\ catchUp'[j].since = catchUp[j].since
               /\ catchUp[j].phase = "asked"
               /\ catchUp'[j].phase = "answered"
        BY <1>6 DEF CatchUpAnswered, Typed, TypeOK
    <2> QED BY <2>1, <2>2 DEF MarkInv, Dispatched, InFlight
<1>7. ASSUME NEW k \in Subs, CatchUpFails(k) PROVE MarkInv'
    <2>1. \A j \in Subs : catchUp'[j] \in {catchUp[j], Idle}
        BY <1>7 DEF CatchUpFails, Typed, TypeOK
    <2> QED BY <1>7, <1>u, <2>1 DEF CatchUpFails
<1>8. ASSUME NEW k \in Subs, CatchUpDone(k) PROVE MarkInv'
    <2>1. UNCHANGED <<rows, live>> /\ Stored' = Stored
          /\ catchUp[k].phase \in InFlight
        BY <1>8 DEF CatchUpDone, Stored, InFlight
    <2>2. /\ Fresh(k) \subseteq Stored
          /\ \A j \in Subs, r \in RowIds :
                caught'[<<j, r>>] = IF j = k /\ r \in Fresh(k)
                                THEN caught[<<j, r>>] + 1 ELSE caught[<<j, r>>]
          /\ \A j \in Subs : catchUp'[j] = IF j = k THEN Idle ELSE catchUp[j]
          /\ \A j \in Subs : lastSeen'[j] >= lastSeen[j]
          /\ \A r \in Fresh(k) : lastSeen'[k] >= rows[r].ts
          /\ \A j \in Subs : lastSeen'[j] = lastSeen[j]
                \/ (j = k /\ \E r \in Fresh(k) : lastSeen'[j] = rows[r].ts)
        BY <1>8, DoneEffect
    <2>3. \A j \in Subs : lastSeen'[j] \in Nat
        BY TypeInductive DEF Typed, TypeOK
    <2>4. \A r \in Fresh(k) : caught[<<k, r>>] = 0
        <3>1. \A r \in Fresh(k) : rows[r].ts > catchUp[k].since
            BY DEF Fresh
        <3>2. \A r \in Fresh(k) : ~(caught[<<k, r>>] > 0)
            BY <1>t, <2>1, <2>2, <3>1, Subsets DEF MarkInv
        <3> QED BY <1>t, <2>2, <3>2, Subsets
    <2>5. ASSUME NEW j \in Subs, NEW r \in RowIds, Dispatched(j, r)'
          PROVE  r \in Stored /\ rows[r].ts <= lastSeen'[j]
        <3>1. CASE Dispatched(j, r)
            <4>1. r \in Stored /\ rows[r].ts <= lastSeen[j]
                BY <3>1 DEF MarkInv
            <4> QED BY <1>t, <2>2, <2>3, <4>1, Subsets
        <3>2. CASE ~Dispatched(j, r)
            <4>1. j = k /\ r \in Fresh(k)
                BY <2>1, <2>2, <2>5, <3>2 DEF Dispatched
            <4> QED BY <2>2, <4>1, <1>t, <2>3
        <3> QED BY <3>1, <3>2
    <2>6. ASSUME NEW j \in Subs, lastSeen'[j] > 0
          PROVE  \E r \in Stored :
                    Dispatched(j, r)' /\ rows[r].ts = lastSeen'[j]
        <3>1. CASE lastSeen'[j] = lastSeen[j]
            <4>1. PICK r \in Stored :
                    Dispatched(j, r) /\ rows[r].ts = lastSeen[j]
                BY <2>6, <3>1 DEF MarkInv
            <4>2. Dispatched(j, r)'
                BY <1>t, <2>1, <2>2, <4>1, Subsets DEF Dispatched
            <4> QED BY <3>1, <4>1, <4>2
        <3>2. CASE j = k /\ \E r \in Fresh(k) : lastSeen'[j] = rows[r].ts
            <4>1. PICK r \in Fresh(k) : lastSeen'[j] = rows[r].ts
                BY <3>2
            <4>2. caught'[<<j, r>>] > 0
                BY <1>t, <2>2, <3>2, <4>1, Subsets
            <4> QED BY <2>2, <4>1, <4>2 DEF Dispatched
        <3> QED BY <2>2, <3>1, <3>2
    <2>7. ASSUME NEW j \in Subs
          PROVE  /\ \A r \in RowIds : caught'[<<j, r>>] <= 1
                 /\ catchUp'[j].phase # "answered" => catchUp'[j].rows = {}
                 /\ catchUp'[j].phase \in InFlight =>
                        /\ catchUp'[j].since <= lastSeen'[j]
                        /\ \A r \in RowIds : caught'[<<j, r>>] > 0
                            => rows[r].ts <= catchUp'[j].since
        <3>1. CASE j = k
            BY <2>2, <2>4, <3>1 DEF MarkInv, Idle, InFlight
        <3>2. CASE j # k
            <4>1. /\ catchUp'[j] = catchUp[j] /\ lastSeen'[j] = lastSeen[j]
                  /\ \A r \in RowIds : caught'[<<j, r>>] = caught[<<j, r>>]
                BY <2>2, <3>2
            <4> QED BY <4>1 DEF MarkInv
        <3> QED BY <3>1, <3>2
    <2> QED BY <2>1, <2>5, <2>6, <2>7 DEF MarkInv
<1>9. CASE Evict BY <1>9, <1>u DEF Evict
<1>10. CASE Crash BY <1>10, <1>u DEF Crash
<1>11. CASE Register BY <1>11, <1>u DEF Register
<1>13. CASE Accept BY <1>13, <1>u DEF Accept
<1>12. CASE UNCHANGED vars BY <1>12, <1>u DEF vars
<1> QED
    BY <1>1, <1>2, <1>3, <1>4, <1>5, <1>6, <1>7, <1>8, <1>9, <1>10, <1>11,
       <1>12, <1>13 DEF Next

-----------------------------------------------------------------------------
(* A row that both paths dispatch was inserted while the subscription      *)
(* awaited the reply to its join or the answer of its catch-up.            *)

During(k, r) == <<k, r>> \in during

\* Of a row that the stream has or had, and one that a catch-up may bring.
OverlapInv ==
    /\ \A r \in Stored : Streaming(r) /\ Own(r) =>
        /\ joined /\ ~told => During(sub, r)
        /\ catchUp[sub].phase = "asked" => During(sub, r)
        /\ r \in catchUp[sub].rows => During(sub, r)
        /\ caught[<<sub, r>>] > 0 => During(sub, r)
    /\ \A k \in Subs, r \in RowIds : live[<<k, r>>] > 0 =>
        /\ catchUp[k].phase = "asked"
            => rows[r].ts <= catchUp[k].since \/ During(k, r)
        /\ r \in catchUp[k].rows
            => rows[r].ts <= catchUp[k].since \/ During(k, r)
        /\ caught[<<k, r>>] > 0 => During(k, r)

LEMMA OverlapInductive ==
    Typed /\ ChannelInv /\ UnusedInv /\ MarkInv /\ LiveInv /\ OverlapInv
            /\ [Next]_vars
        => OverlapInv'
<1> SUFFICES ASSUME Typed, ChannelInv, UnusedInv, MarkInv, LiveInv, OverlapInv,
                    [Next]_vars
             PROVE  OverlapInv'
    OBVIOUS
<1> USE DEF Channel!Join, Channel!Tell, Channel!Drop, Channel!End,
           Channel!Begin
<1>t. Stored \subseteq RowIds /\ \A r \in Stored : rows[r].ts \in Nat
    BY Rows DEF Typed
<1>u. ASSUME UNCHANGED <<rows, sub, live, caught, during>>,
             \A r : Streaming(r)' => Streaming(r),
             (\A r : ~Streaming(r)') \/ UNCHANGED <<joined, told>>,
             \A j \in Subs : catchUp'[j] = catchUp[j] \/ catchUp'[j] = Idle
      PROVE  OverlapInv'
    BY <1>u, Subsets DEF OverlapInv, During, Stored, Idle, Own
<1>n. ASSUME UNCHANGED pipe PROVE \A r : Streaming(r)' => Streaming(r)
    BY <1>n DEF Streaming
<1>e. ASSUME pipe' = <<>> PROVE \A r : ~Streaming(r)'
    BY <1>e DEF Streaming, Contains
<1>1. ASSUME NEW kind \in Kinds, Insert(kind) PROVE OverlapInv'
    <2>1. PICK n : n = Len(rows) + 1
        OBVIOUS
    <2>2. UNCHANGED <<sub, live, caught, catchUp, joined, told>>
        BY <1>1 DEF Insert
    <2>3. /\ Stored' = Stored \cup {n} /\ n \notin Stored
          /\ \A r \in Stored : rows'[r] = rows[r] /\ (Own(r)' <=> Own(r))
          /\ \A r : Streaming(r)' => Streaming(r) \/ r = n
        BY <1>1, <2>1, InsertEffect
    <2>4. /\ during \subseteq during'
          /\ Own(n)' /\ (catchUp[sub].phase = "asked" \/ (joined /\ ~told))
                => <<sub, n>> \in during'
        <3>1. PICK ts \in {Max({LastTs, 1}), LastTs + 1} :
                rows' = Append(rows, [kind |-> kind, ts |-> ts])
            BY <1>1 DEF Insert
        <3>2. rows'[n].kind = kind
            BY <3>1, <2>1 DEF Typed, TypeOK
        <3> QED BY <1>1, <2>1, <3>2, Subsets DEF Insert, Overlapping, Own
    <2>5. ~(n \in catchUp[sub].rows) /\ ~(caught[<<sub, n>>] > 0)
        <3>1. n \in RowIds
            BY <1>1, <2>1, Rows, BoundsAssumption DEF Insert, Typed, RowIds
        <3> QED BY <2>3, <3>1, Subsets DEF MarkInv, Dispatched
    <2>6. ASSUME NEW k \in Subs, NEW r \in RowIds, live[<<k, r>>] > 0
          PROVE  rows'[r] = rows[r]
        BY <2>3, <2>6 DEF MarkInv, Dispatched
    <2>7. \A r \in Stored' : Streaming(r)' /\ Own(r)' =>
            /\ joined /\ ~told => During(sub, r)'
            /\ catchUp[sub].phase = "asked" => During(sub, r)'
            /\ r \in catchUp[sub].rows => During(sub, r)'
            /\ caught[<<sub, r>>] > 0 => During(sub, r)'
        <3> SUFFICES ASSUME NEW r \in Stored', Streaming(r)', Own(r)'
                     PROVE  /\ joined /\ ~told => During(sub, r)'
                            /\ catchUp[sub].phase = "asked" => During(sub, r)'
                            /\ r \in catchUp[sub].rows => During(sub, r)'
                            /\ caught[<<sub, r>>] > 0 => During(sub, r)'
            OBVIOUS
        <3>1. CASE r = n
            <4>1. ~(r \in catchUp[sub].rows) /\ ~(caught[<<sub, r>>] > 0)
                BY <2>5, <3>1
            <4>2. Own(n)' /\ sub' = sub
                BY <2>2, <3>1
            <4>3. catchUp[sub].phase = "asked" \/ (joined /\ ~told)
                    => During(sub, r)'
                BY <2>4, <3>1, <4>2 DEF During
            <4> QED BY <4>1, <4>3
        <3>2. CASE r # n
            <4>1. r \in Stored /\ Streaming(r) /\ Own(r)
                BY <2>3, <3>2
            <4> QED BY <2>2, <2>4, <4>1 DEF OverlapInv, During
        <3> QED BY <3>1, <3>2
    <2>8. \A k \in Subs, r \in RowIds : live[<<k, r>>] > 0 =>
            /\ catchUp[k].phase = "asked"
                => rows'[r].ts <= catchUp[k].since \/ During(k, r)'
            /\ r \in catchUp[k].rows
                => rows'[r].ts <= catchUp[k].since \/ During(k, r)'
            /\ caught[<<k, r>>] > 0 => During(k, r)'
        BY <2>4, <2>6 DEF OverlapInv, During
    <2> QED BY <2>2, <2>7, <2>8 DEF OverlapInv, During
<1>2. CASE Age BY <1>2, <1>u, <1>n DEF Age
<1>3. CASE Drop BY <1>3, <1>u, <1>e DEF Drop
<1>4. CASE JoinOk
    <2>1. UNCHANGED <<rows, sub, live, caught, during>> /\ Stored' = Stored
        BY <1>4 DEF JoinOk, Stored
    <2>2. /\ \A r \in Stored : Streaming(r)' /\ Own(r)' => During(sub, r)
          /\ told'
        BY <1>4, <1>n DEF JoinOk, OverlapInv, Own, Stored
    <2>3. \A j \in Subs : catchUp'[j] = catchUp[j]
            \/ /\ catchUp'[j].since = lastSeen[j] /\ catchUp'[j].rows = {}
        BY <1>4 DEF JoinOk, Typed, TypeOK
    <2>4. \A k \in Subs, r \in RowIds :
            live[<<k, r>>] > 0 => rows[r].ts <= lastSeen[k]
        BY DEF MarkInv, Dispatched
    <2> QED BY <2>1, <2>2, <2>3, <2>4 DEF OverlapInv, During
<1>5. CASE Deliver
    <2>1. PICK h : h = Head(pipe)
        OBVIOUS
    <2>2. /\ h \in Stored /\ Streaming(h)
          /\ \A r : Streaming(r)' => Streaming(r)
          /\ \A k \in Subs, r \in RowIds :
                live'[<<k, r>>] = IF k = sub /\ r = h /\ Own(h)
                              THEN live[<<k, r>>] + 1 ELSE live[<<k, r>>]
        BY <1>5, <2>1, DeliverEffect
    <2>3. /\ UNCHANGED <<rows, sub, caught, catchUp, during, joined, told>>
          /\ Stored' = Stored /\ \A r \in Stored : Own(r)' <=> Own(r)
        BY <1>5 DEF Deliver, Stored, Own
    <2>4. \A r \in Stored : Streaming(r)' /\ Own(r) =>
            /\ joined /\ ~told => During(sub, r)
            /\ catchUp[sub].phase = "asked" => During(sub, r)
            /\ r \in catchUp[sub].rows => During(sub, r)
            /\ caught[<<sub, r>>] > 0 => During(sub, r)
        BY <2>2 DEF OverlapInv
    <2>5. ASSUME NEW k \in Subs, NEW r \in RowIds, live'[<<k, r>>] > 0
          PROVE
            /\ catchUp[k].phase = "asked"
                => rows[r].ts <= catchUp[k].since \/ During(k, r)
            /\ r \in catchUp[k].rows
                => rows[r].ts <= catchUp[k].since \/ During(k, r)
            /\ caught[<<k, r>>] > 0 => During(k, r)
        <3>1. CASE k = sub /\ r = h /\ Own(h)
            BY <2>2, <3>1 DEF OverlapInv
        <3>2. CASE ~(k = sub /\ r = h /\ Own(h))
            BY <2>2, <2>5, <3>2 DEF OverlapInv
        <3> QED BY <3>1, <3>2
    <2> QED BY <2>3, <2>4, <2>5 DEF OverlapInv, During
<1>6. ASSUME NEW k \in Subs, CatchUpAnswered(k) PROVE OverlapInv'
    <2>1. /\ UNCHANGED <<rows, sub, live, caught, during, pipe, joined, told>>
          /\ Stored' = Stored /\ \A r \in Stored : Own(r)' <=> Own(r)
        BY <1>6 DEF CatchUpAnswered, Stored, Own
    <2>2. \A j \in Subs : catchUp'[j] = catchUp[j]
            \/ /\ catchUp'[j].since = catchUp[j].since
               /\ catchUp[j].phase = "asked"
               /\ catchUp'[j].phase = "answered"
        BY <1>6 DEF CatchUpAnswered, Typed, TypeOK
    <2>3. \A r : Streaming(r)' <=> Streaming(r)
        BY <2>1 DEF Streaming
    <2> QED BY <2>1, <2>2, <2>3, Subsets DEF OverlapInv, During
<1>7. ASSUME NEW k \in Subs, CatchUpFails(k) PROVE OverlapInv'
    <2>1. \A j \in Subs : catchUp'[j] \in {catchUp[j], Idle}
        BY <1>7 DEF CatchUpFails, Typed, TypeOK
    <2> QED BY <1>7, <1>u, <1>n, <2>1 DEF CatchUpFails
<1>8. ASSUME NEW k \in Subs, CatchUpDone(k) PROVE OverlapInv'
    <2>1. /\ UNCHANGED <<rows, live, sub, during, pipe, joined, told>>
          /\ Stored' = Stored /\ \A r \in Stored : Own(r)' <=> Own(r)
        BY <1>8 DEF CatchUpDone, Stored, Own
    <2>2. /\ \A j \in Subs, r \in RowIds :
                caught'[<<j, r>>] = IF j = k /\ r \in Fresh(k)
                                THEN caught[<<j, r>>] + 1 ELSE caught[<<j, r>>]
          /\ \A j \in Subs : catchUp'[j] = IF j = k THEN Idle ELSE catchUp[j]
        BY <1>8, DoneEffect
    <2>3. \A r : Streaming(r)' <=> Streaming(r)
        BY <2>1 DEF Streaming
    <2>4. \A r \in Fresh(k) : r \in catchUp[k].rows /\ r \in Stored
            /\ ~(rows[r].ts <= catchUp[k].since)
        BY <1>t, Subsets DEF Fresh
    <2>5. ASSUME NEW j \in Subs, NEW r \in RowIds, caught'[<<j, r>>] > 0,
                 \/ live[<<j, r>>] > 0
                 \/ j = sub /\ r \in Stored /\ Streaming(r) /\ Own(r)
          PROVE  During(j, r)
        <3>1. CASE j = k /\ r \in Fresh(k)
            BY <2>4, <2>5, <3>1 DEF OverlapInv
        <3>2. CASE ~(j = k /\ r \in Fresh(k))
            BY <2>2, <2>5, <3>2 DEF OverlapInv
        <3> QED BY <3>1, <3>2
    <2>6. \A j \in Subs : catchUp'[j].phase # "idle"
            \/ catchUp'[j].rows # {} => catchUp'[j] = catchUp[j]
        BY <2>2 DEF Idle
    <2>7. \A r \in Stored : Streaming(r) /\ Own(r) =>
            /\ catchUp'[sub].phase = "asked" => During(sub, r)
            /\ r \in catchUp'[sub].rows => During(sub, r)
            /\ caught'[<<sub, r>>] > 0 => During(sub, r)
        BY <1>t, <2>5, <2>6, Subsets DEF OverlapInv
    <2>8. \A j \in Subs, r \in RowIds : live[<<j, r>>] > 0 =>
            /\ catchUp'[j].phase = "asked"
                => rows[r].ts <= catchUp'[j].since \/ During(j, r)
            /\ r \in catchUp'[j].rows
                => rows[r].ts <= catchUp'[j].since \/ During(j, r)
            /\ caught'[<<j, r>>] > 0 => During(j, r)
        BY <2>5, <2>6 DEF OverlapInv
    <2> QED BY <2>1, <2>3, <2>7, <2>8 DEF OverlapInv, During
<1>9. CASE Evict
    BY <1>9, <1>u, <1>e DEF Evict, ChannelInv
<1>10. CASE Crash
    BY <1>10, <1>u, <1>e DEF Crash
<1>11. CASE Register
    <2>1. UNCHANGED <<rows, live, caught, catchUp, during>> /\ Stored' = Stored
        BY <1>11 DEF Register, Stored
    <2>2. \A r : ~Streaming(r)'
        BY <1>11, <1>e DEF Register, ChannelInv
    <2> QED BY <2>1, <2>2 DEF OverlapInv, During
<1>13. CASE Accept
    BY <1>13, <1>u, <1>e DEF Accept, ChannelInv
<1>12. CASE UNCHANGED vars BY <1>12, <1>u, <1>n DEF vars
<1> QED
    BY <1>1, <1>2, <1>3, <1>4, <1>5, <1>6, <1>7, <1>8, <1>9, <1>10, <1>11,
       <1>12, <1>13 DEF Next

DispatchInv ==
    Typed /\ ChannelInv /\ LiveInv /\ UnusedInv /\ MarkInv /\ OverlapInv

LEMMA DispatchCorrect == Spec => []DispatchInv
<1>1. Init => DispatchInv
    <2> SUFFICES ASSUME Init PROVE DispatchInv
        OBVIOUS
    <2>1. Typed /\ Stored = {} /\ \A r : ~Streaming(r)
        BY TypedInit DEF Init, Stored, Streaming, Contains
    <2>2. \A k \in Subs : /\ lastSeen[k] = 0 /\ catchUp[k] = Idle
                          /\ \A r \in RowIds : live[<<k, r>>] = 0
                                                /\ caught[<<k, r>>] = 0
        BY DEF Init
    <2>3. ChannelInv
        BY DEF Init, ChannelInv, Sorted
    <2>4. LiveInv /\ UnusedInv
        BY <2>2 DEF LiveInv, UnusedInv, Idle
    <2>5. MarkInv /\ OverlapInv
        BY <2>1, <2>2 DEF MarkInv, OverlapInv, Dispatched, Idle, InFlight
    <2> QED BY <2>1, <2>3, <2>4, <2>5 DEF DispatchInv
<1>2. DispatchInv /\ [Next]_vars => DispatchInv'
    BY TypeInductive, ChannelInductive, LiveInductive, UnusedInductive,
       MarkInductive, OverlapInductive DEF DispatchInv
<1> QED BY <1>1, <1>2, PTL DEF Spec

\* The stream dispatches a row at most once, and so do the catch-ups of its
\* subscription together.
THEOREM OncePerPathCorrect == Spec => []OncePerPath
<1>1. DispatchInv => OncePerPath
    BY DEF DispatchInv, LiveInv, MarkInv, OncePerPath
<1> QED BY <1>1, DispatchCorrect, PTL

\* Both dispatch it only if it was inserted while the reply to the join, from
\* the server's accept on, or the answer of a catch-up was awaited.
THEOREM DuplicateOnlyInOverlapCorrect == Spec => []DuplicateOnlyInOverlap
<1>1. DispatchInv => DuplicateOnlyInOverlap
    BY DEF DispatchInv, OverlapInv, During, DuplicateOnlyInOverlap
<1> QED BY <1>1, DispatchCorrect, PTL

-----------------------------------------------------------------------------
(* What is missed, and why.                                                *)

\* A message that nothing accounts for.
Loose(r) == Own(r) /\ ~Handled(r) /\ ~Explained(r)

\* It left the history's window or its limit, for good.
Gone(r) == r \notin History

\* An answer leaves out a message before one it has only if it is gone.
AnswerInv ==
    \A k \in Subs : \A q \in catchUp[k].rows, r \in Stored :
        r < q /\ Own(r) /\ r \notin catchUp[k].rows => Gone(r)

\* Such a message is in the stream, will come with the catch-up, or the next
\* one; where it is gone the next one excuses it.
Ahead(r) == rows[r].ts > lastSeen[sub] \/ Gone(r)
OnItsWay(r) ==
    \/ Streaming(r) /\ Ahead(r)
    \/ ~Streaming(r) /\ catchUp[sub].phase = "asked"
        /\ (rows[r].ts > catchUp[sub].since \/ Gone(r))
    \/ ~Streaming(r) /\ r \in catchUp[sub].rows
        /\ rows[r].ts > catchUp[sub].since
    \/ ~Streaming(r) /\ ~told /\ (~active \/ Ahead(r))
LooseInv == \A r \in Stored : Loose(r) => OnItsWay(r)

LEMMA SizeOf ==
    ASSUME TypeOK, NEW S \in SUBSET Stored, NEW T \in SUBSET S
    PROVE  /\ Cardinality(S) \in Nat /\ Cardinality(T) \in Nat
           /\ Cardinality(T) <= Cardinality(S)
<1>1. IsFiniteSet(Stored)
    BY Rows, FS_Interval DEF Stored
<1>2. IsFiniteSet(S)
    BY <1>1, FS_Subset
<1> QED BY <1>2, FS_Subset, FS_CardinalityType

\* A message that is gone stays so.
LEMMA GoneStays ==
    ASSUME Typed, [Next]_vars, NEW r \in Stored, Gone(r)
    PROVE  Gone(r)'
<1> USE DEF Channel!Join, Channel!Tell, Channel!Drop, Channel!End,
           Channel!Begin
<1>u. ASSUME UNCHANGED <<rows, old>> PROVE Gone(r)'
    BY <1>u DEF Gone, History, Recent
<1>1. ASSUME NEW kind \in Kinds, Insert(kind) PROVE Gone(r)'
    <2>1. PICK n : n = Len(rows) + 1
        OBVIOUS
    <2>2. /\ Stored' = Stored \cup {n} /\ n \notin Stored
          /\ \A q \in Stored : rows'[q] = rows[q]
        BY <1>1, <2>1, InsertEffect
    <2>3. old' = old /\ old \in Nat
        BY <1>1, Rows DEF Insert, Typed, TypeOK
    <2>m. PICK m \in Nat : m = Len(rows) /\ Len(rows') = m + 1
        BY <1>1, Rows, Inserted DEF Typed
    <2>a. /\ Recent  = {q \in (old + 1)..m : rows[q].kind # "assistant"}
          /\ Recent' = {q \in (old + 1)..(m + 1) :
                            rows'[q].kind # "assistant"}
          /\ Stored = 1..m /\ Stored' = 1..(m + 1)
        BY <2>3, <2>m DEF Recent, Stored
    <2>4. \A q \in Recent : q \in Stored /\ q \in Recent'
        BY <2>2, <2>3, <2>a
    <2>5. r \in Recent' => r \in Recent
        BY <2>2, <2>3, <2>a
    <2>6. Recent' \subseteq Stored'
        BY <2>3, <2>a
    <2> DEFINE T == {q \in Recent : q > r}
               S == {q \in Recent' : q > r}
    <2>7. T \subseteq S /\ S \subseteq Stored'
        BY <2>4, <2>6
    <2>8. Cardinality(S) \in Nat /\ Cardinality(T) <= Cardinality(S)
          /\ Cardinality(T) \in Nat
        <3>1. IsFiniteSet(Stored')
            BY <2>a, FS_Interval
        <3> HIDE DEF S, T
        <3> QED BY <2>7, <3>1, FS_Subset, FS_CardinalityType
    <2>9. r \in Recent => ~(Cardinality(T) < Limit)
        BY DEF Gone, History
    <2>10. r \in Recent' => ~(Cardinality(S) < Limit)
        <3> HIDE DEF S, T
        <3> QED BY <2>5, <2>8, <2>9, LimitAssumption
    <2> QED BY <2>10 DEF Gone, History
<1>2. CASE Age
    <2>1. rows' = rows /\ old' = old + 1 /\ old \in Nat /\ Len(rows) \in Nat
        BY <1>2, Rows DEF Age, Typed, TypeOK
    <2>2. r \in Recent' => /\ r \in Recent
                           /\ {q \in Recent' : q > r} = {q \in Recent : q > r}
        BY <2>1 DEF Recent
    <2> QED BY <2>2 DEF Gone, History
<1>3. CASE Drop BY <1>3, <1>u DEF Drop
<1>4. CASE JoinOk BY <1>4, <1>u DEF JoinOk
<1>5. CASE Deliver BY <1>5, <1>u DEF Deliver
<1>6. ASSUME NEW k \in Subs, CatchUpAnswered(k) PROVE Gone(r)'
    BY <1>6, <1>u DEF CatchUpAnswered
<1>7. ASSUME NEW k \in Subs, CatchUpFails(k) PROVE Gone(r)'
    BY <1>7, <1>u DEF CatchUpFails
<1>8. ASSUME NEW k \in Subs, CatchUpDone(k) PROVE Gone(r)'
    BY <1>8, <1>u DEF CatchUpDone
<1>9. CASE Evict BY <1>9, <1>u DEF Evict
<1>10. CASE Crash BY <1>10, <1>u DEF Crash
<1>11. CASE Register BY <1>11, <1>u DEF Register
<1>13. CASE Accept BY <1>13, <1>u DEF Accept
<1>12. CASE UNCHANGED vars BY <1>12, <1>u DEF vars
<1> QED
    BY <1>1, <1>2, <1>3, <1>4, <1>5, <1>6, <1>7, <1>8, <1>9, <1>10, <1>11,
       <1>12, <1>13 DEF Next

LEMMA AnswerInductive == Typed /\ AnswerInv /\ [Next]_vars => AnswerInv'
<1> SUFFICES ASSUME Typed, AnswerInv, [Next]_vars PROVE AnswerInv'
    OBVIOUS
<1> USE DEF Channel!Join, Channel!Tell, Channel!Drop, Channel!End,
           Channel!Begin
<1>g. \A r \in Stored : Gone(r) => Gone(r)'
    BY GoneStays
<1>t. Stored \subseteq Nat
    BY Rows DEF Typed
<1>u. ASSUME UNCHANGED rows,
             \A j \in Subs : \/ catchUp'[j].rows = catchUp[j].rows
                             \/ catchUp'[j].rows = {}
      PROVE  AnswerInv'
    BY <1>u, <1>g DEF AnswerInv, Stored, Own
<1>1. ASSUME NEW kind \in Kinds, Insert(kind) PROVE AnswerInv'
    <2>1. PICK n : n = Len(rows) + 1
        OBVIOUS
    <2>2. /\ n \in Nat /\ Stored' = Stored \cup {n} /\ n \notin Stored
          /\ \A r \in Stored : r < n
          /\ \A q \in Stored : Own(q)' <=> Own(q)
        BY <1>1, <2>1, InsertEffect
    <2>3. UNCHANGED catchUp
        BY <1>1 DEF Insert
    <2> SUFFICES ASSUME NEW k \in Subs, NEW q \in catchUp[k].rows,
                        NEW r \in Stored', r < q, Own(r)',
                        r \notin catchUp[k].rows
                 PROVE  Gone(r)'
        BY <2>3 DEF AnswerInv
    <2>4. q \in Stored /\ q \in Nat
        BY <1>t, Subsets
    <2>5. r \in Stored
        BY <2>2, <2>4
    <2> QED BY <1>g, <2>2, <2>5 DEF AnswerInv
<1>2. CASE Age BY <1>2, <1>u DEF Age
<1>3. CASE Drop BY <1>3, <1>u DEF Drop
<1>4. CASE JoinOk
    <2>1. \A j \in Subs : \/ catchUp'[j].rows = catchUp[j].rows
                          \/ catchUp'[j].rows = {}
        <3>1. \A j \in Subs : catchUp'[j] = catchUp[j]
                \/ /\ catchUp'[j].since = lastSeen[j]
                   /\ catchUp'[j].rows = {}
            BY <1>4 DEF JoinOk, Typed, TypeOK
        <3> QED BY <3>1
    <2> QED BY <1>4, <1>u, <2>1 DEF JoinOk
<1>5. CASE Deliver BY <1>5, <1>u DEF Deliver
<1>6. ASSUME NEW k \in Subs, CatchUpAnswered(k) PROVE AnswerInv'
    <2>1. UNCHANGED <<rows, old>> /\ Stored' = Stored
        BY <1>6 DEF CatchUpAnswered, Stored
    <2>2. \A j \in Subs : catchUp'[j].rows \in {catchUp[j].rows, History}
        BY <1>6 DEF CatchUpAnswered, Typed, TypeOK
    <2>3. \A r \in Stored : Own(r)' <=> Own(r)
        BY <2>1 DEF Own
    <2>4. \A r : r \notin History => Gone(r)'
        BY <2>1 DEF Gone, History, Recent
    <2> SUFFICES ASSUME NEW j \in Subs, NEW q \in catchUp'[j].rows,
                        NEW r \in Stored, r < q, Own(r),
                        r \notin catchUp'[j].rows
                 PROVE  Gone(r)'
        BY <2>1, <2>3 DEF AnswerInv
    <2>5. CASE catchUp'[j].rows = History
        BY <2>4, <2>5
    <2>6. CASE catchUp'[j].rows = catchUp[j].rows
        BY <1>g, <2>6 DEF AnswerInv
    <2> QED BY <2>2, <2>5, <2>6
<1>7. ASSUME NEW k \in Subs, CatchUpFails(k) PROVE AnswerInv'
    <2>1. \A j \in Subs : catchUp'[j] \in {catchUp[j], Idle}
        BY <1>7 DEF CatchUpFails, Typed, TypeOK
    <2>2. \A j \in Subs : \/ catchUp'[j].rows = catchUp[j].rows
                          \/ catchUp'[j].rows = {}
        BY <2>1 DEF Idle
    <2> QED BY <1>7, <1>u, <2>2 DEF CatchUpFails
<1>8. ASSUME NEW k \in Subs, CatchUpDone(k) PROVE AnswerInv'
    <2>1. \A j \in Subs : catchUp'[j] \in {catchUp[j], Idle}
        BY <1>8, DoneEffect
    <2>2. \A j \in Subs : \/ catchUp'[j].rows = catchUp[j].rows
                          \/ catchUp'[j].rows = {}
        BY <2>1 DEF Idle
    <2> QED BY <1>8, <1>u, <2>2 DEF CatchUpDone
<1>9. CASE Evict BY <1>9, <1>u DEF Evict
<1>10. CASE Crash
    <2>1. \A j \in Subs : catchUp'[j].rows = {}
        BY <1>10 DEF Crash, Idle
    <2> QED BY <1>10, <1>u, <2>1 DEF Crash
<1>11. CASE Register BY <1>11, <1>u DEF Register
<1>13. CASE Accept BY <1>13, <1>u DEF Accept
<1>12. CASE UNCHANGED vars BY <1>12, <1>u DEF vars
<1> QED
    BY <1>1, <1>2, <1>3, <1>4, <1>5, <1>6, <1>7, <1>8, <1>9, <1>10, <1>11,
       <1>12, <1>13 DEF Next

\* Without a tie, earlier rows are older.
LEMMA Untied ==
    ASSUME Typed, NEW r \in Stored, NEW q \in Stored, Loose(r), q < r
    PROVE  rows[q].ts < rows[r].ts
<1>1. rows[q].ts # rows[r].ts
    BY Rows DEF Typed, Loose, Explained, Tied
<1> QED BY <1>1, Rows DEF Typed, OrderInv

\* A message that a step leaves loose was loose.
LEMMA WasLoose ==
    ASSUME NEW r \in Stored, Loose(r)',
           Stored \subseteq Stored', \A q \in Stored : rows'[q] = rows[q],
           Handled(r) => Handled(r)', excused \subseteq excused'
    PROVE  Loose(r)
BY DEF Loose, Own, Explained, Tied

LEMMA IsMissing ==
    ASSUME NEW r \in Stored, Loose(r), ~Streaming(r)
    PROVE  r \in Missing
BY DEF Missing, Loose, Streaming

LEMMA LooseInductive ==
    ASSUME DispatchInv, AnswerInv, LooseInv, [Next]_vars
    PROVE  LooseInv'
<1> USE DEF Channel!Join, Channel!Tell, Channel!Drop, Channel!End,
           Channel!Begin
<1>d. Typed /\ ChannelInv /\ LiveInv /\ UnusedInv /\ MarkInv
    BY DEF DispatchInv
<1>t. /\ Stored \subseteq RowIds /\ sub \in Subs
      /\ \A r \in Stored : rows[r].ts \in Nat /\ rows[r].ts >= 1 /\ r \in Nat
      /\ \A k \in Subs : lastSeen[k] \in Nat /\ catchUp[k].since \in Nat
      /\ active \in BOOLEAN /\ joined \in BOOLEAN /\ told \in BOOLEAN
    BY <1>d, Rows, Subsets DEF Typed, TypeOK, OrderInv
<1>g. \A r \in Stored : Gone(r) => Gone(r)'
    BY <1>d, GoneStays
\* Steps that leave the table and the dispatches alone.
<1>w. ASSUME UNCHANGED <<rows, live, caught>>, excused \subseteq excused',
             NEW r \in Stored, Loose(r)'
      PROVE  Loose(r) /\ OnItsWay(r)
    <2>1. Handled(r)' <=> Handled(r)
        BY <1>w DEF Handled
    <2>2. Loose(r)
        BY <1>w, <2>1, WasLoose DEF Stored
    <2> QED BY <2>2 DEF LooseInv
<1>u. ASSUME UNCHANGED <<rows, live, caught, excused, lastSeen, sub, active>>,
             UNCHANGED <<joined, told, pipe, catchUp>>
      PROVE  LooseInv'
    <2> SUFFICES ASSUME NEW r \in Stored, Loose(r)' PROVE OnItsWay(r)'
        BY <1>u DEF LooseInv, Stored
    <2>1. OnItsWay(r) /\ (Gone(r) => Gone(r)')
        BY <1>u, <1>w, <1>g
    <2> QED BY <1>u, <2>1 DEF OnItsWay, Ahead, Streaming
<1>1. ASSUME NEW kind \in Kinds, Insert(kind) PROVE LooseInv'
    <2>1. PICK n : n = Len(rows) + 1
        OBVIOUS
    <2>2. /\ n \in Nat /\ Stored' = Stored \cup {n} /\ n \notin Stored
          /\ \A r \in Stored : rows'[r] = rows[r]
          /\ rows'[n].ts \in Nat /\ rows'[n].ts >= 1
          /\ \A r \in Stored : rows[r].ts <= rows'[n].ts
          /\ \A r : Streaming(r)' => Streaming(r) \/ r = n
          /\ \A r : Streaming(r) => Streaming(r)'
          /\ joined => Streaming(n)'
          /\ ~joined => pipe' = pipe
        BY <1>1, <1>d, <2>1, InsertEffect
    <2>3. UNCHANGED <<live, caught, excused, lastSeen, sub, active, joined,
                      told, catchUp>>
        BY <1>1 DEF Insert
    <2>4. ASSUME NEW r \in Stored, Loose(r)' PROVE OnItsWay(r)'
        <3>1. Handled(r) => Handled(r)'
            BY <2>3 DEF Handled
        <3>2. Loose(r)
            BY <2>2, <2>3, <2>4, <3>1, WasLoose
        <3>3. OnItsWay(r) /\ (Gone(r) => Gone(r)')
            BY <1>g, <3>2 DEF LooseInv
        <3>4. (Streaming(r)' <=> Streaming(r)) /\ rows'[r] = rows[r]
            BY <2>2
        <3> QED BY <2>3, <3>3, <3>4 DEF OnItsWay, Ahead
    <2>5. ASSUME Loose(n)' PROVE OnItsWay(n)'
        <3>1. rows'[n].ts > lastSeen[sub]
            <4>1. CASE lastSeen[sub] > 0
                <5>1. PICK r \in Stored : rows[r].ts = lastSeen[sub]
                    BY <1>d, <1>t, <4>1 DEF MarkInv
                <5>2. rows'[r].ts # rows'[n].ts
                    BY <2>2, <2>5 DEF Loose, Explained, Tied
                <5> QED BY <1>t, <2>2, <5>1, <5>2
            <4> QED BY <1>t, <2>2, <4>1
        <3>2. CASE joined
            BY <2>2, <2>3, <3>1, <3>2 DEF OnItsWay, Ahead
        <3>3. CASE ~joined
            <4>1. ~Streaming(n)'
                BY <1>d, <2>2, <3>3 DEF ChannelInv, Streaming, Contains
            <4>2. ~told
                BY <1>d, <3>3 DEF ChannelInv
            <4> QED BY <2>3, <3>1, <4>1, <4>2 DEF OnItsWay, Ahead
        <3> QED BY <3>2, <3>3
    <2> QED BY <2>2, <2>4, <2>5 DEF LooseInv
<1>2. CASE Age
    <2> SUFFICES ASSUME NEW r \in Stored, Loose(r)' PROVE OnItsWay(r)'
        BY <1>2 DEF Age, LooseInv, Stored
    <2>1. OnItsWay(r) /\ (Gone(r) => Gone(r)')
        BY <1>2, <1>w, <1>g DEF Age
    <2> QED BY <1>2, <2>1 DEF Age, OnItsWay, Ahead, Streaming
<1>3. CASE Drop
    <2> SUFFICES ASSUME NEW r \in Stored, Loose(r)' PROVE OnItsWay(r)'
        BY <1>3 DEF Drop, LooseInv, Stored
    <2>1. OnItsWay(r) /\ (Gone(r) => Gone(r)')
        BY <1>3, <1>w, <1>g DEF Drop
    <2>2. ~Streaming(r)'
        BY <1>3 DEF Drop, Streaming, Contains
    <2> QED BY <1>3, <2>1, <2>2 DEF Drop, OnItsWay, Ahead
<1>4. CASE JoinOk
    <2> SUFFICES ASSUME NEW r \in Stored, Loose(r)' PROVE OnItsWay(r)'
        BY <1>4 DEF JoinOk, LooseInv, Stored
    <2>1. Loose(r) /\ OnItsWay(r) /\ (Gone(r) => Gone(r)')
        BY <1>4, <1>w, <1>g DEF JoinOk
    <2>2. (Streaming(r)' <=> Streaming(r)) /\ active /\ ~told
        BY <1>4, <1>d, <1>t DEF JoinOk, ChannelInv, Streaming
    <2>s. CASE Streaming(r)
        BY <1>4, <2>1, <2>2, <2>s DEF JoinOk, OnItsWay, Ahead
    <2>n. CASE ~Streaming(r) /\ catchUp[sub].phase = "idle"
        <3>1. Ahead(r)
            BY <1>d, <1>t, <2>1, <2>2, <2>n DEF OnItsWay, MarkInv
        <3>2. /\ catchUp'[sub].phase = "asked"
              /\ catchUp'[sub].since = lastSeen[sub]
            BY <1>4, <1>d, <2>n DEF JoinOk, Typed, TypeOK
        <3> QED BY <1>4, <2>1, <2>2, <2>n, <3>1, <3>2
                DEF JoinOk, OnItsWay, Ahead
    <2>b. CASE ~Streaming(r) /\ catchUp[sub].phase # "idle"
        <3>1. r \in excused'
            BY <1>4, <2>1, <2>b, IsMissing DEF JoinOk
        <3> QED BY <3>1 DEF Loose, Explained
    <2> QED BY <2>s, <2>n, <2>b
<1>5. CASE Deliver
    <2>1. PICK h : h = Head(pipe)
        OBVIOUS
    <2>2. /\ h \in Stored /\ Streaming(h)
          /\ \A r : Streaming(r)' => Streaming(r) /\ h < r
          /\ \A r : Streaming(r) => r = h \/ Streaming(r)'
          /\ \A k \in Subs, x \in RowIds :
                live'[<<k, x>>] = IF k = sub /\ x = h /\ Own(h)
                              THEN live[<<k, x>>] + 1 ELSE live[<<k, x>>]
          /\ lastSeen'[sub] = lastSeen[sub] \/ lastSeen'[sub] = rows[h].ts
        BY <1>5, <1>d, <1>t, <2>1, DeliverEffect DEF ChannelInv
    <2>3. UNCHANGED <<rows, sub, caught, catchUp, excused, told, active>>
          /\ Stored' = Stored
        BY <1>5 DEF Deliver, Stored
    <2>4. told
        BY <1>5 DEF Deliver
    <2> SUFFICES ASSUME NEW r \in Stored, Loose(r)' PROVE OnItsWay(r)'
        BY <2>3 DEF LooseInv
    <2>5. Handled(r) => Handled(r)'
        BY <1>d, <1>t, <2>2, <2>3, Subsets DEF Handled
    <2>6. Loose(r)
        BY <2>3, <2>5, WasLoose
    <2>7. r # h
        <3>1. ASSUME r = h, Own(h) PROVE live'[<<sub, h>>] > 0
            BY <1>d, <1>t, <2>2, <3>1, Subsets
        <3> QED BY <1>t, <2>3, <2>6, <3>1 DEF Loose, Handled
    <2>8. /\ OnItsWay(r) /\ (Gone(r) => Gone(r)')
          /\ Streaming(r)' <=> Streaming(r)
        BY <1>g, <2>2, <2>6, <2>7 DEF LooseInv
    <2>9. CASE Streaming(r)
        <3>1. rows[h].ts < rows[r].ts
            BY <1>d, <2>2, <2>6, <2>8, <2>9, Untied
        <3> QED BY <2>2, <2>3, <2>8, <2>9, <3>1 DEF OnItsWay, Ahead
    <2>10. CASE ~Streaming(r)
        BY <2>3, <2>4, <2>8, <2>10 DEF OnItsWay
    <2> QED BY <2>9, <2>10
<1>6. ASSUME NEW k \in Subs, CatchUpAnswered(k) PROVE LooseInv'
    <2>1. UNCHANGED <<rows, lastSeen, live, caught, sub, active, told, pipe>>
          /\ Stored' = Stored /\ excused' = excused \cup (Missing \ History)
        BY <1>6 DEF CatchUpAnswered, Stored
    <2> SUFFICES ASSUME NEW r \in Stored, Loose(r)' PROVE OnItsWay(r)'
        BY <2>1 DEF LooseInv
    <2>2. Loose(r) /\ OnItsWay(r) /\ (Gone(r) => Gone(r)')
        BY <1>w, <1>g, <2>1
    <2>3. Streaming(r)' <=> Streaming(r)
        BY <2>1 DEF Streaming
    <2>4. CASE k = sub
        <3>1. /\ catchUp[sub].phase = "asked" /\ catchUp[sub].rows = {}
              /\ catchUp'[sub].rows = History
              /\ catchUp'[sub].since = catchUp[sub].since
            BY <1>6, <1>d, <2>4 DEF CatchUpAnswered, Typed, TypeOK, MarkInv
        <3>2. ~Streaming(r) => ~Gone(r)
            BY <2>1, <2>2, IsMissing DEF Loose, Explained, Gone
        <3> QED BY <2>1, <2>2, <2>3, <3>1, <3>2 DEF OnItsWay, Ahead, Gone
    <2>5. CASE k # sub
        <3>1. catchUp'[sub] = catchUp[sub]
            BY <1>6, <1>d, <1>t, <2>5 DEF CatchUpAnswered, Typed, TypeOK
        <3> QED BY <2>1, <2>2, <2>3, <3>1 DEF OnItsWay, Ahead
    <2> QED BY <2>4, <2>5
<1>7. ASSUME NEW k \in Subs, CatchUpFails(k) PROVE LooseInv'
    <2>1. UNCHANGED <<rows, lastSeen, live, caught, sub, active, told, pipe>>
          /\ Stored' = Stored /\ excused' = excused \cup Missing
        BY <1>7 DEF CatchUpFails, Stored
    <2> SUFFICES ASSUME NEW r \in Stored, Loose(r)' PROVE OnItsWay(r)'
        BY <2>1 DEF LooseInv
    <2>2. Loose(r) /\ OnItsWay(r) /\ (Gone(r) => Gone(r)')
        BY <1>w, <1>g, <2>1
    <2>3. Streaming(r)
        BY <2>1, <2>2, IsMissing DEF Loose, Explained
    <2>4. Streaming(r)'
        BY <2>1, <2>3 DEF Streaming
    <2> QED BY <2>1, <2>2, <2>3, <2>4 DEF OnItsWay, Ahead
<1>8. ASSUME NEW k \in Subs, CatchUpDone(k) PROVE LooseInv'
    <2>1. UNCHANGED <<rows, live, sub, active, told, pipe, excused>>
          /\ Stored' = Stored /\ catchUp[k].phase = "answered"
        BY <1>8 DEF CatchUpDone, Stored
    <2>2. /\ Fresh(k) \subseteq Stored
          /\ \A j \in Subs, x \in RowIds :
                caught'[<<j, x>>] = IF j = k /\ x \in Fresh(k)
                                THEN caught[<<j, x>>] + 1 ELSE caught[<<j, x>>]
          /\ \A j \in Subs : catchUp'[j] = IF j = k THEN Idle ELSE catchUp[j]
          /\ \A j \in Subs : lastSeen'[j] = lastSeen[j]
                \/ (j = k /\ \E x \in Fresh(k) : lastSeen'[j] = rows[x].ts)
        BY <1>8, <1>d, DoneEffect
    <2> SUFFICES ASSUME NEW r \in Stored, Loose(r)' PROVE OnItsWay(r)'
        BY <2>1 DEF LooseInv
    <2>3. Handled(r) => Handled(r)'
        BY <1>d, <1>t, <2>1, <2>2, Subsets DEF Handled
    <2>4. Loose(r)
        BY <2>1, <2>3, WasLoose
    <2>5. /\ OnItsWay(r) /\ (Gone(r) => Gone(r)')
          /\ Streaming(r)' <=> Streaming(r)
        BY <1>g, <2>1, <2>4 DEF LooseInv, Streaming
    <2>6. r \notin Fresh(k)
        <3>1. r \in Fresh(k) => caught'[<<k, r>>] > 0
            BY <1>d, <1>t, <2>2, Subsets
        <3> QED BY <1>t, <2>1, <3>1 DEF Loose, Handled
    <2>7. CASE k # sub
        <3>1. catchUp'[sub] = catchUp[sub] /\ lastSeen'[sub] = lastSeen[sub]
            BY <1>t, <2>2, <2>7
        <3> QED BY <2>1, <2>5, <3>1 DEF OnItsWay, Ahead
    <2>8. CASE k = sub
        <3>1. ~(r \in catchUp[sub].rows /\ rows[r].ts > catchUp[sub].since)
            BY <2>4, <2>6, <2>8 DEF Fresh, Loose
        <3>2. Ahead(r) => Ahead(r)'
            <4> SUFFICES ASSUME rows[r].ts > lastSeen[sub], ~Gone(r)
                         PROVE  rows[r].ts > lastSeen'[sub]
                BY <2>1, <2>5 DEF Ahead
            <4>1. rows[r].ts > catchUp[sub].since
                BY <1>d, <1>t, <2>1, <2>8 DEF MarkInv, InFlight
            <4>2. r \notin catchUp[sub].rows
                BY <3>1, <4>1
            <4>3. ASSUME NEW q \in Fresh(k) PROVE rows[q].ts < rows[r].ts
                <5>1. q \in catchUp[sub].rows /\ q \in Stored
                    BY <2>2, <2>8 DEF Fresh
                <5>2. ~(r < q)
                    BY <1>t, <2>4, <4>2, <5>1 DEF AnswerInv, Loose
                <5>3. q < r
                    BY <1>t, <4>2, <5>1, <5>2
                <5> QED BY <1>d, <2>4, <5>1, <5>3, Untied
            <4> QED BY <1>t, <2>2, <4>3
        <3>3. ~(catchUp[sub].phase = "asked")
            BY <2>1, <2>8
        <3>4. CASE Streaming(r)
            BY <2>5, <3>2, <3>4 DEF OnItsWay
        <3>5. CASE ~Streaming(r)
            BY <2>1, <2>5, <3>1, <3>2, <3>3, <3>5 DEF OnItsWay
        <3> QED BY <3>4, <3>5
    <2> QED BY <2>7, <2>8
<1>9. CASE Evict
    <2> SUFFICES ASSUME NEW r \in Stored PROVE OnItsWay(r)'
        BY <1>9 DEF Evict, LooseInv, Stored
    <2>1. ~Streaming(r)'
        BY <1>9, <1>d DEF Evict, ChannelInv, Streaming, Contains
    <2> QED BY <1>9, <2>1 DEF Evict, OnItsWay
<1>10. CASE Crash
    <2> SUFFICES ASSUME NEW r \in Stored PROVE OnItsWay(r)'
        BY <1>10 DEF Crash, LooseInv, Stored
    <2>1. ~Streaming(r)'
        BY <1>10 DEF Crash, Streaming, Contains
    <2> QED BY <1>10, <2>1 DEF Crash, OnItsWay
<1>11. CASE Register
    <2> SUFFICES ASSUME NEW r \in Stored PROVE OnItsWay(r)'
        BY <1>11 DEF Register, LooseInv, Stored
    <2>1. ~Streaming(r)' /\ ~told'
        BY <1>11, <1>d DEF Register, ChannelInv, Streaming, Contains
    <2>2. lastSeen'[sub'] = 0 /\ rows' = rows
        <3>1. sub \in Nat /\ sub' = sub + 1 /\ sub' \in Subs
            BY <1>11, <1>t, BoundsAssumption DEF Register, Subs
        <3> QED BY <1>11, <1>d, <3>1 DEF Register, UnusedInv
    <2>3. Ahead(r)'
        BY <1>t, <2>2 DEF Ahead
    <2> QED BY <2>1, <2>3 DEF OnItsWay
<1>13. CASE Accept
    <2> SUFFICES ASSUME NEW r \in Stored, Loose(r)' PROVE OnItsWay(r)'
        BY <1>13 DEF Accept, LooseInv, Stored
    <2>1. OnItsWay(r) /\ (Gone(r) => Gone(r)')
        BY <1>13, <1>w, <1>g DEF Accept
    <2> QED BY <1>13, <2>1 DEF Accept, OnItsWay, Ahead, Streaming
<1>12. CASE UNCHANGED vars BY <1>12, <1>u DEF vars
<1> QED
    BY <1>1, <1>2, <1>3, <1>4, <1>5, <1>6, <1>7, <1>8, <1>9, <1>10, <1>11,
       <1>12, <1>13 DEF Next

\* A message is missed only if it shares its millisecond with another row, or a
\* catch-up that was skipped, failed or truncated left it out.
THEOREM NothingElseLostCorrect == Spec => []NothingElseLost
<1>1. Init => AnswerInv /\ LooseInv
    BY DEF Init, AnswerInv, LooseInv, Stored, Idle
<1>2. DispatchInv /\ AnswerInv /\ LooseInv /\ [Next]_vars
        => AnswerInv' /\ LooseInv'
    BY AnswerInductive, LooseInductive DEF DispatchInv
<1>3. ASSUME DispatchInv, LooseInv, Settled PROVE
            \A r \in OwnRows : Handled(r) \/ Explained(r)
    <2> SUFFICES ASSUME NEW r \in Stored, Loose(r) PROVE FALSE
        BY DEF OwnRows, Loose
    <2>1. ~Streaming(r) /\ told
        BY <1>3 DEF Settled, Streaming, Contains
    <2>2. catchUp[sub].phase \notin InFlight /\ sub \in Subs
        BY <1>3 DEF Settled, DispatchInv, Typed, TypeOK
    <2>3. catchUp[sub].rows = {}
        BY <1>3, <2>2 DEF DispatchInv, MarkInv, InFlight
    <2>4. OnItsWay(r)
        BY <1>3 DEF LooseInv
    <2> QED BY <2>1, <2>2, <2>3, <2>4 DEF OnItsWay, InFlight
<1>4. DispatchInv /\ LooseInv => NothingElseLost
    BY <1>3 DEF NothingElseLost
<1> QED BY <1>1, <1>2, <1>4, DispatchCorrect, PTL DEF Spec
=============================================================================
