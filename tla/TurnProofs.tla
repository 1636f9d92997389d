----------------------------- MODULE TurnProofs -----------------------------
(* Theorems about module Turn, for any turns, sessions and bounds.         *)
EXTENDS Turn, TLAPS

\* The constants are what the assumptions say.
LEMMA Constants ==
    /\ MaxEvents \in Nat /\ LostWrites \in BOOLEAN
    /\ IngestTries \in Nat \ {0} /\ NoticeTries \in Nat \ {0}
    /\ \A t \in Turns : SessionOf[t] \in Sessions
BY SessionAssumption, TriesAssumption, BoundsAssumption DEF Sessions

-----------------------------------------------------------------------------
(* Types.                                                                  *)

LEMMA TypeInit == Init => TypeOK
BY Constants DEF Init, TypeOK, Steps

LEMMA TypeInductive == TypeOK /\ [Next]_vars => TypeOK'
<1> SUFFICES ASSUME TypeOK, [Next]_vars PROVE TypeOK'
    OBVIOUS
<1> USE Constants DEF TypeOK, Steps, Goto, progress, delivery
<1>1. ASSUME NEW t \in Turns, Start(t) PROVE TypeOK'
    BY <1>1 DEF Start
<1>2. ASSUME NEW t \in Turns, HistoryLoaded(t) PROVE TypeOK'
    BY <1>2 DEF HistoryLoaded
<1>3. ASSUME NEW t \in Turns, HistoryFails(t) PROVE TypeOK'
    BY <1>3 DEF HistoryFails
<1>4. ASSUME NEW t \in Turns, SeedRow(t) PROVE TypeOK'
    BY <1>4 DEF SeedRow, SetRow
<1>5. ASSUME NEW t \in Turns, AgentEvent(t) PROVE TypeOK'
    BY <1>5 DEF AgentEvent
<1>6. ASSUME NEW t \in Turns, ReplyDelta(t) PROVE TypeOK'
    BY <1>6 DEF ReplyDelta
<1>7. ASSUME NEW t \in Turns, Replied(t) PROVE TypeOK'
    BY <1>7 DEF Replied
<1>8. ASSUME NEW t \in Turns, GatewayFails(t) PROVE TypeOK'
    BY <1>8 DEF GatewayFails, Finalize
<1>9. ASSUME NEW t \in Turns, IngestOk(t) PROVE TypeOK'
    BY <1>9 DEF IngestOk, Attempt
<1>10. ASSUME NEW t \in Turns, IngestFails(t) PROVE TypeOK'
    BY <1>10 DEF IngestFails
<1>11. ASSUME NEW t \in Turns, IngestRefused(t) PROVE TypeOK'
    BY <1>11 DEF IngestRefused
<1>12. ASSUME NEW t \in Turns, NoticeOk(t) PROVE TypeOK'
    BY <1>12 DEF NoticeOk, Attempt
<1>13. ASSUME NEW t \in Turns, NoticeFails(t) PROVE TypeOK'
    BY <1>13 DEF NoticeFails, Attempt
<1>14. ASSUME NEW t \in Turns, NoticeRefused(t) PROVE TypeOK'
    BY <1>14 DEF NoticeRefused, Attempt
<1>15. ASSUME NEW t \in Turns, Finally(t) PROVE TypeOK'
    BY <1>15 DEF Finally, Finalize
<1>16. ASSUME NEW t \in Turns, EndBroadcast(t) PROVE TypeOK'
    BY <1>16 DEF EndBroadcast
<1>17. ASSUME NEW t \in Turns, ClearRow(t) PROVE TypeOK'
    BY <1>17 DEF ClearRow, SetRow, Excuse
<1>18. ASSUME NEW t \in Turns, WriteLands(t) PROVE TypeOK'
    BY <1>18 DEF WriteLands, SetRow, Excuse
<1>19. ASSUME NEW t \in Turns, FinalLands(t) PROVE TypeOK'
    BY <1>19 DEF FinalLands, SetRow, Excuse
<1>20. CASE UNCHANGED vars
    BY <1>20 DEF vars
<1> QED
    BY <1>1, <1>2, <1>3, <1>4, <1>5, <1>6, <1>7, <1>8, <1>9, <1>10, <1>11,
       <1>12, <1>13, <1>14, <1>15, <1>16, <1>17, <1>18, <1>19, <1>20
       DEF Next, TurnStep, Continues

\* Every variable keeps its type.
THEOREM TypeCorrect == Spec => []TypeOK
BY TypeInit, TypeInductive, PTL DEF Spec

-----------------------------------------------------------------------------
(* The end of a turn.                                                      *)

\* Before finalize nothing has ended; after it, the broadcast is still to
\* come or has been made once.  A turn listens and has writes under way only
\* from the moment it subscribes, and listens only until finalize.
EndInv ==
    \A u \in Turns :
        /\ pc[u] \in {"idle", "history", "seed", "gateway", "ingest", "notice",
                      "dropped"} => ending[u] = "none" /\ ends[u] = 0
        /\ pc[u] = "ending"   => ending[u] # "none" /\ ends[u] = 0
        /\ pc[u] = "clearing" => ending[u] # "none" /\ ends[u] = 1
        /\ pc[u] = "finally"  => ends[u] = IF ending[u] = "none" THEN 0 ELSE 1
        /\ pc[u] = "done"     => ending[u] # "none" /\ ends[u] = 1
        /\ u \in listening    => ending[u] = "none"
        /\ u \in listening \/ writes[u] > 0
                => pc[u] \notin {"idle", "history", "dropped"}

LEMMA EndInductive == TypeOK /\ EndInv /\ [Next]_vars => EndInv'
<1> SUFFICES ASSUME TypeOK, EndInv, [Next]_vars PROVE EndInv'
    OBVIOUS
<1> USE Constants DEF EndInv, TypeOK, Steps, Goto, progress, delivery
<1>1. ASSUME NEW t \in Turns, Start(t) PROVE EndInv'
    BY <1>1 DEF Start
<1>2. ASSUME NEW t \in Turns, HistoryLoaded(t) PROVE EndInv'
    BY <1>2 DEF HistoryLoaded
<1>3. ASSUME NEW t \in Turns, HistoryFails(t) PROVE EndInv'
    BY <1>3 DEF HistoryFails
<1>4. ASSUME NEW t \in Turns, SeedRow(t) PROVE EndInv'
    BY <1>4 DEF SeedRow, SetRow
<1>5. ASSUME NEW t \in Turns, AgentEvent(t) PROVE EndInv'
    BY <1>5 DEF AgentEvent
<1>6. ASSUME NEW t \in Turns, ReplyDelta(t) PROVE EndInv'
    BY <1>6 DEF ReplyDelta
<1>7. ASSUME NEW t \in Turns, Replied(t) PROVE EndInv'
    BY <1>7 DEF Replied
<1>8. ASSUME NEW t \in Turns, GatewayFails(t) PROVE EndInv'
    BY <1>8 DEF GatewayFails, Finalize
<1>9. ASSUME NEW t \in Turns, IngestOk(t) PROVE EndInv'
    BY <1>9 DEF IngestOk, Attempt
<1>10. ASSUME NEW t \in Turns, IngestFails(t) PROVE EndInv'
    BY <1>10 DEF IngestFails
<1>11. ASSUME NEW t \in Turns, IngestRefused(t) PROVE EndInv'
    BY <1>11 DEF IngestRefused
<1>12. ASSUME NEW t \in Turns, NoticeOk(t) PROVE EndInv'
    BY <1>12 DEF NoticeOk, Attempt
<1>13. ASSUME NEW t \in Turns, NoticeFails(t) PROVE EndInv'
    BY <1>13 DEF NoticeFails, Attempt
<1>14. ASSUME NEW t \in Turns, NoticeRefused(t) PROVE EndInv'
    BY <1>14 DEF NoticeRefused, Attempt
<1>15. ASSUME NEW t \in Turns, Finally(t) PROVE EndInv'
    BY <1>15 DEF Finally, Finalize
<1>16. ASSUME NEW t \in Turns, EndBroadcast(t) PROVE EndInv'
    BY <1>16 DEF EndBroadcast
<1>17. ASSUME NEW t \in Turns, ClearRow(t) PROVE EndInv'
    BY <1>17 DEF ClearRow, SetRow, Excuse
<1>18. ASSUME NEW t \in Turns, WriteLands(t) PROVE EndInv'
    BY <1>18 DEF WriteLands, SetRow, Excuse
<1>19. ASSUME NEW t \in Turns, FinalLands(t) PROVE EndInv'
    BY <1>19 DEF FinalLands, SetRow, Excuse
<1>20. CASE UNCHANGED vars
    BY <1>20 DEF vars
<1> QED
    BY <1>1, <1>2, <1>3, <1>4, <1>5, <1>6, <1>7, <1>8, <1>9, <1>10, <1>11,
       <1>12, <1>13, <1>14, <1>15, <1>16, <1>17, <1>18, <1>19, <1>20
       DEF Next, TurnStep, Continues

LEMMA EndCorrect == Spec => [](TypeOK /\ EndInv)
<1>1. Init => EndInv
    BY DEF Init, EndInv
<1> QED BY <1>1, TypeInit, TypeInductive, EndInductive, PTL DEF Spec

\* Whichever exits a turn takes, it sends exactly one broadcast that it is over.
THEOREM EndsOnceCorrect == Spec => []EndsOnce
<1>1. TypeOK /\ EndInv => EndsOnce
    BY DEF TypeOK, Steps, EndInv, EndsOnce
<1> QED BY <1>1, EndCorrect, PTL

LEMMA NoWriteStep ==
    TypeOK /\ EndInv /\ [Next]_vars
        => \A u \in Turns : ending[u] # "none" => writes'[u] <= writes[u]
<1> SUFFICES ASSUME TypeOK, EndInv, [Next]_vars, NEW u \in Turns,
                    ending[u] # "none"
             PROVE  writes'[u] <= writes[u]
    OBVIOUS
<1> USE Constants DEF EndInv, TypeOK, Steps, progress, delivery
<1>1. ASSUME NEW t \in Turns, Start(t) PROVE writes'[u] <= writes[u]
    BY <1>1 DEF Start
<1>2. ASSUME NEW t \in Turns, HistoryLoaded(t) PROVE writes'[u] <= writes[u]
    BY <1>2 DEF HistoryLoaded
<1>3. ASSUME NEW t \in Turns, HistoryFails(t) PROVE writes'[u] <= writes[u]
    BY <1>3 DEF HistoryFails
<1>4. ASSUME NEW t \in Turns, SeedRow(t) PROVE writes'[u] <= writes[u]
    BY <1>4 DEF SeedRow, SetRow
<1>5. ASSUME NEW t \in Turns, AgentEvent(t) PROVE writes'[u] <= writes[u]
    BY <1>5 DEF AgentEvent
<1>6. ASSUME NEW t \in Turns, ReplyDelta(t) PROVE writes'[u] <= writes[u]
    BY <1>6 DEF ReplyDelta
<1>7. ASSUME NEW t \in Turns, Replied(t) PROVE writes'[u] <= writes[u]
    BY <1>7 DEF Replied
<1>8. ASSUME NEW t \in Turns, GatewayFails(t) PROVE writes'[u] <= writes[u]
    BY <1>8 DEF GatewayFails, Finalize
<1>9. ASSUME NEW t \in Turns, IngestOk(t) PROVE writes'[u] <= writes[u]
    BY <1>9 DEF IngestOk, Attempt
<1>10. ASSUME NEW t \in Turns, IngestFails(t) PROVE writes'[u] <= writes[u]
    BY <1>10 DEF IngestFails
<1>11. ASSUME NEW t \in Turns, IngestRefused(t) PROVE writes'[u] <= writes[u]
    BY <1>11 DEF IngestRefused
<1>12. ASSUME NEW t \in Turns, NoticeOk(t) PROVE writes'[u] <= writes[u]
    BY <1>12 DEF NoticeOk, Attempt
<1>13. ASSUME NEW t \in Turns, NoticeFails(t) PROVE writes'[u] <= writes[u]
    BY <1>13 DEF NoticeFails, Attempt
<1>14. ASSUME NEW t \in Turns, NoticeRefused(t) PROVE writes'[u] <= writes[u]
    BY <1>14 DEF NoticeRefused, Attempt
<1>15. ASSUME NEW t \in Turns, Finally(t) PROVE writes'[u] <= writes[u]
    BY <1>15 DEF Finally, Finalize
<1>16. ASSUME NEW t \in Turns, EndBroadcast(t) PROVE writes'[u] <= writes[u]
    BY <1>16 DEF EndBroadcast
<1>17. ASSUME NEW t \in Turns, ClearRow(t) PROVE writes'[u] <= writes[u]
    BY <1>17 DEF ClearRow, SetRow, Excuse
<1>18. ASSUME NEW t \in Turns, WriteLands(t) PROVE writes'[u] <= writes[u]
    BY <1>18 DEF WriteLands, SetRow, Excuse
<1>19. ASSUME NEW t \in Turns, FinalLands(t) PROVE writes'[u] <= writes[u]
    BY <1>19 DEF FinalLands, SetRow, Excuse
<1>20. CASE UNCHANGED vars
    BY <1>20 DEF vars
<1> QED
    BY <1>1, <1>2, <1>3, <1>4, <1>5, <1>6, <1>7, <1>8, <1>9, <1>10, <1>11,
       <1>12, <1>13, <1>14, <1>15, <1>16, <1>17, <1>18, <1>19, <1>20
       DEF Next, TurnStep, Continues

\* No turn starts an upsert after its finalize, whatever the other turns that
\* share its session key do.
THEOREM NoWriteAfterFinalizeCorrect == Spec => NoWriteAfterFinalize
<1>1. TypeOK /\ EndInv /\ [Next]_vars
        => [\A t \in Turns :
                ending[t] # "none" => writes'[t] <= writes[t]]_vars
    BY NoWriteStep
<1> QED BY <1>1, EndCorrect, PTL DEF Spec, NoWriteAfterFinalize

-----------------------------------------------------------------------------
(* The turns answer as module Answer has it.                               *)

\* What a turn that got a reply has done by the time it is finalized, and that
\* one which ends with an error has not tried to post anything.
Told(u) ==
    \/ stored[u] > 0 \/ notices[u] > 0
    \/ u \in refused \/ tries[u] = NoticeTries
Untold(u) ==
    stored[u] = 0 /\ notices[u] = 0 /\ u \notin refused /\ tries[u] = 0

TellInv ==
    \A u \in Turns :
        /\ pc[u] = "notice" => tries[u] < NoticeTries
        /\ pc[u] = "finally" /\ ending[u] = "none" => Told(u)
        /\ ending[u] = "done" => Told(u)
        /\ pc[u] \in {"idle", "history", "seed", "gateway", "dropped"}
                \/ ending[u] = "error" => Untold(u)

LEMMA TellInductive == TypeOK /\ EndInv /\ TellInv /\ [Next]_vars => TellInv'
<1> SUFFICES ASSUME TypeOK, EndInv, TellInv, [Next]_vars PROVE TellInv'
    OBVIOUS
<1> USE Constants
    DEF TellInv, Told, Untold, EndInv, TypeOK, Steps, Goto, progress, delivery
<1>1. ASSUME NEW t \in Turns, Start(t) PROVE TellInv'
    BY <1>1 DEF Start
<1>2. ASSUME NEW t \in Turns, HistoryLoaded(t) PROVE TellInv'
    BY <1>2 DEF HistoryLoaded
<1>3. ASSUME NEW t \in Turns, HistoryFails(t) PROVE TellInv'
    BY <1>3 DEF HistoryFails
<1>4. ASSUME NEW t \in Turns, SeedRow(t) PROVE TellInv'
    BY <1>4 DEF SeedRow, SetRow
<1>5. ASSUME NEW t \in Turns, AgentEvent(t) PROVE TellInv'
    BY <1>5 DEF AgentEvent
<1>6. ASSUME NEW t \in Turns, ReplyDelta(t) PROVE TellInv'
    BY <1>6 DEF ReplyDelta
<1>7. ASSUME NEW t \in Turns, Replied(t) PROVE TellInv'
    BY <1>7 DEF Replied
<1>8. ASSUME NEW t \in Turns, GatewayFails(t) PROVE TellInv'
    BY <1>8 DEF GatewayFails, Finalize
<1>9. ASSUME NEW t \in Turns, IngestOk(t) PROVE TellInv'
    BY <1>9 DEF IngestOk, Attempt
<1>10. ASSUME NEW t \in Turns, IngestFails(t) PROVE TellInv'
    BY <1>10 DEF IngestFails
<1>11. ASSUME NEW t \in Turns, IngestRefused(t) PROVE TellInv'
    BY <1>11 DEF IngestRefused
<1>12. ASSUME NEW t \in Turns, NoticeOk(t) PROVE TellInv'
    BY <1>12 DEF NoticeOk, Attempt
<1>13. ASSUME NEW t \in Turns, NoticeFails(t) PROVE TellInv'
    BY <1>13 DEF NoticeFails, Attempt
<1>14. ASSUME NEW t \in Turns, NoticeRefused(t) PROVE TellInv'
    BY <1>14 DEF NoticeRefused, Attempt
<1>15. ASSUME NEW t \in Turns, Finally(t) PROVE TellInv'
    BY <1>15 DEF Finally, Finalize
<1>16. ASSUME NEW t \in Turns, EndBroadcast(t) PROVE TellInv'
    BY <1>16 DEF EndBroadcast
<1>17. ASSUME NEW t \in Turns, ClearRow(t) PROVE TellInv'
    BY <1>17 DEF ClearRow, SetRow, Excuse
<1>18. ASSUME NEW t \in Turns, WriteLands(t) PROVE TellInv'
    BY <1>18 DEF WriteLands, SetRow, Excuse
<1>19. ASSUME NEW t \in Turns, FinalLands(t) PROVE TellInv'
    BY <1>19 DEF FinalLands, SetRow, Excuse
<1>20. CASE UNCHANGED vars
    BY <1>20 DEF vars
<1> QED
    BY <1>1, <1>2, <1>3, <1>4, <1>5, <1>6, <1>7, <1>8, <1>9, <1>10, <1>11,
       <1>12, <1>13, <1>14, <1>15, <1>16, <1>17, <1>18, <1>19, <1>20
       DEF Next, TurnStep, Continues

LEMMA TellCorrect == Spec => [](TypeOK /\ EndInv /\ TellInv)
<1>1. Init => TellInv
    BY DEF Init, TellInv, Untold
<1> QED BY <1>1, TellInductive, EndCorrect, PTL DEF Spec

\* What module Answer sees.
States == [t \in Turns |-> StateOf(t)]
Posted == [t \in Turns |-> stored[t] + notices[t]]

\* The steps of a turn between its posts change nothing of that.
LEMMA Unseen ==
    ASSUME TypeOK, UNCHANGED <<stored, notices, refused, ends>>,
           \A u \in Turns :
                /\ StateOf(u)' = StateOf(u)
                /\ u \in Denied' <=> u \in Denied
    PROVE  UNCHANGED Promise!vars
<1>1. UNCHANGED States
    BY DEF States
<1>2. UNCHANGED Posted
    BY DEF Posted
<1>3. UNCHANGED Denied
    BY DEF Denied, TypeOK
<1> QED BY <1>1, <1>2, <1>3 DEF Promise!vars, States, Posted

\* An attempt to post, carried out or not, and maybe the last.
LEMMA OneAttempt ==
    ASSUME TypeOK, EndInv, NEW t \in Turns,
           pc[t] \in {"ingest", "notice"},
           NEW step \in {"ingest", "notice", "finally"},
           pc' = [pc EXCEPT ![t] = step],
           \A u \in Turns \ {t} :
                /\ stored'[u] = stored[u] /\ notices'[u] = notices[u]
                /\ tries'[u] = tries[u],
           \/ stored'[t] \in {stored[t], stored[t] + 1} /\ UNCHANGED notices
           \/ notices'[t] \in {notices[t], notices[t] + 1} /\ UNCHANGED stored,
           refused' \in {refused, refused \cup {t}},
           UNCHANGED <<ending, ends>>
    PROVE  Promise!Post(t)
<1>1. StateOf(t) = "taken" /\ StateOf(t)' = "taken"
    BY DEF StateOf, EndInv, TypeOK
<1>2. \A u \in Turns \ {t} : StateOf(u)' = StateOf(u)
    BY DEF StateOf, TypeOK
<1>3. States[t] = "taken" /\ UNCHANGED States
    BY <1>1, <1>2 DEF States
<1>4. Posted' \in {Posted, [Posted EXCEPT ![t] = @ + 1]}
    <2>1. stored[t] \in Nat /\ notices[t] \in Nat
        BY DEF TypeOK
    <2>2. stored'[t] + notices'[t]
            \in {stored[t] + notices[t], stored[t] + notices[t] + 1}
        BY <2>1
    <2> QED BY <2>2 DEF Posted
<1>5. Denied' \in {Denied, Denied \cup {t}}
    <2>1. \A u \in Turns \ {t} : u \in Denied' <=> u \in Denied
        BY DEF Denied, TypeOK
    <2>2. t \in Denied => t \in Denied'
        BY DEF Denied
    <2>3. Denied \subseteq Turns /\ Denied' \subseteq Turns
        BY DEF Denied, TypeOK
    <2> QED BY <2>1, <2>2, <2>3
<1> QED BY <1>3, <1>4, <1>5 DEF Promise!Post, States, Posted

\* Every step of a turn is a step of Answer or a stutter.
LEMMA AnswerStep ==
    TypeOK /\ EndInv /\ TellInv /\ [Next]_vars
        => [Promise!Next]_(Promise!vars)
<1> SUFFICES ASSUME TypeOK, EndInv, TellInv, [Next]_vars
             PROVE  [Promise!Next]_(Promise!vars)
    OBVIOUS
<1>a. ASSUME NEW t \in Turns, Promise!Post(t)
      PROVE  [Promise!Next]_(Promise!vars)
    BY <1>a DEF Promise!Next
<1>b. ASSUME NEW t \in Turns, NEW step \in Steps,
             pc' = [pc EXCEPT ![t] = step], UNCHANGED <<delivery, ends>>,
             \A u \in Turns \ {t} : ending'[u] = ending[u],
             StateOf(t)' = StateOf(t),
             pc[t] \in {"finally", "ending", "clearing", "done"}
                => step \in {"finally", "ending", "clearing", "done"},
             pc[t] \notin {"finally", "ending", "clearing", "done"}
                => step \notin {"finally", "ending", "clearing", "done"}
                   \/ tries[t] # NoticeTries
      PROVE  [Promise!Next]_(Promise!vars)
    <2>1. \A u \in Turns : StateOf(u)' = StateOf(u)
        BY <1>b DEF StateOf, TypeOK
    <2>2. \A u \in Turns : u \in Denied' <=> u \in Denied
        BY <1>b DEF Denied, TypeOK, delivery
    <2> QED BY <1>b, <2>1, <2>2, Unseen DEF delivery
<1>c. ASSUME UNCHANGED <<pc, delivery, ending, ends>>
      PROVE  [Promise!Next]_(Promise!vars)
    BY <1>c, Unseen DEF StateOf, Denied, delivery
<1> USE Constants DEF TypeOK, Steps, Goto, progress, delivery
<1>1. ASSUME NEW t \in Turns, Start(t) PROVE [Promise!Next]_(Promise!vars)
    <2>1. /\ pc[t] = "idle" /\ pc' = [pc EXCEPT ![t] = "history"]
          /\ UNCHANGED <<delivery, ends, ending>>
        BY <1>1 DEF Start
    <2>2. StateOf(t)' = StateOf(t)
        BY <2>1 DEF StateOf
    <2> QED BY <2>1, <2>2, <1>b
<1>2. ASSUME NEW t \in Turns, NEW step \in {"seed", "dropped"},
             pc[t] = "history", pc' = [pc EXCEPT ![t] = step],
             UNCHANGED <<delivery, ends, ending>>
      PROVE  [Promise!Next]_(Promise!vars)
    <2> DEFINE state == IF step = "seed" THEN "taken" ELSE "lost"
    <2>1. StateOf(t) = "new" /\ StateOf(t)' = state
        BY <1>2 DEF StateOf, EndInv
    <2>2. \A u \in Turns \ {t} : StateOf(u)' = StateOf(u)
        BY <1>2 DEF StateOf
    <2>3. States[t] = "new" /\ States' = [States EXCEPT ![t] = state]
        BY <2>1, <2>2 DEF States
    <2>4. UNCHANGED Posted
        BY <1>2 DEF Posted
    <2>5. UNCHANGED Denied
        BY <1>2 DEF Denied
    <2>6. Promise!TakeUp(t)
        BY <1>2, <2>3, <2>4, <2>5 DEF Promise!TakeUp, States, Posted
    <2> QED BY <2>6 DEF Promise!Next
<1>3. ASSUME NEW t \in Turns, HistoryLoaded(t) \/ HistoryFails(t)
      PROVE  [Promise!Next]_(Promise!vars)
    BY <1>2, <1>3 DEF HistoryLoaded, HistoryFails
<1>4. ASSUME NEW t \in Turns, SeedRow(t) PROVE [Promise!Next]_(Promise!vars)
    <2>1. /\ pc[t] = "seed" /\ pc' = [pc EXCEPT ![t] = "gateway"]
          /\ UNCHANGED <<delivery, ends, ending>>
        BY <1>4 DEF SeedRow
    <2> QED BY <2>1, <1>b DEF StateOf, EndInv
<1>5. ASSUME NEW t \in Turns,
             AgentEvent(t) \/ ReplyDelta(t) \/ WriteLands(t) \/ FinalLands(t)
      PROVE  [Promise!Next]_(Promise!vars)
    BY <1>5, <1>c DEF AgentEvent, ReplyDelta, WriteLands, FinalLands
<1>6. ASSUME NEW t \in Turns, Replied(t) PROVE [Promise!Next]_(Promise!vars)
    <2>1. /\ pc[t] = "gateway" /\ pc' = [pc EXCEPT ![t] = "ingest"]
          /\ UNCHANGED <<delivery, ends, ending>>
        BY <1>6 DEF Replied
    <2> QED BY <2>1, <1>b DEF StateOf, EndInv
<1>7. ASSUME NEW t \in Turns, GatewayFails(t)
      PROVE  [Promise!Next]_(Promise!vars)
    <2>1. /\ pc[t] = "gateway" /\ pc' = [pc EXCEPT ![t] = "ending"]
          /\ UNCHANGED <<delivery, ends>>
          /\ \A u \in Turns \ {t} : ending'[u] = ending[u]
        BY <1>7 DEF GatewayFails, Finalize
    <2>2. tries[t] = 0 /\ ends[t] = 0
        BY <2>1 DEF TellInv, Untold, EndInv
    <2>3. StateOf(t)' = StateOf(t)
        BY <2>1, <2>2 DEF StateOf
    <2> QED BY <2>1, <2>2, <2>3, <1>b
<1>8. ASSUME NEW t \in Turns, IngestOk(t) PROVE [Promise!Next]_(Promise!vars)
    <2>1. /\ pc[t] = "ingest" /\ pc' = [pc EXCEPT ![t] = "finally"]
          /\ UNCHANGED <<notices, refused, ending, ends>>
        BY <1>8 DEF IngestOk
    <2>2. /\ stored'[t] = stored[t] + 1
          /\ \A u \in Turns \ {t} :
                stored'[u] = stored[u] /\ tries'[u] = tries[u]
        BY <1>8 DEF IngestOk, Attempt
    <2>3. Promise!Post(t)
        BY <2>1, <2>2, OneAttempt
    <2> QED BY <2>3, <1>a
<1>9. ASSUME NEW t \in Turns, IngestFails(t)
       PROVE  [Promise!Next]_(Promise!vars)
    <2>1. /\ pc[t] = "ingest"
          /\ \E step \in {"ingest", "notice"} : pc' = [pc EXCEPT ![t] = step]
          /\ UNCHANGED <<notices, refused, ending, ends>>
        BY <1>9 DEF IngestFails
    <2>2. /\ stored'[t] \in {stored[t], stored[t] + 1}
          /\ \A u \in Turns \ {t} :
                stored'[u] = stored[u] /\ tries'[u] = tries[u]
        BY <1>9 DEF IngestFails
    <2>3. Promise!Post(t)
        BY <2>1, <2>2, OneAttempt
    <2> QED BY <2>3, <1>a
<1>10. ASSUME NEW t \in Turns, IngestRefused(t)
       PROVE  [Promise!Next]_(Promise!vars)
    BY <1>10, <1>a, OneAttempt DEF IngestRefused
<1>11. ASSUME NEW t \in Turns, NoticeOk(t)
       PROVE  [Promise!Next]_(Promise!vars)
    <2>1. /\ pc[t] = "notice" /\ pc' = [pc EXCEPT ![t] = "finally"]
          /\ UNCHANGED <<stored, refused, ending, ends>>
        BY <1>11 DEF NoticeOk
    <2>2. /\ notices'[t] = notices[t] + 1
          /\ \A u \in Turns \ {t} :
                notices'[u] = notices[u] /\ tries'[u] = tries[u]
        BY <1>11 DEF NoticeOk, Attempt
    <2>3. Promise!Post(t)
        BY <2>1, <2>2, OneAttempt
    <2> QED BY <2>3, <1>a
<1>12. ASSUME NEW t \in Turns, NoticeFails(t)
       PROVE  [Promise!Next]_(Promise!vars)
    <2>1. /\ pc[t] = "notice"
          /\ \E step \in {"notice", "finally"} : pc' = [pc EXCEPT ![t] = step]
          /\ UNCHANGED <<stored, refused, ending, ends>>
        BY <1>12 DEF NoticeFails
    <2>2. /\ notices'[t] \in {notices[t], notices[t] + 1}
          /\ \A u \in Turns \ {t} :
                notices'[u] = notices[u] /\ tries'[u] = tries[u]
        BY <1>12 DEF NoticeFails, Attempt
    <2>3. Promise!Post(t)
        BY <2>1, <2>2, OneAttempt
    <2> QED BY <2>3, <1>a
<1>13. ASSUME NEW t \in Turns, NoticeRefused(t)
       PROVE  [Promise!Next]_(Promise!vars)
    <2>1. /\ pc[t] = "notice" /\ pc' = [pc EXCEPT ![t] = "finally"]
          /\ refused' = refused \cup {t}
          /\ UNCHANGED <<stored, ending, ends>>
        BY <1>13 DEF NoticeRefused
    <2>2. /\ notices'[t] = notices[t]
          /\ \A u \in Turns \ {t} :
                notices'[u] = notices[u] /\ tries'[u] = tries[u]
        BY <1>13 DEF NoticeRefused, Attempt
    <2>3. Promise!Post(t)
        BY <2>1, <2>2, OneAttempt
    <2> QED BY <2>3, <1>a
<1>14. ASSUME NEW t \in Turns, Finally(t) PROVE [Promise!Next]_(Promise!vars)
    <2>1. /\ pc[t] = "finally"
          /\ \E step \in {"ending", "done"} : pc' = [pc EXCEPT ![t] = step]
          /\ UNCHANGED <<delivery, ends>>
          /\ \A u \in Turns \ {t} : ending'[u] = ending[u]
        BY <1>14 DEF Finally, Finalize
    <2>2. StateOf(t)' = StateOf(t)
        <3>1. CASE ending[t] = "none"
            BY <1>14, <2>1, <3>1 DEF StateOf, EndInv
        <3>2. CASE ending[t] # "none"
            BY <1>14, <2>1, <3>2 DEF StateOf, EndInv, Finally
        <3> QED BY <3>1, <3>2
    <2> QED BY <2>1, <2>2, <1>b
<1>15. ASSUME NEW t \in Turns, EndBroadcast(t)
       PROVE  [Promise!Next]_(Promise!vars)
    <2>1. /\ pc[t] = "ending" /\ pc' = [pc EXCEPT ![t] = "clearing"]
          /\ ends' = [ends EXCEPT ![t] = @ + 1]
          /\ UNCHANGED <<delivery, ending>>
        BY <1>15 DEF EndBroadcast
    <2>2. ends[t] = 0 /\ ending[t] \in {"error", "done"}
        BY <2>1 DEF EndInv
    <2>3. StateOf(t) = "taken" /\ StateOf(t)' = ending[t]
        BY <2>1, <2>2 DEF StateOf
    <2>4. \A u \in Turns \ {t} : StateOf(u)' = StateOf(u)
        BY <2>1 DEF StateOf
    <2>5. /\ States[t] = "taken"
          /\ States' = [States EXCEPT ![t] = ending[t]]
        BY <2>3, <2>4 DEF States
    <2>6. UNCHANGED <<Posted, Denied>>
        BY <2>1 DEF Posted, Denied
    <2>7. CASE ending[t] = "error"
        <3>1. Posted[t] = 0
            BY <2>7 DEF TellInv, Untold, Posted
        <3>2. Promise!Announce(t, "error")
            BY <2>1, <2>5, <2>6, <2>7, <3>1
               DEF Promise!Announce, States, Posted
        <3> QED BY <3>2 DEF Promise!Next
    <2>8. CASE ending[t] = "done"
        <3>1. Posted[t] > 0 \/ t \in Denied
            BY <2>1, <2>8 DEF TellInv, Told, Posted, Denied
        <3>2. Promise!Announce(t, "done")
            BY <2>1, <2>5, <2>6, <2>8, <3>1
               DEF Promise!Announce, States, Posted
        <3> QED BY <3>2 DEF Promise!Next
    <2> QED BY <2>2, <2>7, <2>8
<1>16. ASSUME NEW t \in Turns, ClearRow(t)
       PROVE  [Promise!Next]_(Promise!vars)
    <2>1. /\ pc[t] = "clearing"
          /\ \E step \in {"finally", "done"} : pc' = [pc EXCEPT ![t] = step]
          /\ UNCHANGED <<delivery, ends, ending>>
        BY <1>16 DEF ClearRow
    <2> QED BY <2>1, <1>b DEF StateOf, EndInv
<1>17. CASE UNCHANGED vars
    BY <1>17, <1>c DEF vars
<1> QED
    BY <1>1, <1>3, <1>4, <1>5, <1>6, <1>7, <1>8, <1>9, <1>10, <1>11, <1>12,
       <1>13, <1>14, <1>15, <1>16, <1>17 DEF Next, TurnStep, Continues

\* The turns, with their retries, their notices and their three ways to
\* finalize, implement module Answer, for any turns and numbers of attempts.
THEOREM TurnsImplementAnswer == Spec => ImplementsAnswer
<1>1. Init => Promise!Init
    BY Constants DEF Init, Promise!Init, StateOf, Denied
<1> QED BY <1>1, AnswerStep, TellCorrect, PTL
        DEF Spec, ImplementsAnswer, Promise!Spec

-----------------------------------------------------------------------------
(* The progress row.                                                       *)

\* The write that clears the row of u is still to come or under way.
Uncleared(u) ==
    \/ pc[u] \in {"seed", "gateway", "ingest", "notice", "ending", "clearing"}
    \/ pc[u] = "finally" /\ ending[u] = "none"
    \/ finals[u] > 0

RowInv ==
    \A s \in Sessions \ excused :
        row[s] = "active" => \E u \in Turns : SessionOf[u] = s /\ Uncleared(u)

\* Only a write of the turn's own session, before its finalize, makes a row
\* active without an excuse.
LEMMA RowInductive == TypeOK /\ EndInv /\ RowInv /\ [Next]_vars => RowInv'
<1> SUFFICES ASSUME TypeOK, EndInv, RowInv, [Next]_vars,
                    NEW s \in Sessions, s \notin excused', row'[s] = "active"
             PROVE  \E u \in Turns : SessionOf[u] = s /\ Uncleared(u)'
    BY DEF RowInv
<1> DEFINE Pending == \E u \in Turns : SessionOf[u] = s /\ Uncleared(u)
<1> USE Constants
    DEF RowInv, Uncleared, EndInv, TypeOK, Steps, Goto, progress, delivery
<1>1. ASSUME NEW t \in Turns, Start(t) PROVE Pending'
    BY <1>1 DEF Start
<1>2. ASSUME NEW t \in Turns, HistoryLoaded(t) PROVE Pending'
    BY <1>2 DEF HistoryLoaded
<1>3. ASSUME NEW t \in Turns, HistoryFails(t) PROVE Pending'
    BY <1>3 DEF HistoryFails
<1>4. ASSUME NEW t \in Turns, SeedRow(t) PROVE Pending'
    BY <1>4 DEF SeedRow, SetRow
<1>5. ASSUME NEW t \in Turns, AgentEvent(t) PROVE Pending'
    BY <1>5 DEF AgentEvent
<1>6. ASSUME NEW t \in Turns, ReplyDelta(t) PROVE Pending'
    BY <1>6 DEF ReplyDelta
<1>7. ASSUME NEW t \in Turns, Replied(t) PROVE Pending'
    BY <1>7 DEF Replied
<1>8. ASSUME NEW t \in Turns, GatewayFails(t) PROVE Pending'
    BY <1>8 DEF GatewayFails, Finalize
<1>9. ASSUME NEW t \in Turns, IngestOk(t) PROVE Pending'
    BY <1>9 DEF IngestOk, Attempt
<1>10. ASSUME NEW t \in Turns, IngestFails(t) PROVE Pending'
    BY <1>10 DEF IngestFails
<1>11. ASSUME NEW t \in Turns, IngestRefused(t) PROVE Pending'
    BY <1>11 DEF IngestRefused
<1>12. ASSUME NEW t \in Turns, NoticeOk(t) PROVE Pending'
    BY <1>12 DEF NoticeOk, Attempt
<1>13. ASSUME NEW t \in Turns, NoticeFails(t) PROVE Pending'
    BY <1>13 DEF NoticeFails, Attempt
<1>14. ASSUME NEW t \in Turns, NoticeRefused(t) PROVE Pending'
    BY <1>14 DEF NoticeRefused, Attempt
<1>15. ASSUME NEW t \in Turns, Finally(t) PROVE Pending'
    BY <1>15 DEF Finally, Finalize
<1>16. ASSUME NEW t \in Turns, EndBroadcast(t) PROVE Pending'
    BY <1>16 DEF EndBroadcast
<1>17. ASSUME NEW t \in Turns, ClearRow(t) PROVE Pending'
    BY <1>17 DEF ClearRow, SetRow, Excuse
<1>18. ASSUME NEW t \in Turns, WriteLands(t) PROVE Pending'
    BY <1>18 DEF WriteLands, SetRow, Excuse
<1>19. ASSUME NEW t \in Turns, FinalLands(t) PROVE Pending'
    BY <1>19 DEF FinalLands, SetRow, Excuse
<1>20. CASE UNCHANGED vars
    BY <1>20 DEF vars
<1> QED
    BY <1>1, <1>2, <1>3, <1>4, <1>5, <1>6, <1>7, <1>8, <1>9, <1>10, <1>11,
       <1>12, <1>13, <1>14, <1>15, <1>16, <1>17, <1>18, <1>19, <1>20
       DEF Next, TurnStep, Continues

\* The row of a session whose turns are over is cleared, up to lost writes and
\* upserts that land late.
THEOREM RowClearedCorrect == Spec => []RowCleared
<1>1. Init => RowInv
    BY DEF Init, RowInv
<1>2. TypeOK /\ RowInv => RowCleared
    BY DEF TypeOK, RowInv, RowCleared, Over, Uncleared
<1> QED BY <1>1, <1>2, RowInductive, EndCorrect, PTL DEF Spec
=============================================================================
