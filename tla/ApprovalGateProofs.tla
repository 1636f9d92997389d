------------------------- MODULE ApprovalGateProofs -------------------------
(***************************************************************************)
(* Proofs of the safety of ApprovalGate, for every set of tool calls, with *)
(* and without the bridge to the gateway and its RPC failures; of that of  *)
(* ApprovalMarkers, for every assignment of soft keys to the calls, so     *)
(* also when all of them share one; and of what the two promise together.  *)
(***************************************************************************)
EXTENDS ApprovalGate, ApprovalMarkers, TLAPS

\* The hook of a call registers it once, and in one place.
RegisteredOnce ==
    \A c \in Calls :
        /\ pc[c] \in {"idle", "check", "register"} => id[c] = "none"
        /\ pc[c] \in {"announce", "wait"} => id[c] # "none"
        /\ mgr[c] # "none" <=> id[c] = "upstream"
        /\ pc[c] = "done" <=> verdict[c] # "none"

\* What the manager holds is an answer of the user's.
DecisionWasSent ==
    \A c \in Calls : mgr[c] \in Decisions => <<c, mgr[c]>> \in sent

\* A confirmed answer has settled its call: nothing can settle it again.
SubmittedSettles ==
    \A c \in Calls, d \in Decisions, path \in Paths :
        reply[<<c, d, path>>] = "submitted" =>
            \/ id[c] = "local" /\ pc[c] = "done"
            \/ id[c] = "upstream" /\ mgr[c] \in Decisions

GateInv ==
    /\ ConsentRequired
    /\ SubmittedOnce
    /\ PendingIsWaiting
    /\ RegisteredOnce
    /\ DecisionWasSent
    /\ SubmittedSettles

\* The hook returns what the manager ruled, or gave up asking for it.
RulingKept ==
    \A c \in Calls :
        id[c] = "upstream" /\ pc[c] = "done" =>
            \/ /\ mgr[c] # "pending"
               /\ verdict[c] = IF mgr[c] = "expired" THEN "timeout"
                                                     ELSE Ruling(mgr[c])
            \/ GaveUp(c)

\* A confirmed answer is what was ruled.
SubmittedRuled ==
    \A c \in Calls, d \in Decisions, path \in Paths :
        reply[<<c, d, path>>] = "submitted" =>
            \/ id[c] = "local" /\ pc[c] = "done" /\ verdict[c] = Ruling(d)
            \/ id[c] = "upstream" /\ mgr[c] = d

KeptInv == RulingKept /\ SubmittedRuled

-----------------------------------------------------------------------------
(* Types.                                                                  *)

\* Every step keeps the types.
LEMMA TypesInductive == TypeOK /\ [Next]_vars => TypeOK'
<1> SUFFICES ASSUME TypeOK, [Next]_vars PROVE TypeOK'
  OBVIOUS
<1> QED
  <2>1. ASSUME NEW c \in Calls, CallTool(c)
       PROVE  TypeOK'
    BY <2>1 DEF CallTool, TypeOK, Steps, Answers, Handlings, Decisions,
        Paths
  <2>2. ASSUME NEW c \in Calls, FlagRead(c)
       PROVE  TypeOK'
    BY <2>2 DEF FlagRead, Return, TypeOK, Steps, Answers, Handlings,
        Decisions, Paths
  <2>3. ASSUME NEW c \in Calls, RegisterUpstream(c)
       PROVE  TypeOK'
    BY <2>3 DEF RegisterUpstream, TypeOK, Steps, Answers, Handlings,
        Decisions, Paths
  <2>4. ASSUME NEW c \in Calls, RegisterLocal(c)
       PROVE  TypeOK'
    BY <2>4 DEF RegisterLocal, TypeOK, Steps, Answers, Handlings,
        Decisions, Paths
  <2>5. ASSUME NEW c \in Calls, BroadcastReturns(c)
       PROVE  TypeOK'
    BY <2>5 DEF BroadcastReturns, TypeOK, Steps, Answers, Handlings,
        Decisions, Paths
  <2>6. ASSUME NEW c \in Calls, LocalTimeout(c)
       PROVE  TypeOK'
    BY <2>6 DEF LocalTimeout, Return, TypeOK, Steps, Answers, Handlings,
        Decisions, Paths
  <2>7. ASSUME NEW c \in Calls, WaitReturns(c)
       PROVE  TypeOK'
    BY <2>7 DEF WaitReturns, Return, Ruling, TypeOK, Steps, Answers,
        Handlings, Decisions, Paths
  <2>8. ASSUME NEW c \in Calls, WaitFails(c)
       PROVE  TypeOK'
    BY <2>8 DEF WaitFails, Return, TypeOK, Steps, Answers, Handlings,
        Decisions, Paths
  <2>9. ASSUME NEW c \in Calls, BroadcastLands(c)
       PROVE  TypeOK'
    BY <2>9 DEF BroadcastLands, TypeOK, Steps, Answers, Handlings,
        Decisions, Paths
  <2>10. ASSUME NEW c \in Calls, ManagerExpires(c)
       PROVE  TypeOK'
    BY <2>10 DEF ManagerExpires, TypeOK, Steps, Answers, Handlings,
        Decisions, Paths
  <2>11. ASSUME NEW c \in Calls, NEW d \in Decisions, UserAnswers(c, d)
       PROVE  TypeOK'
    BY <2>11 DEF UserAnswers, TypeOK, Steps, Answers, Handlings, Decisions,
        Paths
  <2>12. ASSUME NEW c \in Calls, NEW d \in Decisions, NEW path \in Paths,
             ApplyLocally(c, d, path)
       PROVE  TypeOK'
    BY <2>12 DEF ApplyLocally, Unhandled, Confirm, Return, Ruling, TypeOK,
        Steps, Answers, Handlings, Decisions, Paths
  <2>13. ASSUME NEW c \in Calls, NEW d \in Decisions, NEW path \in Paths,
             NoLocalEntry(c, d, path)
       PROVE  TypeOK'
    BY <2>13 DEF NoLocalEntry, Unhandled, Confirm, BridgeAt, TypeOK, Steps,
        Answers, Handlings, Decisions, Paths
  <2>14. ASSUME NEW c \in Calls, NEW d \in Decisions, NEW path \in Paths,
             ResolveUpstream(c, d, path)
       PROVE  TypeOK'
    BY <2>14 DEF ResolveUpstream, Unhandled, Confirm, BridgeAt, TypeOK,
        Steps, Answers, Handlings, Decisions, Paths
  <2>15. ASSUME NEW c \in Calls, NEW d \in Decisions, NEW path \in Paths,
             ResolveFails(c, d, path)
       PROVE  TypeOK'
    BY <2>15 DEF ResolveFails, Unhandled, Confirm, BridgeAt, TypeOK, Steps,
        Answers, Handlings, Decisions, Paths
  <2>16. CASE UNCHANGED vars
    BY <2>16 DEF vars, TypeOK, Steps, Answers, Handlings, Decisions, Paths
  <2> QED
    BY <2>1, <2>2, <2>3, <2>4, <2>5, <2>6, <2>7, <2>8, <2>9, <2>10, <2>11,
        <2>12, <2>13, <2>14, <2>15, <2>16, Zenon DEF Next, HookStep,
        AnswerStep

\* Every variable keeps its type: what the hooks, the answers and the
\* gateway's manager can reach.
THEOREM TypeCorrect == Spec => []TypeOK
<1>1. Init => TypeOK
  BY DEF Init, TypeOK, Steps, Answers, Handlings, Decisions, Paths
<1> QED
  BY <1>1, TypesInductive, PTL DEF Spec

-----------------------------------------------------------------------------
(* Consent.                                                                *)

\* Where a call is registered follows its hook.
LEMMA RegisteredInductive ==
    TypeOK /\ RegisteredOnce /\ PendingIsWaiting /\ [Next]_vars
        => RegisteredOnce' /\ PendingIsWaiting'
<1> SUFFICES ASSUME TypeOK, RegisteredOnce, PendingIsWaiting, [Next]_vars
             PROVE  (RegisteredOnce /\ PendingIsWaiting)'
  OBVIOUS
<1> USE DEF RegisteredOnce, PendingIsWaiting
<1> QED
  <2>1. ASSUME NEW c \in Calls, CallTool(c)
       PROVE  (RegisteredOnce /\ PendingIsWaiting)'
    BY <2>1 DEF CallTool, TypeOK, Steps, Decisions
  <2>2. ASSUME NEW c \in Calls, FlagRead(c)
       PROVE  (RegisteredOnce /\ PendingIsWaiting)'
    BY <2>2 DEF FlagRead, Return, TypeOK, Steps, Decisions
  <2>3. ASSUME NEW c \in Calls, RegisterUpstream(c)
       PROVE  (RegisteredOnce /\ PendingIsWaiting)'
    BY <2>3 DEF RegisterUpstream, TypeOK, Steps, Decisions
  <2>4. ASSUME NEW c \in Calls, RegisterLocal(c)
       PROVE  (RegisteredOnce /\ PendingIsWaiting)'
    BY <2>4 DEF RegisterLocal, TypeOK, Steps, Decisions
  <2>5. ASSUME NEW c \in Calls, BroadcastReturns(c)
       PROVE  (RegisteredOnce /\ PendingIsWaiting)'
    BY <2>5 DEF BroadcastReturns, TypeOK, Steps, Decisions
  <2>6. ASSUME NEW c \in Calls, LocalTimeout(c)
       PROVE  (RegisteredOnce /\ PendingIsWaiting)'
    BY <2>6 DEF LocalTimeout, Return, TypeOK, Steps, Decisions
  <2>7. ASSUME NEW c \in Calls, WaitReturns(c)
       PROVE  (RegisteredOnce /\ PendingIsWaiting)'
    BY <2>7 DEF WaitReturns, Return, Ruling, TypeOK, Steps, Decisions
  <2>8. ASSUME NEW c \in Calls, WaitFails(c)
       PROVE  (RegisteredOnce /\ PendingIsWaiting)'
    BY <2>8 DEF WaitFails, Return, TypeOK, Steps, Decisions
  <2>9. ASSUME NEW c \in Calls, BroadcastLands(c)
       PROVE  (RegisteredOnce /\ PendingIsWaiting)'
    BY <2>9 DEF BroadcastLands, TypeOK, Steps, Decisions
  <2>10. ASSUME NEW c \in Calls, ManagerExpires(c)
       PROVE  (RegisteredOnce /\ PendingIsWaiting)'
    BY <2>10 DEF ManagerExpires, TypeOK, Steps, Decisions
  <2>11. ASSUME NEW c \in Calls, NEW d \in Decisions, UserAnswers(c, d)
       PROVE  (RegisteredOnce /\ PendingIsWaiting)'
    BY <2>11 DEF UserAnswers, TypeOK, Steps, Decisions
  <2>12. ASSUME NEW c \in Calls, NEW d \in Decisions, NEW path \in Paths,
             ApplyLocally(c, d, path)
       PROVE  (RegisteredOnce /\ PendingIsWaiting)'
    BY <2>12 DEF ApplyLocally, Unhandled, Confirm, Return, Ruling, TypeOK,
        Steps, Decisions
  <2>13. ASSUME NEW c \in Calls, NEW d \in Decisions, NEW path \in Paths,
             NoLocalEntry(c, d, path)
       PROVE  (RegisteredOnce /\ PendingIsWaiting)'
    BY <2>13 DEF NoLocalEntry, Unhandled, Confirm, BridgeAt, TypeOK, Steps,
        Decisions
  <2>14. ASSUME NEW c \in Calls, NEW d \in Decisions, NEW path \in Paths,
             ResolveUpstream(c, d, path)
       PROVE  (RegisteredOnce /\ PendingIsWaiting)'
    BY <2>14 DEF ResolveUpstream, Unhandled, Confirm, BridgeAt, TypeOK,
        Steps, Decisions
  <2>15. ASSUME NEW c \in Calls, NEW d \in Decisions, NEW path \in Paths,
             ResolveFails(c, d, path)
       PROVE  (RegisteredOnce /\ PendingIsWaiting)'
    BY <2>15 DEF ResolveFails, Unhandled, Confirm, BridgeAt, TypeOK, Steps,
        Decisions
  <2>16. CASE UNCHANGED vars
    BY <2>16 DEF vars, TypeOK, Steps, Decisions
  <2> QED
    BY <2>1, <2>2, <2>3, <2>4, <2>5, <2>6, <2>7, <2>8, <2>9, <2>10, <2>11,
        <2>12, <2>13, <2>14, <2>15, <2>16, Zenon DEF Next, HookStep,
        AnswerStep

\* Approvals and the manager's decisions come from the user.
LEMMA ConsentInductive ==
    TypeOK /\ ConsentRequired /\ DecisionWasSent /\ [Next]_vars
        => ConsentRequired' /\ DecisionWasSent'
<1> SUFFICES ASSUME TypeOK, ConsentRequired, DecisionWasSent, [Next]_vars
             PROVE  (ConsentRequired /\ DecisionWasSent)'
  OBVIOUS
<1> USE DEF ConsentRequired, DecisionWasSent
<1> QED
  <2>1. ASSUME NEW c \in Calls, CallTool(c)
       PROVE  (ConsentRequired /\ DecisionWasSent)'
    BY <2>1 DEF CallTool, TypeOK, Answers, Decisions
  <2>2. ASSUME NEW c \in Calls, FlagRead(c)
       PROVE  (ConsentRequired /\ DecisionWasSent)'
    BY <2>2 DEF FlagRead, Return, TypeOK, Answers, Decisions
  <2>3. ASSUME NEW c \in Calls, RegisterUpstream(c)
       PROVE  (ConsentRequired /\ DecisionWasSent)'
    BY <2>3 DEF RegisterUpstream, TypeOK, Answers, Decisions
  <2>4. ASSUME NEW c \in Calls, RegisterLocal(c)
       PROVE  (ConsentRequired /\ DecisionWasSent)'
    BY <2>4 DEF RegisterLocal, TypeOK, Answers, Decisions
  <2>5. ASSUME NEW c \in Calls, BroadcastReturns(c)
       PROVE  (ConsentRequired /\ DecisionWasSent)'
    BY <2>5 DEF BroadcastReturns, TypeOK, Answers, Decisions
  <2>6. ASSUME NEW c \in Calls, LocalTimeout(c)
       PROVE  (ConsentRequired /\ DecisionWasSent)'
    BY <2>6 DEF LocalTimeout, Return, TypeOK, Answers, Decisions
  <2>7. ASSUME NEW c \in Calls, WaitReturns(c)
       PROVE  (ConsentRequired /\ DecisionWasSent)'
    BY <2>7 DEF WaitReturns, Return, Ruling, TypeOK, Answers, Decisions
  <2>8. ASSUME NEW c \in Calls, WaitFails(c)
       PROVE  (ConsentRequired /\ DecisionWasSent)'
    BY <2>8 DEF WaitFails, Return, TypeOK, Answers, Decisions
  <2>9. ASSUME NEW c \in Calls, BroadcastLands(c)
       PROVE  (ConsentRequired /\ DecisionWasSent)'
    BY <2>9 DEF BroadcastLands, TypeOK, Answers, Decisions
  <2>10. ASSUME NEW c \in Calls, ManagerExpires(c)
       PROVE  (ConsentRequired /\ DecisionWasSent)'
    BY <2>10 DEF ManagerExpires, TypeOK, Answers, Decisions
  <2>11. ASSUME NEW c \in Calls, NEW d \in Decisions, UserAnswers(c, d)
       PROVE  (ConsentRequired /\ DecisionWasSent)'
    BY <2>11 DEF UserAnswers, TypeOK, Answers, Decisions
  <2>12. ASSUME NEW c \in Calls, NEW d \in Decisions, NEW path \in Paths,
             ApplyLocally(c, d, path)
       PROVE  (ConsentRequired /\ DecisionWasSent)'
    BY <2>12 DEF ApplyLocally, Unhandled, Confirm, Return, Ruling, TypeOK,
        Answers, Decisions
  <2>13. ASSUME NEW c \in Calls, NEW d \in Decisions, NEW path \in Paths,
             NoLocalEntry(c, d, path)
       PROVE  (ConsentRequired /\ DecisionWasSent)'
    BY <2>13 DEF NoLocalEntry, Unhandled, Confirm, BridgeAt, TypeOK,
        Answers, Decisions
  <2>14. ASSUME NEW c \in Calls, NEW d \in Decisions, NEW path \in Paths,
             ResolveUpstream(c, d, path)
       PROVE  (ConsentRequired /\ DecisionWasSent)'
    BY <2>14 DEF ResolveUpstream, Unhandled, Confirm, BridgeAt, TypeOK,
        Answers, Decisions
  <2>15. ASSUME NEW c \in Calls, NEW d \in Decisions, NEW path \in Paths,
             ResolveFails(c, d, path)
       PROVE  (ConsentRequired /\ DecisionWasSent)'
    BY <2>15 DEF ResolveFails, Unhandled, Confirm, BridgeAt, TypeOK,
        Answers, Decisions
  <2>16. CASE UNCHANGED vars
    BY <2>16 DEF vars, TypeOK, Answers, Decisions
  <2> QED
    BY <2>1, <2>2, <2>3, <2>4, <2>5, <2>6, <2>7, <2>8, <2>9, <2>10, <2>11,
        <2>12, <2>13, <2>14, <2>15, <2>16, Zenon DEF Next, HookStep,
        AnswerStep

\* A confirmed answer settles its call.
LEMMA SubmittedInductive ==
    /\ TypeOK /\ RegisteredOnce /\ PendingIsWaiting
    /\ SubmittedOnce /\ SubmittedSettles /\ [Next]_vars
    => SubmittedOnce' /\ SubmittedSettles'
<1> SUFFICES ASSUME TypeOK, RegisteredOnce, PendingIsWaiting,
                    SubmittedOnce, SubmittedSettles, [Next]_vars
             PROVE  (SubmittedOnce /\ SubmittedSettles)'
  OBVIOUS
<1> USE DEF SubmittedOnce, SubmittedSettles
<1> QED
  <2>1. ASSUME NEW c \in Calls, CallTool(c)
       PROVE  (SubmittedOnce /\ SubmittedSettles)'
    BY <2>1 DEF CallTool, TypeOK, RegisteredOnce, Decisions
  <2>2. ASSUME NEW c \in Calls, FlagRead(c)
       PROVE  (SubmittedOnce /\ SubmittedSettles)'
    BY <2>2 DEF FlagRead, Return, TypeOK, RegisteredOnce, Decisions
  <2>3. ASSUME NEW c \in Calls, RegisterUpstream(c)
       PROVE  (SubmittedOnce /\ SubmittedSettles)'
    BY <2>3 DEF RegisterUpstream, TypeOK, RegisteredOnce, Decisions
  <2>4. ASSUME NEW c \in Calls, RegisterLocal(c)
       PROVE  (SubmittedOnce /\ SubmittedSettles)'
    BY <2>4 DEF RegisterLocal, TypeOK, RegisteredOnce, Decisions
  <2>5. ASSUME NEW c \in Calls, BroadcastReturns(c)
       PROVE  (SubmittedOnce /\ SubmittedSettles)'
    BY <2>5 DEF BroadcastReturns, TypeOK, RegisteredOnce, Decisions
  <2>6. ASSUME NEW c \in Calls, LocalTimeout(c)
       PROVE  (SubmittedOnce /\ SubmittedSettles)'
    BY <2>6 DEF LocalTimeout, Return, TypeOK, RegisteredOnce, Decisions
  <2>7. ASSUME NEW c \in Calls, WaitReturns(c)
       PROVE  (SubmittedOnce /\ SubmittedSettles)'
    BY <2>7 DEF WaitReturns, Return, Ruling, TypeOK, RegisteredOnce,
        Decisions
  <2>8. ASSUME NEW c \in Calls, WaitFails(c)
       PROVE  (SubmittedOnce /\ SubmittedSettles)'
    BY <2>8 DEF WaitFails, Return, TypeOK, RegisteredOnce, Decisions
  <2>9. ASSUME NEW c \in Calls, BroadcastLands(c)
       PROVE  (SubmittedOnce /\ SubmittedSettles)'
    BY <2>9 DEF BroadcastLands, TypeOK, RegisteredOnce, Decisions
  <2>10. ASSUME NEW c \in Calls, ManagerExpires(c)
       PROVE  (SubmittedOnce /\ SubmittedSettles)'
    BY <2>10 DEF ManagerExpires, TypeOK, RegisteredOnce, Decisions
  <2>11. ASSUME NEW c \in Calls, NEW d \in Decisions, UserAnswers(c, d)
       PROVE  (SubmittedOnce /\ SubmittedSettles)'
    BY <2>11 DEF UserAnswers, TypeOK, RegisteredOnce, Decisions
  <2>12. ASSUME NEW c \in Calls, NEW d \in Decisions, NEW path \in Paths,
             ApplyLocally(c, d, path)
       PROVE  (SubmittedOnce /\ SubmittedSettles)'
    <3>1. /\ id[c] = "local" /\ pc[c] = "wait"
          /\ pc' = [pc EXCEPT ![c] = "done"]
          /\ UNCHANGED <<id, mgr>>
      BY <2>12 DEF ApplyLocally, Return, PendingIsWaiting
    <3>2. \A e \in Decisions, p \in Paths : reply[<<c, e, p>>] # "submitted"
      BY <3>1
    <3>3. \A b \in Calls, e \in Decisions, p \in Paths :
            reply'[<<b, e, p>>] =
                IF <<b, e, p>> = <<c, d, path>> THEN "submitted"
                                                ELSE reply[<<b, e, p>>]
      BY <2>12 DEF ApplyLocally, Confirm, TypeOK, Handlings
    <3>4. SubmittedOnce'
      BY <3>2, <3>3
    <3>5. SubmittedSettles'
      BY <3>1, <3>3 DEF TypeOK
    <3> QED
      BY <3>4, <3>5
  <2>13. ASSUME NEW c \in Calls, NEW d \in Decisions, NEW path \in Paths,
             NoLocalEntry(c, d, path)
       PROVE  (SubmittedOnce /\ SubmittedSettles)'
    <3>1. UNCHANGED <<pc, id, mgr>>
      BY <2>13 DEF NoLocalEntry
    <3>2. \A b \in Calls, e \in Decisions, p \in Paths :
            reply'[<<b, e, p>>] = "submitted"
                => reply[<<b, e, p>>] = "submitted"
      BY <2>13 DEF NoLocalEntry, Confirm, TypeOK, Handlings
    <3> QED
      BY <3>1, <3>2
  <2>14. ASSUME NEW c \in Calls, NEW d \in Decisions, NEW path \in Paths,
             ResolveUpstream(c, d, path)
       PROVE  (SubmittedOnce /\ SubmittedSettles)'
    <3>1. id[c] = "upstream" /\ UNCHANGED <<pc, id>>
      BY <2>14 DEF ResolveUpstream
    <3>2. CASE mgr[c] = "pending" /\ Confirm(c, d, path, "submitted")
      <4>1. \A e \in Decisions, p \in Paths :
                reply[<<c, e, p>>] # "submitted"
        BY <3>1, <3>2 DEF Decisions
      <4>2. \A b \in Calls, e \in Decisions, p \in Paths :
              reply'[<<b, e, p>>] =
                  IF <<b, e, p>> = <<c, d, path>> THEN "submitted"
                                                  ELSE reply[<<b, e, p>>]
        BY <3>2 DEF Confirm, TypeOK, Handlings
      <4>3. mgr' = [mgr EXCEPT ![c] = d]
        BY <2>14, <3>2 DEF ResolveUpstream
      <4>4. SubmittedOnce'
        BY <4>1, <4>2
      <4>5. SubmittedSettles'
        BY <3>1, <4>2, <4>3 DEF TypeOK
      <4> QED
        BY <4>4, <4>5
    <3>3. CASE Confirm(c, d, path, "unmatched")
      <4>1. \A b \in Calls, e \in Decisions, p \in Paths :
              reply'[<<b, e, p>>] = "submitted"
                => reply[<<b, e, p>>] = "submitted"
        BY <3>3 DEF Confirm, TypeOK, Handlings
      <4>2. UNCHANGED mgr \/ mgr' = [mgr EXCEPT ![c] = d]
        BY <2>14 DEF ResolveUpstream
      <4>3. SubmittedOnce'
        BY <4>1
      <4>4. SubmittedSettles'
        BY <3>1, <4>1, <4>2 DEF TypeOK
      <4> QED
        BY <4>3, <4>4
    <3> QED
      BY <2>14, <3>2, <3>3 DEF ResolveUpstream
  <2>15. ASSUME NEW c \in Calls, NEW d \in Decisions, NEW path \in Paths,
             ResolveFails(c, d, path)
       PROVE  (SubmittedOnce /\ SubmittedSettles)'
    <3>1. UNCHANGED <<pc, id, mgr>>
      BY <2>15 DEF ResolveFails
    <3>2. \A b \in Calls, e \in Decisions, p \in Paths :
            reply'[<<b, e, p>>] = "submitted"
                => reply[<<b, e, p>>] = "submitted"
      BY <2>15 DEF ResolveFails, Confirm, TypeOK, Handlings
    <3> QED
      BY <3>1, <3>2
  <2>16. CASE UNCHANGED vars
    BY <2>16 DEF vars, TypeOK, RegisteredOnce, Decisions
  <2> QED
    BY <2>1, <2>2, <2>3, <2>4, <2>5, <2>6, <2>7, <2>8, <2>9, <2>10, <2>11,
        <2>12, <2>13, <2>14, <2>15, <2>16, Zenon DEF Next, HookStep,
        AnswerStep

\* GateInv holds in every state.
THEOREM GateCorrect == Spec => []GateInv
<1>1. Init => GateInv
  BY DEF Init, GateInv, ConsentRequired, SubmittedOnce, PendingIsWaiting,
         RegisteredOnce, DecisionWasSent, SubmittedSettles,
         Answers, Handlings, Decisions
<1>2. TypeOK /\ GateInv /\ [Next]_vars => GateInv'
  BY RegisteredInductive, ConsentInductive, SubmittedInductive
     DEF GateInv
<1> QED
  BY <1>1, <1>2, TypeCorrect, PTL DEF Spec

\* A held call runs only if the user sent "allow" for it (approvals-gate.js
\* before_tool_call).
THEOREM ConsentCorrect == Spec => []ConsentRequired
<1>1. GateInv => ConsentRequired
  BY DEF GateInv
<1> QED
  BY <1>1, GateCorrect, PTL

\* At most one answer to a call is confirmed (applyDecision, resolve).
THEOREM SubmittedOnceCorrect == Spec => []SubmittedOnce
<1>1. GateInv => SubmittedOnce
  BY DEF GateInv
<1> QED
  BY <1>1, GateCorrect, PTL

\* The local map holds the waiting calls and no other (_pending).
THEOREM PendingCorrect == Spec => []PendingIsWaiting
<1>1. GateInv => PendingIsWaiting
  BY DEF GateInv
<1> QED
  BY <1>1, GateCorrect, PTL

-----------------------------------------------------------------------------
(* Confirmations are kept.                                                 *)

\* KeptInv is preserved by every step.
LEMMA KeptInductive ==
    TypeOK /\ GateInv /\ KeptInv /\ [Next]_vars => KeptInv'
<1> SUFFICES ASSUME TypeOK, GateInv, KeptInv, [Next]_vars
             PROVE  KeptInv'
  OBVIOUS
<1> USE DEF KeptInv, RulingKept, SubmittedRuled, GaveUp
<1>1. PendingIsWaiting /\ RegisteredOnce /\ SubmittedSettles
  BY DEF GateInv
<1> QED
  <2>1. ASSUME NEW c \in Calls, CallTool(c)
       PROVE  KeptInv'
    BY <2>1, <1>1 DEF CallTool, TypeOK, RegisteredOnce, Decisions
  <2>2. ASSUME NEW c \in Calls, FlagRead(c)
       PROVE  KeptInv'
    <3>1. /\ pc[c] = "check" /\ UNCHANGED <<id, mgr, reply>>
          /\ \A b \in Calls \ {c} : pc'[b] = pc[b] /\ verdict'[b] = verdict[b]
      BY <2>2 DEF FlagRead, Return, TypeOK
    <3>2. id[c] = "none"
      BY <1>1, <3>1 DEF RegisteredOnce
    <3>3. RulingKept'
      BY <3>1, <3>2
    <3>4. SubmittedRuled'
      BY <3>1, <3>2
    <3> QED
      BY <3>3, <3>4
  <2>3. ASSUME NEW c \in Calls, RegisterUpstream(c)
       PROVE  KeptInv'
    <3>1. /\ pc[c] = "register" /\ id[c] = "none"
          /\ pc' = [pc EXCEPT ![c] = "announce"]
          /\ id' = [id EXCEPT ![c] = "upstream"]
          /\ mgr' = [mgr EXCEPT ![c] = "pending"]
          /\ UNCHANGED <<reply, verdict>>
      BY <1>1, <2>3 DEF RegisterUpstream, RegisteredOnce
    <3>2. RulingKept'
      BY <3>1 DEF TypeOK
    <3>3. SubmittedRuled'
      BY <3>1 DEF TypeOK
    <3> QED
      BY <3>2, <3>3
  <2>4. ASSUME NEW c \in Calls, RegisterLocal(c)
       PROVE  KeptInv'
    BY <2>4, <1>1 DEF RegisterLocal, TypeOK, RegisteredOnce, Decisions
  <2>5. ASSUME NEW c \in Calls, BroadcastReturns(c)
       PROVE  KeptInv'
    BY <2>5, <1>1 DEF BroadcastReturns, TypeOK, RegisteredOnce, Decisions
  <2>6. ASSUME NEW c \in Calls, LocalTimeout(c)
       PROVE  KeptInv'
    BY <2>6, <1>1 DEF LocalTimeout, Return, PendingIsWaiting, TypeOK,
        RegisteredOnce, Decisions
  <2>7. ASSUME NEW c \in Calls, WaitReturns(c)
       PROVE  KeptInv'
    <3>1. /\ id[c] = "upstream" /\ pc[c] = "wait" /\ mgr[c] # "pending"
          /\ pc' = [pc EXCEPT ![c] = "done"]
          /\ verdict' = [verdict EXCEPT ![c] =
                IF mgr[c] = "expired" THEN "timeout" ELSE Ruling(mgr[c])]
          /\ UNCHANGED <<id, mgr, reply>>
      BY <2>7 DEF WaitReturns, Return
    <3>2. RulingKept'
      BY <3>1 DEF TypeOK
    <3>3. SubmittedRuled'
      BY <3>1 DEF TypeOK
    <3> QED
      BY <3>2, <3>3
  <2>8. ASSUME NEW c \in Calls, WaitFails(c)
       PROVE  KeptInv'
    BY <2>8, <1>1 DEF WaitFails, Return, TypeOK, RegisteredOnce, Decisions
  <2>9. ASSUME NEW c \in Calls, BroadcastLands(c)
       PROVE  KeptInv'
    BY <2>9, <1>1 DEF BroadcastLands, TypeOK, RegisteredOnce, Decisions
  <2>10. ASSUME NEW c \in Calls, ManagerExpires(c)
       PROVE  KeptInv'
    BY <2>10, <1>1 DEF ManagerExpires, TypeOK, RegisteredOnce, Decisions
  <2>11. ASSUME NEW c \in Calls, NEW d \in Decisions, UserAnswers(c, d)
       PROVE  KeptInv'
    BY <2>11, <1>1 DEF UserAnswers, TypeOK, RegisteredOnce, Decisions
  <2>12. ASSUME NEW c \in Calls, NEW d \in Decisions, NEW path \in Paths,
             ApplyLocally(c, d, path)
       PROVE  KeptInv'
    <3>1. /\ reply' = [reply EXCEPT ![<<c, d, path>>] = "submitted"]
          /\ c \in pending /\ id[c] = "local"
          /\ pc' = [pc EXCEPT ![c] = "done"]
          /\ verdict' = [verdict EXCEPT ![c] = Ruling(d)]
          /\ UNCHANGED <<id, mgr>>
      BY <2>12 DEF ApplyLocally, Confirm, Return
    <3>2. \A e \in Decisions, p \in Paths : reply[<<c, e, p>>] # "submitted"
      BY <1>1, <3>1 DEF PendingIsWaiting, SubmittedSettles
    <3>3. \A b \in Calls, e \in Decisions, p \in Paths :
            reply'[<<b, e, p>>] =
                IF <<b, e, p>> = <<c, d, path>> THEN "submitted"
                                                ELSE reply[<<b, e, p>>]
      BY <3>1 DEF TypeOK, Handlings
    <3>4. RulingKept'
      BY <3>1 DEF TypeOK
    <3>5. SubmittedRuled'
      BY <3>1, <3>2, <3>3 DEF TypeOK
    <3> QED
      BY <3>4, <3>5
  <2>13. ASSUME NEW c \in Calls, NEW d \in Decisions, NEW path \in Paths,
             NoLocalEntry(c, d, path)
       PROVE  KeptInv'
    <3>1. UNCHANGED <<pc, id, mgr, verdict>>
      BY <2>13 DEF NoLocalEntry
    <3>2. \A b \in Calls, e \in Decisions, p \in Paths :
            reply'[<<b, e, p>>] = "submitted"
                => reply[<<b, e, p>>] = "submitted"
      BY <2>13 DEF NoLocalEntry, Confirm, TypeOK, Handlings
    <3> QED
      BY <3>1, <3>2
  <2>14. ASSUME NEW c \in Calls, NEW d \in Decisions, NEW path \in Paths,
             ResolveUpstream(c, d, path)
       PROVE  KeptInv'
    <3>1. /\ id[c] = "upstream" /\ UNCHANGED <<pc, id, verdict>>
      BY <2>14 DEF ResolveUpstream
    <3>2. CASE mgr[c] = "pending"
      <4>1. mgr' = [mgr EXCEPT ![c] = d]
        BY <2>14, <3>2 DEF ResolveUpstream
      <4>2. PICK text \in {"submitted", "unmatched"} :
                reply' = [reply EXCEPT ![<<c, d, path>>] = text]
        BY <2>14, <3>2 DEF ResolveUpstream, Confirm
      <4>3. \A e \in Decisions, p \in Paths :
                reply[<<c, e, p>>] # "submitted"
        BY <1>1, <3>1, <3>2 DEF SubmittedSettles, Decisions
      <4>4. \A b \in Calls, e \in Decisions, p \in Paths :
              reply'[<<b, e, p>>] =
                  IF <<b, e, p>> = <<c, d, path>> THEN text
                                                  ELSE reply[<<b, e, p>>]
        BY <4>2 DEF TypeOK, Handlings
      <4>5. pc[c] = "done" => GaveUp(c)
        BY <3>1, <3>2
      <4>6. RulingKept'
        BY <3>1, <4>1, <4>5 DEF TypeOK
      <4>7. SubmittedRuled'
        BY <3>1, <4>1, <4>3, <4>4 DEF TypeOK
      <4> QED
        BY <4>6, <4>7
    <3>3. CASE mgr[c] # "pending"
      <4>1. UNCHANGED mgr /\ Confirm(c, d, path, "unmatched")
        BY <2>14, <3>3 DEF ResolveUpstream
      <4>2. \A b \in Calls, e \in Decisions, p \in Paths :
              reply'[<<b, e, p>>] = "submitted" =>
                reply[<<b, e, p>>] = "submitted"
        BY <4>1 DEF Confirm, TypeOK, Handlings
      <4> QED
        BY <3>1, <4>1, <4>2
    <3> QED
      BY <3>2, <3>3
  <2>15. ASSUME NEW c \in Calls, NEW d \in Decisions, NEW path \in Paths,
             ResolveFails(c, d, path)
       PROVE  KeptInv'
    <3>1. UNCHANGED <<pc, id, mgr, verdict>>
      BY <2>15 DEF ResolveFails
    <3>2. \A b \in Calls, e \in Decisions, p \in Paths :
            reply'[<<b, e, p>>] = "submitted"
                => reply[<<b, e, p>>] = "submitted"
      BY <2>15 DEF ResolveFails, Confirm, TypeOK, Handlings
    <3> QED
      BY <3>1, <3>2
  <2>16. CASE UNCHANGED vars
    BY <2>16, <1>1 DEF vars, TypeOK, RegisteredOnce, Decisions
  <2> QED
    BY <2>1, <2>2, <2>3, <2>4, <2>5, <2>6, <2>7, <2>8, <2>9, <2>10, <2>11,
        <2>12, <2>13, <2>14, <2>15, <2>16, Zenon DEF Next, HookStep,
        AnswerStep

\* Where "submitted" was posted, the hook returns that decision, or times out
\* because waitDecision failed, and never returns the opposite.
THEOREM ConfirmationCorrect == Spec => []ConfirmationKept
<1>1. Init => KeptInv
  BY DEF Init, KeptInv, RulingKept, SubmittedRuled,
         Answers, Handlings, Decisions
<1>2. TypeOK /\ GateInv /\ KeptInv /\ [Next]_vars => KeptInv'
  BY KeptInductive
<1>3. TypeOK /\ GateInv /\ KeptInv => ConfirmationKept
  BY DEF TypeOK, GateInv, RegisteredOnce, KeptInv, RulingKept,
         SubmittedRuled, ConfirmationKept, GaveUp, Ruling, Steps, Decisions
<1> QED
  BY <1>1, <1>2, <1>3, TypeCorrect, GateCorrect, PTL DEF Spec

-----------------------------------------------------------------------------
(* The promise of module Consent.                                          *)

\* The user can only answer what is registered.
ShownIsRegistered == \A c \in shown : c \in Calls /\ id[c] # "none"

LEMMA ShownCorrect == Spec => []ShownIsRegistered
<1>1. Init => ShownIsRegistered
  BY DEF Init, ShownIsRegistered
<1>2. TypeOK /\ GateInv /\ ShownIsRegistered /\ [Next]_vars
        => ShownIsRegistered'
  <2> SUFFICES ASSUME TypeOK, GateInv, ShownIsRegistered, [Next]_vars
               PROVE  ShownIsRegistered'
    OBVIOUS
  <2> USE DEF ShownIsRegistered
  <2>1. ASSUME NEW c \in Calls, BroadcastLands(c) PROVE ShownIsRegistered'
    BY <2>1 DEF BroadcastLands
  <2>2. ASSUME NEW c \in Calls, RegisterUpstream(c) \/ RegisterLocal(c)
        PROVE  ShownIsRegistered'
    BY <2>2 DEF RegisterUpstream, RegisterLocal, TypeOK
  <2>3. CASE UNCHANGED <<id, shown>>
    BY <2>3
  <2>4. ASSUME NEW c \in Calls, HookStep(c) PROVE ShownIsRegistered'
    <3>1. \/ RegisterUpstream(c) \/ RegisterLocal(c)
          \/ UNCHANGED <<id, shown>>
      BY <2>4 DEF HookStep, CallTool, FlagRead, BroadcastReturns,
                  LocalTimeout, WaitReturns, WaitFails
    <3> QED
      BY <2>2, <2>3, <3>1
  <2>5. ASSUME NEW c \in Calls, NEW d \in Decisions, NEW path \in Paths,
               AnswerStep(c, d, path)
        PROVE  ShownIsRegistered'
    BY <2>5, <2>3 DEF AnswerStep, ApplyLocally, NoLocalEntry,
                      ResolveUpstream, ResolveFails
  <2>6. ASSUME NEW c \in Calls, NEW d \in Decisions,
               ManagerExpires(c) \/ UserAnswers(c, d)
        PROVE  ShownIsRegistered'
    BY <2>6, <2>3 DEF ManagerExpires, UserAnswers
  <2>7. CASE UNCHANGED vars
    BY <2>7, <2>3 DEF vars
  <2> QED
    BY <2>1, <2>4, <2>5, <2>6, <2>7 DEF Next, Decisions
<1> QED
  BY <1>1, <1>2, TypeCorrect, GateCorrect, PTL DEF Spec

\* The state of the promise.
Asked   == {c \in Calls : id[c] # "none"}
Rulings == [c \in Calls |-> Taken(c)]

\* A call that has not ended and of which the manager holds no decision has
\* no ruling.
LEMMA NoneTaken ==
    ASSUME NEW c \in Calls, mgr[c] \notin Decisions,
           verdict[c] \notin {"approved", "denied"} \/ id[c] # "local"
    PROVE  Taken(c) = "none"
BY DEF Taken

\* A confirmation adds its answer to those submitted; any other text adds none.
LEMMA SubmittedStep ==
    ASSUME TypeOK, NEW c \in Calls, NEW d \in Decisions, NEW path \in Paths,
           NEW text, Unhandled(c, d, path), Confirm(c, d, path, text)
    PROVE  /\ text = "submitted" => Submitted' = Submitted \cup {<<c, d>>}
           /\ text # "submitted" => Submitted' = Submitted
<1>1. \A a \in Answers, p \in Paths :
        reply'[<<a[1], a[2], p>>] =
            IF a = <<c, d>> /\ p = path THEN text ELSE reply[<<a[1], a[2], p>>]
  BY DEF Confirm, TypeOK, Handlings, Answers
<1>2. <<c, d>> \in Answers /\ reply[<<c, d, path>>] = "none"
  BY DEF Answers, Unhandled
<1>3. CASE text = "submitted"
  BY <1>1, <1>2, <1>3 DEF Submitted
<1>4. CASE text # "submitted"
  <2>1. \A a \in Answers, p \in Paths :
            reply'[<<a[1], a[2], p>>] = "submitted"
                <=> reply[<<a[1], a[2], p>>] = "submitted"
    <3> SUFFICES ASSUME NEW a \in Answers, NEW p \in Paths
                 PROVE  reply'[<<a[1], a[2], p>>] = "submitted"
                            <=> reply[<<a[1], a[2], p>>] = "submitted"
      OBVIOUS
    <3>1. CASE a = <<c, d>> /\ p = path
      <4>1. a[1] = c /\ a[2] = d
        BY <3>1
      <4>2. reply'[<<a[1], a[2], p>>] = text
        BY <1>1, <3>1
      <4>3. reply[<<a[1], a[2], p>>] = "none"
        BY <1>2, <3>1, <4>1
      <4> QED
        BY <1>4, <4>2, <4>3
    <3>2. CASE ~(a = <<c, d>> /\ p = path)
      <4>1. reply'[<<a[1], a[2], p>>] = reply[<<a[1], a[2], p>>]
        BY <1>1, <3>2
      <4> QED
        BY <4>1
    <3> QED
      BY <3>1, <3>2
  <2> QED
    BY <1>4, <2>1 DEF Submitted
<1> QED
  BY <1>3, <1>4

\* Every step of the gate is a step of the promise, or none.
LEMMA ConsentStep ==
    TypeOK /\ RegisteredOnce /\ PendingIsWaiting /\ ShownIsRegistered
        /\ [Next]_vars
        => [Abstract!Next]_(Abstract!vars)
<1> SUFFICES ASSUME TypeOK, RegisteredOnce, PendingIsWaiting,
                    ShownIsRegistered, [Next]_vars
             PROVE  [Abstract!Next]_(Abstract!vars)
  OBVIOUS
<1>a. ASSUME UNCHANGED <<id, sent, Rulings, Submitted, verdict>>
      PROVE  [Abstract!Next]_(Abstract!vars)
  BY <1>a DEF Abstract!vars, Rulings
<1>b. ASSUME UNCHANGED <<id, mgr, verdict>> PROVE UNCHANGED Rulings
  BY <1>b DEF Rulings, Taken
<1>c. ASSUME UNCHANGED reply PROVE UNCHANGED Submitted
  BY <1>c DEF Submitted
<1>d. \A c \in Calls : Rulings[c] = Taken(c)
  BY DEF Rulings
<1>1. ASSUME NEW c \in Calls,
             \/ CallTool(c) \/ BroadcastLands(c) \/ BroadcastReturns(c)
      PROVE  [Abstract!Next]_(Abstract!vars)
  <2>1. UNCHANGED <<id, sent, mgr, reply, verdict>>
    BY <1>1 DEF CallTool, BroadcastLands, BroadcastReturns
  <2> QED
    BY <2>1, <1>a, <1>b, <1>c
<1>2. ASSUME NEW c \in Calls, FlagRead(c)
      PROVE  [Abstract!Next]_(Abstract!vars)
  <2>1. /\ pc[c] = "check" /\ UNCHANGED <<id, pending, mgr, shown, sent, reply>>
        /\ UNCHANGED verdict \/ verdict' = [verdict EXCEPT ![c] = "open"]
    BY <1>2 DEF FlagRead, Return
  <2>2. id[c] = "none" /\ verdict[c] = "none"
    BY <2>1 DEF RegisteredOnce
  <2>3. UNCHANGED Rulings
    BY <2>1, <2>2 DEF Rulings, Taken, TypeOK
  <2>4. CASE UNCHANGED verdict
    BY <2>1, <2>3, <2>4, <1>a, <1>c
  <2>5. CASE verdict' = [verdict EXCEPT ![c] = "open"]
    <3>1. Abstract!LetThrough(c)
      BY <2>1, <2>2, <2>3, <2>5, <1>c DEF Abstract!LetThrough, Rulings
    <3> QED
      BY <3>1 DEF Abstract!Next
  <2> QED
    BY <2>1, <2>4, <2>5
<1>3. ASSUME NEW c \in Calls, RegisterUpstream(c) \/ RegisterLocal(c)
      PROVE  [Abstract!Next]_(Abstract!vars)
  <2>1. /\ pc[c] = "register" /\ UNCHANGED <<sent, reply, verdict>>
        /\ \/ id' = [id EXCEPT ![c] = "upstream"]
           \/ id' = [id EXCEPT ![c] = "local"]
        /\ mgr' = mgr \/ mgr' = [mgr EXCEPT ![c] = "pending"]
    BY <1>3 DEF RegisterUpstream, RegisterLocal
  <2>2. id[c] = "none" /\ verdict[c] = "none" /\ mgr[c] = "none"
    BY <2>1 DEF RegisteredOnce, TypeOK
  <2>3. Asked' = Asked \cup {c} /\ c \notin Asked
    BY <2>1, <2>2 DEF Asked, TypeOK
  <2>4. UNCHANGED Rulings
    <3>1. ASSUME NEW b \in Calls PROVE Taken(b)' = Taken(b)
      BY <2>1, <2>2 DEF Taken, TypeOK, Decisions
    <3> QED
      BY <3>1 DEF Rulings
  <2>5. Abstract!Ask(c)
    BY <2>1, <2>2, <2>3, <2>4, <1>c DEF Abstract!Ask, Asked, Rulings
  <2> QED
    BY <2>5 DEF Abstract!Next
<1>4. ASSUME NEW c \in Calls, verdict[c] = "none", id[c] # "none",
             Taken(c) = "none" \/ RpcFails,
             verdict' = [verdict EXCEPT ![c] = "timeout"],
             UNCHANGED <<id, mgr, sent, reply>>
      PROVE  [Abstract!Next]_(Abstract!vars)
  <2>1. UNCHANGED Rulings
    <3>1. ASSUME NEW b \in Calls PROVE Taken(b)' = Taken(b)
      BY <1>4 DEF Taken, TypeOK
    <3> QED
      BY <3>1 DEF Rulings
  <2>2. Abstract!Block(c)
    BY <2>1, <1>4, <1>c, <1>d DEF Abstract!Block, Rulings
  <2> QED
    BY <2>2 DEF Abstract!Next
<1>5. ASSUME NEW c \in Calls, LocalTimeout(c)
      PROVE  [Abstract!Next]_(Abstract!vars)
  <2>1. /\ c \in pending /\ verdict' = [verdict EXCEPT ![c] = "timeout"]
        /\ UNCHANGED <<id, mgr, sent, reply>>
    BY <1>5 DEF LocalTimeout, Return
  <2>2. id[c] = "local" /\ verdict[c] = "none" /\ mgr[c] = "none"
    BY <2>1 DEF PendingIsWaiting, RegisteredOnce, TypeOK
  <2>3. Taken(c) = "none"
    BY <2>2, NoneTaken DEF Decisions
  <2> QED
    BY <2>1, <2>2, <2>3, <1>4
<1>6. ASSUME NEW c \in Calls, WaitReturns(c)
      PROVE  [Abstract!Next]_(Abstract!vars)
  <2>1. /\ pc[c] = "wait" /\ id[c] = "upstream" /\ mgr[c] # "pending"
        /\ verdict' = [verdict EXCEPT ![c] =
                IF mgr[c] = "expired" THEN "timeout" ELSE Ruling(mgr[c])]
        /\ UNCHANGED <<id, mgr, sent, reply>>
    BY <1>6 DEF WaitReturns, Return
  <2>2. verdict[c] = "none" /\ mgr[c] \in {"expired"} \cup Decisions
    BY <2>1 DEF RegisteredOnce, TypeOK
  <2>3. CASE mgr[c] = "expired"
    <3>1. Taken(c) = "none"
      BY <2>1, <2>3, NoneTaken DEF Decisions
    <3> QED
      BY <2>1, <2>2, <2>3, <3>1, <1>4
  <2>4. CASE mgr[c] \in Decisions
    <3>1. Taken(c) = mgr[c] /\ mgr[c] # "none" /\ mgr[c] # "expired"
      BY <2>1, <2>4 DEF Taken, Decisions
    <3>2. UNCHANGED Rulings
      <4>1. ASSUME NEW b \in Calls PROVE Taken(b)' = Taken(b)
        BY <2>1 DEF Taken, TypeOK
      <4> QED
        BY <4>1 DEF Rulings
    <3>3. Abstract!Return(c)
      BY <2>1, <2>2, <3>1, <3>2, <1>c, <1>d
         DEF Abstract!Return, Abstract!Verdict, Ruling, Rulings
    <3> QED
      BY <3>3 DEF Abstract!Next
  <2> QED
    BY <2>2, <2>3, <2>4
<1>7. ASSUME NEW c \in Calls, WaitFails(c)
      PROVE  [Abstract!Next]_(Abstract!vars)
  <2>1. /\ pc[c] = "wait" /\ id[c] = "upstream" /\ RpcFails
        /\ verdict' = [verdict EXCEPT ![c] = "timeout"]
        /\ UNCHANGED <<id, mgr, sent, reply>>
    BY <1>7 DEF WaitFails, Return
  <2>2. verdict[c] = "none"
    BY <2>1 DEF RegisteredOnce, TypeOK
  <2> QED
    BY <2>1, <2>2, <1>4
<1>8. ASSUME NEW c \in Calls, ManagerExpires(c)
      PROVE  [Abstract!Next]_(Abstract!vars)
  <2>1. /\ mgr[c] = "pending" /\ mgr' = [mgr EXCEPT ![c] = "expired"]
        /\ UNCHANGED <<id, sent, reply, verdict>>
    BY <1>8 DEF ManagerExpires
  <2>2. UNCHANGED Rulings
    <3>1. ASSUME NEW b \in Calls PROVE Taken(b)' = Taken(b)
      BY <2>1 DEF Taken, TypeOK, Decisions
    <3> QED
      BY <3>1 DEF Rulings
  <2> QED
    BY <2>1, <2>2, <1>a, <1>c
<1>9. ASSUME NEW c \in Calls, NEW d \in Decisions, UserAnswers(c, d)
      PROVE  [Abstract!Next]_(Abstract!vars)
  <2>1. /\ id[c] # "none" /\ sent' = sent \cup {<<c, d>>}
        /\ UNCHANGED <<id, mgr, reply, verdict>>
    BY <1>9 DEF UserAnswers, ShownIsRegistered
  <2>2. Abstract!Answer(c, d)
    BY <2>1, <1>b, <1>c DEF Abstract!Answer, Rulings
  <2> QED
    BY <2>2 DEF Abstract!Next, Abstract!Decisions, Decisions
<1>10. ASSUME NEW c \in Calls, NEW d \in Decisions, NEW path \in Paths,
              ApplyLocally(c, d, path)
       PROVE  [Abstract!Next]_(Abstract!vars)
  <2>1. /\ Unhandled(c, d, path) /\ Confirm(c, d, path, "submitted")
        /\ id[c] = "local" /\ c \in pending /\ <<c, d>> \in sent
        /\ verdict' = [verdict EXCEPT ![c] = Ruling(d)]
        /\ UNCHANGED <<id, mgr, sent>>
    BY <1>10 DEF ApplyLocally, Return, Unhandled
  <2>2. verdict[c] = "none" /\ mgr[c] = "none"
    BY <2>1 DEF PendingIsWaiting, RegisteredOnce, TypeOK
  <2>3. Taken(c) = "none"
    BY <2>2, NoneTaken DEF Decisions
  <2>4. Rulings' = [Rulings EXCEPT ![c] = d]
    <3>1. Taken(c)' = d
      BY <2>1, <2>2 DEF Taken, TypeOK, Ruling, Decisions
    <3>2. ASSUME NEW b \in Calls \ {c} PROVE Taken(b)' = Taken(b)
      BY <2>1 DEF Taken, TypeOK
    <3> QED
      BY <3>1, <3>2 DEF Rulings
  <2>5. Submitted' = Submitted \cup {<<c, d>>}
    BY <2>1, SubmittedStep
  <2>6. Abstract!Take(c, d)
    BY <2>1, <2>2, <2>3, <2>4, <2>5, <1>d
       DEF Abstract!Take, Abstract!Verdict, Ruling, Rulings
  <2> QED
    BY <2>6 DEF Abstract!Next, Abstract!Decisions, Decisions
<1>11. ASSUME NEW c \in Calls, NEW d \in Decisions, NEW path \in Paths,
              NoLocalEntry(c, d, path) \/ ResolveFails(c, d, path)
       PROVE  [Abstract!Next]_(Abstract!vars)
  <2>1. PICK text \in {"unmatched", "crashed"} : Confirm(c, d, path, text)
    BY <1>11 DEF NoLocalEntry, ResolveFails
  <2>2. /\ Unhandled(c, d, path)
        /\ UNCHANGED <<id, mgr, sent, verdict>>
    BY <1>11 DEF NoLocalEntry, ResolveFails
  <2>3. UNCHANGED Submitted
    BY <2>1, <2>2, SubmittedStep
  <2> QED
    BY <2>2, <2>3, <1>a, <1>b
<1>12. ASSUME NEW c \in Calls, NEW d \in Decisions, NEW path \in Paths,
              ResolveUpstream(c, d, path)
       PROVE  [Abstract!Next]_(Abstract!vars)
  <2>1. /\ Unhandled(c, d, path) /\ id[c] = "upstream" /\ <<c, d>> \in sent
        /\ UNCHANGED <<id, sent, verdict>>
    BY <1>12 DEF ResolveUpstream, Unhandled
  <2>2. CASE mgr[c] = "pending"
    <3>1. mgr' = [mgr EXCEPT ![c] = d]
      BY <1>12, <2>2 DEF ResolveUpstream
    <3>2. PICK text \in {"submitted", "unmatched"} : Confirm(c, d, path, text)
      BY <1>12, <2>2 DEF ResolveUpstream
    <3>3. Submitted' \in {Submitted, Submitted \cup {<<c, d>>}}
      BY <2>1, <3>2, SubmittedStep
    <3>4. Taken(c) = "none"
      BY <2>1, <2>2, NoneTaken DEF Decisions
    <3>5. Rulings' = [Rulings EXCEPT ![c] = d]
      <4>1. Taken(c)' = d
        BY <2>1, <3>1 DEF Taken, TypeOK, Decisions
      <4>2. ASSUME NEW b \in Calls \ {c} PROVE Taken(b)' = Taken(b)
        BY <2>1, <3>1 DEF Taken, TypeOK
      <4> QED
        BY <4>1, <4>2 DEF Rulings
    <3>6. Abstract!Take(c, d)
      BY <2>1, <3>3, <3>4, <3>5, <1>d DEF Abstract!Take, Rulings
    <3> QED
      BY <3>6 DEF Abstract!Next, Abstract!Decisions, Decisions
  <2>3. CASE mgr[c] # "pending"
    <3>1. UNCHANGED mgr /\ Confirm(c, d, path, "unmatched")
      BY <1>12, <2>3 DEF ResolveUpstream
    <3>2. UNCHANGED Submitted
      BY <2>1, <3>1, SubmittedStep
    <3> QED
      BY <2>1, <3>1, <3>2, <1>a, <1>b
  <2> QED
    BY <2>2, <2>3
<1>13. CASE UNCHANGED vars
  BY <1>13, <1>a, <1>b, <1>c DEF vars
<1> QED
  BY <1>1, <1>2, <1>3, <1>5, <1>6, <1>7, <1>8, <1>9, <1>10, <1>11, <1>12,
     <1>13 DEF Next, HookStep, AnswerStep

\* The gate, with its map, its bridge to the gateway and the two paths of an
\* answer, implements the promise of module Consent.
THEOREM GateImplementsConsent == Spec => ImplementsConsent
<1>1. Init => Abstract!Init
  BY DEF Init, Abstract!Init, Taken, Submitted, Answers, Handlings, Decisions
<1>2. TypeOK /\ GateInv /\ ShownIsRegistered /\ [Next]_vars
        => [Abstract!Next]_(Abstract!vars)
  BY ConsentStep DEF GateInv
<1> QED
  BY <1>1, <1>2, TypeCorrect, GateCorrect, ShownCorrect, PTL
     DEF Spec, ImplementsConsent, Abstract!Spec

-----------------------------------------------------------------------------
(* The markers on the results.                                             *)

\* An approval that an index still leads to was given, stands where its call
\* would look it up, and marks no result yet.
IndicesAreUnused ==
    /\ \A a \in byToolCallId :
        /\ a \in hasId /\ outcome[a] = "approved"
        /\ \A c \in Calls : a \notin marker[c]
    /\ \A k \in SoftKeys : \A a \in bySession[k] :
        /\ outcome[a] = "approved" /\ Key[a] = k
        /\ \A c \in Calls : a \notin marker[c]

MarkersInv == OneShot /\ MarkerIsGenuine /\ IndicesAreUnused

\* What the lookup of the persist hook returns: approvals given for the same
\* soft key that no result bears.
LEMMA MatchIsUnused ==
    ASSUME MarkersTypeOK, MarkersInv, NEW c \in Calls, NEW seesId \in BOOLEAN,
           NEW a \in Match(c, seesId)
    PROVE  /\ a \in Calls /\ outcome[a] = "approved" /\ Key[a] = Key[c]
           /\ \A d \in Calls : a \notin marker[d]
<1>1. Key[c] \in SoftKeys
  BY DEF SoftKeys
<1>2. CASE a = c /\ c \in byToolCallId
  BY <1>2 DEF MarkersInv, IndicesAreUnused
<1>3. CASE a \in bySession[Key[c]]
  BY <1>1, <1>3 DEF MarkersTypeOK, MarkersInv, IndicesAreUnused
<1> QED
  BY <1>2, <1>3 DEF Match

\* What recordApproval leaves in the index of soft keys.
LEMMA SoftEntriesType ==
    ASSUME MarkersTypeOK, NEW c \in Calls
    PROVE  /\ SoftEntries(c) \in [SoftKeys -> SUBSET Calls]
           /\ \A k \in SoftKeys :
                /\ k = Key[c] => SoftEntries(c)[k] = {c}
                /\ k # Key[c] =>
                    SoftEntries(c)[k] \subseteq bySession[k]
BY DEF SoftEntries, Collected, MarkersTypeOK

\* Every variable of the indices keeps its type: what recordApproval and the
\* persist hook can reach.
THEOREM MarkersTypeCorrect == MarkersSpec => []MarkersTypeOK
<1>1. MarkersInit => MarkersTypeOK
  BY DEF MarkersInit, MarkersTypeOK
<1>2. MarkersTypeOK /\ [MarkersNext]_MarkersVars => MarkersTypeOK'
  <2> SUFFICES ASSUME MarkersTypeOK, [MarkersNext]_MarkersVars
               PROVE  MarkersTypeOK'
    OBVIOUS
  <2>1. ASSUME NEW c \in Calls, RecordApproval(c)
        PROVE  MarkersTypeOK'
    BY <2>1, SoftEntriesType DEF RecordApproval, MarkersTypeOK
  <2>2. ASSUME NEW c \in Calls, NoApproval(c) PROVE MarkersTypeOK'
    BY <2>2 DEF NoApproval, MarkersTypeOK
  <2>3. ASSUME NEW c \in Calls, AgeApproval(c) PROVE MarkersTypeOK'
    BY <2>3 DEF AgeApproval, MarkersTypeOK
  <2>4. ASSUME NEW c \in Calls, Persist(c) PROVE MarkersTypeOK'
    <3>1. PICK seesId \in BOOLEAN, markable \in BOOLEAN :
            /\ Forget(Match(c, seesId))
            /\ marker' = [marker EXCEPT ![c] =
                            IF markable THEN Match(c, seesId) ELSE @]
      BY <2>4 DEF Persist
    <3>2. Match(c, seesId) \in SUBSET Calls
      BY DEF Match, MarkersTypeOK, SoftKeys
    <3>3. UNCHANGED <<outcome, hasId, aged>> /\ persisted' = persisted \cup {c}
      BY <2>4 DEF Persist
    <3> QED
      BY <3>1, <3>2, <3>3
         DEF Forget, WithoutKeys, MarkersTypeOK
  <2>5. CASE UNCHANGED MarkersVars
    BY <2>5 DEF MarkersVars, MarkersTypeOK
  <2> QED
    BY <2>1, <2>2, <2>3, <2>4, <2>5 DEF MarkersNext
<1> QED
  BY <1>1, <1>2, PTL DEF MarkersSpec

\* MarkersInv is preserved by every step.
LEMMA MarkersInductive ==
    MarkersTypeOK /\ MarkersInv /\ [MarkersNext]_MarkersVars
        => MarkersInv'
<1> SUFFICES ASSUME MarkersTypeOK, MarkersInv, [MarkersNext]_MarkersVars
             PROVE  MarkersInv'
  OBVIOUS
<1> USE DEF OneShot, MarkerIsGenuine
<1>1. ASSUME NEW c \in Calls, RecordApproval(c) PROVE MarkersInv'
  <2>1. /\ outcome[c] = "none"
        /\ outcome' = [outcome EXCEPT ![c] = "approved"]
        /\ bySession' = SoftEntries(c)
        /\ UNCHANGED marker
    BY <1>1 DEF RecordApproval
  <2>2. \/ hasId' = hasId /\ byToolCallId' \subseteq byToolCallId
        \/ /\ hasId' = hasId \cup {c}
           /\ byToolCallId' \subseteq byToolCallId \cup {c}
    BY <1>1 DEF RecordApproval
  <2>3. \A d \in Calls : c \notin marker[d]
    BY <2>1 DEF MarkersInv
  <2>4. (OneShot /\ MarkerIsGenuine)'
    BY <2>1 DEF MarkersInv, MarkersTypeOK
  <2>5. IndicesAreUnused'
    <3>1. \A a \in byToolCallId' :
            /\ a \in hasId' /\ outcome'[a] = "approved"
            /\ \A d \in Calls : a \notin marker'[d]
      BY <2>1, <2>2, <2>3 DEF MarkersInv, IndicesAreUnused, MarkersTypeOK
    <3>2. ASSUME NEW k \in SoftKeys, NEW a \in bySession'[k]
          PROVE  /\ outcome'[a] = "approved" /\ Key[a] = k
                 /\ \A d \in Calls : a \notin marker'[d]
      <4>1. CASE k = Key[c]
        <5>1. a = c
          BY <2>1, <3>2, <4>1, SoftEntriesType
        <5> QED
          BY <2>1, <2>3, <4>1, <5>1 DEF MarkersTypeOK
      <4>2. CASE k # Key[c]
        <5>1. a \in bySession[k] /\ a \in Calls
          BY <2>1, <3>2, <4>2, SoftEntriesType DEF MarkersTypeOK
        <5> QED
          BY <2>1, <5>1 DEF MarkersInv, IndicesAreUnused, MarkersTypeOK
      <4> QED
        BY <4>1, <4>2
    <3> QED
      BY <3>1, <3>2 DEF IndicesAreUnused, SoftKeys
  <2> QED
    BY <2>4, <2>5 DEF MarkersInv
<1>2. ASSUME NEW c \in Calls, NoApproval(c) PROVE MarkersInv'
  BY <1>2 DEF NoApproval, MarkersInv, IndicesAreUnused,
              MarkersTypeOK, SoftKeys
<1>3. ASSUME NEW c \in Calls, AgeApproval(c) PROVE MarkersInv'
  BY <1>3 DEF AgeApproval, MarkersInv, IndicesAreUnused,
              SoftKeys
<1>4. ASSUME NEW c \in Calls, Persist(c) PROVE MarkersInv'
  <2>1. UNCHANGED <<outcome, hasId>>
    BY <1>4 DEF Persist
  <2>2. PICK seesId \in BOOLEAN, markable \in BOOLEAN :
          /\ Forget(Match(c, seesId))
          /\ marker' = [marker EXCEPT ![c] =
                          IF markable THEN Match(c, seesId) ELSE @]
    BY <1>4 DEF Persist
  <2> DEFINE found == Match(c, seesId)
  <2>3. \A a \in found : /\ a \in Calls /\ outcome[a] = "approved"
                         /\ Key[a] = Key[c]
                         /\ \A d \in Calls : a \notin marker[d]
    BY MatchIsUnused
  <2>4. marker' = marker \/ marker' = [marker EXCEPT ![c] = found]
    BY <2>2 DEF MarkersTypeOK
  <2>5. /\ byToolCallId' = byToolCallId \ found
        /\ \A k \in SoftKeys :
            bySession'[k] \subseteq bySession[k] \ found
    BY <2>2 DEF Forget, WithoutKeys, MarkersInv,
                IndicesAreUnused
  <2> HIDE DEF found
  <2>6. (OneShot /\ MarkerIsGenuine)'
    BY <2>1, <2>3, <2>4 DEF MarkersInv, MarkersTypeOK
  <2>7. IndicesAreUnused'
    BY <2>1, <2>3, <2>4, <2>5
       DEF MarkersInv, IndicesAreUnused, MarkersTypeOK, SoftKeys
  <2> QED
    BY <2>6, <2>7 DEF MarkersInv
<1>5. CASE UNCHANGED MarkersVars
  BY <1>5 DEF MarkersVars, MarkersInv, IndicesAreUnused, SoftKeys
<1> QED
  BY <1>1, <1>2, <1>3, <1>4, <1>5 DEF MarkersNext

\* MarkersInv holds in every state.
THEOREM MarkersCorrect == MarkersSpec => []MarkersInv
<1>1. MarkersInit => MarkersInv
  BY DEF MarkersInit, MarkersInv, OneShot, MarkerIsGenuine,
         IndicesAreUnused
<1>2. MarkersTypeOK /\ MarkersInv /\ [MarkersNext]_MarkersVars
        => MarkersInv'
  BY MarkersInductive
<1> QED
  BY <1>1, <1>2, MarkersTypeCorrect, PTL DEF MarkersSpec

\* An approval marks at most one result (toolResultPersistHook, "one-shot").
THEOREM OneShotCorrect == MarkersSpec => []OneShot
<1>1. MarkersInv => OneShot
  BY DEF MarkersInv
<1> QED
  BY <1>1, MarkersCorrect, PTL

\* A marker tells of an approval given for the same tool and session.
THEOREM GenuineCorrect == MarkersSpec => []MarkerIsGenuine
<1>1. MarkersInv => MarkerIsGenuine
  BY DEF MarkersInv
<1> QED
  BY <1>1, MarkersCorrect, PTL

-----------------------------------------------------------------------------
(* The gate and the markers together: they take their steps side by side,  *)
(* and the gate records an approval only where it lets an approved call    *)
(* through (approvals-gate.js:227).                                        *)

RecordsApproved ==
    \A c \in Calls : outcome[c] = "approved" => verdict[c] = "approved"

\* What a marker tells the model is what the user did.
MarkerWasAllowed ==
    \A c \in Calls : \A a \in marker[c] : <<a, "allow">> \in sent

\* Every approval a result is marked with is one the user sent, whatever
\* answers, timers, lookups and lost ids came in between; even where the soft
\* key marks the result of another call.
THEOREM MarkerWasAllowedCorrect ==
    Spec /\ MarkersSpec /\ []RecordsApproved => []MarkerWasAllowed
<1>1. /\ MarkersTypeOK /\ MarkerIsGenuine
      /\ RecordsApproved /\ ConsentRequired
      => MarkerWasAllowed
  BY DEF MarkersTypeOK, MarkerIsGenuine, RecordsApproved,
         ConsentRequired, MarkerWasAllowed
<1> QED
  BY <1>1, MarkersTypeCorrect, GenuineCorrect, ConsentCorrect, PTL

\* Where no two calls share a soft key, the wrong call is never marked: the
\* sessions and tools that calls have in common are all that stands between
\* the code and its comment (approvals-context.js:12-14).
THEOREM DistinctKeysSuffice ==
    ASSUME \A c, d \in Calls : Key[c] = Key[d] => c = d
    PROVE  MarkersSpec => []MarkedMeansAllowed
<1>1. MarkersTypeOK /\ MarkerIsGenuine => MarkedMeansAllowed
  BY DEF MarkersTypeOK, MarkerIsGenuine, MarkedMeansAllowed
<1> QED
  BY <1>1, MarkersTypeCorrect, GenuineCorrect, PTL
=============================================================================
