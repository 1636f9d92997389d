---------------------------- MODULE ApprovalGate ----------------------------
(***************************************************************************)
(* The approval gate: the before_tool_call hook of src/approvals-gate.js,  *)
(* which holds an exec-shaped tool call until the user answers "/approve   *)
(* <id> <decision>"; the bridge of src/approvals-gate-upstream.js to the   *)
(* gateway's approval manager, over an RPC that may fail at every call;    *)
(* and the routing of the answer in src/messaging.js.                      *)
(*                                                                         *)
(* Abstractions.  allow-once and allow-always, which the gate treats       *)
(* alike, are "allow".  An approval id is the tool call it was made for    *)
(* and the place where it is registered.  A timer may fire in any state.   *)
(* The user answers only an id that the phone has shown.                   *)
(*                                                                         *)
(* A definition whose name ends in _Slip is the one after it with a        *)
(* plausible mistake in the code; no action uses it.                       *)
(***************************************************************************)
EXTENDS Naturals, FiniteSets, ToolCalls

CONSTANTS
    HasBridge,  \* createUpstreamApprovalsBridge succeeded in register()
    RpcFails    \* the loopback RPC to the gateway can fail

ASSUME BridgeAssumption == HasBridge \in BOOLEAN /\ RpcFails \in BOOLEAN

VARIABLES
    pc,         \* where the hook of each call is
    id,         \* where its approval id is registered
    pending,    \* _pending: the calls that the local map holds
    mgr,        \* what the gateway's manager holds for each call
    shown,      \* calls whose request the phone has shown
    sent,       \* answers the user has sent
    reply,      \* the confirmation posted for each answer and delivery
    verdict     \* what the hook has returned

vars == <<pc, id, pending, mgr, shown, sent, reply, verdict>>

Decisions == {"allow", "deny"}
Paths     == {"live", "catchup"}    \* Inbound: onInsert, runCatchUp
Answers   == Calls \X Decisions
Handlings == Calls \X Decisions \X Paths   \* of an answer, once per delivery
Steps     == {"idle", "check", "register", "announce", "wait", "done"}

TypeOK ==
    /\ pc \in [Calls -> Steps]
    /\ id \in [Calls -> {"none", "local", "upstream"}]
    /\ pending \subseteq Calls
    /\ mgr \in [Calls -> {"none", "pending", "expired"} \cup Decisions]
    /\ shown \subseteq Calls
    /\ sent \subseteq Answers
    /\ reply \in [Handlings ->
                    {"none", "submitted", "unmatched", "crashed"}]
    /\ verdict \in [Calls -> {"none", "open", "approved", "denied", "timeout"}]

Init ==
    /\ pc = [c \in Calls |-> "idle"]
    /\ id = [c \in Calls |-> "none"]
    /\ pending = {}
    /\ mgr = [c \in Calls |-> "none"]
    /\ shown = {} /\ sent = {}
    /\ reply = [x \in Handlings |-> "none"]
    /\ verdict = [c \in Calls |-> "none"]

Ruling(d) == IF d = "allow" THEN "approved" ELSE "denied"

Return(c, v) ==
    /\ pc' = [pc EXCEPT ![c] = "done"]
    /\ verdict' = [verdict EXCEPT ![c] = v]

-----------------------------------------------------------------------------
(* The hook.                                                               *)

CallTool(c) ==
    /\ pc[c] = "idle"
    /\ pc' = [pc EXCEPT ![c] = "check"]
    /\ UNCHANGED <<id, pending, mgr, shown, sent, reply, verdict>>

\* The flag has been read: the call passes when approvals are off, or when no
\* session is known to which the request could be broadcast.  Both may change
\* at any time before the read.
FlagRead(c) ==
    /\ pc[c] = "check"
    /\ \E enabled, routable \in BOOLEAN :
        IF enabled /\ routable
        THEN pc' = [pc EXCEPT ![c] = "register"] /\ UNCHANGED verdict
        ELSE Return(c, "open")
    /\ UNCHANGED <<id, pending, mgr, shown, sent, reply>>

\* upstreamBridge.request answers with an id.
RegisterUpstream(c) ==
    /\ pc[c] = "register" /\ HasBridge
    /\ pc' = [pc EXCEPT ![c] = "announce"]
    /\ id' = [id EXCEPT ![c] = "upstream"]
    /\ mgr' = [mgr EXCEPT ![c] = "pending"]
    /\ UNCHANGED <<pending, shown, sent, reply, verdict>>

\* There is no bridge, or its request failed, possibly after the manager has
\* registered it under an id that nobody will know: a local id.
RegisterLocal(c) ==
    /\ pc[c] = "register" /\ (HasBridge => RpcFails)
    /\ pc' = [pc EXCEPT ![c] = "announce"]
    /\ id' = [id EXCEPT ![c] = "local"]
    /\ UNCHANGED <<pending, mgr, shown, sent, reply, verdict>>

\* The phone shows the request, at any time after broadcast() was called.
BroadcastLands(c) ==
    /\ id[c] # "none" /\ c \notin shown
    /\ shown' = shown \cup {c}
    /\ UNCHANGED <<pc, id, pending, mgr, sent, reply, verdict>>

\* Slip: broadcast() throws, for which the hook lets the call through.
BroadcastReturns_Slip(c) ==
    /\ pc[c] = "announce"
    /\ Return(c, "open")
    /\ UNCHANGED <<id, pending, mgr, shown, sent, reply>>

\* broadcast() returns (it never throws); only now does awaitDecision enter
\* a local id in _pending.
BroadcastReturns(c) ==
    /\ pc[c] = "announce"
    /\ pc' = [pc EXCEPT ![c] = "wait"]
    /\ pending' = IF id[c] = "local" THEN pending \cup {c} ELSE pending
    /\ UNCHANGED <<id, mgr, shown, sent, reply, verdict>>

\* Slip: the promise is not resolved.
LocalTimeout_LostSlip(c) ==
    /\ c \in pending
    /\ pending' = pending \ {c}
    /\ UNCHANGED <<pc, id, mgr, shown, sent, reply, verdict>>

\* Slip: the entry is not deleted.
LocalTimeout_LeakSlip(c) ==
    /\ c \in pending
    /\ Return(c, "timeout")
    /\ UNCHANGED <<id, pending, mgr, shown, sent, reply>>

\* The timer of awaitDecision.
LocalTimeout(c) ==
    /\ c \in pending
    /\ pending' = pending \ {c}
    /\ Return(c, "timeout")
    /\ UNCHANGED <<id, mgr, shown, sent, reply>>

\* Slip: whatever is not a denial passes.
WaitReturns_Slip(c) ==
    /\ pc[c] = "wait" /\ id[c] = "upstream" /\ mgr[c] # "pending"
    /\ Return(c, IF mgr[c] = "deny" THEN "denied" ELSE "approved")
    /\ UNCHANGED <<id, pending, mgr, shown, sent, reply>>

\* waitDecision answers: a decision, or null once the manager gave up.
WaitReturns(c) ==
    /\ pc[c] = "wait" /\ id[c] = "upstream" /\ mgr[c] # "pending"
    /\ Return(c, IF mgr[c] = "expired" THEN "timeout" ELSE Ruling(mgr[c]))
    /\ UNCHANGED <<id, pending, mgr, shown, sent, reply>>

\* waitDecision throws: the catch block takes every error for a timeout.
WaitFails(c) ==
    /\ RpcFails
    /\ pc[c] = "wait" /\ id[c] = "upstream"
    /\ Return(c, "timeout")
    /\ UNCHANGED <<id, pending, mgr, shown, sent, reply>>

-----------------------------------------------------------------------------
(* The answer: maybeHandleApproveCommand, once per delivery of the message.*)

UserAnswers(c, d) ==
    /\ c \in shown
    /\ <<c, d>> \notin sent
    /\ sent' = sent \cup {<<c, d>>}
    /\ UNCHANGED <<pc, id, pending, mgr, shown, reply, verdict>>

Unhandled(c, d, path) == <<c, d>> \in sent /\ reply[<<c, d, path>>] = "none"
Confirm(c, d, path, text) == reply' = [reply EXCEPT ![<<c, d, path>>] = text]

\* onInsert passes no upstreamBridge to handleUserMessage; runCatchUp does.
BridgeAt(path) == HasBridge /\ path = "catchup"

\* Slip: the entry stays in the map.
ApplyLocally_Slip(c, d, path) ==
    /\ Unhandled(c, d, path)
    /\ id[c] = "local" /\ c \in pending
    /\ Return(c, Ruling(d))
    /\ Confirm(c, d, path, "submitted")
    /\ UNCHANGED <<id, pending, mgr, shown, sent>>

\* applyDecision finds the entry: the hook returns.
ApplyLocally(c, d, path) ==
    /\ Unhandled(c, d, path)
    /\ id[c] = "local" /\ c \in pending
    /\ pending' = pending \ {c}
    /\ Return(c, Ruling(d))
    /\ Confirm(c, d, path, "submitted")
    /\ UNCHANGED <<id, mgr, shown, sent>>

\* It finds none: a local id that is not (or not yet) registered, or an
\* upstream id where there is no bridge.
NoLocalEntry(c, d, path) ==
    /\ Unhandled(c, d, path)
    /\ IF id[c] = "upstream" THEN ~BridgeAt(path) ELSE c \notin pending
    /\ Confirm(c, d, path, "unmatched")
    /\ UNCHANGED <<pc, id, pending, mgr, shown, sent, verdict>>

\* Slip: a decision can be replaced by a later one.
ResolveUpstream_Slip(c, d, path) ==
    /\ Unhandled(c, d, path)
    /\ id[c] = "upstream" /\ BridgeAt(path)
    /\ mgr' = [mgr EXCEPT ![c] = d]
    /\ Confirm(c, d, path, "submitted")
    /\ UNCHANGED <<pc, id, pending, shown, sent, verdict>>

\* upstreamBridge.resolve reaches the manager; its answer may be lost, which
\* is reported like a mismatch.
ResolveUpstream(c, d, path) ==
    /\ Unhandled(c, d, path)
    /\ id[c] = "upstream" /\ BridgeAt(path)
    /\ IF mgr[c] = "pending"
       THEN /\ mgr' = [mgr EXCEPT ![c] = d]
            /\ \/ Confirm(c, d, path, "submitted")
               \/ RpcFails /\ Confirm(c, d, path, "unmatched")
       ELSE /\ Confirm(c, d, path, "unmatched")
            /\ UNCHANGED mgr
    /\ UNCHANGED <<pc, id, pending, shown, sent, verdict>>

\* It does not: the request fails, or there is no client, which throws past
\* the try block and ends handleUserMessage.
ResolveFails(c, d, path) ==
    /\ RpcFails
    /\ Unhandled(c, d, path)
    /\ id[c] = "upstream" /\ BridgeAt(path)
    /\ \E text \in {"unmatched", "crashed"} : Confirm(c, d, path, text)
    /\ UNCHANGED <<pc, id, pending, mgr, shown, sent, verdict>>

-----------------------------------------------------------------------------
(* The gateway's manager.                                                  *)

ManagerExpires(c) ==
    /\ mgr[c] = "pending"
    /\ mgr' = [mgr EXCEPT ![c] = "expired"]
    /\ UNCHANGED <<pc, id, pending, shown, sent, reply, verdict>>

HookStep(c) ==
    \/ CallTool(c) \/ FlagRead(c) \/ RegisterUpstream(c) \/ RegisterLocal(c)
    \/ BroadcastReturns(c) \/ LocalTimeout(c) \/ WaitReturns(c) \/ WaitFails(c)

AnswerStep(c, d, path) ==
    \/ ApplyLocally(c, d, path) \/ NoLocalEntry(c, d, path)
    \/ ResolveUpstream(c, d, path) \/ ResolveFails(c, d, path)

Next ==
    \/ \E c \in Calls :
        \/ HookStep(c) \/ BroadcastLands(c) \/ ManagerExpires(c)
        \/ \E d \in Decisions :
            UserAnswers(c, d) \/ \E path \in Paths : AnswerStep(c, d, path)

Spec == Init /\ [][Next]_vars

\* The hook's awaits end: file reads and requests are answered or fail, and
\* timers fire, here and in the gateway.
FairSpec ==
    /\ Spec
    /\ \A c \in Calls :
        /\ WF_vars(FlagRead(c)) /\ WF_vars(BroadcastReturns(c))
        /\ WF_vars(RegisterUpstream(c) \/ RegisterLocal(c))
        /\ WF_vars(LocalTimeout(c)) /\ WF_vars(ManagerExpires(c))
        /\ WF_vars(WaitReturns(c) \/ WaitFails(c))

-----------------------------------------------------------------------------
(* Properties.                                                             *)

\* A held call is let through only if the user sent "allow" for it, in spite
\* of late, repeated, contradictory or misrouted answers and of RPC failures.
ConsentRequired ==
    \A c \in Calls : verdict[c] = "approved" => <<c, "allow">> \in sent

\* Of the answers to one call, each delivered once or twice, at most one is
\* confirmed as submitted (applyDecision: "already resolved").
SubmittedOnce ==
    \A c \in Calls, d, e \in Decisions, p, q \in Paths :
        /\ reply[<<c, d, p>>] = "submitted"
        /\ reply[<<c, e, q>>] = "submitted"
        => d = e /\ p = q

\* The local map holds exactly the calls that wait for it: no entry outlives
\* its hook, no hook waits for an entry that is gone.
PendingIsWaiting ==
    pending = {c \in Calls : pc[c] = "wait" /\ id[c] = "local"}

\* The confirmation is kept: where "submitted" was posted, the hook returns
\* that decision and no other, unless its own request for the decision failed.
GaveUp(c) == RpcFails /\ id[c] = "upstream" /\ verdict[c] = "timeout"
ConfirmationKept ==
    \A c \in Calls, d \in Decisions, path \in Paths :
        reply[<<c, d, path>>] = "submitted"
            => verdict[c] \in {"none", Ruling(d)} \/ GaveUp(c)

\* A tool call never hangs: every hook returns.
HooksReturn == \A c \in Calls : pc[c] = "check" ~> pc[c] = "done"

\* "upstream id (`plugin:<uuid>`) routes to the upstream bridge -> resolves
\* against the gateway's pluginApprovalManager" (messaging.js:75-76).
UpstreamIdsReachManager ==
    [][\A c \in Calls, d \in Decisions, path \in Paths :
        /\ id[c] = "upstream" /\ mgr[c] = "pending"
        /\ reply[<<c, d, path>>] # reply'[<<c, d, path>>]
        => mgr'[c] = d]_vars

-----------------------------------------------------------------------------
(* What the gate promises whoever calls tools: module Consent.             *)

\* The answer that was taken for a call: the manager holds it, or the hook
\* has returned with it.
Taken(c) ==
    CASE id[c] = "upstream" /\ mgr[c] \in Decisions   -> mgr[c]
      [] id[c] = "local" /\ verdict[c] = "approved"   -> "allow"
      [] id[c] = "local" /\ verdict[c] = "denied"     -> "deny"
      [] OTHER                                        -> "none"

Submitted == {a \in Answers : \E path \in Paths :
                                reply[<<a[1], a[2], path>>] = "submitted"}

Abstract == INSTANCE Consent WITH
    GivesUp   <- RpcFails,
    asked     <- {c \in Calls : id[c] # "none"},
    ruling    <- [c \in Calls |-> Taken(c)],
    confirmed <- Submitted

\* Local map, manager, bridge and both paths of an answer together do no more
\* than ask, take one answer and end the call by it: no answer is replaced by
\* a later one, none is confirmed that was not taken, no verdict is revised.
ImplementsConsent == Abstract!Spec
=============================================================================
