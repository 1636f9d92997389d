-------------------------- MODULE ApprovalMarkers ---------------------------
(***************************************************************************)
(* src/approvals-context.js: an approval that the gate recorded is marked  *)
(* on the result of its tool call when that result is persisted.  Two      *)
(* indices find it, by tool call id and, since the id may be missing or    *)
(* remapped at either end, by session and tool name (the soft key).        *)
(*                                                                         *)
(* An approval is named by the call it was given for; where there may be   *)
(* one, there is a set of one or none.  The result of a call that was      *)
(* blocked, or that passed ungated, is persisted like any other.  The time *)
(* to live of an entry is the set aged.                                    *)
(*                                                                         *)
(* A definition whose name ends in _Slip is the one after it with a        *)
(* plausible mistake in the code; no action uses it.  The names of the     *)
(* specification begin with Markers, so that ApprovalGateProofs can extend *)
(* this module and ApprovalGate.                                           *)
(***************************************************************************)
EXTENDS ToolCalls

CONSTANT Key    \* the soft key of each call

ASSUME KeyAssumption == DOMAIN Key = Calls

VARIABLES
    outcome,        \* what the gate did with each call
    hasId,          \* calls whose toolCallId was known to the gate
    byToolCallId,   \* approvals in _byToolCallId
    bySession,      \* the approval under each soft key
    aged,           \* recorded approvals older than TTL_MS
    persisted,      \* calls whose result was persisted
    marker          \* the approval marked on the result of each call

MarkersVars ==
    <<outcome, hasId, byToolCallId, bySession, aged, persisted, marker>>

SoftKeys == {Key[c] : c \in Calls}

MarkersTypeOK ==
    /\ outcome \in [Calls -> {"none", "approved", "other"}]
    /\ hasId \subseteq Calls
    /\ byToolCallId \subseteq Calls
    /\ bySession \in [SoftKeys -> SUBSET Calls]
    /\ aged \subseteq Calls
    /\ persisted \subseteq Calls
    /\ marker \in [Calls -> SUBSET Calls]

MarkersInit ==
    /\ outcome = [c \in Calls |-> "none"]
    /\ hasId = {} /\ byToolCallId = {} /\ aged = {} /\ persisted = {}
    /\ bySession = [k \in SoftKeys |-> {}]
    /\ marker = [c \in Calls |-> {}]

\* gc() on one entry of bySession.
Collected(k) == bySession[k] \ aged

\* bySession once c is recorded.  Slip: the soft key leaves out the tool.
SoftEntries_Slip(c) == [k \in SoftKeys |-> {c}]
SoftEntries(c) ==
    [k \in SoftKeys |-> IF k = Key[c] THEN {c} ELSE Collected(k)]

\* recordApproval, with the gc() at its end.
RecordApproval(c) ==
    /\ outcome[c] = "none"
    /\ outcome' = [outcome EXCEPT ![c] = "approved"]
    /\ \E known \in BOOLEAN :
        LET new == IF known THEN {c} ELSE {}
        IN  /\ hasId' = hasId \cup new
            /\ byToolCallId' = (byToolCallId \ aged) \cup new
    /\ bySession' = SoftEntries(c)
    /\ UNCHANGED <<aged, persisted, marker>>

\* The gate blocked the call, or did not hold it.
NoApproval(c) ==
    /\ outcome[c] = "none"
    /\ outcome' = [outcome EXCEPT ![c] = "other"]
    /\ UNCHANGED <<hasId, byToolCallId, bySession, aged, persisted, marker>>

\* An entry outlives TTL_MS; the next gc() drops it.
AgeApproval(c) ==
    /\ outcome[c] = "approved" /\ c \notin aged
    /\ aged' = aged \cup {c}
    /\ UNCHANGED <<outcome, hasId, byToolCallId, bySession, persisted, marker>>

\* toolResultPersistHook: the entry found is deleted from both indices, even
\* when the message turns out to have no content to mark.
Match(c, seesId) ==
    IF seesId /\ c \in byToolCallId THEN {c} ELSE bySession[Key[c]]

WithoutKeys(found) ==
    [k \in SoftKeys |-> IF \E a \in found : Key[a] = k THEN {}
                                                       ELSE bySession[k]]

\* Slip: an approval that the soft key found stays under its id.
Forget_Slip(found) ==
    /\ bySession' = WithoutKeys(found)
    /\ UNCHANGED byToolCallId

Forget(found) ==
    /\ bySession' = WithoutKeys(found)
    /\ byToolCallId' = byToolCallId \ (found \cap hasId)

Persist(c) ==
    /\ outcome[c] # "none" /\ c \notin persisted
    /\ persisted' = persisted \cup {c}
    /\ \E seesId, markable \in BOOLEAN :
        /\ Forget(Match(c, seesId))
        /\ marker' = [marker EXCEPT ![c] = IF markable THEN Match(c, seesId)
                                                       ELSE @]
    /\ UNCHANGED <<outcome, hasId, aged>>

MarkersNext ==
    \E c \in Calls :
        RecordApproval(c) \/ NoApproval(c) \/ AgeApproval(c) \/ Persist(c)

MarkersSpec == MarkersInit /\ [][MarkersNext]_MarkersVars

-----------------------------------------------------------------------------
\* An approval marks at most one result, although two indices lead to it and
\* each can be found without the other ("one-shot per approval").
OneShot ==
    \A c, d \in Calls : marker[c] \cap marker[d] # {} => c = d

\* A marker tells of an approval that was given, for the same tool in the
\* same session.
MarkerIsGenuine ==
    \A c \in Calls : \A a \in marker[c] :
        outcome[a] = "approved" /\ Key[a] = Key[c]

\* "The marker tells the model in-band that a gate ran and the user explicitly
\* allowed the run" (approvals-context.js:12-14).
MarkedMeansAllowed ==
    \A c \in Calls : marker[c] # {} => outcome[c] = "approved"
=============================================================================
