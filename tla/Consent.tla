------------------------------- MODULE Consent -------------------------------
(***************************************************************************)
(* What the approval gate promises of the tool calls it holds              *)
(* (src/approvals-gate.js:11-14), whichever map or manager keeps them and  *)
(* whichever path an answer takes: the user is asked about a call that is  *)
(* held, one answer of the user's is taken, for good, and the call ends by *)
(* that answer or is blocked.  Module ApprovalGate implements it.          *)
(***************************************************************************)
CONSTANTS
    Calls,      \* the tool calls
    GivesUp     \* a call may be blocked although an answer was taken

VARIABLES
    asked,      \* calls that the user is asked about
    sent,       \* answers the user has sent
    ruling,     \* the answer that was taken for each call
    confirmed,  \* answers the user was told are submitted
    verdict     \* how each call ended

vars == <<asked, sent, ruling, confirmed, verdict>>

Decisions == {"allow", "deny"}

Verdict(d) == IF d = "allow" THEN "approved" ELSE "denied"

Init ==
    /\ asked = {} /\ sent = {} /\ confirmed = {}
    /\ ruling = [c \in Calls |-> "none"]
    /\ verdict = [c \in Calls |-> "none"]

\* A call that is not held runs without an approval.
LetThrough(c) ==
    /\ c \notin asked /\ verdict[c] = "none"
    /\ verdict' = [verdict EXCEPT ![c] = "open"]
    /\ UNCHANGED <<asked, sent, ruling, confirmed>>

Ask(c) ==
    /\ c \notin asked /\ verdict[c] = "none"
    /\ asked' = asked \cup {c}
    /\ UNCHANGED <<sent, ruling, confirmed, verdict>>

\* The user may send both answers.
Answer(c, d) ==
    /\ c \in asked
    /\ sent' = sent \cup {<<c, d>>}
    /\ UNCHANGED <<asked, ruling, confirmed, verdict>>

\* The first one to arrive is taken; the user may hear so, and the call may
\* end with it.
Take(c, d) ==
    /\ <<c, d>> \in sent /\ ruling[c] = "none"
    /\ ruling' = [ruling EXCEPT ![c] = d]
    /\ confirmed' \in {confirmed, confirmed \cup {<<c, d>>}}
    /\ \/ UNCHANGED verdict
       \/ /\ verdict[c] = "none"
          /\ verdict' = [verdict EXCEPT ![c] = Verdict(d)]
    /\ UNCHANGED <<asked, sent>>

Return(c) ==
    /\ ruling[c] # "none" /\ verdict[c] = "none"
    /\ verdict' = [verdict EXCEPT ![c] = Verdict(ruling[c])]
    /\ UNCHANGED <<asked, sent, ruling, confirmed>>

Block(c) ==
    /\ c \in asked /\ verdict[c] = "none"
    /\ ruling[c] = "none" \/ GivesUp
    /\ verdict' = [verdict EXCEPT ![c] = "timeout"]
    /\ UNCHANGED <<asked, sent, ruling, confirmed>>

Next ==
    \E c \in Calls :
        \/ LetThrough(c) \/ Ask(c) \/ Return(c) \/ Block(c)
        \/ \E d \in Decisions : Answer(c, d) \/ Take(c, d)

Spec == Init /\ [][Next]_vars
=============================================================================
