-------------------------------- MODULE Answer --------------------------------
(***************************************************************************)
(* What handleUserMessage (src/messaging.js) promises of each message that *)
(* was dispatched, whichever of its exits it takes: it announces once that *)
(* the turn is over, either of an error, and then nothing was posted for   *)
(* it, or that it is done, and then a reply or a notice was posted or the  *)
(* backend denied both; what is posted, is posted before that.  The        *)
(* announcement is one broadcast, tried once, which may be lost: that the  *)
(* app hears it is not promised.  Module Turn implements it.               *)
(***************************************************************************)
EXTENDS Naturals

CONSTANTS Messages

VARIABLES
    state,      \* what has become of each message
    posted,     \* replies and notices in the messages table
    denied,     \* messages for which the backend was tried to the end
    announced   \* end broadcasts that were sent

vars == <<state, posted, denied, announced>>

Init ==
    /\ state = [m \in Messages |-> "new"]
    /\ posted = [m \in Messages |-> 0]
    /\ denied = {}
    /\ announced = [m \in Messages |-> 0]

\* A message whose history cannot be loaded is lost, and nobody hears of it.
TakeUp(m) ==
    /\ state[m] = "new"
    /\ state' \in {[state EXCEPT ![m] = "taken"], [state EXCEPT ![m] = "lost"]}
    /\ UNCHANGED <<posted, denied, announced>>

\* A POST may be carried out and fail all the same.
Post(m) ==
    /\ state[m] = "taken"
    /\ posted' \in {posted, [posted EXCEPT ![m] = @ + 1]}
    /\ denied' \in {denied, denied \cup {m}}
    /\ UNCHANGED <<state, announced>>

Announce(m, kind) ==
    /\ state[m] = "taken"
    /\ IF kind = "error" THEN posted[m] = 0
                         ELSE posted[m] > 0 \/ m \in denied
    /\ state' = [state EXCEPT ![m] = kind]
    /\ announced' = [announced EXCEPT ![m] = @ + 1]
    /\ UNCHANGED <<posted, denied>>

Next ==
    \E m \in Messages :
        \/ TakeUp(m) \/ Post(m)
        \/ \E kind \in {"error", "done"} : Announce(m, kind)

Spec == Init /\ [][Next]_vars
=============================================================================
