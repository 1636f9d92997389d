-------------------------------- MODULE Link --------------------------------
(***************************************************************************)
(* What the rest of the plugin relies on of the inbound channel of one     *)
(* account: startStreamSubscription promises its caller one subscription   *)
(* at a time, and a call of onSubscribed once the server's answer to the   *)
(* join was read, so that the caller can fetch what landed while there was *)
(* none (src/index.js:337-340).  Module Stream implements it; module       *)
(* Inbound is built on its steps.                                          *)
(***************************************************************************)
VARIABLES
    active,     \* the channel has not come to its end
    joined,     \* the server streams INSERTs to the account
    due,        \* its caller is still to hear of it: the reply is under way
    told        \* onSubscribed was called for this subscription

vars == <<active, joined, due, told>>

Init == active = TRUE /\ joined = FALSE /\ due = FALSE /\ told = FALSE

\* The server accepts a join, streams from then on, and replies.
Join ==
    /\ active /\ ~joined
    /\ joined' = TRUE /\ UNCHANGED <<active, told>>
    /\ due' = TRUE

\* The reply is read, and the caller hears of the subscription.
Tell ==
    /\ joined /\ due
    /\ told' = TRUE /\ UNCHANGED <<active, joined>>
    /\ due' = FALSE

\* The subscription is lost, and nothing is streamed until the next one.
Drop ==
    /\ joined
    /\ joined' = FALSE /\ told' = FALSE /\ UNCHANGED active
    /\ due' = FALSE

\* The channel ends: stopped for good, or with its process.
End ==
    /\ active' = FALSE /\ joined' = FALSE /\ told' = FALSE
    /\ due' = FALSE

\* register() makes a new subscription.
Begin == ~active /\ active' = TRUE /\ UNCHANGED <<joined, told, due>>

Next == Join \/ Tell \/ Drop \/ End \/ Begin

Spec == Init /\ [][Next]_vars
=============================================================================
