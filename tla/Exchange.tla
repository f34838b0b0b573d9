------------------------------ MODULE Exchange ------------------------------
(***************************************************************************)
(* What a response promises its client and the pool, however many tasks    *)
(* read and close it (Stream; src/punkreq/_models.py, _transport.py): its  *)
(* connection is given back once, for reuse only when the body was whole,  *)
(* the finish callbacks come after that, and both do come.                 *)
(***************************************************************************)
EXTENDS Naturals

VARIABLES
    ended,     \* whether the response is closed
    whole,     \* whether its body was read to the end
    returned,  \* how often its connection was given back
    reusable,  \* whether it was given back for reuse
    told       \* how often the finish callbacks were called

exchange == <<ended, whole, returned, reusable, told>>

-----------------------------------------------------------------------------

Init ==
    /\ ended = FALSE /\ whole = FALSE
    /\ returned = 0 /\ reusable = FALSE /\ told = 0

\* The body may end, and the response may be closed, before or after the
\* connection is given back, or with the callbacks.
Progress ==
    /\ ended' \in {ended, TRUE}
    /\ whole' \in {whole, TRUE}

Read ==
    /\ Progress
    /\ UNCHANGED <<returned, reusable, told>>

GiveBack ==
    /\ returned = 0
    /\ returned' = 1
    /\ reusable' \in {FALSE, whole}
    /\ UNCHANGED <<ended, whole, told>>

Tell ==
    /\ returned = 1 /\ told = 0
    /\ told' = 1
    /\ Progress
    /\ UNCHANGED <<returned, reusable>>

Next == Read \/ GiveBack \/ Tell

\* Nothing is promised of a response that nobody finishes.
Due == ended \/ whole

Spec ==
    /\ Init /\ [][Next]_exchange
    /\ WF_exchange(Due /\ GiveBack)
    /\ WF_exchange(Tell)
=============================================================================
