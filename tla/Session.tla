------------------------------- MODULE Session -------------------------------
(***************************************************************************)
(* Requests of one client side by side: the hops of BaseClient.send          *)
(* (src/punkreq/_client.py) and the response in its caller's hands, over     *)
(* what the pool promises (Slots, which Pool implements), and the end of the *)
(* client: close(), or, for the module-level functions, the client that      *)
(* lives for one request.                                                    *)
(*                                                                          *)
(* The pool's callers are hops: one acquire and one give-back each.  What a  *)
(* hop carries is Client's, how its connection is given back Stream's and    *)
(* Transport's.                                                              *)
(***************************************************************************)
EXTENDS Slots

CONSTANTS
    Requests,
    MaxRedirects  \* max_redirects

ASSUME HopsAssumption ==
    /\ MaxRedirects \in Nat /\ Tasks = Requests \X (0..MaxRedirects)
    /\ None \notin Requests

VARIABLES
    stage,      \* where each request is
    hops,       \* len(history)
    onlyFor,    \* the request that a throwaway client is for; None: a Client
    misdirected \* the requests that raised on a Location that cannot be followed

vars == <<slots, stage, hops, onlyFor, misdirected>>

-----------------------------------------------------------------------------

SessionInit ==
    /\ Init
    /\ stage = [r \in Requests |-> "new"]
    /\ hops = [r \in Requests |-> 0]
    /\ onlyFor \in Requests \union {None}
    /\ misdirected = {}

Hop(r) == <<r, hops[r]>>

Go(r, s) == stage' = [stage EXCEPT ![r] = s]

Begin(r) ==
    /\ stage[r] = "new" /\ onlyFor \in {r, None}
    /\ Go(r, "acquire")
    /\ UNCHANGED <<slots, hops, onlyFor, misdirected>>

\* The pool hands a connection out, or has room to open one.
Acquire(r) ==
    /\ stage[r] = "acquire"
    /\ (Take(Hop(r)) /\ Go(r, "head")) \/ (BeginDial(Hop(r)) /\ Go(r, "dial"))
    /\ UNCHANGED <<hops, onlyFor, misdirected>>

Dialed(r) ==
    /\ stage[r] = "dial"
    /\ \/ (\E c \in Conns : Deliver(Hop(r), c)) /\ Go(r, "head")
       \/ FailDial(Hop(r)) /\ Go(r, "raised")
    /\ UNCHANGED <<hops, onlyFor, misdirected>>

\* PoolTimeout or a cancellation; or the pool is closed.
Refused(r) ==
    /\ stage[r] = "acquire"
    /\ Go(r, "raised")
    /\ UNCHANGED <<slots, hops, onlyFor, misdirected>>

\* The hop's exchange is over: its connection goes back.
GiveBack(r, s) ==
    /\ Return(Hop(r))
    /\ Go(r, s)
    /\ UNCHANGED <<onlyFor, misdirected>>

\* The transport raises.
SendFail(r) ==
    /\ stage[r] = "head"
    /\ GiveBack(r, "raised")
    /\ UNCHANGED hops

\* The response is the caller's: no redirect, or one that is not followed.
Answer(r) ==
    /\ stage[r] = "head"
    /\ Go(r, "returned")
    /\ UNCHANGED <<slots, hops, onlyFor, misdirected>>

AtHopLimit(r) == hops[r] >= MaxRedirects

\* Another hop follows, or TooManyRedirects.
Redirect(r) ==
    /\ stage[r] = "head"
    /\ Go(r, IF AtHopLimit(r) THEN "reject" ELSE "drain")
    /\ UNCHANGED <<slots, hops, onlyFor, misdirected>>

\* build_redirect_request raises: nobody has the response.
Misdirect(r) ==
    /\ stage[r] = "head" /\ ~AtHopLimit(r)
    /\ misdirected' = misdirected \union {r}
    /\ Go(r, "raised")
    /\ UNCHANGED <<slots, hops, onlyFor>>

\* A slip: the exception comes before the close.
RejectUnclosed(r) ==
    /\ stage[r] = "reject"
    /\ Go(r, "raised")
    /\ UNCHANGED <<slots, hops, onlyFor, misdirected>>

Reject(r) ==
    /\ stage[r] = "reject"
    /\ GiveBack(r, "raised")
    /\ UNCHANGED hops

NextHop(r) == hops' = [hops EXCEPT ![r] = @ + 1]

\* A slip: the next hop is sent with the response of this one unread.
DrainNothing(r) ==
    /\ stage[r] = "drain"
    /\ Go(r, "acquire")
    /\ NextHop(r)
    /\ UNCHANGED <<slots, onlyFor, misdirected>>

\* `await response.read()`, and the next hop.
Drain(r) ==
    /\ stage[r] = "drain"
    /\ GiveBack(r, "acquire")
    /\ NextHop(r)

DrainFail(r) ==
    /\ stage[r] = "drain"
    /\ GiveBack(r, "raised")
    /\ UNCHANGED hops

\* The caller reads the response to its end, closes it or leaves its
\* `async with`; the finish callbacks come next.
CallerCloses(r) ==
    /\ stage[r] = "returned"
    /\ GiveBack(r, "callbacks")
    /\ UNCHANGED hops

\* A slip: only a request that was answered closes its client.
ClosesIfAnswered(r) == onlyFor = r /\ stage[r] = "callbacks"

\* The request ends, and with it the client that was made for it: by the finish
\* callback, or because send() raised.
ClosesClient(r) == onlyFor = r

End(r) ==
    /\ stage[r] \in {"callbacks", "raised"}
    /\ Go(r, "over")
    /\ IF ClosesClient(r) THEN Shut ELSE UNCHANGED slots
    /\ UNCHANGED <<hops, onlyFor, misdirected>>

\* `await client.close()`, or the end of `async with Client()`, at any time.
CloseClient ==
    /\ onlyFor = None
    /\ Shut
    /\ UNCHANGED <<stage, hops, onlyFor, misdirected>>

\* The pool gives up connections that nobody uses.
Reclaim ==
    /\ Drop
    /\ UNCHANGED <<stage, hops, onlyFor, misdirected>>

-----------------------------------------------------------------------------

Respond(r) == SendFail(r) \/ Answer(r) \/ Redirect(r) \/ Misdirect(r)

RequestStep(r) ==
    \/ Begin(r) \/ Acquire(r) \/ Dialed(r) \/ Refused(r)
    \/ Respond(r) \/ Reject(r) \/ Drain(r) \/ DrainFail(r)
    \/ CallerCloses(r) \/ End(r)

SessionNext == (\E r \in Requests : RequestStep(r)) \/ CloseClient \/ Reclaim

\* The pool serves some waiter when it has room (Pool's NotStuck) and refuses
\* them once closed; awaits end (Transport's and Stream's liveness); callers
\* finish with their responses.  Nothing is assumed of timeouts.
SessionFairness ==
    /\ WF_vars(\E r \in Requests : Acquire(r))
    /\ \A r \in Requests :
        /\ WF_vars(shut /\ Refused(r))
        /\ WF_vars(Dialed(r)) /\ WF_vars(Respond(r)) /\ WF_vars(Reject(r))
        /\ WF_vars(Drain(r) \/ DrainFail(r))
        /\ WF_vars(CallerCloses(r)) /\ WF_vars(End(r))

SessionSpec == SessionInit /\ [][SessionNext]_vars /\ SessionFairness

-----------------------------------------------------------------------------

Holding(r) == stage[r] \in {"head", "drain", "reject", "returned"} \/ r \in misdirected

\* Only the hop that a request is at holds a connection, and only until its
\* response is finished with: when all requests are over nothing is left in use,
\* except behind a Location that cannot be followed (_client.py:234-248).
NothingLeftBehind ==
    \A r \in Requests, h \in 0..MaxRedirects :
        hand[<<r, h>>] # None <=> h = hops[r] /\ Holding(r)

\* The client of a module-level call is closed when its request is over, however
\* it ended, and not before the connection was given back: closed first, the pool
\* would discard it under the reader (_client.py:516-534).
ThrowawayClosed ==
    onlyFor # None => (shut <=> stage[onlyFor] = "over")

\* Every request ends, although each holds a slot while it reads and asks for
\* one at every hop: the requests of a client never all wait on each other,
\* unless misdirected ones have kept every slot (_client.py:222-248).
EveryRequestEnds ==
    [](MaxConns = None \/ Cardinality(misdirected) < MaxConns) =>
        \A r \in Requests : stage[r] \notin {"new", "over"} ~> stage[r] = "over"
=============================================================================
