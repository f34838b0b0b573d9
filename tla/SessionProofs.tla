---------------------------- MODULE SessionProofs ----------------------------
(***************************************************************************)
(* Theorems about Slots, for any number of callers, connections and slots,  *)
(* and about Session, which uses it, for any number of requests and         *)
(* redirects.  Pool implements Slots (PoolProofs), so its callers may rely  *)
(* on the first.                                                           *)
(***************************************************************************)
EXTENDS Session, FiniteSetTheorems, TLAPS

\* A closed pool has nothing to hand out.
Emptied == shut => pooled = {}

SlotsInv == TypeOK /\ Alone /\ Emptied /\ Capacity

-----------------------------------------------------------------------------

\* The slots keep their types.
LEMMA SlotsTypes ==
  ASSUME TypeOK, [Next]_slots
  PROVE  TypeOK'
<1>1. CASE Drop \/ Shut \/ UNCHANGED slots
  BY <1>1 DEF Drop, Shut, slots, TypeOK
<1>2. ASSUME NEW t \in Tasks, Take(t) \/ BeginDial(t) \/ FailDial(t) \/ Return(t)
      PROVE  TypeOK'
  BY <1>2 DEF Take, BeginDial, FailDial, Return, TypeOK
<1>3. ASSUME NEW t \in Tasks, NEW c \in Conns, Deliver(t, c)
      PROVE  TypeOK'
  BY <1>3 DEF Deliver, TypeOK
<1> QED BY <1>1, <1>2, <1>3 DEF Next, Serve

\* Nothing comes back to a closed pool.
LEMMA EmptiedKept ==
  ASSUME Emptied, [Next]_slots
  PROVE  Emptied'
  BY DEF Emptied, Next, Serve, Drop, Shut, slots, Take, BeginDial, FailDial, Return, Deliver

\* Nobody else is given an exclusive connection.
LEMMA AloneKept ==
  ASSUME TypeOK, Alone, [Next]_slots
  PROVE  Alone'
<1>1. CASE Drop \/ Shut \/ UNCHANGED slots
  BY <1>1 DEF Drop, Shut, slots, Alone
<1>2. ASSUME NEW t \in Tasks, Take(t)
      PROVE  Alone'
  <2>1. PICK c \in pooled : /\ hand' = [hand EXCEPT ![t] = c]
                            /\ pooled' \subseteq pooled /\ (c \in pooled' => c \in Shareable)
    BY <1>2 DEF Take
  <2>2. c \notin Shareable => \A u \in Tasks : hand[u] # c
    BY <2>1, SlotsAssumption DEF Alone, TypeOK
  <2> QED BY <2>1, <2>2 DEF Alone, TypeOK
<1>3. ASSUME NEW t \in Tasks, BeginDial(t) \/ FailDial(t)
      PROVE  Alone'
  BY <1>3 DEF BeginDial, FailDial, Alone
<1>4. ASSUME NEW t \in Tasks, NEW c \in Conns, Deliver(t, c)
      PROVE  Alone'
  BY <1>4 DEF Deliver, Alone, TypeOK
<1>5. ASSUME NEW t \in Tasks, Return(t)
      PROVE  Alone'
  <2>1. pooled' \subseteq pooled \union ({hand[t]} \ Shareable)
    BY <1>5 DEF Return
  <2>2. hand' = [hand EXCEPT ![t] = None] /\ hand[t] # None
    BY <1>5 DEF Return
  <2> QED BY <2>1, <2>2 DEF Alone, TypeOK
<1> QED BY <1>1, <1>2, <1>3, <1>4, <1>5 DEF Next, Serve

\* What counts against max_connections is finite, and counts no more when it
\* loses an element, and one more at most when it gains one.
LEMMA InUseFinite ==
  ASSUME TypeOK
  PROVE  IsFiniteSet(InUse) /\ IsFiniteSet(dialers)
         /\ Cardinality(InUse) \in Nat /\ Cardinality(dialers) \in Nat
<1>1. InUse \subseteq Conns /\ dialers \subseteq Tasks
  BY DEF TypeOK, InUse, Exclusive
<1> QED BY <1>1, SlotsAssumption, FS_Subset, FS_CardinalityType

\* What is taken and what is opened stay within max_connections together.
LEMMA CapacityKept ==
  ASSUME TypeOK, Capacity, [Next]_slots
  PROVE  Capacity'
<1>0. /\ IsFiniteSet(InUse) /\ IsFiniteSet(dialers)
      /\ Cardinality(InUse) \in Nat /\ Cardinality(dialers) \in Nat
      /\ IsFiniteSet(InUse') /\ IsFiniteSet(dialers')
      /\ Cardinality(InUse') \in Nat /\ Cardinality(dialers') \in Nat
  <2>1. TypeOK'
    BY SlotsTypes
  <2>2. InUse' \subseteq Conns /\ dialers' \subseteq Tasks
    BY <2>1 DEF TypeOK, InUse, Exclusive
  <2>3. IsFiniteSet(InUse') /\ IsFiniteSet(dialers')
    BY <2>2, SlotsAssumption, FS_Subset
  <2> QED BY <2>3, InUseFinite, FS_CardinalityType
<1>1. ASSUME InUse' \subseteq InUse, dialers' \subseteq dialers
      PROVE  Capacity'
  <2>1. Cardinality(InUse') <= Cardinality(InUse) /\ Cardinality(dialers') <= Cardinality(dialers)
    BY <1>0, <1>1, FS_Subset
  <2> QED BY <1>0, <2>1, SlotsAssumption DEF Capacity
<1>2. CASE Drop \/ Shut \/ UNCHANGED slots
  <2>1. InUse' \subseteq InUse /\ dialers' = dialers
    BY <1>2 DEF Drop, Shut, slots, InUse, Exclusive
  <2> QED BY <1>1, <2>1
<1>3. ASSUME NEW t \in Tasks, Take(t)
      PROVE  Capacity'
  <2>1. InUse' \subseteq InUse /\ dialers' = dialers
    BY <1>3 DEF Take, InUse, Exclusive, TypeOK
  <2> QED BY <1>1, <2>1
<1>4. ASSUME NEW t \in Tasks, BeginDial(t)
      PROVE  Capacity'
  BY <1>4 DEF BeginDial
<1>5. ASSUME NEW t \in Tasks, FailDial(t)
      PROVE  Capacity'
  BY <1>1, <1>5 DEF FailDial, InUse, Exclusive
<1>6. ASSUME NEW t \in Tasks, Return(t)
      PROVE  Capacity'
  <2>1. pooled' \subseteq pooled \union ({hand[t]} \ Shareable) /\ hand[t] # None
    BY <1>6 DEF Return
  <2>2. Exclusive' \subseteq Exclusive
    BY <1>6 DEF Return, Exclusive, TypeOK
  <2>3. pooled' \subseteq InUse
    BY <2>1 DEF InUse, Exclusive
  <2>4. dialers' = dialers
    BY <1>6 DEF Return
  <2> QED BY <1>1, <2>2, <2>3, <2>4 DEF InUse
<1>7. ASSUME NEW t \in Tasks, NEW c \in Conns, Deliver(t, c)
      PROVE  Capacity'
  <2>1. InUse' \subseteq InUse \union {c}
    BY <1>7 DEF Deliver, InUse, Exclusive, TypeOK
  <2>2. Cardinality(InUse') <= Cardinality(InUse) + 1
    <3>1. IsFiniteSet(InUse \union {c}) /\ Cardinality(InUse \union {c}) <= Cardinality(InUse) + 1
      <4>1. /\ IsFiniteSet(InUse \union {c})
            /\ Cardinality(InUse \union {c}) =
                IF c \in InUse THEN Cardinality(InUse) ELSE Cardinality(InUse) + 1
        BY <1>0, FS_AddElement, Zenon
      <4> QED BY <1>0, <4>1
    <3>2. Cardinality(InUse') <= Cardinality(InUse \union {c})
      BY <2>1, <3>1, FS_Subset
    <3> QED BY <1>0, <3>1, <3>2, FS_CardinalityType
  <2>3. Cardinality(dialers') = Cardinality(dialers) - 1
    BY <1>0, <1>7, FS_RemoveElement DEF Deliver
  <2> QED BY <1>0, <2>2, <2>3, SlotsAssumption DEF Capacity
<1> QED BY <1>2, <1>3, <1>4, <1>5, <1>6, <1>7 DEF Next, Serve

\* At the start nobody has a connection.
LEMMA SlotsInvInit ==
  ASSUME Init
  PROVE  SlotsInv
<1>1. TypeOK /\ Alone /\ Emptied
  BY DEF Init, TypeOK, Alone, Emptied
<1>2. InUse = {} /\ dialers = {}
  BY DEF Init, InUse, Exclusive
<1>3. Capacity
  BY <1>2, FS_EmptySet, SlotsAssumption DEF Capacity
<1> QED BY <1>1, <1>3 DEF SlotsInv

\* Every step of a caller keeps all of it.
LEMMA SlotsInvNext ==
  ASSUME SlotsInv, [Next]_slots
  PROVE  SlotsInv'
  BY SlotsTypes, AloneKept, EmptiedKept, CapacityKept DEF SlotsInv

\* So it holds for good.
LEMMA SlotsInvariance == Spec => []SlotsInv
<1>1. Init => SlotsInv
  BY SlotsInvInit
<1>2. SlotsInv /\ [Next]_slots => SlotsInv'
  BY SlotsInvNext
<1> QED BY <1>1, <1>2, PTL DEF Spec

-----------------------------------------------------------------------------

\* max_connections bounds what is pooled, in exclusive use and being opened, for
\* every number of callers, and after close too.
THEOREM CapacityHeld == Spec => []Capacity
<1>1. SlotsInv => Capacity
  BY DEF SlotsInv
<1> QED BY <1>1, SlotsInvariance, PTL

\* A connection that is not shareable is one caller's at a time, and acquire
\* cannot find it meanwhile.
THEOREM ExclusiveAlone == Spec => []Alone
<1>1. SlotsInv => Alone
  BY DEF SlotsInv
<1> QED BY <1>1, SlotsInvariance, PTL

\* After close no caller is handed a connection, neither a pooled one nor one
\* whose dial was on its way.
THEOREM NothingAfterClose == Spec => ShutIsFinal
<1>1. SlotsInv /\ [Next]_slots => [shut => \A t \in Tasks : hand'[t] \in {hand[t], None}]_slots
  BY DEF SlotsInv, TypeOK, Emptied, Next, Serve, Drop, Shut, slots, Take, BeginDial, FailDial, Return,
         Deliver
<1> QED BY <1>1, SlotsInvariance, PTL DEF Spec, ShutIsFinal

-----------------------------------------------------------------------------

(***************************************************************************)
(* Requests over the slots.                                                *)
(***************************************************************************)

Stages == {"new", "acquire", "dial", "head", "drain", "reject", "returned", "callbacks",
           "raised", "over"}

SessionTypeOK ==
    /\ stage \in [Requests -> Stages]
    /\ hops \in [Requests -> 0..MaxRedirects]
    /\ onlyFor \in Requests \union {None}
    /\ misdirected \subseteq Requests

\* There is another hop to go to, and a misdirected request goes nowhere.
Going ==
    /\ \A r \in Requests : stage[r] = "drain" => hops[r] < MaxRedirects
    /\ \A r \in misdirected : stage[r] \in {"raised", "over"}

\* A throwaway client is for one request, and ends with it.
Lone ==
    onlyFor # None =>
        /\ shut <=> stage[onlyFor] = "over"
        /\ \A r \in Requests \ {onlyFor} : stage[r] = "new"

SessionInv == SlotsInv /\ SessionTypeOK /\ Going /\ NothingLeftBehind /\ Lone

-----------------------------------------------------------------------------

\* What the requests of a client do to the pool are the steps of its callers.
LEMMA StepsAreSlots ==
  ASSUME SessionTypeOK, [SessionNext]_vars
  PROVE  [Next]_slots
<1>1. \A r \in Requests : Hop(r) \in Tasks
  BY HopsAssumption DEF SessionTypeOK, Hop
<1>2. ASSUME NEW r \in Requests, RequestStep(r)
      PROVE  [Next]_slots
  <2>1. \/ Take(Hop(r)) \/ BeginDial(Hop(r)) \/ (\E c \in Conns : Deliver(Hop(r), c))
        \/ FailDial(Hop(r)) \/ Return(Hop(r)) \/ Shut \/ UNCHANGED slots
    BY <1>2 DEF RequestStep, Begin, Acquire, Dialed, Refused, Respond, SendFail, Answer, Redirect,
                Misdirect, Reject, Drain, DrainFail, CallerCloses, End, GiveBack
  <2> QED BY <1>1, <2>1 DEF Next, Serve
<1> QED BY <1>2 DEF SessionNext, CloseClient, Reclaim, vars, Next

\* The requests keep their types.
LEMMA SessionTypes ==
  ASSUME SessionTypeOK, Going, [SessionNext]_vars
  PROVE  SessionTypeOK'
<1> USE HopsAssumption
<1>1. ASSUME NEW r \in Requests, Drain(r)
      PROVE  SessionTypeOK'
  <2>1. hops[r] + 1 \in 0..MaxRedirects
    BY <1>1 DEF Drain, Going, SessionTypeOK
  <2> QED BY <1>1, <2>1 DEF Drain, GiveBack, NextHop, Go, SessionTypeOK, Stages
<1>2. ASSUME NEW r \in Requests,
             Begin(r) \/ Acquire(r) \/ Dialed(r) \/ Refused(r) \/ Respond(r) \/ Reject(r)
             \/ DrainFail(r) \/ CallerCloses(r) \/ End(r)
      PROVE  SessionTypeOK'
  BY <1>2 DEF Begin, Acquire, Dialed, Refused, Respond, SendFail, Answer, Redirect, Misdirect,
              Reject, DrainFail, CallerCloses, End, GiveBack, Go, SessionTypeOK, Stages
<1>3. CASE CloseClient \/ Reclaim \/ UNCHANGED vars
  BY <1>3 DEF CloseClient, Reclaim, vars, SessionTypeOK
<1> QED BY <1>1, <1>2, <1>3 DEF SessionNext, RequestStep

\* A redirect is followed only where there is a hop to go to.
LEMMA GoingKept ==
  ASSUME SessionTypeOK, Going, [SessionNext]_vars
  PROVE  Going'
<1> USE HopsAssumption
<1>1. ASSUME NEW r \in Requests,
             Begin(r) \/ Acquire(r) \/ Dialed(r) \/ Refused(r) \/ Respond(r) \/ Reject(r)
             \/ Drain(r) \/ DrainFail(r) \/ CallerCloses(r) \/ End(r)
      PROVE  Going'
  BY <1>1 DEF Begin, Acquire, Dialed, Refused, Respond, SendFail, Answer, Redirect, AtHopLimit,
              Misdirect, Reject, Drain, NextHop, DrainFail, CallerCloses, End, GiveBack, Go,
              SessionTypeOK, Going
<1>2. CASE CloseClient \/ Reclaim \/ UNCHANGED vars
  BY <1>2 DEF CloseClient, Reclaim, vars, Going
<1> QED BY <1>1, <1>2 DEF SessionNext, RequestStep

\* A throwaway client is closed with its request, and serves no other.
LEMMA LoneKept ==
  ASSUME SessionTypeOK, Lone, [SessionNext]_vars
  PROVE  Lone'
<1> USE HopsAssumption
<1>1. ASSUME NEW r \in Requests, End(r)
      PROVE  Lone'
  <2>1. stage[r] # "new" /\ stage' = [stage EXCEPT ![r] = "over"] /\ onlyFor' = onlyFor
    BY <1>1 DEF End, Go
  <2>2. CASE onlyFor = r
    BY <1>1, <2>1, <2>2 DEF End, ClosesClient, Shut, SessionTypeOK, Lone
  <2>3. CASE onlyFor # r
    BY <1>1, <2>1, <2>3 DEF Lone
  <2> QED BY <2>2, <2>3
<1>2. ASSUME NEW r \in Requests,
             Begin(r) \/ Acquire(r) \/ Dialed(r) \/ Refused(r) \/ Respond(r) \/ Reject(r)
             \/ Drain(r) \/ DrainFail(r) \/ CallerCloses(r)
      PROVE  Lone'
  <2>1. /\ onlyFor' = onlyFor /\ shut' = shut /\ stage[r] # "over"
        /\ stage[r] # "new" \/ onlyFor \in {r, None}
    BY <1>2 DEF Begin, Acquire, Dialed, Refused, Respond, SendFail, Answer, Redirect, Misdirect,
                Reject, Drain, DrainFail, CallerCloses, GiveBack, slots, Take, BeginDial, Deliver,
                FailDial, Return
  <2>2. \E s \in Stages \ {"new", "over"} : stage' = [stage EXCEPT ![r] = s]
    BY <1>2 DEF Begin, Acquire, Dialed, Refused, Respond, SendFail, Answer, Redirect, Misdirect,
                Reject, Drain, DrainFail, CallerCloses, GiveBack, Go, Stages
  <2> QED BY <2>1, <2>2 DEF SessionTypeOK, Lone
<1>3. CASE CloseClient \/ Reclaim \/ UNCHANGED vars
  BY <1>3 DEF CloseClient, Reclaim, Drop, vars, slots, Lone
<1> QED BY <1>1, <1>2, <1>3 DEF SessionNext, RequestStep

\* A connection is with the hop that a request is at.
LEMMA HeldKept ==
  ASSUME TypeOK, SessionTypeOK, Going, NothingLeftBehind, [SessionNext]_vars
  PROVE  NothingLeftBehind'
<1> USE HopsAssumption
<1>0. \A r \in Requests : Hop(r) = <<r, hops[r]>> /\ hops[r] \in 0..MaxRedirects /\ Hop(r) \in Tasks
  BY DEF Hop, SessionTypeOK
\* A hop takes its connection.
<1>1. ASSUME NEW r \in Requests, NEW c \in Conns, stage[r] \in {"acquire", "dial"},
             hand' = [hand EXCEPT ![Hop(r)] = c], Go(r, "head"), UNCHANGED <<hops, misdirected>>
      PROVE  NothingLeftBehind'
  <2> SUFFICES ASSUME NEW q \in Requests, NEW h \in 0..MaxRedirects
               PROVE  (hand[<<q, h>>] # None <=> h = hops[q] /\ Holding(q))'
    BY <1>1 DEF NothingLeftBehind
  <2>1. <<q, h>> \in Tasks /\ c # None
    BY SlotsAssumption
  <2>2. CASE q = r
    <3>1. Holding(q)' /\ (h # hops[q] => hand[<<q, h>>] = None)
      BY <1>1, <2>2 DEF Go, SessionTypeOK, Holding, NothingLeftBehind
    <3>2. hand'[<<q, h>>] = IF h = hops[r] THEN c ELSE hand[<<q, h>>]
      BY <1>0, <1>1, <2>1, <2>2 DEF TypeOK
    <3> QED BY <1>1, <2>1, <2>2, <3>1, <3>2
  <2>3. CASE q # r
    <3>1. hand'[<<q, h>>] = hand[<<q, h>>]
      BY <1>0, <1>1, <2>1, <2>3 DEF TypeOK
    <3>2. Holding(q)' <=> Holding(q)
      BY <1>1, <2>3 DEF Go, SessionTypeOK, Holding
    <3> QED BY <1>1, <3>1, <3>2 DEF NothingLeftBehind
  <2> QED BY <2>2, <2>3
\* A hop gives its connection back, and the request may go on to the next.
<1>2. ASSUME NEW r \in Requests, NEW s \in {"raised", "acquire", "callbacks"},
             stage[r] \in {"head", "reject", "drain", "returned"},
             Return(Hop(r)), Go(r, s), hops' = hops \/ NextHop(r), UNCHANGED misdirected
      PROVE  NothingLeftBehind'
  <2> SUFFICES ASSUME NEW q \in Requests, NEW h \in 0..MaxRedirects
               PROVE  (hand[<<q, h>>] # None <=> h = hops[q] /\ Holding(q))'
    BY <1>2 DEF NothingLeftBehind
  <2>1. <<q, h>> \in Tasks /\ hand' = [hand EXCEPT ![Hop(r)] = None]
    BY <1>2 DEF Return
  <2>2. CASE q = r
    <3>1. ~Holding(q)' /\ (h # hops[q] => hand[<<q, h>>] = None)
      BY <1>2, <2>2 DEF Go, Going, SessionTypeOK, Holding, NothingLeftBehind
    <3>2. hand'[<<q, h>>] = IF h = hops[r] THEN None ELSE hand[<<q, h>>]
      BY <1>0, <2>1, <2>2 DEF TypeOK
    <3> QED BY <2>2, <3>1, <3>2
  <2>3. CASE q # r
    <3>1. hand'[<<q, h>>] = hand[<<q, h>>]
      BY <1>0, <2>1, <2>3 DEF TypeOK
    <3>2. (Holding(q)' <=> Holding(q)) /\ hops'[q] = hops[q]
      BY <1>2, <2>3 DEF Go, NextHop, SessionTypeOK, Holding
    <3> QED BY <3>1, <3>2 DEF NothingLeftBehind
  <2> QED BY <2>2, <2>3
\* Nothing changes hands.
<1>3. ASSUME NEW r \in Requests, NEW s \in Stages, Go(r, s),
             UNCHANGED <<hand, hops, misdirected>>,
             stage[r] \in {"head", "drain", "reject", "returned"} <=>
                 s \in {"head", "drain", "reject", "returned"}
      PROVE  NothingLeftBehind'
  BY <1>3 DEF Go, SessionTypeOK, NothingLeftBehind, Holding
\* A redirect that cannot be followed keeps its connection.
<1>4. ASSUME NEW r \in Requests, Misdirect(r)
      PROVE  NothingLeftBehind'
  BY <1>4 DEF Misdirect, Go, slots, SessionTypeOK, NothingLeftBehind, Holding
<1>5. ASSUME NEW r \in Requests, Acquire(r)
      PROVE  NothingLeftBehind'
  <2>1. CASE Take(Hop(r)) /\ Go(r, "head")
    <3>1. PICK c \in pooled : hand' = [hand EXCEPT ![Hop(r)] = c]
      BY <2>1 DEF Take
    <3>2. c \in Conns
      BY DEF TypeOK
    <3> QED BY <1>1, <1>5, <2>1, <3>1, <3>2 DEF Acquire
  <2>2. CASE BeginDial(Hop(r)) /\ Go(r, "dial")
    BY <1>3, <1>5, <2>2 DEF Acquire, BeginDial, Stages
  <2> QED BY <1>5, <2>1, <2>2 DEF Acquire
<1>6. ASSUME NEW r \in Requests, Dialed(r)
      PROVE  NothingLeftBehind'
  <2>1. ASSUME NEW c \in Conns, Deliver(Hop(r), c), Go(r, "head")
        PROVE  NothingLeftBehind'
    BY <1>1, <1>6, <2>1 DEF Dialed, Deliver
  <2>2. CASE FailDial(Hop(r)) /\ Go(r, "raised")
    BY <1>3, <1>6, <2>2 DEF Dialed, FailDial, Stages
  <2> QED BY <1>6, <2>1, <2>2 DEF Dialed
<1>7. ASSUME NEW r \in Requests, SendFail(r) \/ Reject(r) \/ Drain(r) \/ DrainFail(r) \/ CallerCloses(r)
      PROVE  NothingLeftBehind'
  BY <1>2, <1>7 DEF SendFail, Reject, Drain, DrainFail, CallerCloses, GiveBack
<1>8. ASSUME NEW r \in Requests, Begin(r) \/ Refused(r) \/ Answer(r) \/ Redirect(r) \/ End(r)
      PROVE  NothingLeftBehind'
  BY <1>3, <1>8 DEF Begin, Refused, Answer, Redirect, End, Shut, slots, Stages
<1>9. CASE CloseClient \/ Reclaim \/ UNCHANGED vars
  BY <1>9 DEF CloseClient, Reclaim, Shut, Drop, vars, slots, NothingLeftBehind, Holding
<1> QED
  BY <1>4, <1>5, <1>6, <1>7, <1>8, <1>9 DEF SessionNext, RequestStep, Respond

\* At the start no request is under way.
LEMMA SessionInvInit ==
  ASSUME SessionInit
  PROVE  SessionInv
<1>1. SlotsInv
  BY SlotsInvInit DEF SessionInit
<1>2. SessionTypeOK /\ Going /\ Lone
  BY HopsAssumption DEF SessionInit, Init, SessionTypeOK, Stages, Going, Lone
<1>3. NothingLeftBehind
  BY HopsAssumption DEF SessionInit, Init, NothingLeftBehind, Holding
<1> QED BY <1>1, <1>2, <1>3 DEF SessionInv

\* Every step of a request keeps all of it.
LEMMA SessionInvNext ==
  ASSUME SessionInv, [SessionNext]_vars
  PROVE  SessionInv'
<1>1. SlotsInv'
  BY StepsAreSlots, SlotsInvNext DEF SessionInv
<1>2. SessionTypeOK' /\ Going' /\ Lone'
  BY SessionTypes, GoingKept, LoneKept DEF SessionInv
<1>3. NothingLeftBehind'
  BY HeldKept DEF SessionInv, SlotsInv
<1> QED BY <1>1, <1>2, <1>3 DEF SessionInv

\* So it holds for good.
LEMMA SessionInvariance == SessionSpec => []SessionInv
<1>1. SessionInit => SessionInv
  BY SessionInvInit
<1>2. SessionInv /\ [SessionNext]_vars => SessionInv'
  BY SessionInvNext
<1> QED BY <1>1, <1>2, PTL DEF SessionSpec

-----------------------------------------------------------------------------

\* The requests of a client use the pool as Slots says its callers do, so that
\* what holds of Slots holds under them.
THEOREM SessionUsesSlots == SessionSpec => Spec
<1>1. SessionInit => Init
  BY DEF SessionInit
<1>2. SessionInv /\ [SessionNext]_vars => [Next]_slots
  BY StepsAreSlots DEF SessionInv
<1> QED BY <1>1, <1>2, SessionInvariance, PTL DEF SessionSpec, Spec

\* However many requests and redirects there are, a connection is held by the
\* hop that a request is at, until its response is finished with, and by no
\* other (BaseClient.send); a Location that cannot be followed is the exception.
THEOREM NoneLeftBehind == SessionSpec => []NothingLeftBehind
<1>1. SessionInv => NothingLeftBehind
  BY DEF SessionInv
<1> QED BY <1>1, SessionInvariance, PTL

\* The client of a module-level call is closed when its request ends, and not
\* before (_request, _ThrowawayClient's finish callback).
THEOREM ThrowawayEnds == SessionSpec => []ThrowawayClosed
<1>1. SessionInv => ThrowawayClosed
  BY DEF SessionInv, Lone, ThrowawayClosed
<1> QED BY <1>1, SessionInvariance, PTL
=============================================================================
