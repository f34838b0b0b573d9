---------------------------- MODULE ClientProofs ----------------------------
(***************************************************************************)
(* Theorems about Client, for every set of origins, every limit of         *)
(* redirects and however often the jar changes; and about Jar, for every   *)
(* set of threads, of jars and of domains.                                 *)
(***************************************************************************)
EXTENDS Client, Jar, TLAPS

\* What a request may carry to its origin.
Lawful(r) ==
    /\ r.auth => r.origin = first
    /\ r.cookie = Explicit => r.origin = first
    /\ r.cookie \in Jarred => r.cookie.host = r.origin

\* The request at hand and, once it is decided, the one that follows are lawful.
LawfulHops == Lawful(request) /\ (pc = "drain" => Lawful(next))

\* The only response that may be open is that of this hop.
OpenHop ==
    /\ open \subseteq {hops}
    /\ pc \in {"hop", "head", "raised"} => open = {}

\* A streamed body goes out with this hop, or went out with an earlier one, which
\* no hop with a streamed body follows.
StreamAhead ==
    /\ uploads \in {0, 1}
    /\ pc = "hop" /\ request.body = "stream" => uploads = 0
    /\ pc = "drain" => next.body # "stream"

\* A hop is followed by another only below the limit.
BelowLimit == pc = "drain" => hops < MaxRedirects

ClientInv == TypeOK /\ LawfulHops /\ OpenHop /\ StreamAhead /\ BelowLimit

-----------------------------------------------------------------------------

\* The caller's own cookies, the jar's and none can be told apart.
LEMMA CookieKinds ==
  /\ Explicit \notin Jarred /\ NoCookie \notin Jarred /\ Explicit # NoCookie
  BY OriginsAssumption DEF Explicit, NoCookie, Jarred

\* A redirect request takes along only what may go to its origin.
LEMMA RedirectedLawful ==
  ASSUME NEW r \in Requests, NEW status \in Statuses, NEW o \in Origins, Lawful(r)
  PROVE  /\ Redirected(r, status, o) \in Requests
         /\ Lawful(Redirected(r, status, o))
         /\ ~Blocked(r, status) => Redirected(r, status, o).body # "stream"
<1> DEFINE n == Redirected(r, status, o)
<1>1. /\ n.origin = o
      /\ n.auth = (r.auth /\ ~CrossOrigin(r, o))
      /\ n.cookie = IF CrossOrigin(r, o) THEN NoCookie ELSE r.cookie
      /\ n.body = IF BodyDropped(r, status) THEN "empty" ELSE r.body
  BY DEF Redirected, CarriedAuth
<1>2. RedirectMethod(r, status) \in Methods
  BY DEF RedirectMethod, Requests, Methods
<1>3. n \in Requests
  BY <1>2 DEF Redirected, CarriedAuth, Requests
<1>4. Lawful(n)
  BY <1>1, CookieKinds DEF Lawful, CrossOrigin
<1>5. ~Blocked(r, status) => n.body # "stream"
  BY <1>1 DEF Blocked
<1> QED BY <1>3, <1>4, <1>5

\* The Cookie header that the jar adds is that of the host.
LEMMA WithCookieLawful ==
  ASSUME TypeOK, NEW r \in Requests, Lawful(r)
  PROVE  /\ WithCookie(r) \in Requests
         /\ Lawful(WithCookie(r))
         /\ WithCookie(r).body = r.body
<1>1. CASE jar # Absent /\ r.cookie = NoCookie /\ jar[r.origin] > 0
  <2> DEFINE c == [host |-> r.origin, version |-> jar[r.origin]]
  <2>1. jar[r.origin] \in 1..MaxVersion /\ r.origin \in Origins
    BY <1>1, BoundsAssumption DEF TypeOK, Requests
  <2>2. c \in Jarred /\ c.host = r.origin
    BY <2>1 DEF Jarred
  <2>3. WithCookie(r) = [r EXCEPT !.cookie = c]
    BY <1>1 DEF WithCookie
  <2>4. /\ WithCookie(r).cookie = c /\ WithCookie(r).origin = r.origin
        /\ WithCookie(r).auth = r.auth /\ WithCookie(r).body = r.body
    BY <2>3 DEF Requests
  <2>5. WithCookie(r) \in Requests
    BY <2>2, <2>3 DEF Requests
  <2> QED BY <2>2, <2>4, <2>5, CookieKinds DEF Lawful
<1>2. CASE ~(jar # Absent /\ r.cookie = NoCookie /\ jar[r.origin] > 0)
  <2>1. WithCookie(r) = r
    BY <1>2 DEF WithCookie
  <2> QED BY <2>1
<1> QED BY <1>1, <1>2

\* A jar stays a jar.
LEMMA ExtractTyped ==
  ASSUME TypeOK, NEW o \in Origins, NEW b \in BOOLEAN, Extract(o, b)
  PROVE  jar' \in [Origins -> 0..MaxVersion] \union {Absent}
  BY BoundsAssumption DEF TypeOK, Extract

\* Nothing is sent yet.
LEMMA ClientStarts == ClientInit => ClientInv
<1> SUFFICES ASSUME ClientInit PROVE ClientInv
  OBVIOUS
<1>1. request \in Requests /\ request.cookie \in {Explicit, NoCookie} /\ next = request /\ first = request.origin
  BY DEF ClientInit
<1>2. TypeOK
  BY <1>1, BoundsAssumption DEF ClientInit, TypeOK, Requests
<1>3. LawfulHops
  BY <1>1, CookieKinds DEF ClientInit, LawfulHops, Lawful
<1> QED BY <1>2, <1>3 DEF ClientInit, ClientInv, OpenHop, StreamAhead, BelowLimit

\* Every step of the pipeline keeps the invariant.
LEMMA ClientSteps ==
  ASSUME ClientInv, [ClientNext]_clientVars
  PROVE  ClientInv'
<1> USE DEF ClientInv
<1>1. CASE SendHop
  <2>1. /\ request' \in Requests /\ Lawful(WithCookie(request))
        /\ request' = WithCookie(request) /\ WithCookie(request).body = request.body
    BY <1>1, WithCookieLawful DEF SendHop, LawfulHops, TypeOK
  <2>2. uploads' \in {0, 1}
    BY <1>1 DEF SendHop, StreamAhead
  <2>3. Lawful(request)'
    BY <1>1, <2>1 DEF SendHop, Lawful
  <2> QED BY <1>1, <2>1, <2>2, <2>3
          DEF SendHop, TypeOK, LawfulHops, OpenHop, StreamAhead, BelowLimit
<1>2. CASE SendFail
  BY <1>2 DEF SendFail, TypeOK, LawfulHops, Lawful, OpenHop, StreamAhead, BelowLimit
<1>3. ASSUME NEW status \in Statuses, NEW location \in Origins \union Unusable,
             NEW setCookie \in BOOLEAN, NEW follow \in BOOLEAN,
             HeadArrives(status, location, setCookie, follow)
      PROVE  ClientInv'
  <2>1. jar' \in [Origins -> 0..MaxVersion] \union {Absent}
    BY <1>3, ExtractTyped DEF HeadArrives, TypeOK, Requests
  <2>2. /\ open' = open \union {hops} /\ open = {} /\ pc = "head"
        /\ pc' \in {"returned", "reject", "misdirected", "drain"}
        /\ UNCHANGED <<request, hops, first, uploads>>
    BY <1>3 DEF HeadArrives, OpenHop
  <2>3. CASE pc' = "drain"
    <3>1. /\ hops < MaxRedirects /\ location \in Origins /\ ~Blocked(request, status)
          /\ next' = Redirected(request, status, location)
      BY <1>3, <2>3, BoundsAssumption DEF HeadArrives, AtHopLimit, TypeOK
    <3>2. next' \in Requests /\ Lawful(Redirected(request, status, location)) /\ next'.body # "stream"
      BY <3>1, RedirectedLawful DEF TypeOK, LawfulHops
    <3>3. Lawful(request)' /\ Lawful(next)'
      BY <2>2, <3>1, <3>2 DEF Lawful, LawfulHops
    <3> QED BY <2>1, <2>2, <2>3, <3>1, <3>2, <3>3
            DEF TypeOK, LawfulHops, OpenHop, StreamAhead, BelowLimit
  <2>4. CASE pc' # "drain"
    <3>1. next' = next
      BY <1>3, <2>4 DEF HeadArrives
    <3>2. Lawful(request)'
      BY <2>2 DEF Lawful, LawfulHops
    <3> QED BY <2>1, <2>2, <2>4, <3>1, <3>2
            DEF TypeOK, LawfulHops, OpenHop, StreamAhead, BelowLimit
  <2> QED BY <2>3, <2>4
<1>4. CASE Reject
  BY <1>4 DEF Reject, TypeOK, LawfulHops, Lawful, OpenHop, StreamAhead, BelowLimit
<1>5. CASE Drain
  <2>1. hops' \in 0..MaxRedirects /\ open' = {}
    BY <1>5, BoundsAssumption DEF Drain, Drained, TypeOK, BelowLimit, OpenHop
  <2>2. Lawful(request)'
    BY <1>5 DEF Drain, LawfulHops, Lawful
  <2> QED BY <1>5, <2>1, <2>2 DEF Drain, TypeOK, LawfulHops, OpenHop, StreamAhead, BelowLimit
<1>6. CASE DrainFail
  BY <1>6 DEF DrainFail, Drained, TypeOK, LawfulHops, Lawful, OpenHop, StreamAhead, BelowLimit
<1>7. CASE CallerCloses
  BY <1>7 DEF CallerCloses, TypeOK, LawfulHops, Lawful, OpenHop, StreamAhead, BelowLimit
<1>8. ASSUME NEW o \in Origins, OtherExtracts(o) PROVE ClientInv'
  <2>1. jar' \in [Origins -> 0..MaxVersion] \union {Absent}
    BY <1>8, ExtractTyped DEF OtherExtracts
  <2> QED BY <1>8, <2>1 DEF OtherExtracts, TypeOK, LawfulHops, Lawful, OpenHop, StreamAhead, BelowLimit
<1>9. CASE UNCHANGED clientVars
  BY <1>9 DEF clientVars, TypeOK, LawfulHops, Lawful, OpenHop, StreamAhead, BelowLimit
<1> QED
  BY <1>1, <1>2, <1>3, <1>4, <1>5, <1>6, <1>7, <1>8, <1>9
  DEF ClientNext, Answered, ClientRest

\* So it holds for good.
LEMMA ClientInvHolds == ClientSpec => []ClientInv
  BY ClientStarts, ClientSteps, PTL DEF ClientSpec

\* Every variable of send keeps to its kind, and the hops to max_redirects, by the
\* check that comes before a redirect is built (_client.py:234-236).
THEOREM ClientTyped == ClientSpec => []TypeOK
<1>1. ClientInv => TypeOK
  BY DEF ClientInv
<1> QED BY <1>1, ClientInvHolds, PTL

\* The request that follows carries nothing of it that this one does not.
Derived ==
    pc = "drain" =>
        /\ next.auth => request.auth
        /\ next.cookie = Explicit => request.cookie = Explicit

\* A step puts back nothing of it that the request has dropped.
Kept ==
    /\ request'.auth => request.auth
    /\ request'.cookie = Explicit => request.cookie = Explicit

\* No step gives back what a request has dropped.
LEMMA DroppedSteps ==
  ASSUME ClientInv, Derived, [ClientNext]_clientVars
  PROVE  Derived' /\ Kept
<1>1. CASE SendHop
  <2>1. request \in Requests /\ request' = WithCookie(request) /\ pc' = "head"
    BY <1>1 DEF SendHop, ClientInv, TypeOK
  <2>2. CASE jar # Absent /\ request.cookie = NoCookie /\ jar[request.origin] > 0
    <3>1. jar[request.origin] \in 1..MaxVersion /\ request.origin \in Origins
      BY <2>1, <2>2, BoundsAssumption DEF ClientInv, TypeOK, Requests
    <3>2. request' = [request EXCEPT !.cookie = [host |-> request.origin, version |-> jar[request.origin]]]
      BY <2>1, <2>2 DEF WithCookie
    <3>3. request'.auth = request.auth /\ request'.cookie \in Jarred
      BY <2>1, <3>1, <3>2 DEF Requests, Jarred
    <3> QED BY <2>1, <3>3, CookieKinds DEF Derived, Kept
  <2>3. CASE ~(jar # Absent /\ request.cookie = NoCookie /\ jar[request.origin] > 0)
    <3>1. request' = request
      BY <2>1, <2>3 DEF WithCookie
    <3> QED BY <2>1, <3>1 DEF Derived, Kept
  <2> QED BY <2>2, <2>3
<1>2. ASSUME NEW status \in Statuses, NEW location \in Origins \union Unusable,
             NEW setCookie \in BOOLEAN, NEW follow \in BOOLEAN,
             HeadArrives(status, location, setCookie, follow)
      PROVE  Derived' /\ Kept
  <2>1. request' = request
    BY <1>2 DEF HeadArrives
  <2>2. CASE pc' = "drain"
    <3>1. next' = Redirected(request, status, location)
      BY <1>2, <2>2 DEF HeadArrives
    <3>2. /\ next'.auth = (request.auth /\ ~CrossOrigin(request, location))
          /\ next'.cookie = IF CrossOrigin(request, location) THEN NoCookie ELSE request.cookie
      BY <3>1 DEF Redirected, CarriedAuth
    <3> QED BY <2>1, <3>2, CookieKinds DEF Derived, Kept
  <2> QED BY <2>1, <2>2 DEF Derived, Kept
<1>3. CASE Drain
  BY <1>3 DEF Drain, Derived, Kept
<1>4. CASE SendFail \/ Reject \/ DrainFail
  BY <1>4 DEF SendFail, Reject, DrainFail, Derived, Kept
<1>5. CASE CallerCloses \/ (\E o \in Origins : OtherExtracts(o)) \/ UNCHANGED clientVars
  BY <1>5 DEF CallerCloses, OtherExtracts, clientVars, Derived, Kept
<1> QED BY <1>1, <1>2, <1>3, <1>4, <1>5 DEF ClientNext, Answered, ClientRest

\* What the caller gave for one origin, and cookies of one host, never reach another,
\* along chains of redirects of any length over any origins and however the jar
\* changes; and what of the caller's is dropped on the way stays dropped, should the
\* chain lead back (_redirects.py:58-62, _client.py:223-224).
THEOREM CredentialsHeld == ClientSpec => CredentialsStayHome
<1> DEFINE Home ==
             /\ request.auth => request.origin = first
             /\ request.cookie = Explicit => request.origin = first
             /\ request.cookie \in Jarred => request.cookie.host = request.origin
<1>1. ClientInit => Derived
  BY DEF ClientInit, Derived
<1>2. ClientInv /\ Derived /\ [ClientNext]_clientVars => Derived' /\ Kept
  BY DroppedSteps
<1>3. ClientInv => Home
  BY DEF ClientInv, LawfulHops, Lawful
<1>4. Kept => [Kept]_clientVars
  OBVIOUS
<1>5. ClientSpec => []Home
  BY <1>3, ClientInvHolds, PTL
<1>6. ClientSpec => [][Kept]_clientVars
  BY <1>1, <1>2, ClientInvHolds, PTL DEF ClientSpec
<1> QED BY <1>5, <1>6, PTL DEF CredentialsStayHome, Kept

\* A streamed body is sent by one hop at most (_redirects.py:52-56).
THEOREM UploadedOnceHolds == ClientSpec => []UploadedOnce
<1>1. ClientInv => UploadedOnce
  BY DEF ClientInv, StreamAhead, UploadedOnce
<1> QED BY <1>1, ClientInvHolds, PTL

\* A chain of redirects has one connection at a time (_client.py:234-248).
THEOREM OneConnectionHolds == ClientSpec => []OneConnectionPerChain
<1>1. ClientInv => OneConnectionPerChain
  BY DEF ClientInv, OpenHop, OneConnectionPerChain
<1> QED BY <1>1, ClientInvHolds, PTL

-----------------------------------------------------------------------------

(***************************************************************************)
(* The jar, and the threads that share it.                                 *)
(***************************************************************************)

Calls ==
    [do : {"nothing", "look", "delete", "update", "remove", "apply"},
     on : Jars \union {Nobody}, onto : Jars \union {Nobody},
     left : SUBSET Domains, seen : SUBSET Domains]

JarTypes ==
    /\ jars \in [Jars -> SUBSET Domains]
    /\ lockedBy \in [Jars -> Threads \union {Nobody}]
    /\ call \in [Threads -> Calls]

Holds(t) == Iterating(t) \/ call[t].do = "remove"

\* What holds of each thread: it has the lock of the jar that its call iterates
\* or removes from, and no other lock; and what it has seen of it is there.
ThreadInv(t) ==
    /\ Holds(t) => call[t].on \in Jars /\ lockedBy[call[t].on] = t
    /\ \A j \in Jars : lockedBy[j] = t => Holds(t) /\ call[t].on = j
    /\ call[t].do \in {"update", "apply"} => call[t].onto \in Jars
    /\ Iterating(t) => call[t].seen = jars[call[t].on] \ call[t].left
    /\ call[t].do = "remove" => call[t].seen \subseteq jars[call[t].on]

JarInv == JarTypes /\ \A t \in Threads : ThreadInv(t)

-----------------------------------------------------------------------------

\* No call is under way, and no lock is held.
LEMMA JarStarts == JarInit => JarInv
  BY NobodyAssumption
  DEF JarInit, JarInv, JarTypes, ThreadInv, Calls, NoCall, Holds, Iterating

\* A step of one thread that leaves the calls of the others alone, and the jars
\* and the locks that they have, keeps the invariant if it does so for itself.
LEMMA OthersKeep ==
  ASSUME JarInv, NEW t \in Threads,
         JarTypes', ThreadInv(t)',
         \A u \in Threads \ {t} : call'[u] = call[u],
         \A j \in Jars : lockedBy[j] \notin {t, Nobody} => lockedBy'[j] = lockedBy[j] /\ jars'[j] = jars[j],
         \A j \in Jars : lockedBy'[j] \notin {t, Nobody} => lockedBy'[j] = lockedBy[j]
  PROVE  JarInv'
<1> SUFFICES ASSUME NEW u \in Threads, u # t
             PROVE  ThreadInv(u)'
  BY DEF JarInv
<1>1. ThreadInv(u) /\ call'[u] = call[u] /\ u # Nobody
  BY NobodyAssumption DEF JarInv
<1>2. (Holds(u)' <=> Holds(u)) /\ (Iterating(u)' <=> Iterating(u))
  BY <1>1 DEF Holds, Iterating
<1>3. Holds(u) =>
        lockedBy'[call[u].on] = u /\ jars'[call[u].on] = jars[call[u].on]
  BY <1>1 DEF ThreadInv
<1>4. \A j \in Jars : lockedBy'[j] = u => lockedBy[j] = u
  BY <1>1
<1> QED BY <1>1, <1>2, <1>3, <1>4 DEF ThreadInv, Holds

\* Every step of a call keeps the invariant.
LEMMA JarSteps ==
  ASSUME JarInv, NEW t \in Threads, ThreadStep(t)
  PROVE  JarInv'
<1>0. JarTypes /\ ThreadInv(t) /\ t # Nobody /\ call[t] \in Calls
  BY NobodyAssumption DEF JarInv, JarTypes
<1>1. ASSUME NEW j \in Jars, NEW c \in Domains, Store(t, j, c) PROVE JarInv'
  <2>1. /\ jars' \in [Jars -> SUBSET Domains] /\ UNCHANGED <<lockedBy, call>>
        /\ \A k \in Jars : lockedBy[k] # Nobody => jars'[k] = jars[k]
    BY <1>0, <1>1 DEF Store, Unlocked, JarTypes
  <2>2. JarTypes' /\ ThreadInv(t)'
    BY <1>0, <1>1, <2>1 DEF JarTypes, ThreadInv, Holds, Iterating, Store, Ready
  <2> QED BY <2>1, <2>2, OthersKeep
<1>2. ASSUME NEW j \in Jars, NEW what \in {"look", "delete", "update"}, NEW target \in Jars \union {Nobody},
             what = "update" => target \in Jars, Iterate(t, j, what, target)
      PROVE  JarInv'
  <2>1. call'[t] = [do |-> what, on |-> j, onto |-> target, left |-> Domains, seen |-> {}]
    BY <1>0, <1>2 DEF Iterate, JarTypes
  <2>2. JarTypes'
    BY <1>0, <1>2 DEF Iterate, Locked, JarTypes, Calls
  <2>3. ThreadInv(t)'
    BY <1>0, <1>2, <2>1 DEF Iterate, Locked, JarTypes, ThreadInv, Holds, Iterating, Ready
  <2> QED BY <1>0, <1>2, <2>2, <2>3, OthersKeep DEF Iterate, Locked, Unlocked, JarTypes
<1>3. CASE Visit(t)
  <2>1. PICK d \in call[t].left :
          call' = [call EXCEPT ![t].left = @ \ {d}, ![t].seen = @ \union ({d} \intersect jars[call[t].on])]
    BY <1>3 DEF Visit
  <2>2. call[t].on \in Jars /\ call[t].seen = jars[call[t].on] \ call[t].left /\ call[t].left \subseteq Domains
    BY <1>0, <1>3 DEF Visit, ThreadInv, Holds, Calls
  <2>3. /\ call'[t].do = call[t].do /\ call'[t].on = call[t].on /\ call'[t].onto = call[t].onto
        /\ call'[t].left = call[t].left \ {d}
        /\ call'[t].seen = call[t].seen \union ({d} \intersect jars[call[t].on])
    BY <1>0, <2>1 DEF JarTypes, Calls
  <2>4. call'[t] \in Calls
    BY <1>0, <2>1, <2>2 DEF JarTypes, Calls
  <2>5. JarTypes'
    BY <1>0, <1>3, <2>1, <2>4 DEF Visit, JarTypes
  <2>6. ThreadInv(t)'
    BY <1>0, <1>3, <2>2, <2>3 DEF Visit, ThreadInv, Holds, Iterating
  <2> QED BY <1>0, <1>3, <2>1, <2>5, <2>6, OthersKeep DEF Visit, JarTypes
<1>4. CASE Looked(t) \/ Removed(t)
  <2>1. /\ call[t].on \in Jars /\ lockedBy[call[t].on] = t
        /\ \A j \in Jars : lockedBy[j] = t => j = call[t].on
    BY <1>0, <1>4 DEF Looked, Removed, Visited, ThreadInv, Holds, Iterating
  <2>2. /\ call' = [call EXCEPT ![t] = NoCall] /\ jars' = jars
        /\ lockedBy' = [lockedBy EXCEPT ![call[t].on] = Nobody]
    BY <1>4 DEF Looked, Removed, Return, Released
  <2>3. JarTypes'
    BY <1>0, <2>2 DEF JarTypes, Calls, NoCall
  <2>4. ThreadInv(t)'
    BY <1>0, <2>1, <2>2 DEF ThreadInv, JarTypes, NoCall, Holds, Iterating
  <2> QED BY <1>0, <2>1, <2>2, <2>3, <2>4, OthersKeep DEF JarTypes
<1>5. CASE Matched(t)
  <2>1. PICK match \in SUBSET call[t].seen :
          call' = [call EXCEPT ![t].do = "remove", ![t].seen = match]
    BY <1>5 DEF Matched
  <2>2. call'[t] = [call[t] EXCEPT !.do = "remove", !.seen = match]
    BY <1>0, <2>1 DEF JarTypes
  <2>3. /\ call'[t].do = "remove" /\ call'[t].seen = match /\ call'[t].on = call[t].on
        /\ call'[t] \in Calls
    BY <1>0, <2>2 DEF Calls
  <2>4. JarTypes'
    BY <1>0, <1>5, <2>1, <2>3 DEF Matched, JarTypes
  <2>5. ThreadInv(t)'
    BY <1>0, <1>5, <2>3 DEF Matched, Visited, ThreadInv, Holds, Iterating
  <2> QED BY <1>0, <1>5, <2>1, <2>4, <2>5, OthersKeep DEF Matched, JarTypes
<1>6. CASE Strike(t)
  <2>1. PICK d \in call[t].seen :
          /\ jars' = [jars EXCEPT ![call[t].on] = @ \ {d}]
          /\ call' = [call EXCEPT ![t].seen = @ \ {d}]
    BY <1>6 DEF Strike
  <2>2. /\ call[t].on \in Jars /\ lockedBy[call[t].on] = t
        /\ call[t].seen \subseteq jars[call[t].on]
    BY <1>0, <1>6 DEF Strike, ThreadInv, Holds
  <2>3. call'[t] = [call[t] EXCEPT !.seen = @ \ {d}]
    BY <1>0, <2>1 DEF JarTypes
  <2>4. /\ call'[t].do = "remove" /\ call'[t].seen = call[t].seen \ {d} /\ call'[t].on = call[t].on
        /\ call'[t] \in Calls
    BY <1>0, <1>6, <2>3 DEF Strike, Calls
  <2>5. JarTypes'
    BY <1>0, <1>6, <2>1, <2>2, <2>4 DEF Strike, JarTypes
  <2>6. ThreadInv(t)'
    BY <1>0, <1>6, <2>1, <2>2, <2>4 DEF Strike, ThreadInv, Holds, Iterating, JarTypes
  <2> QED BY <1>0, <1>6, <2>1, <2>2, <2>5, <2>6, OthersKeep DEF Strike, JarTypes
<1>7. CASE Snapshot(t)
  <2>1. /\ call[t].on \in Jars /\ lockedBy[call[t].on] = t
        /\ \A j \in Jars : lockedBy[j] = t => j = call[t].on
    BY <1>0, <1>7 DEF Snapshot, Visited, ThreadInv, Holds, Iterating
  <2>2. /\ call' = [call EXCEPT ![t].do = "apply"] /\ jars' = jars
        /\ lockedBy' = [lockedBy EXCEPT ![call[t].on] = Nobody]
    BY <1>7 DEF Snapshot, Copied, Released
  <2>3. call'[t].do = "apply" /\ call'[t].onto = call[t].onto /\ call'[t] \in Calls
    BY <1>0, <2>2 DEF JarTypes, Calls
  <2>4. JarTypes'
    BY <1>0, <2>2, <2>3 DEF JarTypes
  <2>5. call[t].onto \in Jars
    BY <1>0, <1>7 DEF Snapshot, Visited, ThreadInv
  <2>6. ThreadInv(t)'
    BY <1>0, <2>1, <2>2, <2>3, <2>5 DEF ThreadInv, JarTypes, Holds, Iterating
  <2> QED BY <1>0, <2>1, <2>2, <2>4, <2>6, OthersKeep DEF JarTypes
<1>8. CASE Apply(t)
  <2>1. PICK d \in call[t].seen :
          /\ jars' = [jars EXCEPT ![call[t].onto] = @ \union {d}]
          /\ call' = [call EXCEPT ![t].seen = @ \ {d}]
    BY <1>8 DEF Apply
  <2>2. call[t].onto \in Jars /\ lockedBy[call[t].onto] = Nobody /\ d \in Domains
    BY <1>0, <1>8 DEF Apply, Unlocked, ThreadInv, Calls
  <2>3. /\ call'[t].do = "apply" /\ call'[t].onto = call[t].onto /\ call'[t].on = call[t].on
        /\ call'[t] \in Calls
    BY <1>0, <1>8, <2>1 DEF Apply, JarTypes, Calls
  <2>4. JarTypes'
    BY <1>0, <1>8, <2>1, <2>2, <2>3 DEF Apply, JarTypes
  <2>5. ThreadInv(t)'
    BY <1>0, <1>8, <2>2, <2>3 DEF Apply, ThreadInv, Holds, Iterating
  <2> QED BY <1>0, <1>8, <2>1, <2>2, <2>4, <2>5, OthersKeep DEF Apply, JarTypes
<1>9. CASE Applied(t)
  <2>1. call' = [call EXCEPT ![t] = NoCall] /\ jars' = jars /\ lockedBy' = lockedBy
    BY <1>9 DEF Applied, Return
  <2>2. JarTypes'
    BY <1>0, <2>1 DEF JarTypes, Calls, NoCall
  <2>3. ThreadInv(t)'
    BY <1>0, <1>9, <2>1 DEF Applied, ThreadInv, JarTypes, NoCall, Holds, Iterating
  <2> QED BY <1>0, <2>1, <2>2, <2>3, OthersKeep DEF JarTypes
<1>10. \A j \in Jars : Clear(t, j) => JarInv'
  <2> SUFFICES ASSUME NEW j \in Jars, Clear(t, j) PROVE JarInv'
    OBVIOUS
  <2>1. /\ jars' \in [Jars -> SUBSET Domains] /\ UNCHANGED <<lockedBy, call>>
        /\ \A k \in Jars : lockedBy[k] # Nobody => jars'[k] = jars[k]
    BY <1>0 DEF Clear, Unlocked, JarTypes
  <2>2. JarTypes' /\ ThreadInv(t)'
    BY <1>0, <2>1 DEF JarTypes, ThreadInv, Holds, Iterating, Clear, Ready
  <2> QED BY <2>1, <2>2, OthersKeep
<1> QED
  BY <1>1, <1>2, <1>3, <1>4, <1>5, <1>6, <1>7, <1>8, <1>9, <1>10
  DEF ThreadStep, Look, Delete, Update

\* So it holds for good.
LEMMA JarInvHolds == JarSpec => []JarInv
<1>1. JarInv /\ [JarNext]_jarVars => JarInv'
  <2> SUFFICES ASSUME JarInv, [JarNext]_jarVars PROVE JarInv'
    OBVIOUS
  <2>1. CASE JarNext
    BY <2>1, JarSteps DEF JarNext
  <2>2. CASE UNCHANGED jarVars
    BY <2>2
    DEF jarVars, JarInv, JarTypes, ThreadInv, Holds, Iterating
  <2> QED BY <2>1, <2>2
<1> QED BY JarStarts, <1>1, PTL DEF JarSpec

\* What a call of Cookies sees of a jar is the jar at one moment, and what it
\* removes is there, whatever other threads do (_cookies.py:40-45, 83-117).
THEOREM JarSeenAtOnce == JarSpec => []SeenAtOnce
<1>1. JarInv => SeenAtOnce
  BY DEF JarInv, ThreadInv, SeenAtOnce
<1> QED BY <1>1, JarInvHolds, PTL

\* However many threads update jars from each other, they never wait for each
\* other's locks in a circle (_cookies.py:131-136).
THEOREM JarsNeverDeadlock == JarSpec => []NoCircularWait
<1>1. JarInv => NoCircularWait
  <2> SUFFICES ASSUME JarInv, NEW circle \in (SUBSET Threads) \ {{}}
               PROVE  \E t \in circle : WaitsFor(t) \notin circle \ {t}
    BY DEF NoCircularWait
  <2>1. PICK t \in circle : TRUE
    OBVIOUS
  <2>2. CASE WaitsFor(t) \notin circle \ {t}
    BY <2>2
  <2>3. CASE WaitsFor(t) \in circle \ {t}
    <3> DEFINE u == WaitsFor(t)
    <3>1. call[t].do = "apply" /\ call[t].onto \in Jars /\ lockedBy[call[t].onto] = u
      BY <2>3, NobodyAssumption DEF WaitsFor, JarInv, ThreadInv
    <3>2. Holds(u)
      BY <2>3, <3>1 DEF JarInv, ThreadInv
    <3>3. WaitsFor(u) = Nobody
      BY <3>2 DEF WaitsFor, Holds, Iterating
    <3> QED BY <2>3, <3>3, NobodyAssumption
  <2> QED BY <2>2, <2>3
<1> QED BY <1>1, JarInvHolds, PTL
=============================================================================
