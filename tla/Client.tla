------------------------------- MODULE Client -------------------------------
(***************************************************************************)
(* BaseClient.send, src/punkreq/_client.py: the pipeline above the          *)
(* transport, with the redirect requests of _redirects.py and the cookie    *)
(* jar, which the client's other requests change meanwhile.                 *)
(*                                                                          *)
(* A header is abstracted to where its value comes from.  Every origin has  *)
(* a host of its own.                                                       *)
(***************************************************************************)
EXTENDS Integers, FiniteSets

CONSTANTS
    Origins,
    Secure,        \* the https origins
    Absent,        \* stands for Python's None
    MaxRedirects,  \* max_redirects
    MaxVersion     \* bound: how often the cookies of a host change

ASSUME OriginsAssumption == Secure \subseteq Origins /\ Absent \notin Origins
ASSUME BoundsAssumption == MaxRedirects \in Nat /\ MaxVersion \in Nat

Methods == {"GET", "HEAD", "POST", "PUT"}
Statuses == {200, 301, 302, 303, 307, 308}
Unusable == {"invalid", "unsupported"}

\* What the Cookie header holds: the caller's own cookies, or those that the
\* jar held for a host at some time.
Jarred == [host : Origins, version : 1..MaxVersion]
Explicit == [host |-> Absent, version |-> 0]
NoCookie == [host |-> Absent, version |-> -1]

Requests ==
    [origin : Origins, method : Methods, body : {"empty", "bytes", "stream"},
     auth : BOOLEAN, cookie : Jarred \union {Explicit, NoCookie}, referer : Origins \union {Absent}]

VARIABLES
    pc,
    request,  \* the request of this hop
    next,     \* the one that follows it
    hops,     \* len(history)
    open,     \* the hops whose response holds its connection
    jar,      \* for each host, how often its cookies changed; Absent: no jar
    first,    \* the origin the caller named
    uploads   \* hops that consumed a streamed body

clientVars == <<pc, request, next, hops, open, jar, first, uploads>>

-----------------------------------------------------------------------------

(***************************************************************************)
(* build_redirect_request.                                                 *)
(***************************************************************************)
RedirectMethod(r, status) ==
    IF status = 303 /\ r.method # "HEAD" THEN "GET"
    ELSE IF status \in {301, 302} /\ r.method = "POST" THEN "GET"
    ELSE r.method

BodyDropped(r, status) == RedirectMethod(r, status) # r.method

CrossOrigin(r, o) == o # r.origin

\* A slip: the client's auth is applied again on return to the origin it is for.
AuthAppliedAgain(r, o) == o = first

CarriedAuth(r, o) == r.auth /\ ~CrossOrigin(r, o)

Downgrade(r, o) == r.origin \in Secure /\ o \notin Secure

Redirected(r, status, o) ==
    [origin |-> o,
     method |-> RedirectMethod(r, status),
     body |-> IF BodyDropped(r, status) THEN "empty" ELSE r.body,
     auth |-> CarriedAuth(r, o),
     cookie |-> IF CrossOrigin(r, o) THEN NoCookie ELSE r.cookie,
     referer |-> IF Downgrade(r, o) THEN r.referer ELSE r.origin]

\* A slip: every redirect is followed.
NeverBlocked(r, status) == FALSE

\* A preserved body that cannot be replayed: the redirect is not followed.
Blocked(r, status) == r.body = "stream" /\ ~BodyDropped(r, status)

-----------------------------------------------------------------------------

\* The request as send() has it once auth is applied.
ClientInit ==
    /\ pc = "hop"
    /\ request \in {r \in Requests : r.cookie \in {Explicit, NoCookie} /\ r.referer = Absent}
    /\ next = request
    /\ hops = 0
    /\ open = {}
    /\ jar \in {Absent, [o \in Origins |-> 0]}
    /\ first = request.origin
    /\ uploads = 0

\* set_cookie_header: a Cookie header that is there is left alone.
WithCookie(r) ==
    IF jar # Absent /\ r.cookie = NoCookie /\ jar[r.origin] > 0
    THEN [r EXCEPT !.cookie = [host |-> r.origin, version |-> jar[r.origin]]]
    ELSE r

SendHop ==
    /\ pc = "hop"
    /\ request' = WithCookie(request)
    /\ uploads' = uploads + (IF request.body = "stream" THEN 1 ELSE 0)
    /\ pc' = "head"
    /\ UNCHANGED <<next, hops, open, jar, first>>

\* The transport raises; it has given its connection back (Transport.tla).
SendFail ==
    /\ pc = "head"
    /\ pc' = "raised"
    /\ UNCHANGED <<request, next, hops, open, jar, first, uploads>>

\* extract_cookies
Extract(o, setCookie) ==
    jar' = IF setCookie /\ jar # Absent /\ jar[o] < MaxVersion
           THEN [jar EXCEPT ![o] = @ + 1] ELSE jar

\* A slip: off by one.
AtHopLimitLate == hops > MaxRedirects

AtHopLimit == hops >= MaxRedirects

\* The head arrives and what to do is decided at once.  follow: redirects are
\* followed, and this response is one with a Location.
HeadArrives(status, location, setCookie, follow) ==
    /\ pc = "head"
    /\ open' = open \union {hops}
    /\ Extract(request.origin, setCookie)
    /\ IF ~follow \/ status = 200 THEN pc' = "returned" /\ UNCHANGED next
       ELSE IF AtHopLimit THEN pc' = "reject" /\ UNCHANGED next
       ELSE IF location \in Unusable THEN pc' = "misdirected" /\ UNCHANGED next
       ELSE IF Blocked(request, status) THEN pc' = "returned" /\ UNCHANGED next
       ELSE /\ pc' = "drain"
            /\ next' = Redirected(request, status, location)
    /\ UNCHANGED <<request, hops, first, uploads>>

\* The response beyond the limit is closed, and TooManyRedirects raised.
Reject ==
    /\ pc = "reject"
    /\ open' = open \ {hops}
    /\ pc' = "raised"
    /\ UNCHANGED <<request, next, hops, jar, first, uploads>>

\* A slip: the response of the hop is left unread.
KeptOpen == open

\* `await response.read()`: its end, good or bad, gives the connection back
\* (Stream.tla).
Drained == open \ {hops}

Drain ==
    /\ pc = "drain"
    /\ open' = Drained
    /\ hops' = hops + 1
    /\ request' = next
    /\ pc' = "hop"
    /\ UNCHANGED <<next, jar, first, uploads>>

DrainFail ==
    /\ pc = "drain"
    /\ open' = Drained
    /\ pc' = "raised"
    /\ UNCHANGED <<request, next, hops, jar, first, uploads>>

\* The caller reads or closes the response it got.
CallerCloses ==
    /\ pc = "returned" /\ open # {}
    /\ open' = {}
    /\ UNCHANGED <<pc, request, next, hops, jar, first, uploads>>

\* Another request of the client stores cookies.
OtherExtracts(o) ==
    /\ jar # Absent
    /\ Extract(o, TRUE)
    /\ UNCHANGED <<pc, request, next, hops, open, first, uploads>>

Over == pc \in {"returned", "raised", "misdirected"}

ClientRest == Over /\ UNCHANGED clientVars

-----------------------------------------------------------------------------

Answered ==
    \E status \in Statuses, location \in Origins \union Unusable, setCookie, follow \in BOOLEAN :
        HeadArrives(status, location, setCookie, follow)

ClientNext ==
    \/ SendHop \/ SendFail \/ Answered
    \/ Reject \/ Drain \/ DrainFail
    \/ CallerCloses
    \/ \E o \in Origins : OtherExtracts(o)
    \/ ClientRest

ClientSpec == ClientInit /\ [][ClientNext]_clientVars

-----------------------------------------------------------------------------

\* Every variable keeps to its kind; at most max_redirects redirects are
\* followed (_client.py:235-239).
TypeOK ==
    /\ pc \in {"hop", "head", "drain", "reject", "returned", "raised", "misdirected"}
    /\ request \in Requests /\ next \in Requests
    /\ hops \in 0..MaxRedirects
    /\ open \subseteq 0..MaxRedirects
    /\ jar \in [Origins -> 0..MaxVersion] \union {Absent}
    /\ first \in Origins
    /\ uploads \in Nat

\* What the caller gave for one origin, and cookies of one host, are never sent to
\* another, by whatever chain of redirects it is reached or left; and once dropped
\* the caller's do not come back, should the chain lead back to where they were for
\* (_redirects.py:58-62, _client.py:223-224).
CredentialsStayHome ==
    /\ [](/\ request.auth => request.origin = first
          /\ request.cookie = Explicit => request.origin = first
          /\ request.cookie \in Jarred => request.cookie.host = request.origin)
    /\ [][/\ request'.auth => request.auth
          /\ request'.cookie = Explicit => request.cookie = Explicit]_clientVars

\* A streamed body is consumed by one hop at most (_redirects.py:54-56).
UploadedOnce == uploads <= 1

\* A hop is sent only when every response before it has given its connection
\* back, so a chain of redirects needs one slot of the pool, not one per hop; and
\* when send() raises it leaves no response open that nobody can close, except
\* for a Location that cannot be followed (_client.py:234-248).
OneConnectionPerChain == pc \in {"hop", "head", "raised"} => open = {}

\* What the client itself put on a hop is not taken for the caller's on the next
\* one: a Cookie header of the jar is the jar's at the time, so that "cookies set
\* on a redirect hop" go out with the next hop (tests/test_client.py:231-241), and
\* a hop over plain http names no https page as its referer
\* (tests/test_redirects.py:105-120).
OwnHeadersFresh ==
    [][SendHop =>
        /\ request'.cookie \in Jarred => request'.cookie.version = jar[request.origin]
        /\ request'.referer \in Secure => request.origin \in Secure]_clientVars
=============================================================================
