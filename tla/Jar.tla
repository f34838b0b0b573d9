-------------------------------- MODULE Jar --------------------------------
(***************************************************************************)
(* Cookies of src/punkreq/_cookies.py, used by several threads at a time:  *)
(* the jar of a client, and the jars of the caller that it is copied from   *)
(* or updated with.  http.cookiejar locks what changes a jar, but neither   *)
(* its iterator nor clear(): Cookies takes the jar's lock around those.     *)
(*                                                                         *)
(* An iterator goes through a jar domain by domain, so a cookie stands for  *)
(* a domain's.  The lock may be taken again by the thread that has it, and *)
(* each jar has one of its own.                                            *)
(***************************************************************************)
CONSTANTS Threads, Jars, Domains, Nobody

ASSUME NobodyAssumption == Nobody \notin Threads

VARIABLES
    jars,     \* what each jar holds
    lockedBy, \* _cookies_lock of each jar
    call      \* what each thread is doing

jarVars == <<jars, lockedBy, call>>

\* do: "look" (get, in, iter, len, bool, repr), "delete" or "update" while the
\* jar `on` is iterated, "remove" or "apply" once it has been.
NoCall == [do |-> "nothing", on |-> Nobody, onto |-> Nobody, left |-> {}, seen |-> {}]

JarInit ==
    /\ jars \in [Jars -> SUBSET Domains]
    /\ lockedBy = [j \in Jars |-> Nobody]
    /\ call = [t \in Threads |-> NoCall]

-----------------------------------------------------------------------------

Unlocked(j) == lockedBy[j] = Nobody

Ready(t) == call[t].do = "nothing"

Return(t) == call' = [call EXCEPT ![t] = NoCall]

\* set, extract_cookies
Store(t, j, c) ==
    /\ Ready(t) /\ Unlocked(j)
    /\ jars' = [jars EXCEPT ![j] = @ \union {c}]
    /\ UNCHANGED <<lockedBy, call>>

\* clear, of the jar or of a domain of it; and the expired cookies that
\* set_cookie_header drops.
Clear(t, j) ==
    /\ Ready(t) /\ Unlocked(j)
    /\ \E gone \in {jars[j]} \union {{c} : c \in jars[j]} :
        jars' = [jars EXCEPT ![j] = @ \ gone]
    /\ UNCHANGED <<lockedBy, call>>

\* A slip: iterated without the lock.
NotLocked(t, j) == lockedBy

Locked(t, j) == [lockedBy EXCEPT ![j] = t]

Iterate(t, j, what, target) ==
    /\ Ready(t) /\ Unlocked(j)
    /\ lockedBy' = Locked(t, j)
    /\ call' = [call EXCEPT ![t] =
                    [do |-> what, on |-> j, onto |-> target, left |-> Domains, seen |-> {}]]
    /\ UNCHANGED jars

Look(t, j) == Iterate(t, j, "look", Nobody)

Delete(t, j) == Iterate(t, j, "delete", Nobody)

\* Cookies(other), or update(other): other is a client's jar, or a caller's own.
Update(t, j, other) == Iterate(t, other, "update", j)

Iterating(t) == call[t].do \in {"look", "delete", "update"}

Visit(t) ==
    /\ Iterating(t)
    /\ \E c \in call[t].left :
        call' = [call EXCEPT ![t].left = @ \ {c},
                             ![t].seen = @ \union ({c} \intersect jars[call[t].on])]
    /\ UNCHANGED <<jars, lockedBy>>

Visited(t, what) == call[t].do = what /\ call[t].left = {}

Released(t) == [lockedBy EXCEPT ![call[t].on] = Nobody]

Looked(t) ==
    /\ Visited(t, "look")
    /\ lockedBy' = Released(t)
    /\ Return(t)
    /\ UNCHANGED jars

\* The cookies to delete are those seen that match; the lock is kept.
Matched(t) ==
    /\ Visited(t, "delete")
    /\ \E match \in SUBSET call[t].seen :
        call' = [call EXCEPT ![t].do = "remove", ![t].seen = match]
    /\ UNCHANGED <<jars, lockedBy>>

Strike(t) ==
    /\ call[t].do = "remove"
    /\ \E c \in call[t].seen :
        /\ jars' = [jars EXCEPT ![call[t].on] = @ \ {c}]
        /\ call' = [call EXCEPT ![t].seen = @ \ {c}]
    /\ UNCHANGED lockedBy

Removed(t) ==
    /\ call[t].do = "remove" /\ call[t].seen = {}
    /\ lockedBy' = Released(t)
    /\ Return(t)
    /\ UNCHANGED jars

\* A slip: the lock of the jar copied from is kept while the cookies are set.
CopiesLocked(t) == lockedBy

\* A copy was made under the lock.
Copied(t) == Released(t)

Snapshot(t) ==
    /\ Visited(t, "update")
    /\ lockedBy' = Copied(t)
    /\ call' = [call EXCEPT ![t].do = "apply"]
    /\ UNCHANGED jars

\* Each cookie is set under the lock of the jar that is updated.
Apply(t) ==
    /\ call[t].do = "apply" /\ Unlocked(call[t].onto)
    /\ \E c \in call[t].seen :
        /\ jars' = [jars EXCEPT ![call[t].onto] = @ \union {c}]
        /\ call' = [call EXCEPT ![t].seen = @ \ {c}]
    /\ UNCHANGED lockedBy

Applied(t) ==
    /\ call[t].do = "apply" /\ call[t].seen = {}
    /\ Return(t)
    /\ UNCHANGED <<jars, lockedBy>>

ThreadStep(t) ==
    \/ \E j \in Jars :
        \/ Clear(t, j) \/ Look(t, j) \/ Delete(t, j)
        \/ \E c \in Domains : Store(t, j, c)
        \/ \E other \in Jars : Update(t, j, other)
    \/ Visit(t) \/ Looked(t)
    \/ Matched(t) \/ Strike(t) \/ Removed(t)
    \/ Snapshot(t) \/ Apply(t) \/ Applied(t)

JarNext == \E t \in Threads : ThreadStep(t)

JarSpec == JarInit /\ [][JarNext]_jarVars

-----------------------------------------------------------------------------

\* What a call has seen of a jar is what the jar holds, so that it answers, and
\* copies, the jar as it was at one moment; and what it is about to remove is
\* there, or clear() would raise (_cookies.py:40-45, 83-117, 131-136).
SeenAtOnce ==
    \A t \in Threads :
        /\ Iterating(t) => call[t].seen = jars[call[t].on] \ call[t].left
        /\ call[t].do = "remove" => call[t].seen \subseteq jars[call[t].on]

WaitsFor(t) ==
    IF call[t].do = "apply" /\ call[t].seen # {} THEN lockedBy[call[t].onto] ELSE Nobody

\* Threads that update jars with each other's never wait for each other in a
\* circle: no call asks for a second lock (_cookies.py:131-136).
NoCircularWait ==
    \A circle \in (SUBSET Threads) \ {{}} :
        \E t \in circle : WaitsFor(t) \notin circle \ {t}
=============================================================================
