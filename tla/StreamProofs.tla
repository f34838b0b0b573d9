---------------------------- MODULE StreamProofs ----------------------------
(***************************************************************************)
(* Theorems about Stream, for any number of tasks and iterators.           *)
(***************************************************************************)
EXTENDS Stream, TLAPS

\* A task that drives a chain, in the body or in the teardown that ends it.
Driving(t) == on[t] # None /\ pc[t] \in {"pull", "unwind", "abort", "release"}

\* One chain at most is ever in the body, with one driver at most; and once the
\* body has ended, only to be unwound.
Single ==
    /\ \A t \in Tasks : pc[t] \in {"held", "pull", "unwind"} => on[t] # None
    /\ \A t \in Tasks : Driving(t) => chain[on[t]] = "open"
    /\ \A t, u \in Tasks : Driving(t) /\ Driving(u) /\ on[t] = on[u] => t = u
    /\ \A j, k \in Chains : chain[j] = "open" /\ chain[k] = "open" => j = k
    /\ \A k \in Chains : chain[k] = "open" => consumed
    /\ complete => consumed
    /\ complete => \A k \in Chains : chain[k] = "open" =>
           \E t \in Tasks : Driving(t) /\ on[t] = k /\ pc[t] # "pull"

\* _PooledStream.close is entered by one task, which gives the connection back
\* and then tells.
Turns ==
    /\ \A t \in Tasks : pc[t] \in {"abort", "release"} => finalized
    /\ \A t, u \in Tasks : {pc[t], pc[u]} \subseteq {"abort", "release"} => t = u
    /\ ~finalized => released = 0 /\ finished = 0
    /\ \A t \in Tasks : pc[t] = "abort" => released = 0 /\ finished = 0
    /\ \A t \in Tasks : pc[t] = "release" => released = 1 /\ finished = 0

\* What it goes by.
Judged ==
    /\ \A t \in Tasks : pc[t] = "abort" /\ ~discard[t] => complete
    /\ complete /\ released = 0 => wire = "ended"
    /\ kept => released = 1 /\ complete /\ wire = "ended"

Inv == TypeOK /\ Single /\ Turns /\ Judged

-----------------------------------------------------------------------------

(***************************************************************************)
(* How the last await of a teardown returns.                               *)
(***************************************************************************)

\* A chain that t drove has left the body, and others that were never started
\* may be closed with it.
Left(t) ==
    /\ pc' \in {[pc EXCEPT ![t] = "idle"], [pc EXCEPT ![t] = "held"]}
    /\ pc'[t] = "idle" => on' = [on EXCEPT ![t] = None]
    /\ pc'[t] = "held" => on' = on /\ on[t] # None
    /\ on[t] # None => chain'[on[t]] # "open"
    /\ \A k \in Chains : chain'[k] = "open" => chain[k] = "open"
    /\ \A k \in Chains : chain[k] = "open" /\ k # on[t] => chain'[k] = "open"
    /\ consumed' = consumed

\* A call that returns may leave a chain behind, and no more.
LEMMA Returns ==
  ASSUME TypeOK, NEW t \in Tasks, pc[t] # "idle", Return(t)
  PROVE  /\ Left(t)
         /\ {content', closed'} \subseteq BOOLEAN
         /\ slot' \in Chains \union {None}
         /\ chain' \in [Chains -> {"new", "open", "tail", "rest", "done"}]
         /\ strayed' \subseteq Chains
         /\ pc' \in [Tasks -> {"idle", "held", "pull", "unwind", "abort", "release"}]
         /\ on' \in [Tasks -> Chains \union {None}]
         /\ reading' = reading
         /\ failed' \in [Tasks -> BOOLEAN]
         /\ discard' \in [Tasks -> BOOLEAN]
         /\ \A u \in Tasks \ {t} : discard'[u] = discard[u]
         /\ closed => closed'
<1>1. CASE on[t] = None
  BY <1>1 DEF Return, Leave, response, Left, TypeOK
<1>2. CASE on[t] # None /\ EndChain(t)
  BY <1>2 DEF EndChain, Reclose, Unstarted, Leave, Left, TypeOK
<1>3. CASE on[t] # None /\ YieldTail(t)
  BY <1>3 DEF YieldTail, Left, TypeOK
<1>4. CASE on[t] # None /\ YieldRest(t)
  BY <1>4 DEF YieldRest, Reclose, Unstarted, Left, TypeOK
<1> QED BY <1>1, <1>2, <1>3, <1>4 DEF Return

\* Whoever enters the stream's close goes on in its first await.
Entered(t, k) == MayEnter /\ Enter(t, k)

\* A chain that is unwound goes on into _PooledStream.close, or is over.
LEMMA UnwindSteps ==
  ASSUME NEW t \in Tasks, Unwind(t)
  PROVE  /\ pc[t] = "unwind"
         /\ \/ Entered(t, on[t]) /\ UNCHANGED <<response, reading, failed>>
            \/ Return(t) /\ UNCHANGED stream
  BY DEF Unwind, Entered

-----------------------------------------------------------------------------

\* Every step keeps the types.
LEMMA Types ==
  ASSUME TypeOK, Turns, [Next]_vars
  PROVE  TypeOK'
<1>1. ASSUME NEW t \in Tasks, Iter(t)
      PROVE  TypeOK'
  BY <1>1 DEF Iter, Install, TypeOK, stream
<1>2. ASSUME NEW t \in Tasks, Start(t)
      PROVE  TypeOK'
  BY <1>2, ZenonT(30) DEF Start, Leave, TypeOK, stream
<1>3. ASSUME NEW t \in Tasks, Read(t)
      PROVE  TypeOK'
  BY <1>3, ZenonT(30) DEF Read, Install, TypeOK, stream
<1>4. ASSUME NEW t \in Tasks,
             Resume(t) \/ Abandon(t) \/ PullChunk(t) \/ PullEnd(t) \/ PullFail(t)
      PROVE  TypeOK'
  BY <1>4 DEF Resume, Abandon, Leave, PullChunk, PullEnd, PullFail, TypeOK, response, stream
<1>5. ASSUME NEW t \in Tasks, Unwind(t)
      PROVE  TypeOK'
  <2>1. CASE Entered(t, on[t]) /\ UNCHANGED <<response, reading, failed>>
    BY <2>1 DEF Entered, Enter, TypeOK, response
  <2>2. CASE Return(t) /\ UNCHANGED stream
    BY <1>5, <2>2, Returns, UnwindSteps DEF Left, TypeOK, stream
  <2> QED BY <1>5, <2>1, <2>2, UnwindSteps
<1>6. ASSUME NEW t \in Tasks, NEW cut \in BOOLEAN, Abort(t, cut)
      PROVE  TypeOK'
  <2>1. released = 0
    BY <1>6 DEF Abort, Turns
  <2>2. kept' \in BOOLEAN /\ failed' \in [Tasks -> BOOLEAN]
    BY <1>6 DEF Abort, KeepsConn, TypeOK
  <2> QED BY <1>6, <2>1, <2>2 DEF Abort, TypeOK, response
<1>7. ASSUME NEW t \in Tasks, Finish(t)
      PROVE  TypeOK'
  <2>1. finished = 0
    BY <1>7 DEF Finish, Turns
  <2> QED BY <1>7, <2>1, Returns DEF Left, Finish, TypeOK
<1>8. ASSUME NEW t \in Tasks, DrainTail(t)
      PROVE  TypeOK'
  BY <1>8 DEF DrainTail, EndChain, Reclose, Unstarted, Leave, TypeOK, stream
<1>9. ASSUME NEW t \in Tasks, CloseSuspended(t)
      PROVE  TypeOK'
  BY <1>9 DEF CloseSuspended, Closing, MustUnwind, TypeOK, stream
<1>10. ASSUME NEW t \in Tasks, CloseStream(t)
       PROVE  TypeOK'
  BY <1>10 DEF CloseStream, Closing, Enter, Leave, TypeOK, stream
<1>11. CASE UNCHANGED vars
  BY <1>11 DEF TypeOK, vars, response, stream, task
<1> QED
  BY <1>1, <1>2, <1>3, <1>4, <1>5, <1>6, <1>7, <1>8, <1>9, <1>10, <1>11 DEF Next, TaskStep

-----------------------------------------------------------------------------

(***************************************************************************)
(* Who gives the connection back.                                          *)
(***************************************************************************)

\* A step that leaves alone who is in the stream's close, and what it did.
Elsewhere ==
    /\ \A t \in Tasks : pc'[t] \in {"abort", "release"} => pc'[t] = pc[t] /\ discard'[t] = discard[t]
    /\ UNCHANGED <<finalized, released, kept, finished>>

\* Who enters close first is the only one to go through it.
LEMMA EntersAlone ==
  ASSUME TypeOK, Turns, Judged, NEW t \in Tasks, NEW k, Entered(t, k)
  PROVE  Turns' /\ Judged'
<1>1. \A u \in Tasks : pc[u] \notin {"abort", "release"}
  BY DEF Entered, MayEnter, Turns
<1>2. /\ \A u \in Tasks : pc'[u] \in {"abort", "release"} => u = t
      /\ pc'[t] = "abort" /\ discard'[t] = ~complete
  BY <1>1 DEF Entered, Enter, TypeOK
<1> QED BY <1>2 DEF Entered, MayEnter, Enter, Turns, Judged

\* Nobody enters it twice.
LEMMA TurnsKept ==
  ASSUME TypeOK, Single, Turns, Judged, [Next]_vars
  PROVE  Turns' /\ Judged'
<1>0. ASSUME Elsewhere, UNCHANGED <<complete, wire>>
      PROVE  Turns' /\ Judged'
  BY <1>0 DEF Elsewhere, Turns, Judged
<1>1. ASSUME NEW t \in Tasks, Iter(t) \/ Start(t) \/ Read(t)
      PROVE  Turns' /\ Judged'
  BY <1>0, <1>1 DEF Iter, Start, Leave, Read, Elsewhere, TypeOK, stream
<1>2. ASSUME NEW t \in Tasks, Resume(t) \/ Abandon(t) \/ PullChunk(t) \/ PullFail(t)
      PROVE  Turns' /\ Judged'
  BY <1>0, <1>2 DEF Resume, Abandon, Leave, PullChunk, PullFail, Elsewhere, TypeOK, stream
<1>3. ASSUME NEW t \in Tasks, PullEnd(t)
      PROVE  Turns' /\ Judged'
  <2>1. Elsewhere /\ complete' /\ wire' = "ended"
    BY <1>3 DEF PullEnd, Elsewhere, TypeOK
  <2> QED BY <2>1 DEF Elsewhere, Turns, Judged
<1>4. ASSUME NEW t \in Tasks, Unwind(t)
      PROVE  Turns' /\ Judged'
  <2>1. CASE Entered(t, on[t])
    BY <2>1, EntersAlone
  <2>2. CASE Return(t) /\ UNCHANGED stream
    <3>1. \A u \in Tasks : pc'[u] \in {"abort", "release"} => u # t /\ pc'[u] = pc[u]
      BY <1>4, <2>2, Returns, UnwindSteps DEF Left, TypeOK
    <3> QED BY <1>0, <1>4, <2>2, <3>1, Returns, UnwindSteps DEF Elsewhere, stream
  <2> QED BY <1>4, <2>1, <2>2, UnwindSteps
<1>5. ASSUME NEW t \in Tasks, NEW cut \in BOOLEAN, Abort(t, cut)
      PROVE  Turns' /\ Judged'
  <2>1. /\ finalized /\ released = 0 /\ finished = 0 /\ ~kept
        /\ ~discard[t] => complete
        /\ complete => wire = "ended"
        /\ \A u \in Tasks : pc[u] \in {"abort", "release"} => u = t
    BY <1>5 DEF Abort, Turns, Judged
  <2>2. /\ \A u \in Tasks : pc'[u] \in {"abort", "release"} => u = t
        /\ pc'[t] = "release" /\ released' = 1
        /\ UNCHANGED <<finalized, complete, finished>>
    BY <1>5, <2>1 DEF Abort, TypeOK
  <2>3. kept' => complete /\ wire' = "ended"
    BY <1>5, <2>1 DEF Abort, KeepsConn
  <2> QED BY <2>1, <2>2, <2>3 DEF Turns, Judged
<1>6. ASSUME NEW t \in Tasks, Finish(t)
      PROVE  Turns' /\ Judged'
  <2>1. /\ finalized /\ released = 1 /\ finished = 0
        /\ \A u \in Tasks : pc[u] \in {"abort", "release"} => u = t
    BY <1>6 DEF Finish, Turns
  <2>2. \A u \in Tasks : pc'[u] \notin {"abort", "release"}
    BY <1>6, <2>1, Returns DEF Finish, Left, TypeOK
  <2> QED BY <1>6, <2>1, <2>2 DEF Finish, Turns, Judged
<1>7. ASSUME NEW t \in Tasks, DrainTail(t)
      PROVE  Turns' /\ Judged'
  BY <1>0, <1>7 DEF DrainTail, EndChain, Leave, Elsewhere, TypeOK, stream
<1>8. ASSUME NEW t \in Tasks, CloseSuspended(t)
      PROVE  Turns' /\ Judged'
  BY <1>0, <1>8 DEF CloseSuspended, Elsewhere, TypeOK, stream
<1>9. ASSUME NEW t \in Tasks, CloseStream(t)
      PROVE  Turns' /\ Judged'
  <2>1. CASE Entered(t, None)
    BY <2>1, EntersAlone
  <2>2. CASE Leave(t) /\ UNCHANGED stream
    BY <1>0, <2>2 DEF Leave, Elsewhere, TypeOK, stream
  <2> QED BY <1>9, <2>1, <2>2 DEF CloseStream, Entered
<1>10. CASE UNCHANGED vars
  BY <1>10 DEF Turns, Judged, vars, stream, task
<1> QED
  BY <1>1, <1>2, <1>3, <1>4, <1>5, <1>6, <1>7, <1>8, <1>9, <1>10 DEF Next, TaskStep

-----------------------------------------------------------------------------

(***************************************************************************)
(* The chain in the body.                                                  *)
(***************************************************************************)

\* No chain comes into the body, and nobody stops or starts driving one.
Aside(t) ==
    /\ UNCHANGED <<consumed, complete>>
    /\ \A u \in Tasks \ {t} : pc'[u] = pc[u] /\ on'[u] = on[u]
    /\ ~Driving(t) /\ ~Driving(t)'
    /\ pc'[t] \in {"held", "pull", "unwind"} => on'[t] # None
    /\ \A k \in Chains : chain'[k] = "open" <=> chain[k] = "open"

\* Where no chain comes into the body there is still one at most.
LEMMA AsideKept ==
  ASSUME TypeOK, Single, NEW t \in Tasks, Aside(t)
  PROVE  Single'
<1>1. \A u \in Tasks : (Driving(u)' <=> Driving(u)) /\ (Driving(u)' => on'[u] = on[u] /\ pc'[u] = pc[u])
  BY DEF Aside, Driving
<1>2. \A u \in Tasks : Driving(u) => on[u] \in Chains
  BY DEF Driving, TypeOK
<1>3. \A u \in Tasks : pc'[u] \in {"held", "pull", "unwind"} => on'[u] # None
  BY DEF Aside, Single
<1>4. /\ \A u \in Tasks : Driving(u)' => chain'[on'[u]] = "open"
      /\ \A u, v \in Tasks : Driving(u)' /\ Driving(v)' /\ on'[u] = on'[v] => u = v
  BY <1>1, <1>2 DEF Aside, Single
<1>5. /\ \A j, k \in Chains : chain'[j] = "open" /\ chain'[k] = "open" => j = k
      /\ \A k \in Chains : chain'[k] = "open" => consumed'
      /\ complete' => consumed'
  BY DEF Aside, Single
<1>6. complete' => \A k \in Chains : chain'[k] = "open" =>
        \E u \in Tasks : Driving(u)' /\ on'[u] = k /\ pc'[u] # "pull"
  BY <1>1 DEF Aside, Single
<1> QED BY <1>3, <1>4, <1>5, <1>6 DEF Single

\* The driver of a chain goes on to another await of it.
LEMMA DrivesOn ==
  ASSUME TypeOK, Single, NEW t \in Tasks, NEW a \in {"unwind", "abort", "release"},
         Driving(t), pc' = [pc EXCEPT ![t] = a],
         UNCHANGED <<on, chain, consumed>>, complete' => complete \/ pc[t] = "pull"
  PROVE  Single'
<1>1. on[t] \in Chains /\ chain[on[t]] = "open"
  BY DEF Driving, Single, TypeOK
<1>2. \A u \in Tasks : Driving(u)' <=> Driving(u)
  BY DEF Driving, TypeOK
<1>3. \A u \in Tasks : pc'[u] \in {"held", "pull", "unwind"} => on'[u] # None
  BY DEF Driving, Single, TypeOK
<1>4. Driving(t)' /\ on'[t] = on[t] /\ pc'[t] # "pull" /\ \A k \in Chains : chain[k] = "open" => k = on[t]
  BY <1>1, <1>2 DEF Single, TypeOK
<1> QED BY <1>1, <1>2, <1>3, <1>4 DEF Single

\* A task leaves the chain it has driven.
LEMMA LeavesDriven ==
  ASSUME TypeOK, Single, NEW t \in Tasks, Left(t), Driving(t) \/ on[t] = None, complete' = complete
  PROVE  Single'
<1>1. \A u \in Tasks \ {t} : pc'[u] = pc[u] /\ on'[u] = on[u]
  BY DEF Left, TypeOK
<1>2. ~Driving(t)' /\ (pc'[t] \in {"held", "pull", "unwind"} => on'[t] # None)
  BY DEF Left, Driving, TypeOK
<1>3. CASE on[t] = None
  <2>1. \A k \in Chains : chain'[k] = "open" <=> chain[k] = "open"
    BY <1>3, NoneAssumption DEF Left
  <2> QED BY <1>1, <1>2, <1>3, <2>1, AsideKept DEF Aside, Driving, Left
<1>4. CASE Driving(t)
  <2>1. on[t] \in Chains /\ chain[on[t]] = "open"
    BY <1>4 DEF Driving, Single, TypeOK
  <2>2. \A k \in Chains : chain'[k] # "open"
    BY <1>4, <2>1 DEF Left, Driving, Single
  <2>3. \A u \in Tasks : ~Driving(u)'
    <3>1. ASSUME NEW u \in Tasks, u # t
          PROVE  ~Driving(u)
      BY <1>4, <2>1, <3>1 DEF Driving, Single, TypeOK
    <3> QED BY <1>1, <1>2, <3>1 DEF Driving
  <2>4. \A u \in Tasks : pc'[u] \in {"held", "pull", "unwind"} => on'[u] # None
    BY <1>1, <1>2 DEF Single
  <2> QED BY <2>2, <2>3, <2>4 DEF Left, Single
<1> QED BY <1>3, <1>4

\* A task starts to drive a chain that nobody drives.
LEMMA Drives ==
  ASSUME TypeOK, Single, NEW t \in Tasks, NEW k \in Chains, NEW a \in {"pull", "unwind"},
         ~Driving(t), pc' = [pc EXCEPT ![t] = a], on' = [on EXCEPT ![t] = k],
         \A u \in Tasks : Driving(u) => on[u] # k,
         \A j \in Chains : chain'[j] = "open" <=> j = k \/ chain[j] = "open",
         \A j \in Chains : chain[j] = "open" => j = k,
         consumed', complete' = complete, a = "pull" => ~complete
  PROVE  Single'
<1>1. k # None
  BY NoneAssumption
<1>2. \A u \in Tasks : Driving(u)' <=> u = t \/ Driving(u)
  BY <1>1 DEF Driving, TypeOK
<1>3. \A u \in Tasks : ~(Driving(u) /\ u # t)
  BY DEF Driving, Single, TypeOK
<1>4. on'[t] = k /\ pc'[t] = a /\ chain'[k] = "open" /\ \A j \in Chains : chain'[j] = "open" => j = k
  BY DEF TypeOK
<1>5. \A u \in Tasks : pc'[u] \in {"held", "pull", "unwind"} => on'[u] # None
  BY <1>1 DEF Single, TypeOK
<1> QED BY <1>2, <1>3, <1>4, <1>5 DEF Single

\* A chain comes into the body only when no other is in it.
LEMMA SingleKept ==
  ASSUME TypeOK, Single, [Next]_vars
  PROVE  Single'
<1>0. \A t \in Tasks : (Driving(t) => Running(on[t])) /\ (pc[t] \in {"idle", "held"} => ~Driving(t))
  BY DEF Driving, Running
<1>1. ASSUME NEW t \in Tasks, Iter(t)
      PROVE  Single'
  BY <1>0, <1>1, NoneAssumption, AsideKept DEF Iter, Fresh, Aside, Driving, TypeOK, stream
<1>2. ASSUME NEW t \in Tasks, Start(t)
      PROVE  Single'
  <2>1. CASE MayStart
    <3>1. /\ on[t] \in Chains /\ ~complete
          /\ \A k \in Chains : chain[k] # "open"
          /\ \A u \in Tasks : ~Driving(u)
      BY <1>2, <2>1 DEF Start, MayStart, Single, Driving, TypeOK
    <3>2. /\ pc' = [pc EXCEPT ![t] = "pull"] /\ on' = [on EXCEPT ![t] = on[t]]
          /\ chain' = [chain EXCEPT ![on[t]] = "open"] /\ consumed' /\ complete' = complete
      BY <1>2, <2>1 DEF Start, stream, TypeOK
    <3>3. \A j \in Chains : chain'[j] = "open" <=> j = on[t] \/ chain[j] = "open"
      BY <3>1, <3>2 DEF TypeOK
    <3> QED BY <3>1, <3>2, <3>3, Drives
  <2>2. CASE ~MayStart
    BY <1>0, <1>2, <2>2, AsideKept DEF Start, Leave, Aside, Driving, TypeOK, stream
  <2> QED BY <2>1, <2>2
<1>3. ASSUME NEW t \in Tasks, Read(t)
      PROVE  Single'
  <2>1. CASE MayStart
    <3>1. PICK k \in Chains : /\ pc' = [pc EXCEPT ![t] = "pull"] /\ on' = [on EXCEPT ![t] = k]
                              /\ chain' = [chain EXCEPT ![k] = "open"] /\ consumed'
      BY <1>3, <2>1 DEF Read
    <3>2. /\ ~complete /\ complete' = complete
          /\ \A j \in Chains : chain[j] # "open"
          /\ \A u \in Tasks : ~Driving(u)
      BY <1>3, <2>1 DEF Read, MayStart, Single, Driving, TypeOK, stream
    <3>3. \A j \in Chains : chain'[j] = "open" <=> j = k \/ chain[j] = "open"
      BY <3>1 DEF TypeOK
    <3> QED BY <3>1, <3>2, <3>3, Drives
  <2>2. CASE ~MayStart
    BY <1>0, <1>3, <2>2, AsideKept DEF Read, Aside, Driving, TypeOK, stream
  <2> QED BY <2>1, <2>2
<1>4. ASSUME NEW t \in Tasks, Resume(t)
      PROVE  Single'
  <2>1. on[t] \in Chains /\ chain[on[t]] = "open" /\ ~Driving(t)
    BY <1>0, <1>4 DEF Resume, Single, TypeOK
  <2>2. \A u \in Tasks : Driving(u) => on[u] # on[t]
    BY <1>0, <1>4 DEF Resume
  <2>3. consumed /\ ~complete /\ \A j \in Chains : chain[j] = "open" => j = on[t]
    BY <2>1, <2>2 DEF Single
  <2>4. /\ pc' = [pc EXCEPT ![t] = "pull"] /\ on' = [on EXCEPT ![t] = on[t]]
        /\ chain' = chain /\ consumed' = consumed /\ complete' = complete
    BY <1>4 DEF Resume, response, stream, TypeOK
  <2> QED BY <2>1, <2>2, <2>3, <2>4, Drives
<1>5. ASSUME NEW t \in Tasks, Abandon(t)
      PROVE  Single'
  BY <1>0, <1>5, AsideKept DEF Abandon, Leave, Aside, Driving, TypeOK, response, stream
<1>6. ASSUME NEW t \in Tasks, PullChunk(t)
      PROVE  Single'
  <2>1. Driving(t) /\ on[t] \in Chains
    BY <1>6 DEF PullChunk, Driving, Single, TypeOK
  <2>2. ~complete
    BY <1>6, <2>1 DEF PullChunk, Single
  <2>3. /\ pc' = [pc EXCEPT ![t] = "held"]
        /\ UNCHANGED <<on, chain, consumed, complete>>
    BY <1>6 DEF PullChunk, response, stream
  <2>4. \A u \in Tasks : Driving(u)' <=> u # t /\ Driving(u)
    BY <2>3 DEF Driving, TypeOK
  <2>5. \A u \in Tasks : pc'[u] \in {"held", "pull", "unwind"} => on'[u] # None
    BY <2>1, <2>3 DEF Driving, Single, TypeOK
  <2> QED BY <2>2, <2>3, <2>4, <2>5 DEF Single
<1>7. ASSUME NEW t \in Tasks, PullEnd(t) \/ PullFail(t)
      PROVE  Single'
  <2>1. Driving(t)
    BY <1>7 DEF PullEnd, PullFail, Driving, Single
  <2> QED BY <1>7, <2>1, DrivesOn DEF PullEnd, PullFail, response, stream
<1>8. ASSUME NEW t \in Tasks, Unwind(t)
      PROVE  Single'
  <2>1. Driving(t)
    BY <1>8, UnwindSteps DEF Driving, Single
  <2>2. CASE Entered(t, on[t]) /\ UNCHANGED <<response, reading, failed>>
    <3>1. pc' = [pc EXCEPT ![t] = "abort"] /\ on' = on /\ UNCHANGED <<chain, consumed, complete>>
      BY <2>2 DEF Entered, Enter, response, TypeOK
    <3> QED BY <2>1, <3>1, DrivesOn
  <2>3. CASE Return(t) /\ UNCHANGED stream
    BY <1>8, <2>1, <2>3, UnwindSteps, Returns, LeavesDriven DEF stream
  <2> QED BY <1>8, <2>2, <2>3, UnwindSteps
<1>9. ASSUME NEW t \in Tasks, NEW cut \in BOOLEAN, Abort(t, cut)
      PROVE  Single'
  <2>1. CASE on[t] = None
    BY <1>9, <2>1, AsideKept DEF Abort, Aside, Driving, TypeOK, response
  <2>2. CASE on[t] # None
    BY <1>9, <2>2, DrivesOn DEF Abort, Driving, response
  <2> QED BY <2>1, <2>2
<1>10. ASSUME NEW t \in Tasks, Finish(t)
       PROVE  Single'
  BY <1>10, Returns, LeavesDriven DEF Finish, Driving
<1>11. ASSUME NEW t \in Tasks, DrainTail(t)
       PROVE  Single'
  <2>1. \A k \in Chains : chain'[k] = "open" <=> chain[k] = "open"
    BY <1>11 DEF DrainTail, EndChain, Unstarted, TypeOK
  <2> QED BY <1>0, <1>11, <2>1, AsideKept
          DEF DrainTail, EndChain, Leave, Aside, Driving, TypeOK, stream
<1>12. ASSUME NEW t \in Tasks, CloseSuspended(t)
       PROVE  Single'
  <2>1. slot \in Chains /\ chain[slot] = "open" /\ ~Driving(t) /\ \A u \in Tasks : Driving(u) => on[u] # slot
    BY <1>0, <1>12 DEF CloseSuspended, Closing, MustUnwind, TypeOK
  <2>2. consumed /\ \A j \in Chains : chain[j] = "open" => j = slot
    BY <2>1 DEF Single
  <2>3. /\ pc' = [pc EXCEPT ![t] = "unwind"] /\ on' = [on EXCEPT ![t] = slot]
        /\ chain' = chain /\ consumed' = consumed /\ complete' = complete
    BY <1>12 DEF CloseSuspended, stream
  <2> QED BY <2>1, <2>2, <2>3, Drives
<1>13. ASSUME NEW t \in Tasks, CloseStream(t)
       PROVE  Single'
  <2>1. \A k \in Chains : chain'[k] = "open" <=> chain[k] = "open"
    BY <1>13, NoneAssumption DEF CloseStream, MustUnwind, TypeOK
  <2>2. ~Driving(t) /\ UNCHANGED <<consumed, complete>>
    BY <1>0, <1>13 DEF CloseStream, Closing, Enter, stream
  <2>3. /\ \A u \in Tasks \ {t} : pc'[u] = pc[u] /\ on'[u] = on[u]
        /\ on'[t] = None /\ pc'[t] \in {"abort", "idle"}
    BY <1>13 DEF CloseStream, Enter, Leave, TypeOK
  <2> QED BY <2>1, <2>2, <2>3, AsideKept DEF Aside, Driving
<1>14. CASE UNCHANGED vars
  BY <1>14 DEF Single, Driving, vars, response, stream, task
<1> QED
  BY <1>1, <1>2, <1>3, <1>4, <1>5, <1>6, <1>7, <1>8, <1>9, <1>10, <1>11, <1>12, <1>13, <1>14
  DEF Next, TaskStep

-----------------------------------------------------------------------------

\* So all of it holds for good.
LEMMA Invariance == Spec => []Inv
<1>1. Init => Inv
  BY DEF Init, Inv, TypeOK, Single, Driving, Turns, Judged
<1>2. Inv /\ [Next]_vars => Inv'
  BY Types, SingleKept, TurnsKept DEF Inv
<1> QED BY <1>1, <1>2, PTL DEF Spec

\* Every step is one that an exchange may take, or none of its own.
LEMMA StepPromised ==
  ASSUME Inv, [Next]_vars
  PROVE  [Promise!Next]_(Promise!exchange)
<1> USE DEF Promise!Next, Promise!exchange
<1>1. ASSUME NEW t \in Tasks, NEW cut \in BOOLEAN, Abort(t, cut)
      PROVE  Promise!GiveBack
  <2>1. released = 0 /\ ~kept /\ (~discard[t] => complete) /\ complete \in BOOLEAN
    BY <1>1 DEF Abort, Inv, TypeOK, Turns, Judged
  <2>2. kept' \in {FALSE, complete}
    BY <1>1, <2>1 DEF Abort, KeepsConn, Inv, TypeOK
  <2>3. released' = 1 /\ UNCHANGED <<closed, complete, finished>>
    BY <1>1, <2>1 DEF Abort, response
  <2> QED BY <2>1, <2>2, <2>3 DEF Promise!GiveBack
<1>2. ASSUME NEW t \in Tasks, Finish(t)
      PROVE  Promise!Tell
  <2>1. released = 1 /\ finished = 0 /\ closed \in BOOLEAN /\ pc[t] # "idle"
    BY <1>2 DEF Finish, Inv, TypeOK, Turns
  <2>2. closed' \in {closed, TRUE}
    BY <1>2, <2>1, Returns DEF Finish, Inv
  <2>3. finished' = 1 /\ UNCHANGED <<complete, released, kept>>
    BY <1>2, <2>1 DEF Finish
  <2> QED BY <2>1, <2>2, <2>3 DEF Promise!Tell, Promise!Progress
<1>3. ASSUME closed' \in {closed, TRUE}, complete' \in {complete, TRUE},
             UNCHANGED <<released, kept, finished>>
      PROVE  Promise!Next
  BY <1>3 DEF Promise!Read, Promise!Progress
<1>4. ASSUME NEW t \in Tasks,
             Iter(t) \/ Start(t) \/ Read(t) \/ Resume(t) \/ Abandon(t) \/ PullChunk(t)
             \/ PullEnd(t) \/ PullFail(t)
      PROVE  Promise!Next
  BY <1>3, <1>4 DEF Iter, Start, Read, Resume, Abandon, PullChunk, PullEnd, PullFail, response, stream
<1>5. ASSUME NEW t \in Tasks, Unwind(t)
      PROVE  Promise!Next
  <2>1. CASE Entered(t, on[t]) /\ UNCHANGED <<response, reading, failed>>
    BY <1>3, <2>1 DEF Entered, Enter, response
  <2>2. CASE Return(t) /\ UNCHANGED stream
    <3>1. closed' \in {closed, TRUE}
      BY <1>5, <2>2, UnwindSteps, Returns DEF Inv, TypeOK
    <3> QED BY <1>3, <2>2, <3>1 DEF stream
  <2> QED BY <1>5, <2>1, <2>2, UnwindSteps
<1>6. ASSUME NEW t \in Tasks, DrainTail(t) \/ CloseSuspended(t) \/ CloseStream(t)
      PROVE  Promise!Next
  BY <1>3, <1>6 DEF DrainTail, EndChain, Reclose, CloseSuspended, CloseStream, Closing, Enter, stream
<1>7. CASE UNCHANGED vars
  BY <1>7 DEF vars, response, stream
<1> QED
  BY <1>1, <1>2, <1>4, <1>5, <1>6, <1>7 DEF Next, TaskStep

-----------------------------------------------------------------------------

(***************************************************************************)
(* What a closed response may leave behind.                                *)
(***************************************************************************)

\* A chain that was started, and whose finally is still to come.
Out(k) == chain[k] \in {"open", "tail"}

\* It unwinds a chain on an exception.
Ending(t) == on[t] # None /\ failed[t] /\ pc[t] \in {"unwind", "abort", "release"}

\* Close() can still find the chain that is out; or its driver is ending it, with
\* nothing to yield; or the slot has lost it.  One chain at most is ever out.
Placed ==
    /\ \A j, k \in Chains : Out(j) /\ Out(k) => j = k
    /\ \A k \in Chains : Out(k) => consumed
    /\ \A k \in Chains : Out(k) =>
           \/ k \in strayed
           \/ k = slot /\ ~closed
           \/ \E t \in Tasks : Ending(t) /\ on[t] = k
    /\ \A k \in Chains : chain[k] = "new" => k \in strayed \/ k = slot
    /\ \A k \in Chains : chain[k] = "rest" => closed

\* A step that starts no chain and takes none from the slot, nor a driver from
\* the chain it unwinds.
Settled ==
    /\ \A k \in Chains : Out(k)' => Out(k)
    /\ \A k \in Chains : chain'[k] \in {"new", "rest"} => chain'[k] = chain[k]
    /\ consumed' = consumed /\ closed' = closed /\ slot' = slot /\ strayed' = strayed
    /\ \A t \in Tasks : Ending(t) => Ending(t)' /\ on'[t] = on[t]

\* Where no chain moves, each can be found where it could.
LEMMA SettledKept ==
  ASSUME Placed, Settled
  PROVE  Placed'
BY DEF Placed, Settled

\* The close at the end of the chain that is out: no chain is out any more, and
\* those that were never started are where they were.
LEMMA ChainCloses ==
  ASSUME TypeOK, Placed, NEW t \in Tasks, on[t] # None, Out(on[t]), Reclose(t),
         NEW last \in {"rest", "done"}, strayed' = strayed \ {on[t]}, consumed' = consumed,
         \A k \in Chains : chain'[k] = IF k = on[t] THEN last
                                       ELSE IF k \in Unstarted(on[t]) THEN "done" ELSE chain[k]
  PROVE  Placed'
<1>1. on[t] \in Chains /\ (\A k \in Chains : Out(k) => k = on[t]) /\ closed'
  BY DEF Placed, Reclose, TypeOK
<1>2. \A k \in Chains : ~Out(k)'
  BY <1>1 DEF Out
<1>3. ASSUME NEW k \in Chains, chain'[k] = "new"
      PROVE  k \in strayed' \/ k = slot'
  <2>1. chain[k] = "new" /\ k # on[t] /\ k \notin Unstarted(on[t])
    BY <1>3
  <2>2. k # slot \/ closed
    BY <2>1, NoneAssumption DEF Unstarted
  <2> QED BY <2>1, <2>2 DEF Placed, Reclose
<1> QED BY <1>1, <1>2, <1>3 DEF Placed

\* A chain ends, in the body or after what iter_raw's chunker held back.
LEMMA ChainEnds ==
  ASSUME TypeOK, Placed, NEW t \in Tasks, on[t] # None, Out(on[t]), EndChain(t)
  PROVE  Placed'
<1>1. \A k \in Chains : chain'[k] = IF k = on[t] THEN "done"
                                    ELSE IF k \in Unstarted(on[t]) THEN "done" ELSE chain[k]
  BY DEF EndChain
<1> QED BY <1>1, ChainCloses DEF EndChain

\* A chain ends after what the other iterators held back: the close it ran into
\* before has left nothing for this one.
LEMMA RestEnds ==
  ASSUME TypeOK, Placed, NEW t \in Tasks, on[t] \in Chains, chain[on[t]] = "rest", pc[t] = "held", EndChain(t)
  PROVE  Placed'
<1>1. closed /\ closed' /\ slot' = slot /\ consumed' = consumed
  BY DEF Placed, EndChain, Reclose
<1>2. \A k \in Chains : chain'[k] = IF k = on[t] THEN "done" ELSE chain[k]
  BY <1>1 DEF EndChain, Unstarted
<1>3. \A k \in Chains : k \in strayed /\ k # on[t] => k \in strayed'
  BY DEF EndChain
<1>4. \A u \in Tasks : Ending(u) => Ending(u)' /\ on'[u] = on[u]
  BY DEF EndChain, Leave, Ending, TypeOK
<1>5. \A k \in Chains : Out(k)' => Out(k) /\ k # on[t]
  BY <1>2 DEF Out
<1> QED BY <1>1, <1>2, <1>3, <1>4, <1>5 DEF Placed

\* However the last await of a teardown returns.
LEMMA PlacedOnReturn ==
  ASSUME TypeOK, Single, Placed, NEW t \in Tasks, on[t] = None \/ Driving(t), Return(t)
  PROVE  Placed'
<1>1. CASE on[t] = None
  <2>1. Settled
    BY <1>1 DEF Return, Leave, response, Settled, Out, Ending, TypeOK
  <2> QED BY <2>1, SettledKept
<1>2. CASE on[t] # None /\ EndChain(t)
  <2>1. Out(on[t])
    BY <1>2 DEF Single, Out
  <2> QED BY <1>2, <2>1, ChainEnds
<1>3. CASE on[t] # None /\ YieldTail(t)
  <2>1. on[t] \in Chains /\ Driving(t) /\ chain[on[t]] = "open"
    BY <1>3 DEF Single, TypeOK
  <2>2. \A k \in Chains : (Out(k)' <=> Out(k)) /\ (chain'[k] = "new" <=> chain[k] = "new")
    BY <1>3, <2>1 DEF YieldTail, Out, TypeOK
  <2>3. \A k \in Chains : Out(k) => k = on[t]
    BY <2>1 DEF Placed, Out
  <2>4. on[t] \in strayed \/ (on[t] = slot /\ ~closed)
    <3>1. ASSUME NEW u \in Tasks, Ending(u), on[u] = on[t]
          PROVE  FALSE
      <4>1. u = t
        BY <2>1, <3>1 DEF Single, Driving, Ending
      <4> QED BY <1>3, <3>1, <4>1 DEF YieldTail, Ending
    <3> QED BY <2>1, <3>1 DEF Placed, Out
  <2>5. UNCHANGED <<consumed, closed, slot, strayed>>
    BY <1>3 DEF YieldTail
  <2>6. \A k \in Chains : chain'[k] = "rest" => chain[k] = "rest"
    BY <1>3, <2>1 DEF YieldTail, TypeOK
  <2> QED BY <2>2, <2>3, <2>4, <2>5, <2>6 DEF Placed
<1>4. CASE on[t] # None /\ YieldRest(t)
  <2>1. Out(on[t]) /\ Reclose(t)
    BY <1>4 DEF YieldRest, Single, Out
  <2>2. /\ strayed' = strayed \ {on[t]} /\ consumed' = consumed
        /\ \A k \in Chains : chain'[k] = IF k = on[t] THEN "rest"
                                          ELSE IF k \in Unstarted(on[t]) THEN "done" ELSE chain[k]
    BY <1>4 DEF YieldRest
  <2> QED BY <1>4, <2>1, <2>2, ChainCloses
<1> QED BY <1>1, <1>2, <1>3, <1>4 DEF Return

\* A chain goes into the slot: the one that was there has strayed, unless it was done.
LEMMA PlacedOnInstall ==
  ASSUME TypeOK, Placed, NEW t \in Tasks, pc[t] \in {"idle", "held"}, NEW k \in Chains, Fresh(k), Install(k),
         \A j \in Chains : j # k => chain'[j] = chain[j],
         chain'[k] = "new" \/ chain'[k] = chain[k],
         \A u \in Tasks \ {t} : pc'[u] = pc[u] /\ on'[u] = on[u],
         UNCHANGED <<failed, consumed, closed>>
  PROVE  Placed'
<1>1. \A j \in Chains : Out(j)' <=> Out(j)
  BY DEF Fresh, Out
<1>2. \A j \in Chains : Out(j) => j # k
  BY DEF Fresh, Out
<1>3. \A j \in Chains : j # k /\ (j \in strayed \/ (j = slot /\ chain[j] # "done")) => j \in strayed'
  BY NoneAssumption DEF Install
<1>4. \A u \in Tasks : Ending(u) => Ending(u)' /\ on'[u] = on[u]
  BY DEF Ending
<1>5. ASSUME NEW j \in Chains, Out(j)
      PROVE  j \in strayed' \/ \E u \in Tasks : Ending(u)' /\ on'[u] = j
  <2>1. CASE j \in strayed \/ j = slot
    BY <1>2, <1>3, <1>5, <2>1 DEF Out
  <2>2. CASE \E u \in Tasks : Ending(u) /\ on[u] = j
    BY <1>4, <2>2
  <2> QED BY <1>5, <2>1, <2>2 DEF Placed
<1>6. ASSUME NEW j \in Chains, chain'[j] = "new"
      PROVE  j \in strayed' \/ j = slot'
  BY <1>3, <1>6 DEF Placed, Install
<1> QED BY <1>1, <1>5, <1>6 DEF Placed

\* A chain is started, the first of the response.
LEMMA PlacedOnStart ==
  ASSUME TypeOK, Placed, MayStart, NEW k \in Chains, consumed', closed' = closed,
         chain' = [chain EXCEPT ![k] = "open"], k = slot' \/ k \in strayed',
         \A j \in Chains : j # k /\ chain[j] = "new" => j \in strayed' \/ j = slot'
  PROVE  Placed'
<1>1. \A j \in Chains : ~Out(j)
  BY DEF Placed, MayStart
<1>2. \A j \in Chains : (Out(j)' <=> j = k) /\ (chain'[j] = "new" => j # k /\ chain[j] = "new")
  BY <1>1 DEF Out, TypeOK
<1> QED BY <1>2 DEF Placed, MayStart

\* Every step leaves each chain where Close() or its driver has it.
LEMMA PlacedKept ==
  ASSUME Inv, Placed, [Next]_vars
  PROVE  Placed'
<1> USE DEF Inv
<1>0. \A t \in Tasks : pc[t] \in {"idle", "held"} => ~Driving(t)
  BY DEF Driving
<1>1. ASSUME NEW t \in Tasks, Iter(t)
      PROVE  Placed'
  <2>1. PICK k \in Chains : Fresh(k) /\ Install(k) /\ chain' = [chain EXCEPT ![k] = "new"]
                            /\ on' = [on EXCEPT ![t] = k]
    BY <1>1 DEF Iter
  <2>2. pc[t] \in {"idle", "held"} /\ chain'[k] = "new" /\ \A j \in Chains : j # k => chain'[j] = chain[j]
    BY <1>1, <2>1 DEF Iter, TypeOK
  <2>3. /\ \A u \in Tasks \ {t} : pc'[u] = pc[u] /\ on'[u] = on[u]
        /\ UNCHANGED <<failed, consumed, closed>>
    BY <1>1, <2>1 DEF Iter, TypeOK
  <2> QED BY <2>1, <2>2, <2>3, PlacedOnInstall
<1>2. ASSUME NEW t \in Tasks, Start(t)
      PROVE  Placed'
  <2>1. on[t] \in Chains /\ on[t] # None /\ chain[on[t]] = "new" /\ UNCHANGED <<closed, slot, strayed>>
    BY <1>2 DEF Start, Single, TypeOK
  <2>2. CASE MayStart
    <3>1. chain' = [chain EXCEPT ![on[t]] = "open"] /\ consumed'
      BY <1>2, <2>2 DEF Start
    <3>2. \A j \in Chains : chain[j] = "new" => j \in strayed' \/ j = slot'
      BY <2>1 DEF Placed
    <3> QED BY <2>1, <2>2, <3>1, <3>2, PlacedOnStart
  <2>3. CASE ~MayStart
    <3>1. Settled
      BY <1>2, <2>1, <2>3 DEF Start, Leave, Settled, Out, Ending, TypeOK
    <3> QED BY <3>1, SettledKept
  <2> QED BY <2>2, <2>3
<1>3. ASSUME NEW t \in Tasks, Read(t)
      PROVE  Placed'
  <2>1. pc[t] \in {"idle", "held"} /\ UNCHANGED <<failed, closed>>
    BY <1>3 DEF Read
  <2>2. CASE MayStart
    <3>1. PICK k \in Chains : Fresh(k) /\ Install(k) /\ chain' = [chain EXCEPT ![k] = "open"] /\ consumed'
      BY <1>3, <2>2 DEF Read
    <3>2. \A j \in Chains : j # k /\ chain[j] = "new" => j \in strayed' \/ j = slot'
      <4>1. ASSUME NEW j \in Chains, j # k, chain[j] = "new"
            PROVE  j \in strayed'
        BY <3>1, <4>1, NoneAssumption DEF Install, Placed
      <4> QED BY <4>1
    <3> QED BY <2>1, <2>2, <3>1, <3>2, PlacedOnStart DEF Install
  <2>3. CASE ~MayStart
    <3>1. PICK k \in Chains : Fresh(k) /\ Install(k)
      BY <1>3 DEF Read
    <3>2. UNCHANGED <<consumed, chain, on, pc>>
      BY <1>3, <2>3 DEF Read
    <3> QED BY <2>1, <3>1, <3>2, PlacedOnInstall
  <2> QED BY <2>2, <2>3
<1>4. ASSUME NEW t \in Tasks, Resume(t) \/ Abandon(t) \/ PullChunk(t) \/ PullEnd(t) \/ PullFail(t)
      PROVE  Placed'
  <2>1. CASE Resume(t) \/ Abandon(t) \/ PullChunk(t) \/ PullEnd(t)
    <3>1. Settled
      BY <2>1 DEF Resume, Abandon, Leave, PullChunk, PullEnd, Settled, Out, Ending, TypeOK, response
    <3> QED BY <3>1, SettledKept
  <2>2. CASE PullFail(t)
    <3>1. Settled
      BY <2>2 DEF PullFail, Settled, Out, Ending, TypeOK, response
    <3> QED BY <3>1, SettledKept
  <2> QED BY <1>4, <2>1, <2>2
<1>5. ASSUME NEW t \in Tasks, Unwind(t)
      PROVE  Placed'
  <2>1. pc[t] = "unwind" /\ Driving(t)
    BY <1>5, UnwindSteps DEF Driving, Single
  <2>2. CASE Entered(t, on[t]) /\ UNCHANGED <<response, reading, failed>>
    <3>1. Settled
      BY <2>1, <2>2 DEF Entered, Enter, Settled, Out, Ending, TypeOK, response
    <3> QED BY <3>1, SettledKept
  <2>3. CASE Return(t) /\ UNCHANGED stream
    BY <2>1, <2>3, PlacedOnReturn
  <2> QED BY <1>5, <2>2, <2>3, UnwindSteps
<1>6. ASSUME NEW t \in Tasks, NEW cut \in BOOLEAN, Abort(t, cut)
      PROVE  Placed'
  <2>1. Settled
    BY <1>6 DEF Abort, Settled, Out, Ending, TypeOK, response
  <2> QED BY <2>1, SettledKept
<1>7. ASSUME NEW t \in Tasks, Finish(t)
      PROVE  Placed'
  BY <1>7, PlacedOnReturn DEF Finish, Driving
<1>8. ASSUME NEW t \in Tasks, DrainTail(t)
      PROVE  Placed'
  <2>1. pc[t] = "held" /\ on[t] # None /\ on[t] \in Chains /\ EndChain(t)
    BY <1>8 DEF DrainTail, Single, TypeOK
  <2> QED BY <1>8, <2>1, ChainEnds, RestEnds DEF DrainTail, Out
<1>9. ASSUME NEW t \in Tasks, CloseSuspended(t)
      PROVE  Placed'
  <2>1. /\ slot \in Chains /\ Out(slot) /\ UNCHANGED <<chain, strayed, consumed>>
        /\ \A k \in Chains : Out(k) => k = slot
    BY <1>9 DEF CloseSuspended, MustUnwind, Placed, Out, TypeOK
  <2>2. Ending(t)' /\ on'[t] = slot
    BY <1>9, <2>1, NoneAssumption DEF CloseSuspended, Ending, TypeOK
  <2>3. \A k \in Chains : chain[k] = "new" => k \in strayed'
    BY <2>1 DEF Placed, Out
  <2>4. closed'
    BY <1>9 DEF CloseSuspended, Closing
  <2> QED BY <2>1, <2>2, <2>3, <2>4 DEF Placed, Out
<1>10. ASSUME NEW t \in Tasks, CloseStream(t)
       PROVE  Placed'
  <2>1. /\ ~Driving(t) /\ ~closed /\ consumed' = consumed
        /\ \A k \in Chains : chain'[k] = IF k = slot /\ ~Running(k) THEN "done" ELSE chain[k]
    BY <1>0, <1>10 DEF CloseStream, Closing
  <2>2. \A k \in Chains : k \in strayed /\ chain'[k] # "done" => k \in strayed'
    BY <1>10, <2>1, NoneAssumption DEF CloseStream
  <2>3. \A k \in Chains : k = slot /\ chain'[k] # "done" => k \in strayed'
    BY <1>10, <2>1, NoneAssumption DEF CloseStream
  <2>4. \A u \in Tasks : Ending(u) => Ending(u)' /\ on'[u] = on[u]
    BY <1>10, <2>1 DEF CloseStream, Closing, Enter, Leave, Ending, TypeOK
  <2>6. \A k \in Chains : Out(k)' => Out(k) /\ chain'[k] # "done"
    BY <2>1 DEF Out
  <2>7. ASSUME NEW k \in Chains, Out(k)'
        PROVE  k \in strayed' \/ \E u \in Tasks : Ending(u)' /\ on'[u] = k
    BY <2>2, <2>3, <2>4, <2>6, <2>7 DEF Placed
  <2>8. ASSUME NEW k \in Chains, chain'[k] = "new"
        PROVE  k \in strayed'
    BY <2>1, <2>2, <2>3, <2>8 DEF Placed
  <2> QED BY <2>1, <2>6, <2>7, <2>8 DEF Placed
<1>11. CASE UNCHANGED vars
  BY <1>11 DEF Placed, Out, Ending, vars, response, stream, task
<1> QED
  BY <1>1, <1>2, <1>3, <1>4, <1>5, <1>6, <1>7, <1>8, <1>9, <1>10, <1>11 DEF Next, TaskStep

\* The variables of a response and its stream keep to their kinds: the connection
\* is given back at most once, and the callbacks fire at most once
\* (_PooledStream.close).
THEOREM StreamTyped == Spec => []TypeOK
<1>1. Inv => TypeOK
  BY DEF Inv
<1> QED BY <1>1, Invariance, PTL

\* However many tasks read and close a response, its connection is reused only
\* after a whole body and a whole teardown (_PooledStream.close).
THEOREM KeptWhole == Spec => []KeptOnlyWhenWhole
<1>1. Inv => KeptOnlyWhenWhole
  <2> SUFFICES ASSUME Inv, kept, NEW t \in Tasks, pc[t] = "pull"
               PROVE  FALSE
    BY DEF Inv, Judged, KeptOnlyWhenWhole
  <2>1. complete /\ Driving(t) /\ on[t] \in Chains /\ chain[on[t]] = "open"
    BY DEF Inv, Judged, Single, Driving, TypeOK
  <2> QED BY <2>1 DEF Inv, Single
<1> QED BY <1>1, Invariance, PTL

\* However several tasks iterate, read, abandon, fail and close, a response that
\* is closed and left leaves no chain suspended ahead of the finally that closes
\* the stream, but one that its slot had lost
\* (Response.close, _iter_raw).
THEOREM OnlyStraysHolds == Spec => []OnlyStraysRemain
<1>1. Init => Placed
  BY DEF Init, Placed, Out
<1>2. Inv /\ Placed => OnlyStraysRemain
  BY DEF Placed, Out, Ending, OnlyStraysRemain
<1>3. Inv /\ Placed /\ [Next]_vars => Placed'
  BY PlacedKept
<1> QED BY <1>1, <1>2, <1>3, Invariance, PTL DEF Spec

\* Whatever its tasks do, a response acts on its connection and its callbacks as
\* Exchange allows: the safety of ImplementsExchange.
THEOREM KeepsPromise == Spec => Promise!Init /\ [][Promise!Next]_(Promise!exchange)
<1>1. Init => Promise!Init
  BY DEF Init, Promise!Init
<1>2. Inv /\ [Next]_vars => [Promise!Next]_(Promise!exchange)
  BY StepPromised
<1> QED BY <1>1, <1>2, Invariance, PTL DEF Spec
=============================================================================
