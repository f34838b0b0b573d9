----------------------------- MODULE PoolBooks -----------------------------
(***************************************************************************)
(* Theorems about what the pool's books say of its callers: the leases of  *)
(* a shared connection, dials and those who wait for them, the entries of  *)
(* the origins, open connections, the count, the order of clock readings,  *)
(* and the wake-ups owed to capacity waiters.                              *)
(*                                                                         *)
(* A part of the books is changed by few of the actions.  Each section     *)
(* names the kinds of step its part knows, shows that every action is of   *)
(* one of these kinds, and then argues about the kinds.                    *)
(***************************************************************************)
EXTENDS PoolProofs

\* What a task's place says of the connections it has to do with: an h1
\* connection is in its hands only while its caller holds it or is about to, and
\* it has something to close only while it closes.  It holds a dial's event only
\* while it waits, or closes what it found on its way to wait.
Hands ==
    \A t \in Tasks :
        /\ conn[t] \in Conns \ Multiplexed => pc[t] = "hold" \/ then[t] = "hold"
        /\ then[t] = "hold" => conn[t] \notin Multiplexed
        /\ closing[t] # {} => pc[t] \in {"sweep", "refused"}
        /\ pc[t] = "refused" => closed
        /\ t \in joined => pc[t] = "wait" \/ then[t] = "wait"

\* What checking out a parked connection of o does: it leaves the books with the
\* unfit ones found on the way, which the task closes.
Taken(t, o, c, gone) ==
    /\ ~closed /\ pc[t] \in {"idle", "attempt"}
    /\ c \in idle[o] \ Multiplexed
    /\ gone \subseteq Own(o) \ {c}
    /\ \A p \in Origins : shared[p] \in gone => Dead(shared[p])
    /\ Remove(gone \union {c})
    /\ Forget(gone \union {c})
    /\ count' = count - Cardinality(gone)
    /\ leased' = [leased EXCEPT ![o] = @ + 1]
    /\ conn' = [conn EXCEPT ![t] = c]
    /\ origin' = [origin EXCEPT ![t] = o]
    /\ CloseAll(t, gone, "hold")
    /\ UNCHANGED <<mode, dialing, closed, waiters, joined, wire>>

\* AttemptIdle is such a step.
LEMMA TakesIdle ==
    ASSUME Types, NEW t \in Tasks, NEW o \in Origins, AttemptIdle(t, o)
    PROVE  \E c \in Conns, gone \in SUBSET Conns : Taken(t, o, c, gone)
<1> DEFINE Gone(c) == ({d \in idle[o] \ {c} : <<c, d>> \in older} \union {shared[o]}) \ {None}
<1>1. PICK c \in idle[o] :
        /\ Remove(Gone(c) \union {c})
        /\ Forget(Gone(c) \union {c})
        /\ count' = count - Cardinality(Gone(c))
        /\ leased' = [leased EXCEPT ![o] = @ + 1]
        /\ conn' = [conn EXCEPT ![t] = c]
        /\ origin' = [origin EXCEPT ![t] = o]
        /\ CloseAll(t, Gone(c), "hold")
  BY DEF AttemptIdle
<1>2. c \in Conns \ Multiplexed /\ Gone(c) \subseteq Own(o) \ {c} /\ Gone(c) \subseteq Conns
  BY NoneAssumption DEF Types, TypeOK, BooksTypeOK, Kinds, Own
<1>3. \A p \in Origins : shared[p] \in Gone(c) => Dead(shared[p])
  BY NoneAssumption DEF AttemptIdle, NoShared, Dead, Live, Types, TypeOK, BooksTypeOK, Kinds
<1>4. /\ ~closed /\ pc[t] \in {"idle", "attempt"}
      /\ UNCHANGED <<mode, dialing, closed, waiters, joined, wire>>
  BY DEF AttemptIdle, AtAttempt
<1> HIDE DEF Gone
<1>5. Taken(t, o, c, Gone(c))
  BY <1>1, <1>2, <1>3, <1>4 DEF Taken
<1> QED BY <1>2, <1>5

\* A step of t moves no other task.
Local(t) ==
    \A u \in Tasks \ {t} :
        /\ pc'[u] = pc[u] /\ then'[u] = then[u]
        /\ origin'[u] = origin[u] /\ conn'[u] = conn[u] /\ closing'[u] = closing[u]

\* Every action is local to the task that takes it.
LEMMA LocalStep ==
    ASSUME Types, NEW t \in Tasks, TaskStep(t)
    PROVE  Local(t)
<1>0. /\ pc \in [Tasks -> {"idle", "attempt", "sweep", "dial", "refused", "ready", "evict", "wait", "hold"}]
      /\ then \in [Tasks -> {"idle", "attempt", "hold", "dial", "wait"}]
      /\ origin \in [Tasks -> Origins \union {None}] /\ conn \in [Tasks -> Conns \union {None}]
      /\ closing \in [Tasks -> SUBSET Conns]
  BY DEF Types, TypeOK, TasksTypeOK
<1> USE DEF Local, places
<1>1. ASSUME NEW o \in Origins, Attempt(t, o) PROVE Local(t)
  <2>1. CASE AttemptClosed(t, o) \/ AttemptShared(t, o)
    BY <1>0, <2>1 DEF AttemptClosed, AttemptShared, Leave
  <2>2. CASE AttemptIdle(t, o)
    <3>1. PICK c \in Conns, gone \in SUBSET Conns : Taken(t, o, c, gone)
      BY <2>2, TakesIdle
    <3> QED BY <1>0, <3>1 DEF Taken, CloseAll, Sweeping
  <2>3. CASE AttemptJoin(t, o) \/ AttemptDial(t, o) \/ AttemptWait(t, o)
    BY <1>0, <2>3 DEF AttemptJoin, AttemptDial, AttemptWait, CloseAll, Sweeping
  <2> QED BY <1>1, <2>1, <2>2, <2>3 DEF Attempt
<1>2. CASE Sweep(t) \/ SweepCut(t) \/ CloseRefused(t)
  BY <1>0, <1>2 DEF Sweep, SweepCut, CloseRefused, Leave
<1>3. CASE DialOk(t)
  BY <1>0, <1>3 DEF DialOk, Refuse, Install
<1>4. CASE DialFail(t) \/ Evict(t) \/ ClosePool(t)
  BY <1>0, <1>4 DEF DialFail, Evict, ClosePool, Sweeping
<1>5. CASE ReadyOk(t) \/ ReadyFail(t) \/ ReadyGiveUp(t) \/ WaitWake(t) \/ WaitGiveUp(t)
  BY <1>0, <1>5 DEF ReadyOk, ReadyFail, ReadyGiveUp, WaitWake, WaitGiveUp, Leave
<1>6. ASSUME NEW d \in BOOLEAN, Release(t, d) PROVE Local(t)
  BY <1>0, <1>6 DEF Release, ReleaseShared, ReleaseExclusive, Park, Discard, Sweeping, Leave
<1> QED BY <1>1, <1>2, <1>3, <1>4, <1>5, <1>6 DEF TaskStep

\* Every step of the pool keeps Hands.
LEMMA HandsStep == Types /\ Hands /\ [Next]_vars => Hands'
<1> SUFFICES ASSUME Types, Hands, [Next]_vars PROVE Hands'
  OBVIOUS
<1> USE NoneAssumption, ConnsAssumption, ProtocolAssumption
<1> USE DEF Types, TypeOK, BooksTypeOK, TasksTypeOK, Places, Kinds, Hands, books, stamps, places
<1>1. ASSUME NEW t \in Tasks, NEW o \in Origins, AttemptClosed(t, o) PROVE Hands'
  BY <1>1 DEF AttemptClosed, AtAttempt, Leave
<1>2. ASSUME NEW t \in Tasks, NEW o \in Origins, AttemptShared(t, o) PROVE Hands'
  BY <1>2 DEF AttemptShared, AtAttempt, NoShared, Live
<1>3. ASSUME NEW t \in Tasks, NEW o \in Origins, AttemptIdle(t, o) PROVE Hands'
  <2>1. PICK c \in Conns, gone \in SUBSET Conns : Taken(t, o, c, gone)
    BY <1>3, TakesIdle
  <2> QED BY <2>1 DEF Taken, CloseAll, Sweeping
<1>4. ASSUME NEW t \in Tasks, NEW o \in Origins, AttemptJoin(t, o) PROVE Hands'
  BY <1>4 DEF AttemptJoin, AtAttempt, CloseAll, Sweeping
<1>5. ASSUME NEW t \in Tasks, NEW o \in Origins, AttemptDial(t, o) PROVE Hands'
  BY <1>5 DEF AttemptDial, AtAttempt, CloseAll, Sweeping
<1>6. ASSUME NEW t \in Tasks, NEW o \in Origins, AttemptWait(t, o) PROVE Hands'
  BY <1>6 DEF AttemptWait, AtAttempt, CloseAll, Sweeping
<1>7. ASSUME NEW t \in Tasks, Sweep(t) PROVE Hands'
  BY <1>7 DEF Sweep, Leave
<1>8. ASSUME NEW t \in Tasks, SweepCut(t) PROVE Hands'
  BY <1>8 DEF SweepCut, Leave
<1>9. ASSUME NEW t \in Tasks, DialOk(t) PROVE Hands'
  BY <1>9 DEF DialOk, Refuse, Install, SignalDial
<1>10. ASSUME NEW t \in Tasks, DialFail(t) PROVE Hands'
  BY <1>10 DEF DialFail, SignalDial, Sweeping
<1>11. ASSUME NEW t \in Tasks, CloseRefused(t) PROVE Hands'
  BY <1>11 DEF CloseRefused, Leave
<1>12. ASSUME NEW t \in Tasks, ReadyOk(t) PROVE Hands'
  BY <1>12 DEF ReadyOk
<1>13. ASSUME NEW t \in Tasks, ReadyFail(t) PROVE Hands'
  BY <1>13 DEF ReadyFail
<1>14. ASSUME NEW t \in Tasks, Evict(t) PROVE Hands'
  BY <1>14 DEF Evict, Sweeping
<1>15. ASSUME NEW t \in Tasks, ReadyGiveUp(t) PROVE Hands'
  BY <1>15 DEF ReadyGiveUp, Leave
<1>16. ASSUME NEW t \in Tasks, WaitWake(t) PROVE Hands'
  BY <1>16 DEF WaitWake
<1>17. ASSUME NEW t \in Tasks, WaitGiveUp(t) PROVE Hands'
  BY <1>17 DEF WaitGiveUp, Leave
<1>18. ASSUME NEW t \in Tasks, NEW d \in BOOLEAN, Release(t, d) PROVE Hands'
  <2>1. CASE ReleaseShared(t)
    BY <1>18, <2>1 DEF Release, ReleaseShared, Sweeping, Leave
  <2>2. CASE ReleaseExclusive(t, d)
    BY <1>18, <2>2 DEF Release, ReleaseExclusive, Park, Discard, Sweeping
  <2> QED BY <1>18, <2>1, <2>2 DEF Release
<1>19. ASSUME NEW t \in Tasks, ClosePool(t) PROVE Hands'
  BY <1>19 DEF ClosePool, Sweeping
<1>20. CASE UNCHANGED <<closed, joined, places>>
  BY <1>20
<1>21. CASE EnvStep
  BY <1>20, <1>21 DEF EnvStep, Break, Expire
<1> QED
  BY <1>1, <1>2, <1>3, <1>4, <1>5, <1>6, <1>7, <1>8, <1>9, <1>10, <1>11, <1>12, <1>13, <1>14,
     <1>15, <1>16, <1>17, <1>18, <1>19, <1>20, <1>21 DEF Next, TaskStep, Attempt, vars
-----------------------------------------------------------------------------

(***************************************************************************)
(* Leases.                                                                 *)
(***************************************************************************)

\* t has, or waits for, a stream of an h2 connection.
Streaming(t) == pc[t] \in {"ready", "hold"} /\ conn[t] \in Multiplexed

Streams(c) == {t \in Tasks : Streaming(t) /\ conn[t] = c}

\* A connection is shared at one origin only.
Apart == \A o, p \in Origins : shared[o] = shared[p] /\ shared[o] # None => o = p

\* Whoever streams on a connection that is still shared works on its origin, so a
\* lease is dropped where it was taken.
Home == \A t \in Tasks, o \in Origins : Streaming(t) /\ conn[t] = shared[o] => origin[t] = o

LeasesCounted ==
    \A o \in Origins, c \in Conns : shared[o] = c => leases[o] = Cardinality(Streams(c))

SharingInv == Types /\ Hands /\ Apart /\ Home /\ LeasesCounted

\* A step during which u neither begins nor ends a stream.
KeepsStream(u) ==
    /\ Streaming(u)' <=> Streaming(u)
    /\ Streaming(u) => conn'[u] = conn[u] /\ origin'[u] = origin[u]

\* The kinds of step.
LeasesKept ==
    /\ \A o \in Origins : shared'[o] \in {shared[o], None}
    /\ \A o \in Origins : shared'[o] # None => leases'[o] = leases[o]
    /\ \A u \in Tasks : KeepsStream(u)

LeaseTaken(t, o) ==
    /\ shared[o] # None /\ UNCHANGED shared
    /\ leases' = [leases EXCEPT ![o] = @ + 1]
    /\ ~Streaming(t) /\ Streaming(t)' /\ conn'[t] = shared[o] /\ origin'[t] = o
    /\ \A u \in Tasks \ {t} : KeepsStream(u)

LeaseDropped(t) ==
    /\ UNCHANGED shared
    /\ leases' = IF HoldsLease(t) THEN [leases EXCEPT ![origin[t]] = @ - 1] ELSE leases
    /\ Streaming(t) /\ ~Streaming(t)'
    /\ \A u \in Tasks \ {t} : KeepsStream(u)

SharedInstalled(t, c) ==
    /\ c \in Multiplexed /\ c \notin SharedSet /\ \A u \in Tasks : conn[u] # c
    /\ shared' = [shared EXCEPT ![origin[t]] = c]
    /\ leases' = [leases EXCEPT ![origin[t]] = 1]
    /\ Streaming(t)' /\ conn'[t] = c /\ origin'[t] = origin[t]
    /\ \A u \in Tasks \ {t} : KeepsStream(u)

\* What Remove does to the shared connections.
LEMMA RemoveShared ==
    ASSUME TypeOK, NEW S, Remove(S)
    PROVE  /\ \A o \in Origins : shared'[o] \in {shared[o], None}
           /\ \A o \in Origins : shared'[o] # None => leases'[o] = leases[o]
BY DEF Remove, TypeOK, BooksTypeOK

\* Every step of the pool is of one of the kinds.
LEMMA LeaseKinds ==
    ASSUME Types, Hands, [Next]_vars
    PROVE  \/ LeasesKept
           \/ \E t \in Tasks, o \in Origins : LeaseTaken(t, o)
           \/ \E t \in Tasks : LeaseDropped(t)
           \/ \E t \in Tasks, c \in Conns : SharedInstalled(t, c)
<1> USE NoneAssumption, ConnsAssumption, ProtocolAssumption
<1> USE DEF Types, TypeOK, BooksTypeOK, TasksTypeOK, Places, Kinds, Hands, books, stamps, places,
            Streaming, KeepsStream
<1>1. ASSUME NEW t \in Tasks, NEW o \in Origins, AttemptClosed(t, o) PROVE LeasesKept
  BY <1>1 DEF LeasesKept, AttemptClosed, AtAttempt, Leave
<1>2. ASSUME NEW t \in Tasks, NEW o \in Origins, AttemptShared(t, o) PROVE LeaseTaken(t, o)
  BY <1>2 DEF LeaseTaken, AttemptShared, AtAttempt, NoShared, Live
<1>3. ASSUME NEW t \in Tasks, NEW o \in Origins, AttemptIdle(t, o) PROVE LeasesKept
  <2>1. PICK c \in Conns, gone \in SUBSET Conns : Taken(t, o, c, gone)
    BY <1>3, TakesIdle
  <2>2. Remove(gone \union {c})
    BY <2>1 DEF Taken
  <2>3. \A u \in Tasks : KeepsStream(u)
    BY <2>1 DEF Taken, CloseAll, Sweeping
  <2> QED BY <2>2, <2>3, RemoveShared DEF LeasesKept
<1>4. ASSUME NEW t \in Tasks, NEW o \in Origins, AttemptJoin(t, o) PROVE LeasesKept
  <2>1. \A u \in Tasks : KeepsStream(u)
    BY <1>4 DEF AttemptJoin, AtAttempt, CloseAll, Sweeping
  <2>2. Remove(Own(o))
    BY <1>4 DEF AttemptJoin
  <2> QED BY <2>1, <2>2, RemoveShared DEF LeasesKept
<1>5. ASSUME NEW t \in Tasks, NEW o \in Origins, AttemptDial(t, o) PROVE LeasesKept
  <2>1. \A u \in Tasks : KeepsStream(u)
    BY <1>5 DEF AttemptDial, AtAttempt, CloseAll, Sweeping
  <2>2. \E gone \in Culls(o) : Remove(gone)
    BY <1>5 DEF AttemptDial
  <2> QED BY <2>1, <2>2, RemoveShared DEF LeasesKept
<1>6. ASSUME NEW t \in Tasks, NEW o \in Origins, AttemptWait(t, o) PROVE LeasesKept
  <2>1. \A u \in Tasks : KeepsStream(u)
    BY <1>6 DEF AttemptWait, AtAttempt, CloseAll, Sweeping
  <2>2. Remove(Own(o))
    BY <1>6 DEF AttemptWait
  <2> QED BY <2>1, <2>2, RemoveShared DEF LeasesKept
<1>7. ASSUME NEW t \in Tasks, Sweep(t) PROVE LeasesKept
  BY <1>7 DEF LeasesKept, Sweep, Leave
<1>8. ASSUME NEW t \in Tasks, SweepCut(t) PROVE LeasesKept
  BY <1>8 DEF LeasesKept, SweepCut, Leave
<1>9. ASSUME NEW t \in Tasks, DialOk(t)
      PROVE  LeasesKept \/ \E c \in Conns : SharedInstalled(t, c)
  <2>1. PICK c \in Conns : Fresh(c) /\ pc[t] = "dial" /\ IF closed THEN Refuse(t, c) ELSE Install(t, c)
    BY <1>9 DEF DialOk
  <2>2. CASE closed
    BY <2>1, <2>2 DEF LeasesKept, Refuse
  <2>3. CASE ~closed /\ InstallH1(t, c)
    BY <2>1, <2>3 DEF LeasesKept, Install, InstallH1
  <2>4. CASE ~closed /\ InstallH2(t, c)
    <3>1. /\ c \in Multiplexed /\ c \notin SharedSet /\ \A u \in Tasks : conn[u] # c
          /\ shared' = [shared EXCEPT ![origin[t]] = c]
          /\ leases' = [leases EXCEPT ![origin[t]] = 1]
      BY <2>1, <2>4 DEF InstallH2, Fresh
    <3>2. /\ Streaming(t)' /\ conn'[t] = c /\ origin'[t] = origin[t]
          /\ \A u \in Tasks \ {t} : KeepsStream(u)
      BY <2>1, <2>4, <3>1 DEF Install
    <3> QED BY <3>1, <3>2 DEF SharedInstalled
  <2> QED BY <2>1, <2>2, <2>3, <2>4 DEF Install
<1>10. ASSUME NEW t \in Tasks, DialFail(t) PROVE LeasesKept
  BY <1>10 DEF LeasesKept, DialFail, Sweeping
<1>11. ASSUME NEW t \in Tasks, CloseRefused(t) PROVE LeasesKept
  BY <1>11 DEF LeasesKept, CloseRefused, Leave
<1>12. ASSUME NEW t \in Tasks, ReadyOk(t) PROVE LeasesKept
  BY <1>12 DEF LeasesKept, ReadyOk
<1>13. ASSUME NEW t \in Tasks, ReadyFail(t) PROVE LeaseDropped(t)
  BY <1>13 DEF LeaseDropped, ReadyFail, DropLease
<1>14. ASSUME NEW t \in Tasks, Evict(t) PROVE LeasesKept
  BY <1>14, RemoveShared DEF LeasesKept, Evict, Sweeping
<1>15. ASSUME NEW t \in Tasks, ReadyGiveUp(t) PROVE LeaseDropped(t)
  BY <1>15 DEF LeaseDropped, ReadyGiveUp, DropLease, Leave
<1>16. ASSUME NEW t \in Tasks, WaitWake(t) PROVE LeasesKept
  BY <1>16 DEF LeasesKept, WaitWake
<1>17. ASSUME NEW t \in Tasks, WaitGiveUp(t) PROVE LeasesKept
  BY <1>17 DEF LeasesKept, WaitGiveUp, Leave
<1>18. ASSUME NEW t \in Tasks, NEW d \in BOOLEAN, Release(t, d) PROVE LeasesKept \/ LeaseDropped(t)
  <2>1. CASE ReleaseShared(t)
    BY <1>18, <2>1 DEF LeaseDropped, Release, ReleaseShared, DropLease, Sweeping, Leave
  <2>2. CASE ReleaseExclusive(t, d)
    BY <1>18, <2>2 DEF LeasesKept, Release, ReleaseExclusive, Park, Discard, Sweeping
  <2> QED BY <1>18, <2>1, <2>2 DEF Release
<1>19. ASSUME NEW t \in Tasks, ClosePool(t) PROVE LeasesKept
  BY <1>19 DEF LeasesKept, ClosePool, Sweeping
<1>20. CASE UNCHANGED <<books, places>>
  BY <1>20 DEF LeasesKept
<1>21. CASE EnvStep
  BY <1>20, <1>21 DEF EnvStep, Break, Expire
<1> QED
  BY <1>1, <1>2, <1>3, <1>4, <1>5, <1>6, <1>7, <1>8, <1>9, <1>10, <1>11, <1>12, <1>13, <1>14,
     <1>15, <1>16, <1>17, <1>18, <1>19, <1>20, <1>21 DEF Next, TaskStep, Attempt, vars

\* Streams of a connection are counted by a natural number.
LEMMA StreamsFinite ==
    ASSUME NEW c
    PROVE  IsFiniteSet(Streams(c)) /\ Cardinality(Streams(c)) \in Nat
BY TasksAssumption, FS_Subset, FS_CardinalityType DEF Streams

\* Every kind of step keeps the leases counted.
LEMMA SharingStep == SharingInv /\ [Next]_vars => SharingInv'
<1> SUFFICES ASSUME SharingInv, [Next]_vars PROVE SharingInv'
  OBVIOUS
<1>0. Types' /\ Hands' /\ Types /\ Hands /\ TypeOK
  BY TypesStep, HandsStep DEF SharingInv, Types
<1>a. /\ shared \in [Origins -> Conns \union {None}] /\ shared' \in [Origins -> Conns \union {None}]
      /\ leases \in [Origins -> Nat] /\ leases' \in [Origins -> Nat]
      /\ conn \in [Tasks -> Conns \union {None}]
      /\ \A t \in Tasks : Streaming(t) => origin[t] \in Origins
      /\ \A t \in Tasks : Streaming(t)' => origin'[t] \in Origins
  BY <1>0, NoneAssumption DEF Types, TypeOK, BooksTypeOK, TasksTypeOK, Places, Streaming
<1>b. None \notin Conns /\ None \notin Multiplexed
  BY NoneAssumption, ConnsAssumption, ProtocolAssumption
<1> USE DEF SharingInv, KeepsStream
<1>1. CASE LeasesKept
  <2>1. Apart'
    BY <1>1 DEF LeasesKept, Apart
  <2>2. Home'
    BY <1>1, <1>b DEF LeasesKept, Home, Streaming
  <2>3. ASSUME NEW o \in Origins, NEW c \in Conns, shared'[o] = c
        PROVE  leases'[o] = Cardinality(Streams(c)')
    <3>1. shared[o] = c /\ leases'[o] = leases[o]
      BY <1>1, <1>b, <2>3 DEF LeasesKept
    <3>2. Streams(c)' = Streams(c)
      BY <1>1 DEF LeasesKept, Streams
    <3> QED BY <3>1, <3>2 DEF LeasesCounted
  <2> QED BY <1>0, <2>1, <2>2, <2>3 DEF LeasesCounted
<1>2. ASSUME NEW t \in Tasks, NEW o \in Origins, LeaseTaken(t, o) PROVE SharingInv'
  <2>1. Apart' /\ Home'
    BY <1>2, <1>a, <1>b DEF LeaseTaken, Apart, Home, Streaming
  <2>2. ASSUME NEW p \in Origins, NEW c \in Conns, shared'[p] = c
        PROVE  leases'[p] = Cardinality(Streams(c)')
    <3>0. shared[p] = c
      BY <1>2, <2>2 DEF LeaseTaken
    <3>1. CASE p = o
      <4>1. Streams(c)' = Streams(c) \union {t} /\ t \notin Streams(c)
        BY <1>2, <3>0, <3>1 DEF LeaseTaken, Streams
      <4>2. Cardinality(Streams(c)') = Cardinality(Streams(c)) + 1
        BY <4>1, StreamsFinite, FS_AddElement
      <4> QED BY <1>2, <1>a, <3>0, <3>1, <4>2 DEF LeaseTaken, LeasesCounted
    <3>2. CASE p # o
      <4>1. shared[o] # c
        BY <1>2, <1>b, <3>0, <3>2 DEF LeaseTaken, Apart
      <4>2. Streams(c)' = Streams(c)
        BY <1>2, <4>1 DEF LeaseTaken, Streams
      <4> QED BY <1>2, <1>a, <3>0, <3>2, <4>2 DEF LeaseTaken, LeasesCounted
    <3> QED BY <3>1, <3>2
  <2> QED BY <1>0, <2>1, <2>2 DEF LeasesCounted
<1>3. ASSUME NEW t \in Tasks, LeaseDropped(t) PROVE SharingInv'
  <2>1. Apart' /\ Home'
    BY <1>3, <1>a, <1>b DEF LeaseDropped, Apart, Home, Streaming
  <2>2. ASSUME NEW p \in Origins, NEW c \in Conns, shared'[p] = c
        PROVE  leases'[p] = Cardinality(Streams(c)')
    <3>0. shared[p] = c /\ origin[t] \in Origins
      BY <1>3, <1>a, <2>2 DEF LeaseDropped
    <3>1. CASE conn[t] = c
      <4>1. origin[t] = p
        BY <1>3, <3>0, <3>1 DEF LeaseDropped, Home
      <4>2. Streams(c)' = Streams(c) \ {t} /\ t \in Streams(c)
        BY <1>3, <3>1 DEF LeaseDropped, Streams
      <4>3. Cardinality(Streams(c)') = Cardinality(Streams(c)) - 1 /\ Cardinality(Streams(c)) # 0
        BY <4>2, StreamsFinite, FS_RemoveElement, FS_EmptySet
      <4>4. leases[p] = Cardinality(Streams(c)) /\ leases[p] > 0
        BY <1>a, <3>0, <4>3, StreamsFinite DEF LeasesCounted
      <4>5. HoldsLease(t)
        BY <3>0, <3>1, <4>1, <4>4 DEF HoldsLease, IsShared
      <4> QED BY <1>3, <1>a, <3>0, <4>1, <4>3, <4>4, <4>5 DEF LeaseDropped
    <3>2. CASE conn[t] # c
      <4>1. Streams(c)' = Streams(c)
        BY <1>3, <3>2 DEF LeaseDropped, Streams
      <4>2. leases'[p] = leases[p]
        BY <1>3, <1>a, <3>0, <3>2 DEF LeaseDropped, HoldsLease, IsShared
      <4> QED BY <3>0, <4>1, <4>2 DEF LeasesCounted
    <3> QED BY <3>1, <3>2
  <2> QED BY <1>0, <2>1, <2>2 DEF LeasesCounted
<1>4. ASSUME NEW t \in Tasks, NEW c \in Conns, SharedInstalled(t, c) PROVE SharingInv'
  <2>0. /\ origin[t] \in Origins
        /\ \A p \in Origins : shared[p] # c
        /\ \A u \in Tasks : conn[u] # c
    BY <1>4, <1>a, <1>b DEF SharedInstalled, SharedSet
  <2>1. Apart'
    BY <1>4, <1>a, <2>0 DEF SharedInstalled, Apart
  <2>2. Home'
    BY <1>4, <1>a, <1>b, <2>0 DEF SharedInstalled, Home, Streaming
  <2>3. ASSUME NEW p \in Origins, NEW d \in Conns, shared'[p] = d
        PROVE  leases'[p] = Cardinality(Streams(d)')
    <3>1. CASE p = origin[t]
      <4>1. d = c /\ leases'[p] = 1
        BY <1>4, <1>a, <2>3, <3>1 DEF SharedInstalled
      <4>2. Streams(d)' = {t}
        BY <1>4, <2>0, <4>1 DEF SharedInstalled, Streams
      <4> QED BY <4>1, <4>2, FS_Singleton
    <3>2. CASE p # origin[t]
      <4>1. shared[p] = d /\ leases'[p] = leases[p] /\ d # c
        BY <1>4, <1>a, <2>0, <2>3, <3>2 DEF SharedInstalled
      <4>2. ~Streaming(t) \/ conn[t] # d
        BY <3>2, <4>1 DEF Home
      <4>3. Streams(d)' = Streams(d)
        BY <1>4, <4>1, <4>2 DEF SharedInstalled, Streams
      <4> QED BY <4>1, <4>3 DEF LeasesCounted
    <3> QED BY <3>1, <3>2
  <2> QED BY <1>0, <2>1, <2>2, <2>3 DEF LeasesCounted
<1> QED BY <1>0, <1>1, <1>2, <1>3, <1>4, LeaseKinds

\* No connection is shared, and no task streams, in an initial state.
LEMMA InitSharing == Init => SharingInv
<1> SUFFICES ASSUME Init PROVE SharingInv
  OBVIOUS
<1>1. Hands
  BY NoneAssumption, ConnsAssumption DEF Init, Hands
<1>2. Apart /\ LeasesCounted
  BY ConnsAssumption DEF Init, Apart, LeasesCounted
<1>3. Home
  BY DEF Init, Home, Streaming
<1> QED BY InitTypes, <1>1, <1>2, <1>3 DEF SharingInv

\* However streams are taken, dropped, refused by GOAWAY, timed out and cancelled,
\* and whatever connection replaces another: shared_leases is the number of
\* callers that hold or await a stream of the shared connection.
THEOREM LeasesExactHolds == Spec => []LeasesExact
<1>1. SharingInv => LeasesExact
  <2> SUFFICES ASSUME SharingInv, NEW o \in Origins, shared[o] # None
               PROVE  leases[o] = Cardinality(Leaseholders(shared[o]))
    BY DEF LeasesExact
  <2>1. shared[o] \in Multiplexed /\ shared[o] \in Conns
    BY ProtocolAssumption DEF SharingInv, Types, Kinds
  <2>2. Leaseholders(shared[o]) = Streams(shared[o])
    BY <2>1 DEF SharingInv, Hands, Leaseholders, Streams, Streaming
  <2> QED BY <2>1, <2>2 DEF SharingInv, LeasesCounted
<1> QED BY InitSharing, SharingStep, <1>1, PTL DEF Spec
-----------------------------------------------------------------------------

(***************************************************************************)
(* Dials.                                                                  *)
(***************************************************************************)

\* Closing the pool clears the books, and nothing is entered afterwards.
ClosedBooks ==
    closed => \A o \in Origins : mode[o] = None /\ ~dialing[o]

KeepsDials(u) == \A o \in Origins : Dialing(u, o)' <=> Dialing(u, o)

EndsDials(u) == \A o \in Origins : ~Dialing(u, o)'

\* The entry of o loses what it loses and gains nothing.
Shrinks(o) == shared'[o] \in {shared[o], None} /\ mode'[o] \in {mode[o], None}

StaysJoined(u) == u \in joined /\ origin'[u] = origin[u]

Joins(u) == \E o \in Origins : origin'[u] = o /\ dialing[o]

\* The kinds of step.  The first: nothing becomes of any dial, except that it is
\* refused or cut short; whoever joins, joins one that is announced.
DialsKept ==
    /\ UNCHANGED <<closed, dialing>>
    /\ \A o \in Origins : Shrinks(o)
    /\ \A u \in Tasks : KeepsDials(u) \/ (EndsDials(u) /\ (closed \/ "close" \in Interrupts))
    /\ \A u \in joined' : StaysJoined(u) \/ Joins(u)

DialStarted(t, o) ==
    /\ ~closed /\ ~Coalesces(o) /\ t \notin Dialers
    /\ UNCHANGED <<closed, joined>>
    /\ dialing' = [dialing EXCEPT ![o] = @ \/ mode[o] # "h1"]
    /\ shared'[o] = None /\ \A p \in Origins : Shrinks(p)
    /\ \A p \in Origins : Dialing(t, p)' <=> p = o
    /\ \A u \in Tasks \ {t} : KeepsDials(u)
    /\ \A u \in joined : origin'[u] = origin[u]

DialEnded(t) ==
    /\ Dialing(t, origin[t]) /\ EndsDials(t)
    /\ UNCHANGED <<closed, origin>>
    /\ SignalDial(origin[t])
    /\ mode'[origin[t]] \in {mode[origin[t]], None} \union Protocols[origin[t]]
    /\ closed => mode'[origin[t]] \in {mode[origin[t]], None}
    /\ \A p \in Origins \ {origin[t]} : Shrinks(p)
    /\ \A u \in Tasks \ {t} : KeepsDials(u)

PoolClosed ==
    /\ closed'
    /\ \A o \in Origins : mode'[o] = None /\ shared'[o] = None /\ ~dialing'[o]
    /\ joined' = {u \in joined : ~dialing[origin[u]]}
    /\ UNCHANGED origin
    /\ \A u \in Tasks : KeepsDials(u)

\* _prune_locked forgets an entry or leaves it as it was.
LEMMA PrunedShrinks ==
    ASSUME NEW S, mode' = Pruned(S)
    PROVE  \A o \in Origins : mode'[o] \in {mode[o], None}
BY DEF Pruned

\* A step of a task that is not, and will not be, a dialer.
LEMMA OthersDial ==
    ASSUME NEW t \in Tasks, Local(t), t \notin Dialers, t \notin Dialers'
    PROVE  \A u \in Tasks : KeepsDials(u)
BY DEF Local, Dialers, Dialing, KeepsDials

\* Nor does it touch the dials, or whom they wake, beyond leaving them.
LEMMA NoDialer ==
    ASSUME NEW t \in Tasks, Local(t), UNCHANGED <<closed, dialing>>, \A o \in Origins : Shrinks(o),
           t \notin Dialers, t \notin Dialers',
           joined' \subseteq joined, joined \subseteq Tasks, t \in joined' => origin'[t] = origin[t]
    PROVE  DialsKept
<1>1. \A u \in joined' : StaysJoined(u)
  BY DEF Local, StaysJoined
<1>2. \A u \in Tasks : KeepsDials(u)
  BY OthersDial
<1> QED BY <1>1, <1>2 DEF DialsKept

\* Every step of the pool is of one of the kinds.
LEMMA DialKinds ==
    ASSUME Types, Hands, [Next]_vars
    PROVE  \/ DialsKept
           \/ \E t \in Tasks, o \in Origins : DialStarted(t, o)
           \/ \E t \in Tasks : DialEnded(t)
           \/ PoolClosed
<1>0. /\ TypeOK
      /\ pc \in [Tasks -> {"idle", "attempt", "sweep", "dial", "refused", "ready", "evict", "wait", "hold"}]
      /\ then \in [Tasks -> {"idle", "attempt", "hold", "dial", "wait"}]
      /\ origin \in [Tasks -> Origins \union {None}] /\ joined \subseteq Tasks
      /\ None \notin Origins
  BY OriginsAssumption DEF Types, TypeOK, TasksTypeOK
<1>a. /\ \A u \in Tasks : then[u] # "idle" => pc[u] = "sweep"
      /\ \A u \in Tasks : pc[u] \in {"dial", "refused"} => origin[u] \in Origins
      /\ \A u \in Tasks : then[u] = "dial" => origin[u] \in Origins
      /\ \A u \in joined : pc[u] = "wait" \/ (pc[u] = "sweep" /\ then[u] = "wait")
  BY <1>0 DEF Types, Places, Hands
<1>b. \A t \in Tasks : TaskStep(t) => Local(t)
  BY LocalStep
<1> USE <1>0, <1>a DEF books, stamps, places
<1>1. ASSUME NEW t \in Tasks, Local(t), NEW o \in Origins, AttemptClosed(t, o) \/ AttemptShared(t, o)
      PROVE  DialsKept
  <2>1. t \notin Dialers /\ t \notin Dialers' /\ t \notin joined
    BY <1>1 DEF AttemptClosed, AttemptShared, AtAttempt, Leave, Dialers
  <2>2. UNCHANGED <<closed, dialing, joined, mode, shared>>
    BY <1>1 DEF AttemptClosed, AttemptShared
  <2> QED BY <1>1, <2>1, <2>2, NoDialer DEF Shrinks
<1>2. ASSUME NEW t \in Tasks, Local(t), NEW o \in Origins, AttemptIdle(t, o) PROVE DialsKept
  <2>1. PICK c \in Conns, gone \in SUBSET Conns : Taken(t, o, c, gone)
    BY <1>2, TakesIdle
  <2>2. \A p \in Origins : Shrinks(p)
    BY <2>1, RemoveShared DEF Taken, Shrinks
  <2>3. t \notin Dialers /\ t \notin Dialers' /\ t \notin joined
    BY <2>1 DEF Taken, CloseAll, Sweeping, Dialers
  <2>4. UNCHANGED <<closed, dialing, joined>>
    BY <2>1 DEF Taken
  <2> QED BY <1>2, <2>2, <2>3, <2>4, NoDialer
<1>3. ASSUME NEW t \in Tasks, Local(t), NEW o \in Origins, AttemptJoin(t, o) PROVE DialsKept
  <2>1. \A p \in Origins : Shrinks(p)
    BY <1>3, RemoveShared DEF AttemptJoin, Shrinks
  <2>2. t \notin Dialers /\ t \notin Dialers'
    BY <1>3 DEF AttemptJoin, AtAttempt, CloseAll, Sweeping, Dialers
  <2>3. \A u \in Tasks : KeepsDials(u)
    BY <1>3, <2>2, OthersDial
  <2>4. /\ UNCHANGED <<closed, dialing>> /\ dialing[o]
        /\ joined' = joined \union {t} /\ origin'[t] = o
    BY <1>3 DEF AttemptJoin, Coalesces
  <2>5. \A u \in joined' : StaysJoined(u) \/ Joins(u)
    <3>1. Joins(t)
      BY <2>4 DEF Joins
    <3>2. \A u \in joined \ {t} : StaysJoined(u)
      BY <1>3 DEF Local, StaysJoined
    <3> QED BY <2>4, <3>1, <3>2
  <2> QED BY <2>1, <2>3, <2>4, <2>5 DEF DialsKept
<1>4. ASSUME NEW t \in Tasks, Local(t), NEW o \in Origins, AttemptDial(t, o) PROVE DialStarted(t, o)
  <2>1. PICK gone \in Culls(o) : Remove(gone) /\ CloseAll(t, gone, "dial")
    BY <1>4 DEF AttemptDial
  <2>2. /\ ~closed /\ pc[t] \in {"idle", "attempt"} /\ ~Coalesces(o)
        /\ origin'[t] = o
        /\ UNCHANGED <<closed, joined>>
        /\ dialing' = [dialing EXCEPT ![o] = @ \/ mode[o] # "h1"]
        /\ \A p \in Origins : mode'[p] \in {mode[p], None}
    BY <1>4 DEF AttemptDial, AtAttempt, Pruned
  <2>3. Own(o) \subseteq gone
    BY <2>1 DEF Culls
  <2>4. shared'[o] = None /\ \A p \in Origins : shared'[p] \in {shared[p], None}
    BY <2>1, <2>3 DEF Remove, Own
  <2>5. t \notin Dialers /\ t \in Dialers'
    BY <2>1, <2>2 DEF CloseAll, Sweeping, Dialers
  <2>6. \A p \in Origins : Dialing(t, p)' <=> p = o
    BY <2>2, <2>5 DEF Dialing
  <2>7. \A u \in Tasks \ {t} : KeepsDials(u)
    BY <1>4 DEF Local, KeepsDials, Dialing, Dialers
  <2>8. \A u \in joined : origin'[u] = origin[u]
    BY <1>4, <2>2 DEF Local
  <2> QED BY <2>2, <2>4, <2>5, <2>6, <2>7, <2>8 DEF DialStarted, Shrinks
<1>5. ASSUME NEW t \in Tasks, Local(t), NEW o \in Origins, AttemptWait(t, o) PROVE DialsKept
  <2>1. \A p \in Origins : Shrinks(p)
    BY <1>5, RemoveShared, PrunedShrinks DEF AttemptWait, Shrinks
  <2>2. t \notin Dialers /\ t \notin Dialers' /\ t \notin joined
    BY <1>5 DEF AttemptWait, AtAttempt, CloseAll, Sweeping, Dialers
  <2>3. UNCHANGED <<closed, dialing, joined>>
    BY <1>5 DEF AttemptWait
  <2> QED BY <1>5, <2>1, <2>2, <2>3, NoDialer
<1>6. ASSUME NEW t \in Tasks, Local(t), Sweep(t) PROVE DialsKept
  <2>1. \A u \in Tasks : KeepsDials(u)
    BY <1>6 DEF Sweep, Leave, KeepsDials, Dialing, Dialers
  <2>2. UNCHANGED <<closed, dialing, joined, mode, shared>>
    BY <1>6 DEF Sweep
  <2>3. \A u \in joined' : StaysJoined(u)
    BY <1>6 DEF Sweep, Leave, Local, StaysJoined
  <2> QED BY <2>1, <2>2, <2>3 DEF DialsKept, Shrinks
<1>7. ASSUME NEW t \in Tasks, Local(t), SweepCut(t) PROVE DialsKept
  <2>1. EndsDials(t) /\ \A u \in Tasks \ {t} : KeepsDials(u)
    BY <1>7 DEF SweepCut, Leave, Local, EndsDials, KeepsDials, Dialing, Dialers
  <2>2. UNCHANGED <<closed, dialing, mode, shared>> /\ joined' = joined \ {t} /\ "close" \in Interrupts
    BY <1>7 DEF SweepCut
  <2>3. \A u \in joined' : StaysJoined(u)
    BY <1>7, <2>2 DEF Local, StaysJoined
  <2> QED BY <2>1, <2>2, <2>3 DEF DialsKept, Shrinks
<1>8. ASSUME NEW t \in Tasks, Local(t), DialOk(t) PROVE DialsKept \/ DialEnded(t)
  <2>1. PICK c \in Conns : /\ Proto(c) \in Protocols[origin[t]] /\ pc[t] = "dial"
                           /\ IF closed THEN Refuse(t, c) ELSE Install(t, c)
    BY <1>8 DEF DialOk
  <2>2. origin[t] \in Origins /\ Dialing(t, origin[t])
    BY <2>1 DEF Dialing, Dialers
  <2>3. \A u \in Tasks \ {t} : KeepsDials(u)
    BY <1>8 DEF Local, KeepsDials, Dialing, Dialers
  <2>4. t \notin Dialers'
    BY <2>1 DEF Refuse, Install, Dialers
  <2>5. CASE closed
    <3>1. UNCHANGED <<closed, dialing, joined, mode, shared, origin>>
      BY <2>1, <2>5 DEF Refuse
    <3>2. EndsDials(t) /\ \A u \in joined' : StaysJoined(u)
      BY <2>4, <3>1 DEF EndsDials, Dialing, StaysJoined
    <3> QED BY <2>3, <2>5, <3>1, <3>2 DEF DialsKept, Shrinks
  <2>6. CASE ~closed
    <3>1. UNCHANGED <<closed, origin>> /\ SignalDial(origin[t])
      BY <2>1, <2>6 DEF Install
    <3>2. /\ mode'[origin[t]] \in Protocols[origin[t]]
          /\ \A p \in Origins \ {origin[t]} : Shrinks(p)
      BY <2>1, <2>2, <2>6 DEF Install, InstallH1, InstallH2, Shrinks, Proto, TypeOK, BooksTypeOK
    <3> QED BY <2>2, <2>3, <2>4, <2>6, <3>1, <3>2 DEF DialEnded, EndsDials, Dialing
  <2> QED BY <2>5, <2>6
<1>9. ASSUME NEW t \in Tasks, Local(t), DialFail(t) PROVE DialEnded(t)
  <2>1. \A p \in Origins : Shrinks(p)
    BY <1>9, PrunedShrinks DEF DialFail, Shrinks
  <2>2. /\ UNCHANGED <<closed, origin>> /\ SignalDial(origin[t]) /\ origin[t] \in Origins
        /\ Dialing(t, origin[t])
    BY <1>9 DEF DialFail, Dialing, Dialers
  <2>3. \A u \in Tasks \ {t} : KeepsDials(u)
    BY <1>9 DEF Local, KeepsDials, Dialing, Dialers
  <2>4. t \notin Dialers'
    BY <1>9 DEF DialFail, Sweeping, Dialers
  <2> QED BY <2>1, <2>2, <2>3, <2>4 DEF DialEnded, Shrinks, EndsDials, Dialing
<1>10. ASSUME NEW t \in Tasks, Local(t),
              CloseRefused(t) \/ ReadyOk(t) \/ ReadyFail(t) \/ ReadyGiveUp(t) \/ WaitWake(t) \/ WaitGiveUp(t)
       PROVE  DialsKept
  <2>1. t \notin Dialers /\ t \notin Dialers'
    BY <1>10 DEF CloseRefused, ReadyOk, ReadyFail, ReadyGiveUp, WaitWake, WaitGiveUp, Leave, Dialers
  <2>2. UNCHANGED <<closed, dialing, mode, shared>>
    BY <1>10 DEF CloseRefused, ReadyOk, ReadyFail, ReadyGiveUp, WaitWake, WaitGiveUp
  <2>3. joined' \subseteq joined /\ t \notin joined'
    BY <1>10 DEF CloseRefused, ReadyOk, ReadyFail, ReadyGiveUp, WaitWake, WaitGiveUp
  <2> QED BY <1>10, <2>1, <2>2, <2>3, NoDialer DEF Shrinks
<1>11. ASSUME NEW t \in Tasks, Local(t), Evict(t) PROVE DialsKept
  <2>1. \A p \in Origins : Shrinks(p)
    BY <1>11, RemoveShared, PrunedShrinks DEF Evict, Shrinks
  <2>2. t \notin Dialers /\ t \notin Dialers'
    BY <1>11 DEF Evict, Sweeping, Dialers
  <2>3. UNCHANGED <<closed, dialing, joined, origin>>
    BY <1>11 DEF Evict
  <2> QED BY <1>11, <2>1, <2>2, <2>3, NoDialer
<1>12. ASSUME NEW t \in Tasks, Local(t), NEW d \in BOOLEAN, Release(t, d) PROVE DialsKept
  <2>1. t \notin Dialers /\ t \notin Dialers' /\ t \notin joined
    BY <1>12 DEF Release, ReleaseShared, ReleaseExclusive, Park, Discard, Sweeping, Leave, Dialers
  <2>2. UNCHANGED <<closed, dialing, joined>>
    BY <1>12 DEF Release, ReleaseShared, ReleaseExclusive, Park, Discard
  <2>3. \A p \in Origins : Shrinks(p)
    BY <1>12, PrunedShrinks DEF Release, ReleaseShared, ReleaseExclusive, Park, Discard, Shrinks
  <2> QED BY <1>12, <2>1, <2>2, <2>3, NoDialer
<1>13. ASSUME NEW t \in Tasks, Local(t), ClosePool(t) PROVE PoolClosed
  <2>1. t \notin Dialers /\ t \notin Dialers'
    BY <1>13 DEF ClosePool, Sweeping, Dialers
  <2>2. \A u \in Tasks : KeepsDials(u)
    BY <1>13, <2>1, OthersDial
  <2> QED BY <1>13, <2>2 DEF PoolClosed, ClosePool
<1>14. CASE UNCHANGED <<books, joined, places>>
  <2>1. \A u \in Tasks : KeepsDials(u)
    BY <1>14 DEF KeepsDials, Dialing, Dialers
  <2>2. \A u \in joined' : StaysJoined(u)
    BY <1>14 DEF StaysJoined
  <2> QED BY <1>14, <2>1, <2>2 DEF DialsKept, Shrinks
<1>15. CASE EnvStep
  BY <1>14, <1>15 DEF EnvStep, Break, Expire
<1>16. ASSUME NEW t \in Tasks, TaskStep(t)
       PROVE  DialsKept \/ (\E o \in Origins : DialStarted(t, o)) \/ DialEnded(t) \/ PoolClosed
  BY <1>b, <1>1, <1>2, <1>3, <1>4, <1>5, <1>6, <1>7, <1>8, <1>9, <1>10, <1>11, <1>12, <1>13, <1>16
     DEF TaskStep, Attempt
<1> QED BY <1>14, <1>15, <1>16 DEF Next, vars

\* Whoever waits for a dial waits for one that is announced.
JoinedAnnounced == \A t \in joined : dialing[origin[t]]

\* Unless a task may be cancelled between its decision to dial and the dial, an
\* announced dial is performed.
AnnouncedPerformed ==
    "close" \notin Interrupts => \A o \in Origins : dialing[o] => \E t \in Tasks : Dialing(t, o)

\* At an origin that only speaks h2 one task dials at a time, nothing is shared
\* meanwhile, and the dial is announced.
SoleDialer ==
    \A o \in Origins : Protocols[o] = {"h2"} =>
        /\ mode[o] # "h1"
        /\ \A t \in Tasks : Dialing(t, o) =>
             /\ shared[o] = None
             /\ closed \/ dialing[o]
             /\ \A u \in Tasks : Dialing(u, o) => u = t

DialsInv ==
    Types /\ Hands /\ ClosedBooks /\ JoinedAnnounced /\ AnnouncedPerformed /\ SoleDialer

\* Every kind of step keeps what is known of dials.
LEMMA DialsStep == DialsInv /\ [Next]_vars => DialsInv'
<1> SUFFICES ASSUME DialsInv, [Next]_vars PROVE DialsInv'
  OBVIOUS
<1>0. Types' /\ Hands' /\ Types /\ Hands
  BY TypesStep, HandsStep DEF DialsInv
<1>a. /\ dialing \in [Origins -> BOOLEAN] /\ None \notin {"h1", "h2"}
      /\ \A t \in joined : t \in Tasks /\ origin[t] \in Origins
      /\ \A t \in Tasks, o \in Origins : Dialing(t, o) => origin[t] = o
      /\ \A t \in Tasks : Dialing(t, origin[t]) => origin[t] \in Origins
      /\ \A t \in joined' : t \in Tasks
  <2>1. /\ dialing \in [Origins -> BOOLEAN] /\ joined \subseteq Tasks /\ joined' \subseteq Tasks
    BY <1>0 DEF Types, TypeOK, BooksTypeOK, TasksTypeOK
  <2>2. \A t \in joined : origin[t] \in Origins
    BY <1>0, <2>1 DEF Types, Places, Hands
  <2>3. \A t \in Tasks : Dialing(t, origin[t]) => origin[t] \in Origins
    BY <1>0 DEF Types, Places, Dialing, Dialers
  <2> QED BY <2>1, <2>2, <2>3, NoneAssumption DEF Dialing
<1> USE <1>a
<1>b. ClosedBooks /\ JoinedAnnounced /\ AnnouncedPerformed /\ SoleDialer
  BY DEF DialsInv
<1>1. CASE DialsKept
  <2>1. ClosedBooks'
    BY <1>1, <1>b DEF DialsKept, Shrinks, ClosedBooks
  <2>2. JoinedAnnounced'
    BY <1>1, <1>b DEF DialsKept, StaysJoined, Joins, JoinedAnnounced
  <2>3. AnnouncedPerformed'
    <3> SUFFICES ASSUME "close" \notin Interrupts, NEW o \in Origins, dialing'[o]
                 PROVE  \E t \in Tasks : Dialing(t, o)'
      BY DEF AnnouncedPerformed
    <3>1. dialing[o] /\ ~closed
      BY <1>1, <1>b DEF DialsKept, ClosedBooks
    <3>2. PICK t \in Tasks : Dialing(t, o)
      BY <1>b, <3>1 DEF AnnouncedPerformed
    <3>3. KeepsDials(t)
      BY <1>1, <3>1 DEF DialsKept
    <3> QED BY <3>2, <3>3 DEF KeepsDials
  <2>4. SoleDialer'
    <3>1. \A t \in Tasks, o \in Origins : Dialing(t, o)' => Dialing(t, o)
      BY <1>1 DEF DialsKept, KeepsDials, EndsDials
    <3>2. UNCHANGED <<closed, dialing>> /\ \A o \in Origins : Shrinks(o)
      BY <1>1 DEF DialsKept
    <3> QED BY <1>b, <3>1, <3>2 DEF SoleDialer, Shrinks
  <2> QED BY <1>0, <2>1, <2>2, <2>3, <2>4 DEF DialsInv
<1>2. ASSUME NEW t \in Tasks, NEW o \in Origins, DialStarted(t, o) PROVE DialsInv'
  <2>1. ClosedBooks'
    BY <1>2 DEF DialStarted, ClosedBooks
  <2>2. JoinedAnnounced'
    BY <1>2, <1>b DEF DialStarted, JoinedAnnounced
  <2>3. AnnouncedPerformed'
    <3> SUFFICES ASSUME "close" \notin Interrupts, NEW p \in Origins, dialing'[p]
                 PROVE  \E u \in Tasks : Dialing(u, p)'
      BY DEF AnnouncedPerformed
    <3>1. CASE p = o
      BY <1>2, <3>1 DEF DialStarted
    <3>2. CASE p # o
      <4>1. dialing[p]
        BY <1>2, <3>2 DEF DialStarted
      <4>2. PICK u \in Tasks : Dialing(u, p)
        BY <1>b, <4>1 DEF AnnouncedPerformed
      <4>3. CASE u # t
        BY <1>2, <4>2, <4>3 DEF DialStarted, KeepsDials
      <4>4. CASE u = t
        BY <1>2, <4>2, <4>4 DEF DialStarted, Dialing
      <4> QED BY <4>3, <4>4
    <3> QED BY <3>1, <3>2
  <2>4. SoleDialer'
    <3> SUFFICES ASSUME NEW p \in Origins, Protocols[p] = {"h2"}
                 PROVE  /\ mode'[p] # "h1"
                        /\ \A u \in Tasks : Dialing(u, p)' =>
                             /\ shared'[p] = None
                             /\ closed' \/ dialing'[p]
                             /\ \A v \in Tasks : Dialing(v, p)' => v = u
      BY DEF SoleDialer
    <3>1. mode[p] # "h1" /\ mode'[p] # "h1"
      BY <1>2, <1>b DEF DialStarted, Shrinks, SoleDialer
    <3>2. CASE p = o
      <4>1. ~dialing[o]
        BY <1>2, <3>1, <3>2 DEF DialStarted, Coalesces
      <4>2. \A u \in Tasks : ~Dialing(u, o)
        BY <1>2, <1>b, <3>2, <4>1 DEF DialStarted, SoleDialer
      <4>3. \A u \in Tasks : Dialing(u, o)' => u = t
        BY <1>2, <4>2 DEF DialStarted, KeepsDials
      <4> QED BY <1>2, <3>1, <3>2, <4>3 DEF DialStarted
    <3>3. CASE p # o
      <4>1. \A u \in Tasks : Dialing(u, p)' => Dialing(u, p)
        BY <1>2, <3>3 DEF DialStarted, KeepsDials
      <4>2. shared'[p] \in {shared[p], None} /\ dialing'[p] = dialing[p]
        BY <1>2, <3>3 DEF DialStarted, Shrinks
      <4> QED BY <1>2, <1>b, <3>1, <4>1, <4>2 DEF DialStarted, SoleDialer
    <3> QED BY <3>2, <3>3
  <2> QED BY <1>0, <2>1, <2>2, <2>3, <2>4 DEF DialsInv
<1>3. ASSUME NEW t \in Tasks, DialEnded(t) PROVE DialsInv'
  <2> DEFINE o == origin[t]
  <2>0. /\ o \in Origins /\ Dialing(t, o) /\ closed' = closed /\ origin' = origin
        /\ dialing' = [dialing EXCEPT ![o] = FALSE]
        /\ joined' = {u \in joined : ~(dialing[o] /\ origin[u] = o)}
    BY <1>3 DEF DialEnded, SignalDial
  <2>1. ClosedBooks'
    BY <1>3, <1>b, <2>0 DEF DialEnded, Shrinks, ClosedBooks
  <2>2. JoinedAnnounced'
    BY <1>b, <2>0 DEF JoinedAnnounced
  <2>3. AnnouncedPerformed'
    <3> SUFFICES ASSUME "close" \notin Interrupts, NEW p \in Origins, dialing'[p]
                 PROVE  \E u \in Tasks : Dialing(u, p)'
      BY DEF AnnouncedPerformed
    <3>1. p # o /\ dialing[p]
      BY <2>0
    <3>2. PICK u \in Tasks : Dialing(u, p)
      BY <1>b, <3>1 DEF AnnouncedPerformed
    <3>3. u # t
      BY <3>1, <3>2
    <3> QED BY <1>3, <3>2, <3>3 DEF DialEnded, KeepsDials
  <2>4. SoleDialer'
    <3> SUFFICES ASSUME NEW p \in Origins, Protocols[p] = {"h2"}
                 PROVE  /\ mode'[p] # "h1"
                        /\ \A u \in Tasks : Dialing(u, p)' =>
                             /\ shared'[p] = None
                             /\ closed' \/ dialing'[p]
                             /\ \A v \in Tasks : Dialing(v, p)' => v = u
      BY DEF SoleDialer
    <3>1. \A u \in Tasks : Dialing(u, p)' => Dialing(u, p) /\ u # t
      BY <1>3 DEF DialEnded, KeepsDials, EndsDials
    <3>2. mode[p] # "h1"
      BY <1>b DEF SoleDialer
    <3>3. CASE p = o
      <4>1. mode'[p] # "h1"
        BY <1>3, <3>2, <3>3 DEF DialEnded
      <4>2. \A u \in Tasks : ~Dialing(u, p)'
        BY <1>b, <2>0, <3>1, <3>3 DEF SoleDialer
      <4> QED BY <4>1, <4>2
    <3>4. CASE p # o
      <4>1. shared'[p] \in {shared[p], None} /\ mode'[p] \in {mode[p], None} /\ dialing'[p] = dialing[p]
        BY <1>3, <2>0, <3>4 DEF DialEnded, Shrinks
      <4> QED BY <1>b, <2>0, <3>1, <3>2, <4>1 DEF SoleDialer
    <3> QED BY <3>3, <3>4
  <2> QED BY <1>0, <2>1, <2>2, <2>3, <2>4 DEF DialsInv
<1>4. CASE PoolClosed
  <2>1. ClosedBooks' /\ AnnouncedPerformed'
    BY <1>4 DEF PoolClosed, ClosedBooks, AnnouncedPerformed
  <2>2. JoinedAnnounced'
    BY <1>4, <1>b DEF PoolClosed, JoinedAnnounced
  <2>3. SoleDialer'
    BY <1>4, <1>b DEF PoolClosed, SoleDialer, KeepsDials
  <2> QED BY <1>0, <2>1, <2>2, <2>3 DEF DialsInv
<1> QED BY <1>0, <1>1, <1>2, <1>3, <1>4, DialKinds

\* Nobody dials, and nobody waits for a dial, in an initial state.
LEMMA InitDials == Init => DialsInv
<1> SUFFICES ASSUME Init PROVE DialsInv
  OBVIOUS
<1>1. Types /\ Hands
  BY InitTypes, InitSharing DEF SharingInv
<1>2. ClosedBooks /\ JoinedAnnounced /\ AnnouncedPerformed
  BY DEF Init, ClosedBooks, JoinedAnnounced, AnnouncedPerformed
<1>3. SoleDialer
  BY NoneAssumption DEF Init, SoleDialer, Dialing, Dialers
<1> QED BY <1>1, <1>2, <1>3 DEF DialsInv

\* Whoever sleeps on a dial's event sleeps on a dial that somebody performs, if no
\* cancellation hits a task while it closes connections on its way to the dial.
THEOREM DialInFlightHolds ==
    ASSUME "close" \notin Interrupts
    PROVE  Spec => []DialInFlight
<1>1. DialsInv => DialInFlight
  BY DEF DialsInv, DialInFlight, AnnouncedPerformed, JoinedAnnounced
<1> QED BY InitDials, DialsStep, <1>1, PTL DEF Spec

\* An origin that only speaks h2 has one live connection at most, installed or
\* being dialed, whatever is interrupted and whatever other origins negotiate.
THEOREM OneSharedConnHolds == Spec => []OneSharedConn
<1>1. DialsInv => OneSharedConn
  <2> SUFFICES ASSUME DialsInv, NEW o \in Origins, Protocols[o] = {"h2"}
               PROVE  Cardinality({t \in Tasks : Dialing(t, o)}) + (IF shared[o] = None THEN 0 ELSE 1) <= 1
    BY DEF OneSharedConn
  <2>1. CASE \E t \in Tasks : Dialing(t, o)
    <3>1. PICK t \in Tasks : Dialing(t, o)
      BY <2>1
    <3>2. shared[o] = None /\ {u \in Tasks : Dialing(u, o)} = {t}
      BY <3>1 DEF DialsInv, SoleDialer
    <3> QED BY <3>2, FS_Singleton
  <2>2. CASE ~ \E t \in Tasks : Dialing(t, o)
    <3>1. {u \in Tasks : Dialing(u, o)} = {}
      BY <2>2
    <3> QED BY <3>1, FS_EmptySet
  <2> QED BY <2>1, <2>2
<1> QED BY InitDials, DialsStep, <1>1, PTL DEF Spec
-----------------------------------------------------------------------------

(***************************************************************************)
(* What becomes of a shared connection with streams out.                   *)
(***************************************************************************)

\* No origin negotiates h1 on one dial and h2 on another.  (Where one does, two
\* dials may bring two shared connections, and the second replaces the first.)
Unmixed == \A o \in Origins : Protocols[o] # {"h1", "h2"}

\* A dial that brings a shared connection finds none in the entry.
LEMMA ReplacesNothing ==
    ASSUME DialsInv, Unmixed, NEW t \in Tasks, NEW c \in Conns,
           pc[t] = "dial", Proto(c) \in Protocols[origin[t]], InstallH2(t, c)
    PROVE  shared[origin[t]] = None
<1>1. origin[t] \in Origins /\ Dialing(t, origin[t])
  BY DEF DialsInv, Types, Places, Dialing, Dialers
<1>2. "h2" \in Protocols[origin[t]]
  BY DEF InstallH2, Proto
<1>3. Protocols[origin[t]] = {"h2"}
  <2>1. Protocols[origin[t]] \subseteq {"h1", "h2"}
    BY <1>1, ProtocolAssumption
  <2> QED BY <1>1, <1>2, <2>1 DEF Unmixed
<1> QED BY <1>1, <1>3 DEF DialsInv, SoleDialer

\* What an attempt removes of the shared connections is dead, or has no streams.
LEMMA CullsShared ==
    ASSUME Types, Apart, NEW o \in Origins, Dry(o), NEW gone, gone \in Culls(o) \/ gone = Own(o),
           NEW p \in Origins, shared[p] \in gone
    PROVE  Dead(shared[p]) \/ leases[p] = 0
<1>0. /\ \A q \in Origins : shared[q] \in Multiplexed \union {None}
      /\ Parked \intersect Multiplexed = {}
      /\ \A q \in Origins : None \notin idle[q]
      /\ None \notin Parked
  BY ConnsAssumption DEF Types, TypeOK, BooksTypeOK, Kinds, Parked
<1>1. CASE shared[p] \in Own(o)
  <2>1. shared[p] = shared[o] /\ shared[p] # None
    BY <1>0, <1>1 DEF Own, Parked
  <2> QED BY <2>1 DEF Apart, Dry, NoShared, Dead
<1>2. CASE shared[p] \in Stale
  BY <1>0, <1>2 DEF Stale, SharedSet
<1>3. CASE shared[p] \in Spare
  <2>1. PICK q \in Origins : leases[q] = 0 /\ shared[q] = shared[p] /\ shared[p] # None
    BY <1>0, <1>3 DEF Spare, Resting
  <2> QED BY <2>1 DEF Apart
<1> QED BY <1>1, <1>2, <1>3 DEF Culls, Oldest

\* A step that takes a shared connection with streams out off the books.
LEMMA NotReclaimed ==
    ASSUME SharingInv, DialsInv, Unmixed, Next,
           NEW o \in Origins, shared[o] # None, leases[o] > 0, shared'[o] # shared[o]
    PROVE  \/ closed'
           \/ Dead(shared[o])
           \/ \E t \in Tasks : pc[t] = "evict" /\ conn[t] = shared[o]
<1> DEFINE Goal == closed' \/ Dead(shared[o]) \/ \E t \in Tasks : pc[t] = "evict" /\ conn[t] = shared[o]
<1>0. TypeOK /\ Types /\ Apart /\ shared \in [Origins -> Conns \union {None}]
  BY DEF SharingInv, Types, TypeOK, BooksTypeOK
<1>a. ASSUME NEW S, Remove(S) PROVE shared[o] \in S
  BY <1>0, <1>a DEF Remove
<1>1. ASSUME NEW t \in Tasks, NEW p \in Origins, Attempt(t, p) PROVE Goal
  <2>1. CASE AttemptClosed(t, p) \/ AttemptShared(t, p)
    BY <2>1 DEF AttemptClosed, AttemptShared, books
  <2>2. CASE AttemptIdle(t, p)
    <3>1. PICK c \in Conns, gone \in SUBSET Conns : Taken(t, p, c, gone)
      BY <1>0, <2>2, TakesIdle
    <3>2. shared[o] \in gone \union {c} /\ c \notin Multiplexed
      BY <1>a, <3>1 DEF Taken
    <3>3. shared[o] \in Multiplexed
      BY <1>0 DEF Types, Kinds
    <3> QED BY <3>1, <3>2, <3>3 DEF Taken
  <2>3. CASE AttemptJoin(t, p) \/ AttemptWait(t, p)
    <3>1. Dry(p) /\ Remove(Own(p))
      BY <2>3 DEF AttemptJoin, AttemptWait
    <3>2. shared[o] \in Own(p)
      BY <1>a, <3>1
    <3> QED BY <1>0, <3>1, <3>2, CullsShared
  <2>4. CASE AttemptDial(t, p)
    <3>1. PICK gone \in Culls(p) : Dry(p) /\ Remove(gone)
      BY <2>4 DEF AttemptDial
    <3>2. shared[o] \in gone
      BY <1>a, <3>1
    <3> QED BY <1>0, <3>1, <3>2, CullsShared
  <2> QED BY <1>1, <2>1, <2>2, <2>3, <2>4 DEF Attempt
<1>2. ASSUME NEW t \in Tasks, DialOk(t) PROVE Goal
  <2>1. PICK c \in Conns : /\ Proto(c) \in Protocols[origin[t]] /\ pc[t] = "dial"
                           /\ IF closed THEN Refuse(t, c) ELSE Install(t, c)
    BY <1>2 DEF DialOk
  <2>2. InstallH2(t, c)
    BY <2>1 DEF Refuse, Install, InstallH1, books
  <2>3. origin[t] = o
    BY <1>0, <2>2 DEF InstallH2
  <2> QED BY <2>1, <2>2, <2>3, ReplacesNothing
<1>3. ASSUME NEW t \in Tasks, Evict(t) PROVE Goal
  <2>1. Remove({conn[t]}) /\ pc[t] = "evict"
    BY <1>3 DEF Evict
  <2> QED BY <1>a, <2>1
<1>4. ASSUME NEW t \in Tasks, ClosePool(t) PROVE Goal
  BY <1>4 DEF ClosePool
<1>5. ASSUME NEW t \in Tasks, NEW d \in BOOLEAN, Release(t, d) PROVE Goal
  BY <1>5 DEF Release, ReleaseShared, ReleaseExclusive, Park, Discard
<1>6. ASSUME NEW t \in Tasks,
             \/ Sweep(t) \/ SweepCut(t) \/ DialFail(t) \/ CloseRefused(t) \/ ReadyOk(t)
             \/ ReadyFail(t) \/ ReadyGiveUp(t) \/ WaitWake(t) \/ WaitGiveUp(t)
      PROVE  Goal
  BY <1>6 DEF Sweep, SweepCut, DialFail, CloseRefused, ReadyOk, ReadyFail, ReadyGiveUp, WaitWake,
              WaitGiveUp, books
<1>7. ASSUME EnvStep PROVE Goal
  BY <1>7 DEF EnvStep, Break, Expire, books
<1> QED BY <1>1, <1>2, <1>3, <1>4, <1>5, <1>6, <1>7 DEF Next, TaskStep

\* A shared connection with streams out is never taken off the books to make room,
\* whatever the limits and however many origins compete, if no origin mixes
\* protocols.
THEOREM LeasedNotReclaimedHolds ==
    ASSUME Unmixed
    PROVE  Spec => LeasedNotReclaimed
<1> DEFINE Step == \A o \in Origins :
                     shared[o] # None /\ leases[o] > 0 /\ shared'[o] # shared[o] =>
                        \/ closed'
                        \/ Dead(shared[o])
                        \/ \E t \in Tasks : pc[t] = "evict" /\ conn[t] = shared[o]
<1>1. SharingInv /\ DialsInv /\ [Next]_vars => [Step]_vars
  BY NotReclaimed
<1>2. LeasedNotReclaimed <=> [][Step]_vars
  BY PTL DEF LeasedNotReclaimed
<1> HIDE DEF Step
<1> QED BY InitSharing, SharingStep, InitDials, DialsStep, <1>1, <1>2, PTL DEF Spec
-----------------------------------------------------------------------------

(***************************************************************************)
(* Entries.                                                                *)
(***************************************************************************)

\* Who holds an h1 connection of o.
Exclusive(o) == {t \in Tasks : origin[t] = o /\ conn[t] \in Conns \ Multiplexed}

\* host.leased never understates who holds a connection of the origin; once the
\* pool is closed it is not kept any more.
LeasedCovers ==
    /\ ~closed => \A o \in Origins : Cardinality(Exclusive(o)) <= leased[o]
    /\ closed => \A o \in Origins : leased[o] = 0

\* The kinds of step.
LeasedKept ==
    /\ UNCHANGED <<leased, closed>>
    /\ \A o \in Origins : Exclusive(o)' \subseteq Exclusive(o)

LeasedMore(t, o) ==
    /\ ~closed /\ UNCHANGED closed
    /\ leased' = [leased EXCEPT ![o] = @ + 1]
    /\ Exclusive(o)' \subseteq Exclusive(o) \union {t}
    /\ \A p \in Origins \ {o} : Exclusive(p)' \subseteq Exclusive(p)

LeasedLess(t) ==
    /\ UNCHANGED closed
    /\ t \in Exclusive(origin[t]) /\ origin[t] \in Origins
    /\ DropLeased(origin[t])
    /\ \A o \in Origins : Exclusive(o)' \subseteq Exclusive(o) \ {t}

\* A step of a task that comes into no h1 connection, and takes none elsewhere.
LEMMA ExclusiveShrinks ==
    ASSUME NEW t \in Tasks, Local(t), None \notin Conns,
           \/ conn'[t] \in Multiplexed \union {None}
           \/ conn'[t] = conn[t] /\ origin'[t] = origin[t]
    PROVE  \A o \in Origins : Exclusive(o)' \subseteq Exclusive(o)
BY DEF Local, Exclusive

\* Every step of the pool is of one of the kinds.
LEMMA LeasedKinds ==
    ASSUME Types, Hands, [Next]_vars
    PROVE  \/ LeasedKept
           \/ \E t \in Tasks, o \in Origins : LeasedMore(t, o)
           \/ \E t \in Tasks : LeasedLess(t)
           \/ closed' /\ \A o \in Origins : leased'[o] = 0
<1>0. /\ TypeOK /\ None \notin Conns
      /\ conn \in [Tasks -> Conns \union {None}] /\ origin \in [Tasks -> Origins \union {None}]
      /\ leased \in [Origins -> Int]
      /\ \A o \in Origins : shared[o] \in Multiplexed \union {None}
      /\ \A t \in Tasks : pc[t] \in {"idle", "attempt"} => conn[t] \in Multiplexed \union {None}
      /\ \A t \in Tasks : pc[t] \in {"dial", "hold"} => origin[t] \in Origins
  BY ConnsAssumption DEF Types, TypeOK, BooksTypeOK, TasksTypeOK, Places, Kinds, Hands
<1>a. \A t \in Tasks : TaskStep(t) => Local(t)
  BY LocalStep
<1> USE <1>0 DEF books, places
<1>1. ASSUME NEW t \in Tasks, Local(t), NEW o \in Origins, AttemptClosed(t, o) \/ AttemptShared(t, o)
      PROVE  LeasedKept
  <2>1. conn'[t] \in Multiplexed \union {None} /\ UNCHANGED <<leased, closed>>
    BY <1>1 DEF AttemptClosed, AttemptShared, Leave
  <2> QED BY <1>1, <2>1, ExclusiveShrinks DEF LeasedKept
<1>2. ASSUME NEW t \in Tasks, Local(t), NEW o \in Origins, AttemptIdle(t, o) PROVE LeasedMore(t, o)
  <2>1. PICK c \in Conns, gone \in SUBSET Conns : Taken(t, o, c, gone)
    BY <1>2, TakesIdle
  <2>2. ~closed /\ UNCHANGED closed /\ leased' = [leased EXCEPT ![o] = @ + 1] /\ origin'[t] = o
    BY <2>1 DEF Taken
  <2> QED BY <1>2, <2>2 DEF LeasedMore, Local, Exclusive
<1>3. ASSUME NEW t \in Tasks, Local(t), NEW o \in Origins,
             AttemptJoin(t, o) \/ AttemptDial(t, o) \/ AttemptWait(t, o)
      PROVE  LeasedKept
  <2>1. conn'[t] \in Multiplexed \union {None} /\ UNCHANGED <<leased, closed>>
    BY <1>3 DEF AttemptJoin, AttemptDial, AttemptWait, AtAttempt
  <2> QED BY <1>3, <2>1, ExclusiveShrinks DEF LeasedKept
<1>4. ASSUME NEW t \in Tasks, Local(t), DialOk(t)
      PROVE  LeasedKept \/ \E o \in Origins : LeasedMore(t, o)
  <2>1. PICK c \in Conns : pc[t] = "dial" /\ IF closed THEN Refuse(t, c) ELSE Install(t, c)
    BY <1>4 DEF DialOk
  <2>2. CASE closed
    <3>1. conn'[t] = conn[t] /\ origin'[t] = origin[t] /\ UNCHANGED <<leased, closed>>
      BY <2>1, <2>2 DEF Refuse
    <3> QED BY <1>4, <3>1, ExclusiveShrinks DEF LeasedKept
  <2>3. CASE ~closed /\ InstallH2(t, c)
    <3>1. conn'[t] \in Multiplexed \union {None} /\ UNCHANGED <<leased, closed>>
      BY <2>1, <2>3 DEF Install, InstallH2
    <3> QED BY <1>4, <3>1, ExclusiveShrinks DEF LeasedKept
  <2>4. CASE ~closed /\ InstallH1(t, c)
    <3>1. /\ UNCHANGED closed /\ leased' = [leased EXCEPT ![origin[t]] = @ + 1]
          /\ origin'[t] = origin[t]
      BY <2>1, <2>4 DEF Install, InstallH1
    <3>2. LeasedMore(t, origin[t])
      BY <1>4, <2>4, <3>1 DEF LeasedMore, Local, Exclusive
    <3> QED BY <2>1, <3>2
  <2> QED BY <2>1, <2>2, <2>3, <2>4 DEF Install
<1>5. ASSUME NEW t \in Tasks, Local(t),
             \/ Sweep(t) \/ SweepCut(t) \/ DialFail(t) \/ CloseRefused(t) \/ ReadyOk(t) \/ ReadyFail(t)
             \/ Evict(t) \/ ReadyGiveUp(t) \/ WaitWake(t) \/ WaitGiveUp(t)
      PROVE  LeasedKept
  <2>1. UNCHANGED <<leased, closed>>
    BY <1>5 DEF Sweep, SweepCut, DialFail, CloseRefused, ReadyOk, ReadyFail, Evict, ReadyGiveUp,
                WaitWake, WaitGiveUp
  <2>2. \/ conn'[t] = None
        \/ conn'[t] = conn[t] /\ origin'[t] = origin[t]
    BY <1>5 DEF Sweep, SweepCut, DialFail, CloseRefused, ReadyOk, ReadyFail, Evict, ReadyGiveUp,
                WaitWake, WaitGiveUp, Leave
  <2> QED BY <1>5, <2>1, <2>2, ExclusiveShrinks DEF LeasedKept
<1>6. ASSUME NEW t \in Tasks, Local(t), NEW d \in BOOLEAN, Release(t, d)
      PROVE  LeasedKept \/ LeasedLess(t)
  <2>1. CASE ReleaseShared(t)
    <3>1. /\ UNCHANGED <<leased, closed>>
          /\ conn'[t] = None \/ (conn'[t] = conn[t] /\ origin'[t] = origin[t])
      BY <2>1 DEF ReleaseShared, Leave
    <3> QED BY <1>6, <3>1, ExclusiveShrinks DEF LeasedKept
  <2>2. CASE ReleaseExclusive(t, d)
    <3>1. /\ DropLeased(origin[t]) /\ UNCHANGED closed
          /\ conn'[t] = None /\ conn[t] \notin Multiplexed /\ pc[t] = "hold"
      BY <1>6, <2>2 DEF Release, ReleaseExclusive, Park, Discard
    <3>2. conn[t] \in Conns
      BY <3>1 DEF Types, Places
    <3> QED BY <1>6, <3>1, <3>2 DEF LeasedLess, Local, Exclusive
  <2> QED BY <1>6, <2>1, <2>2 DEF Release
<1>7. ASSUME NEW t \in Tasks, ClosePool(t) PROVE closed' /\ \A o \in Origins : leased'[o] = 0
  BY <1>7 DEF ClosePool
<1>8. CASE UNCHANGED <<books, places>>
  BY <1>8 DEF LeasedKept, Exclusive
<1>9. CASE EnvStep
  BY <1>8, <1>9 DEF EnvStep, Break, Expire
<1>10. ASSUME NEW t \in Tasks, TaskStep(t)
       PROVE  \/ LeasedKept \/ (\E o \in Origins : LeasedMore(t, o)) \/ LeasedLess(t)
              \/ closed' /\ \A o \in Origins : leased'[o] = 0
  BY <1>a, <1>1, <1>2, <1>3, <1>4, <1>5, <1>6, <1>7, <1>10 DEF TaskStep, Attempt
<1> QED BY <1>8, <1>9, <1>10 DEF Next, vars

\* Every kind of step keeps host.leased large enough.
LEMMA LeasedStep == Types /\ Hands /\ LeasedCovers /\ [Next]_vars => LeasedCovers'
<1> SUFFICES ASSUME Types, Hands, LeasedCovers, [Next]_vars PROVE LeasedCovers'
  OBVIOUS
<1>0. leased \in [Origins -> Int]
  BY DEF Types, TypeOK, BooksTypeOK
<1>a. \A S \in SUBSET Tasks : IsFiniteSet(S) /\ Cardinality(S) \in Nat
  BY TasksAssumption, FS_Subset, FS_CardinalityType
<1>b. \A o \in Origins : Exclusive(o) \subseteq Tasks /\ Exclusive(o)' \subseteq Tasks
  BY DEF Exclusive
<1>c. \A S \in SUBSET Tasks : \A T \in SUBSET S : Cardinality(T) <= Cardinality(S)
  BY <1>a, SubsetCard
<1>1. CASE LeasedKept
  <2>1. \A o \in Origins : Cardinality(Exclusive(o)') <= Cardinality(Exclusive(o))
    BY <1>1, <1>b, <1>c DEF LeasedKept
  <2>2. \A o \in Origins : Cardinality(Exclusive(o)) \in Nat /\ Cardinality(Exclusive(o)') \in Nat
    BY <1>a, <1>b
  <2> QED BY <1>0, <1>1, <2>1, <2>2 DEF LeasedKept, LeasedCovers
<1>2. ASSUME NEW t \in Tasks, NEW o \in Origins, LeasedMore(t, o) PROVE LeasedCovers'
  <2>1. Cardinality(Exclusive(o)') <= Cardinality(Exclusive(o)) + 1
    <3>1. /\ IsFiniteSet(Exclusive(o) \union {t})
          /\ Cardinality(Exclusive(o) \union {t}) <= Cardinality(Exclusive(o)) + 1
      BY <1>a, <1>b, AddCard
    <3>2. Cardinality(Exclusive(o)') <= Cardinality(Exclusive(o) \union {t})
      BY <1>2, <1>b, <1>c DEF LeasedMore
    <3>3. Exclusive(o) \union {t} \subseteq Tasks
      BY <1>b
    <3> QED BY <1>a, <1>b, <3>1, <3>2, <3>3
  <2>2. \A p \in Origins \ {o} : Cardinality(Exclusive(p)') <= Cardinality(Exclusive(p))
    BY <1>2, <1>b, <1>c DEF LeasedMore
  <2>3. \A p \in Origins : Cardinality(Exclusive(p)) \in Nat /\ Cardinality(Exclusive(p)') \in Nat
    BY <1>a, <1>b
  <2>4. ~closed /\ ~closed' /\ leased' = [leased EXCEPT ![o] = @ + 1]
    BY <1>2 DEF LeasedMore
  <2>5. \A p \in Origins : Cardinality(Exclusive(p)) <= leased[p]
    BY <2>4 DEF LeasedCovers
  <2>6. \A p \in Origins : Cardinality(Exclusive(p)') <= leased'[p]
    BY <1>0, <2>1, <2>2, <2>3, <2>4, <2>5
  <2> QED BY <2>4, <2>6 DEF LeasedCovers
<1>3. ASSUME NEW t \in Tasks, LeasedLess(t) PROVE LeasedCovers'
  <2> DEFINE o == origin[t]
  <2>0. o \in Origins /\ closed' = closed /\ leased' = [leased EXCEPT ![o] = IF closed THEN @ ELSE @ - 1]
    BY <1>3 DEF LeasedLess, DropLeased
  <2>1. CASE closed
    BY <1>0, <2>0, <2>1 DEF LeasedCovers
  <2>2. CASE ~closed
    <3>1. PICK p \in Origins : p = o
      BY <2>0
    <3>2. Cardinality(Exclusive(p)') <= Cardinality(Exclusive(p)) - 1
      <4>1. IsFiniteSet(Exclusive(p) \ {t}) /\ Cardinality(Exclusive(p) \ {t}) = Cardinality(Exclusive(p)) - 1
        BY <1>3, <1>a, <1>b, <3>1, FS_RemoveElement DEF LeasedLess
      <4>2. Exclusive(p)' \subseteq Exclusive(p) \ {t}
        BY <1>3 DEF LeasedLess
      <4>3. Cardinality(Exclusive(p)') <= Cardinality(Exclusive(p) \ {t})
        BY <1>b, <1>c, <4>2
      <4> QED BY <4>1, <4>3
    <3>3. \A q \in Origins \ {p} : Cardinality(Exclusive(q)') <= Cardinality(Exclusive(q))
      BY <1>3, <1>b, <1>c DEF LeasedLess
    <3>4. \A q \in Origins : Cardinality(Exclusive(q)) \in Nat /\ Cardinality(Exclusive(q)') \in Nat
      BY <1>a, <1>b
    <3>5. leased' = [leased EXCEPT ![p] = @ - 1]
      BY <2>0, <2>2, <3>1
    <3>6. \A q \in Origins : Cardinality(Exclusive(q)) <= leased[q]
      BY <2>2 DEF LeasedCovers
    <3>7. \A q \in Origins : Cardinality(Exclusive(q)') <= leased'[q]
      BY <1>0, <3>2, <3>3, <3>4, <3>5, <3>6
    <3> QED BY <2>0, <2>2, <3>7 DEF LeasedCovers
  <2> QED BY <2>1, <2>2
<1>4. CASE closed' /\ \A o \in Origins : leased'[o] = 0
  BY <1>4 DEF LeasedCovers
<1> QED BY <1>1, <1>2, <1>3, <1>4, LeasedKinds

\* Something of o is in the books, or somebody dials it: _prune_locked keeps the
\* entry, or ought to.
Needed(o) ==
    \/ shared[o] # None \/ idle[o] # {} \/ dialing[o] \/ leased[o] # 0
    \/ \E t \in Tasks : Dialing(t, o)

\* A step that leaves the entry of o, and the dials to it, alone.
EntryKept(o) ==
    /\ mode'[o] = mode[o] /\ shared'[o] = shared[o] /\ idle'[o] = idle[o]
    /\ dialing'[o] = dialing[o] /\ leased'[o] = leased[o]
    /\ \A u \in Tasks : Dialing(u, o) => Dialing(u, o)'

EntriesNeeded == \A o \in Origins : mode[o] # None => Needed(o)

\* What _prune_locked leaves is needed.
LEMMA PrunedNeeded ==
    ASSUME NEW S, NEW o \in Origins, o \in S, mode' = Pruned(S)
    PROVE  mode'[o] = None \/ Needed(o)'
BY DEF Pruned, Needed

\* What an attempt finds at its own origin, no other origin has.
LEMMA OwnApart ==
    ASSUME Types, Apart, ExclusiveUse, NEW p \in Origins, NEW o \in Origins \ {p}
    PROVE  idle[o] \intersect Own(p) = {} /\ (shared[o] # None => shared[o] \notin Own(p))
<1>1. /\ idle[o] \subseteq Conns \ Multiplexed /\ idle[p] \subseteq Conns \ Multiplexed
      /\ shared[o] \in Multiplexed \union {None} /\ shared[p] \in Multiplexed \union {None}
      /\ None \notin Conns
  BY ConnsAssumption DEF Types, TypeOK, BooksTypeOK, Kinds
<1>2. idle[o] \intersect idle[p] = {}
  BY <1>1 DEF ExclusiveUse
<1>3. shared[o] # None => shared[o] # shared[p]
  BY DEF Apart
<1> QED BY <1>1, <1>2, <1>3 DEF Own

\* Removing what an attempt finds at its own origin touches no other entry.
LEMMA RemoveOwn ==
    ASSUME Types, Apart, ExclusiveUse, NEW p \in Origins, NEW gone, gone \subseteq Own(p), Remove(gone),
           NEW o \in Origins \ {p}
    PROVE  shared'[o] = shared[o] /\ idle'[o] = idle[o]
<1>1. None \notin gone /\ idle[o] \intersect gone = {} /\ (shared[o] # None => shared[o] \notin gone)
  BY OwnApart DEF Own
<1> QED BY <1>1 DEF Remove

\* The dials go on while a task that performs none takes a step.
LEMMA DialsGoOn ==
    ASSUME NEW t \in Tasks, Local(t), t \notin Dialers, NEW o
    PROVE  \A u \in Tasks : Dialing(u, o) => Dialing(u, o)'
BY DEF Local, Dialing, Dialers

\* Every step leaves an entry alone, forgets it, or leaves one that is needed.
LEMMA EntryKinds ==
    ASSUME Types, Hands, Apart, ExclusiveUse, LeasedCovers, "close" \notin Interrupts,
           [Next]_vars, ~closed', NEW o \in Origins
    PROVE  EntryKept(o) \/ mode'[o] = None \/ Needed(o)'
<1> DEFINE Goal == EntryKept(o) \/ mode'[o] = None \/ Needed(o)'
<1>0. /\ leased \in [Origins -> Int] /\ shared \in [Origins -> Conns \union {None}]
      /\ idle \in [Origins -> SUBSET Conns] /\ dialing \in [Origins -> BOOLEAN]
      /\ mode \in [Origins -> {None, "h1", "h2"}]
      /\ \A t \in Tasks : pc[t] \in {"dial", "ready", "evict", "hold"} => origin[t] \in Origins
      /\ \A t \in Tasks : then[t] # "idle" => pc[t] = "sweep"
  BY DEF Types, TypeOK, BooksTypeOK, Places
<1>a. \A t \in Tasks : TaskStep(t) => Local(t)
  BY LocalStep
<1>b. ~closed => leased[o] >= 0
  <2>1. \A p \in Origins : Exclusive(p) \subseteq Tasks
    BY DEF Exclusive
  <2>2. Cardinality(Exclusive(o)) \in Nat
    BY <2>1, TasksAssumption, FS_Subset, FS_CardinalityType
  <2> QED BY <1>0, <2>2 DEF LeasedCovers
<1>c. ASSUME UNCHANGED <<mode, shared, idle, dialing, leased>>,
             \A u \in Tasks : Dialing(u, o) => Dialing(u, o)'
      PROVE  EntryKept(o)
  BY <1>c DEF EntryKept
<1>d. ASSUME UNCHANGED <<mode, shared, idle, dialing, leased>>,
             NEW t \in Tasks, Local(t), t \notin Dialers
      PROVE  EntryKept(o)
  BY <1>c, <1>d, DialsGoOn
<1>1. ASSUME NEW t \in Tasks, Local(t), NEW p \in Origins, Attempt(t, p) PROVE Goal
  <2>0. t \notin Dialers
    BY <1>1 DEF Attempt, AttemptClosed, AttemptShared, AttemptIdle, AttemptJoin, AttemptDial, AttemptWait,
                AtAttempt, Dialers, Types, Places
  <2>a. \A u \in Tasks : Dialing(u, o) => Dialing(u, o)'
    BY <1>1, <2>0, DialsGoOn
  <2>1. CASE AttemptClosed(t, p) \/ AttemptShared(t, p)
    BY <1>c, <2>a, <2>1 DEF AttemptClosed, AttemptShared, books
  <2>2. CASE AttemptIdle(t, p)
    <3>1. PICK c \in Conns, gone \in SUBSET Conns : Taken(t, p, c, gone)
      BY <2>2, TakesIdle
    <3>2. CASE o = p
      <4>1. leased'[o] = leased[o] + 1 /\ ~closed
        BY <1>0, <3>1, <3>2 DEF Taken
      <4> QED BY <1>0, <1>b, <4>1 DEF Needed
    <3>3. CASE o # p
      <4>1. gone \union {c} \subseteq Own(p) /\ Remove(gone \union {c})
        BY <3>1, ConnsAssumption DEF Taken, Own
      <4>2. shared'[o] = shared[o] /\ idle'[o] = idle[o]
        BY <3>3, <4>1, RemoveOwn
      <4>3. mode'[o] = mode[o] /\ dialing'[o] = dialing[o] /\ leased'[o] = leased[o]
        BY <1>0, <3>1, <3>3 DEF Taken
      <4> QED BY <2>a, <4>2, <4>3 DEF EntryKept
    <3> QED BY <3>2, <3>3
  <2>3. CASE AttemptJoin(t, p)
    <3>1. dialing[p] /\ Remove(Own(p)) /\ UNCHANGED <<mode, dialing, leased>>
      BY <2>3 DEF AttemptJoin, Coalesces
    <3>2. CASE o = p
      BY <3>1, <3>2 DEF Needed
    <3>3. CASE o # p
      BY <2>a, <3>1, <3>3, RemoveOwn DEF EntryKept
    <3> QED BY <3>2, <3>3
  <2>4. CASE AttemptDial(t, p)
    <3>1. PICK gone \in Culls(p) : Remove(gone) /\ CloseAll(t, gone, "dial")
      BY <2>4 DEF AttemptDial
    <3>2. CASE o = p
      <4>1. t \in Dialers' /\ origin'[t] = p
        BY <2>4, <3>1 DEF AttemptDial, CloseAll, Sweeping, Dialers, Types, TypeOK, TasksTypeOK
      <4> QED BY <3>2, <4>1 DEF Needed, Dialing
    <3>3. CASE o # p /\ AtCap(p)
      <4>1. mode' = Pruned(Origins \ {p})
        BY <2>4, <3>3 DEF AttemptDial
      <4>2. o \in Origins \ {p}
        BY <3>3
      <4> QED BY <4>1, <4>2, PrunedNeeded
    <3>4. CASE o # p /\ ~AtCap(p)
      <4>1. gone = Own(p) /\ mode' = Pruned({})
        BY <2>4, <3>4 DEF AttemptDial, Culls
      <4>2. mode'[o] = mode[o]
        BY <4>1 DEF Pruned
      <4>3. dialing'[o] = dialing[o] /\ leased' = leased
        BY <1>0, <2>4, <3>4 DEF AttemptDial
      <4>4. shared'[o] = shared[o] /\ idle'[o] = idle[o]
        BY <3>1, <3>4, <4>1, RemoveOwn
      <4> QED BY <2>a, <4>2, <4>3, <4>4 DEF EntryKept
    <3> QED BY <3>2, <3>3, <3>4
  <2>5. CASE AttemptWait(t, p)
    <3>1. mode' = Pruned(Origins)
      BY <2>5 DEF AttemptWait
    <3> QED BY <3>1, PrunedNeeded
  <2> QED BY <1>1, <2>1, <2>2, <2>3, <2>4, <2>5 DEF Attempt
<1>2. ASSUME NEW t \in Tasks, Local(t), Sweep(t) PROVE Goal
  <2>1. \A u \in Tasks : Dialing(u, o) => Dialing(u, o)'
    BY <1>2 DEF Sweep, Local, Dialing, Dialers, Types, TypeOK, TasksTypeOK
  <2> QED BY <1>2, <1>c, <2>1 DEF Sweep, books
<1>3. ASSUME NEW t \in Tasks, Local(t), DialOk(t) PROVE Goal
  <2>1. PICK c \in Conns : pc[t] = "dial" /\ IF closed THEN Refuse(t, c) ELSE Install(t, c)
    BY <1>3 DEF DialOk
  <2>2. ~closed
    BY <2>1 DEF Refuse, books
  <2>3. Install(t, c)
    BY <2>1, <2>2
  <2>4. CASE o = origin[t]
    <3>1. CASE InstallH2(t, c)
      BY <1>0, <2>4, <3>1, ConnsAssumption DEF InstallH2, Needed
    <3>2. CASE InstallH1(t, c)
      <4>1. leased'[o] = leased[o] + 1
        BY <1>0, <2>4, <3>2 DEF InstallH1
      <4> QED BY <1>0, <1>b, <2>2, <4>1 DEF Needed
    <3> QED BY <2>3, <3>1, <3>2 DEF Install
  <2>5. CASE o # origin[t]
    <3>1. mode'[o] = mode[o] /\ shared'[o] = shared[o] /\ leased'[o] = leased[o]
      BY <1>0, <2>3, <2>5 DEF Install, InstallH1, InstallH2
    <3>2. idle' = idle /\ dialing'[o] = dialing[o]
      BY <1>0, <2>3, <2>5 DEF Install, SignalDial
    <3>3. \A u \in Tasks : Dialing(u, o) => Dialing(u, o)'
      BY <1>3, <2>5 DEF Local, Dialing, Dialers
    <3> QED BY <3>1, <3>2, <3>3 DEF EntryKept
  <2> QED BY <2>4, <2>5
<1>4. ASSUME NEW t \in Tasks, Local(t), DialFail(t) PROVE Goal
  <2>1. mode' = Pruned({origin[t]}) /\ UNCHANGED <<shared, idle, leased>> /\ SignalDial(origin[t])
    BY <1>4 DEF DialFail
  <2>2. CASE o = origin[t]
    BY <2>1, <2>2, PrunedNeeded
  <2>3. CASE o # origin[t]
    <3>1. mode'[o] = mode[o] /\ dialing'[o] = dialing[o]
      BY <1>0, <2>1, <2>3 DEF Pruned, SignalDial
    <3>2. \A u \in Tasks : Dialing(u, o) => Dialing(u, o)'
      BY <1>4, <2>3 DEF Local, Dialing, Dialers
    <3> QED BY <2>1, <3>1, <3>2 DEF EntryKept
  <2> QED BY <2>2, <2>3
<1>5. ASSUME NEW t \in Tasks, Local(t), Evict(t) PROVE Goal
  <2>0. t \notin Dialers
    BY <1>5 DEF Evict, Dialers
  <2>1. CASE ~IsShared(t)
    BY <1>5, <1>d, <2>0, <2>1 DEF Evict
  <2>2. CASE IsShared(t)
    <3>1. /\ mode' = Pruned({origin[t]}) /\ Remove({conn[t]}) /\ UNCHANGED <<dialing, leased>>
          /\ origin[t] \in Origins /\ conn[t] = shared[origin[t]] /\ conn[t] \in Multiplexed
      BY <1>0, <1>5, <2>2 DEF Evict, IsShared, Types, Places
    <3>2. CASE o = origin[t]
      BY <3>1, <3>2, PrunedNeeded
    <3>3. CASE o # origin[t]
      <4>1. {conn[t]} \subseteq Own(origin[t])
        BY <3>1, ConnsAssumption, ProtocolAssumption DEF Own
      <4>2. shared'[o] = shared[o] /\ idle'[o] = idle[o]
        BY <3>1, <3>3, <4>1, RemoveOwn
      <4>3. mode'[o] = mode[o]
        BY <3>1, <3>3 DEF Pruned
      <4> QED BY <1>5, <2>0, <3>1, <4>2, <4>3, DialsGoOn DEF EntryKept
    <3> QED BY <3>2, <3>3
  <2> QED BY <2>1, <2>2
<1>6. ASSUME NEW t \in Tasks, Local(t),
             \/ CloseRefused(t) \/ ReadyOk(t) \/ ReadyFail(t) \/ ReadyGiveUp(t) \/ WaitWake(t) \/ WaitGiveUp(t)
      PROVE  Goal
  <2>1. t \notin Dialers
    BY <1>6 DEF CloseRefused, ReadyOk, ReadyFail, ReadyGiveUp, WaitWake, WaitGiveUp, Dialers
  <2>2. UNCHANGED <<mode, shared, idle, dialing, leased>>
    BY <1>6 DEF CloseRefused, ReadyOk, ReadyFail, ReadyGiveUp, WaitWake, WaitGiveUp, books
  <2> QED BY <1>6, <1>d, <2>1, <2>2
<1>7. ASSUME NEW t \in Tasks, Local(t), NEW d \in BOOLEAN, Release(t, d) PROVE Goal
  <2>0. t \notin Dialers /\ origin[t] \in Origins
    BY <1>0, <1>7 DEF Release, Dialers
  <2>a. \A u \in Tasks : Dialing(u, o) => Dialing(u, o)'
    BY <1>7, <2>0, DialsGoOn
  <2>1. CASE ReleaseShared(t)
    BY <1>c, <2>a, <2>1 DEF ReleaseShared
  <2>2. CASE Park(t)
    <3> DEFINE over == Overflow(Parked \union {conn[t]}, older \union (Spare \X {conn[t]}))
               parks(p) == idle[p] \union (IF p = origin[t] THEN {conn[t]} ELSE {})
    <3>1. /\ idle' = [p \in Origins |-> parks(p) \ over]
          /\ mode' = Pruned({p \in Origins : parks(p) \intersect over # {}})
          /\ DropLeased(origin[t]) /\ UNCHANGED <<shared, dialing>>
      BY <2>2 DEF Park
    <3> HIDE DEF over
    <3>2. CASE parks(o) \intersect over # {}
      BY <3>1, <3>2, PrunedNeeded
    <3>3. CASE parks(o) \intersect over = {} /\ o = origin[t]
      <4>1. conn[t] \in idle'[o]
        BY <3>1, <3>3
      <4> QED BY <4>1 DEF Needed
    <3>4. CASE parks(o) \intersect over = {} /\ o # origin[t]
      <4>1. idle'[o] = idle[o]
        BY <1>0, <3>1, <3>4
      <4>2. mode'[o] = mode[o]
        BY <3>1, <3>4 DEF Pruned
      <4>3. leased'[o] = leased[o]
        BY <1>0, <3>1, <3>4 DEF DropLeased
      <4> QED BY <2>a, <3>1, <4>1, <4>2, <4>3 DEF EntryKept
    <3> QED BY <3>2, <3>3, <3>4
  <2>3. CASE Discard(t)
    <3>1. mode' = Pruned({origin[t]}) /\ DropLeased(origin[t]) /\ UNCHANGED <<shared, idle, dialing>>
      BY <2>3 DEF Discard
    <3>2. CASE o = origin[t]
      BY <3>1, <3>2, PrunedNeeded
    <3>3. CASE o # origin[t]
      <4>1. mode'[o] = mode[o] /\ leased'[o] = leased[o]
        BY <1>0, <3>1, <3>3 DEF Pruned, DropLeased
      <4> QED BY <2>a, <3>1, <4>1 DEF EntryKept
    <3> QED BY <3>2, <3>3
  <2> QED BY <1>7, <2>1, <2>2, <2>3 DEF Release, ReleaseExclusive
<1>8. ASSUME NEW t \in Tasks, SweepCut(t) \/ ClosePool(t) PROVE FALSE
  BY <1>8 DEF SweepCut, ClosePool
<1>9. CASE UNCHANGED <<books, places>>
  BY <1>9, <1>c DEF books, places, Dialing, Dialers
<1>10. CASE EnvStep
  BY <1>9, <1>10 DEF EnvStep, Break, Expire
<1>11. ASSUME NEW t \in Tasks, TaskStep(t) PROVE Goal
  BY <1>a, <1>1, <1>2, <1>3, <1>4, <1>5, <1>6, <1>7, <1>8, <1>11 DEF TaskStep
<1> QED BY <1>9, <1>10, <1>11 DEF Next, vars

EntriesInv == SharingInv /\ DialsInv /\ ExclusiveUse /\ LeasedCovers /\ EntriesNeeded

\* Every step keeps the entries needed.
LEMMA EntriesStep ==
    ASSUME "close" \notin Interrupts, EntriesInv, [Next]_vars
    PROVE  EntriesInv'
<1>1. SharingInv' /\ DialsInv' /\ ExclusiveUse' /\ LeasedCovers'
  BY SharingStep, DialsStep, ExclusiveStep, LeasedStep DEF EntriesInv, SharingInv
<1>2. ASSUME NEW o \in Origins, mode'[o] # None PROVE Needed(o)'
  <2>1. ~closed'
    BY <1>1, <1>2 DEF DialsInv, ClosedBooks
  <2>2. EntryKept(o) \/ Needed(o)'
    BY <1>2, <2>1, EntryKinds DEF EntriesInv, SharingInv
  <2>3. CASE EntryKept(o)
    <3>1. Needed(o)
      BY <1>2, <2>3 DEF EntryKept, EntriesInv, EntriesNeeded
    <3> QED BY <2>3, <3>1 DEF EntryKept, Needed
  <2> QED BY <2>2, <2>3
<1> QED BY <1>1, <1>2 DEF EntriesInv, EntriesNeeded

\* No entry, and no caller with a connection, in an initial state.
LEMMA InitEntries == Init => EntriesInv
<1> SUFFICES ASSUME Init PROVE EntriesInv
  OBVIOUS
<1>1. SharingInv /\ DialsInv
  BY InitSharing, InitDials
<1>2. ExclusiveUse
  BY ConnsAssumption DEF Init, ExclusiveUse, Held, Parked
<1>3. LeasedCovers
  <2>1. \A o \in Origins : Exclusive(o) = {} /\ leased[o] = 0
    BY ConnsAssumption DEF Init, Exclusive
  <2> QED BY <2>1, FS_EmptySet DEF LeasedCovers
<1>4. EntriesNeeded
  BY DEF Init, EntriesNeeded
<1> QED BY <1>1, <1>2, <1>3, <1>4 DEF EntriesInv

\* host.leased never falls below the callers that hold an h1 connection of the
\* origin, and is a count.
LEMMA LeasedCounts ==
    ASSUME Types, LeasedCovers, NEW o \in Origins
    PROVE  leased[o] \in Int /\ leased[o] >= 0
<1>1. leased[o] \in Int
  BY DEF Types, TypeOK, BooksTypeOK
<1>2. Cardinality(Exclusive(o)) \in Nat
  BY TasksAssumption, FS_Subset, FS_CardinalityType DEF Exclusive
<1> QED BY <1>1, <1>2 DEF LeasedCovers

\* Whatever is dialed, parked, evicted, reclaimed or abandoned, an origin keeps an
\* entry only for a connection or a dial, if no cancellation hits a task while it
\* closes connections.
THEOREM EntriesJustifiedHolds ==
    ASSUME "close" \notin Interrupts
    PROVE  Spec => []EntriesJustified
<1>1. EntriesInv => EntriesJustified
  <2> SUFFICES ASSUME EntriesInv, NEW o \in Origins, mode[o] # None
               PROVE  \/ shared[o] # None \/ idle[o] # {} \/ leased[o] > 0
                      \/ \E t \in Tasks : Dialing(t, o)
    BY DEF EntriesJustified
  <2>1. Needed(o)
    BY DEF EntriesInv, EntriesNeeded
  <2>2. dialing[o] => \E t \in Tasks : Dialing(t, o)
    BY DEF EntriesInv, DialsInv, AnnouncedPerformed
  <2>3. leased[o] \in Int /\ leased[o] >= 0
    BY LeasedCounts DEF EntriesInv, SharingInv
  <2> QED BY <2>1, <2>2, <2>3 DEF Needed
<1>2. EntriesInv /\ [Next]_vars => EntriesInv'
  BY EntriesStep
<1> QED BY InitEntries, <1>1, <1>2, PTL DEF Spec
-----------------------------------------------------------------------------

(***************************************************************************)
(* The count, and what leaves the books.                                   *)
(***************************************************************************)

\* What tasks are about to close.
Leaving == UNION {closing[t] : t \in Tasks}

\* `gone` leaves the books for a task that closes it.
TakenOff(gone) ==
    /\ gone \subseteq Counted /\ Counted' = Counted \ gone
    /\ gone \subseteq Leaving'

\* The kinds of step.  Once the pool is closed it keeps no count any more.
SlotsFreed(gone) ==
    /\ TakenOff(gone) /\ Dialers' = Dialers
    /\ ~closed' => ~closed /\ count' = count - Cardinality(gone)

DialBegun(t, gone) ==
    /\ TakenOff(gone) /\ t \notin Dialers /\ Dialers' = Dialers \union {t}
    /\ ~closed' => ~closed /\ count' = count - Cardinality(gone) + 1

DialInstalled(t, c) ==
    /\ c \notin Counted /\ Counted' = Counted \union {c}
    /\ t \in Dialers /\ Dialers' = Dialers \ {t}
    /\ ~closed' => ~closed /\ count' = count

DialAbandoned(t) ==
    /\ Counted' = Counted
    /\ t \in Dialers /\ Dialers' = Dialers \ {t}
    /\ ~closed' => ~closed /\ count' = count - 1

\* Nobody is handed an h1 connection, or hands one back.
LEMMA HeldKept ==
    ASSUME Types, NEW t \in Tasks, Local(t),
           conn[t] \in Multiplexed \union {None}, conn'[t] \in Multiplexed \union {None}
    PROVE  Held' = Held
<1>1. \A c : c \in Held <=> \E u \in Tasks : conn[u] = c /\ c \notin Multiplexed \union {None}
  BY DEF Held
<1>2. \A c : c \in Held' <=> \E u \in Tasks : conn'[u] = c /\ c \notin Multiplexed \union {None}
  BY DEF Held
<1>3. \A c : c \in Held' <=> c \in Held
  BY <1>1, <1>2 DEF Local
<1> QED BY <1>3

\* A step of a task that starts or ends no dial.
LEMMA DialersKept ==
    ASSUME NEW t \in Tasks, Local(t), t \in Dialers' <=> t \in Dialers
    PROVE  Dialers' = Dialers
BY DEF Local, Dialers

\* What is removed from the books is counted no more, and all the rest is.
LEMMA RemovedExactly ==
    ASSUME Types, ExclusiveUse, NEW gone \in SUBSET (Parked \union SharedSet),
           Remove(gone), Held' = Held
    PROVE  gone \subseteq Counted /\ Counted' = Counted \ gone
<1>1. Parked' = Parked \ gone
  BY DEF Remove, Parked
<1>2. SharedSet' = SharedSet \ gone
  BY DEF Remove, SharedSet
<1>3. Held \intersect gone = {}
  BY ConnsAssumption, ProtocolAssumption DEF Types, Kinds, TypeOK, TasksTypeOK, ExclusiveUse, Held, SharedSet
<1> QED BY <1>1, <1>2, <1>3 DEF Counted

\* What _close_all is given, the task is about to close.
LEMMA CloseAllLeaves ==
    ASSUME Types, NEW t \in Tasks, NEW gone, NEW next, CloseAll(t, gone, next)
    PROVE  gone \subseteq Leaving'
<1>1. gone \subseteq closing'[t]
  BY DEF CloseAll, Sweeping, Types, TypeOK, TasksTypeOK
<1> QED BY <1>1 DEF Leaving

\* A step that changes neither the books, nor who holds what, nor who dials.
LEMMA NothingCounted ==
    ASSUME Types, UNCHANGED <<idle, shared, count, closed>>, Held' = Held, Dialers' = Dialers
    PROVE  SlotsFreed({})
<1>1. Counted' = Counted
  BY DEF Counted, Parked, SharedSet
<1>2. count - Cardinality({}) = count
  BY FS_EmptySet DEF Types, TypeOK, BooksTypeOK
<1> QED BY <1>1, <1>2 DEF SlotsFreed, TakenOff

\* Every step of the pool is of one of the kinds.
LEMMA CountKinds ==
    ASSUME Types, Hands, ExclusiveUse, DialsInv, Unmixed, "close" \notin Interrupts, [Next]_vars
    PROVE  \/ \E gone \in SUBSET Conns : SlotsFreed(gone)
           \/ \E t \in Tasks, gone \in SUBSET Conns : DialBegun(t, gone)
           \/ \E t \in Tasks, c \in Conns : DialInstalled(t, c)
           \/ \E t \in Tasks : DialAbandoned(t)
<1> DEFINE Freed == \E gone \in SUBSET Conns : SlotsFreed(gone)
<1>0. /\ TypeOK /\ None \notin Conns /\ Multiplexed \subseteq Conns
      /\ pc \in [Tasks -> {"idle", "attempt", "sweep", "dial", "refused", "ready", "evict", "wait", "hold"}]
      /\ then \in [Tasks -> {"idle", "attempt", "hold", "dial", "wait"}]
      /\ conn \in [Tasks -> Conns \union {None}] /\ closing \in [Tasks -> SUBSET Conns]
      /\ shared \in [Origins -> Conns \union {None}]
      /\ count \in Int
      /\ \A o \in Origins : shared[o] \in Multiplexed \union {None}
      /\ \A t \in Tasks : pc[t] \notin {"hold", "sweep"} => conn[t] \in Multiplexed \union {None}
      /\ \A t \in Tasks : then[t] # "hold" /\ pc[t] # "hold" => conn[t] \in Multiplexed \union {None}
      /\ \A t \in Tasks : then[t] # "idle" => pc[t] = "sweep"
      /\ \A t \in Tasks : pc[t] \in {"dial", "hold"} => origin[t] \in Origins
  BY ConnsAssumption, ProtocolAssumption DEF Types, TypeOK, BooksTypeOK, TasksTypeOK, Places, Kinds, Hands
<1>a. \A t \in Tasks : TaskStep(t) => Local(t)
  BY LocalStep
<1>b. SlotsFreed({}) => Freed
  OBVIOUS
<1> HIDE DEF Freed
<1>c. \A S \in SUBSET Conns : SlotsFreed(S) => Freed
  BY DEF Freed
<1> USE <1>0 DEF books
<1>1. ASSUME NEW t \in Tasks, Local(t), NEW o \in Origins, AttemptClosed(t, o) \/ AttemptShared(t, o)
      PROVE  Freed
  <2>1. conn[t] \in Multiplexed \union {None} /\ conn'[t] \in Multiplexed \union {None}
    BY <1>1 DEF AttemptClosed, AttemptShared, AtAttempt, Leave
  <2>2. Held' = Held
    BY <1>1, <2>1, HeldKept
  <2>3. t \notin Dialers /\ t \notin Dialers'
    BY <1>1 DEF AttemptClosed, AttemptShared, AtAttempt, Leave, Dialers
  <2>4. UNCHANGED <<idle, shared, count, closed>>
    BY <1>1 DEF AttemptClosed, AttemptShared
  <2> QED BY <1>1, <1>b, <2>2, <2>3, <2>4, DialersKept, NothingCounted
<1>2. ASSUME NEW t \in Tasks, Local(t), NEW o \in Origins, AttemptIdle(t, o) PROVE Freed
  <2>1. PICK c \in Conns, gone \in SUBSET Conns : Taken(t, o, c, gone)
    BY <1>2, TakesIdle
  <2>2. /\ Remove(gone \union {c}) /\ conn' = [conn EXCEPT ![t] = c] /\ CloseAll(t, gone, "hold")
        /\ ~closed /\ closed' = closed /\ count' = count - Cardinality(gone)
        /\ gone \subseteq Own(o) \ {c} /\ c \in idle[o] \ Multiplexed
        /\ pc[t] \in {"idle", "attempt"}
    BY <2>1 DEF Taken
  <2>3. gone \subseteq Parked \union SharedSet /\ c \in Parked /\ c \notin gone
    BY <2>2, OwnType DEF Parked
  <2>4. Parked' = Parked \ (gone \union {c})
    BY <2>2 DEF Remove, Parked
  <2>5. SharedSet' = SharedSet \ gone
    BY <2>2 DEF Remove, SharedSet
  <2>6. Held' = Held \union {c}
    <3>1. \A d : d \in Held <=> \E u \in Tasks : conn[u] = d /\ d \notin Multiplexed \union {None}
      BY DEF Held
    <3>2. \A d : d \in Held' <=> \E u \in Tasks : conn'[u] = d /\ d \notin Multiplexed \union {None}
      BY DEF Held
    <3>3. \A d : d \in Held' <=> d \in Held \/ d = c
      BY <2>2, <3>1, <3>2
    <3> QED BY <3>3
  <2>7. Held \intersect gone = {}
    BY <2>3 DEF ExclusiveUse, Held, SharedSet
  <2>8. gone \subseteq Counted /\ Counted' = Counted \ gone
    BY <2>3, <2>4, <2>5, <2>6, <2>7 DEF Counted
  <2>9. gone \subseteq Leaving'
    BY <2>2, CloseAllLeaves
  <2>10. t \notin Dialers /\ t \notin Dialers'
    BY <2>2 DEF CloseAll, Sweeping, Dialers
  <2>11. SlotsFreed(gone)
    BY <1>2, <2>2, <2>8, <2>9, <2>10, DialersKept DEF SlotsFreed, TakenOff
  <2> QED BY <1>c, <2>11
<1>3. ASSUME NEW t \in Tasks, Local(t), NEW o \in Origins, AttemptJoin(t, o) \/ AttemptWait(t, o)
      PROVE  Freed
  <2>1. /\ Remove(Own(o)) /\ CloseAll(t, Own(o), "wait") /\ pc[t] \in {"idle", "attempt"}
        /\ count' = count - Cardinality(Own(o)) /\ ~closed /\ closed' = closed /\ conn' = conn
    BY <1>3 DEF AttemptJoin, AttemptWait, AtAttempt
  <2>2. Own(o) \subseteq Parked \union SharedSet /\ Own(o) \subseteq Conns /\ Held' = Held
    BY <2>1, OwnType DEF Held
  <2>3. TakenOff(Own(o))
    BY <2>1, <2>2, RemovedExactly, CloseAllLeaves DEF TakenOff
  <2>4. t \notin Dialers /\ t \notin Dialers'
    BY <2>1 DEF CloseAll, Sweeping, Dialers
  <2>5. SlotsFreed(Own(o))
    BY <1>3, <2>1, <2>3, <2>4, DialersKept DEF SlotsFreed
  <2> QED BY <1>c, <2>2, <2>5
<1>4. ASSUME NEW t \in Tasks, Local(t), NEW o \in Origins, AttemptDial(t, o)
      PROVE  \E gone \in SUBSET Conns : DialBegun(t, gone)
  <2>1. PICK gone \in Culls(o) :
          Remove(gone) /\ CloseAll(t, gone, "dial") /\ count' = count - Cardinality(gone) + 1
    BY <1>4 DEF AttemptDial
  <2>2. pc[t] \in {"idle", "attempt"} /\ ~closed /\ closed' = closed /\ conn' = conn
    BY <1>4 DEF AttemptDial, AtAttempt
  <2>3. gone \subseteq Parked \union SharedSet /\ gone \in SUBSET Conns /\ Held' = Held
    BY <2>2, CullsType DEF Held
  <2>4. TakenOff(gone)
    BY <2>1, <2>3, RemovedExactly, CloseAllLeaves DEF TakenOff
  <2>5. t \notin Dialers /\ t \in Dialers'
    BY <2>1, <2>2 DEF CloseAll, Sweeping, Dialers
  <2>6. Dialers' = Dialers \union {t}
    BY <1>4, <2>5 DEF Local, Dialers
  <2> QED BY <2>1, <2>2, <2>3, <2>4, <2>5, <2>6 DEF DialBegun
<1>5. ASSUME NEW t \in Tasks, Local(t), Sweep(t) PROVE Freed
  <2>1. conn'[t] = conn[t] \/ (conn[t] \in Multiplexed \union {None} /\ conn'[t] = None)
    BY <1>5 DEF Sweep, Leave
  <2>2. Held' = Held
    <3>1. CASE conn'[t] = conn[t]
      BY <1>5, <3>1 DEF Local, Held
    <3>2. CASE conn[t] \in Multiplexed \union {None} /\ conn'[t] = None
      BY <1>5, <3>2, HeldKept
    <3> QED BY <2>1, <3>1, <3>2
  <2>3. t \in Dialers' <=> t \in Dialers
    BY <1>5 DEF Sweep, Leave, Dialers
  <2>4. UNCHANGED <<idle, shared, count, closed>>
    BY <1>5 DEF Sweep
  <2> QED BY <1>5, <1>b, <2>2, <2>3, <2>4, DialersKept, NothingCounted
<1>6. ASSUME NEW t \in Tasks, Local(t), DialOk(t)
      PROVE  DialAbandoned(t) \/ \E c \in Conns : DialInstalled(t, c)
  <2>1. PICK c \in Conns : /\ Fresh(c) /\ Proto(c) \in Protocols[origin[t]] /\ pc[t] = "dial"
                           /\ IF closed THEN Refuse(t, c) ELSE Install(t, c)
    BY <1>6 DEF DialOk
  <2>2. t \in Dialers /\ t \notin Dialers'
    BY <2>1 DEF Refuse, Install, Dialers
  <2>3. Dialers' = Dialers \ {t}
    BY <1>6, <2>2 DEF Local, Dialers
  <2>4. c \notin Counted /\ c # None
    BY <2>1 DEF Fresh, Counted, Held
  <2>5. CASE closed
    <3>1. UNCHANGED <<idle, shared, conn, closed>>
      BY <2>1, <2>5 DEF Refuse
    <3>2. Counted' = Counted
      BY <3>1 DEF Counted, Parked, SharedSet, Held
    <3> QED BY <2>2, <2>3, <2>5, <3>1, <3>2 DEF DialAbandoned
  <2>6. CASE ~closed /\ InstallH2(t, c)
    <3>1. /\ c \in Multiplexed /\ shared' = [shared EXCEPT ![origin[t]] = c]
          /\ UNCHANGED <<idle, count, closed>> /\ conn'[t] = c
      BY <2>1, <2>6 DEF Install, InstallH2
    <3>2. shared[origin[t]] = None /\ origin[t] \in Origins
      BY <2>1, <2>6, ReplacesNothing
    <3>3. SharedSet' = SharedSet \union {c}
      BY <2>4, <3>1, <3>2 DEF SharedSet
    <3>4. Held' = Held /\ Parked' = Parked
      BY <1>6, <2>1, <3>1, HeldKept DEF Parked
    <3>5. Counted' = Counted \union {c}
      BY <3>3, <3>4 DEF Counted
    <3>6. DialInstalled(t, c)
      BY <2>2, <2>3, <2>4, <2>6, <3>1, <3>5 DEF DialInstalled
    <3> QED BY <3>6
  <2>7. CASE ~closed /\ InstallH1(t, c)
    <3>1. c \notin Multiplexed /\ UNCHANGED <<shared, idle, count, closed>> /\ conn' = [conn EXCEPT ![t] = c]
      BY <2>1, <2>7 DEF Install, InstallH1
    <3>2. Held' = Held \union {c}
      <4>1. \A d : d \in Held <=> \E u \in Tasks : conn[u] = d /\ d \notin Multiplexed \union {None}
        BY DEF Held
      <4>2. \A d : d \in Held' <=> \E u \in Tasks : conn'[u] = d /\ d \notin Multiplexed \union {None}
        BY DEF Held
      <4>3. \A d : d \in Held' <=> d \in Held \/ d = c
        BY <2>1, <3>1, <4>1, <4>2
      <4> QED BY <4>3
    <3>3. Counted' = Counted \union {c}
      BY <3>1, <3>2 DEF Counted, Parked, SharedSet
    <3>4. DialInstalled(t, c)
      BY <2>2, <2>3, <2>4, <2>7, <3>1, <3>3 DEF DialInstalled
    <3> QED BY <3>4
  <2> QED BY <2>1, <2>5, <2>6, <2>7 DEF Install
<1>7. ASSUME NEW t \in Tasks, Local(t), DialFail(t) PROVE DialAbandoned(t)
  <2>1. UNCHANGED <<idle, shared, conn, closed>> /\ count' = count - 1
    BY <1>7 DEF DialFail
  <2>2. t \in Dialers /\ t \notin Dialers'
    BY <1>7 DEF DialFail, Sweeping, Dialers
  <2>3. Dialers' = Dialers \ {t}
    BY <1>7, <2>2 DEF Local, Dialers
  <2>4. Counted' = Counted
    BY <2>1 DEF Counted, Parked, SharedSet, Held
  <2> QED BY <2>1, <2>2, <2>3, <2>4 DEF DialAbandoned
<1>8. ASSUME NEW t \in Tasks, Local(t),
             \/ CloseRefused(t) \/ ReadyOk(t) \/ ReadyFail(t) \/ ReadyGiveUp(t) \/ WaitWake(t) \/ WaitGiveUp(t)
      PROVE  Freed
  <2>1. conn[t] \in Multiplexed \union {None} /\ conn'[t] \in {conn[t], None}
    BY <1>8 DEF CloseRefused, ReadyOk, ReadyFail, ReadyGiveUp, WaitWake, WaitGiveUp, Leave
  <2>2. Held' = Held
    BY <1>8, <2>1, HeldKept
  <2>3. t \notin Dialers /\ t \notin Dialers'
    BY <1>8 DEF CloseRefused, ReadyOk, ReadyFail, ReadyGiveUp, WaitWake, WaitGiveUp, Leave, Dialers
  <2>4. UNCHANGED <<idle, shared, count, closed>>
    BY <1>8 DEF CloseRefused, ReadyOk, ReadyFail, ReadyGiveUp, WaitWake, WaitGiveUp
  <2> QED BY <1>8, <1>b, <2>2, <2>3, <2>4, DialersKept, NothingCounted
<1>9. ASSUME NEW t \in Tasks, Local(t), Evict(t) PROVE Freed
  <2>1. conn[t] \in Multiplexed /\ conn'[t] = None /\ closed' = closed
    BY <1>9 DEF Evict, Types, Places
  <2>2. Held' = Held
    BY <1>9, <2>1, HeldKept
  <2>3. t \notin Dialers /\ t \notin Dialers'
    BY <1>9 DEF Evict, Sweeping, Dialers
  <2>4. CASE ~IsShared(t)
    BY <1>9, <1>b, <2>2, <2>3, <2>4, DialersKept, NothingCounted DEF Evict
  <2>5. CASE IsShared(t)
    <3>1. Remove({conn[t]}) /\ count' = count - 1 /\ closing'[t] = {conn[t]}
      BY <1>9, <2>5 DEF Evict, Sweeping
    <3>2. {conn[t]} \in SUBSET (Parked \union SharedSet)
      BY <1>9, <2>1, <2>5 DEF Evict, IsShared, SharedSet, Types, Places
    <3>3. TakenOff({conn[t]})
      BY <2>2, <3>1, <3>2, RemovedExactly DEF TakenOff, Leaving
    <3>4. count' = count - Cardinality({conn[t]})
      BY <3>1, FS_Singleton
    <3>5. SlotsFreed({conn[t]})
      BY <1>9, <2>1, <2>3, <3>3, <3>4, DialersKept DEF SlotsFreed
    <3> QED BY <1>c, <2>1, <3>5
  <2> QED BY <2>4, <2>5
<1>10. ASSUME NEW t \in Tasks, Local(t), NEW d \in BOOLEAN, Release(t, d) PROVE Freed
  <2>0. t \notin Dialers /\ t \notin Dialers'
    BY <1>10 DEF Release, ReleaseShared, ReleaseExclusive, Park, Discard, Sweeping, Leave, Dialers
  <2>1. CASE ReleaseShared(t)
    <3>1. conn[t] \in Multiplexed /\ conn'[t] \in {conn[t], None} /\ UNCHANGED <<idle, shared, count, closed>>
      BY <2>1 DEF ReleaseShared, Leave
    <3>2. Held' = Held
      BY <1>10, <3>1, HeldKept
    <3> QED BY <1>10, <1>b, <2>0, <3>1, <3>2, DialersKept, NothingCounted
  <2>2. CASE ReleaseExclusive(t, d)
    <3>1. PICK c \in Conns \ Multiplexed : c = conn[t]
      BY <1>10, <2>2 DEF Release, ReleaseExclusive, Types, Places
    <3>2. c \in Held /\ c \notin Parked /\ c \notin SharedSet /\ \A u \in Tasks \ {t} : conn[u] # c
      BY <3>1 DEF Held, ExclusiveUse, SharedSet
    <3>3. conn' = [conn EXCEPT ![t] = None] /\ origin[t] \in Origins
      BY <1>10, <2>2 DEF Release, ReleaseExclusive
    <3>4. Held' = Held \ {c}
      <4>1. \A e : e \in Held <=> \E u \in Tasks : conn[u] = e /\ e \notin Multiplexed \union {None}
        BY DEF Held
      <4>2. \A e : e \in Held' <=> \E u \in Tasks : conn'[u] = e /\ e \notin Multiplexed \union {None}
        BY DEF Held
      <4>3. \A e : e \in Held' <=> e \in Held /\ e # c
        BY <3>1, <3>2, <3>3, <4>1, <4>2
      <4> QED BY <4>3
    <3>5. CASE Park(t)
      <4> DEFINE over == Overflow(Parked \union {c}, older \union (Spare \X {c}))
      <4>1. over \subseteq Parked \union {c}
        BY DEF Overflow
      <4>2. /\ idle' = [p \in Origins |-> (idle[p] \union (IF p = origin[t] THEN {c} ELSE {})) \ over]
            /\ shared' = shared /\ closed' = closed /\ count' = count - Cardinality(over)
            /\ closing'[t] = over
        BY <3>1, <3>5 DEF Park, Sweeping
      <4> HIDE DEF over
      <4>3. Parked' = (Parked \union {c}) \ over /\ SharedSet' = SharedSet
        BY <3>3, <4>2 DEF Parked, SharedSet
      <4>4. Held' \intersect over = {} /\ SharedSet \intersect over = {}
        BY <3>2, <3>4, <4>1 DEF ExclusiveUse, Held, Parked, SharedSet, Types, Kinds
      <4>5. over \subseteq Counted /\ Counted' = Counted \ over
        BY <3>2, <3>4, <4>1, <4>3, <4>4 DEF Counted
      <4>6. over \in SUBSET Conns
        BY <4>5, FiniteBooks
      <4>7. ~closed' => ~closed /\ count' = count - Cardinality(over)
        BY <4>2
      <4>8. over \subseteq Leaving'
        BY <4>2 DEF Leaving
      <4>9. SlotsFreed(over)
        BY <1>10, <2>0, <4>5, <4>7, <4>8, DialersKept DEF SlotsFreed, TakenOff
      <4> QED BY <1>c, <4>6, <4>9
    <3>6. CASE Discard(t)
      <4>1. /\ UNCHANGED <<idle, shared, closed>> /\ closing'[t] = {c} /\ count' = count - 1
        BY <3>1, <3>6 DEF Discard, Sweeping
      <4>2. {c} \subseteq Counted /\ Counted' = Counted \ {c}
        BY <3>2, <3>4, <4>1 DEF Counted, Parked, SharedSet
      <4>3. count' = count - Cardinality({c}) /\ {c} \subseteq Leaving'
        BY <4>1, FS_Singleton, ZenonT(30) DEF Leaving
      <4>4. SlotsFreed({c})
        BY <1>10, <2>0, <4>1, <4>2, <4>3, DialersKept DEF SlotsFreed, TakenOff
      <4> QED BY <1>c, <4>4
    <3> QED BY <2>2, <3>5, <3>6 DEF ReleaseExclusive
  <2> QED BY <1>10, <2>1, <2>2 DEF Release
<1>11. ASSUME NEW t \in Tasks, Local(t), ClosePool(t) PROVE Freed
  <2> DEFINE gone == Parked \union SharedSet
  <2>1. /\ closed' /\ Sweeping(t, gone, "idle") /\ conn' = conn /\ pc[t] = "idle"
        /\ shared' = [o \in Origins |-> None] /\ idle' = [o \in Origins |-> {}]
    BY <1>11 DEF ClosePool
  <2>2. Parked' = {} /\ SharedSet' = {} /\ Held' = Held
    BY <2>1 DEF Parked, SharedSet, Held
  <2>3. gone \subseteq Counted /\ Counted' = Counted \ gone
    <3>1. Held \intersect gone = {}
      BY DEF ExclusiveUse, Held, SharedSet
    <3> QED BY <2>2, <3>1 DEF Counted
  <2>4. gone \subseteq Leaving' /\ gone \in SUBSET Conns
    BY <2>1, <2>3, FiniteBooks DEF Sweeping, Leaving
  <2>5. t \notin Dialers /\ t \notin Dialers'
    BY <2>1 DEF Sweeping, Dialers
  <2>6. SlotsFreed(gone)
    BY <1>11, <2>1, <2>3, <2>4, <2>5, DialersKept DEF SlotsFreed, TakenOff
  <2> QED BY <1>c, <2>4, <2>6
<1>12. ASSUME NEW t \in Tasks, SweepCut(t) PROVE FALSE
  BY <1>12 DEF SweepCut
<1>13. CASE UNCHANGED <<books, places>>
  BY <1>13, <1>b, NothingCounted DEF places, Held, Dialers
<1>14. CASE EnvStep
  BY <1>13, <1>14 DEF EnvStep, Break, Expire
<1>15. ASSUME NEW t \in Tasks, TaskStep(t)
       PROVE  \/ Freed \/ (\E gone \in SUBSET Conns : DialBegun(t, gone))
              \/ (\E c \in Conns : DialInstalled(t, c)) \/ DialAbandoned(t)
  BY <1>a, <1>1, <1>2, <1>3, <1>4, <1>5, <1>6, <1>7, <1>8, <1>9, <1>10, <1>11, <1>12, <1>15
     DEF TaskStep, Attempt
<1> QED BY <1>13, <1>14, <1>15 DEF Next, vars, Freed

\* A set without a part of it is smaller by the part.
LEMMA DifferenceCardExactly ==
    ASSUME NEW S, NEW gone, IsFiniteSet(S), gone \subseteq S
    PROVE  Cardinality(S \ gone) = Cardinality(S) - Cardinality(gone)
<1>1. S \intersect gone = gone
  OBVIOUS
<1>2. Cardinality(S \ gone) = Cardinality(S) - Cardinality(S \intersect gone)
  BY FS_Difference
<1> QED BY <1>1, <1>2

CountInv == SharingInv /\ DialsInv /\ ExclusiveUse /\ CountExact

\* Every kind of step keeps the count exact.
LEMMA CountStep ==
    ASSUME Unmixed, "close" \notin Interrupts, CountInv, [Next]_vars
    PROVE  CountInv'
<1>1. SharingInv' /\ DialsInv' /\ ExclusiveUse'
  BY SharingStep, DialsStep, ExclusiveStep DEF CountInv, SharingInv
<1>a. /\ IsFiniteSet(Counted) /\ IsFiniteSet(Dialers)
      /\ Cardinality(Counted) \in Nat /\ Cardinality(Dialers) \in Nat /\ count \in Int
  BY FiniteBooks DEF CountInv, SharingInv, Types, TypeOK, BooksTypeOK
<1>b. \A gone : gone \subseteq Counted => Cardinality(gone) \in Nat /\ IsFiniteSet(gone)
  BY <1>a, SubsetCard
<1>2. CountExact'
  <2> SUFFICES ASSUME ~closed' PROVE count' = Cardinality(Counted') + Cardinality(Dialers')
    BY DEF CountExact
  <2>0. ~closed => count = Cardinality(Counted) + Cardinality(Dialers)
    BY DEF CountInv, CountExact
  <2>1. ASSUME NEW gone \in SUBSET Conns, SlotsFreed(gone)
        PROVE  count' = Cardinality(Counted') + Cardinality(Dialers')
    <3>1. Cardinality(Counted') = Cardinality(Counted) - Cardinality(gone) /\ Cardinality(gone) \in Nat
      BY <1>a, <1>b, <2>1, DifferenceCardExactly DEF SlotsFreed, TakenOff
    <3>2. ~closed /\ count' = count - Cardinality(gone) /\ Dialers' = Dialers
      BY <2>1 DEF SlotsFreed
    <3> QED BY <1>a, <2>0, <3>1, <3>2
  <2>2. ASSUME NEW t \in Tasks, NEW gone \in SUBSET Conns, DialBegun(t, gone)
        PROVE  count' = Cardinality(Counted') + Cardinality(Dialers')
    <3>1. Cardinality(Counted') = Cardinality(Counted) - Cardinality(gone) /\ Cardinality(gone) \in Nat
      BY <1>a, <1>b, <2>2, DifferenceCardExactly DEF DialBegun, TakenOff
    <3>2. Cardinality(Dialers') = Cardinality(Dialers) + 1
      BY <1>a, <2>2, FS_AddElement DEF DialBegun
    <3>3. ~closed /\ count' = count - Cardinality(gone) + 1
      BY <2>2 DEF DialBegun
    <3> QED BY <1>a, <2>0, <3>1, <3>2, <3>3
  <2>3. ASSUME NEW t \in Tasks, NEW c \in Conns, DialInstalled(t, c)
        PROVE  count' = Cardinality(Counted') + Cardinality(Dialers')
    <3>1. Cardinality(Counted') = Cardinality(Counted) + 1
      BY <1>a, <2>3, FS_AddElement DEF DialInstalled
    <3>2. Cardinality(Dialers') = Cardinality(Dialers) - 1
      BY <1>a, <2>3, FS_RemoveElement DEF DialInstalled
    <3>3. ~closed /\ count' = count
      BY <2>3 DEF DialInstalled
    <3> QED BY <1>a, <2>0, <3>1, <3>2, <3>3
  <2>4. ASSUME NEW t \in Tasks, DialAbandoned(t)
        PROVE  count' = Cardinality(Counted') + Cardinality(Dialers')
    <3>1. Cardinality(Dialers') = Cardinality(Dialers) - 1 /\ Counted' = Counted
      BY <1>a, <2>4, FS_RemoveElement DEF DialAbandoned
    <3>2. ~closed /\ count' = count - 1
      BY <2>4 DEF DialAbandoned
    <3> QED BY <1>a, <2>0, <3>1, <3>2
  <2> QED BY <2>1, <2>2, <2>3, <2>4, CountKinds DEF CountInv, SharingInv
<1> QED BY <1>1, <1>2 DEF CountInv

\* Nothing is counted, and nobody dials, in an initial state.
LEMMA InitCount == Init => CountInv
<1> SUFFICES ASSUME Init PROVE CountInv
  OBVIOUS
<1>1. SharingInv /\ DialsInv /\ ExclusiveUse
  BY InitEntries DEF EntriesInv
<1>2. Counted = {} /\ Dialers = {} /\ count = 0
  BY DEF Init, Counted, Parked, SharedSet, Held, Dialers
<1> QED BY <1>1, <1>2, FS_EmptySet DEF CountInv, CountExact

\* Until the pool closes, _count is the number of connections in use, parked,
\* shared and being dialed: no slot is lost and none is counted twice, if no
\* cancellation hits a task while it closes connections and no origin mixes
\* protocols.
THEOREM CountExactHolds ==
    ASSUME Unmixed, "close" \notin Interrupts
    PROVE  Spec => []CountExact
<1>1. CountInv /\ [Next]_vars => CountInv'
  BY CountStep
<1>2. CountInv => CountExact
  BY DEF CountInv
<1> QED BY InitCount, <1>1, <1>2, PTL DEF Spec

\* Every open connection is counted, or some task is about to close it.
OpenAccounted == \A c \in Conns : wire[c] # "closed" => c \in Counted \union Leaving

\* What a task was to close, it still is to close or has closed.
LEMMA LeavingKept ==
    ASSUME Types, Hands, "close" \notin Interrupts, [Next]_vars, NEW c \in Leaving
    PROVE  c \in Leaving' \/ wire'[c] = "closed"
<1> DEFINE Goal == c \in Leaving' \/ wire'[c] = "closed"
<1>0. /\ pc \in [Tasks -> {"idle", "attempt", "sweep", "dial", "refused", "ready", "evict", "wait", "hold"}]
      /\ closing \in [Tasks -> SUBSET Conns]
      /\ \A u \in Tasks : pc[u] \notin {"sweep", "refused"} => closing[u] = {}
  BY DEF Types, TypeOK, TasksTypeOK, Hands
<1>1. PICK v \in Tasks : c \in closing[v]
  BY DEF Leaving
<1>2. c \in Conns /\ pc[v] \in {"sweep", "refused"}
  BY <1>0, <1>1
<1>3. ASSUME c \in closing'[v] PROVE Goal
  BY <1>3 DEF Leaving
<1>4. ASSUME NEW t \in Tasks, TaskStep(t), t # v PROVE Goal
  BY <1>1, <1>3, <1>4, LocalStep DEF Local
<1>5. ASSUME TaskStep(v) PROVE Goal
  <2>1. CASE Sweep(v) \/ CloseRefused(v)
    BY <1>1, <1>2, <2>1 DEF Sweep, CloseRefused, Closed
  <2>2. CASE SweepCut(v)
    BY <2>2 DEF SweepCut
  <2>3. ASSUME NEW o \in Origins, Attempt(v, o) PROVE FALSE
    BY <1>2, <2>3 DEF Attempt, AttemptClosed, AttemptShared, AttemptIdle, AttemptJoin, AttemptDial,
                      AttemptWait, AtAttempt
  <2>4. CASE DialOk(v) \/ DialFail(v) \/ ReadyOk(v) \/ ReadyFail(v) \/ Evict(v) \/ ReadyGiveUp(v)
    BY <1>2, <2>4 DEF DialOk, DialFail, ReadyOk, ReadyFail, Evict, ReadyGiveUp
  <2>5. CASE WaitWake(v) \/ WaitGiveUp(v) \/ ClosePool(v) \/ \E d \in BOOLEAN : Release(v, d)
    BY <1>2, <2>5 DEF WaitWake, WaitGiveUp, ClosePool, Release
  <2> QED BY <1>5, <2>1, <2>2, <2>3, <2>4, <2>5 DEF TaskStep
<1>6. CASE EnvStep \/ UNCHANGED vars
  BY <1>1, <1>3, <1>6 DEF EnvStep, Break, Expire, vars, places
<1> QED BY <1>4, <1>5, <1>6 DEF Next

\* A connection is opened by the dial that puts it into the books, or that must
\* close it because the pool is closed.
LEMMA OpenedAccounted ==
    ASSUME Types, "close" \notin Interrupts, [Next]_vars,
           NEW c \in Conns, wire[c] = "closed", wire'[c] # "closed"
    PROVE  c \in Counted' \union Leaving'
<1> DEFINE Goal == c \in Counted' \union Leaving'
<1>0. /\ wire \in [Conns -> {"up", "down", "closed"}] /\ conn \in [Tasks -> Conns \union {None}]
      /\ closing \in [Tasks -> SUBSET Conns] /\ None \notin Conns
      /\ shared \in [Origins -> Conns \union {None}]
  BY ConnsAssumption DEF Types, TypeOK, ConnsTypeOK, TasksTypeOK, BooksTypeOK
<1>1. ASSUME NEW t \in Tasks, DialOk(t) PROVE Goal
  <2>1. PICK d \in Conns : /\ wire' = [wire EXCEPT ![d] = "up"] /\ pc[t] = "dial"
                           /\ IF closed THEN Refuse(t, d) ELSE Install(t, d)
    BY <1>1 DEF DialOk
  <2>2. d = c
    BY <1>0, <2>1
  <2>3. CASE closed
    BY <1>0, <2>1, <2>2, <2>3 DEF Refuse, Leaving
  <2>4. CASE ~closed /\ InstallH2(t, c)
    <3>1. origin[t] \in Origins /\ shared'[origin[t]] = c
      BY <1>0, <2>1, <2>4 DEF InstallH2, Types, Places
    <3> QED BY <1>0, <3>1 DEF Counted, SharedSet
  <2>5. CASE ~closed /\ InstallH1(t, c)
    <3>1. conn'[t] = c /\ c \notin Multiplexed
      BY <1>0, <2>1, <2>2, <2>5 DEF Install, InstallH1
    <3> QED BY <1>0, <3>1 DEF Counted, Held
  <2> QED BY <2>1, <2>2, <2>3, <2>4, <2>5 DEF Install
<1>2. ASSUME NEW t \in Tasks, Sweep(t) \/ CloseRefused(t) PROVE FALSE
  BY <1>0, <1>2 DEF Sweep, CloseRefused, Closed
<1>3. ASSUME NEW t \in Tasks, SweepCut(t) PROVE FALSE
  BY <1>3 DEF SweepCut
<1>4. ASSUME NEW t \in Tasks, NEW o \in Origins, Attempt(t, o) PROVE FALSE
  BY <1>4 DEF Attempt, AttemptClosed, AttemptShared, AttemptIdle, AttemptJoin, AttemptDial, AttemptWait
<1>5. ASSUME NEW t \in Tasks,
             \/ DialFail(t) \/ ReadyOk(t) \/ ReadyFail(t) \/ Evict(t) \/ ReadyGiveUp(t)
             \/ WaitWake(t) \/ WaitGiveUp(t) \/ ClosePool(t) \/ \E d \in BOOLEAN : Release(t, d)
      PROVE  FALSE
  BY <1>5 DEF DialFail, ReadyOk, ReadyFail, Evict, ReadyGiveUp, WaitWake, WaitGiveUp, ClosePool, Release
<1>6. CASE EnvStep \/ UNCHANGED vars
  BY <1>0, <1>6 DEF EnvStep, Break, Expire, vars
<1> QED BY <1>1, <1>2, <1>3, <1>4, <1>5, <1>6 DEF Next, TaskStep

\* Every step keeps the open connections accounted for.
LEMMA OpenStep ==
    ASSUME Unmixed, "close" \notin Interrupts, Types, Hands, ExclusiveUse, DialsInv,
           OpenAccounted, [Next]_vars
    PROVE  OpenAccounted'
<1> SUFFICES ASSUME NEW c \in Conns, wire'[c] # "closed" PROVE c \in Counted' \union Leaving'
  BY DEF OpenAccounted
<1>1. CASE wire[c] = "closed"
  BY <1>1, OpenedAccounted
<1>2. CASE c \in Leaving
  BY <1>2, LeavingKept
<1>3. CASE c \in Counted
  <2>1. \/ \E gone \in SUBSET Conns : TakenOff(gone)
        \/ Counted \subseteq Counted'
    BY CountKinds DEF SlotsFreed, DialBegun, DialInstalled, DialAbandoned
  <2> QED BY <1>3, <2>1 DEF TakenOff
<1> QED BY <1>1, <1>2, <1>3 DEF OpenAccounted

\* A connection that is open on our side is parked, shared, in a caller's hands or
\* about to be closed by some task, whatever becomes of the attempts around it, if
\* no cancellation hits a task while it closes connections and no origin mixes
\* protocols.
THEOREM NoOrphanHolds ==
    ASSUME Unmixed, "close" \notin Interrupts
    PROVE  Spec => []NoOrphan
<1>1. Init => OpenAccounted
  BY DEF Init, OpenAccounted
<1>2. CountInv /\ OpenAccounted /\ [Next]_vars => OpenAccounted'
  BY OpenStep DEF CountInv, SharingInv
<1>3. CountInv /\ OpenAccounted => NoOrphan
  <2> SUFFICES ASSUME OpenAccounted, NEW c \in Conns, wire[c] # "closed" PROVE c \in Reachable
    BY DEF NoOrphan
  <2> QED BY DEF OpenAccounted, Reachable, Counted, Leaving, Held
<1>4. CountInv /\ [Next]_vars => CountInv'
  BY CountStep
<1> QED BY InitCount, <1>1, <1>2, <1>3, <1>4, PTL DEF Spec
-----------------------------------------------------------------------------

(***************************************************************************)
(* The order of the stamps.                                                *)
(***************************************************************************)

\* Idle-since stamps are kept for the connections that reclamation may take, and
\* order them totally.
Ordered ==
    /\ older \subseteq Spare \X Spare
    /\ \A c \in Spare : <<c, c>> \notin older
    /\ \A c, d \in Spare : c # d => <<c, d>> \in older \/ <<d, c>> \in older
    /\ \A c, d, e \in Spare : <<c, d>> \in older /\ <<d, e>> \in older => <<c, e>> \in older

\* The kinds of step.  The first: the connections of S are spare no more.
StampsDropped(S) ==
    /\ Spare' = Spare \ S
    /\ older' = {p \in older : p[1] \notin S /\ p[2] \notin S}

\* c is stamped now, and those of S are spare no more.
StampTaken(c, S) ==
    /\ c \notin Spare
    /\ Spare' = (Spare \union {c}) \ S
    /\ older' = {p \in older \union (Spare \X {c}) : p[1] \notin S /\ p[2] \notin S}

\* What is removed from the books is spare no more, and all the rest is.
LEMMA RemoveSpare ==
    ASSUME Types, NEW S, Remove(S)
    PROVE  Spare' = Spare \ S
<1>1. Parked' = Parked \ S
  BY DEF Remove, Parked
<1>2. Resting' = Resting \ S
  BY DEF Remove, Resting
<1> QED BY <1>1, <1>2 DEF Spare

\* Removing connections and forgetting their stamps go together.
LEMMA RemoveForgets ==
    ASSUME Types, NEW S, Remove(S), Forget(S)
    PROVE  StampsDropped(S)
BY RemoveSpare DEF Forget, StampsDropped

\* A step that changes neither the books nor the stamps.
LEMMA StampsUnchanged ==
    ASSUME UNCHANGED <<idle, shared, leases, older>>, Ordered
    PROVE  StampsDropped({})
<1>1. Spare' = Spare
  BY DEF Spare, Parked, Resting
<1>2. older' = {p \in older : p[1] \notin {} /\ p[2] \notin {}}
  OBVIOUS
<1> QED BY <1>1, <1>2 DEF StampsDropped

\* A lease that is given back: the last one stamps the connection.
LEMMA DropLeaseStamps ==
    ASSUME Types, Apart, Ordered, NEW t \in Tasks, DropLease(t),
           conn[t] \in Multiplexed, origin[t] \in Origins, UNCHANGED <<idle, shared>>
    PROVE  IF LastLease(t) THEN StampTaken(conn[t], {}) ELSE StampsDropped({}) /\ Spare' = Spare
<1>0. /\ leases \in [Origins -> Nat] /\ None \notin Multiplexed
      /\ \A o \in Origins : idle[o] \intersect Multiplexed = {}
  BY ConnsAssumption, ProtocolAssumption DEF Types, TypeOK, BooksTypeOK, Kinds
<1>1. CASE LastLease(t)
  <2>1. PICK o \in Origins, c \in Multiplexed :
          o = origin[t] /\ c = conn[t] /\ c = shared[o] /\ leases[o] = 1
    BY <1>1 DEF LastLease, HoldsLease, IsShared
  <2>2. leases' = [leases EXCEPT ![o] = @ - 1] /\ Stamp(c, Spare)
    BY <1>1, <2>1 DEF DropLease, LastLease
  <2>3. c \notin Spare
    BY <1>0, <2>1 DEF Spare, Parked, Resting, Apart
  <2>4. leases'[o] = 0 /\ \A p \in Origins \ {o} : leases'[p] = leases[p]
    BY <1>0, <2>1, <2>2
  <2>5. Spare' = Spare \union {c}
    <3>1. Parked' = Parked
      BY DEF Parked
    <3>2. Resting' = Resting \union {c}
      BY <1>0, <2>1, <2>4 DEF Resting
    <3> QED BY <3>1, <3>2 DEF Spare
  <2>6. older' = older \union (Spare \X {c})
    BY <2>2, <2>3 DEF Stamp, Ordered
  <2>7. StampTaken(c, {})
    BY <2>3, <2>5, <2>6 DEF StampTaken
  <2> QED BY <1>1, <2>1, <2>7
<1>2. CASE ~LastLease(t) /\ HoldsLease(t)
  <2>1. PICK o \in Origins : o = origin[t] /\ leases[o] > 1
    BY <1>0, <1>2 DEF LastLease, HoldsLease
  <2>2. leases' = [leases EXCEPT ![o] = @ - 1] /\ UNCHANGED older
    BY <1>2, <2>1 DEF DropLease, stamps
  <2>3. \A p \in Origins : leases'[p] = 0 <=> leases[p] = 0
    BY <1>0, <2>1, <2>2
  <2>4. Spare' = Spare
    BY <2>3 DEF Spare, Parked, Resting
  <2>5. StampsDropped({})
    BY <2>2, <2>4 DEF StampsDropped
  <2> QED BY <1>2, <2>4, <2>5
<1>3. CASE ~HoldsLease(t)
  <2>1. leases' = leases /\ older' = older /\ ~LastLease(t)
    BY <1>3 DEF DropLease, LastLease, stamps
  <2>2. Spare' = Spare
    BY <2>1 DEF Spare, Parked, Resting
  <2> QED BY <2>1, <2>2, StampsUnchanged
<1> QED BY <1>1, <1>2, <1>3

\* Every step of the pool is of one of the kinds.
LEMMA StampKinds ==
    ASSUME Types, Apart, ExclusiveUse, Ordered, [Next]_vars
    PROVE  \/ \E S \in SUBSET Conns : StampsDropped(S)
           \/ \E c \in Conns, S \in SUBSET Conns : StampTaken(c, S)
<1> DEFINE Dropped == \E S \in SUBSET Conns : StampsDropped(S)
           Retaken == \E c \in Conns, S \in SUBSET Conns : StampTaken(c, S)
<1>0. /\ TypeOK /\ None \notin Conns /\ Multiplexed \subseteq Conns
      /\ shared \in [Origins -> Conns \union {None}] /\ leases \in [Origins -> Nat]
      /\ idle \in [Origins -> SUBSET Conns]
      /\ Spare \subseteq Conns
      /\ \A o \in Origins : shared[o] \in Multiplexed \union {None}
      /\ Parked \intersect Multiplexed = {}
      /\ \A t \in Tasks : pc[t] \in {"ready", "evict"} => conn[t] \in Multiplexed
      /\ \A t \in Tasks : pc[t] \in {"dial", "ready", "evict", "hold"} => origin[t] \in Origins
  BY ConnsAssumption, ProtocolAssumption DEF Types, TypeOK, BooksTypeOK, Places, Kinds, Spare, Parked, Resting
<1>a. UNCHANGED <<idle, shared, leases, older>> => Dropped
  BY StampsUnchanged
<1>b. \A S \in SUBSET Conns : StampsDropped(S) => Dropped
  OBVIOUS
<1>c. \A c \in Conns, S \in SUBSET Conns : StampTaken(c, S) => Retaken
  OBVIOUS
<1> HIDE DEF Dropped, Retaken
<1> USE <1>0 DEF books, stamps
<1>1. ASSUME NEW t \in Tasks, NEW o \in Origins, AttemptShared(t, o) PROVE Dropped
  <2>1. /\ leases' = [leases EXCEPT ![o] = @ + 1] /\ UNCHANGED <<shared, idle>>
        /\ Forget({shared[o]}) /\ shared[o] \in Multiplexed
    BY <1>1 DEF AttemptShared, NoShared, Live
  <2>2. Resting' = Resting \ {shared[o]}
    <3>1. \A p \in Origins : leases'[p] = 0 <=> leases[p] = 0 /\ p # o
      BY <2>1
    <3> QED BY <2>1, <3>1 DEF Resting, Apart
  <2>3. Spare' = Spare \ {shared[o]}
    BY <2>1, <2>2 DEF Spare, Parked
  <2>4. StampsDropped({shared[o]}) /\ {shared[o]} \in SUBSET Conns
    BY <2>1, <2>3 DEF StampsDropped, Forget
  <2> QED BY <1>b, <2>4
<1>2. ASSUME NEW t \in Tasks, NEW o \in Origins, AttemptIdle(t, o) PROVE Dropped
  <2>1. PICK c \in Conns, gone \in SUBSET Conns : Remove(gone \union {c}) /\ Forget(gone \union {c})
    BY <1>2, TakesIdle DEF Taken
  <2> QED BY <1>b, <2>1, RemoveForgets
<1>3. ASSUME NEW t \in Tasks, NEW o \in Origins, AttemptJoin(t, o) \/ AttemptWait(t, o) PROVE Dropped
  <2>1. Remove(Own(o)) /\ Forget(Own(o)) /\ Own(o) \in SUBSET Conns
    BY <1>3, OwnType DEF AttemptJoin, AttemptWait
  <2> QED BY <1>b, <2>1, RemoveForgets
<1>4. ASSUME NEW t \in Tasks, NEW o \in Origins, AttemptDial(t, o) PROVE Dropped
  <2>1. PICK gone \in Culls(o) : Remove(gone) /\ Forget(gone)
    BY <1>4 DEF AttemptDial
  <2>2. gone \in SUBSET Conns
    BY CullsType
  <2> QED BY <1>b, <2>1, <2>2, RemoveForgets
<1>5. ASSUME NEW t \in Tasks, DialOk(t) PROVE Dropped
  <2>1. PICK c \in Conns : /\ Fresh(c) /\ pc[t] = "dial"
                           /\ IF closed THEN Refuse(t, c) ELSE Install(t, c)
    BY <1>5 DEF DialOk
  <2>2. CASE closed \/ InstallH1(t, c)
    <3>1. UNCHANGED <<idle, shared, leases, older>>
      BY <2>1, <2>2 DEF Refuse, Install, InstallH1, InstallH2
    <3> QED BY <1>a, <3>1
  <2>3. CASE ~closed /\ InstallH2(t, c)
    <3>1. PICK o \in Origins : o = origin[t]
      BY <2>1
    <3>2. /\ shared' = [shared EXCEPT ![o] = c] /\ leases' = [leases EXCEPT ![o] = 1]
          /\ Forget({shared[o]}) /\ UNCHANGED idle
      BY <2>1, <2>3, <3>1 DEF Install, InstallH2
    <3>3. Resting' = Resting \ {shared[o]}
      <4>1. \A p \in Origins : leases'[p] = 0 <=> leases[p] = 0 /\ p # o
        BY <3>2
      <4>2. \A p \in Origins \ {o} : shared'[p] = shared[p]
        BY <3>2
      <4> QED BY <4>1, <4>2 DEF Resting, Apart
    <3>4. Spare' = Spare \ {shared[o]}
      BY <3>2, <3>3 DEF Spare, Parked
    <3>5. CASE shared[o] \in Conns
      <4>1. StampsDropped({shared[o]}) /\ {shared[o]} \in SUBSET Conns
        BY <3>2, <3>4, <3>5 DEF StampsDropped, Forget
      <4> QED BY <1>b, <4>1
    <3>6. CASE shared[o] = None
      <4>1. Spare' = Spare /\ older' = older
        BY <3>2, <3>4, <3>6 DEF Forget, Ordered
      <4>2. StampsDropped({})
        BY <4>1 DEF StampsDropped
      <4> QED BY <1>b, <4>2
    <3> QED BY <3>5, <3>6
  <2> QED BY <2>1, <2>2, <2>3 DEF Install
<1>6. ASSUME NEW t \in Tasks, ReadyFail(t) \/ ReadyGiveUp(t) \/ (pc[t] = "hold" /\ ReleaseShared(t))
      PROVE  Dropped \/ Retaken
  <2>1. /\ DropLease(t) /\ conn[t] \in Multiplexed /\ origin[t] \in Origins /\ UNCHANGED <<idle, shared>>
        /\ conn[t] \in Conns
    BY <1>6 DEF ReadyFail, ReadyGiveUp, ReleaseShared
  <2>2. StampsDropped({}) \/ StampTaken(conn[t], {})
    BY <2>1, DropLeaseStamps
  <2> QED BY <1>b, <1>c, <2>1, <2>2
<1>7. ASSUME NEW t \in Tasks, Evict(t) PROVE Dropped
  <2>1. CASE IsShared(t)
    <3>1. Remove({conn[t]}) /\ Forget({conn[t]}) /\ {conn[t]} \in SUBSET Conns
      BY <1>7, <2>1 DEF Evict
    <3> QED BY <1>b, <3>1, RemoveForgets
  <2>2. CASE ~IsShared(t)
    BY <1>7, <1>a, <2>2 DEF Evict
  <2> QED BY <2>1, <2>2
<1>8. ASSUME NEW t \in Tasks, NEW d \in BOOLEAN, pc[t] = "hold", ReleaseExclusive(t, d)
      PROVE  Dropped \/ Retaken
  <2>1. PICK c \in Conns \ Multiplexed : c = conn[t]
    BY <1>8 DEF ReleaseExclusive, Types, Places
  <2>2. c \notin Spare
    BY <2>1 DEF Spare, Resting, ExclusiveUse, Held
  <2>3. CASE Park(t)
    <3> DEFINE order == older \union (Spare \X {c})
               over == Overflow(Parked \union {c}, order)
    <3>1. /\ idle' = [p \in Origins |-> (idle[p] \union (IF p = origin[t] THEN {c} ELSE {})) \ over]
          /\ UNCHANGED <<shared, leases>>
          /\ older' = {p \in order : p[1] \notin over /\ p[2] \notin over}
          /\ origin[t] \in Origins
      BY <1>8, <2>1, <2>3 DEF Park
    <3>2. over \subseteq Parked \union {c}
      BY DEF Overflow
    <3> HIDE DEF over
    <3>3. Parked' = (Parked \union {c}) \ over
      BY <3>1 DEF Parked
    <3>4. Resting' = Resting /\ Resting \intersect over = {}
      BY <2>1, <3>1, <3>2 DEF Resting
    <3>5. Spare' = (Spare \union {c}) \ over
      BY <3>3, <3>4 DEF Spare
    <3>6. over \in SUBSET Conns
      BY <3>2 DEF Parked
    <3>7. StampTaken(c, over)
      BY <2>2, <3>1, <3>5 DEF StampTaken
    <3> QED BY <1>c, <3>6, <3>7
  <2>4. CASE Discard(t)
    BY <1>a, <2>4 DEF Discard
  <2> QED BY <1>8, <2>3, <2>4 DEF ReleaseExclusive
<1>9. ASSUME NEW t \in Tasks, ClosePool(t) PROVE Dropped
  <2>1. /\ shared' = [o \in Origins |-> None] /\ idle' = [o \in Origins |-> {}] /\ Forget(Conns)
    BY <1>9 DEF ClosePool
  <2>2. Spare' = {}
    BY <2>1 DEF Spare, Parked, Resting
  <2>3. StampsDropped(Conns)
    BY <2>1, <2>2 DEF StampsDropped, Forget
  <2> QED BY <1>b, <2>3
<1>10. ASSUME NEW t \in Tasks,
              \/ \E o \in Origins : AttemptClosed(t, o)
              \/ Sweep(t) \/ SweepCut(t) \/ DialFail(t) \/ CloseRefused(t) \/ ReadyOk(t)
              \/ WaitWake(t) \/ WaitGiveUp(t)
       PROVE  Dropped
  BY <1>a, <1>10 DEF AttemptClosed, Sweep, SweepCut, DialFail, CloseRefused, ReadyOk, WaitWake, WaitGiveUp
<1>11. ASSUME EnvStep \/ UNCHANGED vars PROVE Dropped
  BY <1>a, <1>11 DEF EnvStep, Break, Expire, vars
<1>12. ASSUME NEW t \in Tasks, NEW d \in BOOLEAN, Release(t, d) PROVE Dropped \/ Retaken
  BY <1>6, <1>8, <1>12 DEF Release
<1>13. ASSUME NEW t \in Tasks, TaskStep(t) PROVE Dropped \/ Retaken
  BY <1>1, <1>2, <1>3, <1>4, <1>5, <1>6, <1>7, <1>9, <1>10, <1>12, <1>13 DEF TaskStep, Attempt
<1> QED BY <1>11, <1>13 DEF Next, Dropped, Retaken

\* Every kind of step keeps the stamps a total order of the spare connections.
LEMMA OrderStep ==
    ASSUME Types, Apart, ExclusiveUse, Ordered, [Next]_vars
    PROVE  Ordered'
<1>1. ASSUME NEW S \in SUBSET Conns, StampsDropped(S) PROVE Ordered'
  <2>1. /\ Spare' = Spare \ S
        /\ \A c, d : <<c, d>> \in older' <=> <<c, d>> \in older /\ c \notin S /\ d \notin S
        /\ older' \subseteq older
    BY <1>1 DEF StampsDropped
  <2>2. older' \subseteq Spare' \X Spare'
    BY <1>1, <2>1 DEF Ordered, StampsDropped
  <2> QED BY <2>1, <2>2 DEF Ordered
<1>2. ASSUME NEW c \in Conns, NEW S \in SUBSET Conns, StampTaken(c, S) PROVE Ordered'
  <2>1. /\ c \notin Spare /\ Spare' = (Spare \union {c}) \ S
        /\ \A d, e : <<d, e>> \in older' <=>
             (<<d, e>> \in older \/ (d \in Spare /\ e = c)) /\ d \notin S /\ e \notin S
    BY <1>2 DEF StampTaken
  <2>2. older' \subseteq Spare' \X Spare'
    BY <1>2, <2>1 DEF Ordered, StampTaken
  <2>3. \A d, e : <<d, e>> \in older => d \in Spare /\ e \in Spare
    BY DEF Ordered
  <2>4. ASSUME NEW d \in Spare', <<d, d>> \in older' PROVE FALSE
    <3>1. <<d, d>> \in older \/ (d \in Spare /\ d = c)
      BY <2>1, <2>4
    <3> QED BY <2>1, <2>3, <3>1 DEF Ordered
  <2>5. \A d, e \in Spare' : d # e => <<d, e>> \in older' \/ <<e, d>> \in older'
    BY <2>1 DEF Ordered
  <2>6. ASSUME NEW d \in Spare', NEW e \in Spare', NEW f \in Spare', <<d, e>> \in older', <<e, f>> \in older'
        PROVE  <<d, f>> \in older'
    <3>1. e # c
      BY <2>1, <2>3, <2>6
    <3>2. <<d, e>> \in older /\ d \in Spare
      BY <2>1, <2>3, <2>6, <3>1
    <3> QED BY <2>1, <2>3, <2>6, <3>2 DEF Ordered
  <2> QED BY <2>2, <2>4, <2>5, <2>6 DEF Ordered
<1> QED BY <1>1, <1>2, StampKinds

\* Among finitely many spare connections one is the least recently used: a dry
\* origin at the cap finds one to reclaim whenever there is any.
LEMMA OldestExists ==
    ASSUME Ordered, NEW S, S \subseteq Spare, IsFiniteSet(S), S # {}
    PROVE  Oldest(S) # {}
<1> DEFINE Before(c) == {d \in S : <<d, c>> \in older}
           Family == {Before(c) : c \in S}
<1>1. Family \subseteq SUBSET S /\ Family # {}
  OBVIOUS
<1>2. IsWellFoundedOn(StrictSubsetOrdering(S), SUBSET S)
  BY FS_StrictSubsetOrderingWellFounded, FS_FiniteSubsetsOfFinite
<1> HIDE DEF Family
<1>3. PICK B \in Family : \A D \in Family : <<D, B>> \notin StrictSubsetOrdering(S)
  BY <1>1, <1>2, WFMin
<1>4. PICK c \in S : B = Before(c)
  BY DEF Family
<1>5. ASSUME NEW d \in S, <<d, c>> \in older PROVE FALSE
  <2>1. Before(d) \in Family
    BY DEF Family
  <2>2. Before(d) \subseteq Before(c)
    BY <1>5 DEF Ordered
  <2>3. d \in Before(c) /\ d \notin Before(d)
    BY <1>5 DEF Ordered
  <2>4. <<Before(d), Before(c)>> \in StrictSubsetOrdering(S)
    BY <2>2, <2>3 DEF StrictSubsetOrdering
  <2> QED BY <1>3, <1>4, <2>1, <2>4
<1>6. c \in Oldest(S)
  BY <1>5 DEF Oldest, Ordered
<1> QED BY <1>6

-----------------------------------------------------------------------------

(***************************************************************************)
(* Wake-ups.                                                               *)
(***************************************************************************)

\* Nobody waits for capacity in a pool without a cap.
WaitCap == waiters # {} => MaxConns # None

\* The kinds of step that matter to waiters while the pool is open: a wake-up is
\* pending afterwards; or everyone has been woken; or no slot has appeared; or
\* there is none.
NoNewSlot ==
    /\ ~closed /\ waiters' \subseteq waiters
    /\ count' >= count /\ Spare' \subseteq Spare
    /\ WakePending => WakePending'

NoSlot == MaxConns \in Nat /\ ~(count' < MaxConns) /\ Spare' = {}

\* A step that takes a slot, if anything, of a task that wakes nobody anyway.
LEMMA NothingAppears ==
    ASSUME ~closed, NEW t \in Tasks, Local(t), pc[t] \notin {"sweep", "evict"},
           waiters' \subseteq waiters, count' >= count, Spare' \subseteq Spare
    PROVE  NoNewSlot
BY DEF Local, NoNewSlot, WakePending

\* An attempt that finds nothing of its own to discard, and no slot, leaves none.
LEMMA WaitsForASlot ==
    ASSUME Types, Ordered, NEW t \in Tasks, NEW o \in Origins, AttemptWait(t, o), Own(o) = {}
    PROVE  NoSlot
<1>1. /\ Culls(o) = {} /\ Remove({}) /\ count' = count - Cardinality({})
  BY DEF AttemptWait
<1>2. count' = count /\ count \in Int /\ Spare' = Spare
  BY <1>1, FS_EmptySet, RemoveSpare DEF Types, TypeOK, BooksTypeOK
<1>3. AtCap(o)
  BY <1>1 DEF Culls
<1>4. MaxConns \in Nat /\ count >= MaxConns
  BY <1>2, <1>3, FS_EmptySet, LimitsAssumption DEF AtCap
<1>5. Oldest(Spare) = {}
  <2>1. Spare \ Own(o) = Spare
    OBVIOUS
  <2>2. {Own(o) \union {c} : c \in Oldest(Spare)} = {}
    BY <1>1, <1>3, <2>1 DEF Culls
  <2> QED BY <2>2
<1>6. IsFiniteSet(Spare)
  <2>1. Spare \subseteq Conns
    BY DEF Spare, Parked, Resting, Types, TypeOK, BooksTypeOK
  <2> QED BY <2>1, ConnsCounted
<1>7. Spare = {}
  BY <1>5, <1>6, OldestExists
<1> QED BY <1>2, <1>4, <1>7 DEF NoSlot

\* Every step of the pool is of one of the kinds.
LEMMA WakeKinds ==
    ASSUME Types, Hands, Apart, Ordered, "ready" \notin Interrupts, "close" \notin Interrupts,
           [Next]_vars, ~closed'
    PROVE  WakePending' \/ waiters' = {} \/ NoNewSlot \/ NoSlot
<1> DEFINE Goal == WakePending' \/ waiters' = {} \/ NoNewSlot \/ NoSlot
<1>0. /\ pc \in [Tasks -> {"idle", "attempt", "sweep", "dial", "refused", "ready", "evict", "wait", "hold"}]
      /\ count \in Int /\ leases \in [Origins -> Nat]
      /\ \A t \in Tasks : pc[t] = "refused" => closed
      /\ \A t \in Tasks : pc[t] \in {"dial", "hold"} => origin[t] \in Origins
  BY DEF Types, TypeOK, BooksTypeOK, TasksTypeOK, Places, Hands
<1>a. \A t \in Tasks : pc'[t] \in {"sweep", "evict"} => Goal
  BY DEF WakePending
<1>b. \A t \in Tasks : TaskStep(t) => Local(t)
  BY LocalStep
<1>c. \A t \in Tasks : \A gone, next : CloseAll(t, gone, next) /\ gone # {} => pc'[t] = "sweep"
  BY <1>0 DEF CloseAll, Sweeping
<1>d. count - Cardinality({}) = count
  BY <1>0, FS_EmptySet
<1>e. UNCHANGED <<idle, shared, leases>> => Spare' = Spare
  BY DEF Spare, Parked, Resting
<1>f. NoNewSlot => Goal
  OBVIOUS
<1> HIDE DEF Goal
<1> USE <1>0 DEF books
<1>1. ASSUME NEW t \in Tasks, Local(t), NEW o \in Origins, AttemptShared(t, o) PROVE Goal
  <2>1. /\ leases' = [leases EXCEPT ![o] = @ + 1] /\ UNCHANGED <<idle, shared, count, waiters>>
        /\ ~closed /\ pc[t] \in {"idle", "attempt"}
    BY <1>1 DEF AttemptShared, AtAttempt
  <2>2. Spare' \subseteq Spare
    <3>1. \A p \in Origins : leases'[p] = 0 => leases[p] = 0
      BY <2>1
    <3> QED BY <2>1, <3>1 DEF Spare, Parked, Resting
  <2> QED BY <1>1, <1>f, <2>1, <2>2, NothingAppears
<1>2. ASSUME NEW t \in Tasks, Local(t), NEW o \in Origins, AttemptIdle(t, o) PROVE Goal
  <2>1. PICK c \in Conns, gone \in SUBSET Conns : Taken(t, o, c, gone)
    BY <1>2, TakesIdle
  <2>2. CASE gone # {}
    BY <1>a, <1>c, <2>1, <2>2 DEF Taken
  <2>3. CASE gone = {}
    <3>1. Spare' \subseteq Spare
      BY <2>1, RemoveSpare DEF Taken
    <3>2. count' = count /\ waiters' = waiters /\ ~closed /\ pc[t] \in {"idle", "attempt"}
      BY <1>d, <2>1, <2>3 DEF Taken
    <3> QED BY <1>2, <1>f, <3>1, <3>2, NothingAppears
  <2> QED BY <2>2, <2>3
<1>3. ASSUME NEW t \in Tasks, Local(t), NEW o \in Origins, AttemptJoin(t, o) PROVE Goal
  <2>1. /\ Remove(Own(o)) /\ CloseAll(t, Own(o), "wait") /\ count' = count - Cardinality(Own(o))
        /\ waiters' = waiters /\ ~closed /\ pc[t] \in {"idle", "attempt"}
    BY <1>3 DEF AttemptJoin, AtAttempt
  <2>2. CASE Own(o) # {}
    BY <1>a, <1>c, <2>1, <2>2
  <2>3. CASE Own(o) = {}
    <3>1. Spare' \subseteq Spare /\ count' = count
      BY <1>d, <2>1, <2>3, RemoveSpare
    <3> QED BY <1>3, <1>f, <2>1, <3>1, NothingAppears
  <2> QED BY <2>2, <2>3
<1>4. ASSUME NEW t \in Tasks, Local(t), NEW o \in Origins, AttemptDial(t, o) PROVE Goal
  <2>1. PICK gone \in Culls(o) : /\ Remove(gone) /\ CloseAll(t, gone, "dial")
                                 /\ count' = count - Cardinality(gone) + 1
    BY <1>4 DEF AttemptDial
  <2>2. waiters' = waiters /\ ~closed /\ pc[t] \in {"idle", "attempt"}
    BY <1>4 DEF AttemptDial, AtAttempt
  <2>3. CASE gone # {}
    BY <1>a, <1>c, <2>1, <2>3
  <2>4. CASE gone = {}
    <3>1. Spare' \subseteq Spare /\ count' >= count
      BY <1>d, <2>1, <2>4, RemoveSpare
    <3> QED BY <1>4, <1>f, <2>2, <3>1, NothingAppears
  <2> QED BY <2>3, <2>4
<1>5. ASSUME NEW t \in Tasks, NEW o \in Origins, AttemptWait(t, o) PROVE Goal
  <2>1. CASE Own(o) # {}
    BY <1>5, <1>a, <1>c, <2>1 DEF AttemptWait
  <2>2. CASE Own(o) = {}
    BY <1>5, <2>2, WaitsForASlot DEF Goal
  <2> QED BY <2>1, <2>2
<1>6. ASSUME NEW t \in Tasks, Sweep(t) PROVE Goal
  BY <1>6 DEF Sweep, Wake, Goal
<1>7. ASSUME NEW t \in Tasks, Local(t), DialOk(t) PROVE Goal
  <2>1. PICK c \in Conns : pc[t] = "dial" /\ IF closed THEN Refuse(t, c) ELSE Install(t, c)
    BY <1>7 DEF DialOk
  <2>2. ~closed /\ Install(t, c) /\ UNCHANGED <<idle, count, waiters>>
    BY <2>1 DEF Refuse, Install
  <2>3. Spare' \subseteq Spare
    <3>1. CASE InstallH1(t, c)
      BY <1>e, <2>2, <3>1 DEF InstallH1
    <3>2. CASE InstallH2(t, c)
      <4>1. PICK o \in Origins : o = origin[t]
        BY <2>1
      <4>2. /\ leases' = [leases EXCEPT ![o] = 1] /\ shared' = [shared EXCEPT ![o] = c]
        BY <3>2, <4>1 DEF InstallH2
      <4>3. \A p \in Origins : leases'[p] = 0 => leases[p] = 0 /\ p # o
        BY <4>2
      <4>4. \A p \in Origins \ {o} : shared'[p] = shared[p]
        BY <4>2
      <4>5. Resting' \subseteq Resting
        BY <4>3, <4>4 DEF Resting
      <4> QED BY <2>2, <4>5 DEF Spare, Parked
    <3> QED BY <2>2, <3>1, <3>2 DEF Install
  <2> QED BY <1>7, <1>f, <2>1, <2>2, <2>3, NothingAppears
<1>8. ASSUME NEW t \in Tasks, DialFail(t) \/ ReadyFail(t) \/ Evict(t) PROVE Goal
  BY <1>8, <1>a DEF DialFail, ReadyFail, Evict, Sweeping
<1>9. ASSUME NEW t \in Tasks, Local(t), ReadyOk(t) \/ WaitWake(t) \/ WaitGiveUp(t) PROVE Goal
  <2>1. /\ UNCHANGED <<idle, shared, leases, count, closed>> /\ waiters' \subseteq waiters
        /\ pc[t] \in {"ready", "wait"}
    BY <1>9 DEF ReadyOk, WaitWake, WaitGiveUp
  <2> QED BY <1>9, <1>e, <1>f, <2>1, NothingAppears
<1>10. ASSUME NEW t \in Tasks, Local(t), NEW d \in BOOLEAN, Release(t, d) PROVE Goal
  <2>0. pc[t] = "hold" /\ origin[t] \in Origins /\ waiters' = waiters
    BY <1>10 DEF Release
  <2>1. CASE ReleaseShared(t) /\ FreesCapacity(t)
    BY <1>a, <2>1 DEF ReleaseShared, Sweeping
  <2>2. CASE ReleaseShared(t) /\ ~FreesCapacity(t)
    <3>1. /\ UNCHANGED <<idle, shared, count, closed>> /\ ~LastLease(t)
          /\ conn[t] \in Multiplexed /\ DropLease(t)
      BY <2>2 DEF ReleaseShared, FreesCapacity
    <3>2. Spare' = Spare
      BY <2>0, <3>1, DropLeaseStamps
    <3> QED BY <1>10, <1>f, <2>0, <3>1, <3>2, NothingAppears
  <2>3. CASE ReleaseExclusive(t, d)
    BY <1>a, <2>3 DEF ReleaseExclusive, Park, Discard, Sweeping
  <2> QED BY <1>10, <2>1, <2>2, <2>3 DEF Release
<1>11. ASSUME NEW t \in Tasks,
              \/ \E o \in Origins : AttemptClosed(t, o)
              \/ SweepCut(t) \/ CloseRefused(t) \/ ReadyGiveUp(t) \/ ClosePool(t)
       PROVE  FALSE
  BY <1>11 DEF AttemptClosed, SweepCut, CloseRefused, ReadyGiveUp, ClosePool
<1>12. ASSUME UNCHANGED <<idle, shared, leases, count, closed, waiters, pc>> PROVE Goal
  <2>1. NoNewSlot
    BY <1>12, <1>e DEF NoNewSlot, WakePending
  <2> QED BY <1>f, <2>1
<1>13. ASSUME EnvStep \/ UNCHANGED vars PROVE Goal
  BY <1>12, <1>13 DEF EnvStep, Break, Expire, vars, places
<1>14. ASSUME NEW t \in Tasks, TaskStep(t) PROVE Goal
  BY <1>b, <1>1, <1>2, <1>3, <1>4, <1>5, <1>6, <1>7, <1>8, <1>9, <1>10, <1>11, <1>14
     DEF TaskStep, Attempt
<1> QED BY <1>13, <1>14 DEF Next, Goal

\* A task starts to wait for capacity only at the cap.
LEMMA WaitCapStep ==
    ASSUME WaitCap, [Next]_vars
    PROVE  WaitCap'
<1>1. ASSUME NEW t \in Tasks, NEW o \in Origins, AttemptWait(t, o) PROVE MaxConns # None
  BY <1>1 DEF AttemptWait, Culls, AtCap
<1>2. ASSUME waiters' \subseteq waiters PROVE WaitCap'
  BY <1>2 DEF WaitCap
<1>3. ASSUME NEW t \in Tasks, NEW o \in Origins, Attempt(t, o) PROVE WaitCap'
  BY <1>1, <1>2, <1>3 DEF Attempt, AttemptClosed, AttemptShared, AttemptIdle, AttemptJoin, AttemptDial, WaitCap
<1>4. ASSUME NEW t \in Tasks, Sweep(t) \/ SweepCut(t) \/ DialFail(t) \/ CloseRefused(t) \/ ReadyOk(t)
      PROVE  WaitCap'
  BY <1>2, <1>4 DEF Sweep, Wake, SweepCut, DialFail, CloseRefused, ReadyOk
<1>5. ASSUME NEW t \in Tasks, DialOk(t) PROVE WaitCap'
  BY <1>2, <1>5 DEF DialOk, Refuse, Install
<1>6. ASSUME NEW t \in Tasks,
             \/ ReadyFail(t) \/ Evict(t) \/ ReadyGiveUp(t) \/ WaitWake(t) \/ WaitGiveUp(t)
             \/ (\E d \in BOOLEAN : Release(t, d)) \/ ClosePool(t)
      PROVE  WaitCap'
  BY <1>2, <1>6 DEF ReadyFail, Evict, ReadyGiveUp, WaitWake, WaitGiveUp, Release, ClosePool
<1>7. ASSUME EnvStep \/ UNCHANGED vars PROVE WaitCap'
  BY <1>2, <1>7 DEF EnvStep, Break, Expire, vars
<1> QED BY <1>3, <1>4, <1>5, <1>6, <1>7 DEF Next, TaskStep

WakeInv == SharingInv /\ ExclusiveUse /\ Ordered /\ WaitCap /\ NoLostWakeup

\* Every kind of step leaves a wake-up pending for a slot that is to be had.
LEMMA WakeStep ==
    ASSUME "ready" \notin Interrupts, "close" \notin Interrupts, WakeInv, [Next]_vars
    PROVE  WakeInv'
<1>1. SharingInv' /\ ExclusiveUse' /\ Ordered' /\ WaitCap'
  BY SharingStep, ExclusiveStep, OrderStep, WaitCapStep DEF WakeInv, SharingInv
<1>2. NoLostWakeup'
  <2> SUFFICES ASSUME ~closed', waiters' # {}, SlotAvailable' PROVE WakePending'
    BY DEF NoLostWakeup
  <2>0. MaxConns \in Nat /\ count \in Int /\ count' \in Int
    BY <1>1, LimitsAssumption DEF WakeInv, WaitCap, SharingInv, Types, TypeOK, BooksTypeOK
  <2>1. CASE NoNewSlot
    <3>1. SlotAvailable
      BY <2>0, <2>1 DEF NoNewSlot, SlotAvailable
    <3>2. WakePending
      BY <2>1, <3>1 DEF NoNewSlot, WakeInv, NoLostWakeup
    <3> QED BY <2>1, <3>2 DEF NoNewSlot
  <2>2. CASE NoSlot
    BY <2>2 DEF NoSlot, SlotAvailable
  <2> QED BY <2>1, <2>2, WakeKinds DEF WakeInv, SharingInv
<1> QED BY <1>1, <1>2 DEF WakeInv

\* A capacity waiter sleeps beside a slot only while some task is about to wake it,
\* for any number of callers and origins and whatever protocols they mix, if
\* neither a wait for a stream slot nor a close of connections is cut short.
THEOREM NoLostWakeupHolds ==
    ASSUME "ready" \notin Interrupts, "close" \notin Interrupts
    PROVE  Spec => []NoLostWakeup
<1>1. Init => WakeInv
  <2> SUFFICES ASSUME Init PROVE WakeInv
    OBVIOUS
  <2>1. SharingInv /\ ExclusiveUse
    BY InitEntries DEF EntriesInv
  <2>2. waiters = {} /\ Spare = {} /\ older = {}
    BY DEF Init, Spare, Parked, Resting
  <2> QED BY <2>1, <2>2 DEF WakeInv, Ordered, WaitCap, NoLostWakeup
<1>2. WakeInv /\ [Next]_vars => WakeInv'
  BY WakeStep
<1>3. WakeInv => NoLostWakeup
  BY DEF WakeInv
<1> QED BY <1>1, <1>2, <1>3, PTL DEF Spec
=============================================================================
