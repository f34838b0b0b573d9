----------------------------- MODULE PoolProofs -----------------------------
(***************************************************************************)
(* Theorems about Pool, for every set of tasks, connections and origins,   *)
(* every limit and every choice of interruptible awaits: its types, who     *)
(* uses a connection, the cap, and that it implements Slots.               *)
(***************************************************************************)
EXTENDS Pool, FiniteSetTheorems, TLAPS

\* What a task's place says of the origin and the connection it carries.
Places ==
    \A t \in Tasks :
        /\ pc[t] \notin {"idle", "sweep"} \/ then[t] # "idle" => origin[t] \in Origins
        /\ pc[t] \in {"ready", "evict"} => conn[t] \in Multiplexed
        /\ pc[t] = "hold" \/ then[t] = "hold" => conn[t] \in Conns
        /\ then[t] # "idle" => pc[t] = "sweep"

\* Only h2 connections are shared and only h1 connections are parked.
Kinds ==
    /\ \A o \in Origins : shared[o] \in Multiplexed \union {None}
    /\ \A o \in Origins : idle[o] \intersect Multiplexed = {}

Types == TypeOK /\ Places /\ Kinds

-----------------------------------------------------------------------------

\* A set of connections is finite and has a size.
LEMMA ConnsCounted ==
    ASSUME NEW S, S \subseteq Conns
    PROVE  IsFiniteSet(S) /\ Cardinality(S) \in Nat
BY ConnsAssumption, FS_Subset, FS_CardinalityType

\* What an attempt removes from the books, it found in them.
LEMMA OwnType ==
    ASSUME TypeOK, NEW o \in Origins
    PROVE  Own(o) \subseteq Parked \union SharedSet /\ Own(o) \subseteq Conns
BY NoneAssumption DEF TypeOK, BooksTypeOK, Own, Parked, SharedSet

\* What an attempt may remove to get a slot is in the books.
LEMMA CullsType ==
    ASSUME TypeOK, NEW o \in Origins, NEW gone \in Culls(o)
    PROVE  gone \subseteq Parked \union SharedSet /\ gone \subseteq Conns
<1>1. Stale \union Spare \subseteq Parked \union SharedSet
  BY DEF Stale, Spare, Resting, SharedSet
<1>2. Parked \union SharedSet \subseteq Conns
  BY DEF TypeOK, BooksTypeOK, Parked, SharedSet
<1> QED BY <1>1, <1>2, OwnType DEF Culls, Oldest

\* The initial states are well typed.
LEMMA InitTypes == Init => Types
<1> SUFFICES ASSUME Init PROVE TypeOK /\ Places /\ Kinds
  BY DEF Types
<1>1. BooksTypeOK
  <2>1. dialing \in [Origins -> BOOLEAN] /\ closed \in BOOLEAN
    BY DEF Init
  <2>2. leased \in [Origins -> Int] /\ leases \in [Origins -> Nat] /\ count \in Int
    BY DEF Init
  <2>3. /\ mode \in [Origins -> {None, "h1", "h2"}]
        /\ shared \in [Origins -> Conns \union {None}]
        /\ idle \in [Origins -> SUBSET Conns]
    BY DEF Init
  <2> QED BY <2>1, <2>2, <2>3 DEF BooksTypeOK
<1>2. ConnsTypeOK
  BY DEF Init, ConnsTypeOK
<1>3. TasksTypeOK
  BY DEF Init, TasksTypeOK
<1>4. Places
  BY DEF Init, Places
<1>5. Kinds
  BY DEF Init, Kinds
<1> QED BY <1>1, <1>2, <1>3, <1>4, <1>5 DEF TypeOK

\* Every step of the pool keeps the types, the places and the kinds: one step per
\* action.
LEMMA TypesStep == Types /\ [Next]_vars => Types'
<1> SUFFICES ASSUME Types, [Next]_vars PROVE Types'
  OBVIOUS
<1> USE TasksAssumption, ConnsAssumption, OriginsAssumption, NoneAssumption, ProtocolAssumption
<1> USE DEF Types, books, stamps, places
<1>1. ASSUME NEW t \in Tasks, NEW o \in Origins, AttemptClosed(t, o) PROVE Types'
  BY <1>1 DEF AttemptClosed, AtAttempt, Leave, TypeOK, BooksTypeOK, ConnsTypeOK, TasksTypeOK, Places, Kinds
<1>2. ASSUME NEW t \in Tasks, NEW o \in Origins, AttemptShared(t, o) PROVE Types'
  <2>1. BooksTypeOK'
    BY <1>2 DEF AttemptShared, TypeOK, BooksTypeOK, ConnsTypeOK, TasksTypeOK, Places
  <2>2. ConnsTypeOK'
    BY <1>2 DEF AttemptShared, Forget, TypeOK, BooksTypeOK, ConnsTypeOK, TasksTypeOK, Places
  <2>3. TasksTypeOK'
    BY <1>2 DEF AttemptShared, NoShared, Live, TypeOK, BooksTypeOK, ConnsTypeOK, TasksTypeOK, Places
  <2>4. Places'
    BY <1>2 DEF AttemptShared, NoShared, Live, AtAttempt, TypeOK, BooksTypeOK, TasksTypeOK, Places, Kinds
  <2>5. Kinds'
    BY <1>2 DEF AttemptShared, TypeOK, BooksTypeOK, TasksTypeOK, Places, Kinds
  <2> QED BY <2>1, <2>2, <2>3, <2>4, <2>5 DEF TypeOK
<1>3. ASSUME NEW t \in Tasks, NEW o \in Origins, AttemptIdle(t, o) PROVE Types'
  <2>1. PICK c \in idle[o] :
          LET gone == ({d \in idle[o] \ {c} : <<c, d>> \in older} \union {shared[o]}) \ {None}
          IN  /\ Remove(gone \union {c})
              /\ Forget(gone \union {c})
              /\ count' = count - Cardinality(gone)
              /\ leased' = [leased EXCEPT ![o] = @ + 1]
              /\ conn' = [conn EXCEPT ![t] = c]
              /\ origin' = [origin EXCEPT ![t] = o]
              /\ CloseAll(t, gone, "hold")
    BY <1>3 DEF AttemptIdle
  <2> DEFINE gone == ({d \in idle[o] \ {c} : <<c, d>> \in older} \union {shared[o]}) \ {None}
  <2>2. gone \subseteq Conns /\ Cardinality(gone) \in Nat /\ c \in Conns
    BY ConnsCounted DEF TypeOK, BooksTypeOK
  <2>3. /\ Remove(gone \union {c})
        /\ Forget(gone \union {c})
        /\ count' = count - Cardinality(gone)
        /\ leased' = [leased EXCEPT ![o] = @ + 1]
        /\ conn' = [conn EXCEPT ![t] = c]
        /\ origin' = [origin EXCEPT ![t] = o]
        /\ CloseAll(t, gone, "hold")
        /\ pc[t] \in {"idle", "attempt"}
        /\ UNCHANGED <<mode, dialing, closed, waiters, joined, wire>>
    BY <1>3, <2>1 DEF AttemptIdle, AtAttempt
  <2> HIDE DEF gone
  <2>4. BooksTypeOK'
    BY <2>2, <2>3 DEF Remove, TypeOK, BooksTypeOK
  <2>5. ConnsTypeOK'
    BY <2>2, <2>3 DEF Forget, TypeOK, ConnsTypeOK
  <2>6. TasksTypeOK'
    BY <2>2, <2>3 DEF CloseAll, Sweeping, TypeOK, TasksTypeOK
  <2>7. Places'
    BY <2>2, <2>3 DEF CloseAll, Sweeping, TypeOK, TasksTypeOK, Places
  <2>8. Kinds'
    BY <2>3 DEF Remove, TypeOK, BooksTypeOK, Kinds
  <2> QED BY <2>4, <2>5, <2>6, <2>7, <2>8 DEF TypeOK
<1>4. ASSUME NEW t \in Tasks, NEW o \in Origins, AttemptJoin(t, o) PROVE Types'
  <2>1. BooksTypeOK'
    BY <1>4, OwnType, ConnsCounted DEF AttemptJoin, Remove, TypeOK, BooksTypeOK, ConnsTypeOK, TasksTypeOK, Places
  <2>2. ConnsTypeOK'
    BY <1>4, OwnType, ConnsCounted DEF AttemptJoin, Forget, TypeOK, BooksTypeOK, ConnsTypeOK, TasksTypeOK, Places
  <2>3. TasksTypeOK'
    BY <1>4, OwnType, ConnsCounted DEF AttemptJoin, CloseAll, Sweeping, TypeOK, BooksTypeOK, ConnsTypeOK, TasksTypeOK, Places
  <2>4. Places'
    BY <1>4, OwnType, ConnsCounted DEF AttemptJoin, AtAttempt, CloseAll, Sweeping, TypeOK, BooksTypeOK, TasksTypeOK, Places, Kinds
  <2>5. Kinds'
    BY <1>4, OwnType, ConnsCounted DEF AttemptJoin, Remove, TypeOK, BooksTypeOK, TasksTypeOK, Places, Kinds
  <2> QED BY <2>1, <2>2, <2>3, <2>4, <2>5 DEF TypeOK
<1>5. ASSUME NEW t \in Tasks, NEW o \in Origins, AttemptDial(t, o) PROVE Types'
  <2>1. BooksTypeOK'
    BY <1>5, CullsType, ConnsCounted DEF AttemptDial, Remove, Pruned, TypeOK, BooksTypeOK, ConnsTypeOK, TasksTypeOK, Places
  <2>2. ConnsTypeOK'
    BY <1>5, CullsType, ConnsCounted DEF AttemptDial, Forget, TypeOK, BooksTypeOK, ConnsTypeOK, TasksTypeOK, Places
  <2>3. TasksTypeOK'
    BY <1>5, CullsType, ConnsCounted DEF AttemptDial, CloseAll, Sweeping, TypeOK, BooksTypeOK, ConnsTypeOK, TasksTypeOK, Places
  <2>4. Places'
    BY <1>5, CullsType, ConnsCounted DEF AttemptDial, AtAttempt, CloseAll, Sweeping, TypeOK, BooksTypeOK, TasksTypeOK, Places, Kinds
  <2>5. Kinds'
    BY <1>5, CullsType, ConnsCounted DEF AttemptDial, Remove, TypeOK, BooksTypeOK, TasksTypeOK, Places, Kinds
  <2> QED BY <2>1, <2>2, <2>3, <2>4, <2>5 DEF TypeOK
<1>6. ASSUME NEW t \in Tasks, NEW o \in Origins, AttemptWait(t, o) PROVE Types'
  <2>1. BooksTypeOK'
    BY <1>6, OwnType, ConnsCounted DEF AttemptWait, Remove, Pruned, TypeOK, BooksTypeOK, ConnsTypeOK, TasksTypeOK, Places
  <2>2. ConnsTypeOK'
    BY <1>6, OwnType, ConnsCounted DEF AttemptWait, Forget, TypeOK, BooksTypeOK, ConnsTypeOK, TasksTypeOK, Places
  <2>3. TasksTypeOK'
    BY <1>6, OwnType, ConnsCounted DEF AttemptWait, CloseAll, Sweeping, TypeOK, BooksTypeOK, ConnsTypeOK, TasksTypeOK, Places
  <2>4. Places'
    BY <1>6, OwnType, ConnsCounted DEF AttemptWait, AtAttempt, CloseAll, Sweeping, TypeOK, BooksTypeOK, TasksTypeOK, Places, Kinds
  <2>5. Kinds'
    BY <1>6, OwnType, ConnsCounted DEF AttemptWait, Remove, TypeOK, BooksTypeOK, TasksTypeOK, Places, Kinds
  <2> QED BY <2>1, <2>2, <2>3, <2>4, <2>5 DEF TypeOK
<1>7. ASSUME NEW t \in Tasks, Sweep(t) PROVE Types'
  BY <1>7 DEF Sweep, Closed, Wake, Leave, TypeOK, BooksTypeOK, ConnsTypeOK, TasksTypeOK, Places, Kinds
<1>8. ASSUME NEW t \in Tasks, SweepCut(t) PROVE Types'
  BY <1>8 DEF SweepCut, Closed, Leave, TypeOK, BooksTypeOK, ConnsTypeOK, TasksTypeOK, Places, Kinds
<1>9. ASSUME NEW t \in Tasks, DialOk(t) PROVE Types'
  <2>1. BooksTypeOK'
    <3>1. CASE closed
      BY <1>9, <3>1 DEF DialOk, Refuse, TypeOK, BooksTypeOK
    <3>2. CASE ~closed
      <4>1. PICK c \in Conns : InstallH2(t, c) \/ InstallH1(t, c)
        BY <1>9, <3>2 DEF DialOk, Install
      <4>2. /\ mode' \in [Origins -> {None, "h1", "h2"}]
            /\ shared' \in [Origins -> Conns \union {None}]
            /\ leased' \in [Origins -> Int]
            /\ leases' \in [Origins -> Nat]
        BY <4>1 DEF InstallH2, InstallH1, TypeOK, BooksTypeOK
      <4>3. /\ dialing' \in [Origins -> BOOLEAN]
            /\ UNCHANGED <<idle, count, closed>>
        BY <1>9, <3>2 DEF DialOk, Install, SignalDial, TypeOK, BooksTypeOK
      <4> QED BY <4>2, <4>3 DEF TypeOK, BooksTypeOK
    <3> QED BY <3>1, <3>2
  <2>2. ConnsTypeOK'
    BY <1>9 DEF DialOk, Refuse, Install, InstallH1, InstallH2, Forget, TypeOK, BooksTypeOK, ConnsTypeOK, TasksTypeOK, Places
  <2>3. TasksTypeOK'
    BY <1>9 DEF DialOk, Refuse, Install, SignalDial, TypeOK, BooksTypeOK, ConnsTypeOK, TasksTypeOK, Places
  <2>4. Places'
    BY <1>9 DEF DialOk, Refuse, Install, TypeOK, BooksTypeOK, TasksTypeOK, Places, Kinds
  <2>5. Kinds'
    BY <1>9 DEF DialOk, Refuse, Install, InstallH1, InstallH2, TypeOK, BooksTypeOK, TasksTypeOK, Places, Kinds
  <2> QED BY <2>1, <2>2, <2>3, <2>4, <2>5 DEF TypeOK
<1>10. ASSUME NEW t \in Tasks, DialFail(t) PROVE Types'
  <2>1. BooksTypeOK'
    BY <1>10 DEF DialFail, SignalDial, Pruned, TypeOK, BooksTypeOK, ConnsTypeOK, TasksTypeOK, Places
  <2>2. ConnsTypeOK'
    BY <1>10 DEF DialFail, TypeOK, BooksTypeOK, ConnsTypeOK, TasksTypeOK, Places
  <2>3. TasksTypeOK'
    BY <1>10 DEF DialFail, SignalDial, Sweeping, TypeOK, BooksTypeOK, ConnsTypeOK, TasksTypeOK, Places
  <2>4. Places'
    BY <1>10 DEF DialFail, Sweeping, TypeOK, BooksTypeOK, TasksTypeOK, Places, Kinds
  <2>5. Kinds'
    BY <1>10 DEF DialFail, TypeOK, BooksTypeOK, TasksTypeOK, Places, Kinds
  <2> QED BY <2>1, <2>2, <2>3, <2>4, <2>5 DEF TypeOK
<1>11. ASSUME NEW t \in Tasks, CloseRefused(t) PROVE Types'
  BY <1>11 DEF CloseRefused, Closed, Leave, TypeOK, BooksTypeOK, ConnsTypeOK, TasksTypeOK, Places, Kinds
<1>12. ASSUME NEW t \in Tasks, ReadyOk(t) PROVE Types'
  BY <1>12 DEF ReadyOk, TypeOK, BooksTypeOK, ConnsTypeOK, TasksTypeOK, Places, Kinds
<1>13. ASSUME NEW t \in Tasks, ReadyFail(t) PROVE Types'
  <2>1. BooksTypeOK'
    BY <1>13 DEF ReadyFail, DropLease, HoldsLease, IsShared, TypeOK, BooksTypeOK, ConnsTypeOK, TasksTypeOK, Places
  <2>2. ConnsTypeOK'
    BY <1>13 DEF ReadyFail, DropLease, Stamp, Spare, Parked, Resting, TypeOK, BooksTypeOK, ConnsTypeOK, TasksTypeOK, Places
  <2>3. TasksTypeOK'
    BY <1>13 DEF ReadyFail, TypeOK, BooksTypeOK, ConnsTypeOK, TasksTypeOK, Places
  <2>4. Places'
    BY <1>13 DEF ReadyFail, TypeOK, BooksTypeOK, TasksTypeOK, Places, Kinds
  <2>5. Kinds'
    BY <1>13 DEF ReadyFail, TypeOK, BooksTypeOK, TasksTypeOK, Places, Kinds
  <2> QED BY <2>1, <2>2, <2>3, <2>4, <2>5 DEF TypeOK
<1>14. ASSUME NEW t \in Tasks, Evict(t) PROVE Types'
  <2>1. BooksTypeOK'
    BY <1>14 DEF Evict, Remove, Pruned, TypeOK, BooksTypeOK, ConnsTypeOK, TasksTypeOK, Places
  <2>2. ConnsTypeOK'
    BY <1>14 DEF Evict, Forget, TypeOK, BooksTypeOK, ConnsTypeOK, TasksTypeOK, Places
  <2>3. TasksTypeOK'
    BY <1>14 DEF Evict, Sweeping, TypeOK, BooksTypeOK, ConnsTypeOK, TasksTypeOK, Places
  <2>4. Places'
    BY <1>14 DEF Evict, Sweeping, TypeOK, BooksTypeOK, TasksTypeOK, Places, Kinds
  <2>5. Kinds'
    BY <1>14 DEF Evict, Remove, TypeOK, BooksTypeOK, TasksTypeOK, Places, Kinds
  <2> QED BY <2>1, <2>2, <2>3, <2>4, <2>5 DEF TypeOK
<1>15. ASSUME NEW t \in Tasks, ReadyGiveUp(t) PROVE Types'
  <2>1. BooksTypeOK'
    BY <1>15 DEF ReadyGiveUp, DropLease, HoldsLease, IsShared, TypeOK, BooksTypeOK, ConnsTypeOK, TasksTypeOK, Places
  <2>2. ConnsTypeOK'
    BY <1>15 DEF ReadyGiveUp, DropLease, Stamp, Spare, Parked, Resting, TypeOK, BooksTypeOK, ConnsTypeOK, TasksTypeOK, Places
  <2>3. TasksTypeOK'
    BY <1>15 DEF ReadyGiveUp, Leave, TypeOK, BooksTypeOK, ConnsTypeOK, TasksTypeOK, Places
  <2>4. Places'
    BY <1>15 DEF ReadyGiveUp, Leave, TypeOK, BooksTypeOK, TasksTypeOK, Places, Kinds
  <2>5. Kinds'
    BY <1>15 DEF ReadyGiveUp, TypeOK, BooksTypeOK, TasksTypeOK, Places, Kinds
  <2> QED BY <2>1, <2>2, <2>3, <2>4, <2>5 DEF TypeOK
<1>16. ASSUME NEW t \in Tasks, WaitWake(t) PROVE Types'
  BY <1>16 DEF WaitWake, TypeOK, BooksTypeOK, ConnsTypeOK, TasksTypeOK, Places, Kinds
<1>17. ASSUME NEW t \in Tasks, WaitGiveUp(t) PROVE Types'
  BY <1>17 DEF WaitGiveUp, Leave, TypeOK, BooksTypeOK, ConnsTypeOK, TasksTypeOK, Places, Kinds
<1>18. ASSUME NEW t \in Tasks, NEW d \in BOOLEAN, Release(t, d), ReleaseShared(t) PROVE Types'
  <2>1. BooksTypeOK'
    BY <1>18 DEF Release, ReleaseShared, DropLease, HoldsLease, IsShared, TypeOK, BooksTypeOK, ConnsTypeOK, TasksTypeOK, Places
  <2>2. ConnsTypeOK'
    BY <1>18 DEF Release, ReleaseShared, DropLease, Stamp, Spare, Parked, Resting, TypeOK, BooksTypeOK, ConnsTypeOK, TasksTypeOK, Places
  <2>3. TasksTypeOK'
    BY <1>18 DEF Release, ReleaseShared, Sweeping, Leave, TypeOK, BooksTypeOK, ConnsTypeOK, TasksTypeOK, Places
  <2>4. Places'
    BY <1>18 DEF Release, ReleaseShared, Sweeping, Leave, TypeOK, BooksTypeOK, TasksTypeOK, Places, Kinds
  <2>5. Kinds'
    BY <1>18 DEF Release, ReleaseShared, TypeOK, BooksTypeOK, TasksTypeOK, Places, Kinds
  <2> QED BY <2>1, <2>2, <2>3, <2>4, <2>5 DEF TypeOK
<1>19. ASSUME NEW t \in Tasks, NEW d \in BOOLEAN, Release(t, d), ReleaseExclusive(t, d), Park(t) PROVE Types'
  <2> DEFINE over == Overflow(Parked \union {conn[t]}, older \union (Spare \X {conn[t]}))
  <2>0. /\ over \subseteq Conns /\ Cardinality(over) \in Nat
        /\ conn[t] \in Conns \ Multiplexed /\ origin[t] \in Origins /\ pc[t] = "hold"
    <3>1. conn[t] \in Conns \ Multiplexed /\ origin[t] \in Origins /\ pc[t] = "hold"
      BY <1>19 DEF Release, ReleaseExclusive, Places
    <3>2. over \subseteq Conns
      BY <3>1 DEF Overflow, Parked, TypeOK, BooksTypeOK
    <3> QED BY <3>1, <3>2, ConnsCounted
  <2>1. BooksTypeOK'
    BY <1>19, <2>0 DEF Release, ReleaseExclusive, Park, DropLeased, Pruned, TypeOK, BooksTypeOK, ConnsTypeOK, TasksTypeOK, Places
  <2>2. ConnsTypeOK'
    BY <1>19, <2>0 DEF Release, ReleaseExclusive, Park, Spare, Parked, Resting, TypeOK, BooksTypeOK, ConnsTypeOK, TasksTypeOK, Places
  <2>3. TasksTypeOK'
    BY <1>19, <2>0 DEF Release, ReleaseExclusive, Park, Sweeping, TypeOK, BooksTypeOK, ConnsTypeOK, TasksTypeOK, Places
  <2>4. Places'
    BY <1>19, <2>0 DEF Release, ReleaseExclusive, Park, Sweeping, TypeOK, BooksTypeOK, TasksTypeOK, Places, Kinds
  <2>5. Kinds'
    BY <1>19, <2>0 DEF Release, ReleaseExclusive, Park, TypeOK, BooksTypeOK, TasksTypeOK, Places, Kinds
  <2> QED BY <2>1, <2>2, <2>3, <2>4, <2>5 DEF TypeOK
<1>20. ASSUME NEW t \in Tasks, NEW d \in BOOLEAN, Release(t, d), ReleaseExclusive(t, d), Discard(t) PROVE Types'
  <2>1. BooksTypeOK'
    BY <1>20 DEF Release, Discard, DropLeased, Pruned, TypeOK, BooksTypeOK, ConnsTypeOK, TasksTypeOK, Places
  <2>2. ConnsTypeOK'
    BY <1>20 DEF Release, Discard, TypeOK, BooksTypeOK, ConnsTypeOK, TasksTypeOK, Places
  <2>3. TasksTypeOK'
    BY <1>20 DEF Release, ReleaseExclusive, Discard, Sweeping, TypeOK, BooksTypeOK, ConnsTypeOK, TasksTypeOK, Places
  <2>4. Places'
    BY <1>20 DEF Release, ReleaseExclusive, Discard, Sweeping, TypeOK, BooksTypeOK, TasksTypeOK, Places, Kinds
  <2>5. Kinds'
    BY <1>20 DEF Release, Discard, TypeOK, BooksTypeOK, TasksTypeOK, Places, Kinds
  <2> QED BY <2>1, <2>2, <2>3, <2>4, <2>5 DEF TypeOK
<1>21. ASSUME NEW t \in Tasks, ClosePool(t) PROVE Types'
  <2>1. BooksTypeOK'
    BY <1>21 DEF ClosePool, TypeOK, BooksTypeOK, ConnsTypeOK, TasksTypeOK, Places
  <2>2. ConnsTypeOK'
    BY <1>21 DEF ClosePool, Forget, TypeOK, BooksTypeOK, ConnsTypeOK, TasksTypeOK, Places
  <2>3. TasksTypeOK'
    BY <1>21 DEF ClosePool, Sweeping, Parked, SharedSet, TypeOK, BooksTypeOK, ConnsTypeOK, TasksTypeOK, Places
  <2>4. Places'
    BY <1>21 DEF ClosePool, Sweeping, TypeOK, BooksTypeOK, TasksTypeOK, Places, Kinds
  <2>5. Kinds'
    BY <1>21 DEF ClosePool, TypeOK, BooksTypeOK, TasksTypeOK, Places, Kinds
  <2> QED BY <2>1, <2>2, <2>3, <2>4, <2>5 DEF TypeOK
<1>22. ASSUME EnvStep PROVE Types'
  BY <1>22 DEF EnvStep, Break, Expire, Spare, Parked, Resting, TypeOK, BooksTypeOK, ConnsTypeOK, TasksTypeOK, Places, Kinds
<1>23. CASE UNCHANGED vars
  BY <1>23 DEF vars, TypeOK, BooksTypeOK, ConnsTypeOK, TasksTypeOK, Places, Kinds
<1>24. ASSUME NEW t \in Tasks, NEW d \in BOOLEAN, Release(t, d) PROVE Types'
  BY <1>18, <1>19, <1>20, <1>24 DEF Release, ReleaseExclusive
<1> QED
  BY <1>1, <1>2, <1>3, <1>4, <1>5, <1>6, <1>7, <1>8, <1>9, <1>10, <1>11, <1>12, <1>13, <1>14,
     <1>15, <1>16, <1>17, <1>21, <1>22, <1>23, <1>24 DEF Next, TaskStep, Attempt

\* Type correctness, over every behaviour.
THEOREM TypeCorrect == Spec => []TypeOK
<1>1. Init => Types
  BY InitTypes
<1>2. Types /\ [Next]_vars => Types'
  BY TypesStep
<1>3. Types => TypeOK
  BY DEF Types
<1> QED BY <1>1, <1>2, <1>3, PTL DEF Spec
-----------------------------------------------------------------------------

\* A task takes connections only out of the books to close them, and gives up
\* or shares the one it has: nothing that has a place gets a second one.
LEMMA CullKeepsExclusive ==
    ASSUME Types, ExclusiveUse, NEW t \in Tasks, NEW gone \in SUBSET (Parked \union Multiplexed),
           \A o \in Origins : idle'[o] = idle[o] \ gone,
           \A u \in Tasks : conn'[u] = conn[u] \/ conn'[u] \in Multiplexed \union {None},
           \A u \in Tasks : closing'[u] \subseteq closing[u] \/ (u = t /\ closing'[u] \subseteq gone)
    PROVE  ExclusiveUse'
<1> USE NoneAssumption, ConnsAssumption
<1> SUFFICES ASSUME NEW c \in Conns \ Multiplexed
             PROVE  /\ \A u, v \in Tasks : conn'[u] = c /\ conn'[v] = c => u = v
                    /\ \A o, p \in Origins : c \in idle'[o] \intersect idle'[p] => o = p
                    /\ \A u, v \in Tasks : c \in closing'[u] \intersect closing'[v] => u = v
                    /\ c \in Held' => c \notin Parked'
                    /\ \A u \in Tasks : c \in closing'[u] => c \notin Held' \union Parked'
  BY DEF ExclusiveUse
<1>1. /\ \A u \in Tasks : conn'[u] = c => conn[u] = c
      /\ c \in Held' => c \in Held
  BY DEF Held
<1>2. c \in Parked' => c \in Parked /\ c \notin gone
  BY DEF Parked
<1>3. c \in gone => c \in Parked
  OBVIOUS
<1>4. \A u, v \in Tasks : c \in closing'[u] \intersect closing'[v] => u = v
  BY <1>3 DEF ExclusiveUse
<1>5. \A u \in Tasks : c \in closing'[u] => c \notin Held' \union Parked'
  BY <1>1, <1>2, <1>3 DEF ExclusiveUse
<1> QED BY <1>1, <1>2, <1>4, <1>5 DEF ExclusiveUse

\* A step that parks nothing, and in which nobody is given an h1 connection or
\* starts to close one, keeps every connection in one place.
LEMMA ShrinkKeepsExclusive ==
    ASSUME Types, ExclusiveUse, NEW t \in Tasks,
           idle' = idle,
           \A u \in Tasks : conn'[u] = conn[u] \/ conn'[u] \in Multiplexed \union {None},
           \A u \in Tasks : closing'[u] \subseteq closing[u] \/ (u = t /\ closing'[u] \subseteq Multiplexed)
    PROVE  ExclusiveUse'
<1> DEFINE gone == Multiplexed
<1>1. \A o \in Origins : idle'[o] = idle[o] \ gone
  BY DEF Types, Kinds
<1> QED BY <1>1, CullKeepsExclusive

\* No step of the pool gives an h1 connection a second place.
LEMMA ExclusiveStep == Types /\ ExclusiveUse /\ [Next]_vars => ExclusiveUse'
<1> SUFFICES ASSUME Types, ExclusiveUse, [Next]_vars PROVE ExclusiveUse'
  OBVIOUS
<1> USE NoneAssumption, ConnsAssumption, ProtocolAssumption
<1> USE DEF Types, books, stamps, places
<1>1. ASSUME NEW t \in Tasks, NEW o \in Origins, AttemptClosed(t, o) PROVE ExclusiveUse'
  BY <1>1, ShrinkKeepsExclusive DEF AttemptClosed, Leave, TypeOK, TasksTypeOK
<1>2. ASSUME NEW t \in Tasks, NEW o \in Origins, AttemptShared(t, o) PROVE ExclusiveUse'
  BY <1>2, ShrinkKeepsExclusive DEF AttemptShared, TypeOK, TasksTypeOK, Kinds
<1>3. ASSUME NEW t \in Tasks, NEW o \in Origins, AttemptIdle(t, o) PROVE ExclusiveUse'
  <2> DEFINE Gone(c) == ({d \in idle[o] \ {c} : <<c, d>> \in older} \union {shared[o]}) \ {None}
  <2>1. PICK c \in idle[o] :
          /\ Remove(Gone(c) \union {c})
          /\ conn' = [conn EXCEPT ![t] = c]
          /\ CloseAll(t, Gone(c), "hold")
    BY <1>3 DEF AttemptIdle
  <2> DEFINE gone == Gone(c)
  <2>2. /\ c \in Conns \ Multiplexed /\ c \in Parked /\ c \notin gone
        /\ gone \subseteq Parked \union Multiplexed
    BY DEF TypeOK, BooksTypeOK, Kinds, Parked
  <2>3. /\ \A p \in Origins : idle'[p] = idle[p] \ (gone \union {c})
        /\ conn' = [conn EXCEPT ![t] = c]
        /\ \A u \in Tasks : closing'[u] = closing[u] \/ (u = t /\ closing'[u] = gone)
    BY <2>1 DEF Remove, CloseAll, Sweeping, TypeOK, TasksTypeOK
  <2> HIDE DEF gone
  <2> SUFFICES ASSUME NEW d \in Conns \ Multiplexed
               PROVE  /\ \A u, v \in Tasks : conn'[u] = d /\ conn'[v] = d => u = v
                      /\ \A p, q \in Origins : d \in idle'[p] \intersect idle'[q] => p = q
                      /\ \A u, v \in Tasks : d \in closing'[u] \intersect closing'[v] => u = v
                      /\ d \in Held' => d \notin Parked'
                      /\ \A u \in Tasks : d \in closing'[u] => d \notin Held' \union Parked'
    BY DEF ExclusiveUse
  <2>4. d \in Held' => d = c \/ d \in Held
    BY <2>3 DEF Held, TypeOK, TasksTypeOK
  <2>5. d \in Parked' => d \in Parked /\ d \notin gone \union {c}
    BY <2>3 DEF Parked
  <2>6. \A u \in Tasks : conn[u] = d => d \in Held
    BY DEF Held
  <2>7. \A u, v \in Tasks : conn'[u] = d /\ conn'[v] = d => u = v
    BY <2>2, <2>3, <2>6 DEF ExclusiveUse, TypeOK, TasksTypeOK
  <2>8. \A u, v \in Tasks : d \in closing'[u] \intersect closing'[v] => u = v
    BY <2>2, <2>3 DEF ExclusiveUse
  <2>9. \A u \in Tasks : d \in closing'[u] => d \notin Held' \union Parked'
    BY <2>2, <2>3, <2>4, <2>5 DEF ExclusiveUse
  <2> QED BY <2>3, <2>4, <2>5, <2>7, <2>8, <2>9 DEF ExclusiveUse
<1>4. ASSUME NEW t \in Tasks, NEW o \in Origins, AttemptJoin(t, o) PROVE ExclusiveUse'
  <2>1. Own(o) \subseteq Parked \union Multiplexed
    BY OwnType DEF Kinds, SharedSet
  <2>2. /\ \A p \in Origins : idle'[p] = idle[p] \ Own(o)
        /\ conn' = conn
        /\ \A u \in Tasks : closing'[u] = closing[u] \/ (u = t /\ closing'[u] = Own(o))
    BY <1>4 DEF AttemptJoin, Remove, CloseAll, Sweeping, TypeOK, TasksTypeOK
  <2> QED BY <2>1, <2>2, CullKeepsExclusive
<1>5. ASSUME NEW t \in Tasks, NEW o \in Origins, AttemptDial(t, o) PROVE ExclusiveUse'
  <2>1. PICK gone \in Culls(o) : Remove(gone) /\ CloseAll(t, gone, "dial")
    BY <1>5 DEF AttemptDial
  <2>2. gone \subseteq Parked \union Multiplexed
    BY CullsType DEF Kinds, SharedSet
  <2>3. /\ \A p \in Origins : idle'[p] = idle[p] \ gone
        /\ conn' = conn
        /\ \A u \in Tasks : closing'[u] = closing[u] \/ (u = t /\ closing'[u] = gone)
    BY <1>5, <2>1 DEF AttemptDial, Remove, CloseAll, Sweeping, TypeOK, TasksTypeOK
  <2> QED BY <2>2, <2>3, CullKeepsExclusive
<1>6. ASSUME NEW t \in Tasks, NEW o \in Origins, AttemptWait(t, o) PROVE ExclusiveUse'
  <2>1. Own(o) \subseteq Parked \union Multiplexed
    BY OwnType DEF Kinds, SharedSet
  <2>2. /\ \A p \in Origins : idle'[p] = idle[p] \ Own(o)
        /\ conn' = conn
        /\ \A u \in Tasks : closing'[u] = closing[u] \/ (u = t /\ closing'[u] = Own(o))
    BY <1>6 DEF AttemptWait, Remove, CloseAll, Sweeping, TypeOK, TasksTypeOK
  <2> QED BY <2>1, <2>2, CullKeepsExclusive
<1>7. ASSUME NEW t \in Tasks, Sweep(t) PROVE ExclusiveUse'
  BY <1>7, ShrinkKeepsExclusive DEF Sweep, Leave, TypeOK, TasksTypeOK
<1>8. ASSUME NEW t \in Tasks, SweepCut(t) PROVE ExclusiveUse'
  BY <1>8, ShrinkKeepsExclusive DEF SweepCut, Leave, TypeOK, TasksTypeOK
<1>9. ASSUME NEW t \in Tasks, DialOk(t) PROVE ExclusiveUse'
  <2>1. PICK c \in Conns : Fresh(c) /\ IF closed THEN Refuse(t, c) ELSE Install(t, c)
    BY <1>9 DEF DialOk
  <2>2. /\ c \notin Parked /\ c \notin Held
        /\ \A u \in Tasks : conn[u] # c /\ c \notin closing[u]
    BY <2>1 DEF Fresh, Held
  <2>3. idle' = idle
    BY <2>1 DEF Refuse, Install
  <2>4. \/ conn' = conn /\ closing' = [closing EXCEPT ![t] = {c}]
        \/ conn' = [conn EXCEPT ![t] = c] /\ closing' = closing
    BY <2>1 DEF Refuse, Install
  <2> SUFFICES ASSUME NEW d \in Conns \ Multiplexed
               PROVE  /\ \A u, v \in Tasks : conn'[u] = d /\ conn'[v] = d => u = v
                      /\ \A p, q \in Origins : d \in idle'[p] \intersect idle'[q] => p = q
                      /\ \A u, v \in Tasks : d \in closing'[u] \intersect closing'[v] => u = v
                      /\ d \in Held' => d \notin Parked'
                      /\ \A u \in Tasks : d \in closing'[u] => d \notin Held' \union Parked'
    BY DEF ExclusiveUse
  <2>5. Parked' = Parked
    BY <2>3 DEF Parked
  <2>6. CASE conn' = conn /\ closing' = [closing EXCEPT ![t] = {c}]
    <3>1. Held' = Held
      BY <2>6 DEF Held
    <3> QED BY <2>2, <2>3, <2>5, <2>6, <3>1 DEF ExclusiveUse, TypeOK, TasksTypeOK
  <2>7. CASE conn' = [conn EXCEPT ![t] = c] /\ closing' = closing
    <3>1. d \in Held' => d = c \/ d \in Held
      BY <2>7 DEF Held, TypeOK, TasksTypeOK
    <3> QED BY <2>2, <2>3, <2>5, <2>7, <3>1 DEF ExclusiveUse, TypeOK, TasksTypeOK
  <2> QED BY <2>4, <2>6, <2>7
<1>10. ASSUME NEW t \in Tasks, DialFail(t) PROVE ExclusiveUse'
  BY <1>10, ShrinkKeepsExclusive DEF DialFail, Sweeping, TypeOK, TasksTypeOK
<1>11. ASSUME NEW t \in Tasks, CloseRefused(t) PROVE ExclusiveUse'
  BY <1>11, ShrinkKeepsExclusive DEF CloseRefused, Leave, TypeOK, TasksTypeOK
<1>12. ASSUME NEW t \in Tasks, ReadyOk(t) PROVE ExclusiveUse'
  BY <1>12, ShrinkKeepsExclusive DEF ReadyOk, TypeOK, TasksTypeOK
<1>13. ASSUME NEW t \in Tasks, ReadyFail(t) PROVE ExclusiveUse'
  BY <1>13, ShrinkKeepsExclusive DEF ReadyFail, TypeOK, TasksTypeOK
<1>14. ASSUME NEW t \in Tasks, Evict(t) PROVE ExclusiveUse'
  <2>1. conn[t] \in Multiplexed
    BY <1>14 DEF Evict, Places
  <2>2. \A p \in Origins : idle'[p] = idle[p] \ {conn[t]}
    BY <1>14, <2>1 DEF Evict, Remove, Kinds
  <2>3. \A u \in Tasks : conn'[u] = conn[u] \/ conn'[u] \in Multiplexed \union {None}
    BY <1>14 DEF Evict, TypeOK, TasksTypeOK
  <2>4. \A u \in Tasks : closing'[u] \subseteq closing[u] \/ (u = t /\ closing'[u] \subseteq {conn[t]})
    BY <1>14 DEF Evict, Sweeping, TypeOK, TasksTypeOK
  <2>5. {conn[t]} \in SUBSET (Parked \union Multiplexed)
    BY <2>1
  <2> QED BY <2>2, <2>3, <2>4, <2>5, CullKeepsExclusive
<1>15. ASSUME NEW t \in Tasks, ReadyGiveUp(t) PROVE ExclusiveUse'
  BY <1>15, ShrinkKeepsExclusive DEF ReadyGiveUp, Leave, TypeOK, TasksTypeOK
<1>16. ASSUME NEW t \in Tasks, WaitWake(t) PROVE ExclusiveUse'
  BY <1>16, ShrinkKeepsExclusive DEF WaitWake, TypeOK, TasksTypeOK
<1>17. ASSUME NEW t \in Tasks, WaitGiveUp(t) PROVE ExclusiveUse'
  BY <1>17, ShrinkKeepsExclusive DEF WaitGiveUp, Leave, TypeOK, TasksTypeOK
<1>18. ASSUME NEW t \in Tasks, ReleaseShared(t) PROVE ExclusiveUse'
  BY <1>18, ShrinkKeepsExclusive DEF ReleaseShared, Sweeping, Leave, TypeOK, TasksTypeOK
<1>19. ASSUME NEW t \in Tasks, NEW d \in BOOLEAN, Release(t, d), ReleaseExclusive(t, d)
       PROVE  ExclusiveUse'
  <2> DEFINE c == conn[t]
             over == Overflow(Parked \union {c}, older \union (Spare \X {c}))
  <2>1. c \in Conns \ Multiplexed /\ c \in Held /\ origin[t] \in Origins
    BY <1>19 DEF Release, ReleaseExclusive, Places, Held
  <2>2. /\ \A u \in Tasks \ {t} : conn[u] # c
        /\ c \notin Parked
        /\ \A u \in Tasks : c \notin closing[u]
    BY <2>1 DEF ExclusiveUse
  <2>3. conn' = [conn EXCEPT ![t] = None]
    BY <1>19 DEF ReleaseExclusive
  <2>4. c \notin Held'
    BY <2>2, <2>3 DEF Held, TypeOK, TasksTypeOK
  <2>5. \A e \in Conns \ Multiplexed : e \in Held' => e \in Held
    BY <2>3 DEF Held, TypeOK, TasksTypeOK
  <2>6. CASE Park(t)
    <3>1. over \subseteq Parked \union {c}
      BY DEF Overflow
    <3>2. /\ \A p \in Origins : idle'[p] \subseteq (idle[p] \union (IF p = origin[t] THEN {c} ELSE {})) \ over
          /\ closing' = [closing EXCEPT ![t] = over]
      BY <2>6 DEF Park, Sweeping
    <3> HIDE DEF over, c
    <3> SUFFICES ASSUME NEW e \in Conns \ Multiplexed
                 PROVE  /\ \A u, v \in Tasks : conn'[u] = e /\ conn'[v] = e => u = v
                        /\ \A p, q \in Origins : e \in idle'[p] \intersect idle'[q] => p = q
                        /\ \A u, v \in Tasks : e \in closing'[u] \intersect closing'[v] => u = v
                        /\ e \in Held' => e \notin Parked'
                        /\ \A u \in Tasks : e \in closing'[u] => e \notin Held' \union Parked'
      BY DEF ExclusiveUse
    <3>3. e \in Parked' => (e \in Parked \/ e = c) /\ e \notin over
      BY <3>2 DEF Parked
    <3>4. \A p \in Origins : e \in idle[p] => e \in Parked
      BY DEF Parked
    <3>5. \A p, q \in Origins : e \in idle'[p] \intersect idle'[q] => p = q
      BY <2>2, <3>2, <3>4 DEF ExclusiveUse
    <3>6. \A u, v \in Tasks : e \in closing'[u] \intersect closing'[v] => u = v
      BY <2>2, <3>1, <3>2 DEF ExclusiveUse, TypeOK, TasksTypeOK
    <3>7. \A u \in Tasks : e \in closing'[u] => e \notin Held' \union Parked'
      BY <2>2, <2>4, <2>5, <3>1, <3>2, <3>3 DEF ExclusiveUse, TypeOK, TasksTypeOK
    <3>8. \A u, v \in Tasks : conn'[u] = e /\ conn'[v] = e => u = v
      BY <2>3 DEF ExclusiveUse, TypeOK, TasksTypeOK
    <3> QED BY <2>4, <2>5, <3>3, <3>5, <3>6, <3>7, <3>8 DEF ExclusiveUse
  <2>7. CASE Discard(t)
    <3>1. idle' = idle /\ closing' = [closing EXCEPT ![t] = {c}]
      BY <2>7 DEF Discard, Sweeping
    <3>2. Parked' = Parked
      BY <3>1 DEF Parked
    <3> HIDE DEF c
    <3> SUFFICES ASSUME NEW e \in Conns \ Multiplexed
                 PROVE  /\ \A u, v \in Tasks : conn'[u] = e /\ conn'[v] = e => u = v
                        /\ \A p, q \in Origins : e \in idle'[p] \intersect idle'[q] => p = q
                        /\ \A u, v \in Tasks : e \in closing'[u] \intersect closing'[v] => u = v
                        /\ e \in Held' => e \notin Parked'
                        /\ \A u \in Tasks : e \in closing'[u] => e \notin Held' \union Parked'
      BY DEF ExclusiveUse
    <3>3. \A u, v \in Tasks : conn'[u] = e /\ conn'[v] = e => u = v
      BY <2>3 DEF ExclusiveUse, TypeOK, TasksTypeOK
    <3> QED BY <2>2, <2>4, <2>5, <3>1, <3>2, <3>3 DEF ExclusiveUse, TypeOK, TasksTypeOK
  <2> QED BY <1>19, <2>6, <2>7 DEF ReleaseExclusive
<1>20. ASSUME NEW t \in Tasks, ClosePool(t) PROVE ExclusiveUse'
  <2> DEFINE gone == Parked \union SharedSet
  <2>1. gone \subseteq Parked \union Multiplexed
    BY DEF Kinds, SharedSet
  <2>2. \A p \in Origins : idle'[p] = idle[p] \ gone
    BY <1>20 DEF ClosePool, Parked
  <2> QED BY <1>20, <2>1, <2>2, CullKeepsExclusive DEF ClosePool, Sweeping, TypeOK, TasksTypeOK
<1>21. ASSUME UNCHANGED <<idle, conn, closing>> PROVE ExclusiveUse'
  BY <1>21 DEF ExclusiveUse, Held, Parked
<1>22. CASE UNCHANGED vars
  BY <1>21, <1>22 DEF vars
<1>23. CASE EnvStep
  BY <1>21, <1>23 DEF EnvStep, Break, Expire
<1>24. ASSUME NEW t \in Tasks, NEW d \in BOOLEAN, Release(t, d) PROVE ExclusiveUse'
  BY <1>18, <1>19, <1>24 DEF Release
<1> QED
  BY <1>1, <1>2, <1>3, <1>4, <1>5, <1>6, <1>7, <1>8, <1>9, <1>10, <1>11, <1>12, <1>13, <1>14,
     <1>15, <1>16, <1>17, <1>20, <1>22, <1>23, <1>24 DEF Next, TaskStep, Attempt

\* An h1 connection is with one caller, parked once, or being closed by one
\* task: whatever is interrupted, and whatever the limits and the protocols.
THEOREM ExclusiveUseHolds == Spec => []ExclusiveUse
<1>1. Init => ExclusiveUse
  BY ConnsAssumption DEF Init, ExclusiveUse, Held, Parked
<1>2. Types /\ ExclusiveUse /\ [Next]_vars => (Types /\ ExclusiveUse)'
  BY TypesStep, ExclusiveStep
<1> QED BY InitTypes, <1>1, <1>2, PTL DEF Spec
-----------------------------------------------------------------------------

\* What makes the cap inductive: every connection and every dial that takes up
\* capacity is in _count (leaks may leave _count too high, never too low), and
\* _count itself stays within max_connections.
LiveCounted == ~closed => Cardinality(Counted) + Cardinality(Dialers) <= count

CountCapped == ~closed /\ MaxConns # None => count <= MaxConns

CapInv == Types /\ ExclusiveUse /\ LiveCounted /\ CountCapped

\* What takes up capacity can be counted.
LEMMA FiniteBooks ==
    ASSUME TypeOK
    PROVE  /\ Counted \subseteq Conns /\ IsFiniteSet(Counted) /\ Cardinality(Counted) \in Nat
           /\ IsFiniteSet(Dialers) /\ Cardinality(Dialers) \in Nat
<1>1. Counted \subseteq Conns
  BY DEF TypeOK, BooksTypeOK, TasksTypeOK, Counted, Parked, SharedSet, Held
<1>2. IsFiniteSet(Dialers) /\ Cardinality(Dialers) \in Nat
  BY TasksAssumption, FS_Subset, FS_CardinalityType DEF Dialers
<1> QED BY <1>1, <1>2, ConnsCounted

\* A subset of a finite set is not larger.
LEMMA SubsetCard ==
    ASSUME NEW S, NEW T, IsFiniteSet(S), T \subseteq S
    PROVE  /\ IsFiniteSet(T) /\ Cardinality(T) \in Nat
           /\ Cardinality(S) \in Nat /\ Cardinality(T) <= Cardinality(S)
BY FS_Subset, FS_CardinalityType

\* One element more makes a set larger by one at most.
LEMMA AddCard ==
    ASSUME NEW S, NEW x, IsFiniteSet(S)
    PROVE  IsFiniteSet(S \union {x}) /\ Cardinality(S \union {x}) <= Cardinality(S) + 1
<1>1. Cardinality(S) \in Nat
  BY FS_CardinalityType
<1>2. /\ IsFiniteSet(S \union {x})
      /\ Cardinality(S \union {x}) = IF x \in S THEN Cardinality(S) ELSE Cardinality(S) + 1
  BY FS_AddElement
<1> QED BY <1>1, <1>2

\* Removing a part of a finite set takes its size off.
LEMMA DifferenceCard ==
    ASSUME NEW S, NEW gone, NEW rest, IsFiniteSet(S), gone \subseteq S, rest \subseteq S \ gone
    PROVE  Cardinality(rest) <= Cardinality(S) - Cardinality(gone)
<1>1. /\ IsFiniteSet(gone) /\ IsFiniteSet(rest)
      /\ Cardinality(S) \in Nat /\ Cardinality(gone) \in Nat /\ Cardinality(rest) \in Nat
  BY SubsetCard
<1>2. Cardinality(rest \union gone) = Cardinality(rest) + Cardinality(gone)
  <2>1. rest \intersect gone = {}
    OBVIOUS
  <2>2. Cardinality(rest \intersect gone) = 0
    BY <2>1, FS_EmptySet
  <2>3. Cardinality(rest \union gone) =
          Cardinality(rest) + Cardinality(gone) - Cardinality(rest \intersect gone)
    BY <1>1, FS_Union
  <2> QED BY <1>1, <2>2, <2>3
<1>3. Cardinality(rest \union gone) <= Cardinality(S)
  BY SubsetCard
<1> QED BY <1>1, <1>2, <1>3

\* A step that takes `gone` off the books and off _count, and starts no dial.
LEMMA CountAfterRemoval ==
    ASSUME CapInv, ~closed, NEW gone \in SUBSET Counted,
           Counted' \subseteq Counted \ gone, Dialers' \subseteq Dialers,
           count' = count - Cardinality(gone)
    PROVE  LiveCounted' /\ CountCapped'
<1> USE DEF CapInv, Types
<1>1. Cardinality(Counted') <= Cardinality(Counted) - Cardinality(gone)
  BY FiniteBooks, DifferenceCard
<1>2. Cardinality(Dialers') <= Cardinality(Dialers) /\ Cardinality(Dialers') \in Nat
  BY FiniteBooks, SubsetCard
<1>3. /\ Cardinality(gone) \in Nat /\ Cardinality(Counted') \in Nat
      /\ Cardinality(Counted) \in Nat /\ Cardinality(Dialers) \in Nat /\ count \in Int
  BY FiniteBooks, SubsetCard DEF TypeOK, BooksTypeOK
<1>4. LiveCounted'
  BY <1>1, <1>2, <1>3 DEF LiveCounted
<1>5. CountCapped'
  BY <1>3, LimitsAssumption DEF CountCapped
<1> QED BY <1>4, <1>5

\* A step that neither changes _count nor adds a connection or a dial keeps both
\* bounds.
LEMMA CountUnchanged ==
    ASSUME CapInv, ~closed, Counted' \subseteq Counted, Dialers' \subseteq Dialers, count' = count
    PROVE  LiveCounted' /\ CountCapped'
<1> DEFINE none == {}
<1>1. none \in SUBSET Counted /\ Counted' \subseteq Counted \ none
  OBVIOUS
<1>2. count' = count - Cardinality(none)
  BY FS_EmptySet DEF CapInv, Types, TypeOK, BooksTypeOK
<1> QED BY <1>1, <1>2, CountAfterRemoval

\* An h1 connection in a caller's hands is not among those taken off the books.
LEMMA RemoveCounted ==
    ASSUME Types, ExclusiveUse, NEW gone \in SUBSET (Parked \union SharedSet),
           Remove(gone), Held' \subseteq Held
    PROVE  gone \subseteq Counted /\ Counted' \subseteq Counted \ gone
<1>1. Parked' \subseteq Parked \ gone
  BY DEF Remove, Parked
<1>2. SharedSet' \subseteq SharedSet \ gone
  BY DEF Remove, SharedSet
<1>3. Held \intersect gone = {}
  BY DEF Types, Kinds, TypeOK, TasksTypeOK, ExclusiveUse, Held, SharedSet
<1> QED BY <1>1, <1>2, <1>3 DEF Counted

\* Every step of the pool keeps the bounds on _count.
LEMMA CapStep == CapInv /\ [Next]_vars => LiveCounted' /\ CountCapped'
<1> SUFFICES ASSUME CapInv, [Next]_vars PROVE LiveCounted' /\ CountCapped'
  OBVIOUS
<1> USE NoneAssumption, ConnsAssumption, ProtocolAssumption
<1> USE DEF CapInv, Types, books, stamps, places
<1>1. ASSUME NEW t \in Tasks, NEW o \in Origins, AttemptClosed(t, o) PROVE LiveCounted' /\ CountCapped'
  BY <1>1 DEF AttemptClosed, LiveCounted, CountCapped
<1>2. ASSUME NEW t \in Tasks, NEW o \in Origins, AttemptShared(t, o) PROVE LiveCounted' /\ CountCapped'
  <2>1. conn' = [conn EXCEPT ![t] = shared[o]] /\ UNCHANGED <<idle, shared, count>> /\ ~closed
    BY <1>2 DEF AttemptShared
  <2>2. Held' \subseteq Held
    BY <2>1 DEF Held, Kinds, TypeOK, TasksTypeOK
  <2>3. Counted' \subseteq Counted
    BY <2>1, <2>2 DEF Counted, Parked, SharedSet
  <2>4. Dialers' \subseteq Dialers
    BY <1>2 DEF AttemptShared, Dialers, TypeOK, TasksTypeOK
  <2> QED BY <2>1, <2>3, <2>4, CountUnchanged
<1>3. ASSUME NEW t \in Tasks, NEW o \in Origins, AttemptIdle(t, o) PROVE LiveCounted' /\ CountCapped'
  <2> DEFINE Gone(c) == ({d \in idle[o] \ {c} : <<c, d>> \in older} \union {shared[o]}) \ {None}
  <2>1. PICK c \in idle[o] :
          /\ Remove(Gone(c) \union {c})
          /\ count' = count - Cardinality(Gone(c))
          /\ conn' = [conn EXCEPT ![t] = c]
          /\ CloseAll(t, Gone(c), "hold")
    BY <1>3 DEF AttemptIdle
  <2> DEFINE gone == Gone(c)
  <2>2. /\ c \in Parked /\ c \notin gone
        /\ gone \subseteq Parked \union SharedSet
    BY DEF TypeOK, BooksTypeOK, Kinds, Parked, SharedSet
  <2>3. /\ Remove(gone \union {c})
        /\ count' = count - Cardinality(gone)
        /\ conn' = [conn EXCEPT ![t] = c]
        /\ CloseAll(t, gone, "hold")
        /\ pc[t] \in {"idle", "attempt"}
        /\ ~closed
    BY <1>3, <2>1 DEF AttemptIdle, AtAttempt
  <2> HIDE DEF gone
  <2>4. Parked' \subseteq Parked \ gone /\ SharedSet' \subseteq SharedSet \ gone
    BY <2>3 DEF Remove, Parked, SharedSet
  <2>5. Held' \subseteq Held \union {c}
    BY <2>3 DEF Held, TypeOK, TasksTypeOK
  <2>6. Held \intersect gone = {}
    BY <2>2 DEF Kinds, TypeOK, TasksTypeOK, ExclusiveUse, Held, SharedSet
  <2>7. gone \subseteq Counted /\ Counted' \subseteq Counted \ gone
    BY <2>2, <2>4, <2>5, <2>6 DEF Counted
  <2>8. Dialers' \subseteq Dialers
    BY <2>3 DEF CloseAll, Sweeping, Dialers, TypeOK, TasksTypeOK
  <2> QED BY <2>3, <2>7, <2>8, CountAfterRemoval
<1>4. ASSUME NEW t \in Tasks, NEW o \in Origins, AttemptJoin(t, o) PROVE LiveCounted' /\ CountCapped'
  <2>1. Own(o) \subseteq Counted /\ Counted' \subseteq Counted \ Own(o)
    BY <1>4, OwnType, RemoveCounted DEF AttemptJoin, Held
  <2>2. Dialers' \subseteq Dialers
    BY <1>4 DEF AttemptJoin, AtAttempt, CloseAll, Sweeping, Dialers, TypeOK, TasksTypeOK
  <2> QED BY <1>4, <2>1, <2>2, CountAfterRemoval DEF AttemptJoin
<1>5. ASSUME NEW t \in Tasks, NEW o \in Origins, AttemptDial(t, o) PROVE LiveCounted' /\ CountCapped'
  <2>1. PICK gone \in Culls(o) :
          Remove(gone) /\ CloseAll(t, gone, "dial") /\ count' = count - Cardinality(gone) + 1
    BY <1>5 DEF AttemptDial
  <2>2. gone \subseteq Counted /\ Counted' \subseteq Counted \ gone
    BY <1>5, <2>1, CullsType, RemoveCounted DEF AttemptDial, Held
  <2>3. Dialers' \subseteq Dialers \union {t}
    BY <1>5, <2>1 DEF AttemptDial, CloseAll, Sweeping, Dialers, TypeOK, TasksTypeOK
  <2>4. Cardinality(Counted') <= Cardinality(Counted) - Cardinality(gone)
    BY <2>2, FiniteBooks, DifferenceCard
  <2>5. Cardinality(Dialers') <= Cardinality(Dialers) + 1 /\ Cardinality(Dialers') \in Nat
    <3>1. /\ IsFiniteSet(Dialers \union {t})
          /\ Cardinality(Dialers \union {t}) <= Cardinality(Dialers) + 1
      BY FiniteBooks, AddCard
    <3> QED BY <2>3, <3>1, FiniteBooks, SubsetCard
  <2>6. /\ Cardinality(gone) \in Nat /\ Cardinality(Counted') \in Nat /\ IsFiniteSet(gone)
        /\ Cardinality(Counted) \in Nat /\ Cardinality(Dialers) \in Nat /\ count \in Int
    BY <2>2, FiniteBooks, SubsetCard DEF TypeOK, BooksTypeOK
  <2>7. ~closed /\ closed' = closed
    BY <1>5 DEF AttemptDial
  <2>8. LiveCounted'
    BY <2>1, <2>4, <2>5, <2>6, <2>7 DEF LiveCounted
  <2>9. CountCapped'
    <3> SUFFICES ASSUME MaxConns # None PROVE count' <= MaxConns
      BY DEF CountCapped
    <3>1. MaxConns \in Nat /\ count <= MaxConns
      BY <2>7, LimitsAssumption DEF CountCapped
    <3>2. CASE ~AtCap(o)
      <4>1. gone = Own(o) /\ ~(count - Cardinality(gone) >= MaxConns)
        BY <3>2 DEF Culls, AtCap
      <4> QED BY <2>1, <2>6, <3>1, <4>1
    <3>3. CASE AtCap(o)
      <4>1. gone # {}
        BY <3>3 DEF Culls
      <4>2. Cardinality(gone) # 0
        BY <2>6, <4>1, FS_EmptySet
      <4> QED BY <2>1, <2>6, <3>1, <4>2
    <3> QED BY <3>2, <3>3
  <2> QED BY <2>8, <2>9
<1>6. ASSUME NEW t \in Tasks, NEW o \in Origins, AttemptWait(t, o) PROVE LiveCounted' /\ CountCapped'
  <2>1. Own(o) \subseteq Counted /\ Counted' \subseteq Counted \ Own(o)
    BY <1>6, OwnType, RemoveCounted DEF AttemptWait, Held
  <2>2. Dialers' \subseteq Dialers
    BY <1>6 DEF AttemptWait, AtAttempt, CloseAll, Sweeping, Dialers, TypeOK, TasksTypeOK
  <2> QED BY <1>6, <2>1, <2>2, CountAfterRemoval DEF AttemptWait
<1>7. ASSUME Counted' \subseteq Counted, Dialers' \subseteq Dialers, UNCHANGED <<count, closed>>
      PROVE  LiveCounted' /\ CountCapped'
  BY <1>7, CountUnchanged DEF LiveCounted, CountCapped
<1>8. ASSUME UNCHANGED <<idle, shared, count, closed>>, Held' \subseteq Held, Dialers' \subseteq Dialers
      PROVE  LiveCounted' /\ CountCapped'
  BY <1>7, <1>8 DEF Counted, Parked, SharedSet
<1>9. ASSUME NEW t \in Tasks, Sweep(t) PROVE LiveCounted' /\ CountCapped'
  <2>1. Held' \subseteq Held
    BY <1>9 DEF Sweep, Leave, Held, TypeOK, TasksTypeOK
  <2>2. Dialers' \subseteq Dialers
    BY <1>9 DEF Sweep, Leave, Dialers, TypeOK, TasksTypeOK
  <2> QED BY <1>8, <1>9, <2>1, <2>2 DEF Sweep
<1>10. ASSUME NEW t \in Tasks, SweepCut(t) PROVE LiveCounted' /\ CountCapped'
  BY <1>8, <1>10 DEF SweepCut, Leave, Held, Dialers, TypeOK, TasksTypeOK
<1>11. ASSUME NEW t \in Tasks, DialOk(t) PROVE LiveCounted' /\ CountCapped'
  <2>1. PICK c \in Conns : IF closed THEN Refuse(t, c) ELSE Install(t, c)
    BY <1>11 DEF DialOk
  <2>2. CASE closed
    BY <2>1, <2>2 DEF Refuse, LiveCounted, CountCapped
  <2>3. CASE ~closed
    <3>1. t \in Dialers /\ Dialers' \subseteq Dialers \ {t}
      BY <1>11, <2>1, <2>3 DEF DialOk, Install, Dialers, TypeOK, TasksTypeOK
    <3>2. Held' \subseteq Held \union {c}
      BY <2>1, <2>3 DEF Install, Held, TypeOK, TasksTypeOK
    <3>3. SharedSet' \subseteq SharedSet \union {c} /\ Parked' = Parked
      BY <2>1, <2>3 DEF Install, InstallH1, InstallH2, SharedSet, Parked, TypeOK, BooksTypeOK
    <3>4. Counted' \subseteq Counted \union {c}
      BY <3>2, <3>3 DEF Counted
    <3>5. Cardinality(Counted') <= Cardinality(Counted) + 1 /\ Cardinality(Counted') \in Nat
      <4>1. /\ IsFiniteSet(Counted \union {c})
            /\ Cardinality(Counted \union {c}) <= Cardinality(Counted) + 1
        BY FiniteBooks, AddCard
      <4> QED BY <3>4, <4>1, FiniteBooks, SubsetCard
    <3>6. Cardinality(Dialers') <= Cardinality(Dialers) - 1 /\ Cardinality(Dialers') \in Nat
      <4>1. IsFiniteSet(Dialers \ {t}) /\ Cardinality(Dialers \ {t}) = Cardinality(Dialers) - 1
        BY <3>1, FiniteBooks, FS_RemoveElement
      <4> QED BY <3>1, <4>1, FiniteBooks, SubsetCard
    <3>7. UNCHANGED <<count, closed>>
      BY <2>1, <2>3 DEF Install
    <3> QED BY <2>3, <3>5, <3>6, <3>7, FiniteBooks DEF LiveCounted, CountCapped, TypeOK, BooksTypeOK
  <2> QED BY <2>2, <2>3
<1>12. ASSUME NEW t \in Tasks, DialFail(t) PROVE LiveCounted' /\ CountCapped'
  <2>1. t \in Dialers /\ Dialers' \subseteq Dialers \ {t}
    BY <1>12 DEF DialFail, Sweeping, Dialers, TypeOK, TasksTypeOK
  <2>2. Counted' = Counted
    BY <1>12 DEF DialFail, Counted, Parked, SharedSet, Held
  <2>3. Cardinality(Dialers') <= Cardinality(Dialers) - 1 /\ Cardinality(Dialers') \in Nat
    <3>1. IsFiniteSet(Dialers \ {t}) /\ Cardinality(Dialers \ {t}) = Cardinality(Dialers) - 1
      BY <2>1, FiniteBooks, FS_RemoveElement
    <3> QED BY <2>1, <3>1, FiniteBooks, SubsetCard
  <2>4. count' = count - 1 /\ closed' = closed /\ count \in Int
    BY <1>12 DEF DialFail, TypeOK, BooksTypeOK
  <2>5. LiveCounted'
    BY <2>2, <2>3, <2>4, FiniteBooks DEF LiveCounted
  <2>6. CountCapped'
    BY <2>4, LimitsAssumption DEF CountCapped
  <2> QED BY <2>5, <2>6
<1>13. ASSUME NEW t \in Tasks, CloseRefused(t) PROVE LiveCounted' /\ CountCapped'
  BY <1>8, <1>13 DEF CloseRefused, Leave, Held, Dialers, TypeOK, TasksTypeOK
<1>14. ASSUME NEW t \in Tasks, ReadyOk(t) PROVE LiveCounted' /\ CountCapped'
  BY <1>8, <1>14 DEF ReadyOk, Held, Dialers, TypeOK, TasksTypeOK
<1>15. ASSUME NEW t \in Tasks, ReadyFail(t) PROVE LiveCounted' /\ CountCapped'
  BY <1>8, <1>15 DEF ReadyFail, Held, Dialers, TypeOK, TasksTypeOK
<1>16. ASSUME NEW t \in Tasks, Evict(t) PROVE LiveCounted' /\ CountCapped'
  <2>1. Held' \subseteq Held /\ Dialers' \subseteq Dialers
    BY <1>16 DEF Evict, Sweeping, Held, Dialers, TypeOK, TasksTypeOK
  <2>2. CASE ~IsShared(t)
    BY <1>8, <1>16, <2>1, <2>2 DEF Evict
  <2>3. CASE IsShared(t)
    <3>1. Remove({conn[t]}) /\ count' = count - 1 /\ closed' = closed
      BY <1>16, <2>3 DEF Evict
    <3>2. {conn[t]} \subseteq SharedSet
      BY <1>16, <2>3 DEF Evict, IsShared, SharedSet, Places
    <3>3. {conn[t]} \subseteq Counted /\ Counted' \subseteq Counted \ {conn[t]}
      BY <2>1, <3>1, <3>2, RemoveCounted
    <3>4. count' = count - Cardinality({conn[t]})
      BY <3>1, FS_Singleton
    <3> QED BY <2>1, <3>1, <3>3, <3>4, CountAfterRemoval DEF LiveCounted, CountCapped
  <2> QED BY <2>2, <2>3
<1>17. ASSUME NEW t \in Tasks, ReadyGiveUp(t) PROVE LiveCounted' /\ CountCapped'
  BY <1>8, <1>17 DEF ReadyGiveUp, Leave, Held, Dialers, TypeOK, TasksTypeOK
<1>18. ASSUME NEW t \in Tasks, WaitWake(t) PROVE LiveCounted' /\ CountCapped'
  BY <1>8, <1>18 DEF WaitWake, Held, Dialers, TypeOK, TasksTypeOK
<1>19. ASSUME NEW t \in Tasks, WaitGiveUp(t) PROVE LiveCounted' /\ CountCapped'
  BY <1>8, <1>19 DEF WaitGiveUp, Leave, Held, Dialers, TypeOK, TasksTypeOK
<1>20. ASSUME NEW t \in Tasks, ReleaseShared(t) PROVE LiveCounted' /\ CountCapped'
  BY <1>8, <1>20 DEF ReleaseShared, Sweeping, Leave, Held, Dialers, TypeOK, TasksTypeOK
<1>21. ASSUME NEW t \in Tasks, NEW d \in BOOLEAN, Release(t, d), ReleaseExclusive(t, d)
       PROVE  LiveCounted' /\ CountCapped'
  <2> DEFINE c == conn[t]
             over == Overflow(Parked \union {c}, older \union (Spare \X {c}))
  <2>1. c \in Conns \ Multiplexed /\ c \in Held /\ origin[t] \in Origins
    BY <1>21 DEF Release, ReleaseExclusive, Places, Held
  <2>2. /\ \A u \in Tasks \ {t} : conn[u] # c
        /\ c \notin Parked
    BY <2>1 DEF ExclusiveUse
  <2>3. conn' = [conn EXCEPT ![t] = None]
    BY <1>21 DEF ReleaseExclusive
  <2>4. Held' \subseteq Held \ {c}
    BY <2>2, <2>3 DEF Held, TypeOK, TasksTypeOK
  <2>5. CASE Park(t)
    <3>1. over \subseteq Parked \union {c}
      BY DEF Overflow
    <3>2. /\ \A p \in Origins : idle'[p] \subseteq (idle[p] \union {c}) \ over
          /\ shared' = shared
          /\ count' = count - Cardinality(over)
          /\ closed' = closed
      BY <2>5 DEF Park
    <3> HIDE DEF over, c
    <3>3. Parked' \subseteq (Parked \union {c}) \ over /\ SharedSet' = SharedSet
      BY <3>2 DEF Parked, SharedSet
    <3>4. Held' \intersect over = {}
      BY <2>4, <3>1 DEF ExclusiveUse, Held, TypeOK, TasksTypeOK
    <3>5. SharedSet \intersect over = {}
      BY <2>1, <3>1 DEF Kinds, SharedSet, Parked
    <3>6. over \subseteq Counted /\ Counted' \subseteq Counted \ over
      BY <2>1, <2>4, <3>1, <3>3, <3>4, <3>5 DEF Counted
    <3>7. Dialers' \subseteq Dialers
      BY <2>5 DEF Park, Sweeping, Dialers, TypeOK, TasksTypeOK
    <3> QED BY <3>2, <3>6, <3>7, CountAfterRemoval DEF LiveCounted, CountCapped
  <2>6. CASE Discard(t)
    <3>1. Parked' = Parked /\ SharedSet' = SharedSet
      BY <2>6 DEF Discard, Parked, SharedSet
    <3>2. c \notin SharedSet
      BY <2>1 DEF Kinds, SharedSet
    <3>3. {c} \subseteq Counted /\ Counted' \subseteq Counted \ {c}
      BY <2>1, <2>2, <2>4, <3>1, <3>2 DEF Counted
    <3>4. count' = count - Cardinality({c}) /\ closed' = closed
      BY <2>6, FS_Singleton DEF Discard
    <3>5. Dialers' \subseteq Dialers
      BY <2>6 DEF Discard, Sweeping, Dialers, TypeOK, TasksTypeOK
    <3> QED BY <3>3, <3>4, <3>5, CountAfterRemoval DEF LiveCounted, CountCapped
  <2> QED BY <1>21, <2>5, <2>6 DEF ReleaseExclusive
<1>22. ASSUME NEW t \in Tasks, ClosePool(t) PROVE LiveCounted' /\ CountCapped'
  BY <1>22 DEF ClosePool, LiveCounted, CountCapped
<1>23. ASSUME UNCHANGED <<idle, shared, count, closed, conn, pc, then>> PROVE LiveCounted' /\ CountCapped'
  BY <1>8, <1>23 DEF Held, Dialers
<1>24. CASE UNCHANGED vars
  BY <1>23, <1>24 DEF vars
<1>25. CASE EnvStep
  BY <1>23, <1>25 DEF EnvStep, Break, Expire
<1>26. ASSUME NEW t \in Tasks, NEW d \in BOOLEAN, Release(t, d) PROVE LiveCounted' /\ CountCapped'
  BY <1>20, <1>21, <1>26 DEF Release
<1> QED
  BY <1>1, <1>2, <1>3, <1>4, <1>5, <1>6, <1>9, <1>10, <1>11, <1>12, <1>13, <1>14, <1>15, <1>16,
     <1>17, <1>18, <1>19, <1>22, <1>24, <1>25, <1>26 DEF Next, TaskStep, Attempt

\* Connections in use, parked, shared and being dialed never exceed
\* max_connections: for any number of callers and origins, whatever protocols
\* dials negotiate, and although interruptions may leak a slot.
THEOREM CapHolds == Spec => []CapRespected
<1>1. Init => LiveCounted /\ CountCapped
  <2> SUFFICES ASSUME Init PROVE LiveCounted /\ CountCapped
    OBVIOUS
  <2>1. Counted = {} /\ Dialers = {} /\ count = 0
    BY DEF Init, Counted, Parked, SharedSet, Held, Dialers
  <2> QED BY <2>1, FS_EmptySet, LimitsAssumption DEF LiveCounted, CountCapped
<1>2. Init => CapInv
  BY InitTypes, <1>1, ConnsAssumption DEF Init, CapInv, ExclusiveUse, Held, Parked
<1>3. CapInv /\ [Next]_vars => CapInv'
  BY TypesStep, ExclusiveStep, CapStep DEF CapInv
<1>4. CapInv => CapRespected
  BY FiniteBooks, LimitsAssumption
     DEF CapInv, Types, TypeOK, BooksTypeOK, LiveCounted, CountCapped, CapRespected
<1> QED BY <1>2, <1>3, <1>4, PTL DEF Spec

-----------------------------------------------------------------------------

(***************************************************************************)
(* Pool implements Slots, for every set of tasks, connections and origins, *)
(* every limit and every choice of interruptible awaits.                   *)
(***************************************************************************)

Pooled == Parked \union SharedSet

\* Only t goes from one place to another.
Elsewhere(t) ==
    \A u \in Tasks \ {t} : pc'[u] = pc[u] /\ conn'[u] = conn[u] /\ then'[u] = then[u]

\* What t does shows in its own hand and its own dial only.
LEMMA OneHand ==
    ASSUME NEW t \in Tasks, Elsewhere(t)
    PROVE  /\ InHand' = [InHand EXCEPT ![t] = InHand'[t]]
           /\ InHand'[t] = InHand[t] => InHand' = InHand
           /\ \A u \in Tasks \ {t} : u \in Dialers' <=> u \in Dialers
BY DEF Elsewhere, InHand, Dialers

\* A step that changes neither the task's hand nor its dial can only drop
\* connections.
LEMMA QuietStep ==
    ASSUME NEW t \in Tasks, Elsewhere(t), InHand'[t] = InHand[t],
           t \in Dialers' <=> t \in Dialers, Pooled' \subseteq Pooled, closed' = closed
    PROVE  Promise!Next
<1>1. InHand' = InHand
  BY OneHand
<1>2. Dialers' = Dialers
  BY OneHand DEF Dialers
<1> QED BY <1>1, <1>2 DEF Promise!Next, Promise!Drop, Pooled

\* A step that empties the task's hand gives its connection back.
LEMMA ReturnStep ==
    ASSUME NEW t \in Tasks, Elsewhere(t), InHand[t] # None, InHand'[t] = None,
           t \in Dialers' <=> t \in Dialers, closed' = closed,
           Pooled' \subseteq IF closed THEN Pooled ELSE Pooled \union ({InHand[t]} \ Multiplexed)
    PROVE  Promise!Next
<1>1. InHand' = [InHand EXCEPT ![t] = None]
  BY OneHand
<1>2. Dialers' = Dialers
  BY OneHand DEF Dialers
<1>3. Promise!Return(t)
  BY <1>1, <1>2 DEF Promise!Return, Pooled
<1> QED BY <1>3 DEF Promise!Next, Promise!Serve

\* A step that ends the task's dial without a connection.
LEMMA FailStep ==
    ASSUME NEW t \in Tasks, Elsewhere(t), InHand'[t] = InHand[t],
           t \in Dialers, t \notin Dialers', Pooled' = Pooled, closed' = closed
    PROVE  Promise!Next
<1>1. InHand' = InHand
  BY OneHand
<1>2. Dialers' = Dialers \ {t}
  BY OneHand DEF Dialers
<1>3. Promise!FailDial(t)
  BY <1>1, <1>2 DEF Promise!FailDial, Pooled
<1> QED BY <1>3 DEF Promise!Next, Promise!Serve

\* A step after which the task holds a connection that was pooled.
LEMMA TakeStep ==
    ASSUME NEW t \in Tasks, Elsewhere(t), NEW c \in Pooled, InHand[t] = None, InHand'[t] = c,
           t \notin Dialers, t \notin Dialers', closed' = closed,
           Pooled' \subseteq Pooled, c \in Pooled' => c \in Multiplexed
    PROVE  Promise!Next
<1>1. InHand' = [InHand EXCEPT ![t] = c]
  BY OneHand
<1>2. Dialers' = Dialers
  BY OneHand DEF Dialers
<1>3. Promise!Take(t)
  BY <1>1, <1>2 DEF Promise!Take, Promise!Free, Pooled
<1> QED BY <1>3 DEF Promise!Next, Promise!Serve

\* Before anything is dialed the pool is empty, as promised.
LEMMA RefinesInit == Init => Promise!Init
<1> SUFFICES ASSUME Init PROVE Promise!Init
  OBVIOUS
<1>1. Parked \union SharedSet = {}
  BY DEF Init, Parked, SharedSet
<1>2. InHand = [t \in Tasks |-> None] /\ Dialers = {}
  BY DEF Init, InHand, Dialers
<1>3. closed = FALSE
  BY DEF Init
<1> QED BY <1>1, <1>2, <1>3 DEF Promise!Init

\* The instance counts as the pool does.
LEMMA SameCard == \A S : Promise!Cardinality(S) = Cardinality(S)
BY DEF Promise!Cardinality, Cardinality

\* The bound that a dial must respect.
Room == ~closed => Promise!Capacity

\* As long as the pool is open it is the one that CapHolds proves.
LEMMA CapacityHolds == Types /\ CapRespected => Room
<1> SUFFICES ASSUME Types, CapRespected, ~closed PROVE Promise!Capacity
  BY DEF Room
<1>1. Promise!Exclusive \subseteq Held
  BY DEF Promise!Exclusive, InHand, Held
<1>2. Promise!InUse \subseteq Counted
  BY <1>1 DEF Promise!InUse, Counted
<1>3. Cardinality(Promise!InUse) <= Cardinality(Counted) /\ Cardinality(Promise!InUse) \in Nat
  BY <1>2, FiniteBooks, SubsetCard DEF Types
<1> QED BY <1>3, SameCard, FiniteBooks, LimitsAssumption DEF CapRespected, Promise!Capacity, Types

\* Every step of the pool is a step of its promise or leaves it as it is: one step
\* per action.
LEMMA StepRefines ==
    Types /\ Room' /\ [Next]_vars => [Promise!Next]_(Promise!slots)
<1> SUFFICES ASSUME Types, Room', [Next]_vars
             PROVE  Promise!Next \/ UNCHANGED Promise!slots
  OBVIOUS
<1> USE NoneAssumption, ConnsAssumption, ProtocolAssumption
<1> USE DEF Types, books, stamps, places
<1>1. ASSUME NEW t \in Tasks, NEW o \in Origins, AttemptClosed(t, o) PROVE Promise!Next
  <2>1. /\ Elsewhere(t) /\ InHand'[t] = InHand[t] /\ (t \in Dialers' <=> t \in Dialers)
        /\ Pooled' = Pooled /\ closed' = closed
    BY <1>1 DEF AttemptClosed, AtAttempt, Leave, Elsewhere, InHand, Dialers, Pooled, Parked, SharedSet, TypeOK, TasksTypeOK
  <2> QED BY <2>1, QuietStep
<1>2. ASSUME NEW t \in Tasks, NEW o \in Origins, AttemptShared(t, o) PROVE Promise!Next
  <2>1. shared[o] \in Pooled /\ shared[o] \in Multiplexed
    BY <1>2 DEF AttemptShared, NoShared, Live, Kinds, Pooled, SharedSet
  <2>2. Elsewhere(t) /\ InHand[t] = None /\ InHand'[t] = shared[o] /\ t \notin Dialers /\ t \notin Dialers'
    BY <1>2 DEF AttemptShared, AtAttempt, Elsewhere, InHand, Dialers, TypeOK, TasksTypeOK
  <2>3. Pooled' = Pooled /\ closed' = closed
    BY <1>2 DEF AttemptShared, Pooled, Parked, SharedSet
  <2> QED BY <2>1, <2>2, <2>3, TakeStep
<1>3. ASSUME NEW t \in Tasks, NEW o \in Origins, AttemptIdle(t, o) PROVE Promise!Next
  <2> DEFINE Gone(c) == ({d \in idle[o] \ {c} : <<c, d>> \in older} \union {shared[o]}) \ {None}
  <2>1. PICK c \in idle[o] :
          /\ Remove(Gone(c) \union {c})
          /\ conn' = [conn EXCEPT ![t] = c]
          /\ CloseAll(t, Gone(c), "hold")
    BY <1>3 DEF AttemptIdle
  <2> DEFINE gone == Gone(c)
  <2>2. /\ Remove(gone \union {c})
        /\ conn' = [conn EXCEPT ![t] = c]
        /\ CloseAll(t, gone, "hold")
        /\ pc[t] \in {"idle", "attempt"}
        /\ closed' = closed
    BY <1>3, <2>1 DEF AttemptIdle, AtAttempt
  <2> HIDE DEF gone
  <2>3. c \in Pooled /\ c \notin Multiplexed
    BY DEF Kinds, Pooled, Parked
  <2>4. Pooled' \subseteq Pooled /\ c \notin Pooled'
    BY <2>2, <2>3 DEF Remove, Pooled, Parked, SharedSet, TypeOK, BooksTypeOK
  <2>5. Elsewhere(t) /\ InHand[t] = None /\ InHand'[t] = c /\ t \notin Dialers /\ t \notin Dialers'
    BY <2>2 DEF CloseAll, Sweeping, Elsewhere, InHand, Dialers, TypeOK, TasksTypeOK
  <2> QED BY <2>2, <2>3, <2>4, <2>5, TakeStep
<1>4. ASSUME NEW S, Remove(S) PROVE Pooled' \subseteq Pooled
  BY <1>4 DEF Remove, Pooled, Parked, SharedSet
<1>5. ASSUME NEW t \in Tasks, NEW o \in Origins, AttemptJoin(t, o) PROVE Promise!Next
  <2>1. Elsewhere(t) /\ InHand'[t] = InHand[t] /\ (t \in Dialers' <=> t \in Dialers)
    BY <1>5 DEF AttemptJoin, AtAttempt, CloseAll, Sweeping, Elsewhere, InHand, Dialers, TypeOK, TasksTypeOK
  <2>2. Pooled' \subseteq Pooled /\ closed' = closed
    BY <1>4, <1>5 DEF AttemptJoin
  <2> QED BY <2>1, <2>2, QuietStep
<1>6. ASSUME NEW t \in Tasks, NEW o \in Origins, AttemptDial(t, o) PROVE Promise!Next
  <2>1. PICK gone \in Culls(o) : Remove(gone) /\ CloseAll(t, gone, "dial")
    BY <1>6 DEF AttemptDial
  <2>2. Elsewhere(t) /\ InHand[t] = None /\ InHand'[t] = None /\ t \notin Dialers /\ t \in Dialers'
    BY <1>6, <2>1 DEF AttemptDial, AtAttempt, CloseAll, Sweeping, Elsewhere, InHand, Dialers, TypeOK, TasksTypeOK
  <2>3. InHand' = InHand
    BY <2>2, OneHand
  <2>4. Dialers' = Dialers \union {t}
    BY <2>2, OneHand DEF Dialers
  <2>5. ~closed /\ closed' = closed /\ Pooled' \subseteq Pooled
    BY <1>4, <1>6, <2>1 DEF AttemptDial
  <2>6. Promise!Capacity'
    BY <2>5 DEF Room
  <2>7. Promise!BeginDial(t)
    BY <2>2, <2>3, <2>4, <2>5, <2>6 DEF Promise!BeginDial, Promise!Free, Pooled
  <2> QED BY <2>7 DEF Promise!Next, Promise!Serve
<1>7. ASSUME NEW t \in Tasks, NEW o \in Origins, AttemptWait(t, o) PROVE Promise!Next
  <2>1. Elsewhere(t) /\ InHand'[t] = InHand[t] /\ (t \in Dialers' <=> t \in Dialers)
    BY <1>7 DEF AttemptWait, AtAttempt, CloseAll, Sweeping, Elsewhere, InHand, Dialers, TypeOK, TasksTypeOK
  <2>2. Pooled' \subseteq Pooled /\ closed' = closed
    BY <1>4, <1>7 DEF AttemptWait
  <2> QED BY <2>1, <2>2, QuietStep
<1>8. ASSUME NEW t \in Tasks, Sweep(t) PROVE Promise!Next
  <2>1. Elsewhere(t) /\ InHand'[t] = InHand[t] /\ (t \in Dialers' <=> t \in Dialers)
    BY <1>8 DEF Sweep, Leave, Elsewhere, InHand, Dialers, TypeOK, TasksTypeOK, Places
  <2>2. Pooled' = Pooled /\ closed' = closed
    BY <1>8 DEF Sweep, Pooled, Parked, SharedSet
  <2> QED BY <2>1, <2>2, QuietStep
<1>9. ASSUME NEW t \in Tasks, SweepCut(t) PROVE Promise!Next
  <2>1. Elsewhere(t) /\ InHand'[t] = None /\ t \notin Dialers'
    BY <1>9 DEF SweepCut, Leave, Elsewhere, InHand, Dialers, TypeOK, TasksTypeOK
  <2>2. Pooled' = Pooled /\ closed' = closed
    BY <1>9 DEF SweepCut, Pooled, Parked, SharedSet
  <2>3. CASE t \in Dialers
    <3>1. InHand[t] = None
      BY <1>9, <2>3 DEF SweepCut, InHand, Dialers
    <3> QED BY <2>1, <2>2, <2>3, <3>1, FailStep
  <2>4. CASE t \notin Dialers /\ InHand[t] = None
    BY <2>1, <2>2, <2>4, QuietStep
  <2>5. CASE t \notin Dialers /\ InHand[t] # None
    BY <2>1, <2>2, <2>5, ReturnStep
  <2> QED BY <2>3, <2>4, <2>5
<1>10. ASSUME NEW t \in Tasks, DialOk(t) PROVE Promise!Next
  <2>1. PICK c \in Conns : Fresh(c) /\ IF closed THEN Refuse(t, c) ELSE Install(t, c)
    BY <1>10 DEF DialOk
  <2>2. pc[t] = "dial" /\ t \in Dialers /\ InHand[t] = None
    BY <1>10 DEF DialOk, InHand, Dialers
  <2>3. CASE closed
    <3>1. Elsewhere(t) /\ InHand'[t] = None /\ t \notin Dialers'
      BY <2>1, <2>3 DEF Refuse, Elsewhere, InHand, Dialers, TypeOK, TasksTypeOK
    <3>2. Pooled' = Pooled /\ closed' = closed
      BY <2>1, <2>3 DEF Refuse, Pooled, Parked, SharedSet
    <3> QED BY <2>2, <3>1, <3>2, FailStep
  <2>4. CASE ~closed
    <3>1. Elsewhere(t) /\ InHand'[t] = c /\ t \notin Dialers'
      BY <2>1, <2>4 DEF Install, Elsewhere, InHand, Dialers, TypeOK, TasksTypeOK
    <3>2. InHand' = [InHand EXCEPT ![t] = c]
      BY <3>1, OneHand
    <3>3. Dialers' = Dialers \ {t}
      BY <3>1, OneHand DEF Dialers
    <3>4. c \notin Pooled /\ \A u \in Tasks : InHand[u] # c
      BY <2>1 DEF Fresh, Pooled, InHand
    <3>5. Parked' = Parked /\ SharedSet' \subseteq SharedSet \union ({c} \intersect Multiplexed)
      BY <2>1, <2>4 DEF Install, InstallH1, InstallH2, Parked, SharedSet, TypeOK, BooksTypeOK
    <3>6. Promise!Deliver(t, c)
      BY <2>1, <2>2, <2>4, <3>2, <3>3, <3>4, <3>5 DEF Promise!Deliver, Install, Pooled
    <3> QED BY <3>6 DEF Promise!Next, Promise!Serve
  <2> QED BY <2>3, <2>4
<1>11. ASSUME NEW t \in Tasks, DialFail(t) PROVE Promise!Next
  <2>1. /\ Elsewhere(t) /\ InHand[t] = None /\ InHand'[t] = None
        /\ t \in Dialers /\ t \notin Dialers'
    BY <1>11 DEF DialFail, Sweeping, Elsewhere, InHand, Dialers, TypeOK, TasksTypeOK
  <2>2. Pooled' = Pooled /\ closed' = closed
    BY <1>11 DEF DialFail, Pooled, Parked, SharedSet
  <2> QED BY <2>1, <2>2, FailStep
<1>12. ASSUME NEW t \in Tasks, CloseRefused(t) PROVE Promise!Next
  <2>1. Elsewhere(t) /\ InHand'[t] = InHand[t] /\ (t \in Dialers' <=> t \in Dialers)
    BY <1>12 DEF CloseRefused, Leave, Elsewhere, InHand, Dialers, TypeOK, TasksTypeOK, Places
  <2>2. Pooled' = Pooled /\ closed' = closed
    BY <1>12 DEF CloseRefused, Pooled, Parked, SharedSet
  <2> QED BY <2>1, <2>2, QuietStep
<1>13. ASSUME NEW t \in Tasks, ReadyOk(t) PROVE Promise!Next
  <2>1. Elsewhere(t) /\ InHand'[t] = InHand[t] /\ (t \in Dialers' <=> t \in Dialers)
    BY <1>13 DEF ReadyOk, Elsewhere, InHand, Dialers, TypeOK, TasksTypeOK, Places
  <2>2. Pooled' = Pooled /\ closed' = closed
    BY <1>13 DEF ReadyOk, Pooled, Parked, SharedSet
  <2> QED BY <2>1, <2>2, QuietStep
<1>14. ASSUME NEW t \in Tasks, ReadyFail(t) PROVE Promise!Next
  <2>1. Elsewhere(t) /\ InHand[t] # None /\ InHand'[t] = None /\ (t \in Dialers' <=> t \in Dialers)
    BY <1>14 DEF ReadyFail, Elsewhere, InHand, Dialers, TypeOK, TasksTypeOK, Places
  <2>2. Pooled' = Pooled /\ closed' = closed
    BY <1>14 DEF ReadyFail, Pooled, Parked, SharedSet
  <2> QED BY <2>1, <2>2, ReturnStep
<1>15. ASSUME NEW t \in Tasks, Evict(t) PROVE Promise!Next
  <2>1. Elsewhere(t) /\ InHand'[t] = InHand[t] /\ (t \in Dialers' <=> t \in Dialers)
    BY <1>15 DEF Evict, Sweeping, Elsewhere, InHand, Dialers, TypeOK, TasksTypeOK
  <2>2. Pooled' \subseteq Pooled /\ closed' = closed
    BY <1>4, <1>15 DEF Evict, Pooled, Parked, SharedSet
  <2> QED BY <2>1, <2>2, QuietStep
<1>16. ASSUME NEW t \in Tasks, ReadyGiveUp(t) PROVE Promise!Next
  <2>1. Elsewhere(t) /\ InHand[t] # None /\ InHand'[t] = None /\ (t \in Dialers' <=> t \in Dialers)
    BY <1>16 DEF ReadyGiveUp, Leave, Elsewhere, InHand, Dialers, TypeOK, TasksTypeOK, Places
  <2>2. Pooled' = Pooled /\ closed' = closed
    BY <1>16 DEF ReadyGiveUp, Pooled, Parked, SharedSet
  <2> QED BY <2>1, <2>2, ReturnStep
<1>17. ASSUME NEW t \in Tasks, WaitWake(t) PROVE Promise!Next
  <2>1. Elsewhere(t) /\ InHand'[t] = InHand[t] /\ (t \in Dialers' <=> t \in Dialers)
    BY <1>17 DEF WaitWake, Elsewhere, InHand, Dialers, TypeOK, TasksTypeOK, Places
  <2>2. Pooled' = Pooled /\ closed' = closed
    BY <1>17 DEF WaitWake, Pooled, Parked, SharedSet
  <2> QED BY <2>1, <2>2, QuietStep
<1>18. ASSUME NEW t \in Tasks, WaitGiveUp(t) PROVE Promise!Next
  <2>1. Elsewhere(t) /\ InHand'[t] = InHand[t] /\ (t \in Dialers' <=> t \in Dialers)
    BY <1>18 DEF WaitGiveUp, Leave, Elsewhere, InHand, Dialers, TypeOK, TasksTypeOK, Places
  <2>2. Pooled' = Pooled /\ closed' = closed
    BY <1>18 DEF WaitGiveUp, Pooled, Parked, SharedSet
  <2> QED BY <2>1, <2>2, QuietStep
<1>19. ASSUME NEW t \in Tasks, NEW d \in BOOLEAN, Release(t, d) PROVE Promise!Next
  <2>1. pc[t] = "hold" /\ conn[t] \in Conns /\ InHand[t] = conn[t] /\ t \notin Dialers /\ closed' = closed
    BY <1>19 DEF Release, ReleaseShared, ReleaseExclusive, Park, Discard, InHand, Dialers, Places
  <2>2. Elsewhere(t) /\ InHand'[t] = None /\ t \notin Dialers'
    <3>1. CASE ReleaseShared(t)
      BY <2>1, <3>1 DEF ReleaseShared, Sweeping, Leave, Elsewhere, InHand, Dialers, TypeOK, TasksTypeOK
    <3>2. CASE ReleaseExclusive(t, d)
      BY <2>1, <3>2 DEF ReleaseExclusive, Park, Discard, Sweeping, Elsewhere, InHand, Dialers, TypeOK, TasksTypeOK
    <3> QED BY <1>19, <3>1, <3>2 DEF Release
  <2>3. CASE ReleaseShared(t) \/ (ReleaseExclusive(t, d) /\ Discard(t))
    <3>1. Pooled' = Pooled
      BY <2>3 DEF ReleaseShared, Discard, Pooled, Parked, SharedSet
    <3> QED BY <2>1, <2>2, <3>1, ReturnStep
  <2>4. CASE ReleaseExclusive(t, d) /\ ~closed /\ Park(t)
    <3>1. /\ \A o \in Origins : idle'[o] \subseteq idle[o] \union {conn[t]}
          /\ shared' = shared /\ conn[t] \notin Multiplexed
      BY <2>4 DEF ReleaseExclusive, Park
    <3>2. Pooled' \subseteq Pooled \union ({conn[t]} \ Multiplexed)
      BY <3>1 DEF Pooled, Parked, SharedSet
    <3> QED BY <2>1, <2>2, <2>4, <3>2, ReturnStep
  <2> QED BY <1>19, <2>3, <2>4 DEF Release, ReleaseExclusive
<1>20. ASSUME NEW t \in Tasks, ClosePool(t) PROVE Promise!Next
  <2>1. Parked' \union SharedSet' = {}
    BY <1>20 DEF ClosePool, Parked, SharedSet
  <2>2. /\ Elsewhere(t) /\ InHand[t] = None /\ InHand'[t] = None
        /\ t \notin Dialers /\ t \notin Dialers' /\ closed' = TRUE
    BY <1>20 DEF ClosePool, Sweeping, Elsewhere, InHand, Dialers, TypeOK, TasksTypeOK
  <2>3. InHand' = InHand
    BY <2>2, OneHand
  <2>4. Dialers' = Dialers
    BY <2>2, OneHand DEF Dialers
  <2> QED BY <2>1, <2>2, <2>3, <2>4 DEF Promise!Next, Promise!Shut
<1>21. ASSUME UNCHANGED <<idle, shared, closed, pc, conn, then>> PROVE UNCHANGED Promise!slots
  BY <1>21 DEF Promise!slots, Parked, SharedSet, InHand, Dialers
<1>22. CASE UNCHANGED vars
  BY <1>21, <1>22 DEF vars
<1>23. CASE EnvStep
  BY <1>21, <1>23 DEF EnvStep, Break, Expire
<1> QED
  BY <1>1, <1>2, <1>3, <1>5, <1>6, <1>7, <1>8, <1>9, <1>10, <1>11, <1>12, <1>13, <1>14, <1>15,
     <1>16, <1>17, <1>18, <1>19, <1>20, <1>22, <1>23 DEF Next, TaskStep, Attempt

\* The pool, whatever its limits and wherever it is interrupted, implements the
\* promise of Slots: its callers never see more connections than the cap, an h1
\* connection twice, or anything handed out by a closed pool.
THEOREM PoolImplementsSlots == Spec => ImplementsSlots
<1>1. Spec => []Types
  BY InitTypes, TypesStep, PTL DEF Spec
<1>2. Spec => []Room
  BY <1>1, CapHolds, CapacityHolds, PTL
<1>3. Types /\ Room' /\ [Next]_vars => [Promise!Next]_(Promise!slots)
  BY StepRefines
<1>4. Init => Promise!Init
  BY RefinesInit
<1> QED BY <1>1, <1>2, <1>3, <1>4, PTL DEF Spec, ImplementsSlots, Promise!Spec
=============================================================================
