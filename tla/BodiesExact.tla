---------------------------- MODULE BodiesExact ----------------------------
(***************************************************************************)
(* The theorems about bodies that need induction over data: the lines that *)
(* LineDecoder gives are those of the whole text, and an upload carries     *)
(* what the request was built with.  The one is an argument about the       *)
(* numbers that end a line, the other about sums and sequences of any       *)
(* length; both rest on Least and Climb, which are proved first.            *)
(***************************************************************************)
EXTENDS BodiesProofs, FiniteSetTheorems

(***************************************************************************)
(* Induction.  No theorem that takes an operator can be cited; a least      *)
(* number comes from the order of finite sets being well-founded instead,   *)
(* and what is to be proved of every number is stated as a set of them.     *)
(***************************************************************************)

\* A set of numbers, if it is not empty, has a least one.
LEMMA Least ==
  ASSUME NEW T \in SUBSET Nat, T # {}
  PROVE  \E m \in T : \A n \in T : m <= n
<1>1. PICK R : R = StrictSubsetOrdering(Nat)
  OBVIOUS
<1>2. PICK F : F = FiniteSubsetsOf(Nat)
  OBVIOUS
<1>3. IsWellFoundedOn(R, F)
  BY <1>1, <1>2, FS_StrictSubsetOrderingWellFounded
<1>4. \A n \in Nat : 1..n \in F
  BY <1>2, FS_Interval DEF FiniteSubsetsOf
<1>5. PICK U : U = {1..n : n \in T}
  OBVIOUS
<1>6. U \subseteq F /\ U # {}
  BY <1>4, <1>5
<1>7. PICK u \in U : \A v \in U : <<v, u>> \notin R
  BY <1>3, <1>6, WFMin
<1>8. PICK m \in T : u = 1..m
  BY <1>5, <1>7
<1>9. ASSUME NEW n \in T, n < m
      PROVE  FALSE
  <2>1. 1..n \in U
    BY <1>5
  <2>2. 1..n \in SUBSET (1..m) /\ 1..n # 1..m
    BY <1>9
  <2>3. <<1..n, 1..m>> \in R
    BY <1>1, <2>2 DEF StrictSubsetOrdering
  <2> QED BY <1>7, <1>8, <2>1, <2>3
<1> QED BY <1>9

\* What holds of 0, and of each number's successor, holds of every number.
LEMMA Climb ==
  ASSUME NEW T \in SUBSET Nat, 0 \in T, \A k \in T : k + 1 \in T
  PROVE  T = Nat
<1> SUFFICES ASSUME Nat \ T # {} PROVE FALSE
  OBVIOUS
<1>1. PICK m \in Nat \ T : \A n \in Nat \ T : m <= n
  <2>1. Nat \ T \in SUBSET Nat
    OBVIOUS
  <2> QED BY <2>1, Least
<1>2. m \in Nat /\ m \notin T /\ m # 0
  BY <1>1
<1>3. m - 1 \in Nat /\ ~(m <= m - 1) /\ m - 1 + 1 = m
  BY <1>2
<1>4. m - 1 \in T
  BY <1>1, <1>3
<1>5. m - 1 + 1 \in T
  BY <1>4
<1> QED BY <1>2, <1>3, <1>5

\* Numbers up to some bound.
Bounded(E) == \E n \in Nat : E \in SUBSET (1..n)

\* Part of an interval is finite.
LEMMA PartFinite ==
  ASSUME NEW E, Bounded(E)
  PROVE  IsFiniteSet(E) /\ Cardinality(E) \in Nat /\ \A j \in E : j \in Nat /\ 1 <= j
<1>0. PICK n \in Nat : E \in SUBSET (1..n)
  BY DEF Bounded
<1>1. IsFiniteSet(1..n)
  BY FS_Interval
<1>2. IsFiniteSet(E)
  BY <1>0, <1>1, FS_Subset
<1> QED BY <1>0, <1>2, FS_CardinalityType

\* And so is what of it lies below a number.
LEMMA BelowFinite ==
  ASSUME NEW E, Bounded(E), NEW m \in Int
  PROVE  /\ IsFiniteSet({j \in E : j < m}) /\ Cardinality({j \in E : j < m}) \in Nat
         /\ IsFiniteSet({j \in E : j <= m}) /\ Cardinality({j \in E : j <= m}) \in Nat
<1>2. IsFiniteSet(E)
  BY PartFinite
<1>3. {j \in E : j < m} \in SUBSET E /\ {j \in E : j <= m} \in SUBSET E
  OBVIOUS
<1>4. IsFiniteSet({j \in E : j < m}) /\ IsFiniteSet({j \in E : j <= m})
  BY <1>2, <1>3, FS_Subset
<1> QED BY <1>4, FS_CardinalityType

\* A set of n numbers has one with k - 1 below it, for each k up to n.
LEMMA NthExists ==
  ASSUME NEW E, Bounded(E), NEW k \in 1..Cardinality(E)
  PROVE  \E i \in E : Cardinality({j \in E : j < i}) = k - 1
<1>1. PICK T : T = {m \in Nat : Cardinality({j \in E : j <= m}) >= k}
  OBVIOUS
<1>0. PICK n \in Nat : E \in SUBSET (1..n)
  BY DEF Bounded
<1>3. Cardinality(E) \in Nat /\ \A j \in E : j \in Nat /\ 1 <= j /\ j <= n
  BY <1>0, PartFinite
<1>2. {j \in E : j <= n} = E
  BY <1>3
<1>4. n \in T
  BY <1>1, <1>2, <1>3
<1>5. PICK m \in T : \A x \in T : m <= x
  BY <1>1, <1>4, Least
<1>6. m \in Nat /\ Cardinality({j \in E : j <= m}) >= k
  BY <1>1
<1>7. m # 0
  <2>0. \A j \in E : ~(j <= 0)
    BY <1>3
  <2>1. {j \in E : j <= 0} = {}
    BY <2>0
  <2>2. Cardinality({}) = 0
    BY FS_EmptySet
  <2> QED BY <1>3, <1>6, <2>1, <2>2
<1>8. m - 1 \in Nat /\ m - 1 \notin T
  BY <1>5, <1>6, <1>7
<1>9. {j \in E : j <= m - 1} = {j \in E : j < m}
  <2>1. \A j \in E : j <= m - 1 <=> j < m
    BY <1>3, <1>6
  <2> QED BY <2>1
<1>10. /\ IsFiniteSet({j \in E : j < m}) /\ Cardinality({j \in E : j < m}) \in Nat
       /\ ~(Cardinality({j \in E : j < m}) >= k)
  <2>1. ~(Cardinality({j \in E : j <= m - 1}) >= k)
    BY <1>1, <1>8
  <2>2. IsFiniteSet({j \in E : j < m}) /\ Cardinality({j \in E : j < m}) \in Nat
    <3>1. m \in Int
      BY <1>6
    <3> QED BY <3>1, BelowFinite
  <2> QED BY <1>9, <2>1, <2>2
<1>11. m \in E
  <2> SUFFICES ASSUME m \notin E
               PROVE  FALSE
    OBVIOUS
  <2>0. \A j \in E : j <= m <=> j < m
    BY <1>3, <1>6
  <2>1. {j \in E : j <= m} = {j \in E : j < m}
    BY <2>0
  <2> QED BY <1>6, <1>10, <2>1
<1>12. {j \in E : j <= m} = {j \in E : j < m} \union {m} /\ m \notin {j \in E : j < m}
  <2>1. \A j \in E : j <= m <=> j < m \/ j = m
    BY <1>3, <1>6
  <2>2. ~(m < m)
    BY <1>6
  <2> QED BY <1>11, <2>1, <2>2
<1>13. Cardinality({j \in E : j <= m}) = Cardinality({j \in E : j < m}) + 1
  BY <1>10, <1>12, FS_AddElement
<1>14. Cardinality({j \in E : j < m}) = k - 1
  BY <1>3, <1>6, <1>10, <1>13
<1> QED BY <1>11, <1>14

\* There is one such number only: Nth.
LEMMA NthIs ==
  ASSUME NEW E, Bounded(E), NEW k \in Int, NEW i \in E,
         Cardinality({j \in E : j < i}) = k - 1
  PROVE  Nth(E, k) = i
<1>0. \A j \in E : j \in Int
  BY PartFinite
<1>1. ASSUME NEW a \in E, NEW b \in E, a < b
      PROVE  Cardinality({j \in E : j < a}) < Cardinality({j \in E : j < b})
  <2>1. IsFiniteSet({j \in E : j < b}) /\ Cardinality({j \in E : j < b}) \in Nat
    BY <1>0, BelowFinite
  <2>2. IsFiniteSet({j \in E : j < a}) /\ Cardinality({j \in E : j < a}) \in Nat
    BY <1>0, BelowFinite
  <2>3. {j \in E : j < a} \union {a} \in SUBSET {j \in E : j < b} /\ a \notin {j \in E : j < a}
    <3>1. \A j \in E : j < a \/ j = a => j < b
      BY <1>0, <1>1
    <3>2. ~(a < a)
      BY <1>0
    <3> QED BY <3>1, <3>2
  <2>4. Cardinality({j \in E : j < a} \union {a}) = Cardinality({j \in E : j < a}) + 1
    BY <2>2, <2>3, FS_AddElement
  <2>5. Cardinality({j \in E : j < a} \union {a}) <= Cardinality({j \in E : j < b})
    BY <2>1, <2>3, FS_Subset
  <2> QED BY <2>1, <2>2, <2>4, <2>5
<1>2. ASSUME NEW a \in E, Cardinality({j \in E : j < a}) = k - 1
      PROVE  a = i
  <2>1. ~(a < i) /\ ~(i < a)
    BY <1>1, <1>2
  <2> QED BY <1>0, <2>1
<1> QED BY <1>2 DEF Nth

\* And it is there.
LEMMA NthTyped ==
  ASSUME NEW E, Bounded(E), NEW k \in 1..Cardinality(E)
  PROVE  Nth(E, k) \in E /\ Cardinality({j \in E : j < Nth(E, k)}) = k - 1
BY NthExists DEF Nth

\* Numbers moved on are as many.
LEMMA Shifted ==
  ASSUME NEW E, Bounded(E), NEW l \in Nat
  PROVE  /\ IsFiniteSet({l + j : j \in E})
         /\ Cardinality({l + j : j \in E}) = Cardinality(E)
<1>1. IsFiniteSet(E) /\ \A j \in E : j \in Nat
  BY PartFinite
<1>2. PICK f : f = [j \in E |-> l + j]
  OBVIOUS
<1>3. PICK T : T = {l + j : j \in E}
  OBVIOUS
<1>4. f \in [E -> T]
  BY <1>2, <1>3
<1>5. \A i, j \in E : f[i] = f[j] => i = j
  BY <1>1, <1>2
<1>6. \A t \in T : \E j \in E : f[j] = t
  BY <1>2, <1>3
<1>7. f \in Bijection(E, T)
  BY <1>4, <1>5, <1>6 DEF Bijection, Injection, Surjection, IsInjective
<1>8. ExistsBijection(E, T)
  BY <1>7 DEF ExistsBijection
<1> QED BY <1>1, <1>3, <1>8, FS_Bijection

-----------------------------------------------------------------------------

(***************************************************************************)
(* Where lines end.                                                        *)
(***************************************************************************)

\* One text follows another where a line ends.
Seam(a, b) ==
    a # <<>> /\ b # <<>> => a[Len(a)] \in Newlines /\ ~(a[Len(a)] = "CR" /\ b[1] = "LF")

\* Positions.
LEMMA EndsTyped ==
  ASSUME NEW s \in Seq(Symbols)
  PROVE  /\ Len(s) \in Nat /\ DOMAIN s = 1..Len(s)
         /\ LineEnds(s) \in SUBSET (1..Len(s))
         /\ Bounded(LineEnds(s)) /\ IsFiniteSet(LineEnds(s)) /\ Cardinality(LineEnds(s)) \in Nat
         /\ s # <<>> => Len(s) \in LineEnds(s)
<1>1. Len(s) \in Nat /\ DOMAIN s = 1..Len(s)
  OBVIOUS
<1>2. LineEnds(s) \in SUBSET (1..Len(s))
  BY <1>1 DEF LineEnds
<1>3. Bounded(LineEnds(s))
  BY <1>1, <1>2 DEF Bounded
<1>5. IsFiniteSet(LineEnds(s)) /\ Cardinality(LineEnds(s)) \in Nat
  BY <1>3, PartFinite
<1>4. s # <<>> => Len(s) \in 1..Len(s)
  OBVIOUS
<1> QED BY <1>1, <1>2, <1>3, <1>4, <1>5 DEF LineEnds

\* Two texts after one another.
LEMMA Joined ==
  ASSUME NEW a \in Seq(Symbols), NEW b \in Seq(Symbols)
  PROVE  /\ a \o b \in Seq(Symbols) /\ Len(a \o b) = Len(a) + Len(b)
         /\ \A i \in 1..Len(a) : (a \o b)[i] = a[i]
         /\ \A j \in 1..Len(b) : (a \o b)[Len(a) + j] = b[j]
OBVIOUS

\* The ends of lines of two texts after one another.
LEMMA EndsSplit ==
  ASSUME NEW a \in Seq(Symbols), NEW b \in Seq(Symbols), Seam(a, b)
  PROVE  LineEnds(a \o b) = LineEnds(a) \union {Len(a) + j : j \in LineEnds(b)}
<1>1. /\ Len(a) \in Nat /\ DOMAIN a = 1..Len(a) /\ Len(b) \in Nat /\ DOMAIN b = 1..Len(b)
      /\ a = <<>> <=> Len(a) = 0
      /\ b = <<>> <=> Len(b) = 0
  OBVIOUS
<1>0. Len(a) \in Nat /\ Len(b) \in Nat
  OBVIOUS
<1>2. PICK c : c = a \o b
  OBVIOUS
<1>3. /\ c \in Seq(Symbols) /\ Len(c) = Len(a) + Len(b) /\ DOMAIN c = 1..(Len(a) + Len(b))
      /\ \A i \in 1..Len(a) : c[i] = a[i]
      /\ \A j \in 1..Len(b) : c[Len(a) + j] = b[j]
  BY <1>2, Joined
<1>4. ASSUME NEW i \in 1..Len(a)
      PROVE  i \in LineEnds(c) <=> i \in LineEnds(a)
  <2>0. i \in Nat /\ i >= 1 /\ i <= Len(a)
    BY <1>1
  <2>1. i \in DOMAIN c /\ i \in DOMAIN a /\ c[i] = a[i]
    BY <1>1, <1>3, <2>0
  <2>2. CASE i = Len(a)
    <3>1. i \in LineEnds(a)
      BY <2>1, <2>2 DEF LineEnds
    <3>2. b # <<>> => a[i] \in Newlines /\ ~(a[i] = "CR" /\ b[1] = "LF")
      BY <1>1, <2>2 DEF Seam
    <3>3. i < Len(c) => c[i + 1] = b[1]
      BY <1>1, <1>3, <2>2
    <3>4. b # <<>> => EndsLine(i, c)
      BY <2>1, <3>2, <3>3 DEF EndsLine
    <3>5. b = <<>> => i = Len(c)
      BY <1>1, <1>3, <2>2
    <3> QED BY <2>1, <3>1, <3>4, <3>5 DEF LineEnds
  <2>3. CASE i < Len(a)
    <3>0. i < Len(c) /\ i + 1 \in 1..Len(a) /\ i # Len(a) /\ i # Len(c)
      <4>1. Len(c) = Len(a) + Len(b)
        BY <1>3
      <4> QED BY <1>0, <2>0, <2>3, <4>1
    <3>1. i < Len(c) /\ c[i + 1] = a[i + 1] /\ i # Len(a) /\ i # Len(c)
      BY <1>3, <3>0
    <3>2. EndsLine(i, c) <=> EndsLine(i, a)
      BY <2>1, <2>3, <3>1 DEF EndsLine
    <3> QED BY <2>1, <3>1, <3>2 DEF LineEnds
  <2>4. i = Len(a) \/ i < Len(a)
    BY <1>0, <2>0
  <2> QED BY <2>2, <2>3, <2>4
<1>5. ASSUME NEW j \in 1..Len(b)
      PROVE  Len(a) + j \in LineEnds(c) <=> j \in LineEnds(b)
  <2>0. j \in Nat /\ j >= 1 /\ j <= Len(b)
    BY <1>1
  <2>1. Len(a) + j \in DOMAIN c /\ j \in DOMAIN b /\ c[Len(a) + j] = b[j]
    BY <1>1, <1>3, <2>0
  <2>2. Len(a) + j = Len(c) <=> j = Len(b)
    <3>1. Len(c) = Len(a) + Len(b)
      BY <1>3
    <3> QED BY <1>0, <2>0, <3>1
  <2>3. Len(a) + j < Len(c) <=> j < Len(b)
    BY <1>1, <1>3
  <2>4. j < Len(b) => c[Len(a) + j + 1] = b[j + 1]
    <3> SUFFICES ASSUME j < Len(b)
                 PROVE  c[Len(a) + j + 1] = b[j + 1]
      OBVIOUS
    <3>1. j + 1 \in 1..Len(b) /\ Len(a) + (j + 1) = Len(a) + j + 1
      BY <1>1
    <3> QED BY <1>3, <3>1
  <2>5. EndsLine(Len(a) + j, c) <=> EndsLine(j, b)
    BY <2>1, <2>3, <2>4 DEF EndsLine
  <2> QED BY <2>1, <2>2, <2>5 DEF LineEnds
<1>6. LineEnds(c) \in SUBSET (1..Len(c)) /\ LineEnds(a) \in SUBSET (1..Len(a)) /\ LineEnds(b) \in SUBSET (1..Len(b))
  BY <1>3, EndsTyped
<1>7. ASSUME NEW i \in LineEnds(c)
      PROVE  i \in LineEnds(a) \union {Len(a) + j : j \in LineEnds(b)}
  <2>1. i \in 1..(Len(a) + Len(b))
    BY <1>3, <1>6
  <2>2. CASE i <= Len(a)
    BY <1>1, <1>4, <2>1, <2>2
  <2>3. CASE i > Len(a)
    <3>1. PICK j \in 1..Len(b) : i = Len(a) + j
      <4>1. i - Len(a) \in 1..Len(b) /\ i = Len(a) + (i - Len(a))
        BY <1>1, <2>1, <2>3
      <4> QED BY <4>1
    <3> QED BY <1>5, <3>1
  <2> QED BY <1>1, <2>1, <2>2, <2>3
<1>8. LineEnds(a) \subseteq LineEnds(c)
  BY <1>4, <1>6
<1>9. ASSUME NEW j \in LineEnds(b)
      PROVE  Len(a) + j \in LineEnds(c)
  BY <1>5, <1>6
<1> QED BY <1>2, <1>7, <1>8, <1>9

\* The last line ends where the text does.
LEMMA LastEnd ==
  ASSUME NEW s \in Seq(Symbols), s # <<>>
  PROVE  Cardinality(LineEnds(s)) >= 1 /\ Nth(LineEnds(s), Cardinality(LineEnds(s))) = Len(s)
<1>1. PICK E : E = LineEnds(s)
  OBVIOUS
<1>2. /\ Len(s) \in Nat /\ E \in SUBSET (1..Len(s)) /\ Len(s) \in E
      /\ Bounded(E) /\ IsFiniteSet(E) /\ Cardinality(E) \in Nat
  BY <1>1, EndsTyped
<1>3. {j \in E : j < Len(s)} = E \ {Len(s)}
  <2>1. \A j \in E : j < Len(s) <=> j # Len(s)
    BY <1>2, PartFinite
  <2> QED BY <2>1
<1>4. Cardinality({j \in E : j < Len(s)}) = Cardinality(E) - 1
  BY <1>2, <1>3, FS_RemoveElement
<1>5. Cardinality({j \in E : j < Len(s)}) \in Nat
  <2>1. Bounded(E) /\ Len(s) \in Int
    BY <1>2
  <2> QED BY <2>1, BelowFinite
<1>6. Nth(E, Cardinality(E)) = Len(s)
  BY <1>2, <1>4, NthIs
<1> QED BY <1>1, <1>2, <1>4, <1>5, <1>6

\* The lines of two texts after one another end where each ends in its own.
LEMMA NthSplit ==
  ASSUME NEW a \in Seq(Symbols), NEW b \in Seq(Symbols), Seam(a, b)
  PROVE  /\ Cardinality(LineEnds(a \o b)) = Cardinality(LineEnds(a)) + Cardinality(LineEnds(b))
         /\ \A k \in 1..Cardinality(LineEnds(a)) : Nth(LineEnds(a \o b), k) = Nth(LineEnds(a), k)
         /\ \A k \in 1..Cardinality(LineEnds(b)) :
                Nth(LineEnds(a \o b), Cardinality(LineEnds(a)) + k) = Len(a) + Nth(LineEnds(b), k)
<1>1. PICK Ea, Eb, Es, E :
          /\ Ea = LineEnds(a) /\ Eb = LineEnds(b) /\ E = LineEnds(a \o b)
          /\ Es = {Len(a) + j : j \in Eb}
  OBVIOUS
<1>2. /\ Len(a) \in Nat /\ Ea \in SUBSET (1..Len(a)) /\ Bounded(Ea) /\ IsFiniteSet(Ea) /\ Cardinality(Ea) \in Nat
      /\ Len(b) \in Nat /\ Eb \in SUBSET (1..Len(b)) /\ Bounded(Eb) /\ IsFiniteSet(Eb) /\ Cardinality(Eb) \in Nat
  BY <1>1, EndsTyped
<1>3. E = Ea \union Es
  BY <1>1, EndsSplit
<1>4. Bounded(E)
  BY <1>1, Joined, EndsTyped
<1>5. /\ \A j \in Ea : j \in Nat /\ 1 <= j /\ j <= Len(a)
      /\ \A j \in Eb : j \in Nat /\ 1 <= j /\ j <= Len(b)
  BY <1>2
<1>6. IsFiniteSet(Es) /\ Cardinality(Es) = Cardinality(Eb)
  BY <1>1, <1>2, Shifted
<1>7. Ea \intersect Es = {}
  <2>1. \A j \in Eb : Len(a) + j \notin Ea
    BY <1>2, <1>5
  <2> QED BY <1>1, <2>1
<1>8. Cardinality(E) = Cardinality(Ea) + Cardinality(Eb)
  <2>1. Cardinality(Ea \union Es) = Cardinality(Ea) + Cardinality(Es) - Cardinality(Ea \intersect Es)
    BY <1>2, <1>6, FS_Union
  <2>2. Cardinality(Ea \intersect Es) = 0
    BY <1>7, FS_EmptySet
  <2>3. Cardinality(Ea \union Es) = Cardinality(Ea) + Cardinality(Eb)
    BY <1>2, <1>6, <2>1, <2>2
  <2> QED BY <1>3, <2>3
<1>9. ASSUME NEW k \in 1..Cardinality(Ea)
      PROVE  Nth(E, k) = Nth(Ea, k)
  <2>1. PICK i : i = Nth(Ea, k)
    OBVIOUS
  <2>2. i \in Ea /\ Cardinality({j \in Ea : j < i}) = k - 1
    BY <1>2, <2>1, NthTyped
  <2>3. {j \in E : j < i} = {j \in Ea : j < i}
    <3>1. \A j \in Eb : ~(Len(a) + j < i)
      BY <1>2, <1>5, <2>2
    <3> QED BY <1>1, <1>3, <3>1
  <2>4. i \in E /\ k \in Int /\ Cardinality({j \in E : j < i}) = k - 1
    <3>1. i \in E
      BY <1>3, <2>2
    <3>2. k \in Int
      BY <1>2
    <3> QED BY <2>2, <2>3, <3>1, <3>2
  <2> QED BY <1>4, <2>1, <2>4, NthIs
<1>10. ASSUME NEW k \in 1..Cardinality(Eb)
       PROVE  Nth(E, Cardinality(Ea) + k) = Len(a) + Nth(Eb, k)
  <2>1. PICK i : i = Nth(Eb, k)
    OBVIOUS
  <2>2. i \in Eb /\ Cardinality({j \in Eb : j < i}) = k - 1
    BY <1>2, <2>1, NthTyped
  <2>3. PICK B, m : B = {j \in Eb : j < i} /\ m = Len(a) + i
    OBVIOUS
  <2>4. IsFiniteSet({Len(a) + j : j \in B}) /\ Cardinality({Len(a) + j : j \in B}) = k - 1
    <3>1. Bounded(B)
      BY <1>2, <2>3 DEF Bounded
    <3> QED BY <1>2, <2>2, <2>3, <3>1, Shifted
  <2>5. {j \in E : j < m} = Ea \union {Len(a) + j : j \in B}
    <3>1. \A j \in Ea : j < m
      BY <1>2, <1>5, <2>2, <2>3
    <3>2. \A j \in Eb : Len(a) + j < m <=> j < i
      BY <1>2, <1>5, <2>2, <2>3
    <3>3. B \subseteq Eb /\ \A j \in Eb : j \in B <=> j < i
      BY <2>3
    <3>4. \A x : x \in Es => \E j \in Eb : x = Len(a) + j
      BY <1>1
    <3>5. \A j \in Eb : Len(a) + j \in Es
      BY <1>1
    <3> QED BY <1>3, <3>1, <3>2, <3>3, <3>4, <3>5
  <2>6. Ea \intersect {Len(a) + j : j \in B} = {}
    <3>1. B \subseteq Eb
      BY <2>3
    <3> QED BY <1>1, <1>7, <3>1
  <2>7. Cardinality({j \in E : j < m}) = Cardinality(Ea) + k - 1
    <3>1. Cardinality(Ea \union {Len(a) + j : j \in B})
              = Cardinality(Ea) + Cardinality({Len(a) + j : j \in B}) - Cardinality(Ea \intersect {Len(a) + j : j \in B})
      BY <1>2, <2>4, FS_Union
    <3>2. Cardinality(Ea \intersect {Len(a) + j : j \in B}) = 0
      BY <2>6, FS_EmptySet
    <3>3. Cardinality(Ea \union {Len(a) + j : j \in B}) = Cardinality(Ea) + k - 1
      BY <1>2, <2>4, <3>1, <3>2
    <3> QED BY <2>5, <3>3
  <2>8. m \in E
    BY <1>1, <1>3, <2>2, <2>3
  <2>9. PICK n \in Int : n = Cardinality(Ea) + k
    BY <1>2
  <2>10. Cardinality({j \in E : j < m}) = n - 1
    BY <1>2, <2>7, <2>9
  <2>11. Nth(E, n) = m
    BY <1>4, <2>8, <2>10, NthIs
  <2> QED BY <2>1, <2>3, <2>9, <2>11
<1> QED BY <1>1, <1>8, <1>9, <1>10

-----------------------------------------------------------------------------

(***************************************************************************)
(* The lines of texts after one another.                                   *)
(***************************************************************************)

\* A part of a text.
LEMMA PartTyped ==
  ASSUME NEW s \in Seq(Symbols), NEW m \in Nat, NEW n \in Nat, 1 <= m, n <= Len(s)
  PROVE  /\ SubSeq(s, m, n) \in Seq(Symbols)
         /\ Len(SubSeq(s, m, n)) = IF m <= n THEN n - m + 1 ELSE 0
         /\ \A i \in 1..Len(SubSeq(s, m, n)) : SubSeq(s, m, n)[i] = s[m + i - 1]
<1>1. \A i \in m..n : s[i] \in Symbols
  OBVIOUS
<1>2. m \in Int /\ n \in Int
  OBVIOUS
<1>3. /\ SubSeq(s, m, n) \in Seq(Symbols)
      /\ Len(SubSeq(s, m, n)) = IF m <= n THEN n - m + 1 ELSE 0
      /\ \A i \in 1..n-m+1 : SubSeq(s, m, n)[i] = s[m + i - 1]
  BY <1>1, <1>2, SubSeqProperties
<1> QED BY <1>3

\* The part of one of two texts is a part of both.
LEMMA PartOfFirst ==
  ASSUME NEW a \in Seq(Symbols), NEW b \in Seq(Symbols),
         NEW m \in Nat, NEW n \in Nat, 1 <= m, n <= Len(a)
  PROVE  SubSeq(a \o b, m, n) = SubSeq(a, m, n)
<1>0. Len(a) \in Nat /\ Len(b) \in Nat
  OBVIOUS
<1>1. PICK c : c = a \o b
  OBVIOUS
<1>2. /\ c \in Seq(Symbols) /\ Len(c) = Len(a) + Len(b)
      /\ \A i \in 1..Len(a) : c[i] = a[i]
  BY <1>1, Joined
<1>3. n <= Len(c)
  BY <1>0, <1>2
<1>4. PICK x, y : x = SubSeq(c, m, n) /\ y = SubSeq(a, m, n)
  OBVIOUS
<1>5. /\ x \in Seq(Symbols) /\ Len(x) = (IF m <= n THEN n - m + 1 ELSE 0)
      /\ \A i \in 1..Len(x) : x[i] = c[m + i - 1]
  BY <1>2, <1>3, <1>4, PartTyped
<1>6. /\ y \in Seq(Symbols) /\ Len(y) = (IF m <= n THEN n - m + 1 ELSE 0)
      /\ \A i \in 1..Len(y) : y[i] = a[m + i - 1]
  BY <1>4, PartTyped
<1>7. Len(x) = Len(y)
  BY <1>5, <1>6
<1>8. ASSUME NEW i \in 1..Len(x)
      PROVE  x[i] = y[i]
  <2>1. m + i - 1 \in 1..Len(a)
    BY <1>0, <1>5
  <2> QED BY <1>2, <1>5, <1>6, <1>7, <2>1
<1>9. x = y
  BY <1>5, <1>6, <1>7, <1>8, SeqEqual
<1> QED BY <1>1, <1>4, <1>9

\* The same of the other.
LEMMA PartOfSecond ==
  ASSUME NEW a \in Seq(Symbols), NEW b \in Seq(Symbols),
         NEW m \in Nat, NEW n \in Nat, 1 <= m, n <= Len(b)
  PROVE  SubSeq(a \o b, Len(a) + m, Len(a) + n) = SubSeq(b, m, n)
<1>0. Len(a) \in Nat /\ Len(b) \in Nat
  OBVIOUS
<1>1. PICK c, mm, nn : c = a \o b /\ mm = Len(a) + m /\ nn = Len(a) + n
  OBVIOUS
<1>2. /\ c \in Seq(Symbols) /\ Len(c) = Len(a) + Len(b)
      /\ \A j \in 1..Len(b) : c[Len(a) + j] = b[j]
  BY <1>1, Joined
<1>3. mm \in Nat /\ nn \in Nat /\ 1 <= mm /\ nn <= Len(c) /\ (mm <= nn <=> m <= n) /\ nn - mm + 1 = n - m + 1
  BY <1>0, <1>1, <1>2
<1>4. PICK x, y : x = SubSeq(c, mm, nn) /\ y = SubSeq(b, m, n)
  OBVIOUS
<1>5. /\ x \in Seq(Symbols) /\ Len(x) = (IF mm <= nn THEN nn - mm + 1 ELSE 0)
      /\ \A i \in 1..Len(x) : x[i] = c[mm + i - 1]
  BY <1>2, <1>3, <1>4, PartTyped
<1>6. /\ y \in Seq(Symbols) /\ Len(y) = (IF m <= n THEN n - m + 1 ELSE 0)
      /\ \A i \in 1..Len(y) : y[i] = b[m + i - 1]
  BY <1>4, PartTyped
<1>7. Len(x) = Len(y)
  BY <1>3, <1>5, <1>6
<1>8. ASSUME NEW i \in 1..Len(x)
      PROVE  x[i] = y[i]
  <2>1. m + i - 1 \in 1..Len(b)
    BY <1>0, <1>6, <1>7
  <2>2. mm + i - 1 = Len(a) + (m + i - 1)
    BY <1>0, <1>1, <1>5
  <2> QED BY <1>2, <1>5, <1>6, <1>7, <2>1, <2>2
<1>9. x = y
  BY <1>5, <1>6, <1>7, <1>8, SeqEqual
<1> QED BY <1>1, <1>4, <1>9

\* A line with its newline.
Line(s, k) ==
    SubSeq(s, IF k = 1 THEN 1 ELSE Nth(LineEnds(s), k - 1) + 1, Nth(LineEnds(s), k))

\* The lines of a text, one by one.
LEMMA LinesAre ==
  ASSUME NEW s
  PROVE  SplitLines(s) = [k \in 1..Cardinality(LineEnds(s)) |-> Stripped(Line(s, k))]
BY DEF SplitLines, Line

\* It begins where the one before it ended.
LEMMA LineSpans ==
  ASSUME NEW s \in Seq(Symbols), NEW k \in 1..Cardinality(LineEnds(s))
  PROVE  /\ Nth(LineEnds(s), k) \in Nat /\ 1 <= Nth(LineEnds(s), k) /\ Nth(LineEnds(s), k) <= Len(s)
         /\ k # 1 => k - 1 \in 1..Cardinality(LineEnds(s)) /\ Nth(LineEnds(s), k - 1) \in Nat
<1>1. PICK E : E = LineEnds(s)
  OBVIOUS
<1>2. E \in SUBSET (1..Len(s)) /\ Bounded(E) /\ Cardinality(E) \in Nat /\ Len(s) \in Nat
  BY <1>1, EndsTyped
<1>3. \A i \in 1..Cardinality(E) : Nth(E, i) \in E
  BY <1>2, NthTyped
<1>4. k # 1 => k - 1 \in 1..Cardinality(E)
  BY <1>1, <1>2
<1> QED BY <1>1, <1>2, <1>3, <1>4

\* Each of them is a text.
LEMMA LineTyped ==
  ASSUME NEW s \in Seq(Symbols), NEW k \in 1..Cardinality(LineEnds(s))
  PROVE  Line(s, k) \in Seq(Symbols)
<1>1. PICK m, n : /\ m = (IF k = 1 THEN 1 ELSE Nth(LineEnds(s), k - 1) + 1)
                  /\ n = Nth(LineEnds(s), k)
  OBVIOUS
<1>2. m \in Nat /\ n \in Nat /\ 1 <= m /\ n <= Len(s)
  BY <1>1, LineSpans
<1> QED BY <1>1, <1>2, PartTyped DEF Line

\* A line without its newline is no longer.
LEMMA StrippedTyped ==
  ASSUME NEW l \in Seq(Symbols)
  PROVE  Stripped(l) \in Seq(Symbols)
<1>1. PICK T : T = {i \in DOMAIN l : l[i] \notin Newlines}
  OBVIOUS
<1>2. IsFiniteSet(1..Len(l)) /\ Cardinality(1..Len(l)) = Len(l) /\ Len(l) \in Nat
  <2>1. Len(l) \in Nat /\ Len(l) \in Int /\ 1 \in Int
    OBVIOUS
  <2>2. Cardinality(1..Len(l)) = (IF 1 > Len(l) THEN 0 ELSE Len(l) - 1 + 1) /\ IsFiniteSet(1..Len(l))
    BY <2>1, FS_Interval
  <2> QED BY <2>1, <2>2
<1>3. T \in SUBSET (1..Len(l))
  BY <1>1
<1>4. Cardinality(T) <= Len(l) /\ Cardinality(T) \in Nat
  BY <1>2, <1>3, FS_Subset, FS_CardinalityType
<1>5. SubSeq(l, 1, Cardinality(T)) \in Seq(Symbols)
  BY <1>4, PartTyped
<1> QED BY <1>1, <1>5 DEF Stripped

\* There is one for each number that ends a line.
LEMMA LinesTyped ==
  ASSUME NEW s \in Seq(Symbols)
  PROVE  SplitLines(s) \in Seq(Seq(Symbols)) /\ Len(SplitLines(s)) = Cardinality(LineEnds(s))
<1>1. Cardinality(LineEnds(s)) \in Nat
  BY EndsTyped
<1>2. \A k \in 1..Cardinality(LineEnds(s)) : Stripped(Line(s, k)) \in Seq(Symbols)
  BY LineTyped, StrippedTyped
<1> QED BY <1>1, <1>2, LinesAre

\* The lines of two texts after one another are those of the one, then those of
\* the other.
LEMMA LinesSplit ==
  ASSUME NEW a \in Seq(Symbols), NEW b \in Seq(Symbols), Seam(a, b)
  PROVE  SplitLines(a \o b) = SplitLines(a) \o SplitLines(b)
<1>1. PICK c, p, q : c = a \o b /\ p = Cardinality(LineEnds(a)) /\ q = Cardinality(LineEnds(b))
  OBVIOUS
<1>2. /\ p \in Nat /\ q \in Nat /\ Len(a) \in Nat /\ Len(b) \in Nat /\ c \in Seq(Symbols)
  BY <1>1, EndsTyped, Joined
<1>3. /\ Cardinality(LineEnds(c)) = p + q
      /\ \A k \in 1..p : Nth(LineEnds(c), k) = Nth(LineEnds(a), k)
      /\ \A k \in 1..q : Nth(LineEnds(c), p + k) = Len(a) + Nth(LineEnds(b), k)
  BY <1>1, NthSplit
<1>4. ASSUME NEW k \in 1..p
      PROVE  Line(c, k) = Line(a, k)
  <2>1. PICK m, n : /\ m = (IF k = 1 THEN 1 ELSE Nth(LineEnds(a), k - 1) + 1)
                    /\ n = Nth(LineEnds(a), k)
    OBVIOUS
  <2>2. m \in Nat /\ n \in Nat /\ 1 <= m /\ n <= Len(a)
    BY <1>1, <2>1, LineSpans
  <2>3. m = (IF k = 1 THEN 1 ELSE Nth(LineEnds(c), k - 1) + 1) /\ n = Nth(LineEnds(c), k)
    <3>1. k # 1 => k - 1 \in 1..p
      BY <1>2
    <3> QED BY <1>3, <2>1, <3>1
  <2>4. SubSeq(c, m, n) = SubSeq(a, m, n)
    BY <1>1, <2>2, PartOfFirst
  <2> QED BY <2>1, <2>3, <2>4 DEF Line
<1>5. ASSUME NEW k \in 1..q
      PROVE  Line(c, p + k) = Line(b, k)
  <2>1. PICK m, n : /\ m = (IF k = 1 THEN 1 ELSE Nth(LineEnds(b), k - 1) + 1)
                    /\ n = Nth(LineEnds(b), k)
    OBVIOUS
  <2>2. m \in Nat /\ n \in Nat /\ 1 <= m /\ n <= Len(b)
    BY <1>1, <2>1, LineSpans
  <2>3. Len(a) + n = Nth(LineEnds(c), p + k)
    BY <1>3, <2>1
  <2>4. Len(a) + m = (IF p + k = 1 THEN 1 ELSE Nth(LineEnds(c), p + k - 1) + 1)
    <3>1. CASE k # 1
      <4>1. k - 1 \in 1..q /\ p + k # 1 /\ p + k - 1 = p + (k - 1)
        BY <1>2, <3>1
      <4>2. Nth(LineEnds(c), p + k - 1) = Len(a) + Nth(LineEnds(b), k - 1)
        BY <1>3, <4>1
      <4>3. Nth(LineEnds(b), k - 1) \in Nat /\ m = Nth(LineEnds(b), k - 1) + 1
        BY <1>1, <2>1, <3>1, LineSpans
      <4> QED BY <1>2, <4>1, <4>2, <4>3
    <3>2. CASE k = 1 /\ a = <<>>
      <4>1. p = 0
        BY <1>1, <3>2, FS_EmptySet DEF LineEnds
      <4> QED BY <2>1, <3>2, <4>1
    <3>3. CASE k = 1 /\ a # <<>>
      <4>1. p >= 1 /\ Nth(LineEnds(a), p) = Len(a)
        BY <1>1, <3>3, LastEnd
      <4>2. p \in 1..p /\ p + k # 1 /\ p + k - 1 = p
        BY <1>2, <3>3, <4>1
      <4>3. Nth(LineEnds(c), p + k - 1) = Len(a)
        BY <1>3, <4>1, <4>2
      <4> QED BY <1>2, <2>1, <3>3, <4>2, <4>3
    <3> QED BY <3>1, <3>2, <3>3
  <2>5. SubSeq(c, Len(a) + m, Len(a) + n) = SubSeq(b, m, n)
    BY <1>1, <2>2, PartOfSecond
  <2>6. Line(b, k) = SubSeq(b, m, n)
    BY <2>1 DEF Line
  <2>7. Line(c, p + k) = SubSeq(c, Len(a) + m, Len(a) + n)
    <3>0. PICK i \in Int : i = p + k
      BY <1>2
    <3>1. PICK mm, nn : mm = Len(a) + m /\ nn = Len(a) + n
      OBVIOUS
    <3>2. mm = (IF i = 1 THEN 1 ELSE Nth(LineEnds(c), i - 1) + 1) /\ nn = Nth(LineEnds(c), i)
      BY <1>2, <2>3, <2>4, <3>0, <3>1
    <3>3. Line(c, i) = SubSeq(c, mm, nn)
      BY <3>2 DEF Line
    <3> QED BY <3>0, <3>1, <3>3
  <2> QED BY <2>5, <2>6, <2>7
<1>6. PICK x, y, z : x = SplitLines(c) /\ y = SplitLines(a) /\ z = SplitLines(b)
  OBVIOUS
<1>7. /\ x \in Seq(Seq(Symbols)) /\ Len(x) = p + q
      /\ y \in Seq(Seq(Symbols)) /\ Len(y) = p
      /\ z \in Seq(Seq(Symbols)) /\ Len(z) = q
  BY <1>1, <1>2, <1>3, <1>6, LinesTyped
<1>8. /\ x = [k \in 1..(p + q) |-> Stripped(Line(c, k))]
      /\ y = [k \in 1..p |-> Stripped(Line(a, k))]
      /\ z = [k \in 1..q |-> Stripped(Line(b, k))]
  BY <1>1, <1>3, <1>6, LinesAre
<1>9. /\ y \o z \in Seq(Seq(Symbols)) /\ Len(y \o z) = p + q
      /\ \A i \in 1..(p + q) : (y \o z)[i] = IF i <= p THEN y[i] ELSE z[i - p]
  BY <1>7, ConcatProperties
<1>10. ASSUME NEW i \in 1..(p + q)
       PROVE  x[i] = (y \o z)[i]
  <2>1. CASE i <= p
    <3>1. i \in 1..p
      BY <1>2, <2>1
    <3>2. x[i] = Stripped(Line(a, i)) /\ y[i] = Stripped(Line(a, i))
      BY <1>4, <1>8, <3>1
    <3> QED BY <1>9, <2>1, <3>2
  <2>2. CASE ~(i <= p)
    <3>1. PICK j \in 1..q : i = p + j /\ j = i - p
      <4>1. i - p \in 1..q /\ i = p + (i - p)
        BY <1>2, <2>2
      <4> QED BY <4>1
    <3>2. x[i] = Stripped(Line(b, j)) /\ z[j] = Stripped(Line(b, j))
      BY <1>5, <1>8, <3>1
    <3> QED BY <1>9, <2>2, <3>1, <3>2
  <2> QED BY <2>1, <2>2
<1>11. x = y \o z
  BY <1>7, <1>9, <1>10, SeqEqual
<1> QED BY <1>1, <1>6, <1>11

-----------------------------------------------------------------------------

(***************************************************************************)
(* One line.                                                               *)
(***************************************************************************)

\* A text without newlines, and what may end a line.
Plain(u) == u \in Seq(Symbols) /\ \A i \in 1..Len(u) : u[i] \notin Newlines

Terminators == {<<>>, <<"LF">>, <<"VT">>, <<"CR">>, <<"CR", "LF">>}

\* What ends a line: one newline, or two that belong together, or nothing.
LEMMA TerminatorsAre ==
  ASSUME NEW e \in Terminators
  PROVE  /\ e \in Seq(Symbols) /\ Len(e) \in Nat /\ Len(e) <= 2 /\ (Len(e) = 0 <=> e = <<>>)
         /\ \A i \in 1..Len(e) : e[i] \in Newlines
         /\ Len(e) = 2 => e[1] = "CR" /\ e[2] = "LF"
<1>1. CASE e = <<>>
  BY <1>1
<1>2. ASSUME NEW c \in {"LF", "VT", "CR"}, e = <<c>>
      PROVE  /\ e \in Seq(Symbols) /\ Len(e) = 1 /\ e[1] \in Newlines
  BY <1>2 DEF Symbols, Newlines
<1>3. ASSUME e = <<"CR", "LF">>
      PROVE  e \in Seq(Symbols) /\ Len(e) = 2 /\ e[1] = "CR" /\ e[2] = "LF" /\ \A i \in 1..2 : e[i] \in Newlines
  BY <1>3 DEF Symbols, Newlines
<1>4. CASE \E c \in {"LF", "VT", "CR"} : e = <<c>>
  <2>1. e \in Seq(Symbols) /\ Len(e) = 1 /\ e[1] \in Newlines
    BY <1>2, <1>4
  <2> QED BY <2>1, <1>4
<1>5. CASE e = <<"CR", "LF">>
  <2>1. e \in Seq(Symbols) /\ Len(e) = 2 /\ e[1] = "CR" /\ e[2] = "LF" /\ \A i \in 1..2 : e[i] \in Newlines
    BY <1>3, <1>5
  <2> QED BY <2>1, <1>5
<1> QED BY <1>1, <1>4, <1>5 DEF Terminators

\* A text without newlines but at its end is one line.
LEMMA OneLine ==
  ASSUME NEW u, Plain(u), NEW e \in Terminators, u \o e # <<>>
  PROVE  SplitLines(u \o e) = <<u>>
<1>1. PICK s, p, q : s = u \o e /\ p = Len(u) /\ q = Len(e)
  OBVIOUS
<1>2. /\ u \in Seq(Symbols) /\ \A i \in 1..p : u[i] \notin Newlines
      /\ e \in Seq(Symbols) /\ q \in Nat /\ q <= 2 /\ p \in Nat
      /\ \A i \in 1..q : e[i] \in Newlines
      /\ q = 2 => e[1] = "CR" /\ e[2] = "LF"
  <2>1. /\ e \in Seq(Symbols) /\ Len(e) \in Nat /\ Len(e) <= 2 /\ (Len(e) = 0 <=> e = <<>>)
        /\ \A i \in 1..Len(e) : e[i] \in Newlines
        /\ Len(e) = 2 => e[1] = "CR" /\ e[2] = "LF"
    BY TerminatorsAre
  <2>2. u \in Seq(Symbols) /\ Len(u) \in Nat /\ \A i \in 1..Len(u) : u[i] \notin Newlines
    BY DEF Plain
  <2> QED BY <1>1, <2>1, <2>2
<1>3. /\ s \in Seq(Symbols) /\ Len(s) = p + q /\ s # <<>> /\ DOMAIN s = 1..(p + q)
      /\ \A i \in 1..p : s[i] = u[i]
      /\ \A i \in 1..q : s[p + i] = e[i]
  BY <1>1, <1>2, Joined
<1>4. Len(s) \in LineEnds(s) /\ LineEnds(s) \in SUBSET (1..Len(s))
  BY <1>3, EndsTyped
<1>5. ASSUME NEW i \in 1..(p + q), i # p + q
      PROVE  ~EndsLine(i, s)
  <2>1. CASE i <= p
    <3>1. i \in 1..p
      BY <1>2, <2>1
    <3>2. s[i] \notin Newlines
      BY <1>2, <1>3, <3>1
    <3> QED BY <3>2 DEF EndsLine
  <2>2. CASE i > p
    <3>1. q = 2 /\ i = p + 1 /\ i + 1 = p + 2 /\ i < p + q
      BY <1>2, <1>5, <2>2
    <3>2. 1 \in 1..q /\ 2 \in 1..q
      BY <3>1
    <3>3. s[i] = "CR" /\ s[i + 1] = "LF"
      BY <1>2, <1>3, <3>1, <3>2
    <3> QED BY <1>3, <3>1, <3>3 DEF EndsLine
  <2> QED BY <1>2, <2>1, <2>2
<1>6. LineEnds(s) = {Len(s)}
  BY <1>3, <1>4, <1>5 DEF LineEnds
<1>7. Cardinality(LineEnds(s)) = 1 /\ Nth(LineEnds(s), 1) = Len(s)
  <2>1. Cardinality(LineEnds(s)) = 1
    BY <1>6, FS_Singleton
  <2> QED BY <1>3, <2>1, LastEnd
<1>8. Line(s, 1) = s
  <2>1. SubSeq(s, 1, Len(s)) = s
    BY <1>3, SubSeqFull
  <2> QED BY <1>7, <2>1 DEF Line
<1>9. Stripped(s) = u
  <2>1. ASSUME NEW i \in 1..(p + q)
        PROVE  s[i] \notin Newlines <=> i \in 1..p
    <3>1. CASE i <= p
      BY <1>2, <1>3, <3>1
    <3>2. CASE ~(i <= p)
      <4>1. PICK j \in 1..q : i = p + j
        <5>1. i - p \in 1..q /\ i = p + (i - p)
          BY <1>2, <3>2
        <5> QED BY <5>1
      <4>2. s[i] \in Newlines
        <5>1. s[p + j] = e[j] /\ e[j] \in Newlines
          BY <1>2, <1>3
        <5> QED BY <4>1, <5>1
      <4> QED BY <1>2, <3>2, <4>2
    <3> QED BY <3>1, <3>2
  <2>2. 1..p \subseteq 1..(p + q)
    BY <1>2
  <2>3. {i \in DOMAIN s : s[i] \notin Newlines} = 1..p
    BY <1>3, <2>1, <2>2
  <2>4. Cardinality(1..p) = p
    <3>1. 1 \in Int /\ p \in Int
      BY <1>2
    <3>2. Cardinality(1..p) = (IF 1 > p THEN 0 ELSE p - 1 + 1)
      BY <3>1, FS_Interval
    <3> QED BY <1>2, <3>2
  <2>5. SubSeq(s, 1, p) = SubSeq(u, 1, p)
    <3>1. 1 \in Nat /\ p <= Len(u) /\ 1 <= 1
      BY <1>1, <1>2
    <3> QED BY <1>1, <1>2, <3>1, PartOfFirst
  <2>6. SubSeq(u, 1, p) = u
    BY <1>1, <1>2, SubSeqFull
  <2> QED BY <2>3, <2>4, <2>5, <2>6 DEF Stripped
<1>10. SplitLines(s) = [k \in 1..1 |-> u]
  <2>1. \A k \in 1..1 : k = 1
    OBVIOUS
  <2>2. \A k \in 1..1 : Stripped(Line(s, k)) = u
    BY <1>8, <1>9, <2>1
  <2> QED BY <1>7, <2>2, LinesAre
<1>11. [k \in 1..1 |-> u] = <<u>>
  OBVIOUS
<1> QED BY <1>1, <1>10, <1>11

\* Every text begins with a line.
LEMMA FirstLine ==
  ASSUME NEW t \in Seq(Symbols), t # <<>>
  PROVE  \E u \in Seq(Symbols), e \in Terminators, r \in Seq(Symbols) :
             Plain(u) /\ u \o e # <<>> /\ t = (u \o e) \o r /\ Seam(u \o e, r)
<1>0. Len(t) \in Nat /\ Len(t) > 0 /\ <<>> \in Seq(Symbols) /\ <<>> \in Terminators /\ Len(t) >= 1
  BY DEF Terminators
<1>1. CASE \A i \in 1..Len(t) : t[i] \notin Newlines
  <2>1. Plain(t)
    BY <1>1 DEF Plain
  <2>2. t \o <<>> = t /\ (t \o <<>>) \o <<>> = t
    BY ConcatEmptySeq
  <2>3. Seam(t \o <<>>, <<>>)
    BY DEF Seam
  <2> QED BY <1>0, <2>1, <2>2, <2>3
<1>2. CASE \E i \in 1..Len(t) : t[i] \in Newlines
  <2>1. PICK T : T = {i \in 1..Len(t) : t[i] \in Newlines}
    OBVIOUS
  <2>2. T \in SUBSET Nat /\ T # {}
    BY <1>2, <2>1
  <2>3. PICK m \in T : \A i \in T : m <= i
    BY <2>2, Least
  <2>4. m \in 1..Len(t) /\ t[m] \in Newlines /\ m \in Nat /\ 1 <= m /\ m <= Len(t)
    BY <1>0, <2>1, <2>3
  <2>5. PICK u : u = SubSeq(t, 1, m - 1)
    OBVIOUS
  <2>6. u \in Seq(Symbols) /\ Len(u) = m - 1 /\ \A i \in 1..Len(u) : u[i] = t[i]
    <3>1. 1 \in Nat /\ m - 1 \in Nat /\ m - 1 <= Len(t) /\ 1 <= 1
      BY <1>0, <2>4
    <3>2. /\ u \in Seq(Symbols) /\ Len(u) = (IF 1 <= m - 1 THEN (m - 1) - 1 + 1 ELSE 0)
          /\ \A i \in 1..Len(u) : u[i] = t[1 + i - 1]
      BY <2>5, <3>1, PartTyped
    <3>3. Len(u) = m - 1
      BY <2>4, <3>2
    <3>4. \A i \in 1..Len(u) : 1 + i - 1 = i
      BY <2>4, <3>3
    <3> QED BY <3>2, <3>3, <3>4
  <2>7. Plain(u)
    <3>1. ASSUME NEW i \in 1..Len(u)
          PROVE  u[i] \notin Newlines
      <4>1. i \in 1..Len(t) /\ i < m
        BY <1>0, <2>4, <2>6
      <4>2. i \notin T
        BY <2>3, <2>4, <4>1
      <4> QED BY <2>1, <2>6, <4>1, <4>2
    <3> QED BY <2>6, <3>1 DEF Plain
  <2>8. ASSUME NEW e \in Terminators, e # <<>>, m - 1 + Len(e) <= Len(t),
               \A i \in 1..Len(e) : t[m - 1 + i] = e[i],
               e[Len(e)] = "CR" => m + Len(e) - 1 = Len(t) \/ t[m + Len(e)] # "LF"
        PROVE  \E r \in Seq(Symbols) : u \o e # <<>> /\ t = (u \o e) \o r /\ Seam(u \o e, r)
    <3>1. /\ e \in Seq(Symbols) /\ Len(e) \in Nat /\ 1 <= Len(e) /\ Len(e) <= 2
          /\ \A i \in 1..Len(e) : e[i] \in Newlines
      BY <2>8, TerminatorsAre
    <3>2. PICK n : n = m + Len(e)
      OBVIOUS
    <3>3. n \in Nat /\ n >= 2 /\ n <= Len(t) + 1 /\ n - 1 = m - 1 + Len(e) /\ n - 1 \in Nat
      BY <1>0, <2>4, <2>8, <3>1, <3>2
    <3>4. PICK r, c : r = SubSeq(t, n, Len(t)) /\ c = u \o e
      OBVIOUS
    <3>5. /\ r \in Seq(Symbols) /\ Len(r) = Len(t) - n + 1
          /\ \A i \in 1..Len(r) : r[i] = t[n + i - 1]
      <4>1. /\ r \in Seq(Symbols) /\ Len(r) = (IF n <= Len(t) THEN Len(t) - n + 1 ELSE 0)
            /\ \A i \in 1..Len(r) : r[i] = t[n + i - 1]
        BY <1>0, <3>3, <3>4, PartTyped, SMTT(30)
      <4> QED BY <1>0, <3>3, <4>1
    <3>6. /\ c \in Seq(Symbols) /\ Len(c) = n - 1
          /\ \A i \in 1..Len(u) : c[i] = u[i]
          /\ \A i \in 1..Len(e) : c[Len(u) + i] = e[i]
      <4>1. /\ c \in Seq(Symbols) /\ Len(c) = Len(u) + Len(e)
            /\ \A i \in 1..Len(u) : c[i] = u[i]
            /\ \A i \in 1..Len(e) : c[Len(u) + i] = e[i]
        BY <2>6, <3>1, <3>4, Joined
      <4> QED BY <2>6, <3>3, <4>1
    <3>7. \A i \in 1..Len(c) : c[i] = t[i]
      <4> SUFFICES ASSUME NEW i \in 1..Len(c)
                   PROVE  c[i] = t[i]
        OBVIOUS
      <4>1. CASE i <= m - 1
        BY <2>4, <2>6, <3>3, <3>6, <4>1
      <4>2. CASE ~(i <= m - 1)
        <5>1. i - (m - 1) \in 1..Len(e) /\ i = Len(u) + (i - (m - 1)) /\ i = m - 1 + (i - (m - 1))
          <6>1. i \in Nat /\ i <= m - 1 + Len(e)
            BY <3>3, <3>6
          <6>2. Len(u) = m - 1 /\ m \in Nat /\ Len(e) \in Nat
            BY <2>4, <2>6, <3>1
          <6> QED BY <4>2, <6>1, <6>2
        <5>2. c[i] = e[i - (m - 1)] /\ t[i] = e[i - (m - 1)]
          BY <2>8, <3>6, <5>1
        <5> QED BY <5>2
      <4> QED BY <4>1, <4>2
    <3>8. c \o r = t
      <4>1. /\ c \o r \in Seq(Symbols) /\ Len(c \o r) = Len(c) + Len(r)
            /\ \A i \in 1..Len(c) : (c \o r)[i] = c[i]
            /\ \A j \in 1..Len(r) : (c \o r)[Len(c) + j] = r[j]
        BY <3>5, <3>6, Joined
      <4>2. Len(c \o r) = Len(t)
        BY <1>0, <3>3, <3>5, <3>6, <4>1
      <4>3. ASSUME NEW i \in 1..Len(t)
            PROVE  (c \o r)[i] = t[i]
        <5>1. CASE i <= n - 1
          BY <3>3, <3>6, <3>7, <4>1, <5>1
        <5>2. CASE ~(i <= n - 1)
          <6>1. i - (n - 1) \in 1..Len(r) /\ i = Len(c) + (i - (n - 1)) /\ n + (i - (n - 1)) - 1 = i
            BY <1>0, <3>3, <3>5, <3>6, <5>2
          <6>2. (c \o r)[i] = r[i - (n - 1)] /\ r[i - (n - 1)] = t[i]
            BY <3>5, <4>1, <6>1
          <6> QED BY <6>2
        <5> QED BY <5>1, <5>2
      <4> QED BY <4>1, <4>2, <4>3, SeqEqual
    <3>9. Len(e) \in 1..Len(e) /\ c[Len(c)] = e[Len(e)] /\ c # <<>>
      <4>1. Len(e) \in 1..Len(e)
        BY <3>1
      <4>2. Len(c) = Len(u) + Len(e)
        BY <2>4, <2>6, <3>1, <3>3, <3>6
      <4>3. c[Len(u) + Len(e)] = e[Len(e)]
        BY <3>6, <4>1
      <4>4. Len(c) >= 1
        BY <3>3, <3>6
      <4>5. c # <<>>
        BY <4>4
      <4>6. Len(u) \in Nat /\ Len(e) \in Nat /\ Len(c) \in Nat
        BY <2>6, <3>1, <3>6
      <4>7. c[Len(c)] = e[Len(e)]
        BY <4>2, <4>3, <4>6
      <4> QED BY <4>1, <4>5, <4>7
    <3>10. Seam(c, r)
      <4>1. r # <<>> /\ e[Len(e)] = "CR" => r[1] # "LF"
        <5> SUFFICES ASSUME r # <<>>, e[Len(e)] = "CR"
                     PROVE  r[1] # "LF"
          OBVIOUS
        <5>1. Len(r) >= 1 /\ 1 \in 1..Len(r) /\ n + 1 - 1 = n
          BY <3>3, <3>5
        <5>2. r[1] = t[n] /\ n <= Len(t)
          BY <1>0, <3>3, <3>5, <5>1
        <5>3. m + Len(e) - 1 # Len(t)
          BY <1>0, <2>4, <3>1, <3>2, <5>2
        <5> QED BY <2>8, <3>2, <5>2, <5>3
      <4> QED BY <3>1, <3>9, <4>1 DEF Seam
    <3> QED BY <3>4, <3>5, <3>8, <3>9, <3>10
  <2>9. CASE t[m] = "CR" /\ m < Len(t) /\ t[m + 1] = "LF"
    <3>1. PICK e : e = <<"CR", "LF">>
      OBVIOUS
    <3>2. e \in Terminators /\ e # <<>> /\ Len(e) = 2 /\ e[1] = "CR" /\ e[2] = "LF"
      BY <3>1 DEF Terminators
    <3>3. m - 1 + Len(e) <= Len(t)
      BY <1>0, <2>4, <2>9, <3>2
    <3>4. \A i \in 1..Len(e) : t[m - 1 + i] = e[i]
      <4>1. m - 1 + 1 = m /\ m - 1 + 2 = m + 1
        BY <2>4
      <4>2. \A i \in 1..Len(e) : i = 1 \/ i = 2
        BY <3>2
      <4> QED BY <2>9, <3>2, <4>1, <4>2
    <3>5. e[Len(e)] # "CR"
      BY <3>2
    <3>6. \E r \in Seq(Symbols) : u \o e # <<>> /\ t = (u \o e) \o r /\ Seam(u \o e, r)
      BY <2>8, <3>2, <3>3, <3>4, <3>5
    <3> QED BY <2>6, <2>7, <3>2, <3>6
  <2>10. CASE ~(t[m] = "CR" /\ m < Len(t) /\ t[m + 1] = "LF")
    <3>1. PICK e : e = <<t[m]>>
      OBVIOUS
    <3>2. e \in Terminators /\ e # <<>> /\ Len(e) = 1 /\ e[1] = t[m]
      BY <2>4, <3>1 DEF Terminators, Newlines
    <3>3. m - 1 + Len(e) <= Len(t)
      BY <1>0, <2>4, <3>2
    <3>4. \A i \in 1..Len(e) : t[m - 1 + i] = e[i]
      <4>1. m - 1 + 1 = m
        BY <2>4
      <4>2. \A i \in 1..Len(e) : i = 1
        BY <3>2
      <4> QED BY <3>2, <4>1, <4>2
    <3>5. e[Len(e)] = "CR" => m + Len(e) - 1 = Len(t) \/ t[m + Len(e)] # "LF"
      <4>1. m + 1 - 1 = m /\ (m = Len(t) \/ m < Len(t))
        BY <1>0, <2>4
      <4> QED BY <2>10, <3>2, <4>1
    <3>6. \E r \in Seq(Symbols) : u \o e # <<>> /\ t = (u \o e) \o r /\ Seam(u \o e, r)
      BY <2>8, <3>2, <3>3, <3>4, <3>5
    <3> QED BY <2>6, <2>7, <3>2, <3>6
  <2> QED BY <2>9, <2>10
<1> QED BY <1>1, <1>2

\* And a text that goes on after its last newline ends with one.
LEMMA LastLine ==
  ASSUME NEW t \in Seq(Symbols), t # <<>>, t[Len(t)] \notin Newlines
  PROVE  \E r \in Seq(Symbols), v \in Seq(Symbols) :
             Plain(v) /\ v # <<>> /\ t = r \o v /\ (r # <<>> => r[Len(r)] \in Newlines)
<1>0. Len(t) \in Nat /\ Len(t) >= 1
  OBVIOUS
<1>1. PICK T : T = {m \in 0..Len(t) : \A j \in (m + 1)..Len(t) : t[j] \notin Newlines}
  OBVIOUS
<1>2. Len(t) - 1 \in T
  <2>1. Len(t) - 1 \in 0..Len(t)
    BY <1>0
  <2>2. \A j \in (Len(t) - 1 + 1)..Len(t) : j = Len(t)
    BY <1>0
  <2> QED BY <1>1, <2>1, <2>2
<1>3. T \in SUBSET Nat
  BY <1>0, <1>1
<1>4. PICK m \in T : \A n \in T : m <= n
  BY <1>2, <1>3, Least
<1>5. m \in 0..Len(t) /\ (\A j \in (m + 1)..Len(t) : t[j] \notin Newlines) /\ m \in Nat
  BY <1>0, <1>1, <1>4
<1>6. m <= Len(t) - 1
  BY <1>2, <1>4
<1>7. m # 0 => t[m] \in Newlines
  <2> SUFFICES ASSUME m # 0, t[m] \notin Newlines
               PROVE  FALSE
    OBVIOUS
  <2>1. m - 1 \in 0..Len(t) /\ ~(m <= m - 1)
    BY <1>0, <1>5
  <2>2. \A j \in (m - 1 + 1)..Len(t) : j = m \/ j \in (m + 1)..Len(t)
    BY <1>0, <1>5
  <2>3. m - 1 \in T
    BY <1>1, <1>5, <2>1, <2>2
  <2> QED BY <1>4, <2>1, <2>3
<1>8. PICK r, v : r = SubSeq(t, 1, m) /\ v = SubSeq(t, m + 1, Len(t))
  OBVIOUS
<1>9. /\ r \in Seq(Symbols) /\ Len(r) = m /\ \A i \in 1..Len(r) : r[i] = t[i]
  <2>1. 1 \in Nat /\ m <= Len(t) /\ 1 <= 1
    BY <1>0, <1>5
  <2>2. /\ r \in Seq(Symbols) /\ Len(r) = (IF 1 <= m THEN m - 1 + 1 ELSE 0)
        /\ \A i \in 1..Len(r) : r[i] = t[1 + i - 1]
    BY <1>5, <1>8, <2>1, PartTyped
  <2>3. Len(r) = m
    BY <1>5, <2>2
  <2>4. \A i \in 1..Len(r) : 1 + i - 1 = i
    BY <1>5, <2>3
  <2> QED BY <2>2, <2>3, <2>4
<1>10. /\ v \in Seq(Symbols) /\ Len(v) = Len(t) - m /\ \A i \in 1..Len(v) : v[i] = t[m + i]
  <2>1. m + 1 \in Nat /\ 1 <= m + 1 /\ Len(t) <= Len(t)
    BY <1>0, <1>5
  <2>2. /\ v \in Seq(Symbols) /\ Len(v) = (IF m + 1 <= Len(t) THEN Len(t) - (m + 1) + 1 ELSE 0)
        /\ \A i \in 1..Len(v) : v[i] = t[m + 1 + i - 1]
    BY <1>0, <1>8, <2>1, PartTyped
  <2>3. Len(v) = Len(t) - m
    BY <1>0, <1>5, <1>6, <2>2
  <2>4. \A i \in 1..Len(v) : m + 1 + i - 1 = m + i
    BY <1>0, <1>5, <2>3
  <2> QED BY <2>2, <2>3, <2>4
<1>11. Plain(v) /\ v # <<>>
  <2>1. \A i \in 1..Len(v) : m + i \in (m + 1)..Len(t)
    BY <1>0, <1>5, <1>10
  <2>2. Len(v) >= 1
    BY <1>0, <1>6, <1>5, <1>10
  <2>3. v # <<>>
    BY <2>2
  <2> QED BY <1>5, <1>10, <2>1, <2>3 DEF Plain
<1>12. t = r \o v
  <2>1. 1 \in 1..Len(t) + 1 /\ m \in 1 - 1..Len(t) /\ Len(t) \in m..Len(t)
    BY <1>0, <1>5
  <2>2. SubSeq(t, 1, m) \o SubSeq(t, m + 1, Len(t)) = SubSeq(t, 1, Len(t))
    BY <2>1, ConcatAdjacentSubSeq
  <2> QED BY <1>8, <2>2, SubSeqFull
<1>13. r # <<>> => r[Len(r)] \in Newlines
  <2> SUFFICES ASSUME r # <<>>
               PROVE  r[Len(r)] \in Newlines
    OBVIOUS
  <2>1. Len(r) # 0 /\ Len(r) \in 1..Len(r)
    BY <1>5, <1>9
  <2>2. m # 0 /\ r[Len(r)] = t[m]
    BY <1>9, <2>1
  <2> QED BY <1>7, <2>2
<1> QED BY <1>9, <1>10, <1>11, <1>12, <1>13

-----------------------------------------------------------------------------

(***************************************************************************)
(* What LineDecoder does with a chunk.                                     *)
(***************************************************************************)

\* What follows a text follows it with something before it.
LEMMA SeamAfter ==
  ASSUME NEW b \in Seq(Symbols), NEW x \in Seq(Symbols), NEW r \in Seq(Symbols), x # <<>>, Seam(x, r)
  PROVE  Seam(b \o x, r)
<1>1. /\ Len(b) \in Nat /\ Len(x) \in 1..Len(x) /\ b \o x \in Seq(Symbols)
      /\ Len(b \o x) = Len(b) + Len(x) /\ (b \o x)[Len(b) + Len(x)] = x[Len(x)]
  <2>1. Len(x) \in 1..Len(x)
    OBVIOUS
  <2> QED BY <2>1, Joined
<1> QED BY <1>1 DEF Seam

\* Two texts without newlines are one.
LEMMA PlainJoined ==
  ASSUME NEW b, NEW u, Plain(b), Plain(u)
  PROVE  Plain(b \o u)
<1>1. /\ b \in Seq(Symbols) /\ Len(b) \in Nat /\ \A i \in 1..Len(b) : b[i] \notin Newlines
      /\ u \in Seq(Symbols) /\ Len(u) \in Nat /\ \A i \in 1..Len(u) : u[i] \notin Newlines
  BY DEF Plain
<1>2. PICK c : c = b \o u
  OBVIOUS
<1>3. /\ c \in Seq(Symbols) /\ Len(c) = Len(b) + Len(u)
      /\ \A i \in 1..Len(b) : c[i] = b[i]
      /\ \A i \in 1..Len(u) : c[Len(b) + i] = u[i]
  BY <1>1, <1>2, Joined
<1>4. ASSUME NEW i \in 1..Len(c)
      PROVE  c[i] \notin Newlines
  <2>1. CASE i <= Len(b)
    BY <1>1, <1>3, <2>1
  <2>2. CASE ~(i <= Len(b))
    <3>1. i - Len(b) \in 1..Len(u) /\ i = Len(b) + (i - Len(b))
      BY <1>1, <1>3, <2>2
    <3> QED BY <1>1, <1>3, <3>1
  <2> QED BY <2>1, <2>2
<1> QED BY <1>2, <1>3, <1>4 DEF Plain

\* Brackets do not matter.
LEMMA Regroup == \A x, y, z \in Seq(Symbols) : (x \o y) \o z = x \o (y \o z)
BY Associates

\* A line that is begun goes on in the first line of what follows.
LEMMA GoesOn ==
  ASSUME NEW b, Plain(b), NEW t \in Seq(Symbols), t # <<>>
  PROVE  /\ SplitLines(t) \in Seq(Seq(Symbols)) /\ SplitLines(t) # <<>>
         /\ SplitLines(b \o t) = <<b \o SplitLines(t)[1]>> \o Tail(SplitLines(t))
<1>1. PICK u \in Seq(Symbols), e \in Terminators, r \in Seq(Symbols) :
          Plain(u) /\ u \o e # <<>> /\ t = (u \o e) \o r /\ Seam(u \o e, r)
  BY FirstLine
<1>2. b \in Seq(Symbols) /\ e \in Seq(Symbols)
  BY TerminatorsAre DEF Plain
<1>3. PICK x, y, R : x = u \o e /\ y = b \o u /\ R = SplitLines(r)
  OBVIOUS
<1>4. x \in Seq(Symbols) /\ y \in Seq(Symbols) /\ R \in Seq(Seq(Symbols)) /\ Plain(y) /\ t = x \o r
  BY <1>1, <1>2, <1>3, LinesTyped, PlainJoined
<1>5. SplitLines(t) = <<u>> \o R
  <2>1. SplitLines(x) = <<u>>
    BY <1>1, <1>3, OneLine
  <2>2. SplitLines(x \o r) = SplitLines(x) \o SplitLines(r)
    BY <1>1, <1>3, <1>4, LinesSplit
  <2> QED BY <1>3, <1>4, <2>1, <2>2
<1>6. SplitLines(b \o t) = <<y>> \o R
  <2>1. b \o x = y \o e
    <3>1. b \in Seq(Symbols) /\ u \in Seq(Symbols) /\ e \in Seq(Symbols)
      BY <1>1, <1>2
    <3>2. Cat(Cat(b, u), e) = Cat(b, Cat(u, e))
      BY <3>1, CatAssociates
    <3> QED BY <1>3, <3>2 DEF Cat
  <2>2. b \o t = (b \o x) \o r
    <3>1. b \in Seq(Symbols) /\ x \in Seq(Symbols) /\ r \in Seq(Symbols)
      BY <1>1, <1>2, <1>4
    <3>2. Cat(Cat(b, x), r) = Cat(b, Cat(x, r))
      BY <3>1, CatAssociates
    <3> QED BY <1>4, <3>2 DEF Cat
  <2>3. Seam(b \o x, r)
    BY <1>1, <1>2, <1>3, <1>4, SeamAfter
  <2>4. b \o x \in Seq(Symbols)
    BY <1>2, <1>4
  <2>5. SplitLines((b \o x) \o r) = SplitLines(b \o x) \o SplitLines(r)
    BY <2>3, <2>4, LinesSplit
  <2>6. y \o e # <<>>
    <3>1. x # <<>>
      BY <1>1, <1>3
    <3> QED BY <1>2, <1>4, <2>1, <3>1
  <2>7. SplitLines(y \o e) = <<y>>
    BY <1>4, <2>6, OneLine
  <2> QED BY <1>3, <2>1, <2>2, <2>5, <2>7
<1>7. (<<u>> \o R)[1] = u /\ Tail(<<u>> \o R) = R /\ <<u>> \o R # <<>> /\ <<u>> \o R \in Seq(Seq(Symbols))
  BY <1>1, <1>4, SMTT(30)
<1> QED BY <1>3, <1>5, <1>6, <1>7

\* All of what is fed but the last, unended line is complete lines, q, and a CR
\* at their end is not the first half of a CR LF.
Complete(q, b, next) ==
    /\ q \in Seq(Symbols) /\ Plain(b)
    /\ q # <<>> => q[Len(q)] \in Newlines /\ (q[Len(q)] = "CR" => b # <<>> \/ next = "CR")

\* Then the lines of the rest follow those of q.
LEMMA Follows ==
  ASSUME NEW q, NEW b, NEW t \in Seq(Symbols), t # <<>>, Complete(q, b, t[1])
  PROVE  /\ b \o t \in Seq(Symbols) /\ b \o t # <<>>
         /\ q # <<>> => ~(q[Len(q)] = "CR" /\ (b \o t)[1] = "LF")
         /\ Seam(q, b \o t)
<1>1. /\ b \in Seq(Symbols) /\ Len(b) \in Nat /\ \A i \in 1..Len(b) : b[i] \notin Newlines
      /\ Len(t) \in Nat /\ Len(t) >= 1
  BY DEF Complete, Plain
<1>2. PICK c : c = b \o t
  OBVIOUS
<1>3. /\ c \in Seq(Symbols) /\ Len(c) = Len(b) + Len(t)
      /\ \A i \in 1..Len(b) : c[i] = b[i]
      /\ \A i \in 1..Len(t) : c[Len(b) + i] = t[i]
  BY <1>1, <1>2, Joined
<1>4. c # <<>>
  <2>1. Len(c) >= 1
    BY <1>1, <1>3
  <2> QED BY <2>1
<1>5. CASE b # <<>>
  <2>1. 1 \in 1..Len(b)
    BY <1>1, <1>5
  <2>2. c[1] \notin Newlines
    BY <1>1, <1>3, <2>1
  <2>3. c[1] # "LF"
    BY <2>2 DEF Newlines
  <2> QED BY <1>2, <1>3, <1>4, <2>3 DEF Complete, Seam
<1>6. CASE b = <<>>
  <2>1. Len(b) = 0 /\ 1 \in 1..Len(t) /\ 0 + 1 = 1
    BY <1>1, <1>6
  <2>2. c[1] = t[1]
    BY <1>3, <2>1
  <2>3. q # <<>> /\ q[Len(q)] = "CR" => c[1] = "CR"
    BY <1>6, <2>2 DEF Complete
  <2> QED BY <1>2, <1>3, <1>4, <2>3 DEF Complete, Seam
<1> QED BY <1>5, <1>6

\* A text that ends a line: all its lines are complete.
LEMMA TakesEnded ==
  ASSUME NEW q, NEW b, NEW t \in Seq(Symbols), t # <<>>, Complete(q, b, t[1]),
         t[Len(t)] \in Newlines
  PROVE  /\ SplitLines(q \o (b \o t)) = SplitLines(q) \o (<<b \o SplitLines(t)[1]>> \o Tail(SplitLines(t)))
         /\ \A next : (t[Len(t)] = "CR" => next = "CR") => Complete(q \o (b \o t), <<>>, next)
<1>1. /\ b \in Seq(Symbols) /\ q \in Seq(Symbols) /\ Plain(b) /\ Len(b) \in Nat /\ Len(q) \in Nat
      /\ Len(t) \in 1..Len(t)
  BY DEF Complete, Plain
<1>2. PICK c, d : c = b \o t /\ d = q \o c
  OBVIOUS
<1>3. c \in Seq(Symbols) /\ c # <<>> /\ Seam(q, c)
  BY <1>2, Follows
<1>4. SplitLines(d) = SplitLines(q) \o SplitLines(c)
  BY <1>1, <1>2, <1>3, LinesSplit
<1>5. SplitLines(c) = <<b \o SplitLines(t)[1]>> \o Tail(SplitLines(t))
  BY <1>1, <1>2, GoesOn
<1>6. c[Len(c)] = t[Len(t)] /\ Len(c) \in 1..Len(c)
  <2>1. Len(c) = Len(b) + Len(t) /\ c[Len(b) + Len(t)] = t[Len(t)]
    BY <1>1, <1>2, Joined
  <2>2. Len(c) \in 1..Len(c)
    BY <1>3
  <2> QED BY <2>1, <2>2
<1>7. d \in Seq(Symbols) /\ d[Len(d)] = t[Len(t)]
  <2>1. d \in Seq(Symbols) /\ Len(d) = Len(q) + Len(c) /\ d[Len(q) + Len(c)] = c[Len(c)]
    BY <1>1, <1>2, <1>3, <1>6, Joined
  <2> QED BY <1>6, <2>1
<1>8. Plain(<<>>)
  BY DEF Plain
<1> QED BY <1>2, <1>4, <1>5, <1>7, <1>8 DEF Complete

\* p ends the complete lines of c after q, v is the last one of its lines.
Opens(q, c, lines, p, v) ==
    /\ \A next : Complete(p, v, next)
    /\ p \o v = q \o c
    /\ \E m \in Seq(Seq(Symbols)) : lines = m \o <<v>> /\ SplitLines(p) = SplitLines(q) \o m

\* A text that goes on after its last newline: all its lines but the last.
LEMMA TakesOpen ==
  ASSUME NEW q, NEW b, NEW t \in Seq(Symbols), t # <<>>, Complete(q, b, t[1]),
         t[Len(t)] \notin Newlines
  PROVE  \E p, v : Opens(q, b \o t, <<b \o SplitLines(t)[1]>> \o Tail(SplitLines(t)), p, v)
<1>1. /\ b \in Seq(Symbols) /\ q \in Seq(Symbols) /\ Plain(b) /\ Len(b) \in Nat /\ Len(q) \in Nat
      /\ Len(t) \in 1..Len(t)
  BY DEF Complete, Plain
<1>2. PICK c : c = b \o t
  OBVIOUS
<1>3. /\ c \in Seq(Symbols) /\ c # <<>>
      /\ q # <<>> => q[Len(q)] \in Newlines /\ ~(q[Len(q)] = "CR" /\ c[1] = "LF")
  BY <1>2, Follows DEF Complete
<1>4. c[Len(c)] \notin Newlines
  <2>1. Len(c) = Len(b) + Len(t) /\ c[Len(b) + Len(t)] = t[Len(t)]
    BY <1>1, <1>2, Joined
  <2> QED BY <2>1
<1>5. PICK r \in Seq(Symbols), v \in Seq(Symbols) :
          Plain(v) /\ v # <<>> /\ c = r \o v /\ (r # <<>> => r[Len(r)] \in Newlines)
  BY <1>3, <1>4, LastLine
<1>6. r # <<>> => r[1] = c[1]
  <2>1. \A i \in 1..Len(r) : (r \o v)[i] = r[i]
    BY <1>5, Joined
  <2>2. r # <<>> => 1 \in 1..Len(r)
    BY <1>5
  <2> QED BY <1>5, <2>1, <2>2
<1>7. Seam(q, r)
  BY <1>3, <1>6 DEF Seam
<1>8. Seam(r, v)
  <2>1. 1 \in 1..Len(v)
    BY <1>5
  <2>2. v[1] # "LF"
    BY <1>5, <2>1 DEF Plain, Newlines
  <2> QED BY <1>5, <2>2 DEF Seam
<1>9. SplitLines(v) = <<v>>
  <2>1. <<>> \in Terminators /\ v \o <<>> = v
    BY <1>5, ConcatEmptySeq DEF Terminators
  <2> QED BY <1>5, <2>1, OneLine
<1>10. PICK p, m : p = q \o r /\ m = SplitLines(r)
  OBVIOUS
<1>11. SplitLines(c) = m \o <<v>>
  BY <1>5, <1>8, <1>9, <1>10, LinesSplit
<1>12. SplitLines(p) = SplitLines(q) \o m
  BY <1>1, <1>5, <1>7, <1>10, LinesSplit
<1>13. SplitLines(c) = <<b \o SplitLines(t)[1]>> \o Tail(SplitLines(t))
  BY <1>1, <1>2, GoesOn
<1>14. p \o v = q \o c
  <2>1. q \in Seq(Symbols) /\ r \in Seq(Symbols) /\ v \in Seq(Symbols) /\ c = r \o v
    BY <1>1, <1>5
  <2>2. Cat(Cat(q, r), v) = Cat(q, Cat(r, v))
    BY <2>1, CatAssociates
  <2> QED BY <1>10, <2>1, <2>2 DEF Cat
<1>15. p \in Seq(Symbols) /\ (p # <<>> => p[Len(p)] \in Newlines)
  <2>1. p \in Seq(Symbols)
    BY <1>1, <1>5, <1>10, Closes
  <2>2. CASE r = <<>>
    BY <1>1, <1>3, <1>10, <2>1, <2>2, ConcatEmptySeq
  <2>3. CASE r # <<>>
    <3>1. Len(r) \in 1..Len(r)
      BY <1>5, <2>3
    <3>2. Len(p) = Len(q) + Len(r) /\ p[Len(q) + Len(r)] = r[Len(r)]
      BY <1>1, <1>5, <1>10, <3>1, Joined
    <3> QED BY <1>5, <2>1, <2>3, <3>2
  <2> QED BY <2>2, <2>3
<1>16. \A next : Complete(p, v, next)
  BY <1>5, <1>15 DEF Complete
<1>17. m \in Seq(Seq(Symbols))
  BY <1>5, <1>10, LinesTyped
<1> QED BY <1>2, <1>11, <1>12, <1>13, <1>14, <1>16, <1>17 DEF Opens

\* The CR that is held back.
HeldCr(cr) == IF cr THEN <<"CR">> ELSE <<>>

\* What LineDecoder has: q is out, as lines, and b and the CR held back are not.
LineState(f, o, b, cr, q) ==
    Complete(q, b, IF cr THEN "CR" ELSE "") /\ f = q \o (b \o HeldCr(cr)) /\ o = SplitLines(q)

\* A "\r" that is held back, or nothing.
LEMMA HeldTyped ==
  ASSUME NEW cr
  PROVE  HeldCr(cr) \in Seq(Symbols) /\ (cr => HeldCr(cr) = <<"CR">>) /\ (~cr => HeldCr(cr) = <<>>)
<1>1. <<"CR">> \in Seq(Symbols) /\ <<>> \in Seq(Symbols)
  BY DEF Symbols
<1>2. CASE cr
  BY <1>1, <1>2 DEF HeldCr
<1>3. CASE ~cr
  BY <1>1, <1>3 DEF HeldCr
<1> QED BY <1>2, <1>3

\* A text after a CR.
LEMMA AfterCr ==
  ASSUME NEW chunk \in Seq(Symbols)
  PROVE  /\ <<"CR">> \o chunk \in Seq(Symbols) /\ <<"CR">> \o chunk # <<>>
         /\ (<<"CR">> \o chunk)[1] = "CR"
<1>1. PICK h, w : h = <<"CR">> /\ w = h \o chunk
  OBVIOUS
<1>2. h \in Seq(Symbols) /\ Len(h) = 1 /\ h[1] = "CR" /\ Len(chunk) \in Nat
  BY <1>1 DEF Symbols
<1>3. w \in Seq(Symbols) /\ Len(w) = Len(h) + Len(chunk) /\ \A i \in 1..Len(h) : w[i] = h[i]
  BY <1>1, <1>2, Joined
<1>4. Len(w) >= 1
  BY <1>2, <1>3
<1>5. w # <<>>
  BY <1>3, <1>4
<1>6. w[1] = "CR"
  BY <1>2, <1>3
<1> QED BY <1>1, <1>3, <1>5, <1>6

\* A text before a CR.
LEMMA BeforeCr ==
  ASSUME NEW whole \in Seq(Symbols), whole # <<>>, whole[Len(whole)] = "CR"
  PROVE  /\ Front(whole) \in Seq(Symbols) /\ whole = Front(whole) \o <<"CR">>
         /\ Front(whole) # <<>> => Front(whole)[1] = whole[1]
<1>1. PICK t : t = Front(whole)
  OBVIOUS
<1>2. Len(whole) \in Nat /\ Len(whole) >= 1 /\ t = SubSeq(whole, 1, Len(whole) - 1)
  BY <1>1 DEF Front
<1>3. PICK n \in Nat : n = Len(whole) - 1
  BY <1>2
<1>4. n <= Len(whole) /\ n + 1 = Len(whole) /\ t = SubSeq(whole, 1, n)
  BY <1>2, <1>3
<1>5. t \in Seq(Symbols) /\ \A i \in 1..Len(t) : t[i] = whole[1 + i - 1]
  <2>1. 1 \in Nat /\ 1 <= 1
    OBVIOUS
  <2> QED BY <1>4, <2>1, PartTyped
<1>6. whole = t \o <<"CR">>
  <2>1. 1 \in 1..Len(whole) + 1 /\ n \in 1 - 1..Len(whole) /\ Len(whole) \in n..Len(whole)
    BY <1>2, <1>4
  <2>2. SubSeq(whole, 1, n) \o SubSeq(whole, n + 1, Len(whole)) = SubSeq(whole, 1, Len(whole))
    BY <2>1, ConcatAdjacentSubSeq
  <2>3. SubSeq(whole, Len(whole), Len(whole)) = <<whole[Len(whole)]>>
    <3>1. PICK k, w : k = Len(whole) /\ w = SubSeq(whole, k, k)
      OBVIOUS
    <3>2. k \in Nat /\ 1 <= k /\ k <= k
      BY <1>2, <3>1
    <3>3. /\ w \in Seq(Symbols) /\ Len(w) = (IF k <= k THEN k - k + 1 ELSE 0)
          /\ \A i \in 1..Len(w) : w[i] = whole[k + i - 1]
      BY <3>1, <3>2, PartTyped
    <3>4. Len(w) = 1
      BY <3>2, <3>3
    <3>5. w[1] = whole[k]
      <4>1. 1 \in 1..Len(w) /\ k + 1 - 1 = k
        BY <3>2, <3>4
      <4> QED BY <3>3, <4>1
    <3>6. w = <<w[1]>>
      BY <3>3, <3>4
    <3> QED BY <3>1, <3>5, <3>6
  <2>4. SubSeq(whole, 1, Len(whole)) = whole
    BY SubSeqFull
  <2> QED BY <1>4, <2>2, <2>3, <2>4
<1>7. t # <<>> => t[1] = whole[1]
  <2>1. t # <<>> => 1 \in 1..Len(t)
    BY <1>5
  <2>2. 1 + 1 - 1 = 1
    OBVIOUS
  <2> QED BY <1>5, <2>1, <2>2
<1> QED BY <1>1, <1>5, <1>6, <1>7

\* A chunk, and the CR before it, is the text that is split and the CR held back.
Cut(cr, chunk, whole, holds, t) ==
    /\ whole = HeldCr(cr) \o chunk
    /\ holds <=> whole # <<>> /\ whole[Len(whole)] = "CR"
    /\ t = IF holds THEN Front(whole) ELSE whole

\* The text begins with the CR that was held back, and ends with no CR that is not.
CutWell(cr, whole, holds, t) ==
    /\ t \in Seq(Symbols) /\ whole = t \o HeldCr(holds)
    /\ t # <<>> /\ cr => t[1] = "CR"
    /\ t # <<>> /\ t[Len(t)] = "CR" => holds
    /\ t = <<>> => whole = HeldCr(holds) /\ (cr => holds)

\* A chunk is cut well.
LEMMA ChunkIs ==
  ASSUME NEW cr, NEW chunk \in Seq(Symbols), NEW whole, NEW holds, NEW t, Cut(cr, chunk, whole, holds, t)
  PROVE  CutWell(cr, whole, holds, t)
<1> SUFFICES /\ t \in Seq(Symbols) /\ whole = t \o HeldCr(holds)
             /\ t # <<>> /\ cr => t[1] = "CR"
             /\ t # <<>> /\ t[Len(t)] = "CR" => holds
             /\ t = <<>> => whole = HeldCr(holds) /\ (cr => holds)
  BY DEF CutWell
<1>0. /\ whole = HeldCr(cr) \o chunk
      /\ holds <=> whole # <<>> /\ whole[Len(whole)] = "CR"
      /\ t = IF holds THEN Front(whole) ELSE whole
  BY DEF Cut
<1>1. whole \in Seq(Symbols) /\ (cr => whole # <<>> /\ whole[1] = "CR")
  <2>1. CASE cr
    BY <1>0, <2>1, AfterCr, HeldTyped
  <2>2. CASE ~cr
    BY <1>0, <2>2, ConcatEmptySeq, HeldTyped
  <2> QED BY <2>1, <2>2
<1>2. CASE ~holds
  <2>1. t = whole /\ HeldCr(holds) = <<>>
    BY <1>0, <1>2, HeldTyped
  <2>2. whole \o <<>> = whole
    BY <1>1, ConcatEmptySeq
  <2> QED BY <1>0, <1>1, <1>2, <2>1, <2>2
<1>3. CASE holds
  <2>1. whole # <<>> /\ whole[Len(whole)] = "CR" /\ t = Front(whole)
    BY <1>0, <1>3
  <2>2. HeldCr(holds) = <<"CR">> /\ <<"CR">> \in Seq(Symbols)
    BY <1>3, HeldTyped
  <2>3. t \in Seq(Symbols) /\ whole = t \o <<"CR">> /\ (t # <<>> => t[1] = whole[1])
    BY <1>1, <2>1, BeforeCr
  <2>4. t = <<>> => whole = <<"CR">>
    BY <2>2, <2>3, ConcatEmptySeq
  <2> QED BY <1>0, <1>1, <1>3, <2>1, <2>2, <2>3, <2>4
<1> QED BY <1>2, <1>3

\* What is fed, with a chunk more.
LEMMA Refed ==
  ASSUME NEW q \in Seq(Symbols), NEW b \in Seq(Symbols), NEW h \in Seq(Symbols), NEW chunk \in Seq(Symbols),
         NEW t \in Seq(Symbols), NEW k \in Seq(Symbols), Cat(h, chunk) = Cat(t, k)
  PROVE  Cat(Cat(q, Cat(b, h)), chunk) = Cat(Cat(q, Cat(b, t)), k)
<1>1. \A x, y, z \in Seq(Symbols) : Cat(x, y) \in Seq(Symbols) /\ Cat(Cat(x, y), z) = Cat(x, Cat(y, z))
  BY CatCloses, CatAssociates
<1>2. Cat(b, h) \in Seq(Symbols) /\ Cat(b, t) \in Seq(Symbols)
  BY <1>1
<1>3. Cat(Cat(q, Cat(b, h)), chunk) = Cat(q, Cat(b, Cat(h, chunk)))
  BY <1>1, <1>2
<1>4. Cat(Cat(q, Cat(b, t)), k) = Cat(q, Cat(b, Cat(t, k)))
  BY <1>1, <1>2
<1> QED BY <1>3, <1>4

\* What may come after complete lines: what is held back, or what is split.
LEMMA NextIs ==
  ASSUME NEW q, NEW b, NEW cr, Complete(q, b, IF cr THEN "CR" ELSE "")
  PROVE  /\ \A holds : (cr => holds) => Complete(q, b, IF holds THEN "CR" ELSE "")
         /\ \A c : (cr => c = "CR") => Complete(q, b, c)
<1>1. CASE cr
  <2>1. Complete(q, b, "CR")
    BY <1>1
  <2>2. \A holds : holds => (IF holds THEN "CR" ELSE "") = "CR"
    OBVIOUS
  <2> QED BY <1>1, <2>1, <2>2
<1>2. CASE ~cr
  <2>1. Complete(q, b, "")
    BY <1>2
  <2>2. \A c : Complete(q, b, c)
    BY <2>1 DEF Complete
  <2> QED BY <2>2
<1> QED BY <1>1, <1>2

\* What comes last is last, and the rest is the front.
LEMMA LastOf ==
  ASSUME NEW S, NEW m \in Seq(S), NEW v \in S
  PROVE  Front(m \o <<v>>) = m /\ (m \o <<v>>)[Len(m \o <<v>>)] = v
<1>1. PICK w : w = m \o <<v>>
  OBVIOUS
<1>2. PICK n : n = Len(m)
  OBVIOUS
<1>3. <<v>> \in Seq(S) /\ Len(<<v>>) = 1 /\ n \in Nat
  BY <1>2
<1>4. w \in Seq(S) /\ Len(w) = n + 1 /\ w[n + 1] = v
  BY <1>1, <1>2, <1>3, ConcatProperties
<1>5. Front(w) = SubSeq(w, 1, n)
  <2>1. PICK k : k = Len(w) - 1
    OBVIOUS
  <2>2. Front(w) = SubSeq(w, 1, k) /\ k = n
    BY <1>3, <1>4, <2>1 DEF Front
  <2> QED BY <2>2
<1>6. SubSeq(w, 1, n) = m
  <2>1. 1 \in Int /\ n \in Int /\ (\A i \in 1..n : w[i] \in S)
    BY <1>3, <1>4
  <2>2. PICK z : z = SubSeq(w, 1, n)
    OBVIOUS
  <2>3. z \in Seq(S) /\ Len(z) = n /\ \A i \in 1..n : z[i] = w[i]
    <3>1. z \in Seq(S) /\ Len(z) = (IF 1 <= n THEN n - 1 + 1 ELSE 0)
          /\ \A i \in 1..(n - 1 + 1) : z[i] = w[1 + i - 1]
      BY <2>1, <2>2, SubSeqProperties
    <3>2. n - 1 + 1 = n /\ \A i \in 1..n : 1 + i - 1 = i
      BY <1>3
    <3>3. Len(z) = n
      BY <1>3, <3>1
    <3> QED BY <3>1, <3>2, <3>3
  <2>4. \A i \in 1..n : w[i] = m[i]
    BY <1>1, <1>2, <1>3, ConcatProperties
  <2>5. \A i \in 1..n : z[i] = m[i]
    BY <2>3, <2>4
  <2> QED BY <1>2, <2>2, <2>3, <2>5, SeqEqual
<1> QED BY <1>1, <1>4, <1>5, <1>6

\* The lines of what is buffered and t.
LinesOf(b, t) == <<b \o SplitLines(t)[1]>> \o Tail(SplitLines(t))

\* A state of the decoder after it has split t.
Taken(f, o, b, holds, q, t, lines) ==
    /\ t = <<>> => LineState(f, o, b, holds, q)
    /\ t # <<>> /\ t[Len(t)] \in Newlines => \E p : LineState(f, o \o lines, <<>>, holds, p)
    /\ t # <<>> /\ t[Len(t)] \notin Newlines =>
         \E p : LineState(f, o \o Front(lines), lines[Len(lines)], holds, p)

\* The lines that are out, and what is not, after a chunk.
LEMMA LineTaken ==
  ASSUME NEW f, NEW o, NEW b, NEW cr, NEW q, LineState(f, o, b, cr, q), NEW chunk \in Seq(Symbols),
         NEW whole, NEW holds, NEW t, Cut(cr, chunk, whole, holds, t)
  PROVE  Taken(f \o chunk, o, b, holds, q, t, LinesOf(b, t))
<1>1. /\ t \in Seq(Symbols) /\ whole = t \o HeldCr(holds)
      /\ t # <<>> /\ cr => t[1] = "CR"
      /\ t # <<>> /\ t[Len(t)] = "CR" => holds
      /\ t = <<>> => (cr => holds)
  <2>1. CutWell(cr, whole, holds, t)
    BY ChunkIs
  <2> QED BY <2>1 DEF CutWell
<1>2. /\ Complete(q, b, IF cr THEN "CR" ELSE "") /\ f = q \o (b \o HeldCr(cr)) /\ o = SplitLines(q)
      /\ q \in Seq(Symbols) /\ b \in Seq(Symbols)
  BY DEF LineState, Complete, Plain
<1>3. PICK g, h, next : g = f \o chunk /\ h = HeldCr(holds) /\ next = IF holds THEN "CR" ELSE ""
  OBVIOUS
<1>4. g = (q \o (b \o t)) \o h /\ h \in Seq(Symbols)
  <2>1. PICK j : j = HeldCr(cr)
    OBVIOUS
  <2>2. j \in Seq(Symbols) /\ h \in Seq(Symbols) /\ j \o chunk = t \o h
    BY <1>1, <1>3, <2>1, HeldTyped DEF Cut
  <2>3. Cat(j, chunk) = Cat(t, h)
    BY <2>2 DEF Cat
  <2>4. Cat(Cat(q, Cat(b, j)), chunk) = Cat(Cat(q, Cat(b, t)), h)
    <3>1. /\ q \in Seq(Symbols) /\ b \in Seq(Symbols) /\ t \in Seq(Symbols)
          /\ j \in Seq(Symbols) /\ h \in Seq(Symbols) /\ chunk \in Seq(Symbols)
      BY <1>1, <1>2, <2>2
    <3> QED BY <2>3, <3>1, Refed
  <2>5. (q \o (b \o j)) \o chunk = (q \o (b \o t)) \o h
    BY <2>4 DEF Cat
  <2> QED BY <1>2, <1>3, <2>1, <2>2, <2>5
<1>5. holds => next = "CR"
  BY <1>3
<1>6. ASSUME t = <<>>
      PROVE  LineState(g, o, b, holds, q)
  <2>1. Complete(q, b, next)
    BY <1>1, <1>2, <1>3, <1>6, NextIs
  <2>2. b \o t = b
    BY <1>2, <1>6, ConcatEmptySeq
  <2>3. g = q \o (b \o h)
    <3>1. q \in Seq(Symbols) /\ b \in Seq(Symbols) /\ h \in Seq(Symbols)
      BY <1>2, <1>4
    <3>2. (q \o b) \o h = q \o (b \o h)
      BY <3>1, Regroup
    <3> QED BY <1>4, <2>2, <3>2
  <2> QED BY <1>2, <1>3, <2>1, <2>3 DEF LineState
<1>7. ASSUME t # <<>>
      PROVE  Complete(q, b, t[1])
  BY <1>1, <1>2, <1>7, NextIs
<1>0. PICK lines : lines = LinesOf(b, t) /\ lines = <<b \o SplitLines(t)[1]>> \o Tail(SplitLines(t))
  BY DEF LinesOf
<1>8. ASSUME t # <<>>, t[Len(t)] \in Newlines
      PROVE  \E p : LineState(g, o \o lines, <<>>, holds, p)
  <2>1. PICK p : p = q \o (b \o t)
    OBVIOUS
  <2>2. SplitLines(p) = o \o lines /\ Complete(p, <<>>, next)
    <3>1. t \in Seq(Symbols) /\ t # <<>> /\ t[Len(t)] \in Newlines /\ Complete(q, b, t[1])
      BY <1>1, <1>7, <1>8
    <3>2. /\ SplitLines(q \o (b \o t)) = SplitLines(q) \o (<<b \o SplitLines(t)[1]>> \o Tail(SplitLines(t)))
          /\ \A c : (t[Len(t)] = "CR" => c = "CR") => Complete(q \o (b \o t), <<>>, c)
      BY <3>1, TakesEnded
    <3>3. t[Len(t)] = "CR" => next = "CR"
      BY <1>1, <1>5, <1>8
    <3> QED BY <1>0, <1>2, <2>1, <3>2, <3>3
  <2>3. g = p \o (<<>> \o h)
    BY <1>4, <2>1, ConcatEmptySeq
  <2> QED BY <1>3, <2>2, <2>3 DEF LineState
<1>9. ASSUME t # <<>>, t[Len(t)] \notin Newlines
      PROVE  \E p : LineState(g, o \o Front(lines), lines[Len(lines)], holds, p)
  <2>1. PICK p, v : Opens(q, b \o t, lines, p, v)
    <3>1. t \in Seq(Symbols) /\ t # <<>> /\ t[Len(t)] \notin Newlines /\ Complete(q, b, t[1])
      BY <1>1, <1>7, <1>9
    <3>2. \E p, v : Opens(q, b \o t, <<b \o SplitLines(t)[1]>> \o Tail(SplitLines(t)), p, v)
      BY <3>1, TakesOpen
    <3> QED BY <1>0, <3>2
  <2>2. /\ Complete(p, v, next) /\ p \o v = q \o (b \o t)
        /\ \E m \in Seq(Seq(Symbols)) : lines = m \o <<v>> /\ SplitLines(p) = o \o m
    BY <1>2, <2>1 DEF Opens
  <2>6. PICK m \in Seq(Seq(Symbols)) : lines = m \o <<v>> /\ SplitLines(p) = o \o m
    BY <2>2
  <2>3. p \in Seq(Symbols) /\ v \in Seq(Symbols)
    BY <2>2 DEF Complete, Plain
  <2>4. Front(lines) = m /\ lines[Len(lines)] = v
    BY <2>3, <2>6, LastOf
  <2>5. g = p \o (v \o h)
    <3>1. p \in Seq(Symbols) /\ v \in Seq(Symbols) /\ h \in Seq(Symbols)
      BY <1>4, <2>3
    <3>2. (p \o v) \o h = p \o (v \o h)
      BY <3>1, Regroup
    <3> QED BY <1>4, <2>2, <3>2
  <2> QED BY <1>3, <2>2, <2>4, <2>5, <2>6 DEF LineState
<1> QED BY <1>0, <1>3, <1>6, <1>8, <1>9 DEF Taken

\* An empty text has no lines.
LEMMA NoLines == SplitLines(<<>>) = <<>>
<1>1. <<>> \in Seq(Symbols) /\ DOMAIN <<>> = {}
  OBVIOUS
<1>2. LineEnds(<<>>) = {}
  BY <1>1 DEF LineEnds
<1>3. Cardinality(LineEnds(<<>>)) = 0
  BY <1>2, FS_EmptySet
<1>4. SplitLines(<<>>) \in Seq(Seq(Symbols)) /\ Len(SplitLines(<<>>)) = 0
  BY <1>1, <1>3, LinesTyped
<1> QED BY <1>4

\* What is left at the end is one more line, if it is anything.
LEMMA LineRest ==
  ASSUME NEW f, NEW o, NEW b, NEW cr, NEW q, LineState(f, o, b, cr, q)
  PROVE  /\ o \in Seq(Seq(Symbols)) /\ b \in Seq(Symbols)
         /\ b = <<>> /\ ~cr => SplitLines(f) = o
         /\ ~(b = <<>> /\ ~cr) => SplitLines(f) = o \o <<b>>
<1>1. /\ Complete(q, b, IF cr THEN "CR" ELSE "") /\ f = q \o (b \o HeldCr(cr)) /\ o = SplitLines(q)
      /\ q \in Seq(Symbols) /\ b \in Seq(Symbols) /\ Plain(b)
  BY DEF LineState, Complete, Plain
<1>2. PICK h : h = HeldCr(cr)
  OBVIOUS
<1>3. h \in Seq(Symbols) /\ h \in Terminators /\ (cr => h = <<"CR">>) /\ (~cr => h = <<>>)
  BY <1>2, HeldTyped DEF Terminators
<1>4. o \in Seq(Seq(Symbols))
  BY <1>1, LinesTyped
<1>5. CASE b = <<>> /\ ~cr
  <2>1. f = q \o (<<>> \o <<>>)
    BY <1>1, <1>2, <1>3, <1>5
  <2>2. <<>> \o <<>> = <<>> /\ q \o <<>> = q
    <3>1. <<>> \in Seq(Symbols)
      OBVIOUS
    <3>2. \A x \in Seq(Symbols) : x \o <<>> = x
      BY ConcatEmptySeq
    <3> QED BY <1>1, <3>1, <3>2
  <2>3. f = q
    BY <2>1, <2>2
  <2> QED BY <1>1, <1>4, <1>5, <2>3
<1>6. CASE ~(b = <<>> /\ ~cr)
  <2>1. PICK x : x = b \o h
    OBVIOUS
  <2>2. x \in Seq(Symbols) /\ x # <<>> /\ Seam(q, x)
    <3>1. CASE cr
      <4>1. Complete(q, b, "CR") /\ h \in Seq(Symbols) /\ h # <<>> /\ h[1] = "CR"
        <5>1. Complete(q, b, "CR") /\ h = <<"CR">> /\ h \in Seq(Symbols)
          BY <1>1, <1>3, <3>1
        <5> QED BY <5>1
      <4> QED BY <2>1, <4>1, Follows
    <3>2. CASE ~cr
      <4>1. x = b /\ b # <<>>
        <5>1. h = <<>> /\ b # <<>>
          BY <1>3, <1>6, <3>2
        <5>2. b \o <<>> = b
          BY <1>1, ConcatEmptySeq
        <5> QED BY <2>1, <5>1, <5>2
      <4>2. 1 \in 1..Len(b)
        <5>1. b \in Seq(Symbols) /\ b # <<>>
          BY <1>1, <4>1
        <5> QED BY <5>1
      <4>3. b[1] # "LF"
        BY <1>1, <4>2 DEF Plain, Newlines
      <4> QED BY <1>1, <4>1, <4>3 DEF Complete, Seam
    <3> QED BY <3>1, <3>2
  <2>3. SplitLines(x) = <<b>>
    BY <1>1, <1>3, <2>1, <2>2, OneLine
  <2>4. SplitLines(q \o x) = SplitLines(q) \o SplitLines(x)
    BY <1>1, <2>2, LinesSplit
  <2> QED BY <1>1, <1>2, <1>4, <1>6, <2>1, <2>3, <2>4
<1> QED BY <1>5, <1>6

\* All of the input is in complete lines that are out, what is buffered, and the
\* CR held back; after the end, all of its lines are out.
LinesInv ==
    kind = "lines" =>
        /\ state = "open" => \E q : LineState(fed, out, buffer, flag, q)
        /\ state # "open" => out = SplitLines(fed)

\* Nothing is fed yet.
LEMMA LinesStart == Init => LinesInv
<1> SUFFICES ASSUME Init, kind = "lines" PROVE LineState(fed, out, buffer, flag, <<>>)
  BY DEF Init, LinesInv
<1>1. fed = <<>> /\ out = <<>> /\ buffer = <<>> /\ ~flag
  BY DEF Init
<1>2. PICK h : h = HeldCr(flag)
  OBVIOUS
<1>3. h = <<>>
  BY <1>1, <1>2, HeldTyped
<1>4. fed = <<>> \o (buffer \o h)
  BY <1>1, <1>3
<1>5. Complete(<<>>, buffer, IF flag THEN "CR" ELSE "")
  BY <1>1 DEF Complete, Plain
<1> QED BY <1>1, <1>2, <1>4, <1>5, NoLines DEF LineState

\* Every step keeps it.
LEMMA LinesKept ==
  ASSUME LinesInv, [Next]_vars
  PROVE  LinesInv'
<1> SUFFICES ASSUME kind' = "lines"
             PROVE  LinesInv'
  BY DEF LinesInv
<1>0. kind = "lines"
  BY KindFixed
<1>1. ASSUME NEW chunk \in Chunks, LineDecode(chunk)
      PROVE  LinesInv'
  <2>1. chunk \in Seq(Symbols)
    BY <1>0, ChunksAreSequences DEF Alphabet
  <2>2. PICK whole, holds, t :
            /\ whole = WithHeldCr(chunk)
            /\ holds = (whole # <<>> /\ whole[Len(whole)] = "CR")
            /\ t = IF holds THEN Front(whole) ELSE whole
    OBVIOUS
  <2>3. PICK lines : lines = <<buffer \o SplitLines(t)[1]>> \o Tail(SplitLines(t))
    OBVIOUS
  <2>4. /\ state = "open" /\ state' = state /\ fed' = fed \o chunk /\ flag' = holds
        /\ t = <<>> => out' = out /\ buffer' = buffer
        /\ t # <<>> /\ t[Len(t)] \in Newlines => out' = out \o lines /\ buffer' = <<>>
        /\ t # <<>> /\ t[Len(t)] \notin Newlines => out' = out \o Front(lines) /\ buffer' = lines[Len(lines)]
    BY <1>1, <2>2, <2>3 DEF LineDecode, Feed
  <2>5. PICK q : LineState(fed, out, buffer, flag, q)
    BY <1>0, <2>4 DEF LinesInv
  <2>6. whole = HeldCr(flag) \o chunk
    <3>1. CASE flag
      BY <2>2, <3>1 DEF WithHeldCr, HeldCr
    <3>2. CASE ~flag
      <4>1. whole = chunk
        BY <2>2, <3>2 DEF WithHeldCr
      <4> QED BY <2>1, <3>2, <4>1, HeldTyped, ConcatEmptySeq
    <3> QED BY <3>1, <3>2
  <2>7. Cut(flag, chunk, whole, holds, t)
    BY <2>2, <2>6 DEF Cut
  <2>8. Taken(fed \o chunk, out, buffer, holds, q, t, lines)
    BY <2>1, <2>3, <2>5, <2>7, LineTaken DEF LinesOf
  <2>9. \E p : LineState(fed', out', buffer', flag', p)
    BY <2>4, <2>8 DEF Taken
  <2> QED BY <2>4, <2>9 DEF LinesInv
<1>2. CASE LineFlush
  <2>1. /\ state = "open" /\ state' = "flushed" /\ fed' = fed
        /\ out' = IF buffer = <<>> /\ ~flag THEN out ELSE Append(out, buffer)
    BY <1>2 DEF LineFlush, Closed
  <2>2. PICK q : LineState(fed, out, buffer, flag, q)
    BY <1>0, <2>1 DEF LinesInv
  <2>3. /\ out \in Seq(Seq(Symbols)) /\ buffer \in Seq(Symbols)
        /\ buffer = <<>> /\ ~flag => SplitLines(fed) = out
        /\ ~(buffer = <<>> /\ ~flag) => SplitLines(fed) = out \o <<buffer>>
    BY <2>2, LineRest
  <2>4. Append(out, buffer) = out \o <<buffer>>
    BY <2>3, AppendIsConcat
  <2>5. out' = SplitLines(fed')
    BY <2>1, <2>3, <2>4
  <2> QED BY <2>1, <2>5 DEF LinesInv
<1>3. CASE UNCHANGED vars
  BY <1>3 DEF vars, LinesInv
<1> QED BY <1>0, <1>1, <1>2, <1>3, DecoderSteps

\* What is out, then, is right.
LEMMA LinesRight == LinesInv => LinesUncut
<1> SUFFICES ASSUME LinesInv, kind = "lines", state = "open"
             PROVE  IsPrefix(out, SplitLines(fed)) /\ Len(SplitLines(fed)) <= Len(out) + 1
  BY DEF LinesInv, LinesUncut
<1>1. PICK q : LineState(fed, out, buffer, flag, q)
  BY DEF LinesInv
<1>2. /\ out \in Seq(Seq(Symbols)) /\ buffer \in Seq(Symbols)
      /\ buffer = <<>> /\ ~flag => SplitLines(fed) = out
      /\ ~(buffer = <<>> /\ ~flag) => SplitLines(fed) = out \o <<buffer>>
  BY <1>1, LineRest
<1>3. PICK e \in Seq(Seq(Symbols)) : SplitLines(fed) = out \o e /\ Len(e) <= 1
  <2>1. CASE buffer = <<>> /\ ~flag
    <3>1. <<>> \in Seq(Seq(Symbols)) /\ Len(<<>>) <= 1 /\ out \o <<>> = out
      BY <1>2, ConcatEmptySeq
    <3> QED BY <1>2, <2>1, <3>1
  <2>2. CASE ~(buffer = <<>> /\ ~flag)
    <3>1. <<buffer>> \in Seq(Seq(Symbols)) /\ Len(<<buffer>>) <= 1
      BY <1>2
    <3> QED BY <1>2, <2>2, <3>1
  <2> QED BY <2>1, <2>2
<1>4. Len(SplitLines(fed)) <= Len(out) + 1
  <2>1. Len(out \o e) = Len(out) + Len(e) /\ Len(out) \in Nat /\ Len(e) \in Nat
    BY <1>2, <1>3, ConcatProperties
  <2> QED BY <1>3, <2>1
<1>5. IsPrefix(out, SplitLines(fed))
  BY <1>2, <1>3, Extends
<1> QED BY <1>4, <1>5

\* The lines that iter_lines gives are those of str.splitlines, however the text
\* is cut into chunks, "\r\n" across two of them included (LineDecoder).
THEOREM LinesUncutHolds == Spec => []LinesUncut
<1> QED BY LinesStart, LinesKept, LinesRight, PTL DEF Spec

-----------------------------------------------------------------------------

(***************************************************************************)
(* What FlattenSeq is: the last of the sequences that begin it.            *)
(***************************************************************************)
IsRun(run, seqs) == run = [i \in 1..Len(seqs) |-> IF i = 1 THEN seqs[i] ELSE run[i - 1] \o seqs[i]]

\* The first k of them.
RunTo(g, k, seqs, S) ==
    /\ g \in [1..k -> Seq(S)]
    /\ \A i \in 1..k : g[i] = IF i = 1 THEN seqs[i] ELSE g[i - 1] \o seqs[i]

\* One more.
LEMMA RunOn ==
  ASSUME NEW S, NEW seqs \in Seq(Seq(S)), NEW k \in Nat, k + 1 <= Len(seqs), NEW g, RunTo(g, k, seqs, S)
  PROVE  \E h : RunTo(h, k + 1, seqs, S)
<1>0. Len(seqs) \in Nat /\ k + 1 \in 1..Len(seqs) /\ k + 1 \in 1..(k + 1)
  OBVIOUS
<1>1. PICK last : last = IF k = 0 THEN seqs[k + 1] ELSE g[k] \o seqs[k + 1]
  OBVIOUS
<1>2. seqs[k + 1] \in Seq(S)
  BY <1>0
<1>3. last \in Seq(S)
  <2>1. CASE k = 0
    BY <1>1, <1>2, <2>1
  <2>2. CASE k # 0
    <3>1. k \in 1..k
      BY <2>2
    <3>2. g[k] \in Seq(S)
      BY <3>1 DEF RunTo
    <3>3. g[k] \o seqs[k + 1] \in Seq(S)
      BY <1>2, <3>2, Closes
    <3> QED BY <1>1, <2>2, <3>3
  <2> QED BY <2>1, <2>2
<1>4. PICK h : h = [i \in 1..(k + 1) |-> IF i = k + 1 THEN last ELSE g[i]]
  OBVIOUS
<1>5. ASSUME NEW i \in 1..(k + 1), i # k + 1
      PROVE  i \in 1..k /\ h[i] = g[i] /\ (i # 1 => h[i - 1] = g[i - 1])
  <2>1. i \in 1..k /\ (i # 1 => i - 1 \in 1..(k + 1) /\ i - 1 # k + 1)
    BY <1>5
  <2> QED BY <1>4, <1>5, <2>1
<1>6. h[k + 1] = last /\ (k # 0 => h[k] = g[k])
  <2>1. k # 0 => k \in 1..(k + 1) /\ k # k + 1
    OBVIOUS
  <2> QED BY <1>0, <1>4, <2>1
<1>7. h \in [1..(k + 1) -> Seq(S)]
  <2>1. \A i \in 1..(k + 1) : h[i] \in Seq(S)
    BY <1>3, <1>5, <1>6 DEF RunTo
  <2> QED BY <1>4, <2>1
<1>8. ASSUME NEW i \in 1..(k + 1)
      PROVE  h[i] = IF i = 1 THEN seqs[i] ELSE h[i - 1] \o seqs[i]
  <2>1. CASE i = k + 1
    <3>1. i - 1 = k /\ (i = 1 <=> k = 0)
      BY <2>1
    <3> QED BY <1>1, <1>6, <2>1, <3>1
  <2>2. CASE i # k + 1
    <3>1. g[i] = IF i = 1 THEN seqs[i] ELSE g[i - 1] \o seqs[i]
      BY <1>5, <2>2 DEF RunTo
    <3> QED BY <1>5, <2>2, <3>1
  <2> QED BY <2>1, <2>2
<1> QED BY <1>7, <1>8 DEF RunTo

\* There are all of them.
LEMMA RunExists ==
  ASSUME NEW S, NEW seqs \in Seq(Seq(S))
  PROVE  \E run : IsRun(run, seqs)
<1>0. Len(seqs) \in Nat
  OBVIOUS
<1>1. PICK T : T = {k \in Nat : k <= Len(seqs) => \E g : RunTo(g, k, seqs, S)}
  OBVIOUS
<1>2. 0 \in T
  <2>1. RunTo([i \in 1..0 |-> <<>>], 0, seqs, S)
    BY DEF RunTo
  <2> QED BY <1>1, <2>1
<1>3. ASSUME NEW k \in T PROVE k + 1 \in T
  <2>1. k \in Nat /\ (k <= Len(seqs) => \E g : RunTo(g, k, seqs, S))
    BY <1>1, <1>3
  <2>2. k + 1 <= Len(seqs) => \E h : RunTo(h, k + 1, seqs, S)
    <3>1. k + 1 <= Len(seqs) => k <= Len(seqs)
      BY <1>0, <2>1
    <3> QED BY <2>1, <3>1, RunOn
  <2> QED BY <1>1, <2>1, <2>2
<1>4. T = Nat
  <2>1. T \in SUBSET Nat
    BY <1>1
  <2> QED BY <1>2, <1>3, <2>1, Climb
<1>5. PICK g : RunTo(g, Len(seqs), seqs, S)
  BY <1>0, <1>1, <1>4
<1>6. IsRun(g, seqs)
  BY <1>5 DEF IsRun, RunTo
<1> QED BY <1>6

\* FlattenSeq is the last one.
LEMMA FlattenIs ==
  ASSUME NEW S, NEW seqs \in Seq(Seq(S)), Len(seqs) # 0
  PROVE  \E run : IsRun(run, seqs) /\ FlattenSeq(seqs) = run[Len(seqs)]
<1>1. PICK run : run = CHOOSE r : IsRun(r, seqs)
  OBVIOUS
<1>2. FlattenSeq(seqs) = run[Len(seqs)]
  BY <1>1 DEF FlattenSeq, IsRun
<1>3. IsRun(run, seqs)
  BY <1>1, RunExists
<1> QED BY <1>2, <1>3

\* The first k of the sequences, one after the other.
Upto(run, k) == IF k = 0 THEN <<>> ELSE run[k]

\* They are sequences, each the one before and one sequence more.
LEMMA RunTyped ==
  ASSUME NEW S, NEW seqs \in Seq(Seq(S)), NEW run, IsRun(run, seqs)
  PROVE  /\ \A k \in 0..Len(seqs) : Upto(run, k) \in Seq(S)
         /\ \A k \in 1..Len(seqs) : Upto(run, k) = Upto(run, k - 1) \o seqs[k]
<1>0. Len(seqs) \in Nat
  OBVIOUS
<1>1. ASSUME NEW k \in 1..Len(seqs)
      PROVE  seqs[k] \in Seq(S) /\ Upto(run, k) = Upto(run, k - 1) \o seqs[k]
  <2>1. seqs[k] \in Seq(S) /\ k # 0 /\ (k - 1 = 0 <=> k = 1)
    OBVIOUS
  <2>2. run[k] = IF k = 1 THEN seqs[k] ELSE run[k - 1] \o seqs[k]
    BY DEF IsRun
  <2>3. <<>> \o seqs[k] = seqs[k]
    BY <2>1, ConcatEmptySeq
  <2> QED BY <2>1, <2>2, <2>3 DEF Upto
<1>2. PICK T : T = {k \in Nat : k <= Len(seqs) => Upto(run, k) \in Seq(S)}
  OBVIOUS
<1>3. 0 \in T
  BY <1>2 DEF Upto
<1>4. ASSUME NEW k \in T PROVE k + 1 \in T
  <2>1. k \in Nat /\ (k <= Len(seqs) => Upto(run, k) \in Seq(S))
    BY <1>2, <1>4
  <2>2. k + 1 <= Len(seqs) => k <= Len(seqs) /\ k + 1 \in 1..Len(seqs) /\ k + 1 - 1 = k
    BY <1>0, <2>1
  <2>3. k + 1 <= Len(seqs) => Upto(run, k + 1) \in Seq(S)
    <3> SUFFICES ASSUME k + 1 <= Len(seqs) PROVE Upto(run, k + 1) \in Seq(S)
      OBVIOUS
    <3>1. Upto(run, k) \in Seq(S) /\ seqs[k + 1] \in Seq(S) /\ Upto(run, k + 1) = Upto(run, k) \o seqs[k + 1]
      <4>1. PICK j : j = k + 1
        OBVIOUS
      <4>2. j \in 1..Len(seqs) /\ j - 1 = k
        BY <1>0, <2>1, <2>2, <4>1
      <4>3. seqs[j] \in Seq(S) /\ Upto(run, j) = Upto(run, j - 1) \o seqs[j]
        BY <1>1, <4>2
      <4> QED BY <2>1, <2>2, <4>1, <4>2, <4>3
    <3> QED BY <3>1, Closes
  <2> QED BY <1>2, <2>1, <2>3
<1>5. T = Nat
  <2>1. T \in SUBSET Nat
    BY <1>2
  <2> QED BY <1>3, <1>4, <2>1, Climb
<1>6. \A k \in 0..Len(seqs) : Upto(run, k) \in Seq(S)
  BY <1>0, <1>2, <1>5
<1> QED BY <1>1, <1>6

-----------------------------------------------------------------------------

(***************************************************************************)
(* What MapThenSumSet is: a sum, whatever the order.                       *)
(***************************************************************************)
OneOf(s) == CHOOSE i \in s : TRUE

\* sum gives the sum of g over each set of indexes.
IsSum(sum, g, n) ==
    sum = [s \in SUBSET (1..n) |-> IF s = {} THEN 0 ELSE g[OneOf(s)] + sum[s \ {OneOf(s)}]]

\* It does so for the sets of up to k of them.
SumTo(sum, g, n, k) ==
    /\ sum \in [SUBSET (1..n) -> Nat]
    /\ \A s \in SUBSET (1..n) : Cardinality(s) <= k =>
         sum[s] = IF s = {} THEN 0 ELSE g[OneOf(s)] + sum[s \ {OneOf(s)}]

\* A set of indexes, and the same without one of them.
LEMMA OneLess ==
  ASSUME NEW n \in Nat, NEW s \in SUBSET (1..n)
  PROVE  /\ IsFiniteSet(s) /\ Cardinality(s) \in Nat /\ Cardinality(s) <= n
         /\ s = {} <=> Cardinality(s) = 0
         /\ \A i \in s : /\ i \in 1..n /\ s \ {i} \in SUBSET (1..n)
                         /\ Cardinality(s \ {i}) = Cardinality(s) - 1
         /\ s # {} => OneOf(s) \in s
<1>1. IsFiniteSet(1..n) /\ Cardinality(1..n) = n
  <2>1. 1 \in Int /\ n \in Int
    OBVIOUS
  <2>2. IsFiniteSet(1..n) /\ Cardinality(1..n) = IF 1 > n THEN 0 ELSE n - 1 + 1
    BY <2>1, FS_Interval
  <2> QED BY <2>2
<1>2. IsFiniteSet(s) /\ Cardinality(s) <= n
  BY <1>1, FS_Subset
<1>3. Cardinality(s) \in Nat
  BY <1>2, FS_CardinalityType
<1>4. s = {} <=> Cardinality(s) = 0
  BY <1>2, FS_EmptySet
<1>5. \A i \in s : Cardinality(s \ {i}) = Cardinality(s) - 1
  BY <1>2, FS_RemoveElement
<1>6. s # {} => OneOf(s) \in s
  BY DEF OneOf
<1> QED BY <1>2, <1>3, <1>4, <1>5, <1>6

\* One more.
LEMMA SumOn ==
  ASSUME NEW n \in Nat, NEW g \in [1..n -> Nat], NEW k \in Nat, NEW sum, SumTo(sum, g, n, k)
  PROVE  \E up : SumTo(up, g, n, k + 1)
<1>1. PICK up : up = [s \in SUBSET (1..n) |->
          IF Cardinality(s) <= k THEN sum[s] ELSE IF s = {} THEN 0 ELSE g[OneOf(s)] + sum[s \ {OneOf(s)}]]
  OBVIOUS
<1>2. ASSUME NEW s \in SUBSET (1..n), s # {}
      PROVE  /\ g[OneOf(s)] \in Nat /\ s \ {OneOf(s)} \in SUBSET (1..n)
             /\ Cardinality(s \ {OneOf(s)}) = Cardinality(s) - 1
             /\ sum[s \ {OneOf(s)}] \in Nat
  <2>1. OneOf(s) \in s /\ OneOf(s) \in 1..n
    BY <1>2, OneLess
  <2>2. s \ {OneOf(s)} \in SUBSET (1..n) /\ Cardinality(s \ {OneOf(s)}) = Cardinality(s) - 1
    BY <2>1, OneLess
  <2> QED BY <2>1, <2>2 DEF SumTo
<1>3. ASSUME NEW s \in SUBSET (1..n)
      PROVE  up[s] \in Nat
  <2>1. sum[s] \in Nat
    BY DEF SumTo
  <2>2. s # {} => g[OneOf(s)] + sum[s \ {OneOf(s)}] \in Nat
    <3>1. s # {} => g[OneOf(s)] \in Nat /\ sum[s \ {OneOf(s)}] \in Nat
      BY <1>2
    <3>2. \A x, y \in Nat : x + y \in Nat
      OBVIOUS
    <3> QED BY <3>1, <3>2
  <2> QED BY <1>1, <2>1, <2>2
<1>4. up \in [SUBSET (1..n) -> Nat]
  BY <1>1, <1>3
<1>5. ASSUME NEW s \in SUBSET (1..n), Cardinality(s) <= k + 1
      PROVE  up[s] = IF s = {} THEN 0 ELSE g[OneOf(s)] + up[s \ {OneOf(s)}]
  <2>0. Cardinality(s) \in Nat /\ (s = {} <=> Cardinality(s) = 0)
    BY OneLess
  <2>1. CASE s = {}
    <3>1. Cardinality(s) <= k
      BY <2>0, <2>1
    <3>2. up[s] = sum[s] /\ sum[s] = 0
      BY <1>1, <2>1, <3>1 DEF SumTo
    <3> QED BY <2>1, <3>2
  <2>2. CASE s # {}
    <3>1. PICK r : r = s \ {OneOf(s)}
      OBVIOUS
    <3>2. r \in SUBSET (1..n) /\ Cardinality(r) = Cardinality(s) - 1
      BY <1>2, <2>2, <3>1
    <3>3. Cardinality(r) <= k
      BY <1>5, <2>0, <3>2
    <3>4. up[r] = sum[r]
      BY <1>1, <3>2, <3>3
    <3>5. up[s] = g[OneOf(s)] + sum[r]
      <4>1. CASE Cardinality(s) <= k
        <5>1. up[s] = sum[s]
          BY <1>1, <4>1
        <5>2. sum[s] = g[OneOf(s)] + sum[r]
          BY <2>2, <3>1, <4>1 DEF SumTo
        <5> QED BY <5>1, <5>2
      <4>2. CASE ~(Cardinality(s) <= k)
        BY <1>1, <2>2, <3>1, <4>2
      <4> QED BY <4>1, <4>2
    <3> QED BY <2>2, <3>1, <3>4, <3>5
  <2> QED BY <2>1, <2>2
<1> QED BY <1>4, <1>5 DEF SumTo

\* There is one for all of them.
LEMMA SumExists ==
  ASSUME NEW n \in Nat, NEW g \in [1..n -> Nat]
  PROVE  \E sum : IsSum(sum, g, n)
<1>1. PICK T : T = {k \in Nat : \E sum : SumTo(sum, g, n, k)}
  OBVIOUS
<1>2. 0 \in T
  <2>1. PICK zero : zero = [s \in SUBSET (1..n) |-> 0]
    OBVIOUS
  <2>2. SumTo(zero, g, n, 0)
    <3>1. zero \in [SUBSET (1..n) -> Nat]
      BY <2>1
    <3>2. ASSUME NEW s \in SUBSET (1..n), Cardinality(s) <= 0 PROVE s = {} /\ zero[s] = 0
      <4>1. Cardinality(s) \in Nat /\ (s = {} <=> Cardinality(s) = 0)
        BY OneLess
      <4>2. Cardinality(s) = 0
        BY <3>2, <4>1
      <4> QED BY <2>1, <4>1, <4>2
    <3> QED BY <3>1, <3>2 DEF SumTo
  <2> QED BY <1>1, <2>2
<1>3. ASSUME NEW k \in T PROVE k + 1 \in T
  <2>1. k \in Nat /\ \E sum : SumTo(sum, g, n, k)
    BY <1>1, <1>3
  <2>2. \E sum : SumTo(sum, g, n, k + 1)
    BY <2>1, SumOn
  <2> QED BY <1>1, <2>1, <2>2
<1>4. T = Nat
  <2>1. T \in SUBSET Nat
    BY <1>1
  <2> QED BY <1>2, <1>3, <2>1, Climb
<1>5. PICK sum : SumTo(sum, g, n, n)
  BY <1>1, <1>4
<1>6. \A s \in SUBSET (1..n) : Cardinality(s) <= n
  BY OneLess
<1>7. IsSum(sum, g, n)
  BY <1>5, <1>6 DEF SumTo, IsSum
<1> QED BY <1>7

\* sum is right of s: whichever of its indexes is taken first.
Sums(sum, g, s) == sum[s] \in Nat /\ \A i \in s : sum[s] = g[i] + sum[s \ {i}]

\* sum is right of every set of indexes.
IsTotal(sum, g, n) ==
    /\ sum \in [SUBSET (1..n) -> Nat] /\ sum[{}] = 0
    /\ \A s \in SUBSET (1..n) : \A i \in s : sum[s] = g[i] + sum[s \ {i}]

\* It is a sum.
LEMMA SumTyped ==
  ASSUME NEW n \in Nat, NEW g \in [1..n -> Nat], NEW sum, IsSum(sum, g, n)
  PROVE  IsTotal(sum, g, n)
<1>0. \A s \in SUBSET (1..n) : sum[s] = IF s = {} THEN 0 ELSE g[OneOf(s)] + sum[s \ {OneOf(s)}]
  BY DEF IsSum
<1>1. PICK T : T = {k \in Nat : \A s \in SUBSET (1..n) : Cardinality(s) <= k => Sums(sum, g, s)}
  OBVIOUS
<1>2. 0 \in T
  <2>1. ASSUME NEW s \in SUBSET (1..n), Cardinality(s) <= 0
        PROVE  Sums(sum, g, s)
    <3>1. Cardinality(s) \in Nat /\ (s = {} <=> Cardinality(s) = 0)
      BY OneLess
    <3>2. s = {}
      BY <2>1, <3>1
    <3>3. sum[s] = 0
      BY <1>0, <3>2
    <3> QED BY <3>2, <3>3 DEF Sums
  <2> QED BY <1>1, <2>1
<1>3. ASSUME NEW k \in T PROVE k + 1 \in T
  <2>1. k \in Nat /\ \A s \in SUBSET (1..n) : Cardinality(s) <= k => Sums(sum, g, s)
    BY <1>1, <1>3
  <2>2. ASSUME NEW s \in SUBSET (1..n), Cardinality(s) = k + 1
        PROVE  Sums(sum, g, s)
    <3>1. s # {}
      <4>1. s = {} <=> Cardinality(s) = 0
        BY OneLess
      <4> QED BY <2>1, <2>2, <4>1
    <3>2. PICK c : c = OneOf(s)
      OBVIOUS
    <3>3. c \in s /\ c \in 1..n /\ g[c] \in Nat
      BY <3>1, <3>2, OneLess
    <3>4. sum[s] = g[c] + sum[s \ {c}]
      BY <1>0, <3>1, <3>2
    <3>5. \A i \in s : s \ {i} \in SUBSET (1..n) /\ Cardinality(s \ {i}) = k
      <4>1. \A i \in s : s \ {i} \in SUBSET (1..n) /\ Cardinality(s \ {i}) = Cardinality(s) - 1
        BY OneLess
      <4> QED BY <2>1, <2>2, <4>1
    <3>6. ASSUME NEW i \in s
          PROVE  /\ g[i] \in Nat /\ sum[s \ {i}] \in Nat
                 /\ \A j \in s \ {i} : sum[s \ {i}] = g[j] + sum[(s \ {i}) \ {j}]
      <4>1. k <= k
        BY <2>1
      <4>2. Sums(sum, g, s \ {i})
        BY <2>1, <3>5, <4>1
      <4>3. i \in 1..n
        OBVIOUS
      <4> QED BY <4>2, <4>3 DEF Sums
    <3>7. ASSUME NEW i \in s
          PROVE  sum[s] = g[i] + sum[s \ {i}]
      <4>1. CASE i = c
        BY <3>4, <4>1
      <4>2. CASE i # c
        <5>1. PICK r : r = s \ {c, i}
          OBVIOUS
        <5>2. (s \ {c}) \ {i} = r /\ (s \ {i}) \ {c} = r /\ i \in s \ {c} /\ c \in s \ {i}
          BY <3>3, <4>2, <5>1
        <5>3. sum[s \ {c}] = g[i] + sum[r]
          BY <3>3, <3>6, <5>2
        <5>4. sum[s \ {i}] = g[c] + sum[r]
          BY <3>6, <5>2
        <5>5. sum[r] \in Nat
          <6>1. r \in SUBSET (1..n)
            BY <5>1
          <6>2. s \ {i} \in SUBSET (1..n) /\ c \in s \ {i} /\ Cardinality(s \ {i}) = k
            BY <3>5, <5>2
          <6>3. Cardinality((s \ {i}) \ {c}) = k - 1
            BY <6>2, OneLess
          <6>4. Cardinality(r) <= k
            <7>1. Cardinality(r) = k - 1
              BY <5>2, <6>3
            <7> QED BY <2>1, <7>1
          <6> QED BY <2>1, <6>1, <6>4 DEF Sums
        <5>6. PICK x, y, z : x = g[c] /\ y = g[i] /\ z = sum[r]
          OBVIOUS
        <5>7. x \in Nat /\ y \in Nat /\ z \in Nat
          BY <3>3, <3>6, <5>5, <5>6
        <5>8. sum[s] = x + (y + z) /\ sum[s \ {i}] = x + z
          BY <3>4, <5>3, <5>4, <5>6
        <5>9. x + (y + z) = y + (x + z)
          BY <5>7
        <5> QED BY <5>6, <5>8, <5>9
      <4> QED BY <4>1, <4>2
    <3>8. sum[s] \in Nat
      <4>1. \A x, y \in Nat : x + y \in Nat
        OBVIOUS
      <4>2. g[c] \in Nat /\ sum[s \ {c}] \in Nat
        BY <3>3, <3>6
      <4> QED BY <3>4, <4>1, <4>2
    <3> QED BY <3>7, <3>8 DEF Sums
  <2>3. k + 1 \in Nat
    BY <2>1
  <2>4. ASSUME NEW s \in SUBSET (1..n), Cardinality(s) <= k + 1
        PROVE  Cardinality(s) <= k \/ Cardinality(s) = k + 1
    <3>1. Cardinality(s) \in Nat
      BY OneLess
    <3> QED BY <2>1, <2>4, <3>1
  <2>5. \A s \in SUBSET (1..n) : Cardinality(s) <= k + 1 => Sums(sum, g, s)
    BY <2>1, <2>2, <2>4
  <2> QED BY <1>1, <2>3, <2>5
<1>4. T = Nat
  <2>1. T \in SUBSET Nat
    BY <1>1
  <2> QED BY <1>2, <1>3, <2>1, Climb
<1>5. \A s \in SUBSET (1..n) : sum[s] \in Nat /\ \A i \in s : sum[s] = g[i] + sum[s \ {i}]
  <2>1. \A s \in SUBSET (1..n) : Cardinality(s) <= n
    BY OneLess
  <2>2. \A s \in SUBSET (1..n) : Sums(sum, g, s)
    BY <1>1, <1>4, <2>1
  <2> QED BY <2>2 DEF Sums
<1>6. sum \in [SUBSET (1..n) -> Nat]
  <2>1. sum = [s \in SUBSET (1..n) |-> sum[s]]
    BY DEF IsSum
  <2> QED BY <1>5, <2>1
<1>7. sum[{}] = 0
  BY <1>0
<1> QED BY <1>5, <1>6, <1>7 DEF IsTotal

\* The lengths of sequences add up to that of all of them.
LEMMA SumIsLen ==
  ASSUME NEW S, NEW seqs \in Seq(Seq(S)), NEW run, IsRun(run, seqs),
         NEW n \in Nat, n = Len(seqs),
         NEW g \in [1..n -> Nat], \A i \in 1..n : g[i] = Len(seqs[i]),
         NEW sum, IsSum(sum, g, n)
  PROVE  sum[1..n] = Len(Upto(run, n))
<1>1. n = Len(seqs)
  OBVIOUS
<1>2. /\ \A k \in 0..n : Upto(run, k) \in Seq(S)
      /\ \A k \in 1..n : Upto(run, k) = Upto(run, k - 1) \o seqs[k]
  BY <1>1, RunTyped
<1>3. /\ sum \in [SUBSET (1..n) -> Nat] /\ sum[{}] = 0
      /\ \A s \in SUBSET (1..n) : \A i \in s : sum[s] = g[i] + sum[s \ {i}]
  <2>1. IsTotal(sum, g, n)
    BY SumTyped
  <2> QED BY <2>1 DEF IsTotal
<1>4. PICK T : T = {k \in Nat : k <= n => sum[1..k] = Len(Upto(run, k))}
  OBVIOUS
<1>5. 0 \in T
  <2>1. 1..0 = {} /\ Upto(run, 0) = <<>> /\ Len(<<>>) = 0
    BY DEF Upto
  <2> QED BY <1>3, <1>4, <2>1
<1>6. ASSUME NEW k \in T PROVE k + 1 \in T
  <2>1. k \in Nat /\ (k <= n => sum[1..k] = Len(Upto(run, k)))
    BY <1>4, <1>6
  <2> SUFFICES ASSUME k + 1 <= n PROVE sum[1..(k + 1)] = Len(Upto(run, k + 1))
    BY <1>4, <2>1
  <2>2. PICK j : j = k + 1
    OBVIOUS
  <2>3. j \in 1..n /\ j - 1 = k /\ k \in 0..n /\ k <= n /\ j \in 1..j
    BY <1>1, <2>1, <2>2
  <2>4. 1..j \in SUBSET (1..n) /\ (1..j) \ {j} = 1..k
    BY <1>1, <2>1, <2>2, <2>3
  <2>5. sum[1..j] = g[j] + sum[1..k]
    <3>1. PICK s \in SUBSET (1..n) : s = 1..j /\ s \ {j} = 1..k
      BY <2>4
    <3>2. j \in s
      BY <2>3, <3>1
    <3>3. sum[s] = g[j] + sum[s \ {j}]
      BY <1>3, <3>2
    <3> QED BY <3>1, <3>3
  <2>6. Upto(run, k) \in Seq(S) /\ seqs[j] \in Seq(S) /\ Upto(run, j) = Upto(run, k) \o seqs[j]
    <3>1. Upto(run, j) = Upto(run, j - 1) \o seqs[j]
      BY <1>2, <2>3
    <3>2. seqs[j] \in Seq(S)
      BY <1>1, <2>3
    <3> QED BY <1>2, <2>3, <3>1, <3>2
  <2>7. Len(Upto(run, j)) = Len(Upto(run, k)) + Len(seqs[j])
    BY <2>6, ConcatProperties
  <2>8. g[j] = Len(seqs[j]) /\ sum[1..k] = Len(Upto(run, k))
    BY <1>1, <2>1, <2>3
  <2>9. Len(Upto(run, k)) \in Nat /\ Len(seqs[j]) \in Nat
    BY <2>6, LenProperties
  <2> QED BY <2>2, <2>5, <2>7, <2>8, <2>9
<1>7. T = Nat
  <2>1. T \in SUBSET Nat
    BY <1>4
  <2> QED BY <1>5, <1>6, <2>1, Climb
<1> QED BY <1>1, <1>4, <1>7

-----------------------------------------------------------------------------

(***************************************************************************)
(* The content of a body.                                                  *)
(***************************************************************************)

\* The file that an item of the plan is.
FileAt(b, i) == b.parts[Plan(b)[i][2]]

\* The chunks of f from first to last.
Span(f, first, last) == [k \in 1..(last - first) |-> <<f, first + k - 1>>]

\* What an item of the plan gives.
Piece(b, start, i) ==
    IF IsFile(b, Plan(b)[i]) THEN Span(FileAt(b, i), start[FileAt(b, i)], FileLength) ELSE <<Plan(b)[i]>>

PiecesOf(b, start) == [i \in 1..Len(Plan(b)) |-> Piece(b, start, i)]

\* What a chunk can be.
Units == Items \union (Files \X Nat)

\* A file's chunks.
LEMMA SpanTyped ==
  ASSUME NEW f \in Files, NEW m \in Nat, NEW n \in Nat, m <= n
  PROVE  Span(f, m, n) \in Seq(Units) /\ Len(Span(f, m, n)) = n - m
<1>1. n - m \in Nat /\ \A k \in 1..(n - m) : <<f, m + k - 1>> \in Units
  BY DEF Units
<1>2. PICK d \in Nat : d = n - m
  BY <1>1
<1>3. Span(f, m, n) \in [1..d -> Units]
  BY <1>1, <1>2 DEF Span
<1> QED BY <1>2, <1>3, LenProperties

\* The items of a multipart body's plan that are its parts.
LEMMA PlanParts ==
  ASSUME NEW b \in Bodies, b.form = "multipart"
  PROVE  \E m \in {1, 2} :
            /\ b.parts \in [1..m -> Files \union {"value"}]
            /\ Len(Plan(b)) = 3 * m + 1
            /\ \A i \in 1..(3 * m + 1) : Plan(b)[i][1] = "data" =>
                  (i = 2 /\ Plan(b)[i][2] = 1) \/ (i = 5 /\ m = 2 /\ Plan(b)[i][2] = 2)
<1>1. b.parts \in SeqOf(Files \union {"value"}, 2) /\ b.parts # <<>>
  BY DEF Bodies
<1>2. PICK m \in 0..2 : b.parts \in [1..m -> Files \union {"value"}]
  BY <1>1 DEF SeqOf
<1>3. m \in {1, 2} /\ Len(b.parts) = m
  <2>1. m # 0
    BY <1>1, <1>2
  <2> QED BY <1>2, <2>1
<1>4. PICK words : words = <<"head", "data", "tail">>
  OBVIOUS
<1>5. PICK main : main = [i \in 1..(3 * m) |-> <<words[((i - 1) % 3) + 1], ((i - 1) \div 3) + 1>>]
  OBVIOUS
<1>6. Plan(b) = main \o <<<<"end", 0>>>>
  BY <1>3, <1>4, <1>5 DEF Plan
<1>7. words[1] = "head" /\ words[2] = "data" /\ words[3] = "tail"
  BY <1>4
<1>8. \A i \in 1..(3 * m) : /\ ((i - 1) % 3) + 1 \in 1..3 /\ ((i - 1) \div 3) + 1 \in Nat
                            /\ ((i - 1) % 3) + 1 = 2 => (i = 2 /\ ((i - 1) \div 3) + 1 = 1)
                                                       \/ (i = 5 /\ m = 2 /\ ((i - 1) \div 3) + 1 = 2)
  BY <1>3
<1>9. main \in Seq({"head", "data", "tail"} \X Nat) /\ Len(main) = 3 * m
  <2>0. \A k \in 1..3 : words[k] \in {"head", "data", "tail"}
    BY <1>7
  <2>1. \A i \in 1..(3 * m) : main[i] \in {"head", "data", "tail"} \X Nat
    BY <1>5, <1>8, <2>0
  <2>2. main \in [1..(3 * m) -> {"head", "data", "tail"} \X Nat] /\ 3 * m \in Nat
    BY <1>3, <1>5, <2>1
  <2> QED BY <2>2, LenProperties
<1>10. /\ Len(Plan(b)) = 3 * m + 1
       /\ \A i \in 1..(3 * m) : Plan(b)[i] = main[i]
       /\ Plan(b)[3 * m + 1] = <<"end", 0>>
  <2>1. PICK e : e = <<<<"end", 0>>>>
    OBVIOUS
  <2>2. e \in Seq(Items) /\ Len(e) = 1 /\ e[1] = <<"end", 0>>
    BY <2>1 DEF Items
  <2>3. main \in Seq(Items)
    BY <1>9 DEF Items
  <2>4. PICK c : c = main \o e
    OBVIOUS
  <2>5. /\ Len(c) = Len(main) + Len(e)
        /\ \A i \in 1..(Len(main) + Len(e)) : c[i] = IF i <= Len(main) THEN main[i] ELSE e[i - Len(main)]
    BY <2>2, <2>3, <2>4, ConcatProperties
  <2>6. PICK q \in Nat : q = 3 * m
    BY <1>3
  <2>7. Len(c) = q + 1 /\ \A i \in 1..(q + 1) : c[i] = IF i <= q THEN main[i] ELSE e[i - q]
    BY <1>9, <2>2, <2>5, <2>6
  <2>8. \A i \in 1..q : c[i] = main[i]
    BY <2>7
  <2>9. c[q + 1] = e[1]
    <3>1. q + 1 \in 1..(q + 1) /\ ~(q + 1 <= q) /\ q + 1 - q = 1
      OBVIOUS
    <3> QED BY <2>7, <3>1
  <2> QED BY <1>6, <2>1, <2>2, <2>4, <2>6, <2>7, <2>8, <2>9
<1>11. ASSUME NEW i \in 1..(3 * m + 1), Plan(b)[i][1] = "data"
       PROVE  (i = 2 /\ Plan(b)[i][2] = 1) \/ (i = 5 /\ m = 2 /\ Plan(b)[i][2] = 2)
  <2>1. i # 3 * m + 1
    BY <1>10, <1>11
  <2>2. i \in 1..(3 * m)
    BY <1>3, <2>1
  <2>3. PICK k, j : k = ((i - 1) % 3) + 1 /\ j = ((i - 1) \div 3) + 1
    OBVIOUS
  <2>4. Plan(b)[i] = <<words[k], j>>
    BY <1>5, <1>10, <2>2, <2>3
  <2>5. k \in 1..3 /\ (k = 2 => (i = 2 /\ j = 1) \/ (i = 5 /\ m = 2 /\ j = 2))
    BY <1>8, <2>2, <2>3
  <2>6. words[k] = "data" /\ Plan(b)[i][2] = j
    BY <1>11, <2>4
  <2>7. k = 2
    <3>1. k # 1 /\ k # 3
      BY <1>7, <2>6
    <3> QED BY <2>5, <3>1
  <2> QED BY <2>5, <2>6, <2>7
<1> QED BY <1>2, <1>3, <1>10, <1>11

\* The items that are files: no two of them in a row, and no two of the same file.
LEMMA PlanShape ==
  ASSUME NEW b \in Bodies
  PROVE  /\ Len(Plan(b)) \in Nat /\ Len(Plan(b)) >= 1 /\ DOMAIN Plan(b) = 1..Len(Plan(b))
         /\ \A i \in 1..Len(Plan(b)) : Plan(b)[i] \in Units
         /\ \A i \in 1..Len(Plan(b)) : IsFile(b, Plan(b)[i]) => FileAt(b, i) \in Files
         /\ \A i \in 1..Len(Plan(b)) : i + 1 <= Len(Plan(b)) /\ IsFile(b, Plan(b)[i]) => ~IsFile(b, Plan(b)[i + 1])
         /\ (\A f \in Files : b.parts # <<f, f>>) =>
               \A i, j \in 1..Len(Plan(b)) :
                  IsFile(b, Plan(b)[i]) /\ IsFile(b, Plan(b)[j]) /\ FileAt(b, i) = FileAt(b, j) => i = j
<1>1. PICK p, n : p = Plan(b) /\ n = Len(p)
  OBVIOUS
<1>2. p \in Seq(Items)
  BY <1>1, PlanTyped
<1>3. n \in Nat /\ DOMAIN p = 1..n /\ \A i \in 1..n : p[i] \in Items
  BY <1>1, <1>2, LenProperties
<1>4. \A i \in 1..n : p[i] \in Units
  BY <1>3 DEF Units
<1>5. \A i \in 1..n : IsFile(b, p[i]) => p[i][1] = "data" /\ b.parts[p[i][2]] \in Files
  BY DEF IsFile
<1>6. CASE b.form # "multipart"
  <2>1. p = <<<<"data", 1>>>>
    BY <1>1, <1>6 DEF Plan
  <2>2. n = 1
    BY <1>1, <2>1
  <2>3. \A i, j \in 1..n : i = j /\ ~(i + 1 <= n)
    BY <2>2
  <2> QED BY <1>1, <1>3, <1>4, <1>5, <2>2, <2>3 DEF FileAt
<1>7. CASE b.form = "multipart"
  <2>1. PICK m \in {1, 2} :
            /\ b.parts \in [1..m -> Files \union {"value"}]
            /\ n = 3 * m + 1
            /\ \A i \in 1..n : p[i][1] = "data" =>
                  (i = 2 /\ p[i][2] = 1) \/ (i = 5 /\ m = 2 /\ p[i][2] = 2)
    BY <1>1, <1>7, PlanParts, ZenonT(30)
  <2>2. \A i \in 1..n : IsFile(b, p[i]) => (i = 2 /\ p[i][2] = 1) \/ (i = 5 /\ m = 2 /\ p[i][2] = 2)
    BY <1>5, <2>1
  <2>3. n >= 1
    BY <2>1
  <2>4. \A i \in 1..n : i + 1 <= n /\ IsFile(b, p[i]) => ~IsFile(b, p[i + 1])
    <3> SUFFICES ASSUME NEW i \in 1..n, i + 1 <= n, IsFile(b, p[i]), IsFile(b, p[i + 1])
                 PROVE  FALSE
      OBVIOUS
    <3>1. PICK j : j = i + 1
      OBVIOUS
    <3>2. j \in 1..n /\ IsFile(b, p[j])
      BY <1>3, <3>1
    <3>3. (i = 2 \/ i = 5) /\ (j = 2 \/ j = 5)
      BY <2>2, <3>2
    <3> QED BY <3>1, <3>3
  <2>5. ASSUME \A f \in Files : b.parts # <<f, f>>,
               NEW i \in 1..n, NEW j \in 1..n, IsFile(b, p[i]), IsFile(b, p[j]), b.parts[p[i][2]] = b.parts[p[j][2]]
        PROVE  i = j
    <3> SUFFICES ASSUME i # j PROVE FALSE
      OBVIOUS
    <3>1. ((i = 2 /\ p[i][2] = 1) \/ (i = 5 /\ m = 2 /\ p[i][2] = 2)) /\ ((j = 2 /\ p[j][2] = 1) \/ (j = 5 /\ m = 2 /\ p[j][2] = 2))
      BY <2>2, <2>5
    <3>2. m = 2 /\ b.parts[1] = b.parts[2]
      BY <2>5, <3>1
    <3>3. PICK f : f = b.parts[1]
      OBVIOUS
    <3>4. f \in Files
      <4>1. b.parts[p[i][2]] \in Files
        BY <1>5, <2>5
      <4>2. p[i][2] = 1 \/ p[i][2] = 2
        BY <3>1
      <4> QED BY <3>2, <3>3, <4>1, <4>2
    <3>5. b.parts = <<f, f>>
      BY <2>1, <3>2, <3>3
    <3> QED BY <2>5, <3>4, <3>5
  <2> QED BY <1>1, <1>3, <1>4, <1>5, <2>3, <2>4, <2>5 DEF FileAt
<1> QED BY <1>6, <1>7

\* The pieces are sequences of chunks.
LEMMA PiecesTyped ==
  ASSUME NEW b \in Bodies, NEW start \in [Files -> 0..FileLength]
  PROVE  /\ PiecesOf(b, start) \in Seq(Seq(Units)) /\ Len(PiecesOf(b, start)) = Len(Plan(b))
         /\ \A i \in 1..Len(Plan(b)) : PiecesOf(b, start)[i] = Piece(b, start, i)
         /\ \A i \in 1..Len(Plan(b)) :
              IF IsFile(b, Plan(b)[i])
              THEN /\ FileAt(b, i) \in Files /\ start[FileAt(b, i)] \in 0..FileLength
                   /\ Piece(b, start, i) = Span(FileAt(b, i), start[FileAt(b, i)], FileLength)
                   /\ Len(Piece(b, start, i)) = FileLength - start[FileAt(b, i)]
              ELSE Piece(b, start, i) = <<Plan(b)[i]>> /\ Len(Piece(b, start, i)) = 1
<1>1. PICK n \in Nat : n = Len(Plan(b))
  BY PlanShape
<1>2. FileLength \in Nat
  BY FilesAssumption
<1>3. ASSUME NEW i \in 1..n
      PROVE  /\ Piece(b, start, i) \in Seq(Units)
             /\ IF IsFile(b, Plan(b)[i])
                THEN /\ FileAt(b, i) \in Files /\ start[FileAt(b, i)] \in 0..FileLength
                     /\ Piece(b, start, i) = Span(FileAt(b, i), start[FileAt(b, i)], FileLength)
                     /\ Len(Piece(b, start, i)) = FileLength - start[FileAt(b, i)]
                ELSE Piece(b, start, i) = <<Plan(b)[i]>> /\ Len(Piece(b, start, i)) = 1
  <2>1. CASE IsFile(b, Plan(b)[i])
    <3>1. PICK f, m : f = FileAt(b, i) /\ m = start[f]
      OBVIOUS
    <3>2. f \in Files
      BY <1>1, <2>1, <3>1, PlanShape
    <3>3. m \in 0..FileLength
      BY <3>1, <3>2
    <3>4. m \in Nat /\ m <= FileLength
      BY <1>2, <3>3
    <3>5. Span(f, m, FileLength) \in Seq(Units) /\ Len(Span(f, m, FileLength)) = FileLength - m
      BY <1>2, <3>2, <3>4, SpanTyped
    <3>6. Piece(b, start, i) = Span(f, m, FileLength)
      BY <2>1, <3>1 DEF Piece
    <3> QED BY <2>1, <3>1, <3>2, <3>3, <3>5, <3>6
  <2>2. CASE ~IsFile(b, Plan(b)[i])
    <3>1. Piece(b, start, i) = <<Plan(b)[i]>>
      BY <2>2 DEF Piece
    <3>2. Plan(b)[i] \in Units
      BY <1>1, PlanShape
    <3> QED BY <2>2, <3>1, <3>2
  <2> QED BY <2>1, <2>2
<1>4. PICK ps : ps = PiecesOf(b, start)
  OBVIOUS
<1>5. ps = [i \in 1..n |-> Piece(b, start, i)]
  BY <1>1, <1>4 DEF PiecesOf
<1>6. ps \in [1..n -> Seq(Units)]
  BY <1>3, <1>5
<1>7. ps \in Seq(Seq(Units)) /\ Len(ps) = n
  BY <1>6, LenProperties
<1> QED BY <1>1, <1>3, <1>4, <1>5, <1>7

\* What a body, of files at start, gives up to each item.
Setting(b, start, run) ==
    b \in Bodies /\ start \in [Files -> 0..FileLength] /\ IsRun(run, PiecesOf(b, start))

\* Each item gives its piece more.
LEMMA UptoGrows ==
  ASSUME NEW b, NEW start, NEW run, Setting(b, start, run)
  PROVE  /\ \A k \in 0..Len(Plan(b)) : Upto(run, k) \in Seq(Units)
         /\ \A k \in 1..Len(Plan(b)) : Upto(run, k) = Upto(run, k - 1) \o Piece(b, start, k)
         /\ \A k \in 1..Len(Plan(b)) : Piece(b, start, k) \in Seq(Units)
<1>1. b \in Bodies /\ start \in [Files -> 0..FileLength] /\ IsRun(run, PiecesOf(b, start))
  BY DEF Setting
<1>2. PICK ps, n : ps = PiecesOf(b, start) /\ n = Len(Plan(b))
  OBVIOUS
<1>3. ps \in Seq(Seq(Units)) /\ Len(ps) = n /\ n \in Nat /\ \A i \in 1..n : ps[i] = Piece(b, start, i)
  BY <1>1, <1>2, PiecesTyped, PlanShape
<1>4. /\ \A k \in 0..n : Upto(run, k) \in Seq(Units)
      /\ \A k \in 1..n : Upto(run, k) = Upto(run, k - 1) \o ps[k]
  <2>1. IsRun(run, ps)
    BY <1>1, <1>2
  <2> QED BY <1>3, <2>1, RunTyped
<1>5. \A i \in 1..n : Piece(b, start, i) \in Seq(Units)
  <2>1. \A i \in 1..n : ps[i] \in Seq(Units)
    BY <1>3
  <2> QED BY <1>3, <2>1
<1>6. \A k \in 1..n : Upto(run, k) = Upto(run, k - 1) \o Piece(b, start, k)
  BY <1>3, <1>4
<1> QED BY <1>2, <1>4, <1>5, <1>6

\* The content of a body is what it gives up to its last item.
LEMMA ContentIs ==
  ASSUME NEW b \in Bodies, NEW start \in [Files -> 0..FileLength]
  PROVE  \E run : Setting(b, start, run) /\ ContentOf(b, start) = run[Len(Plan(b))]
<1>1. PICK ps : ps = PiecesOf(b, start)
  OBVIOUS
<1>2. ps \in Seq(Seq(Units)) /\ Len(ps) = Len(Plan(b)) /\ Len(ps) # 0
  BY <1>1, PiecesTyped, PlanShape
<1>3. PICK run : IsRun(run, ps) /\ FlattenSeq(ps) = run[Len(ps)]
  BY <1>2, FlattenIs
<1>4. ContentOf(b, start) = FlattenSeq(ps)
  <2>1. DOMAIN Plan(b) = 1..Len(Plan(b))
    BY PlanShape
  <2>2. ps = [i \in DOMAIN Plan(b) |->
                IF IsFile(b, Plan(b)[i])
                THEN FromFile(b.parts[Plan(b)[i][2]], start[b.parts[Plan(b)[i][2]]])
                ELSE <<Plan(b)[i]>>]
    BY <1>1, <2>1 DEF PiecesOf, Piece, FileAt, Span, FromFile
  <2> QED BY <2>2 DEF ContentOf
<1> QED BY <1>1, <1>2, <1>3, <1>4 DEF Setting

\* What is declared for each item of a body.
Declared(b, start) ==
    [i \in 1..Len(Plan(b)) |-> IF IsFile(b, Plan(b)[i]) THEN Remaining(start[FileAt(b, i)]) ELSE 1]

\* The length that is declared is the sum of that.
LEMMA LengthIs ==
  ASSUME NEW b \in Bodies, NEW start \in [Files -> 0..FileLength]
  PROVE  \E sum : IsSum(sum, Declared(b, start), Len(Plan(b))) /\ Length(b, start) = sum[1..Len(Plan(b))]
<1>1. PICK n, g : n = Len(Plan(b)) /\ g = Declared(b, start)
  OBVIOUS
<1>2. n \in Nat /\ DOMAIN Plan(b) = 1..n
  BY <1>1, PlanShape
<1>3. g \in [1..n -> Nat]
  <2>1. ASSUME NEW i \in 1..n PROVE g[i] \in Nat
    <3>1. FileLength \in Nat
      BY FilesAssumption
    <3>2. CASE IsFile(b, Plan(b)[i])
      <4>1. FileAt(b, i) \in Files
        BY <1>1, <3>2, PlanShape
      <4>2. start[FileAt(b, i)] \in 0..FileLength
        BY <4>1
      <4>3. Remaining(start[FileAt(b, i)]) \in Nat
        BY <3>1, <4>2 DEF Remaining
      <4> QED BY <1>1, <3>2, <4>3 DEF Declared
    <3>3. CASE ~IsFile(b, Plan(b)[i])
      BY <1>1, <3>3 DEF Declared
    <3> QED BY <3>2, <3>3
  <2> QED BY <1>1, <2>1 DEF Declared
<1> DEFINE Raw(sum) == sum = [s \in SUBSET (1..n) |->
               IF s = {} THEN 0
               ELSE (IF IsFile(b, Plan(b)[OneOf(s)]) THEN Remaining(start[FileAt(b, OneOf(s))]) ELSE 1)
                        + sum[s \ {OneOf(s)}]]
<1>4. ASSUME NEW sum PROVE Raw(sum) <=> IsSum(sum, g, n)
  <2>1. \A s \in SUBSET (1..n) : s # {} => OneOf(s) \in 1..n
    BY DEF OneOf
  <2>2. \A i \in 1..n : g[i] = IF IsFile(b, Plan(b)[i]) THEN Remaining(start[FileAt(b, i)]) ELSE 1
    BY <1>1 DEF Declared
  <2>3. \A s \in SUBSET (1..n) :
           (IF s = {} THEN 0
            ELSE (IF IsFile(b, Plan(b)[OneOf(s)]) THEN Remaining(start[FileAt(b, OneOf(s))]) ELSE 1)
                    + sum[s \ {OneOf(s)}])
           = IF s = {} THEN 0 ELSE g[OneOf(s)] + sum[s \ {OneOf(s)}]
    BY <2>1, <2>2
  <2> QED BY <2>3 DEF IsSum
<1>5. PICK sum : sum = CHOOSE t : Raw(t)
  OBVIOUS
<1>6. Length(b, start) = sum[1..n]
  BY <1>2, <1>5 DEF Length, MapThenSumSet, MapThenFoldSet, OneOf, FileAt
<1>7. \E t : Raw(t)
  <2>1. \E t : IsSum(t, g, n)
    BY <1>2, <1>3, SumExists
  <2> QED BY <1>4, <2>1
<1>8. Raw(sum)
  <2> HIDE DEF Raw
  <2> QED BY <1>5, <1>7
<1> QED BY <1>1, <1>4, <1>6, <1>8

\* The length that is declared is that of the content.
LEMMA LengthTrue ==
  ASSUME NEW b, NEW start, NEW run, Setting(b, start, run)
  PROVE  Length(b, start) = Len(run[Len(Plan(b))])
<1>1. b \in Bodies /\ start \in [Files -> 0..FileLength] /\ IsRun(run, PiecesOf(b, start))
  BY DEF Setting
<1>2. PICK ps, n, g : ps = PiecesOf(b, start) /\ n = Len(Plan(b)) /\ g = Declared(b, start)
  OBVIOUS
<1>3. ps \in Seq(Seq(Units)) /\ Len(ps) = n /\ n \in Nat /\ n # 0 /\ IsRun(run, ps)
  BY <1>1, <1>2, PiecesTyped, PlanShape
<1>4. ASSUME NEW i \in 1..n PROVE g[i] = Len(ps[i]) /\ g[i] \in Nat
  <2>1. g[i] = IF IsFile(b, Plan(b)[i]) THEN FileLength - start[FileAt(b, i)] ELSE 1
    BY <1>2 DEF Declared, Remaining
  <2>2. Len(ps[i]) = IF IsFile(b, Plan(b)[i]) THEN FileLength - start[FileAt(b, i)] ELSE 1
    BY <1>1, <1>2, PiecesTyped, ZenonT(30)
  <2>3. ps[i] \in Seq(Units)
    BY <1>3
  <2>4. Len(ps[i]) \in Nat
    BY <2>3, LenProperties
  <2> QED BY <2>1, <2>2, <2>4
<1>5. g \in [1..n -> Nat]
  BY <1>2, <1>4 DEF Declared
<1>6. PICK sum : IsSum(sum, g, n) /\ Length(b, start) = sum[1..n]
  BY <1>1, <1>2, LengthIs
<1>7. sum[1..n] = Len(Upto(run, n))
  BY <1>3, <1>4, <1>5, <1>6, SumIsLen, SMTT(30)
<1> QED BY <1>2, <1>3, <1>6, <1>7 DEF Upto

-----------------------------------------------------------------------------

(***************************************************************************)
(* An iteration of a body.                                                 *)
(***************************************************************************)

\* What has been read of the file at item k, if it is one, from start to pos.
Partly(b, start, pos, k) ==
    IF k \in 1..Len(Plan(b)) /\ IsFile(b, Plan(b)[k])
    THEN Span(FileAt(b, k), start[FileAt(b, k)], pos[FileAt(b, k)])
    ELSE <<>>

\* For an iteration at item k, the file at item i is where it should be.
Placed(b, start, pos, k, i) ==
    IsFile(b, Plan(b)[i]) =>
        /\ start[FileAt(b, i)] <= pos[FileAt(b, i)] /\ pos[FileAt(b, i)] <= FileLength
        /\ i < k => pos[FileAt(b, i)] = FileLength
        /\ i > k => pos[FileAt(b, i)] = start[FileAt(b, i)]

\* An iteration at item k has got all that it should.
Along(b, start, run, pos, k, got) ==
    /\ k \in 1..(Len(Plan(b)) + 1)
    /\ got = Upto(run, k - 1) \o Partly(b, start, pos, k)
    /\ \A i \in 1..Len(Plan(b)) : Placed(b, start, pos, k, i)

\* Each file of the plan is somewhere between its start and its end.
LEMMA FilePlaced ==
  ASSUME NEW b, NEW start, NEW run, Setting(b, start, run), NEW pos \in [Files -> Nat],
         NEW i \in 1..Len(Plan(b)), IsFile(b, Plan(b)[i])
  PROVE  FileAt(b, i) \in Files /\ start[FileAt(b, i)] \in Nat /\ start[FileAt(b, i)] <= FileLength
         /\ pos[FileAt(b, i)] \in Nat /\ FileLength \in Nat
<1>1. FileAt(b, i) \in Files
  BY PlanShape DEF Setting
<1>2. FileLength \in Nat
  BY FilesAssumption
<1>3. start[FileAt(b, i)] \in 0..FileLength
  BY <1>1 DEF Setting
<1> QED BY <1>1, <1>2, <1>3

\* At the start nothing is read of the file at an item.
LEMMA NothingRead ==
  ASSUME NEW b, NEW start, NEW run, Setting(b, start, run), NEW pos \in [Files -> Nat],
         NEW k, k \in 1..Len(Plan(b)) /\ IsFile(b, Plan(b)[k]) => pos[FileAt(b, k)] = start[FileAt(b, k)]
  PROVE  Partly(b, start, pos, k) = <<>>
<1>1. CASE k \in 1..Len(Plan(b)) /\ IsFile(b, Plan(b)[k])
  <2>1. PICK f, m : f = FileAt(b, k) /\ m = start[f]
    OBVIOUS
  <2>2. m \in Nat /\ f \in Files /\ pos[f] = m
    BY <1>1, <2>1, FilePlaced
  <2>3. Partly(b, start, pos, k) = Span(f, m, m)
    BY <1>1, <2>1, <2>2 DEF Partly
  <2>4. Span(f, m, m) \in Seq(Units) /\ Len(Span(f, m, m)) = m - m
    BY <2>2, SpanTyped
  <2>5. Len(Span(f, m, m)) = 0
    BY <2>2, <2>4
  <2> QED BY <2>3, <2>4, <2>5
<1>2. CASE ~(k \in 1..Len(Plan(b)) /\ IsFile(b, Plan(b)[k]))
  BY <1>2 DEF Partly
<1> QED BY <1>1, <1>2

\* An iteration begins, the files being where they were.
LEMMA BeginsAlong ==
  ASSUME NEW b, NEW start, NEW run, Setting(b, start, run), NEW pos \in [Files -> Nat],
         \A i \in 1..Len(Plan(b)) : IsFile(b, Plan(b)[i]) => pos[FileAt(b, i)] = start[FileAt(b, i)]
  PROVE  Along(b, start, run, pos, 1, <<>>)
<1>1. Len(Plan(b)) \in Nat
  BY PlanShape DEF Setting
<1>2. Partly(b, start, pos, 1) = <<>>
  BY NothingRead
<1>3. Upto(run, 1 - 1) = <<>>
  BY DEF Upto
<1>4. ASSUME NEW i \in 1..Len(Plan(b)) PROVE Placed(b, start, pos, 1, i)
  <2> SUFFICES ASSUME IsFile(b, Plan(b)[i]) PROVE Placed(b, start, pos, 1, i)
    BY DEF Placed
  <2>1. start[FileAt(b, i)] \in Nat /\ start[FileAt(b, i)] <= FileLength
    BY FilePlaced
  <2>2. ~(i < 1)
    BY <1>1
  <2> QED BY <2>1, <2>2 DEF Placed
<1>5. <<>> = <<>> \o <<>>
  OBVIOUS
<1>6. 1 \in 1..(Len(Plan(b)) + 1)
  BY <1>1
<1> QED BY <1>2, <1>3, <1>4, <1>5, <1>6 DEF Along

\* When item k is over, so is what it gives, and the next may begin.
LEMMA NextItem ==
  ASSUME NEW b, NEW start, NEW run, Setting(b, start, run), NEW pos \in [Files -> Nat],
         NEW k \in 1..Len(Plan(b)), NEW got, Along(b, start, run, pos, k, got),
         IsFile(b, Plan(b)[k]) => pos[FileAt(b, k)] = FileLength
  PROVE  Along(b, start, run, pos, k + 1, Upto(run, k))
<1>1. PICK n, j : n = Len(Plan(b)) /\ j = k + 1
  OBVIOUS
<1>2. n \in Nat /\ j \in 1..(n + 1) /\ j - 1 = k /\ k \in 1..n
  BY <1>1, PlanShape DEF Setting
<1>3. Partly(b, start, pos, j) = <<>>
  <2>1. j \in 1..n /\ IsFile(b, Plan(b)[j]) => pos[FileAt(b, j)] = start[FileAt(b, j)]
    <3>1. j \in 1..n => Placed(b, start, pos, k, j)
      BY <1>1 DEF Along
    <3>2. j > k
      BY <1>1
    <3> QED BY <3>1, <3>2 DEF Placed
  <2> QED BY <1>1, <2>1, NothingRead
<1>4. ASSUME NEW i \in 1..n PROVE Placed(b, start, pos, j, i)
  <2>1. Placed(b, start, pos, k, i)
    BY <1>1 DEF Along
  <2>2. i < j => i < k \/ i = k
    BY <1>1, <1>2
  <2>3. i > j => i > k
    BY <1>1, <1>2
  <2> QED BY <2>1, <2>2, <2>3 DEF Placed
<1>5. Upto(run, k) \in Seq(Units)
  <2>1. k \in 0..n
    BY <1>2
  <2> QED BY <1>1, <2>1, UptoGrows
<1>6. Upto(run, k) = Upto(run, j - 1) \o Partly(b, start, pos, j)
  BY <1>2, <1>3, <1>5, ConcatEmptySeq
<1> QED BY <1>1, <1>2, <1>4, <1>6 DEF Along

\* An iteration takes an item that is not a file.
LEMMA TakesItem ==
  ASSUME NEW b, NEW start, NEW run, Setting(b, start, run), NEW pos \in [Files -> Nat],
         NEW k \in 1..Len(Plan(b)), NEW got, Along(b, start, run, pos, k, got), ~IsFile(b, Plan(b)[k])
  PROVE  Along(b, start, run, pos, k + 1, Append(got, Plan(b)[k]))
<1>1. Along(b, start, run, pos, k + 1, Upto(run, k))
  BY NextItem
<1>2. k - 1 \in 0..Len(Plan(b))
  BY PlanShape DEF Setting
<1>3. Upto(run, k - 1) \in Seq(Units) /\ Upto(run, k) = Upto(run, k - 1) \o Piece(b, start, k)
  BY <1>2, UptoGrows
<1>4. Piece(b, start, k) = <<Plan(b)[k]>>
  BY DEF Piece
<1>5. got = Upto(run, k - 1)
  <2>1. Partly(b, start, pos, k) = <<>>
    BY DEF Partly
  <2> QED BY <1>3, <2>1, ConcatEmptySeq DEF Along
<1>6. Plan(b)[k] \in Units
  BY PlanShape DEF Setting
<1>7. Append(got, Plan(b)[k]) = got \o <<Plan(b)[k]>>
  BY <1>3, <1>5, <1>6, AppendIsConcat
<1> QED BY <1>1, <1>3, <1>4, <1>5, <1>7

\* An iteration comes to the end of a file.
LEMMA EndsFile ==
  ASSUME NEW b, NEW start, NEW run, Setting(b, start, run), NEW pos \in [Files -> Nat],
         NEW k \in 1..Len(Plan(b)), NEW got, Along(b, start, run, pos, k, got), IsFile(b, Plan(b)[k]),
         ~(pos[FileAt(b, k)] < FileLength)
  PROVE  Along(b, start, run, pos, k + 1, got)
<1>1. pos[FileAt(b, k)] = FileLength
  <2>1. pos[FileAt(b, k)] <= FileLength
    BY DEF Along, Placed
  <2>2. pos[FileAt(b, k)] \in Nat /\ FileLength \in Nat
    BY FilePlaced
  <2> QED BY <2>1, <2>2
<1>2. Along(b, start, run, pos, k + 1, Upto(run, k))
  BY <1>1, NextItem
<1>3. Upto(run, k) = Upto(run, k - 1) \o Piece(b, start, k)
  BY UptoGrows
<1>4. Partly(b, start, pos, k) = Piece(b, start, k)
  BY <1>1 DEF Partly, Piece
<1>5. got = Upto(run, k)
  BY <1>3, <1>4 DEF Along
<1> QED BY <1>2, <1>5

\* One chunk more of a file.
LEMMA SpanGrows ==
  ASSUME NEW f \in Files, NEW m \in Nat, NEW n \in Nat, m <= n
  PROVE  Span(f, m, n + 1) = Append(Span(f, m, n), <<f, n>>)
<1>1. PICK d \in Nat : d = n - m
  OBVIOUS
<1>2. n + 1 - m = d + 1 /\ m + (d + 1) - 1 = n
  BY <1>1
<1>3. PICK s : s = [k \in 1..d |-> <<f, m + k - 1>>]
  OBVIOUS
<1>4. s \in [1..d -> Files \X Nat]
  <2>1. \A k \in 1..d : m + k - 1 \in Nat
    BY <1>1
  <2> QED BY <1>3, <2>1
<1>5. s \in Seq(Files \X Nat) /\ Len(s) = d
  BY <1>4, LenProperties
<1>6. Append(s, <<f, n>>) = [k \in 1..(d + 1) |-> IF k = d + 1 THEN <<f, n>> ELSE s[k]]
  <2>1. <<f, n>> \in Files \X Nat
    OBVIOUS
  <2>2. PICK e : e = Append(s, <<f, n>>)
    OBVIOUS
  <2>3. /\ e \in Seq(Files \X Nat) /\ Len(e) = d + 1
        /\ \A k \in 1..d : e[k] = s[k]
        /\ e[d + 1] = <<f, n>>
    BY <1>5, <2>1, <2>2, AppendProperties
  <2>4. e = [k \in 1..(d + 1) |-> e[k]]
    BY <2>3
  <2>5. \A k \in 1..(d + 1) : e[k] = IF k = d + 1 THEN <<f, n>> ELSE s[k]
    BY <2>3
  <2> QED BY <2>2, <2>4, <2>5
<1>7. \A k \in 1..(d + 1) : <<f, m + k - 1>> = IF k = d + 1 THEN <<f, n>> ELSE s[k]
  <2>1. ASSUME NEW k \in 1..(d + 1), k # d + 1 PROVE s[k] = <<f, m + k - 1>>
    <3>1. k \in 1..d
      BY <2>1
    <3> QED BY <1>3, <3>1
  <2>2. ASSUME NEW k \in 1..(d + 1), k = d + 1 PROVE m + k - 1 = n
    BY <1>2, <2>2
  <2> QED BY <2>1, <2>2
<1>8. [k \in 1..(d + 1) |-> <<f, m + k - 1>>] = [k \in 1..(d + 1) |-> IF k = d + 1 THEN <<f, n>> ELSE s[k]]
  BY <1>7
<1> QED BY <1>1, <1>2, <1>3, <1>6, <1>8 DEF Span

\* An iteration reads from a file that no other item is.
LEMMA ReadsFile ==
  ASSUME NEW b, NEW start, NEW run, Setting(b, start, run), NEW pos \in [Files -> Nat],
         \A f \in Files : b.parts # <<f, f>>,
         NEW k \in 1..Len(Plan(b)), NEW got, Along(b, start, run, pos, k, got), IsFile(b, Plan(b)[k]),
         NEW f, f = FileAt(b, k), pos[f] < FileLength
  PROVE  Along(b, start, run, [pos EXCEPT ![f] = @ + 1], k, Append(got, <<f, pos[f]>>))
<1>1. PICK after, m, p : after = [pos EXCEPT ![f] = @ + 1] /\ m = start[f] /\ p = pos[f]
  OBVIOUS
<1>2. f \in Files /\ m \in Nat /\ p \in Nat /\ FileLength \in Nat /\ p < FileLength
  BY <1>1, FilePlaced
<1>3. m <= p
  BY <1>1 DEF Along, Placed
<1>4. after[f] = p + 1 /\ \A g \in Files : g # f => after[g] = pos[g]
  BY <1>1, <1>2
<1>5. Partly(b, start, pos, k) = Span(f, m, p) /\ Partly(b, start, after, k) = Span(f, m, p + 1)
  BY <1>1, <1>4 DEF Partly
<1>6. Span(f, m, p + 1) = Append(Span(f, m, p), <<f, p>>)
  BY <1>2, <1>3, SpanGrows
<1>7. k \in 1..(Len(Plan(b)) + 1) /\ k - 1 \in 0..Len(Plan(b))
  BY PlanShape DEF Setting
<1>8. Upto(run, k - 1) \in Seq(Units) /\ Span(f, m, p) \in Seq(Units) /\ <<f, p>> \in Units
  BY <1>2, <1>3, <1>7, UptoGrows, SpanTyped DEF Units
<1>9. Append(got, <<f, p>>) = Upto(run, k - 1) \o Partly(b, start, after, k)
  <2>1. PICK x, y, e : x = Upto(run, k - 1) /\ y = Span(f, m, p) /\ e = <<f, p>>
    OBVIOUS
  <2>2. x \in Seq(Units) /\ y \in Seq(Units) /\ e \in Units
    BY <1>8, <2>1
  <2>3. got = x \o y
    BY <1>5, <2>1 DEF Along
  <2>4. x \o y \in Seq(Units) /\ <<e>> \in Seq(Units)
    BY <2>2, Closes
  <2>5. Append(x \o y, e) = (x \o y) \o <<e>> /\ Append(y, e) = y \o <<e>>
    BY <2>2, <2>4, AppendIsConcat
  <2>6. (x \o y) \o <<e>> = x \o (y \o <<e>>)
    BY <2>2, <2>4, Associates, SMTT(30)
  <2> QED BY <1>5, <1>6, <2>1, <2>3, <2>5, <2>6
<1>10. ASSUME NEW i \in 1..Len(Plan(b)) PROVE Placed(b, start, after, k, i)
  <2> SUFFICES ASSUME IsFile(b, Plan(b)[i]) PROVE Placed(b, start, after, k, i)
    BY DEF Placed
  <2>1. CASE i = k
    <3>1. ~(i < k) /\ ~(i > k) /\ m <= p + 1 /\ p + 1 <= FileLength
      BY <1>2, <1>3, <2>1
    <3> QED BY <1>1, <1>4, <2>1, <3>1 DEF Placed
  <2>2. CASE i # k
    <3>1. FileAt(b, i) \in Files /\ FileAt(b, i) # f
      BY <2>2, PlanShape DEF Setting
    <3>2. after[FileAt(b, i)] = pos[FileAt(b, i)]
      BY <1>4, <3>1
    <3>3. Placed(b, start, pos, k, i)
      BY DEF Along
    <3> QED BY <3>2, <3>3 DEF Placed
  <2> QED BY <2>1, <2>2
<1> QED BY <1>1, <1>7, <1>9, <1>10 DEF Along

\* The items from k on that have a chunk to give.
AheadOf(b, pos, k) == {i \in k..Len(Plan(b)) : IsFile(b, Plan(b)[i]) => pos[FileAt(b, i)] < FileLength}

\* The first of them is next: an iteration is at it already, but for a file that is over.
LEMMA Onward ==
  ASSUME NEW b, NEW start, NEW run, Setting(b, start, run), NEW pos \in [Files -> Nat],
         NEW k, NEW got, Along(b, start, run, pos, k, got), AheadOf(b, pos, k) # {}
  PROVE  \E i \in 1..Len(Plan(b)) :
            /\ Min(AheadOf(b, pos, k)) = i
            /\ Along(b, start, run, pos, i, got)
            /\ IsFile(b, Plan(b)[i]) => pos[FileAt(b, i)] < FileLength
<1>1. PICK n, a : n = Len(Plan(b)) /\ a = AheadOf(b, pos, k)
  OBVIOUS
<1>2. n \in Nat /\ k \in 1..(n + 1)
  BY <1>1, PlanShape DEF Setting, Along
<1>3. a \in SUBSET (k..n) /\ a # {}
  BY <1>1 DEF AheadOf
<1>4. k \in 1..n
  <2>1. PICK e : e \in a
    BY <1>3
  <2>2. e \in k..n
    BY <1>3, <2>1
  <2> QED BY <1>2, <2>2
<1>5. ASSUME NEW i \in a, \A j \in a : i <= j PROVE Min(a) = i
  <2>1. \A x \in a : (\A y \in a : x <= y) => x = i
    BY <1>2, <1>3, <1>5
  <2> QED BY <1>5, <2>1 DEF Min
<1>6. CASE k \in a
  <2>1. \A j \in a : k <= j
    BY <1>2, <1>3
  <2>2. Min(a) = k
    BY <1>5, <1>6, <2>1
  <2>3. IsFile(b, Plan(b)[k]) => pos[FileAt(b, k)] < FileLength
    BY <1>1, <1>6 DEF AheadOf
  <2> QED BY <1>1, <1>4, <2>2, <2>3
<1>7. CASE k \notin a
  <2>1. IsFile(b, Plan(b)[k]) /\ ~(pos[FileAt(b, k)] < FileLength)
    <3>1. k \in k..n
      BY <1>2, <1>4
    <3> QED BY <1>1, <1>7, <3>1 DEF AheadOf
  <2>2. Along(b, start, run, pos, k + 1, got)
    BY <1>1, <1>4, <2>1, EndsFile
  <2>3. PICK i : i = k + 1
    OBVIOUS
  <2>4. i \in 1..n /\ i \in k..n /\ \A j \in a : i <= j
    <3>1. \A j \in a : i <= j
      <4>1. \A j \in a : j \in k..n /\ j # k
        BY <1>3, <1>7
      <4> QED BY <1>4, <2>3, <4>1
    <3>2. PICK e : e \in a
      BY <1>3
    <3>3. e \in k..n /\ i <= e
      BY <1>3, <3>1, <3>2
    <3> QED BY <1>2, <1>4, <2>3, <3>1, <3>3
  <2>5. ~IsFile(b, Plan(b)[i])
    BY <1>1, <1>4, <2>1, <2>3, <2>4, PlanShape DEF Setting
  <2>6. i \in a
    BY <1>1, <2>4, <2>5 DEF AheadOf
  <2>7. Min(a) = i
    BY <1>5, <2>4, <2>6
  <2> QED BY <1>1, <2>2, <2>3, <2>4, <2>5, <2>7
<1> QED BY <1>6, <1>7

\* When there are none, an iteration has got everything.
LEMMA AllGot ==
  ASSUME NEW b, NEW start, NEW run, Setting(b, start, run), NEW pos \in [Files -> Nat],
         NEW k, NEW got, Along(b, start, run, pos, k, got), AheadOf(b, pos, k) = {}
  PROVE  got = run[Len(Plan(b))]
<1>1. PICK n : n = Len(Plan(b))
  OBVIOUS
<1>2. n \in Nat /\ n >= 1 /\ k \in 1..(n + 1)
  BY <1>1, PlanShape DEF Setting, Along
<1>3. Along(b, start, run, pos, n + 1, got)
  <2>1. CASE k = n + 1
    BY <2>1
  <2>2. CASE k # n + 1
    <3>1. k \in 1..n /\ k \in k..n
      BY <1>2, <2>2
    <3>2. IsFile(b, Plan(b)[k]) /\ ~(pos[FileAt(b, k)] < FileLength)
      BY <1>1, <3>1 DEF AheadOf
    <3>3. k = n
      <4> SUFFICES ASSUME k # n PROVE FALSE
        OBVIOUS
      <4>1. PICK i : i = k + 1
        OBVIOUS
      <4>2. i \in k..n /\ i <= n
        BY <1>2, <3>1, <4>1
      <4>3. ~IsFile(b, Plan(b)[i])
        BY <1>1, <3>1, <3>2, <4>1, <4>2, PlanShape DEF Setting
      <4> QED BY <1>1, <4>2, <4>3 DEF AheadOf
    <3> QED BY <1>1, <3>1, <3>2, <3>3, EndsFile
  <2> QED BY <2>1, <2>2
<1>4. n + 1 - 1 = n /\ n + 1 \notin 1..n /\ n \in 0..n /\ n # 0
  BY <1>2
<1>5. Partly(b, start, pos, n + 1) = <<>>
  BY <1>1, <1>4 DEF Partly
<1>6. Upto(run, n) \in Seq(Units)
  BY <1>1, <1>4, UptoGrows
<1>7. got = Upto(run, n) \o <<>>
  <2>1. PICK j : j = n + 1
    OBVIOUS
  <2>2. got = Upto(run, j - 1) \o Partly(b, start, pos, j)
    BY <1>3, <2>1 DEF Along
  <2>3. j - 1 = n
    BY <1>4, <2>1
  <2> QED BY <1>5, <2>1, <2>2, <2>3
<1> QED BY <1>1, <1>4, <1>6, <1>7, ConcatEmptySeq DEF Upto

-----------------------------------------------------------------------------

(***************************************************************************)
(* An iteration among others, which may have read from its files before it *)
(* did: what it can still get.                                             *)
(***************************************************************************)

\* What anybody has read of the file at item k, if it is one.
ReadSoFar(b, start, pos, k) ==
    IF k \in 1..Len(Plan(b)) /\ IsFile(b, Plan(b)[k])
    THEN pos[FileAt(b, k)] - start[FileAt(b, k)]
    ELSE 0

\* An iteration at item k has got no more than the items before it give, and what
\* has been read of its own.
Room(b, start, run, pos, k, got) ==
    /\ k \in 1..(Len(Plan(b)) + 1)
    /\ got \in Seq(Units)
    /\ Len(got) <= Len(Upto(run, k - 1)) + ReadSoFar(b, start, pos, k)

\* No file is before its start, or beyond its end.
Forward(start, pos) == \A f \in Files : start[f] <= pos[f] /\ pos[f] <= FileLength

\* What is read of a file is no more than the file gives.
LEMMA ReadBounded ==
  ASSUME NEW b, NEW start, NEW run, Setting(b, start, run), NEW pos \in [Files -> Nat], Forward(start, pos), NEW k
  PROVE  /\ ReadSoFar(b, start, pos, k) \in Nat
         /\ k \in 1..Len(Plan(b)) => ReadSoFar(b, start, pos, k) <= Len(Piece(b, start, k))
<1>1. b \in Bodies /\ start \in [Files -> 0..FileLength]
  BY DEF Setting
<1>2. CASE k \in 1..Len(Plan(b)) /\ IsFile(b, Plan(b)[k])
  <2>1. PICK f : f = FileAt(b, k)
    OBVIOUS
  <2>2. f \in Files /\ start[f] \in Nat /\ pos[f] \in Nat /\ FileLength \in Nat
    BY <1>2, <2>1, FilePlaced
  <2>3. start[f] <= pos[f] /\ pos[f] <= FileLength
    BY <2>2 DEF Forward
  <2>4. Len(Piece(b, start, k)) = FileLength - start[f]
    BY <1>1, <1>2, <2>1, PiecesTyped, ZenonT(30)
  <2>5. ReadSoFar(b, start, pos, k) = pos[f] - start[f]
    BY <1>2, <2>1 DEF ReadSoFar
  <2> QED BY <2>2, <2>3, <2>4, <2>5
<1>3. CASE ~(k \in 1..Len(Plan(b)) /\ IsFile(b, Plan(b)[k]))
  <2>1. ReadSoFar(b, start, pos, k) = 0
    BY <1>3 DEF ReadSoFar
  <2>2. k \in 1..Len(Plan(b)) => Len(Piece(b, start, k)) \in Nat
    BY UptoGrows, LenProperties
  <2> QED BY <2>1, <2>2
<1> QED BY <1>2, <1>3

\* What the items up to each give only grows.
LEMMA TallyGrows ==
  ASSUME NEW b, NEW start, NEW run, Setting(b, start, run)
  PROVE  /\ \A k \in 0..Len(Plan(b)) : Len(Upto(run, k)) \in Nat
         /\ \A k \in 1..Len(Plan(b)) :
              /\ Len(Piece(b, start, k)) \in Nat
              /\ Len(Upto(run, k)) = Len(Upto(run, k - 1)) + Len(Piece(b, start, k))
<1>1. PICK n \in Nat : n = Len(Plan(b))
  BY PlanShape DEF Setting
<1>2. \A k \in 0..n : Len(Upto(run, k)) \in Nat
  BY <1>1, UptoGrows, LenProperties
<1>3. ASSUME NEW k \in 1..n
      PROVE  /\ Len(Piece(b, start, k)) \in Nat
             /\ Len(Upto(run, k)) = Len(Upto(run, k - 1)) + Len(Piece(b, start, k))
  <2>1. PICK x, y : x = Upto(run, k - 1) /\ y = Piece(b, start, k)
    OBVIOUS
  <2>2. k - 1 \in 0..n
    BY <1>1
  <2>3. x \in Seq(Units) /\ y \in Seq(Units) /\ Upto(run, k) = x \o y
    BY <1>1, <2>1, <2>2, UptoGrows
  <2>4. Len(x \o y) = Len(x) + Len(y) /\ Len(y) \in Nat
    BY <2>3, ConcatProperties, LenProperties
  <2> QED BY <2>1, <2>3, <2>4
<1> QED BY <1>1, <1>2, <1>3

\* So that a later item has no less before it.
LEMMA TallyClimbs ==
  ASSUME NEW b, NEW start, NEW run, Setting(b, start, run),
         NEW k \in 0..Len(Plan(b)), NEW j \in 0..Len(Plan(b)), k <= j
  PROVE  Len(Upto(run, k)) <= Len(Upto(run, j))
<1>1. PICK n \in Nat : n = Len(Plan(b))
  BY PlanShape DEF Setting
<1>2. PICK T : T = {d \in Nat : k + d \in 0..n => Len(Upto(run, k)) <= Len(Upto(run, k + d))}
  OBVIOUS
<1>3. k \in 0..n /\ j \in 0..n /\ k \in Nat /\ j \in Nat
  BY <1>1
<1>4. \A i \in 0..n : Len(Upto(run, i)) \in Nat
  BY <1>1, TallyGrows
<1>5. 0 \in T
  <2>1. k + 0 = k
    BY <1>3
  <2>2. Len(Upto(run, k)) <= Len(Upto(run, k))
    BY <1>3, <1>4
  <2> QED BY <1>2, <2>1, <2>2
<1>6. ASSUME NEW d \in T PROVE d + 1 \in T
  <2> SUFFICES ASSUME k + (d + 1) \in 0..n
               PROVE  Len(Upto(run, k)) <= Len(Upto(run, k + (d + 1)))
    BY <1>2
  <2>1. PICK i : i = k + (d + 1)
    OBVIOUS
  <2>2. d \in Nat
    BY <1>2
  <2>3. i \in 1..n /\ i - 1 = k + d /\ k + d \in 0..n
    BY <1>1, <1>3, <2>1, <2>2
  <2>4. Len(Upto(run, k)) <= Len(Upto(run, i - 1))
    BY <1>2, <2>3
  <2>5. Len(Piece(b, start, i)) \in Nat /\ Len(Upto(run, i)) = Len(Upto(run, i - 1)) + Len(Piece(b, start, i))
    BY <1>1, <2>3, TallyGrows
  <2>6. Len(Upto(run, k)) \in Nat /\ Len(Upto(run, i - 1)) \in Nat
    BY <1>3, <1>4, <2>3
  <2>7. Len(Upto(run, k)) <= Len(Upto(run, i))
    BY <2>4, <2>5, <2>6
  <2> QED BY <2>1, <2>7
<1>7. T = Nat
  <2>1. T \in SUBSET Nat
    BY <1>2
  <2> QED BY <1>5, <1>6, <2>1, Climb
<1>8. j - k \in T /\ k + (j - k) = j
  BY <1>3, <1>7
<1> QED BY <1>2, <1>3, <1>8

\* There is room for nothing.
LEMMA RoomStarts ==
  ASSUME NEW b, NEW start, NEW run, Setting(b, start, run), NEW pos \in [Files -> Nat], Forward(start, pos)
  PROVE  Room(b, start, run, pos, 1, <<>>)
<1>1. Len(Plan(b)) \in Nat
  BY PlanShape DEF Setting
<1>2. ReadSoFar(b, start, pos, 1) \in Nat
  BY ReadBounded
<1>3. Upto(run, 1 - 1) = <<>>
  BY DEF Upto
<1>4. PICK e, r : e = <<>> /\ r = ReadSoFar(b, start, pos, 1)
  OBVIOUS
<1>5. e \in Seq(Units) /\ Len(e) = 0
  BY <1>4
<1>6. Len(e) <= Len(e) + r
  BY <1>2, <1>4, <1>5
<1>7. 1 \in 1..(Len(Plan(b)) + 1)
  BY <1>1
<1> QED BY <1>3, <1>4, <1>5, <1>6, <1>7 DEF Room

\* Room at an item is room at every later one.
LEMMA RoomOnward ==
  ASSUME NEW b, NEW start, NEW run, Setting(b, start, run), NEW pos \in [Files -> Nat], Forward(start, pos),
         NEW k, NEW got, Room(b, start, run, pos, k, got), NEW i \in k..(Len(Plan(b)) + 1)
  PROVE  Room(b, start, run, pos, i, got)
<1>1. PICK n \in Nat : n = Len(Plan(b))
  BY PlanShape DEF Setting
<1>2. k \in 1..(n + 1) /\ i \in k..(n + 1)
  BY <1>1 DEF Room
<1>3. i = k \/ (k \in 1..n /\ i - 1 \in 0..n /\ k \in 0..n /\ k <= i - 1)
  BY <1>1, <1>2
<1>4. CASE k \in 1..n /\ i - 1 \in 0..n /\ k \in 0..n /\ k <= i - 1
  <2>1. PICK l, x, y, z, p : /\ l = Len(got) /\ x = Len(Upto(run, k - 1)) /\ y = Len(Upto(run, k))
                             /\ z = Len(Upto(run, i - 1)) /\ p = Len(Piece(b, start, k))
    OBVIOUS
  <2>2. PICK r, s : r = ReadSoFar(b, start, pos, k) /\ s = ReadSoFar(b, start, pos, i)
    OBVIOUS
  <2>3. r \in Nat /\ s \in Nat /\ r <= p
    BY <1>1, <1>4, <2>1, <2>2, ReadBounded
  <2>4. y <= z
    BY <1>1, <1>4, <2>1, TallyClimbs
  <2>5. p \in Nat /\ y = x + p
    BY <1>1, <1>4, <2>1, TallyGrows
  <2>6. x \in Nat /\ z \in Nat
    <3>1. k - 1 \in 0..n
      BY <1>1, <1>4
    <3> QED BY <1>1, <1>4, <2>1, <3>1, TallyGrows
  <2>7. got \in Seq(Units) /\ l <= x + r
    BY <2>1, <2>2 DEF Room
  <2>8. l \in Nat
    BY <2>1, <2>7, LenProperties
  <2>9. l <= z + s
    BY <2>3, <2>4, <2>5, <2>6, <2>7, <2>8
  <2>10. i \in 1..(n + 1)
    BY <1>1, <1>2
  <2> QED BY <1>1, <2>1, <2>2, <2>7, <2>9, <2>10 DEF Room
<1> QED BY <1>3, <1>4

\* An item that is not a file takes up no more than its own.
LEMMA RoomTakes ==
  ASSUME NEW b, NEW start, NEW run, Setting(b, start, run), NEW pos \in [Files -> Nat], Forward(start, pos),
         NEW k \in 1..Len(Plan(b)), NEW got, Room(b, start, run, pos, k, got), ~IsFile(b, Plan(b)[k])
  PROVE  Room(b, start, run, pos, k + 1, Append(got, Plan(b)[k]))
<1>1. PICK n \in Nat : n = Len(Plan(b))
  BY PlanShape DEF Setting
<1>2. b \in Bodies /\ start \in [Files -> 0..FileLength]
  BY DEF Setting
<1>3. PICK j, e, s : j = k + 1 /\ e = Append(got, Plan(b)[k]) /\ s = ReadSoFar(b, start, pos, j)
  OBVIOUS
<1>4. j \in 1..(n + 1) /\ j - 1 = k /\ k \in 1..n
  BY <1>1, <1>3
<1>5. got \in Seq(Units) /\ Plan(b)[k] \in Units
  BY <1>2, PlanShape DEF Room
<1>6. e \in Seq(Units) /\ Len(e) = Len(got) + 1 /\ Len(got) \in Nat
  BY <1>3, <1>5, AppendProperties, LenProperties
<1>7. Len(got) <= Len(Upto(run, k - 1)) + 0
  BY DEF Room, ReadSoFar
<1>8. Len(Piece(b, start, k)) = 1
  BY <1>2, PiecesTyped, ZenonT(30)
<1>9. PICK x, y : x = Len(Upto(run, k - 1)) /\ y = Len(Upto(run, k))
  OBVIOUS
<1>10. x \in Nat /\ y = x + 1
  <2>1. k - 1 \in 0..n
    BY <1>1, <1>4
  <2> QED BY <1>1, <1>4, <1>8, <1>9, <2>1, TallyGrows
<1>11. s \in Nat
  BY <1>3, ReadBounded
<1>12. Len(e) <= y + s
  BY <1>6, <1>7, <1>9, <1>10, <1>11
<1>13. Len(e) <= Len(Upto(run, j - 1)) + s
  BY <1>4, <1>9, <1>12
<1> QED BY <1>1, <1>3, <1>4, <1>6, <1>13 DEF Room

\* Nor does a chunk of a file.
LEMMA RoomReads ==
  ASSUME NEW b, NEW start, NEW run, Setting(b, start, run), NEW pos \in [Files -> Nat],
         NEW k \in 1..Len(Plan(b)), NEW got, Room(b, start, run, pos, k, got), IsFile(b, Plan(b)[k]),
         NEW f, f = FileAt(b, k), Forward(start, pos)
  PROVE  Room(b, start, run, [pos EXCEPT ![f] = @ + 1], k, Append(got, <<f, pos[f]>>))
<1>1. PICK after, e, m, p : /\ after = [pos EXCEPT ![f] = @ + 1] /\ e = Append(got, <<f, pos[f]>>)
                            /\ m = start[f] /\ p = pos[f]
  OBVIOUS
<1>2. f \in Files /\ m \in Nat /\ p \in Nat
  BY <1>1, FilePlaced
<1>3. after[f] = p + 1
  BY <1>1, <1>2
<1>4. ReadSoFar(b, start, pos, k) = p - m /\ ReadSoFar(b, start, after, k) = p + 1 - m
  <2>1. ASSUME NEW q PROVE ReadSoFar(b, start, q, k) = q[f] - start[f]
    BY DEF ReadSoFar
  <2>2. ReadSoFar(b, start, pos, k) = p - m
    BY <1>1, <2>1
  <2>3. ReadSoFar(b, start, after, k) = after[f] - m
    <3>1. m = start[f]
      BY <1>1
    <3>2. ReadSoFar(b, start, after, k) = after[f] - start[f]
      BY <2>1
    <3> QED BY <3>1, <3>2
  <2>4. PICK a : a = after[f]
    OBVIOUS
  <2>5. ReadSoFar(b, start, after, k) = a - m /\ a = p + 1
    BY <1>3, <2>3, <2>4
  <2>6. a - m = p + 1 - m
    BY <1>2, <2>5
  <2> QED BY <2>2, <2>5, <2>6
<1>5. got \in Seq(Units) /\ <<f, pos[f]>> \in Units
  BY <1>1, <1>2 DEF Room, Units
<1>6. e \in Seq(Units) /\ Len(e) = Len(got) + 1 /\ Len(got) \in Nat
  BY <1>1, <1>5, AppendProperties, LenProperties
<1>7. PICK x : x = Len(Upto(run, k - 1))
  OBVIOUS
<1>8. x \in Nat
  <2>1. k - 1 \in 0..Len(Plan(b))
    BY PlanShape DEF Setting
  <2> QED BY <1>7, <2>1, TallyGrows
<1>9. Len(got) <= x + (p - m)
  BY <1>4, <1>7 DEF Room
<1>10. Len(e) <= x + (p + 1 - m)
  BY <1>2, <1>6, <1>8, <1>9
<1>11. Len(e) <= Len(Upto(run, k - 1)) + ReadSoFar(b, start, after, k)
  BY <1>4, <1>7, <1>10
<1>12. k \in 1..(Len(Plan(b)) + 1)
  BY DEF Room
<1> QED BY <1>1, <1>6, <1>11, <1>12 DEF Room

\* What others read makes more room.
LEMMA RoomLater ==
  ASSUME NEW b, NEW start, NEW run, Setting(b, start, run), NEW pos \in [Files -> Nat], NEW after \in [Files -> Nat],
         \A f \in Files : pos[f] <= after[f],
         NEW k, NEW got, Room(b, start, run, pos, k, got)
  PROVE  Room(b, start, run, after, k, got)
<1>1. PICK x, l, r, s : /\ x = Len(Upto(run, k - 1)) /\ l = Len(got)
                        /\ r = ReadSoFar(b, start, pos, k) /\ s = ReadSoFar(b, start, after, k)
  OBVIOUS
<1>2. k \in 1..(Len(Plan(b)) + 1) /\ got \in Seq(Units) /\ l <= x + r
  BY <1>1 DEF Room
<1>3. l \in Nat /\ x \in Nat
  <2>1. k - 1 \in 0..Len(Plan(b))
    BY <1>2, PlanShape DEF Setting
  <2> QED BY <1>1, <1>2, <2>1, TallyGrows, LenProperties
<1>4. r \in Int /\ s \in Int /\ r <= s
  <2>1. CASE k \in 1..Len(Plan(b)) /\ IsFile(b, Plan(b)[k])
    <3>1. PICK f, m, p, q : f = FileAt(b, k) /\ m = start[f] /\ p = pos[f] /\ q = after[f]
      OBVIOUS
    <3>2. f \in Files /\ m \in Nat /\ p \in Nat
      BY <2>1, <3>1, FilePlaced
    <3>3. q \in Nat /\ p <= q
      BY <3>1, <3>2
    <3>4. r = p - m /\ s = q - m
      BY <1>1, <2>1, <3>1 DEF ReadSoFar
    <3> QED BY <3>2, <3>3, <3>4
  <2>2. CASE ~(k \in 1..Len(Plan(b)) /\ IsFile(b, Plan(b)[k]))
    BY <1>1, <2>2 DEF ReadSoFar
  <2> QED BY <2>1, <2>2
<1>5. l <= x + s
  BY <1>2, <1>3, <1>4
<1> QED BY <1>1, <1>2, <1>5 DEF Room

\* In all there is room for the content.
LEMMA RoomAll ==
  ASSUME NEW b, NEW start, NEW run, Setting(b, start, run), NEW pos \in [Files -> Nat], Forward(start, pos),
         NEW k, NEW got, Room(b, start, run, pos, k, got)
  PROVE  Len(got) \in Nat /\ Len(got) <= Len(run[Len(Plan(b))])
<1>1. PICK n \in Nat : n = Len(Plan(b)) /\ n # 0
  BY PlanShape DEF Setting
<1>2. PICK j : j = n + 1
  OBVIOUS
<1>3. j \in k..(n + 1) /\ j - 1 = n /\ ~(j \in 1..n)
  BY <1>1, <1>2 DEF Room
<1>4. Room(b, start, run, pos, j, got)
  BY <1>1, <1>3, RoomOnward
<1>5. ReadSoFar(b, start, pos, j) = 0 /\ Upto(run, j - 1) = run[n]
  BY <1>1, <1>3 DEF ReadSoFar, Upto
<1>6. got \in Seq(Units) /\ Len(got) <= Len(run[n]) + 0
  BY <1>4, <1>5 DEF Room
<1>7. Len(run[n]) \in Nat
  <2>1. n \in 0..n /\ Upto(run, n) = run[n]
    BY <1>1 DEF Upto
  <2> QED BY <1>1, <2>1, TallyGrows
<1> QED BY <1>1, <1>6, <1>7, LenProperties

\* There is a first of the items ahead.
LEMMA FirstAhead ==
  ASSUME NEW b \in Bodies, NEW pos, NEW k \in 1..(Len(Plan(b)) + 1), AheadOf(b, pos, k) # {}
  PROVE  /\ Min(AheadOf(b, pos, k)) \in 1..Len(Plan(b)) /\ Min(AheadOf(b, pos, k)) \in k..(Len(Plan(b)) + 1)
         /\ Min(AheadOf(b, pos, k)) \in AheadOf(b, pos, k)
<1>1. PICK n, a : n = Len(Plan(b)) /\ a = AheadOf(b, pos, k)
  OBVIOUS
<1>2. n \in Nat /\ k \in 1..(n + 1)
  BY <1>1, PlanShape
<1>3. a \in SUBSET (k..n) /\ a # {}
  BY <1>1 DEF AheadOf
<1>4. \A e \in a : e \in Nat /\ e \in 1..n /\ e \in k..(n + 1)
  BY <1>2, <1>3
<1>5. PICK m \in a : \A e \in a : m <= e
  BY <1>3, <1>4, Least
<1>6. Min(a) \in a
  BY <1>5 DEF Min
<1> QED BY <1>1, <1>4, <1>6

-----------------------------------------------------------------------------

(***************************************************************************)
(* Every upload carries the content that there was.                        *)
(***************************************************************************)

\* What an upload's being exact depends on.
Clean == ~touched /\ ~Muddled /\ ~SharedFile

\* The request was built with its files at start; its items give run.
BuiltAt(start, run) ==
    /\ Setting(body, start, run)
    /\ intended = run[Len(Plan(body))]
    /\ framing \in {None, Len(intended)}

\* Everything read since is what there was then.
Carried(start, run) ==
    /\ sent \in {None, intended}
    /\ content \in {None, intended}
    /\ begun = 0 => at = start
    /\ \A u \in Users : Busy(u) => Along(body, start, run, at, doing[u].item, doing[u].got)

\* Nothing that was sent, kept, or is being iterated is more than there was then.
Within(start, run) ==
    /\ Forward(start, at)
    /\ sent # None => Len(sent) \in Nat /\ Len(sent) <= Len(intended)
    /\ content # None => Len(content) \in Nat /\ Len(content) <= Len(intended)
    /\ \A u \in Users : Busy(u) => Room(body, start, run, at, doing[u].item, doing[u].got)

\* The one for as long as nobody else has used the files, and they are read but
\* once; the other for as long as nobody else has used them.
ExactInv ==
    /\ FreezeInv
    /\ at \in [Files -> Nat]
    /\ \E start, run :
         /\ BuiltAt(start, run)
         /\ Clean => Carried(start, run)
         /\ ~touched => Within(start, run)

\* A request is built.
LEMMA ExactStarts == UploadInit => ExactInv
<1> SUFFICES ASSUME UploadInit PROVE ExactInv
  OBVIOUS
<1>1. FreezeInv
  BY FreezeStarts
<1>2. body \in Bodies /\ at \in [Files -> 0..FileLength] /\ intended = ContentOf(body, at) /\ framing = Framing(body, at)
  BY DEF UploadInit
<1>3. at \in [Files -> Nat]
  <2>1. \A f \in Files : at[f] \in Nat
    BY <1>2, FilesAssumption
  <2> QED BY <1>2, <2>1
<1>4. PICK run : Setting(body, at, run) /\ intended = run[Len(Plan(body))]
  BY <1>2, ContentIs
<1>5. framing \in {None, Len(intended)}
  <2>1. Length(body, at) = Len(intended)
    BY <1>4, LengthTrue
  <2> QED BY <1>2, <2>1 DEF Framing
<1>6. sent \in {None, intended} /\ content \in {None, intended}
  BY DEF UploadInit
<1>7. \A u \in Users : ~Busy(u)
  BY DEF UploadInit, Busy, Idle
<1>8. BuiltAt(at, run) /\ Carried(at, run)
  BY <1>4, <1>5, <1>6, <1>7 DEF BuiltAt, Carried
<1>9. Len(intended) \in Nat
  <2>1. Len(Plan(body)) \in 0..Len(Plan(body)) /\ Len(Plan(body)) # 0
    BY <1>2, PlanShape
  <2>2. Upto(run, Len(Plan(body))) = intended
    BY <1>4, <2>1 DEF Upto
  <2> QED BY <1>4, <2>1, <2>2, TallyGrows
<1>10. Forward(at, at)
  BY <1>2, FilesAssumption DEF Forward
<1>11. \A x : x \in {None, intended} => (x # None => Len(x) \in Nat /\ Len(x) <= Len(intended))
  BY <1>9
<1>12. Within(at, run)
  BY <1>6, <1>7, <1>10, <1>11 DEF Within
<1> QED BY <1>1, <1>3, <1>8, <1>12 DEF ExactInv

\* What no step changes, and that nothing is clean again.
LEMMA BuiltOnce ==
  ASSUME FreezeInv, [UploadNext]_uploadVars
  PROVE  /\ body' = body /\ framing' = framing /\ intended' = intended
         /\ Clean' => Clean
         /\ touched => touched'
<1>1. /\ body' = body /\ framing' = framing /\ intended' = intended
      /\ begun' \in {begun, begun + 1} /\ (touched => touched')
  <2>1. CASE \E u \in Users : Begin(u, "send") \/ Begin(u, "read")
    BY <2>1 DEF Begin
  <2>2. CASE \E u \in Users : Pull(u)
    BY <2>2 DEF Pull
  <2>3. CASE \E u \in Users : Refused(u) \/ Uploaded(u) \/ ReadDone(u) \/ Break(u)
    BY <2>3 DEF Refused, Uploaded, ReadDone, Break
  <2>4. CASE SendBytes \/ Unused \/ (\E f \in Files : Touch(f)) \/ UNCHANGED uploadVars
    BY <2>4 DEF SendBytes, Unused, Touch, uploadVars
  <2> QED BY <2>1, <2>2, <2>3, <2>4 DEF UploadNext
<1>2. begun > 1 => begun' > 1
  BY <1>1 DEF FreezeInv
<1> QED BY <1>1, <1>2 DEF Clean, Muddled, SharedFile

\* Two iterations are too many, where there are files.
LEMMA NoSecond ==
  ASSUME FreezeInv, ~Muddled, FilesOf(body) # {}
  PROVE  begun <= 1
<1>1. body \in Bodies /\ begun \in Nat
  BY DEF FreezeInv
<1>2. body.form \in {"iterable", "multipart"}
  BY <1>1, PlanTyped
<1> QED BY <1>1, <1>2 DEF FreezeInv, Muddled

\* What an iteration that begins finds.
LEMMA CarriedBegins ==
  ASSUME FreezeInv, at \in [Files -> Nat], NEW start, NEW run, BuiltAt(start, run), Carried(start, run),
         NEW u \in Users, NEW what, Begin(u, what), ~Muddled'
  PROVE  Carried(start, run)'
<1>1. /\ body' = body /\ sent' = sent /\ intended' = intended /\ content' = content /\ at' = at /\ begun' = begun + 1
      /\ consumed \/ body.form # "iterable" \/ begun = 0
      /\ body.form = "iterable" => ~consumed
      /\ doing' = [doing EXCEPT ![u] = [Idle EXCEPT !.for = what]]
  BY DEF Begin, FreezeInv, Consumed
<1>2. Setting(body, start, run) /\ body \in Bodies /\ begun \in Nat
  BY DEF BuiltAt, FreezeInv
<1>3. doing = [v \in Users |-> [for |-> doing[v].for, item |-> doing[v].item, got |-> doing[v].got]]
  BY DEF FreezeInv
<1>4. \A v \in Users : doing'[v] = IF v = u THEN [for |-> what, item |-> 1, got |-> <<>>] ELSE doing[v]
  BY <1>1, <1>3 DEF Idle
<1>5. FilesOf(body) # {} => begun = 0
  <2> SUFFICES ASSUME FilesOf(body) # {}, begun # 0 PROVE FALSE
    OBVIOUS
  <2>1. ~(body.form = "multipart")
    <3>1. begun' > 1
      BY <1>1, <1>2
    <3> QED BY <1>1, <3>1 DEF Muddled
  <2>2. body.form = "iterable"
    BY <1>2, <2>1, PlanTyped
  <2>3. begun <= 1 /\ (begun = 1 => consumed)
    BY <2>2 DEF FreezeInv
  <2> QED BY <1>1, <1>2, <2>2, <2>3
<1>6. Along(body, start, run, at, 1, <<>>)
  <2>1. ASSUME NEW i \in 1..Len(Plan(body)), IsFile(body, Plan(body)[i])
        PROVE  at[FileAt(body, i)] = start[FileAt(body, i)]
    <3>1. FilesOf(body) # {}
      BY <1>2, <2>1, PlanTyped
    <3> QED BY <1>5, <3>1 DEF Carried
  <2> QED BY <1>2, <2>1, BeginsAlong
<1>7. ASSUME NEW v \in Users, Busy(v)'
      PROVE  Along(body, start, run, at, doing'[v].item, doing'[v].got)
  <2>1. CASE v = u
    <3>1. doing'[v] = [for |-> what, item |-> 1, got |-> <<>>]
      BY <1>4, <2>1
    <3>2. doing'[v].item = 1 /\ doing'[v].got = <<>>
      BY <3>1
    <3> QED BY <1>6, <3>2
  <2>2. CASE v # u
    <3>1. doing'[v] = doing[v] /\ Busy(v)
      BY <1>4, <1>7, <2>2 DEF Busy
    <3> QED BY <3>1 DEF Carried
  <2> QED BY <2>1, <2>2
<1>8. begun' # 0
  BY <1>1, <1>2
<1> QED BY <1>1, <1>7, <1>8 DEF Carried

SetTo(e, d, u, k, g) == e = [d EXCEPT ![u].item = k, ![u].got = g]

\* An iteration is at another item, or has got more; the others are as they were.
LEMMA Sets ==
  ASSUME NEW d, Shaped(d), NEW u \in Users, NEW k, NEW g, NEW e, SetTo(e, d, u, k, g)
  PROVE  /\ \A v \in Users \ {u} : e[v] = d[v]
         /\ e[u].item = k /\ e[u].got = g
<1>1. e = [v \in Users |-> IF v = u THEN [for |-> d[u].for, item |-> k, got |-> g] ELSE d[v]]
  <2>1. d = [v \in Users |-> [for |-> d[v].for, item |-> d[v].item, got |-> d[v].got]]
    BY DEF Shaped
  <2>2. PICK a : a = [d EXCEPT ![u].item = k]
    OBVIOUS
  <2>3. a = [v \in Users |-> IF v = u THEN [for |-> d[u].for, item |-> k, got |-> d[u].got] ELSE d[v]]
    <3>1. [d[u] EXCEPT !.item = k] = [for |-> d[u].for, item |-> k, got |-> d[u].got]
      BY <2>1
    <3> QED BY <2>1, <2>2, <3>1
  <2>4. [a[u] EXCEPT !.got = g] = [for |-> d[u].for, item |-> k, got |-> g]
    BY <2>3
  <2>5. e = [a EXCEPT ![u].got = g]
    BY <2>2 DEF SetTo
  <2> QED BY <2>3, <2>4, <2>5
<1>2. e[u] = [for |-> d[u].for, item |-> k, got |-> g]
  BY <1>1
<1> QED BY <1>1, <1>2

\* What an iteration that goes on gets.
LEMMA CarriedPulls ==
  ASSUME FreezeInv, at \in [Files -> Nat], NEW start, NEW run, BuiltAt(start, run), Carried(start, run),
         NEW u \in Users, Pull(u), Clean
  PROVE  Carried(start, run)' /\ at' \in [Files -> Nat]
<1>1. /\ body' = body /\ sent' = sent /\ intended' = intended /\ content' = content /\ begun' = begun
      /\ Busy(u) /\ Ahead(u) # {}
  BY DEF Pull, Busy
<1>2. Setting(body, start, run) /\ body \in Bodies /\ begun \in Nat
  BY DEF BuiltAt, FreezeInv
<1>3. PICK d : d = doing
  OBVIOUS
<1>4. d = [v \in Users |-> [for |-> d[v].for, item |-> d[v].item, got |-> d[v].got]] /\ Shaped(d)
  BY <1>3 DEF FreezeInv, Shaped
<1>5. Along(body, start, run, at, d[u].item, d[u].got)
  BY <1>1, <1>3 DEF Carried
<1>6. Ahead(u) = AheadOf(body, at, d[u].item)
  BY <1>3 DEF Ahead, AheadOf, FileAt
<1>7. PICK i \in 1..Len(Plan(body)) :
        /\ Min(Ahead(u)) = i
        /\ Along(body, start, run, at, i, d[u].got)
        /\ IsFile(body, Plan(body)[i]) => at[FileAt(body, i)] < FileLength
  BY <1>1, <1>2, <1>5, <1>6, Onward
<1>8. PICK f : f = FileAt(body, i)
  OBVIOUS
<1>9. \/ /\ IsFile(body, Plan(body)[i])
         /\ doing' = [d EXCEPT ![u].item = i, ![u].got = Append(@, <<f, at[f]>>)]
         /\ at' = [at EXCEPT ![f] = @ + 1]
      \/ /\ ~IsFile(body, Plan(body)[i])
         /\ doing' = [d EXCEPT ![u].item = i + 1, ![u].got = Append(@, Plan(body)[i])]
         /\ at' = at
  BY <1>3, <1>7, <1>8 DEF Pull, FileAt
<1>10. ASSUME NEW k, NEW g, SetTo(doing', d, u, k, g)
       PROVE  /\ \A v \in Users \ {u} : doing'[v] = doing[v]
              /\ doing'[u].item = k /\ doing'[u].got = g
  BY <1>3, <1>4, <1>10, Sets
<1>11. CASE IsFile(body, Plan(body)[i])
  <2>1. PICK after, got : after = [at EXCEPT ![f] = @ + 1] /\ got = Append(d[u].got, <<f, at[f]>>)
    OBVIOUS
  <2>2. at' = after /\ SetTo(doing', d, u, i, got)
    BY <1>9, <1>11, <2>1 DEF SetTo
  <2>3. f \in Files /\ at[f] < FileLength
    BY <1>2, <1>7, <1>8, <1>11, PlanShape
  <2>4. Along(body, start, run, after, i, got)
    <3>1. \A h \in Files : body.parts # <<h, h>>
      BY DEF Clean, SharedFile
    <3> QED BY <1>2, <1>7, <1>8, <1>11, <2>1, <2>3, <3>1, ReadsFile
  <2>5. FilesOf(body) # {}
    BY <1>2, <1>11, PlanTyped
  <2>6. begun <= 1
    BY <2>5, NoSecond DEF Clean
  <2>7. begun # 0 /\ \A v \in Users : Busy(v) => v = u
    BY <1>1, <2>6 DEF FreezeInv
  <2>8. ASSUME NEW v \in Users, Busy(v)'
        PROVE  Along(body, start, run, after, doing'[v].item, doing'[v].got)
    <3>1. v = u
      <4> SUFFICES ASSUME v # u PROVE FALSE
        OBVIOUS
      <4>1. doing'[v] = doing[v]
        BY <1>10, <2>2
      <4>2. Busy(v)
        BY <2>8, <4>1 DEF Busy
      <4> QED BY <2>7, <4>2
    <3>2. doing'[u].item = i /\ doing'[u].got = got
      BY <1>10, <2>2
    <3> QED BY <2>4, <3>1, <3>2
  <2>9. after \in [Files -> Nat]
    BY <2>1, <2>3
  <2> QED BY <1>1, <2>2, <2>7, <2>8, <2>9 DEF Carried
<1>12. CASE ~IsFile(body, Plan(body)[i])
  <2>1. PICK k, got : k = i + 1 /\ got = Append(d[u].got, Plan(body)[i])
    OBVIOUS
  <2>2. at' = at /\ SetTo(doing', d, u, k, got)
    BY <1>9, <1>12, <2>1 DEF SetTo
  <2>3. Along(body, start, run, at, k, got)
    BY <1>2, <1>7, <1>12, <2>1, TakesItem
  <2>4. ASSUME NEW v \in Users, Busy(v)'
        PROVE  Along(body, start, run, at, doing'[v].item, doing'[v].got)
    <3>1. CASE v = u
      <4>1. doing'[u].item = k /\ doing'[u].got = got
        BY <1>10, <2>2
      <4> QED BY <2>3, <3>1, <4>1
    <3>2. CASE v # u
      <4>1. doing'[v] = doing[v]
        BY <1>10, <2>2, <3>2
      <4>2. Busy(v)
        BY <2>4, <4>1 DEF Busy
      <4> QED BY <4>1, <4>2 DEF Carried
    <3> QED BY <3>1, <3>2
  <2> QED BY <1>1, <2>2, <2>4 DEF Carried
<1> QED BY <1>11, <1>12

\* What an iteration that is over has got.
LEMMA GotAll ==
  ASSUME NEW start, NEW run, BuiltAt(start, run), Carried(start, run), at \in [Files -> Nat],
         NEW u \in Users, Busy(u), Ahead(u) = {}
  PROVE  doing[u].got = intended
<1>1. PICK k, got : k = doing[u].item /\ got = doing[u].got
  OBVIOUS
<1>2. Along(body, start, run, at, k, got)
  BY <1>1 DEF Carried
<1>3. AheadOf(body, at, k) = {}
  BY <1>1 DEF Ahead, AheadOf, FileAt
<1>4. Setting(body, start, run)
  BY DEF BuiltAt
<1>5. got = run[Len(Plan(body))]
  BY <1>2, <1>3, <1>4, AllGot
<1> QED BY <1>1, <1>5 DEF BuiltAt

\* What an iteration that ends, or breaks off, leaves.
LEMMA CarriedStops ==
  ASSUME FreezeInv, at \in [Files -> Nat], NEW start, NEW run, BuiltAt(start, run), Carried(start, run),
         NEW u \in Users, Uploaded(u) \/ ReadDone(u) \/ Break(u)
  PROVE  Carried(start, run)'
<1>1. /\ body' = body /\ intended' = intended /\ at' = at /\ begun' = begun /\ Busy(u) /\ Stop(u)
      /\ sent' \in {sent, doing[u].got} /\ content' \in {content, doing[u].got}
      /\ Ahead(u) = {} \/ (sent' = sent /\ content' = content)
  BY DEF Uploaded, ReadDone, Break, Busy
<1>2. Ahead(u) = {} => doing[u].got = intended
  BY <1>1, GotAll
<1>3. sent' \in {None, intended} /\ content' \in {None, intended}
  BY <1>1, <1>2 DEF Carried
<1>4. \A v \in Users : doing'[v] = IF v = u THEN Idle ELSE doing[v]
  BY <1>1 DEF Stop, FreezeInv
<1>5. \A v \in Users : Busy(v)' => Busy(v) /\ doing'[v] = doing[v]
  BY <1>4 DEF Busy, Idle
<1> QED BY <1>1, <1>3, <1>5 DEF Carried

\* What an iteration that goes on gets has room, and leaves room to the others.
LEMMA WithinPulls ==
  ASSUME FreezeInv, at \in [Files -> Nat], NEW start, NEW run, BuiltAt(start, run), Within(start, run),
         NEW u \in Users, Pull(u)
  PROVE  Within(start, run)'
<1>1. /\ body' = body /\ sent' = sent /\ intended' = intended /\ content' = content
      /\ Busy(u) /\ Ahead(u) # {}
  BY DEF Pull, Busy
<1>2. Setting(body, start, run) /\ body \in Bodies /\ Forward(start, at)
  BY DEF BuiltAt, FreezeInv, Within
<1>3. PICK d : d = doing
  OBVIOUS
<1>4. Shaped(d)
  BY <1>3 DEF FreezeInv, Shaped
<1>5. Room(body, start, run, at, d[u].item, d[u].got)
  BY <1>1, <1>3 DEF Within
<1>6. Ahead(u) = AheadOf(body, at, d[u].item) /\ d[u].item \in 1..(Len(Plan(body)) + 1)
  BY <1>3, <1>5 DEF Ahead, AheadOf, FileAt, Room
<1>7. PICK i : i = Min(Ahead(u))
  OBVIOUS
<1>8. i \in 1..Len(Plan(body)) /\ i \in d[u].item..(Len(Plan(body)) + 1) /\ i \in AheadOf(body, at, d[u].item)
  BY <1>1, <1>2, <1>6, <1>7, FirstAhead
<1>9. Room(body, start, run, at, i, d[u].got)
  BY <1>2, <1>5, <1>8, RoomOnward
<1>10. PICK f : f = FileAt(body, i)
  OBVIOUS
<1>11. \/ /\ IsFile(body, Plan(body)[i])
          /\ doing' = [d EXCEPT ![u].item = i, ![u].got = Append(@, <<f, at[f]>>)]
          /\ at' = [at EXCEPT ![f] = @ + 1]
       \/ /\ ~IsFile(body, Plan(body)[i])
          /\ doing' = [d EXCEPT ![u].item = i + 1, ![u].got = Append(@, Plan(body)[i])]
          /\ at' = at
  BY <1>3, <1>7, <1>10 DEF Pull, FileAt
<1>12. ASSUME NEW after \in [Files -> Nat], NEW k, NEW g, SetTo(doing', d, u, k, g), at' = after,
              Forward(start, after), \A h \in Files : at[h] <= after[h], Room(body, start, run, after, k, g)
       PROVE  Within(start, run)'
  <2>1. /\ \A v \in Users \ {u} : doing'[v] = doing[v]
        /\ doing'[u].item = k /\ doing'[u].got = g
    BY <1>3, <1>4, <1>12, Sets
  <2>2. ASSUME NEW v \in Users, Busy(v)'
        PROVE  Room(body, start, run, after, doing'[v].item, doing'[v].got)
    <3>1. CASE v = u
      BY <1>12, <2>1, <3>1
    <3>2. CASE v # u
      <4>1. doing'[v] = doing[v] /\ Busy(v)
        BY <2>1, <2>2, <3>2 DEF Busy
      <4>2. Room(body, start, run, at, doing[v].item, doing[v].got)
        BY <4>1 DEF Within
      <4> QED BY <1>2, <1>12, <4>1, <4>2, RoomLater
    <3> QED BY <3>1, <3>2
  <2> QED BY <1>1, <1>12, <2>2 DEF Within
<1>13. CASE IsFile(body, Plan(body)[i])
  <2>1. PICK after, got : after = [at EXCEPT ![f] = @ + 1] /\ got = Append(d[u].got, <<f, at[f]>>)
    OBVIOUS
  <2>2. at' = after /\ SetTo(doing', d, u, i, got)
    BY <1>11, <1>13, <2>1 DEF SetTo
  <2>3. f \in Files /\ at[f] < FileLength
    BY <1>2, <1>8, <1>10, <1>13, PlanShape DEF AheadOf
  <2>4. start[f] \in Nat /\ at[f] \in Nat /\ FileLength \in Nat
    BY <1>2, <1>8, <1>10, <1>13, FilePlaced
  <2>5. after \in [Files -> Nat] /\ \A h \in Files : after[h] = IF h = f THEN at[f] + 1 ELSE at[h]
    BY <2>1, <2>3
  <2>6. Forward(start, after)
    <3>1. ASSUME NEW h \in Files PROVE start[h] <= after[h] /\ after[h] <= FileLength
      <4>1. start[h] <= at[h] /\ at[h] <= FileLength
        BY <1>2 DEF Forward
      <4>2. CASE h = f
        <5>1. after[h] = at[f] + 1 /\ start[f] <= at[f]
          BY <2>5, <4>1, <4>2
        <5> QED BY <2>3, <2>4, <4>2, <5>1
      <4> QED BY <2>5, <4>1, <4>2
    <3> QED BY <3>1 DEF Forward
  <2>7. \A h \in Files : at[h] <= after[h]
    <3>1. ASSUME NEW h \in Files PROVE at[h] <= after[h]
      <4>1. at[h] \in Nat
        OBVIOUS
      <4> QED BY <2>5, <4>1
    <3> QED BY <3>1
  <2>8. Room(body, start, run, after, i, got)
    BY <1>2, <1>8, <1>9, <1>10, <1>13, <2>1, RoomReads
  <2> QED BY <1>12, <2>2, <2>5, <2>6, <2>7, <2>8
<1>14. CASE ~IsFile(body, Plan(body)[i])
  <2>1. PICK k, got : k = i + 1 /\ got = Append(d[u].got, Plan(body)[i])
    OBVIOUS
  <2>2. at' = at /\ SetTo(doing', d, u, k, got)
    BY <1>11, <1>14, <2>1 DEF SetTo
  <2>3. Room(body, start, run, at, k, got)
    BY <1>2, <1>8, <1>9, <1>14, <2>1, RoomTakes
  <2>4. \A h \in Files : at[h] <= at[h]
    OBVIOUS
  <2> QED BY <1>2, <1>12, <2>2, <2>3, <2>4
<1> QED BY <1>11, <1>13, <1>14

\* What is sent, or kept, when an iteration ends has had room.
LEMMA WithinStops ==
  ASSUME FreezeInv, at \in [Files -> Nat], NEW start, NEW run, BuiltAt(start, run), Within(start, run),
         NEW u \in Users, Uploaded(u) \/ ReadDone(u) \/ Break(u)
  PROVE  Within(start, run)'
<1>1. /\ body' = body /\ intended' = intended /\ at' = at /\ Busy(u) /\ Stop(u)
      /\ sent' \in {sent, doing[u].got} /\ content' \in {content, doing[u].got}
  BY DEF Uploaded, ReadDone, Break, Busy
<1>2. PICK k, got : k = doing[u].item /\ got = doing[u].got
  OBVIOUS
<1>3. Setting(body, start, run) /\ Forward(start, at) /\ Room(body, start, run, at, k, got)
  BY <1>1, <1>2 DEF BuiltAt, Within
<1>4. Len(got) \in Nat /\ Len(got) <= Len(run[Len(Plan(body))])
  BY <1>3, RoomAll
<1>5. Len(got) \in Nat /\ Len(got) <= Len(intended)
  BY <1>4 DEF BuiltAt
<1>6. sent' # None => Len(sent') \in Nat /\ Len(sent') <= Len(intended)
  BY <1>1, <1>2, <1>5 DEF Within
<1>7. content' # None => Len(content') \in Nat /\ Len(content') <= Len(intended)
  BY <1>1, <1>2, <1>5 DEF Within
<1>8. \A v \in Users : Busy(v)' => Busy(v) /\ doing'[v] = doing[v]
  <2>1. \A v \in Users : doing'[v] = IF v = u THEN Idle ELSE doing[v]
    BY <1>1 DEF Stop, FreezeInv
  <2> QED BY <2>1 DEF Busy, Idle
<1> QED BY <1>1, <1>3, <1>6, <1>7, <1>8 DEF Within

\* Nobody else having used the files, every step keeps within what there was.
LEMMA WithinKept ==
  ASSUME FreezeInv, at \in [Files -> Nat], NEW start, NEW run, BuiltAt(start, run), Within(start, run),
         [UploadNext]_uploadVars, ~touched'
  PROVE  Within(start, run)'
<1>1. CASE SendBytes
  BY <1>1 DEF SendBytes, Replayable, Within, Busy
<1>2. ASSUME NEW u \in Users, NEW what, Begin(u, what) PROVE Within(start, run)'
  <2>1. /\ body' = body /\ sent' = sent /\ intended' = intended /\ content' = content /\ at' = at
        /\ doing' = [doing EXCEPT ![u] = [Idle EXCEPT !.for = what]]
    BY <1>2 DEF Begin
  <2>2. \A v \in Users : doing'[v] = IF v = u THEN [for |-> what, item |-> 1, got |-> <<>>] ELSE doing[v]
    <3>1. doing = [v \in Users |-> [for |-> doing[v].for, item |-> doing[v].item, got |-> doing[v].got]]
      BY DEF FreezeInv
    <3> QED BY <2>1, <3>1 DEF Idle
  <2>3. Room(body, start, run, at, 1, <<>>)
    BY RoomStarts DEF BuiltAt, Within
  <2>4. ASSUME NEW v \in Users, Busy(v)'
        PROVE  Room(body, start, run, at, doing'[v].item, doing'[v].got)
    <3>1. CASE v = u
      <4>1. doing'[v] = [for |-> what, item |-> 1, got |-> <<>>]
        BY <2>2, <3>1
      <4>2. doing'[v].item = 1 /\ doing'[v].got = <<>>
        BY <4>1
      <4> QED BY <2>3, <4>2
    <3>2. CASE v # u
      <4>1. doing'[v] = doing[v] /\ Busy(v)
        BY <2>2, <2>4, <3>2 DEF Busy
      <4> QED BY <4>1 DEF Within
    <3> QED BY <3>1, <3>2
  <2> QED BY <2>1, <2>4 DEF Within
<1>3. CASE \E u \in Users : Begin(u, "send") \/ Begin(u, "read")
  BY <1>2, <1>3
<1>4. CASE \E u \in Users : Pull(u)
  BY <1>4, WithinPulls
<1>5. CASE \E u \in Users : Uploaded(u) \/ ReadDone(u) \/ Break(u)
  BY <1>5, WithinStops
<1>6. CASE UNCHANGED <<body, intended, content, at, doing, sent>>
  BY <1>6 DEF Within, Busy
<1>7. \/ SendBytes
      \/ \E u \in Users : Begin(u, "send") \/ Begin(u, "read") \/ Pull(u) \/ Uploaded(u) \/ ReadDone(u) \/ Break(u)
      \/ UNCHANGED <<body, intended, content, at, doing, sent>>
  BY DEF UploadNext, Refused, Unused, Touch, uploadVars
<1> QED BY <1>1, <1>3, <1>4, <1>5, <1>6, <1>7

\* Every step keeps it.
LEMMA ExactKept ==
  ASSUME ExactInv, [UploadNext]_uploadVars
  PROVE  ExactInv'
<1>1. FreezeInv /\ at \in [Files -> Nat]
  BY DEF ExactInv
<1>2. FreezeInv'
  BY <1>1, FreezeKept
<1>3. body' = body /\ framing' = framing /\ intended' = intended /\ (Clean' => Clean) /\ (touched => touched')
  BY <1>1, BuiltOnce
<1>4. at' \in [Files -> Nat]
  <2>1. ASSUME NEW u \in Users, Pull(u) PROVE at' \in [Files -> Nat]
    <3>1. at' = at \/ \E f : at' = [at EXCEPT ![f] = @ + 1]
      BY <2>1 DEF Pull
    <3>2. ASSUME NEW f PROVE [at EXCEPT ![f] = @ + 1] \in [Files -> Nat]
      <4>1. CASE f \in Files
        <5>1. at[f] + 1 \in Nat
          BY <1>1, <4>1
        <5> QED BY <1>1, <5>1
      <4>2. CASE f \notin Files
        <5>1. [at EXCEPT ![f] = @ + 1] = at
          BY <1>1, <4>2
        <5> QED BY <1>1, <5>1
      <4> QED BY <4>1, <4>2
    <3> QED BY <1>1, <3>1, <3>2
  <2>2. ASSUME NEW f \in Files, Touch(f) PROVE at' \in [Files -> Nat]
    <3>1. PICK p \in 0..FileLength : at' = [at EXCEPT ![f] = p]
      BY <2>2 DEF Touch
    <3>2. p \in Nat
      BY FilesAssumption
    <3> QED BY <1>1, <3>1, <3>2
  <2>3. at' = at \/ (\E u \in Users : Pull(u)) \/ (\E f \in Files : Touch(f))
    BY DEF UploadNext, SendBytes, Begin, Refused, Uploaded, ReadDone, Break, Unused, uploadVars
  <2> QED BY <1>1, <2>1, <2>2, <2>3
<1>5. PICK start, run :
        BuiltAt(start, run) /\ (Clean => Carried(start, run)) /\ (~touched => Within(start, run))
  BY DEF ExactInv
<1>6. BuiltAt(start, run)'
  BY <1>3, <1>5 DEF BuiltAt
<1>7. ASSUME Clean' PROVE Carried(start, run)'
  <2>1. Clean /\ Carried(start, run)
    BY <1>3, <1>5, <1>7
  <2>2. CASE SendBytes
    BY <2>1, <2>2 DEF SendBytes, Replayable, Carried, Busy
  <2>3. CASE \E u \in Users : Begin(u, "send") \/ Begin(u, "read")
    <3>1. ~Muddled'
      BY <1>7 DEF Clean
    <3> QED BY <1>1, <1>5, <2>1, <2>3, <3>1, CarriedBegins
  <2>4. CASE \E u \in Users : Pull(u)
    BY <1>1, <1>5, <2>1, <2>4, CarriedPulls
  <2>5. CASE \E u \in Users : Uploaded(u) \/ ReadDone(u) \/ Break(u)
    BY <1>1, <1>5, <2>1, <2>5, CarriedStops
  <2>6. CASE \E f \in Files : Touch(f)
    BY <1>7, <2>6 DEF Touch, Clean
  <2>7. CASE UNCHANGED <<body, intended, content, at, doing, sent, begun>>
    BY <2>1, <2>7 DEF Carried, Busy
  <2>8. \/ SendBytes
        \/ \E u \in Users : Begin(u, "send") \/ Begin(u, "read") \/ Pull(u) \/ Uploaded(u) \/ ReadDone(u) \/ Break(u)
        \/ \E f \in Files : Touch(f)
        \/ UNCHANGED <<body, intended, content, at, doing, sent, begun>>
    BY DEF UploadNext, Refused, Unused, uploadVars
  <2> QED BY <2>2, <2>3, <2>4, <2>5, <2>6, <2>7, <2>8
<1>8. ~touched' => Within(start, run)'
  BY <1>1, <1>3, <1>5, WithinKept
<1> QED BY <1>2, <1>4, <1>6, <1>7, <1>8 DEF ExactInv

\* While nobody else uses the files, an upload that is completed carries no more
\* than was declared, and all of the content that the request had when it was
\* built, once and in order, in as many bytes as were declared (_content.py:119-131,
\* _multipart.py:130-153): whatever files, of whatever length, a body is made of,
\* and whoever else sends it, gives up or is refused; all of it but for a multipart
\* body with files that is iterated more than once, or with one file as two fields.
THEOREM UploadExactHolds == UploadSpec => []UploadExact
<1>1. ExactInv => UploadExact
  <2> SUFFICES ASSUME ExactInv, sent # None, ~touched
               PROVE  /\ framing # None => Len(sent) <= framing
                      /\ ~Muddled /\ ~SharedFile => sent = intended /\ (framing # None => Len(sent) = framing)
    BY DEF UploadExact
  <2>1. PICK start, run :
          BuiltAt(start, run) /\ (Clean => Carried(start, run)) /\ Within(start, run)
    BY DEF ExactInv
  <2>2. framing # None => Len(sent) <= framing
    BY <2>1 DEF BuiltAt, Within
  <2>3. ~Muddled /\ ~SharedFile => sent = intended
    BY <2>1 DEF Clean, Carried
  <2> QED BY <2>1, <2>2, <2>3 DEF BuiltAt
<1> QED BY <1>1, ExactStarts, ExactKept, PTL DEF UploadSpec
=============================================================================
