------------------------ MODULE ListSelectionProofs ------------------------
(***************************************************************************)
(* What Pick and the counts of ListSelection return, for every list and    *)
(* every set of positions.  Count(list, T) is how many elements of the     *)
(* list are in T, so that facts about HowMany need no operator parameter.  *)
(* And what a loop does that is written as a function of its turns.        *)
(***************************************************************************)
EXTENDS ListSelection, FiniteSetTheorems, FunctionTheorems, SequenceTheorems,
        WellFoundedInduction, TLAPS

Count(list, T) == Cardinality({i \in DOMAIN list : list[i] \in T})

-----------------------------------------------------------------------------
(* A set of natural numbers that is not empty has a least element.          *)
LEMMA Least ==
    ASSUME NEW T, T \subseteq Nat, T # {}
    PROVE  \E x \in T : \A y \in T : x <= y
PROOF
  <1> DEFINE R == OpToRel(<, Nat)
  <1>1. IsWellFoundedOn(R, Nat)
    BY NatLessThanWellFounded
  <1>2. \A x, y \in Nat : <<x, y>> \in R <=> x < y
    BY DEF OpToRel
  <1> HIDE DEF R
  <1>3. PICK x \in T : \A y \in T : ~(<<y, x>> \in R)
    BY ONLY <1>1, WFMin, T # {}, T \subseteq Nat
  <1>4. \A y \in T : ~(y < x)
    BY <1>2, <1>3, Zenon
  <1>5. \A y \in T : x <= y
    BY <1>4
  <1> QED BY <1>5

(* Positions in a list are finitely many.                                   *)
LEMMA FinitePositions ==
    ASSUME NEW n \in Nat, NEW S \in SUBSET (1..n)
    PROVE  IsFiniteSet(S) /\ Cardinality(S) \in 0..n
PROOF
  <1>1. IsFiniteSet(1..n) /\ Cardinality(1..n) = n
    BY FS_Interval
  <1>2. IsFiniteSet(S) /\ Cardinality(S) <= n
    BY <1>1, FS_Subset
  <1>3. Cardinality(S) \in Nat
    BY <1>2, FS_CardinalityType
  <1> QED BY <1>2, <1>3

(* Ranks grow with the positions, from 1 to their number.                   *)
LEMMA RankGrows ==
    ASSUME NEW n \in Nat, NEW S \in SUBSET (1..n)
    PROVE  /\ \A x \in S : Rank(S, x) \in 1..Cardinality(S)
           /\ \A x, y \in S : x < y => Rank(S, x) < Rank(S, y)
PROOF
  <1> DEFINE Upto(x) == {j \in S : j <= x}
  <1>0. \A x \in S : x \in Nat
    OBVIOUS
  <1>1. IsFiniteSet(S) /\ Cardinality(S) \in Nat
    BY FinitePositions
  <1>2. ASSUME NEW x \in S PROVE /\ IsFiniteSet(Upto(x))
                                 /\ Cardinality(Upto(x)) \in 1..Cardinality(S)
    <2>1. Upto(x) \in SUBSET S /\ x \in Upto(x)
      OBVIOUS
    <2> HIDE DEF Upto
    <2>2. IsFiniteSet(Upto(x)) /\ Cardinality(Upto(x)) <= Cardinality(S)
      BY <1>1, <2>1, FS_Subset
    <2>3. Cardinality(Upto(x)) \in Nat /\ Cardinality(Upto(x)) # 0
      BY <2>1, <2>2, FS_CardinalityType, FS_EmptySet
    <2> QED BY <2>2, <2>3, <1>1
  <1>3. ASSUME NEW x \in S, NEW y \in S, x < y
        PROVE  Cardinality(Upto(x)) < Cardinality(Upto(y))
    <2>0. x \in Nat /\ y \in Nat /\ \A j \in S : j <= x => j <= y
      BY <1>0, <1>3
    <2>1. Upto(x) \in SUBSET Upto(y) /\ y \in Upto(y) /\ y \notin Upto(x)
      <3>1. Upto(x) \in SUBSET Upto(y)
        BY <2>0
      <3>2. y \in Upto(y) /\ y \notin Upto(x)
        BY <2>0, <1>3
      <3> QED BY <3>1, <3>2
    <2>2. IsFiniteSet(Upto(y)) /\ Cardinality(Upto(x)) \in Nat /\ Cardinality(Upto(y)) \in Nat
      BY <1>2, <1>1
    <2> HIDE DEF Upto
    <2>3. Cardinality(Upto(x)) <= Cardinality(Upto(y)) /\ Cardinality(Upto(y)) # Cardinality(Upto(x))
      BY <2>1, <2>2, FS_Subset
    <2> QED BY <2>2, <2>3
  <1> QED BY <1>2, <1>3 DEF Rank

(* Every number up to the number of positions is the rank of one of them.   *)
LEMMA RankOnto ==
    ASSUME NEW n \in Nat, NEW S \in SUBSET (1..n)
    PROVE  \A i \in 1..Cardinality(S) : \E x \in S : Rank(S, x) = i
PROOF
  <1> DEFINE r == [x \in S |-> Rank(S, x)]
             N == 1..Cardinality(S)
  <1>0. Cardinality(S) \in Nat /\ \A x \in S : x \in Nat
    <2>1. Cardinality(S) \in 0..n
      BY FinitePositions
    <2> QED BY <2>1
  <1>1. IsFiniteSet(N) /\ Cardinality(N) = Cardinality(S)
    BY <1>0, FS_Interval
  <1>2. r \in [S -> N]
    BY RankGrows
  <1>7. \A x \in S : Rank(S, x) \in Nat
    <2>1. \A x \in S : Rank(S, x) \in N
      BY RankGrows
    <2> QED BY <1>0, <2>1
  <1>8. \A x, y \in S : x < y => Rank(S, x) < Rank(S, y)
    BY RankGrows
  <1>3. ASSUME NEW x \in S, NEW y \in S, r[x] = r[y] PROVE x = y
    <2>1. x \in Nat /\ y \in Nat /\ Rank(S, x) = Rank(S, y)
      BY <1>0, <1>3
    <2>2. ~(x < y) /\ ~(y < x)
      BY <1>7, <1>8, <2>1
    <2> QED BY <2>1, <2>2
  <1> HIDE DEF r, N
  <1>4. r \in Injection(S, N)
    BY <1>2, <1>3, Fun_IsInj
  <1>5. r \in Surjection(S, N)
    BY <1>1, <1>4, FS_Injection
  <1>6. \A i \in N : \E x \in S : r[x] = i
    BY <1>5, Fun_SurjectionProperties
  <1> QED BY <1>6 DEF r, N

(* The positions picked, in their order.                                    *)
Place(S) == [i \in 1..Cardinality(S) |-> CHOOSE x \in S : Rank(S, x) = i]

LEMMA PlaceFacts ==
    ASSUME NEW n \in Nat, NEW S \in SUBSET (1..n)
    PROVE  /\ Cardinality(S) \in 0..n
           /\ Place(S) \in [1..Cardinality(S) -> S]
           /\ \A i \in 1..Cardinality(S) : Rank(S, Place(S)[i]) = i
           /\ \A i, j \in 1..Cardinality(S) : i < j => Place(S)[i] < Place(S)[j]
           /\ \A x \in S : \E i \in 1..Cardinality(S) : Place(S)[i] = x
PROOF
  <1> DEFINE N == 1..Cardinality(S)
  <1>1. Cardinality(S) \in 0..n
    BY FinitePositions
  <1>2. \A i \in N : Place(S)[i] \in S /\ Rank(S, Place(S)[i]) = i
    BY RankOnto DEF Place
  <1>3. Place(S) = [i \in N |-> Place(S)[i]]
    BY DEF Place
  <1>4. Place(S) \in [N -> S]
    BY <1>2, <1>3
  <1>5. \A x \in S : x \in Nat /\ Rank(S, x) \in N /\ Rank(S, x) \in Nat
    <2>1. \A x \in S : Rank(S, x) \in N
      BY RankGrows
    <2>2. \A k \in N : k \in Nat
      BY <1>1
    <2> QED BY <2>1, <2>2
  <1>8. \A x, y \in S : x < y => Rank(S, x) < Rank(S, y)
    BY RankGrows
  <1>6. ASSUME NEW i \in N, NEW j \in N, i < j PROVE Place(S)[i] < Place(S)[j]
    <2> DEFINE x == Place(S)[i]
               y == Place(S)[j]
    <2>1. x \in S /\ y \in S /\ Rank(S, x) = i /\ Rank(S, y) = j
      BY <1>2
    <2>2. x \in Nat /\ y \in Nat /\ (y < x => j < i)
      BY <1>5, <1>8, <2>1
    <2>3. x # y
      BY <1>6, <2>1, <1>1
    <2> QED BY <1>6, <1>1, <2>2, <2>3
  <1>7. ASSUME NEW x \in S PROVE \E i \in N : Place(S)[i] = x
    <2>1. PICK i \in N : i = Rank(S, x)
      BY <1>5
    <2> DEFINE y == Place(S)[i]
    <2>2. y \in S /\ Rank(S, y) = Rank(S, x)
      BY <1>2, <2>1
    <2>3. x \in Nat /\ y \in Nat /\ Rank(S, x) \in Nat
      BY <1>5, <2>2
    <2>4. ~(x < y) /\ ~(y < x)
      BY <1>8, <2>2, <2>3
    <2>5. y = x
      BY <2>3, <2>4
    <2> QED BY <2>5
  <1> QED BY <1>1, <1>2, <1>4, <1>6, <1>7

(* What is picked: the elements at those places.                            *)
LEMMA PickFacts ==
    ASSUME NEW B, NEW list \in Seq(B), NEW S \in SUBSET DOMAIN list
    PROVE  /\ Pick(list, S) \in Seq(B)
           /\ DOMAIN Pick(list, S) = 1..Cardinality(S)
           /\ Len(Pick(list, S)) = Cardinality(S)
           /\ Cardinality(S) \in 0..Len(list)
           /\ Place(S) \in [1..Cardinality(S) -> S]
           /\ \A i \in DOMAIN Pick(list, S) : Pick(list, S)[i] = list[Place(S)[i]]
PROOF
  <1> DEFINE n == Len(list)
             N == 1..Cardinality(S)
             p == Pick(list, S)
  <1>1. n \in Nat /\ S \in SUBSET (1..n) /\ DOMAIN list = 1..n
    OBVIOUS
  <1> HIDE DEF n
  <1>2. Cardinality(S) \in 0..n /\ Place(S) \in [N -> S]
    BY <1>1, PlaceFacts
  <1>3. p = [i \in N |-> list[Place(S)[i]]]
    BY DEF Pick, Place
  <1>4. \A i \in N : list[Place(S)[i]] \in B
    BY <1>1, <1>2 DEF n
  <1> HIDE DEF p
  <1>5. p \in [N -> B] /\ DOMAIN p = N
    BY <1>3, <1>4
  <1>6. p \in Seq(B) /\ Len(p) = Cardinality(S)
    BY <1>2, <1>5, SeqDef
  <1> QED BY <1>2, <1>3, <1>5, <1>6, <1>1 DEF p, n

(* Nothing else is picked, and nothing twice that is not there twice.       *)
LEMMA PickDistinct ==
    ASSUME NEW B, NEW list \in Seq(B), NEW S \in SUBSET DOMAIN list,
           \A x, y \in S : list[x] = list[y] => x = y
    PROVE  /\ \A i \in DOMAIN Pick(list, S) : \E x \in S : Pick(list, S)[i] = list[x]
           /\ \A i, j \in DOMAIN Pick(list, S) : Pick(list, S)[i] = Pick(list, S)[j] => i = j
PROOF
  <1> DEFINE n == Len(list)
             N == 1..Cardinality(S)
             p == Pick(list, S)
             f == Place(S)
  <1>1. n \in Nat /\ S \in SUBSET (1..n)
    OBVIOUS
  <1> HIDE DEF n
  <1>2. /\ Cardinality(S) \in 0..n /\ f \in [N -> S]
        /\ \A i, j \in N : i < j => f[i] < f[j]
    BY <1>1, PlaceFacts
  <1>3. DOMAIN p = N /\ \A i \in N : p[i] = list[f[i]]
    BY PickFacts
  <1> HIDE DEF p, f
  <1>4. \A i, j \in N : f[i] = f[j] => i = j
    <2>1. \A i \in N : i \in Int /\ f[i] \in Int
      BY <1>1, <1>2
    <2> QED BY <1>2, <2>1
  <1>5. \A i, j \in N : p[i] = p[j] => i = j
    BY <1>2, <1>3, <1>4
  <1>6. \A i \in N : f[i] \in S /\ p[i] = list[f[i]]
    BY <1>2, <1>3
  <1> QED BY <1>3, <1>5, <1>6 DEF p

(* The first that is picked, if any is.                                     *)
LEMMA PickHead ==
    ASSUME NEW B, NEW list \in Seq(B), NEW S \in SUBSET DOMAIN list
    PROVE  /\ Pick(list, S) = <<>> => S = {}
           /\ Pick(list, S) # <<>> => \E i \in S : Head(Pick(list, S)) = list[i]
PROOF
  <1> DEFINE p == Pick(list, S)
  <1>1. /\ p \in Seq(B) /\ DOMAIN p = 1..Cardinality(S) /\ Len(p) = Cardinality(S)
        /\ Place(S) \in [1..Cardinality(S) -> S]
        /\ \A i \in DOMAIN p : p[i] = list[Place(S)[i]]
    BY PickFacts
  <1>2. Len(list) \in Nat /\ S \in SUBSET (1..Len(list))
    OBVIOUS
  <1>3. IsFiniteSet(S)
    BY <1>2, FinitePositions
  <1> HIDE DEF p
  <1>4. ASSUME p = <<>> PROVE S = {}
    <2>1. Len(p) = 0
      BY <1>4
    <2> QED BY <2>1, <1>1, <1>3, FS_EmptySet
  <1>5. ASSUME p # <<>> PROVE \E i \in S : Head(p) = list[i]
    <2>1. p \in Seq(B)
      BY <1>1
    <2>2. Head(p) = p[1] /\ 1 \in DOMAIN p
      BY ONLY <2>1, <1>5
    <2> QED BY <2>2, <1>1
  <1> QED BY <1>4, <1>5 DEF p
-----------------------------------------------------------------------------
(* Two sets of which one is mapped on the other, one to one, count the same. *)
LEMMA Matched ==
    ASSUME NEW S, IsFiniteSet(S), NEW T, NEW f \in [S -> T],
           \A a, b \in S : f[a] = f[b] => a = b,
           \A t \in T : \E a \in S : f[a] = t
    PROVE  IsFiniteSet(T) /\ Cardinality(T) = Cardinality(S)
PROOF
  <1>1. f \in Bijection(S, T)
    BY Fun_IsBij
  <1>2. ExistsBijection(S, T)
    BY <1>1 DEF ExistsBijection
  <1> QED BY <1>2, FS_Bijection

(* Sets without a common element add up.                                    *)
LEMMA Disjoint ==
    ASSUME NEW S, NEW T, IsFiniteSet(S), IsFiniteSet(T), S \cap T = {}
    PROVE  Cardinality(S \cup T) = Cardinality(S) + Cardinality(T)
PROOF
  <1>1. Cardinality(S \cup T) = Cardinality(S) + Cardinality(T) - Cardinality(S \cap T)
    BY FS_Union
  <1>2. Cardinality(S \cap T) = 0 /\ Cardinality(S) \in Nat /\ Cardinality(T) \in Nat
    BY FS_EmptySet, FS_CardinalityType
  <1> QED BY <1>1, <1>2

(* The positions Count counts.                                              *)
LEMMA CountType ==
    ASSUME NEW B, NEW list \in Seq(B), NEW T
    PROVE  /\ {i \in DOMAIN list : list[i] \in T} \in SUBSET (1..Len(list))
           /\ IsFiniteSet({i \in DOMAIN list : list[i] \in T})
           /\ Count(list, T) \in Nat
           /\ Count(list, T) <= Len(list)
PROOF
  <1> DEFINE P == {i \in DOMAIN list : list[i] \in T}
             n == Len(list)
  <1>1. n \in Nat /\ P \in SUBSET (1..n)
    OBVIOUS
  <1> HIDE DEF P, n
  <1>2. IsFiniteSet(P) /\ Cardinality(P) \in 0..n
    BY <1>1, FinitePositions
  <1>3. Cardinality(P) \in Nat /\ Cardinality(P) <= n
    BY <1>1, <1>2
  <1> QED BY <1>1, <1>2, <1>3 DEF P, n, Count

LEMMA CountEmpty ==
    ASSUME NEW T
    PROVE  Count(<< >>, T) = 0
PROOF
  <1>1. {i \in DOMAIN << >> : << >>[i] \in T} = {}
    OBVIOUS
  <1> QED BY <1>1, FS_EmptySet DEF Count

LEMMA CountOne ==
    ASSUME NEW e, NEW T
    PROVE  Count(<<e>>, T) = IF e \in T THEN 1 ELSE 0
PROOF
  <1>1. CASE e \in T
    <2>1. {i \in DOMAIN <<e>> : <<e>>[i] \in T} = {1}
      BY <1>1
    <2> QED BY <1>1, <2>1, FS_Singleton DEF Count
  <1>2. CASE e \notin T
    <2>1. {i \in DOMAIN <<e>> : <<e>>[i] \in T} = {}
      BY <1>2
    <2> QED BY <1>2, <2>1, FS_EmptySet DEF Count
  <1> QED BY <1>1, <1>2

(* Numbers shifted by n count the same.                                     *)
LEMMA Shifted ==
    ASSUME NEW P, P \subseteq Nat, IsFiniteSet(P), NEW n \in Nat
    PROVE  /\ IsFiniteSet({i + n : i \in P})
           /\ Cardinality({i + n : i \in P}) = Cardinality(P)
PROOF
  <1> DEFINE Q == {i + n : i \in P}
             f == [i \in P |-> i + n]
  <1>1. f \in [P -> Q]
    OBVIOUS
  <1>2. \A a, b \in P : f[a] = f[b] => a = b
    OBVIOUS
  <1>3. \A t \in Q : \E a \in P : f[a] = t
    OBVIOUS
  <1> HIDE DEF f, Q
  <1>4. IsFiniteSet(Q) /\ Cardinality(Q) = Cardinality(P)
    BY <1>1, <1>2, <1>3, Matched
  <1> QED BY <1>4 DEF Q

LEMMA CountConcat ==
    ASSUME NEW B, NEW s \in Seq(B), NEW t \in Seq(B), NEW T
    PROVE  Count(s \o t, T) = Count(s, T) + Count(t, T)
PROOF
  <1> DEFINE n == Len(s)
             m == Len(t)
             P == {i \in DOMAIN s : s[i] \in T}
             Q == {i \in DOMAIN t : t[i] \in T}
             R == {i + n : i \in Q}
             c == s \o t
             C == {i \in DOMAIN c : c[i] \in T}
  <1>1. /\ n \in Nat /\ m \in Nat
        /\ DOMAIN s = 1..n /\ DOMAIN t = 1..m
    OBVIOUS
  <1>2. /\ c \in Seq(B) /\ Len(c) = n + m
        /\ \A i \in 1..(n + m) : c[i] = IF i <= n THEN s[i] ELSE t[i - n]
    BY ConcatProperties
  <1>3. DOMAIN c = 1..(n + m)
    <2> HIDE DEF c, n, m
    <2>1. DOMAIN c = 1..Len(c)
      BY <1>2
    <2> QED BY <1>2, <2>1
  <1>4. IsFiniteSet(P) /\ IsFiniteSet(Q) /\ P \in SUBSET (1..n) /\ Q \in SUBSET (1..m)
    BY CountType
  <1> HIDE DEF c, n, m
  <1>5. C = P \cup R
    <2>1. ASSUME NEW i \in C PROVE i \in P \cup R
      <3>1. i \in 1..(n + m) /\ c[i] \in T
        BY <1>3
      <3>2. CASE i <= n
        <4>1. i \in 1..n /\ s[i] \in T
          BY <1>1, <1>2, <3>1, <3>2
        <4> QED BY <1>1, <4>1
      <3>3. CASE ~(i <= n)
        <4>1. i - n \in 1..m /\ t[i - n] \in T /\ i = (i - n) + n
          BY <1>1, <1>2, <3>1, <3>3
        <4>2. i - n \in Q
          BY <1>1, <4>1
        <4> QED BY <4>1, <4>2
      <3> QED BY <3>2, <3>3
    <2>2. ASSUME NEW i \in P PROVE i \in C
      <3>1. i \in 1..n /\ s[i] \in T
        BY <1>1
      <3>2. i \in 1..(n + m) /\ i <= n
        BY <1>1, <3>1
      <3> QED BY <1>2, <1>3, <3>1, <3>2
    <2>3. ASSUME NEW i \in R PROVE i \in C
      <3>1. PICK j \in Q : i = j + n
        OBVIOUS
      <3>2. j \in 1..m /\ t[j] \in T
        BY <1>1
      <3>3. i \in 1..(n + m) /\ ~(i <= n) /\ i - n = j
        BY <1>1, <3>1, <3>2
      <3>4. c[i] = t[j]
        BY <1>2, <3>3
      <3> QED BY <1>3, <3>2, <3>3, <3>4
    <2> QED BY <2>1, <2>2, <2>3
  <1>6. P \cap R = {}
    <2> SUFFICES ASSUME NEW i \in P, i \in R PROVE FALSE
      OBVIOUS
    <2>1. i \in 1..n
      BY <1>4
    <2>2. PICK j \in Q : i = j + n
      OBVIOUS
    <2>3. j \in 1..m
      BY <1>4
    <2> QED BY <1>1, <2>1, <2>2, <2>3
  <1>7. IsFiniteSet(R) /\ Cardinality(R) = Cardinality(Q)
    <2>1. Q \subseteq Nat
      BY <1>1
    <2> HIDE DEF Q
    <2> QED BY <1>1, <1>4, <2>1, Shifted
  <1> HIDE DEF P, Q, R, C
  <1>8. Cardinality(C) = Cardinality(P) + Cardinality(Q)
    BY <1>4, <1>5, <1>6, <1>7, Disjoint
  <1> QED BY <1>8 DEF Count, C, P, Q, c

LEMMA CountTail ==
    ASSUME NEW B, NEW s \in Seq(B), s # << >>, NEW T
    PROVE  Count(s, T) = (IF Head(s) \in T THEN 1 ELSE 0) + Count(Tail(s), T)
PROOF
  <1>1. Head(s) \in B /\ Tail(s) \in Seq(B)
    BY HeadTailProperties
  <1>2. s = <<Head(s)>> \o Tail(s)
    OBVIOUS
  <1>3. PICK h \in B : h = Head(s)
    BY <1>1
  <1>4. PICK t \in Seq(B) : t = Tail(s)
    BY <1>1
  <1>5. <<h>> \in Seq(B)
    OBVIOUS
  <1>6. Count(<<h>> \o t, T) = Count(<<h>>, T) + Count(t, T)
    BY <1>5, CountConcat
  <1>7. Count(<<h>>, T) = IF h \in T THEN 1 ELSE 0
    BY CountOne
  <1> QED BY <1>2, <1>3, <1>4, <1>6, <1>7

(* Of what is picked, as many are in T as of the list at those positions.   *)
LEMMA CountPick ==
    ASSUME NEW B, NEW list \in Seq(B), NEW S \in SUBSET DOMAIN list, NEW T
    PROVE  Count(Pick(list, S), T) = Cardinality({i \in S : list[i] \in T})
PROOF
  <1> DEFINE n == Len(list)
             p == Pick(list, S)
             f == Place(S)
             N == 1..Cardinality(S)
             P == {i \in DOMAIN p : p[i] \in T}
             Q == {i \in S : list[i] \in T}
             g == [i \in P |-> f[i]]
  <1>1. n \in Nat /\ S \in SUBSET (1..n)
    OBVIOUS
  <1>2. /\ Cardinality(S) \in 0..n /\ f \in [N -> S]
        /\ \A i, j \in N : i < j => f[i] < f[j]
        /\ \A x \in S : \E i \in N : f[i] = x
    <2> HIDE DEF n
    <2> QED BY <1>1, PlaceFacts
  <1>3. p \in Seq(B) /\ DOMAIN p = N /\ \A i \in N : p[i] = list[f[i]]
    BY PickFacts
  <1>4. IsFiniteSet(P)
    <2> HIDE DEF p
    <2> QED BY <1>3, CountType
  <1> HIDE DEF p, f
  <1>5. g \in [P -> Q]
    BY <1>2, <1>3
  <1>6. \A a, b \in P : g[a] = g[b] => a = b
    <2> SUFFICES ASSUME NEW a \in P, NEW b \in P, f[a] = f[b] PROVE a = b
      OBVIOUS
    <2>1. a \in N /\ b \in N /\ f[a] \in S /\ f[b] \in S
      BY <1>2, <1>3
    <2>2. a \in Nat /\ b \in Nat
      BY <1>1, <1>2, <2>1
    <2>3. f[a] \in Nat /\ f[b] \in Nat
      BY <1>1, <2>1
    <2>4. ~(a < b) /\ ~(b < a)
      BY <1>2, <2>1, <2>3
    <2> QED BY <2>2, <2>4
  <1>7. \A t \in Q : \E a \in P : g[a] = t
    <2> SUFFICES ASSUME NEW t \in Q PROVE \E a \in P : f[a] = t
      OBVIOUS
    <2>1. PICK a \in N : f[a] = t
      BY <1>2
    <2> QED BY <1>3, <2>1
  <1> HIDE DEF P, Q, g
  <1>8. Cardinality(Q) = Cardinality(P)
    BY <1>4, <1>5, <1>6, <1>7, Matched
  <1> QED BY <1>8 DEF P, Q, p, Count

(* What is picked and what is left make the whole list.                     *)
LEMMA CountSplit ==
    ASSUME NEW B, NEW list \in Seq(B), NEW S \in SUBSET DOMAIN list, NEW T
    PROVE  Count(Pick(list, S), T) + Count(Pick(list, DOMAIN list \ S), T)
             = Count(list, T)
PROOF
  <1> DEFINE R == DOMAIN list \ S
             P == {i \in DOMAIN list : list[i] \in T}
             Q1 == {i \in S : list[i] \in T}
             Q2 == {i \in R : list[i] \in T}
  <1>1. IsFiniteSet(P)
    BY CountType
  <1>2. Q1 \in SUBSET P /\ Q2 \in SUBSET P /\ Q1 \cap Q2 = {} /\ P = Q1 \cup Q2
    OBVIOUS
  <1>3. R \in SUBSET DOMAIN list
    OBVIOUS
  <1>4. Count(Pick(list, S), T) = Cardinality(Q1)
    BY CountPick
  <1>5. Count(Pick(list, R), T) = Cardinality(Q2)
    <2> HIDE DEF R
    <2> QED BY <1>3, CountPick
  <1> HIDE DEF P, Q1, Q2, R
  <1>6. IsFiniteSet(Q1) /\ IsFiniteSet(Q2)
    BY <1>1, <1>2, FS_Subset
  <1>7. Cardinality(P) = Cardinality(Q1) + Cardinality(Q2)
    BY <1>2, <1>6, Disjoint
  <1>8. Count(list, T) = Cardinality(P)
    BY DEF Count, P
  <1> QED BY <1>4, <1>5, <1>7, <1>8 DEF R

(* A list in which only elements of U take the place of elements of T has   *)
(* at least as many of U.                                                   *)
LEMMA CountCompare ==
    ASSUME NEW B, NEW list \in Seq(B), NEW T,
           NEW C, NEW other \in Seq(C), NEW U,
           DOMAIN list = DOMAIN other,
           \A i \in DOMAIN list : list[i] \in T => other[i] \in U
    PROVE  Count(list, T) <= Count(other, U)
PROOF
  <1> DEFINE P == {i \in DOMAIN list : list[i] \in T}
             Q == {i \in DOMAIN other : other[i] \in U}
  <1>1. P \in SUBSET Q
    OBVIOUS
  <1>2. IsFiniteSet(Q)
    BY CountType
  <1> HIDE DEF P, Q
  <1>3. Cardinality(P) <= Cardinality(Q)
    BY <1>1, <1>2, FS_Subset
  <1> QED BY <1>3 DEF P, Q, Count

LEMMA CountSame ==
    ASSUME NEW B, NEW list \in Seq(B), NEW T,
           NEW C, NEW other \in Seq(C), NEW U,
           DOMAIN list = DOMAIN other,
           \A i \in DOMAIN list : list[i] \in T <=> other[i] \in U
    PROVE  Count(list, T) = Count(other, U)
PROOF
  <1>1. {i \in DOMAIN list : list[i] \in T} = {i \in DOMAIN other : other[i] \in U}
    OBVIOUS
  <1> QED BY <1>1 DEF Count

(* Kinds of elements that exclude each other add up.                        *)
LEMMA CountKinds ==
    ASSUME NEW B, NEW list \in Seq(B), NEW T, NEW U, T \cap U = {}
    PROVE  Count(list, T \cup U) = Count(list, T) + Count(list, U)
PROOF
  <1> DEFINE P == {i \in DOMAIN list : list[i] \in T}
             Q == {i \in DOMAIN list : list[i] \in U}
             R == {i \in DOMAIN list : list[i] \in T \cup U}
  <1>1. R = P \cup Q /\ P \cap Q = {}
    OBVIOUS
  <1>2. IsFiniteSet(P) /\ IsFiniteSet(Q)
    BY CountType
  <1> HIDE DEF P, Q, R
  <1>3. Cardinality(R) = Cardinality(P) + Cardinality(Q)
    BY <1>1, <1>2, Disjoint
  <1> QED BY <1>3 DEF P, Q, R, Count

(* Nothing of T in the list, nothing to count, and the reverse.             *)
LEMMA CountNone ==
    ASSUME NEW B, NEW list \in Seq(B), NEW T
    PROVE  Count(list, T) = 0 <=> \A i \in DOMAIN list : list[i] \notin T
PROOF
  <1> DEFINE P == {i \in DOMAIN list : list[i] \in T}
  <1>1. IsFiniteSet(P)
    BY CountType
  <1>2. Cardinality(P) = 0 <=> P = {}
    BY <1>1, FS_EmptySet
  <1> QED BY <1>2 DEF Count
-----------------------------------------------------------------------------
(* Lists on links. *)

(* s is the list on link from first: it has no block twice and ends.        *)
IsPath(link, first, s) ==
    /\ s \in Seq(DOMAIN link)
    /\ \A i, j \in DOMAIN s : s[i] = s[j] => i = j
    /\ s = <<>> => first \notin DOMAIN link
    /\ s # <<>> => first = s[1]
    /\ \A i \in DOMAIN s : i < Len(s) => link[s[i]] = s[i + 1]
    /\ s # <<>> => link[s[Len(s)]] \notin DOMAIN link

(* back leads from each block of s to the one before it.                    *)
IsBack(back, null, s) ==
    \A i \in DOMAIN s : back[s[i]] = IF i = 1 THEN null ELSE s[i - 1]

-----------------------------------------------------------------------------
(* Induction up to n, as a fact about sets.                                 *)
LEMMA Induct ==
    ASSUME NEW n \in Nat, NEW T, 0 \in T,
           \A i \in 1..n : i - 1 \in T => i \in T
    PROVE  0..n \subseteq T
PROOF
  <1> DEFINE U == {i \in 0..n : i \notin T}
  <1>1. SUFFICES ASSUME U # {} PROVE FALSE
    OBVIOUS
  <1>2. U \subseteq Nat
    OBVIOUS
  <1>3. PICK x \in U : \A y \in U : x <= y
    <2> HIDE DEF U
    <2> QED BY <1>1, <1>2, Least
  <1>4. x \in 1..n
    OBVIOUS
  <1>5. x - 1 \notin U
    BY <1>3, <1>4
  <1> QED BY <1>4, <1>5

(* h[i] is the state after turn i.                                         *)
Turns(h, N, x, D, g) ==
    /\ h = [i \in 0..N |-> h[i]] /\ h[0] = x
    /\ \A i \in 1..N : h[i - 1] \in D[i - 1] /\ h[i] = g[<<i, h[i - 1]>>]

(* If turn i of a loop, g[<<i, x>>], leads from D[i - 1] to D[i], the loop  *)
(* has a sequence of states.                                               *)
LEMMA LoopExists ==
    ASSUME NEW N \in Nat, NEW D, NEW x \in D[0], NEW g,
           \A i \in 1..N : \A y \in D[i - 1] : g[<<i, y>>] \in D[i]
    PROVE  \E h : Turns(h, N, x, D, g)
PROOF
  <1> DEFINE P(h, k) == /\ h = [i \in 0..k |-> h[i]] /\ h[0] = x
                        /\ \A i \in 1..k : h[i - 1] \in D[i - 1] /\ h[i] = g[<<i, h[i - 1]>>]
                        /\ h[k] \in D[k]
             T == {k \in 0..N : \E h : P(h, k)}
  <1>1. 0 \in T
    <2> DEFINE h == [i \in 0..0 |-> x]
    <2>1. h = [i \in 0..0 |-> h[i]] /\ h[0] = x /\ 1..0 = {} /\ 0 \in 0..N
      OBVIOUS
    <2> HIDE DEF h
    <2>2. P(h, 0)
      BY <2>1
    <2> HIDE DEF P
    <2> QED BY <2>1, <2>2
  <1>2. ASSUME NEW k \in 1..N, k - 1 \in T PROVE k \in T
    <2>1. PICK f : P(f, k - 1)
      BY <1>2
    <2> DEFINE h == [i \in 0..k |-> IF i < k THEN f[i] ELSE g[<<k, f[k - 1]>>]]
    <2>2. k \in Nat /\ k - 1 \in 0..(k - 1) /\ 0 \in 0..(k - 1) /\ k \in 0..N
      OBVIOUS
    <2>3. /\ \A i \in 0..(k - 1) : h[i] = f[i]
          /\ h[k] = g[<<k, f[k - 1]>>]
          /\ h = [i \in 0..k |-> h[i]]
      BY <2>2
    <2> HIDE DEF h
    <2>4. h[0] = x
      BY <2>1, <2>2, <2>3
    <2>5. f[k - 1] \in D[k - 1]
      BY <2>1
    <2>6. ASSUME NEW i \in 1..k PROVE h[i - 1] \in D[i - 1] /\ h[i] = g[<<i, h[i - 1]>>]
      <3>1. CASE i = k
        BY <3>1, <2>2, <2>3, <2>5
      <3>2. CASE i # k
        <4>1. i \in 1..(k - 1) /\ i \in 0..(k - 1) /\ i - 1 \in 0..(k - 1)
          BY <3>2, <2>2
        <4> QED BY <4>1, <2>1, <2>3
      <3> QED BY <3>1, <3>2
    <2>7. h[k] \in D[k]
      BY <2>3, <2>5
    <2>8. P(h, k)
      BY <2>3, <2>4, <2>6, <2>7
    <2> HIDE DEF P
    <2> QED BY <2>2, <2>8
  <1>3. N \in T
    <2> HIDE DEF T
    <2>1. 0..N \subseteq T
      BY ONLY <1>1, <1>2, Induct, N \in Nat
    <2> QED BY <2>1
  <1> QED BY <1>3 DEF Turns

(* What every turn keeps holds at the end.                                 *)
LEMMA LoopKeeps ==
    ASSUME NEW N \in Nat, NEW D, NEW f, f[0] \in D[0],
           \A i \in 1..N : f[i - 1] \in D[i - 1] => f[i] \in D[i]
    PROVE  f[N] \in D[N]
PROOF
  <1> DEFINE T == {k \in 0..N : f[k] \in D[k]}
  <1>1. 0 \in T
    OBVIOUS
  <1>2. ASSUME NEW k \in 1..N, k - 1 \in T PROVE k \in T
    BY <1>2
  <1>3. N \in T
    <2> HIDE DEF T
    <2>1. 0..N \subseteq T
      BY ONLY <1>1, <1>2, Induct, N \in Nat
    <2> QED BY <2>1
  <1> QED BY <1>3

(* A list without repetitions has as many places as elements, and no more   *)
(* than there are blocks.                                                   *)
LEMMA Lengths ==
    ASSUME NEW B, NEW s \in Seq(B), \A i, j \in DOMAIN s : s[i] = s[j] => i = j
    PROVE  /\ IsFiniteSet(Set(s)) /\ Cardinality(Set(s)) = Len(s)
           /\ IsFiniteSet(B) => Len(s) <= Cardinality(B)
PROOF
  <1> DEFINE n == Len(s)
             f == [i \in 1..n |-> s[i]]
  <1>1. n \in Nat /\ DOMAIN s = 1..n
    OBVIOUS
  <1>2. IsFiniteSet(1..n) /\ Cardinality(1..n) = n
    BY <1>1, FS_Interval
  <1>3. f \in [1..n -> Set(s)]
    BY <1>1 DEF Set
  <1>4. \A a, b \in 1..n : f[a] = f[b] => a = b
    BY <1>1
  <1>5. \A t \in Set(s) : \E a \in 1..n : f[a] = t
    BY <1>1 DEF Set
  <1> HIDE DEF f
  <1>6. IsFiniteSet(Set(s)) /\ Cardinality(Set(s)) = n
    BY <1>2, <1>3, <1>4, <1>5, Matched
  <1>7. Set(s) \subseteq B
    BY <1>1 DEF Set
  <1>8. ASSUME IsFiniteSet(B) PROVE Len(s) <= Cardinality(B)
    BY <1>6, <1>7, <1>8, FS_Subset
  <1> QED BY <1>6, <1>8

(* Path returns the list, whenever there is one.                            *)
LEMMA PathIs ==
    ASSUME NEW link, NEW first, NEW s, IsFiniteSet(DOMAIN link),
           IsPath(link, first, s)
    PROVE  Path(link, first) = s
PROOF
  <1> DEFINE D == DOMAIN link
             N == Cardinality(D)
             P(g) == g = [k \in 0..N |->
                        IF k = 0 THEN IF first \in D THEN <<first>> ELSE <<>>
                        ELSE LET t == g[k - 1]
                             IN IF t = <<>> \/ link[t[Len(t)]] \notin D THEN t
                                ELSE Append(t, link[t[Len(t)]])]
             m(k) == IF k < Len(s) THEN k + 1 ELSE Len(s)
             f == [k \in 0..N |-> [i \in 1..m(k) |-> s[i]]]
             h == CHOOSE g : P(g)
  <1>1. N \in Nat /\ s \in Seq(D) /\ Len(s) \in Nat /\ DOMAIN s = 1..Len(s)
    BY FS_CardinalityType DEF IsPath
  <1>2. Len(s) <= N
    BY Lengths, <1>1 DEF IsPath
  <1>3. \A k \in 0..N : /\ f[k] \in Seq(D) /\ Len(f[k]) = m(k) /\ m(k) \in 0..Len(s)
                        /\ \A i \in 1..m(k) : f[k][i] = s[i]
    BY <1>1
  <1>4. \A k \in 0..N : f[k] =
           IF k = 0 THEN IF first \in D THEN <<first>> ELSE <<>>
           ELSE LET t == f[k - 1]
                IN IF t = <<>> \/ link[t[Len(t)]] \notin D THEN t
                   ELSE Append(t, link[t[Len(t)]])
    <2>0. \A k \in Nat : /\ k < Len(s) => m(k) = k + 1
                         /\ k >= Len(s) => m(k) = Len(s)
      <3>1. Len(s) \in Nat
        BY <1>1
      <3> QED BY ONLY <3>1
    <2> HIDE DEF f, P, h, D, N, m
    <2> SUFFICES ASSUME NEW k \in 0..N
                 PROVE  f[k] =
           IF k = 0 THEN IF first \in D THEN <<first>> ELSE <<>>
           ELSE LET t == f[k - 1]
                IN IF t = <<>> \/ link[t[Len(t)]] \notin D THEN t
                   ELSE Append(t, link[t[Len(t)]])
      OBVIOUS
    <2>1. CASE s = <<>>
      <3>1. \A i \in 0..N : f[i] = <<>>
        BY <2>1, <1>3
      <3>2. first \notin D
        BY <2>1 DEF IsPath, D
      <3>3. k = 0 \/ k - 1 \in 0..N
        BY <1>1
      <3> QED BY <3>1, <3>2, <3>3, <1>1
    <2>2. CASE s # <<>> /\ k = 0
      <3>1. first \in D /\ first = s[1] /\ Len(s) > 0
        BY <2>2, <1>1 DEF IsPath
      <3>2. m(k) = 1
        BY <3>1, <2>2, <1>1, <2>0
      <3>3. f[k] \in Seq(D) /\ Len(f[k]) = 1 /\ f[k][1] = first
        <4>1. 1 \in 1..m(k)
          BY <3>2
        <4> QED BY <3>1, <3>2, <1>3, <4>1
      <3>4. f[k] = <<first>>
        BY <3>3
      <3> QED BY <2>2, <3>1, <3>4
    <2>3. CASE s # <<>> /\ k # 0
      <3> DEFINE t == f[k - 1]
      <3>1. k - 1 \in 0..N /\ k \in 1..N /\ Len(s) > 0
        BY <2>3, <1>1
      <3>2. t \in Seq(D) /\ Len(t) = m(k - 1) /\ m(k - 1) \in 1..Len(s)
        <4>1. t \in Seq(D) /\ Len(t) = m(k - 1)
          BY <3>1, <1>3
        <4>2. m(k - 1) \in 1..Len(s)
          BY <3>1, <1>1, <2>0
        <4> QED BY <4>1, <4>2
      <3>3. \A i \in 1..Len(t) : t[i] = s[i]
        BY <3>1, <3>2, <1>3
      <3>4. t # <<>> /\ t[Len(t)] = s[m(k - 1)]
        BY <3>2, <3>3
      <3>5. CASE m(k - 1) = Len(s)
        <4>1. link[t[Len(t)]] \notin D
          <5>1. t[Len(t)] = s[Len(s)]
            BY <3>4, <3>5
          <5>2. link[s[Len(s)]] \notin D
            BY <2>3 DEF IsPath, D
          <5> QED BY <5>1, <5>2
        <4>2. m(k) = m(k - 1)
          BY <3>5, <3>1, <1>1, <2>0
        <4>3. f[k] = t
          <5>1. f[k] \in Seq(D) /\ Len(f[k]) = Len(t) /\ \A i \in 1..Len(t) : f[k][i] = s[i]
            BY <4>2, <3>2, <1>3
          <5> HIDE DEF t
          <5> QED BY <5>1, <3>2, <3>3, SeqEqual
        <4> QED BY <4>1, <4>3, <2>3
      <3>6. CASE m(k - 1) # Len(s)
        <4>1. m(k - 1) = k /\ k < Len(s) /\ m(k) = k + 1
          BY <3>6, <3>1, <1>1, <2>0
        <4>2. link[t[Len(t)]] = s[k + 1] /\ s[k + 1] \in D
          <5>1. k \in DOMAIN s /\ k + 1 \in DOMAIN s
            BY <4>1, <3>1, <1>1
          <5>2. link[s[k]] = s[k + 1]
            BY <5>1, <4>1 DEF IsPath
          <5> QED BY <5>1, <5>2, <3>4, <4>1, <1>1
        <4>3. f[k] = Append(t, s[k + 1])
          <5>0. k \in Nat
            BY <3>1, <1>1
          <5>1. Append(t, s[k + 1]) \in Seq(D) /\ Len(Append(t, s[k + 1])) = k + 1
            BY <4>1, <4>2, <3>2
          <5>2. \A i \in 1..(k + 1) : Append(t, s[k + 1])[i] = s[i]
            BY <3>2, <3>3, <4>1, <4>2, <5>0
          <5>3. f[k] \in Seq(D) /\ Len(f[k]) = k + 1
            BY <4>1, <1>3
          <5>4. \A i \in 1..(k + 1) : f[k][i] = s[i]
            BY <4>1, <1>3
          <5> HIDE DEF t
          <5> QED BY <5>1, <5>2, <5>3, <5>4, SeqEqual
        <4> QED BY <4>2, <4>3, <3>4, <2>3
      <3> QED BY <3>5, <3>6
    <2> QED BY <2>1, <2>2, <2>3
  <1>5. P(f)
    BY <1>4
  <1>6. P(h)
    <2> HIDE DEF P, f
    <2> QED BY <1>5
  <1>7. Path(link, first) = h[N]
    BY DEF Path
  <1> HIDE DEF h
  <1>8. \A k \in 0..N : h[k] = f[k]
    <2> DEFINE T == {k \in 0..N : h[k] = f[k]}
    <2>1. \A k \in 0..N : h[k] =
           IF k = 0 THEN IF first \in D THEN <<first>> ELSE <<>>
           ELSE LET t == h[k - 1]
                IN IF t = <<>> \/ link[t[Len(t)]] \notin D THEN t
                   ELSE Append(t, link[t[Len(t)]])
      BY <1>6
    <2> HIDE DEF f, P
    <2>2. 0 \in T
      BY <2>1, <1>4, <1>1
    <2>3. ASSUME NEW k \in 1..N, k - 1 \in T PROVE k \in T
      <3>1. k \in 0..N /\ k # 0
        BY <1>1
      <3>2. h[k - 1] = f[k - 1]
        BY <2>3
      <3>3. h[k] = LET t == h[k - 1]
                IN IF t = <<>> \/ link[t[Len(t)]] \notin D THEN t
                   ELSE Append(t, link[t[Len(t)]])
        BY <3>1, <2>1
      <3>4. f[k] = LET t == f[k - 1]
                IN IF t = <<>> \/ link[t[Len(t)]] \notin D THEN t
                   ELSE Append(t, link[t[Len(t)]])
        BY <3>1, <1>4
      <3> QED BY <3>1, <3>2, <3>3, <3>4
    <2>4. 0..N \subseteq T
      <3> HIDE DEF T
      <3> QED BY <1>1, <2>2, <2>3, Induct
    <2> QED BY <2>4
  <1>9. h[N] = [i \in 1..Len(s) |-> s[i]]
    BY <1>8, <1>1, <1>2
  <1>10. s = [i \in 1..Len(s) |-> s[i]]
    BY <1>1
  <1> QED BY <1>7, <1>9, <1>10

(* A list depends on the links of its own blocks only.                      *)
LEMMA PathFrame ==
    ASSUME NEW link, NEW first, NEW s, IsPath(link, first, s),
           NEW new, DOMAIN new = DOMAIN link,
           \A x \in Set(s) : new[x] = link[x]
    PROVE  IsPath(new, first, s)
PROOF
  <1>1. s \in Seq(DOMAIN link) /\ Len(s) \in Nat /\ DOMAIN s = 1..Len(s)
    BY DEF IsPath
  <1>2. \A i \in DOMAIN s : new[s[i]] = link[s[i]]
    BY DEF Set
  <1>3. \A i \in DOMAIN s : i < Len(s) => new[s[i]] = s[i + 1]
    BY <1>2 DEF IsPath
  <1>4. s # <<>> => new[s[Len(s)]] \notin DOMAIN new
    <2>1. s # <<>> => Len(s) \in DOMAIN s
      BY <1>1
    <2> QED BY <2>1, <1>2 DEF IsPath
  <1> QED BY <1>3, <1>4 DEF IsPath

(* The list behind its first block.                                         *)
LEMMA PathTail ==
    ASSUME NEW link, NEW first, NEW s, IsPath(link, first, s), s # <<>>
    PROVE  /\ IsPath(link, link[first], Tail(s))
           /\ first \in DOMAIN link /\ first = s[1] /\ first \notin Set(Tail(s))
           /\ Set(s) = {first} \cup Set(Tail(s))
PROOF
  <1> DEFINE t == Tail(s)
  <1>1. s \in Seq(DOMAIN link) /\ Len(s) \in Nat /\ Len(s) > 0 /\ DOMAIN s = 1..Len(s)
    BY DEF IsPath
  <1>2. first = s[1] /\ first \in DOMAIN link
    BY <1>1 DEF IsPath
  <1>3. t \in Seq(DOMAIN link) /\ Len(t) = Len(s) - 1 /\ DOMAIN t = 1..(Len(s) - 1)
    BY <1>1
  <1>4. \A i \in DOMAIN t : t[i] = s[i + 1] /\ i + 1 \in DOMAIN s
    BY <1>1, <1>3
  <1> HIDE DEF t
  <1>5. \A i, j \in DOMAIN t : t[i] = t[j] => i = j
    <2> TAKE i, j \in DOMAIN t
    <2> HAVE t[i] = t[j]
    <2>1. s[i + 1] = s[j + 1] /\ i + 1 \in DOMAIN s /\ j + 1 \in DOMAIN s
      BY <1>4
    <2>2. i + 1 = j + 1
      BY <2>1 DEF IsPath
    <2>3. i \in Nat /\ j \in Nat
      BY <1>1, <1>3
    <2> QED BY <2>2, <2>3
  <1>6. t = <<>> => link[first] \notin DOMAIN link
    <2> HAVE t = <<>>
    <2>0. Len(t) = 0
      OBVIOUS
    <2>1. Len(s) = 1
      <3>1. Len(s) \in Nat /\ Len(t) = Len(s) - 1
        BY <1>1, <1>3
      <3> QED BY ONLY <3>1, <2>0
    <2> QED BY <2>1, <1>2 DEF IsPath
  <1>7. t # <<>> => link[first] = t[1]
    <2> HAVE t # <<>>
    <2>1. 1 \in DOMAIN t /\ 1 \in DOMAIN s /\ 1 < Len(s)
      BY <1>1, <1>3
    <2>2. link[s[1]] = s[2]
      BY <2>1 DEF IsPath
    <2> QED BY <2>1, <2>2, <1>2, <1>4
  <1>8. \A i \in DOMAIN t : i < Len(t) => link[t[i]] = t[i + 1]
    <2> TAKE i \in DOMAIN t
    <2> HAVE i < Len(t)
    <2>1. i + 1 \in DOMAIN t /\ i + 1 < Len(s) /\ i + 1 \in DOMAIN s /\ i \in Nat
      BY <1>1, <1>3
    <2>2. t[i] = s[i + 1] /\ t[i + 1] = s[i + 1 + 1]
      BY <2>1, <1>4
    <2>3. link[s[i + 1]] = s[i + 1 + 1]
      BY <2>1 DEF IsPath
    <2> QED BY <2>2, <2>3
  <1>9. t # <<>> => link[t[Len(t)]] \notin DOMAIN link
    <2> HAVE t # <<>>
    <2>1. Len(t) \in DOMAIN t /\ Len(t) + 1 = Len(s)
      BY <1>1, <1>3
    <2>2. t[Len(t)] = s[Len(s)]
      BY <2>1, <1>4
    <2> QED BY <2>2 DEF IsPath
  <1>10. first \notin Set(t)
    <2>1. ASSUME NEW i \in DOMAIN t, t[i] = first PROVE FALSE
      <3>1. s[i + 1] = s[1] /\ i + 1 \in DOMAIN s /\ 1 \in DOMAIN s
        BY <2>1, <1>4, <1>2, <1>1
      <3>2. i + 1 = 1
        BY <3>1 DEF IsPath
      <3> QED BY <3>2, <1>3, <1>1
    <2> QED BY <2>1 DEF Set
  <1>11. Set(s) = {first} \cup Set(t)
    <2>1. \A i \in DOMAIN s : s[i] \in {first} \cup Set(t)
      <3> TAKE i \in DOMAIN s
      <3>1. CASE i = 1
        BY <3>1, <1>2
      <3>2. CASE i # 1
        <4>1. i - 1 \in DOMAIN t /\ (i - 1) + 1 = i
          BY <3>2, <1>1, <1>3
        <4> QED BY <4>1, <1>4 DEF Set
      <3> QED BY <3>1, <3>2
    <2>2. \A i \in DOMAIN t : t[i] \in Set(s)
      BY <1>4 DEF Set
    <2>3. first \in Set(s)
      BY <1>1, <1>2 DEF Set
    <2> QED BY <2>1, <2>2, <2>3 DEF Set
  <1>12. IsPath(link, link[first], t)
    BY <1>3, <1>5, <1>6, <1>7, <1>8, <1>9 DEF IsPath
  <1> QED BY <1>2, <1>10, <1>11, <1>12 DEF t

(* A block put before a list.                                               *)
LEMMA PathPush ==
    ASSUME NEW link, NEW first, NEW s, IsPath(link, first, s),
           NEW x \in DOMAIN link, x \notin Set(s), link[x] = first
    PROVE  /\ IsPath(link, x, <<x>> \o s)
           /\ Set(<<x>> \o s) = {x} \cup Set(s)
PROOF
  <1> DEFINE t == <<x>> \o s
  <1>1. s \in Seq(DOMAIN link) /\ Len(s) \in Nat /\ DOMAIN s = 1..Len(s)
    BY DEF IsPath
  <1>2. t \in Seq(DOMAIN link) /\ Len(t) = Len(s) + 1 /\ DOMAIN t = 1..(Len(s) + 1) /\ t # <<>>
    BY <1>1
  <1>3. t[1] = x /\ \A i \in DOMAIN s : t[i + 1] = s[i] /\ i + 1 \in DOMAIN t
    BY <1>1
  <1>4. \A i \in DOMAIN t : i = 1 \/ (i - 1 \in DOMAIN s /\ t[i] = s[i - 1])
    BY <1>1
  <1> HIDE DEF t
  <1>5. \A i \in DOMAIN s : s[i] # x
    BY DEF Set
  <1>6. \A i, j \in DOMAIN t : t[i] = t[j] => i = j
    <2> TAKE i, j \in DOMAIN t
    <2> HAVE t[i] = t[j]
    <2>1. i \in Nat /\ j \in Nat
      BY <1>2, <1>1
    <2>2. CASE i = 1 \/ j = 1
      BY <2>2, <1>3, <1>4, <1>5
    <2>3. CASE i # 1 /\ j # 1
      <3>1. i - 1 = j - 1
        BY <2>3, <1>4 DEF IsPath
      <3> QED BY <3>1, <2>1
    <2> QED BY <2>2, <2>3
  <1>7. \A i \in DOMAIN t : i < Len(t) => link[t[i]] = t[i + 1]
    <2> TAKE i \in DOMAIN t
    <2> HAVE i < Len(t)
    <2>1. i \in Nat /\ i \in DOMAIN s
      BY <1>2, <1>1
    <2>2. t[i + 1] = s[i]
      BY <2>1, <1>3
    <2>3. CASE i = 1
      <3>1. s # <<>>
        BY <2>1, <1>1
      <3> QED BY <3>1, <2>2, <2>3, <1>3 DEF IsPath
    <2>4. CASE i # 1
      <3>1. i - 1 \in DOMAIN s /\ t[i] = s[i - 1] /\ i - 1 < Len(s) /\ (i - 1) + 1 = i
        BY <2>4, <1>4, <2>1, <1>1
      <3>2. link[s[i - 1]] = s[i]
        BY <3>1 DEF IsPath
      <3> QED BY <3>1, <3>2, <2>2
    <2> QED BY <2>3, <2>4
  <1>8. link[t[Len(t)]] \notin DOMAIN link
    <2>1. CASE s = <<>>
      <3>1. Len(t) = 1
        BY <2>1, <1>2
      <3> QED BY <3>1, <2>1, <1>3 DEF IsPath
    <2>2. CASE s # <<>>
      <3>1. Len(s) \in DOMAIN s
        BY <2>2, <1>1
      <3>2. t[Len(t)] = s[Len(s)]
        BY <3>1, <1>2, <1>3
      <3> QED BY <3>2, <2>2 DEF IsPath
    <2> QED BY <2>1, <2>2
  <1>9. IsPath(link, x, t)
    BY <1>2, <1>3, <1>6, <1>7, <1>8 DEF IsPath
  <1>10. Set(t) = {x} \cup Set(s)
    <2>1. \A i \in DOMAIN t : t[i] \in {x} \cup Set(s)
      BY <1>3, <1>4 DEF Set
    <2>2. x \in Set(t)
      <3>1. 1 \in DOMAIN t
        BY <1>2, <1>1
      <3> QED BY <3>1, <1>3 DEF Set
    <2>3. \A i \in DOMAIN s : s[i] \in Set(t)
      BY <1>3 DEF Set
    <2> QED BY <2>1, <2>2, <2>3 DEF Set
  <1> QED BY <1>9, <1>10 DEF t

LEMMA WithoutFacts ==
    ASSUME NEW B, NEW s \in Seq(B), \A i, j \in DOMAIN s : s[i] = s[j] => i = j,
           NEW i \in DOMAIN s
    PROVE  /\ Without(s, i) \in Seq(B)
           /\ Len(Without(s, i)) = Len(s) - 1
           /\ DOMAIN Without(s, i) = 1..(Len(s) - 1)
           /\ \A j \in 1..(Len(s) - 1) : j < i => Without(s, i)[j] = s[j]
           /\ \A j \in 1..(Len(s) - 1) : j >= i => Without(s, i)[j] = s[j + 1]
           /\ \A j, k \in DOMAIN Without(s, i) : Without(s, i)[j] = Without(s, i)[k] => j = k
           /\ Set(Without(s, i)) = Set(s) \ {s[i]}
PROOF
  <1> DEFINE t == Without(s, i)
  <1>1. Len(s) \in Nat /\ DOMAIN s = 1..Len(s) /\ i \in 1..Len(s)
    OBVIOUS
  <1>2. \A j \in 1..(Len(s) - 1) : j \in DOMAIN s /\ j + 1 \in DOMAIN s
    BY <1>1
  <1>3. t \in Seq(B) /\ Len(t) = Len(s) - 1 /\ DOMAIN t = 1..(Len(s) - 1)
    BY <1>1, <1>2 DEF Without
  <1>4. \A j \in 1..(Len(s) - 1) : /\ j < i => t[j] = s[j]
                                   /\ j >= i => t[j] = s[j + 1]
    BY <1>1 DEF Without
  <1> HIDE DEF t
  <1>5. ASSUME NEW j \in DOMAIN t, NEW k \in DOMAIN t, t[j] = t[k] PROVE j = k
    <2> DEFINE a == IF j < i THEN j ELSE j + 1
               b == IF k < i THEN k ELSE k + 1
    <2>1. j \in 1..(Len(s) - 1) /\ k \in 1..(Len(s) - 1)
      BY <1>3
    <2>2. a \in DOMAIN s /\ b \in DOMAIN s /\ t[j] = s[a] /\ t[k] = s[b]
      BY <2>1, <1>1, <1>2, <1>4
    <2>3. a = b
      BY <2>2, <1>5
    <2>4. (j < i /\ a = j) \/ (j >= i /\ a = j + 1)
      BY <2>1, <1>1
    <2>5. (k < i /\ b = k) \/ (k >= i /\ b = k + 1)
      BY <2>1, <1>1
    <2> HIDE DEF a, b
    <2> QED BY <2>1, <2>3, <2>4, <2>5, <1>1
  <1>6. \A j \in DOMAIN t : t[j] \in Set(s) \ {s[i]}
    <2> TAKE j \in DOMAIN t
    <2>1. j \in 1..(Len(s) - 1)
      BY <1>3
    <2>2. CASE j < i
      <3>1. t[j] = s[j] /\ j \in DOMAIN s /\ j # i
        BY <2>1, <2>2, <1>1, <1>2, <1>4
      <3> QED BY <3>1 DEF Set
    <2>3. CASE ~(j < i)
      <3>1. t[j] = s[j + 1] /\ j + 1 \in DOMAIN s /\ j + 1 # i
        BY <2>1, <2>3, <1>1, <1>2, <1>4
      <3> QED BY <3>1 DEF Set
    <2> QED BY <2>2, <2>3
  <1>7. ASSUME NEW j \in DOMAIN s, s[j] # s[i] PROVE s[j] \in Set(t)
    <2>1. j \in 1..Len(s) /\ j # i
      BY <1>7, <1>1
    <2>2. CASE j < i
      <3>1. j \in DOMAIN t /\ t[j] = s[j]
        BY <2>1, <2>2, <1>1, <1>3, <1>4
      <3> QED BY <3>1 DEF Set
    <2>3. CASE j > i
      <3>1. j - 1 \in 1..(Len(s) - 1) /\ j - 1 >= i /\ (j - 1) + 1 = j
        BY <2>1, <2>3, <1>1
      <3>2. j - 1 \in DOMAIN t /\ t[j - 1] = s[j]
        BY <3>1, <1>3, <1>4
      <3> QED BY <3>2 DEF Set
    <2> QED BY <2>1, <2>2, <2>3, <1>1
  <1>8. Set(t) = Set(s) \ {s[i]}
    BY <1>6, <1>7 DEF Set
  <1> QED BY <1>3, <1>4, <1>5, <1>8 DEF t

(* A block that is not the first is unlinked from a list.                   *)
LEMMA PathCut ==
    ASSUME NEW link, NEW first, NEW s, IsPath(link, first, s),
           NEW i \in DOMAIN s, i > 1,
           NEW new, DOMAIN new = DOMAIN link, new[s[i - 1]] = link[s[i]],
           \A x \in Set(s) : x # s[i - 1] /\ x # s[i] => new[x] = link[x]
    PROVE  IsPath(new, first, Without(s, i))
PROOF
  <1> DEFINE t == Without(s, i)
             n == Len(s) - 1
  <1>1. /\ s \in Seq(DOMAIN link) /\ Len(s) \in Nat /\ DOMAIN s = 1..Len(s)
        /\ i \in 2..Len(s) /\ n \in Nat /\ n >= 1 /\ i - 1 \in 1..n
    BY DEF IsPath
  <1>2. \A j, k \in DOMAIN s : s[j] = s[k] => j = k
    BY DEF IsPath
  <1>3. /\ t \in Seq(DOMAIN link) /\ Len(t) = n /\ DOMAIN t = 1..n
        /\ \A j \in 1..n : j < i => t[j] = s[j]
        /\ \A j \in 1..n : j >= i => t[j] = s[j + 1]
        /\ \A j, k \in DOMAIN t : t[j] = t[k] => j = k
    <2>1. s \in Seq(DOMAIN link)
      BY <1>1
    <2> QED BY ONLY <2>1, i \in DOMAIN s, <1>2, WithoutFacts
  <1>4. \A j \in DOMAIN s : j # i - 1 /\ j # i => new[s[j]] = link[s[j]]
    <2> TAKE j \in DOMAIN s
    <2> HAVE j # i - 1 /\ j # i
    <2>1. s[j] \in Set(s)
      BY DEF Set
    <2>2. s[j] # s[i - 1] /\ s[j] # s[i]
      BY <1>1, <1>2
    <2> QED BY <2>1, <2>2
  <1> HIDE DEF t
  <1>5. t # <<>> /\ first = t[1]
    <2>1. s # <<>> /\ t # <<>>
      BY <1>1, <1>3
    <2>2. t[1] = s[1]
      BY <1>1, <1>3
    <2> QED BY <2>1, <2>2 DEF IsPath
  <1>6. \A j \in DOMAIN t : j < n => new[t[j]] = t[j + 1]
    <2> TAKE j \in DOMAIN t
    <2> HAVE j < n
    <2>1. j \in 1..n /\ j + 1 \in 1..n /\ j + 1 \in DOMAIN s /\ j \in DOMAIN s
      BY <1>1, <1>3
    <2>2. CASE j < i - 1
      <3>1. t[j] = s[j] /\ t[j + 1] = s[j + 1]
        BY <2>1, <2>2, <1>1, <1>3
      <3>2. link[s[j]] = s[j + 1]
        BY <2>1, <2>2, <1>1 DEF IsPath
      <3>3. j # i - 1 /\ j # i
        BY <2>1, <2>2, <1>1
      <3> QED BY <3>1, <3>2, <3>3, <1>4, <2>1
    <2>3. CASE j = i - 1
      <3>1. t[j] = s[i - 1] /\ t[j + 1] = s[i + 1]
        BY <2>1, <2>3, <1>1, <1>3
      <3>2. link[s[i]] = s[i + 1]
        BY <2>1, <2>3, <1>1 DEF IsPath
      <3> QED BY <3>1, <3>2
    <2>4. CASE j > i - 1
      <3>1. t[j] = s[j + 1] /\ t[j + 1] = s[j + 1 + 1]
        BY <2>1, <2>4, <1>1, <1>3
      <3>2. link[s[j + 1]] = s[j + 1 + 1]
        <4>1. j + 1 < Len(s)
          BY <2>1, <1>1
        <4> QED BY <4>1, <2>1 DEF IsPath
      <3>3. j + 1 # i - 1 /\ j + 1 # i
        BY <2>1, <2>4, <1>1
      <3> QED BY <3>1, <3>2, <3>3, <1>4, <2>1
    <2> QED BY <2>1, <2>2, <2>3, <2>4, <1>1
  <1>7. new[t[n]] \notin DOMAIN link
    <2>1. n \in 1..n /\ n + 1 = Len(s) /\ Len(s) \in DOMAIN s /\ s # <<>>
      BY <1>1
    <2>2. link[s[Len(s)]] \notin DOMAIN link
      BY <2>1 DEF IsPath
    <2>3. CASE i = Len(s)
      <3>1. t[n] = s[i - 1]
        BY <2>1, <2>3, <1>1, <1>3
      <3> QED BY <3>1, <2>2, <2>3
    <2>4. CASE i # Len(s)
      <3>1. t[n] = s[Len(s)]
        BY <2>1, <2>4, <1>1, <1>3
      <3>2. Len(s) # i - 1
        BY <1>1
      <3> QED BY <3>1, <3>2, <2>1, <2>2, <2>4, <1>4
    <2> QED BY <2>3, <2>4
  <1> QED BY <1>3, <1>5, <1>6, <1>7 DEF IsPath, t

(* The first block is unlinked.                                             *)
LEMMA PathCutFirst ==
    ASSUME NEW link, NEW first, NEW s, IsPath(link, first, s), s # <<>>,
           NEW new, DOMAIN new = DOMAIN link,
           \A x \in Set(s) : x # first => new[x] = link[x]
    PROVE  IsPath(new, link[first], Without(s, 1))
PROOF
  <1>1. /\ IsPath(link, link[first], Tail(s)) /\ first \notin Set(Tail(s))
        /\ Set(s) = {first} \cup Set(Tail(s))
    BY PathTail
  <1>2. IsPath(new, link[first], Tail(s))
    BY <1>1, PathFrame
  <1>3. s \in Seq(DOMAIN link) /\ Len(s) \in Nat /\ Len(s) > 0
    BY DEF IsPath
  <1>4. Tail(s) = Without(s, 1)
    <2> DEFINE D == DOMAIN link
               t == Tail(s)
               w == Without(s, 1)
    <2>1. 1 \in DOMAIN s /\ \A i, j \in DOMAIN s : s[i] = s[j] => i = j
      BY <1>3 DEF IsPath
    <2>2. w \in Seq(D) /\ Len(w) = Len(s) - 1 /\ \A j \in 1..(Len(s) - 1) : j >= 1 => w[j] = s[j + 1]
      <3>1. \A j \in 1..(Len(s) - 1) : j + 1 \in DOMAIN s /\ j \in DOMAIN s
        BY <1>3
      <3> QED BY <1>3, <3>1 DEF Without
    <2>3. t \in Seq(D) /\ Len(t) = Len(s) - 1 /\ \A j \in 1..(Len(s) - 1) : t[j] = s[j + 1]
      BY <1>3
    <2> HIDE DEF t, w, D
    <2>4. \A j \in 1..Len(t) : t[j] = w[j]
      BY <2>2, <2>3
    <2>5. t = w
      BY <2>2, <2>3, <2>4, SeqEqual
    <2> QED BY <2>5 DEF t, w
  <1> QED BY <1>2, <1>4

(* The links back when a block is unlinked.                                 *)
LEMMA BackCut ==
    ASSUME NEW B, NEW s \in Seq(B), \A i, j \in DOMAIN s : s[i] = s[j] => i = j,
           NEW i \in DOMAIN s, NEW back, NEW null, IsBack(back, null, s),
           NEW new,
           i < Len(s) => new[s[i + 1]] = back[s[i]],
           \A j \in DOMAIN s : j # i /\ j # i + 1 => new[s[j]] = back[s[j]]
    PROVE  IsBack(new, null, Without(s, i))
PROOF
  <1> DEFINE t == Without(s, i)
             n == Len(s) - 1
  <1>1. Len(s) \in Nat /\ DOMAIN s = 1..Len(s) /\ i \in 1..Len(s) /\ n \in Nat
    OBVIOUS
  <1>2. /\ DOMAIN t = 1..n
        /\ \A j \in 1..n : j < i => t[j] = s[j]
        /\ \A j \in 1..n : j >= i => t[j] = s[j + 1]
    BY <1>1, WithoutFacts, SMTT(40), ZenonT(40)
  <1> HIDE DEF t
  <1>3. ASSUME NEW j \in DOMAIN t PROVE new[t[j]] = IF j = 1 THEN null ELSE t[j - 1]
    <2>1. j \in 1..n /\ j \in DOMAIN s /\ j + 1 \in DOMAIN s /\ (j + 1) - 1 = j /\ j + 1 # 1
      BY <1>1, <1>2
    <2>2. CASE j < i
      <3>1. t[j] = s[j] /\ new[s[j]] = back[s[j]]
        BY <2>1, <2>2, <1>1, <1>2
      <3>2. j # 1 => j - 1 \in 1..n /\ j - 1 < i
        BY <2>1, <2>2, <1>1
      <3>3. j # 1 => t[j - 1] = s[j - 1]
        BY <3>2, <1>2
      <3> QED BY <3>1, <3>3, <2>1 DEF IsBack
    <2>3. CASE j = i
      <3>1. t[j] = s[i + 1] /\ new[s[i + 1]] = back[s[i]]
        BY <2>1, <2>3, <1>1, <1>2
      <3>2. j # 1 => j - 1 \in 1..n /\ j - 1 < i
        BY <2>1, <2>3, <1>1
      <3>3. j # 1 => t[j - 1] = s[j - 1]
        BY <3>2, <1>2
      <3> QED BY <3>1, <3>3, <2>3 DEF IsBack
    <2>4. CASE j > i
      <3>1. t[j] = s[j + 1] /\ new[s[j + 1]] = back[s[j + 1]]
        BY <2>1, <2>4, <1>1, <1>2
      <3>2. j # 1 /\ j - 1 \in 1..n /\ j - 1 >= i /\ (j - 1) + 1 = j
        BY <2>1, <2>4, <1>1
      <3>3. t[j - 1] = s[j]
        BY <3>2, <1>2
      <3>4. back[s[j + 1]] = s[j]
        BY <2>1 DEF IsBack
      <3> QED BY <3>1, <3>2, <3>3, <3>4
    <2> QED BY <2>1, <2>2, <2>3, <2>4, <1>1
  <1> QED BY <1>3 DEF IsBack, t

LEMMA ConcatFacts ==
    ASSUME NEW B, NEW s \in Seq(B), NEW t \in Seq(B)
    PROVE  /\ s \o t \in Seq(B)
           /\ Len(s \o t) = Len(s) + Len(t)
           /\ DOMAIN (s \o t) = 1..(Len(s) + Len(t))
           /\ \A i \in 1..Len(s) : (s \o t)[i] = s[i]
           /\ \A i \in 1..Len(t) : (s \o t)[Len(s) + i] = t[i]
           /\ \A i \in 1..(Len(s) + Len(t)) : i > Len(s) => (s \o t)[i] = t[i - Len(s)]
           /\ Set(s \o t) = Set(s) \cup Set(t)
PROOF
  <1> DEFINE c == s \o t
             m == Len(s)
             n == Len(t)
  <1>1. m \in Nat /\ n \in Nat /\ DOMAIN s = 1..m /\ DOMAIN t = 1..n
    OBVIOUS
  <1>2. c \in Seq(B) /\ Len(c) = m + n /\ DOMAIN c = 1..(m + n)
    OBVIOUS
  <1>3. \A i \in 1..(m + n) : c[i] = IF i <= m THEN s[i] ELSE t[i - m]
    BY ConcatProperties
  <1> HIDE DEF c, m, n
  <1>4. \A i \in 1..m : c[i] = s[i] /\ i \in DOMAIN c
    BY <1>1, <1>2, <1>3
  <1>5. \A i \in 1..n : c[m + i] = t[i] /\ m + i \in DOMAIN c
    <2> TAKE i \in 1..n
    <2>1. m + i \in 1..(m + n) /\ ~(m + i <= m) /\ (m + i) - m = i
      BY <1>1
    <2> QED BY <2>1, <1>2, <1>3
  <1>6. \A i \in 1..(m + n) : i > m => c[i] = t[i - m] /\ i - m \in 1..n
    BY <1>1, <1>3
  <1>7. Set(c) = Set(s) \cup Set(t)
    <2>1. \A i \in DOMAIN c : c[i] \in Set(s) \cup Set(t)
      <3> TAKE i \in DOMAIN c
      <3>1. CASE i <= m
        <4>1. i \in DOMAIN s /\ c[i] = s[i]
          BY <3>1, <1>1, <1>2, <1>3
        <4> QED BY <4>1 DEF Set
      <3>2. CASE i > m
        <4>1. i - m \in DOMAIN t /\ c[i] = t[i - m]
          BY <3>2, <1>1, <1>2, <1>6
        <4> QED BY <4>1 DEF Set
      <3> QED BY <3>1, <3>2, <1>1, <1>2
    <2>2. \A i \in DOMAIN s : s[i] \in Set(c)
      BY <1>1, <1>4 DEF Set
    <2>3. \A i \in DOMAIN t : t[i] \in Set(c)
      BY <1>1, <1>5 DEF Set
    <2> QED BY <2>1, <2>2, <2>3 DEF Set
  <1> QED BY <1>2, <1>4, <1>5, <1>6, <1>7 DEF c, m, n

(* Two lists become one when the last link of the first is set.             *)
LEMMA PathJoin ==
    ASSUME NEW link, NEW first, NEW s, IsPath(link, first, s), s # <<>>,
           NEW second, NEW t, IsPath(link, second, t), Set(s) \cap Set(t) = {},
           NEW new, DOMAIN new = DOMAIN link, new[s[Len(s)]] = second,
           \A x \in Set(s) \cup Set(t) : x # s[Len(s)] => new[x] = link[x]
    PROVE  IsPath(new, first, s \o t)
PROOF
  <1> DEFINE c == s \o t
             m == Len(s)
             n == Len(t)
             D == DOMAIN link
  <1>1. /\ s \in Seq(D) /\ t \in Seq(D) /\ m \in Nat /\ n \in Nat
        /\ DOMAIN s = 1..m /\ DOMAIN t = 1..n /\ m > 0 /\ m \in DOMAIN s
    BY DEF IsPath
  <1>2. /\ c \in Seq(D) /\ Len(c) = m + n /\ DOMAIN c = 1..(m + n)
        /\ \A i \in 1..m : c[i] = s[i]
        /\ \A i \in 1..n : c[m + i] = t[i]
        /\ \A i \in 1..(m + n) : i > m => c[i] = t[i - m]
    BY <1>1, ConcatFacts
  <1> HIDE DEF c
  <1>3. \A i \in DOMAIN s : s[i] \in Set(s)
    BY DEF Set
  <1>4. \A i \in DOMAIN t : t[i] \in Set(t)
    BY DEF Set
  <1>5. \A i, j \in DOMAIN s : s[i] = s[j] => i = j
    BY DEF IsPath
  <1>6. \A i, j \in DOMAIN t : t[i] = t[j] => i = j
    BY DEF IsPath
  <1>7. \A i \in DOMAIN s, j \in DOMAIN t : s[i] # t[j]
    BY <1>3, <1>4
  <1>8. \A i \in DOMAIN s : i < m => new[s[i]] = s[i + 1]
    <2> TAKE i \in DOMAIN s
    <2> HAVE i < m
    <2>1. s[i] # s[m]
      BY <1>1, <1>5
    <2>2. new[s[i]] = link[s[i]]
      BY <2>1, <1>3
    <2> QED BY <2>2 DEF IsPath
  <1>9. \A i \in DOMAIN t : new[t[i]] = link[t[i]]
    BY <1>1, <1>4, <1>7
  <1>10. \A i, j \in DOMAIN c : c[i] = c[j] => i = j
    <2> TAKE i, j \in DOMAIN c
    <2> HAVE c[i] = c[j]
    <2>1. i \in 1..(m + n) /\ j \in 1..(m + n)
      BY <1>2
    <2>2. (i <= m /\ i \in DOMAIN s /\ c[i] = s[i]) \/ (i > m /\ i - m \in DOMAIN t /\ c[i] = t[i - m])
      BY <2>1, <1>1, <1>2
    <2>3. (j <= m /\ j \in DOMAIN s /\ c[j] = s[j]) \/ (j > m /\ j - m \in DOMAIN t /\ c[j] = t[j - m])
      BY <2>1, <1>1, <1>2
    <2>4. CASE i <= m /\ j <= m
      BY <2>1, <2>2, <2>3, <2>4, <1>1, <1>5
    <2>5. CASE i > m /\ j > m
      <3>1. i - m = j - m
        BY <2>1, <2>2, <2>3, <2>5, <1>1, <1>6
      <3> QED BY <3>1, <2>1, <1>1
    <2> QED BY <2>1, <2>2, <2>3, <2>4, <2>5, <1>1, <1>7
  <1>11. \A i \in DOMAIN c : i < m + n => new[c[i]] = c[i + 1]
    <2> TAKE i \in DOMAIN c
    <2> HAVE i < m + n
    <2>1. i \in 1..(m + n) /\ i + 1 \in 1..(m + n)
      BY <1>1, <1>2
    <2>2. CASE i < m
      <3>1. i \in DOMAIN s /\ c[i] = s[i] /\ c[i + 1] = s[i + 1]
        BY <2>1, <2>2, <1>1, <1>2
      <3> QED BY <3>1, <2>2, <1>8
    <2>3. CASE i = m
      <3>1. 1 \in 1..n /\ t # <<>>
        BY <2>1, <2>3, <1>1
      <3>2. c[i] = s[m] /\ c[i + 1] = t[1]
        BY <3>1, <2>3, <1>1, <1>2
      <3> QED BY <3>1, <3>2 DEF IsPath
    <2>4. CASE i > m
      <3>1. i - m \in DOMAIN t /\ i - m < n /\ (i + 1) - m = (i - m) + 1 /\ i + 1 > m
        BY <2>1, <2>4, <1>1
      <3>2. c[i] = t[i - m] /\ c[i + 1] = t[(i - m) + 1]
        BY <2>1, <2>4, <3>1, <1>2
      <3>3. link[t[i - m]] = t[(i - m) + 1]
        BY <3>1 DEF IsPath
      <3> QED BY <3>1, <3>2, <3>3, <1>9
    <2> QED BY <2>1, <2>2, <2>3, <2>4, <1>1
  <1>12. new[c[m + n]] \notin D
    <2>1. CASE t = <<>>
      <3>1. n = 0
        BY <2>1
      <3>2. c[m + n] = s[m]
        BY <3>1, <1>1, <1>2
      <3> QED BY <3>2, <2>1 DEF IsPath
    <2>2. CASE t # <<>>
      <3>1. n \in DOMAIN t
        BY <2>2, <1>1
      <3>2. c[m + n] = t[n]
        BY <3>1, <1>1, <1>2
      <3> QED BY <3>1, <3>2, <2>2, <1>9 DEF IsPath
    <2> QED BY <2>1, <2>2
  <1>13. c # <<>> /\ first = c[1]
    <2>1. c # <<>>
      BY <1>1, <1>2
    <2>2. c[1] = s[1]
      BY <1>1, <1>2
    <2> QED BY <2>1, <2>2 DEF IsPath
  <1> QED BY <1>2, <1>10, <1>11, <1>12, <1>13 DEF IsPath, c

(* The links back of two lists put together.                                *)
LEMMA BackJoin ==
    ASSUME NEW B, NEW s \in Seq(B), s # <<>>, NEW t \in Seq(B),
           NEW back, NEW null, IsBack(back, null, s), IsBack(back, null, t),
           NEW new, \A x \in Set(s) : new[x] = back[x],
           t # <<>> => new[t[1]] = s[Len(s)],
           \A i \in DOMAIN t : i # 1 => new[t[i]] = back[t[i]]
    PROVE  IsBack(new, null, s \o t)
PROOF
  <1> DEFINE c == s \o t
             m == Len(s)
             n == Len(t)
  <1>1. /\ m \in Nat /\ n \in Nat /\ DOMAIN s = 1..m /\ DOMAIN t = 1..n /\ m > 0
    OBVIOUS
  <1>2. /\ DOMAIN c = 1..(m + n)
        /\ \A i \in 1..m : c[i] = s[i]
        /\ \A i \in 1..(m + n) : i > m => c[i] = t[i - m]
    BY ConcatFacts
  <1> HIDE DEF c
  <1>3. ASSUME NEW i \in DOMAIN c PROVE new[c[i]] = IF i = 1 THEN null ELSE c[i - 1]
    <2>1. i \in 1..(m + n)
      BY <1>2
    <2>2. CASE i <= m
      <3>1. i \in DOMAIN s /\ c[i] = s[i]
        BY <2>1, <2>2, <1>1, <1>2
      <3>2. new[s[i]] = back[s[i]]
        BY <3>1 DEF Set
      <3>3. i # 1 => c[i - 1] = s[i - 1]
        BY <2>1, <2>2, <1>1, <1>2
      <3> QED BY <3>1, <3>2, <3>3 DEF IsBack
    <2>3. CASE i = m + 1
      <3>1. i # 1 /\ i - m = 1 /\ i > m /\ i - 1 = m /\ m \in 1..m /\ t # <<>>
        BY <2>1, <2>3, <1>1
      <3>2. c[i] = t[1] /\ c[i - 1] = s[m]
        BY <2>1, <3>1, <1>2
      <3> QED BY <3>1, <3>2
    <2>4. CASE i > m + 1
      <3>1. /\ i # 1 /\ i > m /\ i - 1 > m /\ i - 1 \in 1..(m + n)
            /\ i - m \in DOMAIN t /\ i - m # 1 /\ (i - 1) - m = (i - m) - 1
        BY <2>1, <2>4, <1>1
      <3>2. c[i] = t[i - m] /\ c[i - 1] = t[(i - m) - 1]
        BY <2>1, <3>1, <1>2
      <3>3. back[t[i - m]] = t[(i - m) - 1]
        BY <3>1 DEF IsBack
      <3> QED BY <3>1, <3>2, <3>3
    <2> QED BY <2>1, <2>2, <2>3, <2>4, <1>1
  <1> QED BY <1>3 DEF IsBack, c

(* The block before s[i] is the only one that leads to it.                  *)
LEMMA PathBefore ==
    ASSUME NEW link, NEW first, NEW s, IsPath(link, first, s),
           NEW x \in Set(s), link[x] \in DOMAIN link
    PROVE  /\ link[x] \in Set(s)
           /\ \A i \in DOMAIN s : s[i] = link[x] => i > 1 /\ s[i - 1] = x
PROOF
  <1>1. s \in Seq(DOMAIN link) /\ Len(s) \in Nat /\ DOMAIN s = 1..Len(s)
    BY DEF IsPath
  <1>2. PICK j \in DOMAIN s : x = s[j]
    BY DEF Set
  <1>3. j < Len(s)
    <2>1. s # <<>>
      BY <1>1, <1>2
    <2>2. link[s[Len(s)]] \notin DOMAIN link
      BY <2>1 DEF IsPath
    <2>3. j # Len(s)
      BY <2>2, <1>2
    <2> QED BY <2>3, <1>1
  <1>4. link[x] = s[j + 1] /\ j + 1 \in DOMAIN s
    BY <1>1, <1>2, <1>3 DEF IsPath
  <1>5. \A i \in DOMAIN s : s[i] = link[x] => i = j + 1
    BY <1>4 DEF IsPath
  <1>6. \A i \in DOMAIN s : s[i] = link[x] => i > 1 /\ s[i - 1] = x
    BY <1>1, <1>2, <1>5
  <1> QED BY <1>4, <1>6 DEF Set
===============================================================
