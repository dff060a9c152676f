-------------------------- MODULE C3NetworksProofs --------------------------
(***************************************************************************)
(* Proofs about the C3 and C3i networks, for any number of units, masters  *)
(* and slots.  The arrays stay packed, without repetitions and inside      *)
(* their bounds; and while the networks are settled they agree, which      *)
(* needs to be proved together with the fact that the masters of every     *)
(* network carry it, so that trimming takes nobody away.                   *)
(***************************************************************************)
EXTENDS C3Networks, ListSelectionProofs

\* What the operations read of the units.
UnitsOK ==
    /\ fleet \in Fleets
    /\ team \in [Units -> Teams] /\ mapindex \in [Units -> Maps \cup {None}]
    /\ dead \in [Units -> BOOLEAN] /\ broken \in [Units -> BOOLEAN]
    /\ masters \in [Units -> Nat]

\* A list of members for u's array.
Roster(u, list) ==
    /\ list \in Seq(Units) /\ Len(list) <= Slots(u)
    /\ \A i, j \in DOMAIN list : list[i] = list[j] => i = j
    /\ \A i \in DOMAIN list : list[i] # u

\* An array as a command leaves it before it is validated: there may be gaps.
Draft(u, n) ==
    /\ n.elem \in [1..Slots(u) -> Units \cup {None}]
    /\ n.size \in Int /\ n.size <= Slots(u)
    /\ \A i, j \in 1..n.size : n.elem[i] = n.elem[j] /\ n.elem[i] # None => i = j
    /\ \A i \in 1..n.size : n.elem[i] # u

Arrays(u) == [elem : [1..Slots(u) -> Units \cup {None}], size : -1..Slots(u)]

ArrayOK(u, n) ==
    /\ n \in Arrays(u) /\ Draft(u, n)
    /\ n.size >= 0 => \A i \in 1..Slots(u) : (n.elem[i] # None) <=> (i <= n.size)

AllOK(ns) == DOMAIN ns = Units /\ \A u \in Units : ArrayOK(u, ns[u])

-----------------------------------------------------------------------------
LEMMA SlotsType ==
    ASSUME NEW u
    PROVE  Slots(u) \in Nat \ {0}
BY C3Assumption DEF Slots

LEMMA SumType ==
    ASSUME NEW list \in Seq(Units), masters \in [Units -> Nat]
    PROVE  SumOf(list) \in Nat
<1> DEFINE D == DOMAIN list
           f == [i \in D |-> {i} \X (1..masters[list[i]])]
           T == {{i} \X (1..masters[list[i]]) : i \in D}
<1>1. IsFiniteSet(D)
  <2>1. D = 1..Len(list) /\ Len(list) \in Nat
    OBVIOUS
  <2> QED
    BY <2>1, FS_Interval
<1>2. f \in Surjection(D, T)
  BY DEF Surjection
<1>3. IsFiniteSet(T)
  BY <1>1, <1>2, FS_Surjection
<1>4. ASSUME NEW X \in T
      PROVE  IsFiniteSet(X)
  <2>1. PICK i \in D : X = {i} \X (1..masters[list[i]])
    OBVIOUS
  <2>2. masters[list[i]] \in Nat
    OBVIOUS
  <2>3. IsFiniteSet({i})
    BY FS_Singleton
  <2>4. IsFiniteSet(1..masters[list[i]])
    BY <2>2, FS_Interval
  <2> QED
    BY <2>1, <2>3, <2>4, FS_Product
<1>5. IsFiniteSet(UNION T)
  BY <1>3, <1>4, FS_UNION
<1> QED
  BY <1>5, FS_CardinalityType DEF SumOf

LEMMA OthersRoster ==
    ASSUME NEW u \in Units, NEW n, Draft(u, n)
    PROVE  Roster(u, Others(n, u))
<1> DEFINE S == {i \in 1..n.size : n.elem[i] # None /\ Linked(u, n.elem[i])}
           B == Units \cup {None}
           p == Others(n, u)
<1>1. n.elem \in Seq(B) /\ Len(n.elem) = Slots(u) /\ DOMAIN n.elem = 1..Slots(u)
  BY SlotsType, SeqDef DEF Draft
<1>2. S \in SUBSET DOMAIN n.elem
  BY <1>1, SlotsType DEF Draft
<1>3. \A x, y \in S : n.elem[x] = n.elem[y] => x = y
  BY DEF Draft
<1>4. p = Pick(n.elem, S)
  BY DEF Others
<1> HIDE DEF S, B, p
<1>5. p \in Seq(B) /\ Len(p) <= Slots(u)
  BY <1>1, <1>2, <1>4, PickFacts, SlotsType
<1>6. /\ \A i \in DOMAIN p : \E x \in S : p[i] = n.elem[x]
      /\ \A i, j \in DOMAIN p : p[i] = p[j] => i = j
  BY <1>1, <1>2, <1>3, <1>4, PickDistinct
<1>7. \A i \in DOMAIN p : p[i] \in Units /\ p[i] # u
  BY <1>1, <1>2, <1>6 DEF Draft, S
<1>8. p \in Seq(Units)
  BY <1>5, <1>7, SeqDef
<1> QED
  BY <1>5, <1>6, <1>7, <1>8 DEF Roster, p

LEMMA FilledOK ==
    ASSUME NEW u \in Units, NEW list, Roster(u, list)
    PROVE  ArrayOK(u, Filled(u, list)) /\ Filled(u, list).size >= 0
<1> DEFINE n == Filled(u, list)
           e == [i \in 1..Slots(u) |-> IF i <= Len(list) THEN list[i] ELSE None]
<1>1. n.elem = e /\ n.size = Len(list) /\ n = [elem |-> e, size |-> Len(list)]
  BY DEF Filled
<1>2. /\ list \in Seq(Units) /\ DOMAIN list = 1..Len(list) /\ Len(list) \in Nat
      /\ Len(list) <= Slots(u) /\ Slots(u) \in Nat
  BY SlotsType DEF Roster
<1>3. \A i \in 1..Len(list) : list[i] \in Units /\ list[i] # None /\ list[i] # u
  BY <1>2, C3Assumption DEF Roster
<1>4. e \in [1..Slots(u) -> Units \cup {None}]
  BY <1>2, <1>3
<1>5. \A i \in 1..Slots(u) : (e[i] # None) <=> (i <= Len(list))
  BY <1>2, <1>3
<1>6. \A i \in 1..Len(list) : i \in 1..Slots(u) /\ e[i] = list[i]
  BY <1>2
<1>7. Len(list) \in -1..Slots(u)
  BY <1>2
<1> HIDE DEF e
<1>8. n \in Arrays(u)
  BY <1>1, <1>4, <1>7 DEF Arrays
<1>9. \A i, j \in 1..Len(list) : e[i] = e[j] => i = j
  BY <1>2, <1>6 DEF Roster
<1>10. Draft(u, n)
  BY <1>1, <1>2, <1>3, <1>4, <1>6, <1>9 DEF Draft
<1> HIDE DEF n
<1> QED
  BY <1>1, <1>2, <1>5, <1>8, <1>10 DEF ArrayOK, n

LEMMA MaxType ==
    ASSUME UnitsOK, NEW u \in Units, NEW list \in Seq(Units), NEW more \in Seq(Units)
    PROVE  countMaxC3Units(u, list, more) \in Int
<1>1. SumOf(list) \in Nat /\ SumOf(more) \in Nat /\ masters[u] \in Nat
  BY SumType DEF UnitsOK
<1> QED
  BY <1>1, C3Assumption DEF countMaxC3Units, AtMost

\* The first k of a list, or none.
LEMMA FirstOf ==
    ASSUME NEW B, NEW list \in Seq(B), NEW k \in Int, k <= Len(list)
    PROVE  /\ SubSeq(list, 1, k) \in Seq(B) /\ Len(SubSeq(list, 1, k)) <= Len(list)
           /\ \A i \in 1..Len(SubSeq(list, 1, k)) :
                i \in 1..Len(list) /\ SubSeq(list, 1, k)[i] = list[i]
<1>1. \A i \in 1..k : list[i] \in B
  OBVIOUS
<1>2. /\ SubSeq(list, 1, k) \in Seq(B)
      /\ Len(SubSeq(list, 1, k)) = IF 1 <= k THEN k - 1 + 1 ELSE 0
      /\ \A i \in 1..(k - 1 + 1) : SubSeq(list, 1, k)[i] = list[1 + i - 1]
  BY <1>1, SubSeqProperties
<1>3. Len(list) \in Nat
  OBVIOUS
<1> QED
  BY <1>2, <1>3

\* The masters first, then slaves: no more than there were.
LEMMA TrimRoster ==
    ASSUME UnitsOK, NEW u \in Units, NEW list, Roster(u, list)
    PROVE  /\ Roster(u, trimC3Network(u, list))
           /\ \A i \in DOMAIN trimC3Network(u, list) :
                 \E x \in DOMAIN list : trimC3Network(u, list)[i] = list[x]
<1> DEFINE D == DOMAIN list
           M == {i \in D : masters[list[i]] > 0}
           S == {i \in D : masters[list[i]] = 0}
           Ms == Pick(list, M)
           Ss == Pick(list, S)
           max == countMaxC3Units(u, list, << >>)
           k == AtMost(Len(Ss), max - Len(Ms))
           c == SubSeq(Ss, 1, k)
           r == Ms \o c
<1>1. list \in Seq(Units) /\ D = 1..Len(list) /\ Len(list) \in Nat
  BY DEF Roster
<1>2. \A x \in D : list[x] # u /\ masters[list[x]] \in Nat
  BY <1>1 DEF Roster, UnitsOK
<1>3. \A x, y \in D : list[x] = list[y] => x = y
  BY DEF Roster
<1>4. M \in SUBSET D /\ S \in SUBSET D /\ M \cap S = {}
  BY <1>2
<1>5. max \in Int
  <2>1. << >> \in Seq(Units)
    OBVIOUS
  <2> QED
    BY <1>1, <2>1, MaxType
<1>6. \A x \in M : list[x] # u /\ masters[list[x]] > 0
  BY <1>2
<1>7. \A x \in S : list[x] # u /\ masters[list[x]] = 0
  BY <1>2
<1>8. IF max >= Len(list) THEN trimC3Network(u, list) = list ELSE trimC3Network(u, list) = r
  BY DEF trimC3Network
<1> HIDE DEF M, S, max
<1>9. /\ Ms \in Seq(Units) /\ DOMAIN Ms = 1..Cardinality(M) /\ Len(Ms) = Cardinality(M)
      /\ Ss \in Seq(Units) /\ DOMAIN Ss = 1..Cardinality(S) /\ Len(Ss) = Cardinality(S)
  BY <1>1, <1>4, PickFacts
<1>10. /\ \A i \in DOMAIN Ms : \E x \in M : Ms[i] = list[x]
       /\ \A i, j \in DOMAIN Ms : Ms[i] = Ms[j] => i = j
  BY <1>1, <1>3, <1>4, PickDistinct
<1>11. /\ \A i \in DOMAIN Ss : \E x \in S : Ss[i] = list[x]
       /\ \A i, j \in DOMAIN Ss : Ss[i] = Ss[j] => i = j
  BY <1>1, <1>3, <1>4, PickDistinct
<1>12. Cardinality(M) + Cardinality(S) <= Len(list)
  <2>1. IsFiniteSet(D) /\ Cardinality(D) = Len(list)
    <3>1. IsFiniteSet(1..Len(list)) /\ Cardinality(1..Len(list)) = Len(list)
      BY <1>1, FS_Interval, SMTT(30), ZenonT(30)
    <3> QED
      BY <1>1, <3>1
  <2>2. IsFiniteSet(M) /\ IsFiniteSet(S)
    BY <1>4, <2>1, FS_Subset
  <2>3. Cardinality(M \cup S) = Cardinality(M) + Cardinality(S)
    BY <1>4, <2>2, Disjoint
  <2>4. M \cup S \in SUBSET D
    BY <1>4
  <2>5. Cardinality(M \cup S) <= Cardinality(D)
    BY <2>1, <2>4, FS_Subset
  <2> QED
    BY <2>1, <2>3, <2>5
<1> HIDE DEF Ms, Ss, D
<1>13. Len(Ms) \in Nat /\ Len(Ss) \in Nat
  BY <1>9
<1>14. k \in Int /\ k <= Len(Ss)
  BY <1>5, <1>13 DEF AtMost
<1> HIDE DEF k
<1>15. /\ c \in Seq(Units) /\ Len(c) <= Len(Ss)
       /\ \A i \in 1..Len(c) : i \in 1..Len(Ss) /\ c[i] = Ss[i]
  BY <1>9, <1>14, FirstOf
<1> HIDE DEF c
<1>16. Len(c) \in Nat
  BY <1>15
<1>17. /\ r \in Seq(Units) /\ Len(r) = Len(Ms) + Len(c)
       /\ \A i \in 1..(Len(Ms) + Len(c)) : r[i] = IF i <= Len(Ms) THEN Ms[i] ELSE c[i - Len(Ms)]
  BY <1>9, <1>15, ConcatProperties
<1> HIDE DEF r
<1>18. Len(r) <= Slots(u)
  BY <1>9, <1>12, <1>13, <1>15, <1>16, <1>17, <1>1, SlotsType DEF Roster
<1>19. \A i \in 1..Len(Ms) : Ms[i] # u /\ masters[Ms[i]] > 0
  BY <1>6, <1>9, <1>10
<1>20. \A i \in 1..Len(c) : c[i] # u /\ masters[c[i]] = 0
  BY <1>7, <1>9, <1>11, <1>15
<1>21. \A i, j \in 1..Len(Ms) : Ms[i] = Ms[j] => i = j
  BY <1>9, <1>10
<1>22. \A i, j \in 1..Len(c) : c[i] = c[j] => i = j
  BY <1>9, <1>11, <1>15
<1>23. ASSUME NEW i \in 1..Len(r)
       PROVE  \/ i \in 1..Len(Ms) /\ r[i] = Ms[i]
              \/ i - Len(Ms) \in 1..Len(c) /\ r[i] = c[i - Len(Ms)]
  BY <1>13, <1>16, <1>17
<1>24. \A i \in 1..Len(r) : r[i] # u
  BY <1>19, <1>20, <1>23
<1>25. \A i, j \in 1..Len(r) : r[i] = r[j] => i = j
  <2> SUFFICES ASSUME NEW i \in 1..Len(r), NEW j \in 1..Len(r), r[i] = r[j]
               PROVE  i = j
    OBVIOUS
  <2>1. CASE i \in 1..Len(Ms) /\ r[i] = Ms[i] /\ j \in 1..Len(Ms) /\ r[j] = Ms[j]
    BY <1>21, <2>1
  <2>2. CASE /\ i - Len(Ms) \in 1..Len(c) /\ r[i] = c[i - Len(Ms)]
             /\ j - Len(Ms) \in 1..Len(c) /\ r[j] = c[j - Len(Ms)]
    <3>1. i - Len(Ms) = j - Len(Ms)
      BY <1>22, <2>2
    <3> QED
      BY <1>13, <3>1
  <2>3. CASE i \in 1..Len(Ms) /\ r[i] = Ms[i] /\ j - Len(Ms) \in 1..Len(c) /\ r[j] = c[j - Len(Ms)]
    <3>1. masters[r[i]] > 0 /\ masters[r[i]] = 0
      BY <1>19, <1>20, <2>3
    <3> QED
      BY <3>1
  <2>4. CASE j \in 1..Len(Ms) /\ r[j] = Ms[j] /\ i - Len(Ms) \in 1..Len(c) /\ r[i] = c[i - Len(Ms)]
    <3>1. masters[r[i]] > 0 /\ masters[r[i]] = 0
      BY <1>19, <1>20, <2>4
    <3> QED
      BY <3>1
  <2> QED
    BY <1>23, <2>1, <2>2, <2>3, <2>4
<1>26. Roster(u, r)
  BY <1>17, <1>18, <1>24, <1>25 DEF Roster
<1>27. \A i \in 1..Len(c) : \E x \in S : c[i] = list[x]
  BY <1>9, <1>11, <1>15
<1>28. \A i \in DOMAIN r : \E x \in D : r[i] = list[x]
  <2>1. DOMAIN r = 1..Len(r) /\ DOMAIN Ms = 1..Len(Ms)
    BY <1>9, <1>17
  <2> QED
    BY <1>4, <1>10, <1>23, <1>27, <2>1
<1>29. trimC3Network(u, list) = list \/ trimC3Network(u, list) = r
  BY <1>8
<1> QED
  BY <1>26, <1>28, <1>29 DEF D

LEMMA KeptOK ==
    ASSUME UnitsOK, NEW u \in Units, NEW n, Draft(u, n)
    PROVE  ArrayOK(u, Kept(n, u)) /\ Kept(n, u).size >= 0
BY OthersRoster, TrimRoster, FilledOK DEF Kept

LEMMA EmptyOK ==
    ASSUME NEW u \in Units
    PROVE  ArrayOK(u, Empty(u)) /\ Empty(u).size >= 0
<1>1. Roster(u, << >>)
  BY SlotsType DEF Roster
<1> QED
  BY <1>1, FilledOK DEF Empty

-----------------------------------------------------------------------------
\* The operations on all arrays.

LEMMA CutOK ==
    ASSUME UnitsOK, NEW ns, AllOK(ns), NEW u \in Units, NEW v \in Units
    PROVE  ArrayOK(v, clearMechFromC3Network(ns, u, v))
<1> DEFINE n == ns[v]
           e == [i \in 1..Slots(v) |-> IF n.elem[i] = u THEN None ELSE n.elem[i]]
           cut == [n EXCEPT !.elem = e]
<1>1. ArrayOK(v, n)
  BY DEF AllOK
<1>2. n.elem \in [1..Slots(v) -> Units \cup {None}]
  BY <1>1 DEF ArrayOK, Draft
<1>3. e \in [1..Slots(v) -> Units \cup {None}]
  BY <1>2
<1>4. \A i \in 1..Slots(v) : e[i] = None \/ e[i] = n.elem[i]
  OBVIOUS
<1>5. n \in Arrays(v) /\ Slots(v) \in Nat
  BY <1>1, SlotsType DEF ArrayOK
<1> HIDE DEF e
<1>6. cut.elem = e /\ cut.size = n.size
  BY <1>5 DEF Arrays
<1>7. \A i \in 1..n.size : i \in 1..Slots(v)
  BY <1>1, <1>5 DEF ArrayOK, Draft
<1>8. None # v
  BY C3Assumption
<1> HIDE DEF cut
<1>9. Draft(v, cut)
  BY <1>1, <1>3, <1>4, <1>6, <1>7, <1>8 DEF ArrayOK, Draft
<1>10. clearMechFromC3Network(ns, u, v) =
         IF n.size = 0 THEN n ELSE IF n.size < 0 THEN Empty(v) ELSE Kept(cut, v)
  BY DEF clearMechFromC3Network, cut, e
<1> QED
  BY <1>1, <1>9, <1>10, EmptyOK, KeptOK

LEMMA ClearOK ==
    ASSUME UnitsOK, NEW ns, AllOK(ns), NEW u \in Units, NEW others \in BOOLEAN
    PROVE  AllOK(clearC3Network(ns, u, others)) /\ clearC3Network(ns, u, others)[u].size >= 0
<1> DEFINE r == clearC3Network(ns, u, others)
<1>1. DOMAIN r = Units
  BY DEF clearC3Network
<1>2. r[u] = Empty(u)
  BY DEF clearC3Network
<1>3. ASSUME NEW v \in Units
      PROVE  r[v] \in {Empty(v), clearMechFromC3Network(ns, u, v), ns[v]}
  BY DEF clearC3Network
<1>4. \A v \in Units : ArrayOK(v, r[v])
  BY <1>3, EmptyOK, CutOK DEF AllOK
<1> HIDE DEF r
<1> QED
  BY <1>1, <1>2, <1>4, EmptyOK DEF AllOK, r

LEMMA ValidateOK ==
    ASSUME UnitsOK, NEW ns, AllOK(ns), NEW u \in Units
    PROVE  AllOK(validateC3Network(ns, u)) /\ validateC3Network(ns, u)[u].size >= 0
<1>1. CASE dead[u] \/ broken[u] \/ ns[u].size < 0
  BY <1>1, ClearOK DEF validateC3Network
<1>2. CASE ~(dead[u] \/ broken[u] \/ ns[u].size < 0)
  <2> DEFINE k == Kept(ns[u], u)
             r == [ns EXCEPT ![u] = k]
  <2>1. ArrayOK(u, k) /\ k.size >= 0
    BY KeptOK DEF AllOK, ArrayOK
  <2> HIDE DEF k
  <2>2. DOMAIN r = Units /\ r[u] = k /\ \A v \in Units : v # u => r[v] = ns[v]
    BY DEF AllOK
  <2>3. validateC3Network(ns, u) = r
    BY <1>2 DEF validateC3Network, k
  <2> HIDE DEF r
  <2> QED
    BY <2>1, <2>2, <2>3 DEF AllOK
<1> QED
  BY <1>1, <1>2

-----------------------------------------------------------------------------
\* A join.

\* The free slot of a validated array is the one after its members.
LEMMA FreeSlot ==
    ASSUME NEW t \in Units, NEW n, ArrayOK(t, n), n.size >= 0, NEW u \in Units,
           NEW i \in FreePos(n, u)
    PROVE  i \in 1..Slots(t) /\ i = n.size + 1 /\ \A j \in 1..n.size : n.elem[j] # u
<1>1. /\ n.elem \in [1..Slots(t) -> Units \cup {None}] /\ Slots(t) \in Nat
      /\ n.size \in Nat /\ n.size <= Slots(t)
  BY SlotsType DEF ArrayOK, Draft
<1>2. i \in 1..Slots(t) /\ n.elem[i] = None /\ \A j \in 1..(i - 1) : n.elem[j] \notin {None, u}
  BY <1>1 DEF FreePos
<1>3. \A j \in 1..Slots(t) : (n.elem[j] # None) <=> (j <= n.size)
  BY DEF ArrayOK
<1>4. i > n.size
  BY <1>1, <1>2, <1>3
<1>5. ~(n.size + 1 < i)
  <2> SUFFICES ASSUME n.size + 1 < i
               PROVE  FALSE
    OBVIOUS
  <2>1. n.size + 1 \in 1..(i - 1) /\ n.size + 1 \in 1..Slots(t)
    BY <1>1, <1>2
  <2>2. n.elem[n.size + 1] # None
    BY <1>2, <2>1
  <2>3. n.size + 1 <= n.size
    BY <1>3, <2>1, <2>2
  <2> QED
    BY <1>1, <2>3
<1>6. i = n.size + 1
  BY <1>1, <1>2, <1>4, <1>5
<1>7. \A j \in 1..n.size : j \in 1..(i - 1)
  BY <1>1, <1>6
<1> QED
  BY <1>2, <1>6, <1>7

LEMMA EnteredOK ==
    ASSUME UnitsOK, NEW ns, AllOK(ns), NEW t \in Units, ns[t].size >= 0, NEW u \in Units, u # t,
           NEW i \in FreePos(ns[t], u)
    PROVE  AllOK(Entered(ns, t, u, i)) /\ Entered(ns, t, u, i)[t].size >= 0
<1> DEFINE n == ns[t]
           e == [j \in 1..Slots(t) |-> IF j = i THEN u ELSE n.elem[j]]
           m == [elem |-> e, size |-> n.size + 1]
           r == Entered(ns, t, u, i)
<1>1. ArrayOK(t, n) /\ n.size >= 0
  BY DEF AllOK
<1>2. i \in 1..Slots(t) /\ i = n.size + 1 /\ \A j \in 1..n.size : n.elem[j] # u
  BY <1>1, FreeSlot
<1>3. /\ n.elem \in [1..Slots(t) -> Units \cup {None}] /\ Slots(t) \in Nat
      /\ n.size \in Nat /\ n.size <= Slots(t)
  BY <1>1, SlotsType DEF ArrayOK, Draft
<1>4. /\ \A j \in 1..Slots(t) : (n.elem[j] # None) <=> (j <= n.size)
      /\ \A j, k \in 1..n.size : n.elem[j] = n.elem[k] /\ n.elem[j] # None => j = k
      /\ \A j \in 1..n.size : n.elem[j] # t
  BY <1>1 DEF ArrayOK, Draft
<1>5. e \in [1..Slots(t) -> Units \cup {None}]
  BY <1>3
<1>6. e[i] = u /\ \A j \in 1..n.size : j \in 1..Slots(t) /\ e[j] = n.elem[j]
  BY <1>2, <1>3
<1>7. None # u
  BY C3Assumption
<1>8. \A j \in 1..Slots(t) : (e[j] # None) <=> (j <= n.size + 1)
  BY <1>2, <1>3, <1>4, <1>7
<1> HIDE DEF e
<1>9. \A j \in 1..(n.size + 1) : j = i \/ j \in 1..n.size
  BY <1>2, <1>3
<1>10. \A j \in 1..(n.size + 1) : e[j] # t
  BY <1>4, <1>6, <1>9
<1>11. \A j, k \in 1..(n.size + 1) : e[j] = e[k] /\ e[j] # None => j = k
  BY <1>2, <1>4, <1>6, <1>9
<1>12. n.size + 1 \in -1..Slots(t) /\ n.size + 1 \in Int /\ n.size + 1 >= 0
  BY <1>2, <1>3
<1>13. m.elem = e /\ m.size = n.size + 1
  OBVIOUS
<1>14. m \in Arrays(t)
  BY <1>5, <1>12 DEF Arrays
<1> HIDE DEF m
<1>15. m.size \in Int /\ m.size <= Slots(t) /\ m.size >= 0
  BY <1>3, <1>12, <1>13
<1>16. Draft(t, m)
  BY <1>5, <1>10, <1>11, <1>13, <1>15 DEF Draft
<1>17. ArrayOK(t, m)
  BY <1>8, <1>13, <1>14, <1>16 DEF ArrayOK
<1>18. r = [ns EXCEPT ![t] = m]
  BY DEF Entered, m, e
<1>19. DOMAIN r = Units /\ r[t] = m /\ \A v \in Units : v # t => r[v] = ns[v]
  BY <1>18 DEF AllOK
<1> HIDE DEF r
<1>20. AllOK(r) /\ r[t].size >= 0
  BY <1>15, <1>17, <1>19 DEF AllOK
<1> QED
  BY <1>20 DEF r

\* What is copied to dest: it fits, because dest itself is left out.
LEMMA ReplicaFacts ==
    ASSUME UnitsOK, NEW ns, AllOK(ns), NEW src \in Units, ns[src].size >= 0,
           NEW dest \in OthersOf(ns[src], src)
    PROVE  LET list == Replica(ns, src, dest)
           IN  /\ list \in Seq(Units \cup {None})
               /\ Len(list) <= Slots(dest)
               /\ \A i, j \in DOMAIN list : list[i] = list[j] /\ list[i] # None => i = j
               /\ \A i \in DOMAIN list : list[i] # dest
<1> DEFINE n == ns[src]
           B == Units \cup {None}
           D == DOMAIN n.elem
           S == {i \in D : n.elem[i] # dest}
           p == Pick(n.elem, S)
           list == Replica(ns, src, dest)
<1>1. ArrayOK(src, n)
  BY DEF AllOK
<1>2. /\ n.elem \in [1..Slots(src) -> B] /\ Slots(src) \in Nat /\ D = 1..Slots(src)
      /\ n.size \in Nat /\ n.size <= Slots(src)
  BY <1>1, SlotsType DEF ArrayOK, Draft
<1>3. dest \in Units /\ Linked(src, dest) /\ \E k \in 1..n.size : n.elem[k] = dest
  BY DEF OthersOf
<1>4. PICK k \in 1..n.size : n.elem[k] = dest
  BY <1>3
<1>5. k \in D /\ k \notin S
  BY <1>2, <1>4
<1>6. Slots(dest) = Slots(src)
  BY <1>3 DEF Linked, SameKind, Slots
<1>7. n.elem \in Seq(B) /\ Len(n.elem) = Slots(src)
  BY <1>2, SeqDef
<1>8. \A i, j \in D : n.elem[i] = n.elem[j] /\ n.elem[i] # None => i = j
  <2>1. \A i \in D : n.elem[i] # None => i \in 1..n.size
    BY <1>1, <1>2 DEF ArrayOK
  <2> QED
    BY <1>1, <2>1 DEF ArrayOK, Draft
<1>9. \A i \in D : n.elem[i] # src
  <2>1. \A i \in D : n.elem[i] # None => i \in 1..n.size
    BY <1>1, <1>2 DEF ArrayOK
  <2>2. None # src
    BY C3Assumption
  <2> QED
    BY <1>1, <2>1, <2>2 DEF ArrayOK, Draft
<1>10. src # dest
  BY <1>4, <1>5, <1>9
<1>11. S \in SUBSET (D \ {k}) /\ S \in SUBSET D
  BY <1>5
<1>12. Cardinality(S) <= Slots(src) - 1
  <2>1. IsFiniteSet(D) /\ Cardinality(D) = Slots(src)
    <3>1. IsFiniteSet(1..Slots(src)) /\ Cardinality(1..Slots(src)) = Slots(src)
      BY <1>2, FS_Interval
    <3> QED
      BY <1>2, <3>1
  <2>2. IsFiniteSet(D \ {k}) /\ Cardinality(D \ {k}) = Slots(src) - 1
    BY <1>5, <2>1, FS_RemoveElement
  <2>3. Cardinality(S) <= Cardinality(D \ {k})
    BY <1>11, <2>2, FS_Subset
  <2> QED
    BY <2>2, <2>3
<1>13. list = <<src>> \o p
  BY DEF Replica
<1>14. \A i \in S : n.elem[i] # dest
  OBVIOUS
<1> HIDE DEF S, D
<1>15. /\ p \in Seq(B) /\ Len(p) = Cardinality(S) /\ DOMAIN p = 1..Cardinality(S)
       /\ Cardinality(S) \in Nat
       /\ Place(S) \in [1..Cardinality(S) -> S]
       /\ \A i \in DOMAIN p : p[i] = n.elem[Place(S)[i]]
  <2>1. S \in SUBSET DOMAIN n.elem
    BY <1>11 DEF D
  <2> QED
    BY <1>7, <2>1, PickFacts
<1>16. \A i, j \in 1..Cardinality(S) : i < j => Place(S)[i] < Place(S)[j]
  <2>1. S \in SUBSET (1..Slots(src))
    BY <1>2, <1>11
  <2> QED
    BY <1>2, <2>1, PlaceFacts
<1>17. \A i, j \in 1..Cardinality(S) : Place(S)[i] = Place(S)[j] => i = j
  <2>1. \A i \in 1..Cardinality(S) : i \in Int /\ Place(S)[i] \in Int
    BY <1>2, <1>11, <1>15
  <2> QED
    BY <1>16, <2>1
<1>18. \A i \in 1..Cardinality(S) : p[i] # dest /\ p[i] # src
  BY <1>9, <1>11, <1>14, <1>15
<1>19. \A i, j \in 1..Cardinality(S) : p[i] = p[j] /\ p[i] # None => i = j
  BY <1>8, <1>11, <1>15, <1>17
<1> HIDE DEF p
<1>20. /\ list \in Seq(B) /\ Len(list) = 1 + Len(p)
       /\ \A i \in 1..(1 + Len(p)) : list[i] = IF i <= 1 THEN <<src>>[i] ELSE p[i - 1]
  <2>1. <<src>> \in Seq(B) /\ Len(<<src>>) = 1
    OBVIOUS
  <2> QED
    BY <1>13, <1>15, <2>1, ConcatProperties
<1> HIDE DEF list
<1>21. \A i \in DOMAIN list :
          \/ i = 1 /\ list[i] = src
          \/ i - 1 \in 1..Cardinality(S) /\ list[i] = p[i - 1] /\ i \in Int
  <2>1. DOMAIN list = 1..(1 + Cardinality(S))
    BY <1>15, <1>20
  <2> QED
    BY <1>15, <1>20, <2>1
<1>22. Len(list) <= Slots(dest)
  BY <1>2, <1>6, <1>12, <1>15, <1>20
<1>23. \A i \in DOMAIN list : list[i] # dest
  BY <1>10, <1>18, <1>21
<1>24. \A i, j \in DOMAIN list : list[i] = list[j] /\ list[i] # None => i = j
  <2> SUFFICES ASSUME NEW i \in DOMAIN list, NEW j \in DOMAIN list,
                      list[i] = list[j], list[i] # None
               PROVE  i = j
    OBVIOUS
  <2>1. CASE i = 1 \/ j = 1
    BY <1>18, <1>21, <2>1
  <2>2. CASE i # 1 /\ j # 1
    <3>1. i - 1 = j - 1 /\ i \in Int /\ j \in Int
      BY <1>19, <1>21, <2>2
    <3> QED
      BY <3>1
  <2> QED
    BY <2>1, <2>2
<1> QED
  BY <1>20, <1>22, <1>23, <1>24 DEF list

LEMMA ReplicateOK ==
    ASSUME UnitsOK, NEW ns, AllOK(ns), NEW src \in Units, ns[src].size >= 0,
           NEW dest \in OthersOf(ns[src], src)
    PROVE  ArrayOK(dest, replicateC3Network(ns, src, dest))
<1> DEFINE list == Replica(ns, src, dest)
           k == AtMost(Len(list), Slots(dest))
           c == SubSeq(list, 1, k)
           e == [i \in 1..Slots(dest) |-> IF i <= Len(c) THEN c[i] ELSE None]
           n == Filled(dest, c)
           B == Units \cup {None}
<1>1. /\ list \in Seq(B) /\ Len(list) <= Slots(dest)
      /\ \A i, j \in DOMAIN list : list[i] = list[j] /\ list[i] # None => i = j
      /\ \A i \in DOMAIN list : list[i] # dest
  BY ReplicaFacts
<1>2. dest \in Units /\ Slots(dest) \in Nat
  BY SlotsType DEF OthersOf
<1> HIDE DEF list
<1>3. k \in Int /\ k <= Len(list)
  BY <1>1, <1>2 DEF AtMost
<1> HIDE DEF k
<1>4. /\ c \in Seq(B) /\ Len(c) <= Len(list)
      /\ \A i \in 1..Len(c) : i \in 1..Len(list) /\ c[i] = list[i]
  BY <1>1, <1>3, FirstOf
<1> HIDE DEF c
<1>5. Len(c) \in Nat /\ Len(c) <= Slots(dest) /\ \A i \in 1..Len(c) : c[i] \in B
  BY <1>1, <1>2, <1>4
<1>6. n.elem = e /\ n.size = Len(c)
  BY DEF Filled
<1>7. e \in [1..Slots(dest) -> B]
  BY <1>2, <1>5
<1>8. \A i \in 1..Len(c) : e[i] = list[i] /\ i \in DOMAIN list
  BY <1>1, <1>2, <1>4, <1>5
<1> HIDE DEF e, n
<1>9. Draft(dest, n)
  BY <1>1, <1>5, <1>6, <1>7, <1>8 DEF Draft
<1>10. replicateC3Network(ns, src, dest) = Kept(n, dest)
  BY DEF replicateC3Network, n, c, k, list
<1> QED
  BY <1>2, <1>9, <1>10, KeptOK

LEMMA AddOK ==
    ASSUME UnitsOK, NEW ns, AllOK(ns), NEW t \in Units, NEW u \in Units, u # t
    PROVE  AllOK(addMechToC3Network(ns, t, u)) /\ ~Overruns(ns, t, u)
<1> DEFINE valid == validateC3Network(ns, t)
           Pos == FreePos(valid[t], u)
           i == CHOOSE x \in Pos : TRUE
           new == Entered(valid, t, u, i)
           all == [v \in Units |-> IF v \in OthersOf(new[t], t)
                                   THEN replicateC3Network(new, t, v) ELSE new[v]]
<1>1. AllOK(valid) /\ valid[t].size >= 0
  BY ValidateOK
<1> HIDE DEF valid
<1>2. CASE Pos = {}
  BY <1>1, <1>2 DEF addMechToC3Network, Overruns, valid
<1>3. CASE Pos # {}
  <2>1. i \in Pos
    BY <1>3
  <2> HIDE DEF i
  <2>2. AllOK(new) /\ new[t].size >= 0
    BY <1>1, <2>1, EnteredOK
  <2> HIDE DEF new
  <2>3. ASSUME NEW v \in OthersOf(new[t], t)
        PROVE  ArrayOK(v, replicateC3Network(new, t, v)) /\ ~(Len(Replica(new, t, v)) > Slots(v))
    <3>1. Len(Replica(new, t, v)) <= Slots(v) /\ Len(Replica(new, t, v)) \in Nat
      BY <2>2, ReplicaFacts
    <3> QED
      BY <2>2, <3>1, ReplicateOK, SlotsType
  <2>4. AllOK(all)
    BY <2>2, <2>3 DEF AllOK
  <2> HIDE DEF all
  <2>5. addMechToC3Network(ns, t, u) = validateC3Network(all, t)
    BY <1>3 DEF addMechToC3Network, all, new, i, valid
  <2>6. ~Overruns(ns, t, u)
    BY <2>3 DEF Overruns, new, i, valid
  <2> QED
    BY <2>4, <2>5, <2>6, ValidateOK
<1> QED
  BY <1>2, <1>3

-----------------------------------------------------------------------------
\* The inductive invariant.
IInv ==
    /\ UnitsOK /\ AllOK(net) /\ overrun = FALSE
    /\ settled \in BOOLEAN /\ left \in 0..MaxSteps

LEMMA NamedCount ==
    ASSUME NEW u \in Units, ArrayOK(u, net[u]), net[u].size >= 0
    PROVE  Cardinality(Named(u)) = net[u].size
<1> DEFINE n == net[u]
           D == 1..n.size
           f == [i \in D |-> n.elem[i]]
<1>1. n.size \in Nat /\ n.size <= Slots(u) /\ Slots(u) \in Nat
  BY SlotsType DEF ArrayOK, Draft
<1>2. IsFiniteSet(D) /\ Cardinality(D) = n.size
  <2> DEFINE k == n.size
  <2>1. k \in Nat
    BY <1>1
  <2> HIDE DEF k
  <2>2. IsFiniteSet(1..k) /\ Cardinality(1..k) = k
    BY <2>1, FS_Interval
  <2> QED
    BY <2>2 DEF k
<1>3. f \in [D -> Named(u)] /\ \A x \in Named(u) : \E i \in D : f[i] = x
  BY DEF Named
<1>4. \A i, j \in D : f[i] = f[j] => i = j
  <2>1. \A i \in D : n.elem[i] # None
    BY <1>1 DEF ArrayOK
  <2> QED
    BY <2>1 DEF ArrayOK, Draft
<1> HIDE DEF D, f
<1>5. Cardinality(Named(u)) = Cardinality(D)
  BY <1>2, <1>3, <1>4, Matched
<1> QED
  BY <1>2, <1>5

LEMMA IInvSuffices == IInv => ArraysSound
<1> SUFFICES ASSUME IInv
             PROVE  ArraysSound
  OBVIOUS
<1>1. ASSUME NEW u \in Units
      PROVE  /\ net[u].size \in -1..Slots(u)
             /\ net[u].elem \in [1..Slots(u) -> Units \cup {None}]
  BY DEF IInv, AllOK, ArrayOK, Arrays
<1>2. TypeOK
  BY <1>1 DEF IInv, UnitsOK, TypeOK
<1>3. ASSUME NEW u \in Units, net[u].size >= 0
      PROVE  /\ \A i \in DOMAIN net[u].elem : (net[u].elem[i] # None) = (i <= net[u].size)
             /\ Cardinality(Named(u)) = net[u].size
             /\ u \notin Named(u)
  <2>1. ArrayOK(u, net[u])
    BY DEF IInv, AllOK
  <2>2. DOMAIN net[u].elem = 1..Slots(u)
    BY <1>1
  <2>3. \A i \in DOMAIN net[u].elem : (net[u].elem[i] # None) = (i <= net[u].size)
    BY <1>3, <2>1, <2>2 DEF ArrayOK
  <2>4. u \notin Named(u)
    BY <2>1 DEF ArrayOK, Draft, Named
  <2> QED
    BY <1>3, <2>1, <2>3, <2>4, NamedCount
<1> QED
  BY <1>2, <1>3 DEF ArraysSound, IInv

LEMMA InitIInv == Init => IInv
<1> SUFFICES ASSUME Init
             PROVE  IInv
  OBVIOUS
<1>1. fleet \in Fleets /\ fleet \in [Units -> Nat \cup {C3I}]
  BY C3Assumption DEF Init
<1>2. masters \in [Units -> Nat]
  BY <1>1 DEF Init, MastersOf, C3I
<1>3. (CHOOSE t \in Teams : TRUE) \in Teams /\ (CHOOSE m \in Maps : TRUE) \in Maps
  BY C3Assumption
<1>4. UnitsOK
  BY <1>1, <1>2, <1>3 DEF Init, UnitsOK
<1>5. AllOK(net)
  BY EmptyOK DEF Init, AllOK
<1> QED
  BY <1>4, <1>5, C3Assumption DEF Init, IInv

\* The steps that leave the units as they are: AllOK of the new arrays is enough, since what
\* makes an array sound is the units' equipment only.
LEMMA ArraysStep ==
    ASSUME IInv, fleet' = fleet, UnitsOK', AllOK(net'), overrun' = FALSE,
           settled' \in BOOLEAN, left' \in 0..MaxSteps
    PROVE  IInv'
BY DEF IInv, AllOK, ArrayOK, Draft, Arrays, Slots, HasC3i

LEMMA NextIInv == IInv /\ [Next]_vars => IInv'
<1> SUFFICES ASSUME IInv, [Next]_vars
             PROVE  IInv'
  OBVIOUS
<1>0. UnitsOK /\ AllOK(net) /\ overrun = FALSE /\ settled \in BOOLEAN /\ left \in 0..MaxSteps
  BY DEF IInv
<1>1. CASE UNCHANGED vars
  <2>1. UnitsOK'
    BY <1>0, <1>1 DEF UnitsOK, vars
  <2> QED
    BY <1>0, <1>1, <2>1, ArraysStep DEF vars
<1>2. CASE Next
  <2>0. (\E back \in BOOLEAN : Track(back)) => settled' \in BOOLEAN
    BY Zenon DEF Track
  <2>a. (\E u \in Units, m \in Maps \cup {None} : Track(PutBack(u, m))) => settled' \in BOOLEAN
    BY Zenon DEF Track
  <2>b. settled' \in BOOLEAN
    BY <1>2, <2>0, <2>a, Zenon DEF Next
  <2>c. left' \in 0..MaxSteps
    BY <1>0, <1>2, C3Assumption DEF Next
  <2>1. settled' \in BOOLEAN /\ left' \in 0..MaxSteps
    BY <2>b, <2>c
  <2> SUFFICES fleet' = fleet /\ UnitsOK' /\ AllOK(net') /\ overrun' = FALSE
    BY <2>1, ArraysStep
  <2>2. ASSUME NEW u \in Units, mech_c3_leave(u)
        PROVE  fleet' = fleet /\ UnitsOK' /\ AllOK(net') /\ overrun' = FALSE
    <3>1. UNCHANGED <<fleet, team, mapindex, dead, broken, masters, overrun>>
      BY <2>2 DEF mech_c3_leave
    <3>2. AllOK(net')
      BY <1>0, <2>2, ValidateOK, ClearOK DEF mech_c3_leave
    <3> QED
      BY <1>0, <3>1, <3>2 DEF UnitsOK
  <2>3. ASSUME NEW u \in Units, mech_c3_network(u)
        PROVE  fleet' = fleet /\ UnitsOK' /\ AllOK(net') /\ overrun' = FALSE
    <3>1. UNCHANGED <<fleet, team, mapindex, dead, broken, masters, overrun>>
      BY <2>3 DEF mech_c3_network
    <3>2. AllOK(net')
      BY <1>0, <2>3, ValidateOK DEF mech_c3_network
    <3> QED
      BY <1>0, <3>1, <3>2 DEF UnitsOK
  <2>4. ASSUME NEW u \in Units, NEW t \in Units, mech_c3_join(u, t)
        PROVE  fleet' = fleet /\ UnitsOK' /\ AllOK(net') /\ overrun' = FALSE
    <3> DEFINE mine == validateC3Network(net, u)
               valid == validateC3Network(mine, t)
    <3>1. u # t /\ UNCHANGED <<fleet, team, mapindex, dead, broken, masters>>
      BY <2>4 DEF mech_c3_join
    <3>2. AllOK(valid)
      BY <1>0, ValidateOK
    <3>3. \/ net' = valid
          \/ net' = addMechToC3Network(valid, t, u)
      BY <2>4 DEF mech_c3_join
    <3>4. overrun' = (overrun \/ (HasRoom(valid, u, t) /\ Overruns(valid, t, u)))
      BY <2>4 DEF mech_c3_join
    <3> HIDE DEF valid
    <3>5. AllOK(addMechToC3Network(valid, t, u)) /\ ~Overruns(valid, t, u)
      BY <1>0, <3>1, <3>2, AddOK
    <3> QED
      BY <1>0, <3>1, <3>2, <3>3, <3>4, <3>5 DEF UnitsOK
  <2>5. ASSUME NEW u \in Units, NEW m \in Maps \cup {None}, mech_Rsetmapindex(u, m)
        PROVE  fleet' = fleet /\ UnitsOK' /\ AllOK(net') /\ overrun' = FALSE
    <3>1. /\ mapindex' = [mapindex EXCEPT ![u] = m]
          /\ UNCHANGED <<fleet, team, dead, broken, masters, overrun>>
      BY <2>5 DEF mech_Rsetmapindex
    <3>2. net' = net \/ net' = [net EXCEPT ![u] = Empty(u)]
      BY <2>5 DEF mech_Rsetmapindex
    <3>3. AllOK(net')
      BY <1>0, <3>2, EmptyOK DEF AllOK
    <3> QED
      BY <1>0, <3>1, <3>3 DEF UnitsOK
  <2>6. ASSUME NEW u \in Units, NEW t \in Teams, mech_Rsetteam(u, t)
        PROVE  fleet' = fleet /\ UnitsOK' /\ AllOK(net') /\ overrun' = FALSE
    BY <1>0, <2>6 DEF mech_Rsetteam, UnitsOK
  <2>7. ASSUME NEW u \in Units, DestroyMech(u)
        PROVE  fleet' = fleet /\ UnitsOK' /\ AllOK(net') /\ overrun' = FALSE
    BY <1>0, <2>7 DEF DestroyMech, UnitsOK
  <2>8. ASSUME NEW u \in Units, HandleCrit(u)
        PROVE  fleet' = fleet /\ UnitsOK' /\ AllOK(net') /\ overrun' = FALSE
    <3>1. UNCHANGED <<fleet, team, mapindex, dead, overrun>>
      BY <2>8 DEF HandleCrit
    <3>2. net' = net \/ net' = clearC3Network(net, u, TRUE)
      BY <2>8 DEF HandleCrit
    <3>3. AllOK(net')
      BY <1>0, <3>2, ClearOK
    <3>4. broken' \in [Units -> BOOLEAN]
      <4>1. \/ broken' = [broken EXCEPT ![u] = TRUE]
            \/ \E n \in 0..(masters[u] - 1) : broken' = [broken EXCEPT ![u] = (n = 0)]
        BY <2>8 DEF HandleCrit
      <4> QED
        BY <1>0, <4>1 DEF UnitsOK
    <3>5. masters' \in [Units -> Nat]
      <4>1. \/ masters' = masters
            \/ \E n \in 0..(masters[u] - 1) : masters' = [masters EXCEPT ![u] = n]
        BY <2>8 DEF HandleCrit
      <4> QED
        BY <1>0, <4>1 DEF UnitsOK
    <3> QED
      BY <1>0, <3>1, <3>3, <3>4, <3>5 DEF UnitsOK
  <2>9. ASSUME NEW u \in Units, do_magic(u)
        PROVE  fleet' = fleet /\ UnitsOK' /\ AllOK(net') /\ overrun' = FALSE
    <3>1. fleet \in [Units -> Nat \cup {C3I}]
      BY <1>0, C3Assumption DEF UnitsOK
    <3>2. MastersOf(fleet)[u] \in Nat
      BY <3>1 DEF MastersOf
    <3>3. masters' \in [Units -> Nat]
      BY <1>0, <2>9, <3>2 DEF do_magic, UnitsOK
    <3>4. dead' \in [Units -> BOOLEAN] /\ broken' \in [Units -> BOOLEAN]
      BY <1>0, <2>9 DEF do_magic, UnitsOK
    <3> QED
      BY <1>0, <2>9, <3>3, <3>4 DEF do_magic, UnitsOK
  <2>10. CASE Restart
    <3>1. UNCHANGED <<fleet, team, mapindex, dead, broken, masters, overrun>>
      BY <2>10 DEF Restart
    <3>2. DOMAIN net' = Units
      BY <2>10 DEF Restart
    <3>3. ASSUME NEW u \in Units
          PROVE  ArrayOK(u, net'[u])
      <4>1. ArrayOK(u, net[u])
        BY <1>0 DEF AllOK
      <4>2. CASE net'[u] = net[u]
        BY <4>1, <4>2
      <4>3. CASE net'[u] = [net[u] EXCEPT !.size = -1]
        <5>1. net[u] \in Arrays(u) /\ Slots(u) \in Nat
          BY <4>1, SlotsType DEF ArrayOK
        <5>2. net'[u] \in Arrays(u) /\ net'[u].size = -1 /\ net'[u].elem = net[u].elem
          BY <4>3, <5>1 DEF Arrays
        <5>3. Draft(u, net'[u])
          BY <4>1, <5>1, <5>2 DEF ArrayOK, Draft
        <5> QED
          BY <5>2, <5>3 DEF ArrayOK
      <4> QED
        BY <2>10, <4>2, <4>3 DEF Restart
    <3> QED
      BY <1>0, <3>1, <3>2, <3>3 DEF UnitsOK, AllOK
  <2> QED
    BY <1>2, <2>2, <2>3, <2>4, <2>5, <2>6, <2>7, <2>8, <2>9, <2>10 DEF Next
<1> QED
  BY <1>1, <1>2

\* Whatever happens to the units, each network array stays packed, without repetition and
\* without its own unit, and no join writes past an array's end, for any number of units,
\* masters and slots (mech.c3.c, mech.c3i.c).
THEOREM ArraysAlwaysSound == Spec => []ArraysSound
<1>1. IInv => ArraysSound
  BY IInvSuffices
<1> QED
  BY <1>1, InitIInv, NextIInv, PTL DEF Spec

-----------------------------------------------------------------------------
\* Counting members and masters by sets instead of lists.

Members(list) == {list[i] : i \in DOMAIN list}

\* The working masters of the units in N, and whether they carry N.
Computers(N) == UNION {{v} \X (1..masters[v]) : v \in N}
Working(N) == Cardinality(Computers(N))
Roomy(N) == Cardinality(N) <= 3 * Working(N) + 1

LEMMA BoxesFinite ==
    ASSUME NEW D, IsFiniteSet(D), NEW g \in [D -> Nat]
    PROVE  IsFiniteSet(UNION {{i} \X (1..g[i]) : i \in D})
<1> DEFINE T == {{i} \X (1..g[i]) : i \in D}
           f == [i \in D |-> {i} \X (1..g[i])]
<1>1. f \in Surjection(D, T)
  BY DEF Surjection
<1>2. IsFiniteSet(T)
  BY <1>1, FS_Surjection
<1>3. ASSUME NEW X \in T
      PROVE  IsFiniteSet(X)
  <2>1. PICK i \in D : X = {i} \X (1..g[i])
    OBVIOUS
  <2>2. g[i] \in Nat
    OBVIOUS
  <2>3. IsFiniteSet({i})
    BY FS_Singleton
  <2>4. IsFiniteSet(1..g[i])
    BY <2>2, FS_Interval
  <2> QED
    BY <2>1, <2>3, <2>4, FS_Product
<1> QED
  BY <1>2, <1>3, FS_UNION

LEMMA ComputersFinite ==
    ASSUME UnitsOK, NEW N \in SUBSET Units, IsFiniteSet(N)
    PROVE  IsFiniteSet(Computers(N)) /\ Working(N) \in Nat
<1> DEFINE g == [v \in N |-> masters[v]]
<1>1. g \in [N -> Nat]
  BY DEF UnitsOK
<1>2. Computers(N) = UNION {{v} \X (1..g[v]) : v \in N}
  BY DEF Computers
<1> HIDE DEF g
<1>3. IsFiniteSet(Computers(N))
  BY <1>1, <1>2, BoxesFinite
<1> QED
  BY <1>3, FS_CardinalityType DEF Working

LEMMA WorkingAdd ==
    ASSUME UnitsOK, NEW N \in SUBSET Units, IsFiniteSet(N), NEW u \in Units, u \notin N
    PROVE  Working(N \cup {u}) = Working(N) + masters[u]
<1> DEFINE A == Computers(N)
           B == {u} \X (1..masters[u])
<1>1. IsFiniteSet(A)
  BY ComputersFinite
<1>2. masters[u] \in Nat
  BY DEF UnitsOK
<1>3. IsFiniteSet({u}) /\ Cardinality({u}) = 1
  BY FS_Singleton
<1>4. IsFiniteSet(1..masters[u]) /\ Cardinality(1..masters[u]) = masters[u]
  BY <1>2, FS_Interval, SMTT(30), ZenonT(30)
<1>5. IsFiniteSet(B) /\ Cardinality(B) = 1 * masters[u]
  BY <1>3, <1>4, FS_Product, SMTT(30), ZenonT(30)
<1>6. A \cap B = {}
  BY DEF Computers
<1>7. Computers(N \cup {u}) = A \cup B
  BY DEF Computers
<1> HIDE DEF A, B
<1>8. Cardinality(A \cup B) = Cardinality(A) + Cardinality(B)
  BY <1>1, <1>5, <1>6, Disjoint
<1>9. Cardinality(B) = masters[u]
  BY <1>2, <1>5
<1> QED
  BY <1>7, <1>8, <1>9 DEF Working, A

LEMMA MembersCount ==
    ASSUME NEW list \in Seq(Units), \A i, j \in DOMAIN list : list[i] = list[j] => i = j
    PROVE  /\ Members(list) \in SUBSET Units /\ IsFiniteSet(Members(list))
           /\ Cardinality(Members(list)) = Len(list)
<1> DEFINE D == DOMAIN list
<1>1. D = 1..Len(list) /\ Len(list) \in Nat
  OBVIOUS
<1>2. IsFiniteSet(1..Len(list)) /\ Cardinality(1..Len(list)) = Len(list)
  BY <1>1, FS_Interval
<1>3. list \in [D -> Members(list)] /\ \A x \in Members(list) : \E i \in D : list[i] = x
  BY DEF Members
<1>4. IsFiniteSet(Members(list)) /\ Cardinality(Members(list)) = Cardinality(D)
  BY <1>1, <1>2, <1>3, Matched
<1> QED
  BY <1>1, <1>2, <1>4 DEF Members

LEMMA SumWorking ==
    ASSUME UnitsOK, NEW list \in Seq(Units), \A i, j \in DOMAIN list : list[i] = list[j] => i = j
    PROVE  SumOf(list) = Working(Members(list))
<1> DEFINE D == DOMAIN list
           A == UNION {{i} \X (1..masters[list[i]]) : i \in D}
           B == Computers(Members(list))
           f == [x \in A |-> <<list[x[1]], x[2]>>]
<1>1. IsFiniteSet(A)
  <2> DEFINE g == [i \in D |-> masters[list[i]]]
  <2>1. D = 1..Len(list) /\ Len(list) \in Nat
    OBVIOUS
  <2>2. IsFiniteSet(D)
    <3>1. IsFiniteSet(1..Len(list))
      BY <2>1, FS_Interval
    <3> QED
      BY <2>1, <3>1
  <2>3. g \in [D -> Nat]
    BY DEF UnitsOK
  <2>4. A = UNION {{i} \X (1..g[i]) : i \in D}
    OBVIOUS
  <2> HIDE DEF g, A
  <2> QED
    BY <2>2, <2>3, <2>4, BoxesFinite
<1>2. \A x \in A : x[1] \in D /\ x[2] \in 1..masters[list[x[1]]] /\ x = <<x[1], x[2]>>
  OBVIOUS
<1>3. \A i \in D : \A k \in 1..masters[list[i]] : <<i, k>> \in A
  OBVIOUS
<1>4. \A y \in B : \E i \in D : \E k \in 1..masters[list[i]] : y = <<list[i], k>>
  BY DEF Computers, Members
<1>5. \A i \in D : \A k \in 1..masters[list[i]] : <<list[i], k>> \in B
  BY DEF Computers, Members
<1>6. SumOf(list) = Cardinality(A)
  BY DEF SumOf
<1> HIDE DEF A, B, D
<1>7. f \in [A -> B]
  BY <1>2, <1>5
<1>8. \A x, y \in A : f[x] = f[y] => x = y
  <2> SUFFICES ASSUME NEW x \in A, NEW y \in A, f[x] = f[y]
               PROVE  x = y
    OBVIOUS
  <2>1. list[x[1]] = list[y[1]] /\ x[2] = y[2]
    OBVIOUS
  <2>2. x[1] = y[1]
    BY <1>2, <2>1 DEF D
  <2> QED
    BY <1>2, <2>1, <2>2
<1>9. \A y \in B : \E x \in A : f[x] = y
  <2> SUFFICES ASSUME NEW y \in B
               PROVE  \E x \in A : f[x] = y
    OBVIOUS
  <2>0. PICK i \in D : \E k \in 1..masters[list[i]] : y = <<list[i], k>>
    BY <1>4
  <2>1. PICK k \in 1..masters[list[i]] : y = <<list[i], k>>
    BY <2>0
  <2>2. <<i, k>> \in A
    BY <1>3
  <2>3. f[<<i, k>>] = <<list[i], k>>
    BY <2>2
  <2> QED
    BY <2>1, <2>2, <2>3
<1> HIDE DEF f
<1>10. Cardinality(B) = Cardinality(A)
  BY <1>1, <1>7, <1>8, <1>9, Matched
<1> QED
  BY <1>6, <1>10 DEF Working, B

-----------------------------------------------------------------------------
\* What validating an array keeps.

LEMMA PickMembers ==
    ASSUME NEW B, NEW list \in Seq(B), NEW S \in SUBSET DOMAIN list
    PROVE  Members(Pick(list, S)) = {list[x] : x \in S}
<1> DEFINE n == Len(list)
           p == Pick(list, S)
<1>1. n \in Nat /\ S \in SUBSET (1..n)
  OBVIOUS
<1> HIDE DEF n
<1>2. /\ DOMAIN p = 1..Cardinality(S)
      /\ Place(S) \in [1..Cardinality(S) -> S]
      /\ \A i \in DOMAIN p : p[i] = list[Place(S)[i]]
  BY PickFacts
<1>3. \A x \in S : \E i \in 1..Cardinality(S) : Place(S)[i] = x
  BY <1>1, PlaceFacts
<1> HIDE DEF p
<1>4. \A i \in DOMAIN p : p[i] \in {list[x] : x \in S}
  BY <1>2
<1>5. \A x \in S : \E i \in DOMAIN p : p[i] = list[x]
  BY <1>2, <1>3
<1>6. Members(p) = {list[x] : x \in S}
  BY <1>4, <1>5 DEF Members
<1> QED
  BY <1>6 DEF p

LEMMA OthersMembers ==
    ASSUME NEW u \in Units, NEW n, Draft(u, n)
    PROVE  Members(Others(n, u)) = OthersOf(n, u)
<1> DEFINE S == {i \in 1..n.size : n.elem[i] # None /\ Linked(u, n.elem[i])}
           B == Units \cup {None}
<1>1. n.elem \in Seq(B) /\ Len(n.elem) = Slots(u) /\ DOMAIN n.elem = 1..Slots(u)
  BY SlotsType, SeqDef DEF Draft
<1>2. S \in SUBSET DOMAIN n.elem
  BY <1>1, SlotsType DEF Draft
<1>3. Others(n, u) = Pick(n.elem, S)
  BY DEF Others
<1>4. {n.elem[x] : x \in S} = OthersOf(n, u)
  <2>1. \A x \in 1..n.size : n.elem[x] \in B
    BY SlotsType DEF Draft
  <2>2. None \notin Units
    BY C3Assumption
  <2> QED
    BY <2>1, <2>2 DEF OthersOf
<1> HIDE DEF S, B
<1> QED
  BY <1>1, <1>2, <1>3, <1>4, PickMembers

LEMMA FilledMembers ==
    ASSUME NEW u \in Units, NEW list, Roster(u, list)
    PROVE  OthersOf(Filled(u, list), u) = {v \in Members(list) : Linked(u, v)}
<1> DEFINE n == Filled(u, list)
<1>1. /\ list \in Seq(Units) /\ DOMAIN list = 1..Len(list) /\ Len(list) \in Nat
      /\ Len(list) <= Slots(u) /\ Slots(u) \in Nat
  BY SlotsType DEF Roster
<1>2. n.size = Len(list) /\ \A i \in 1..Len(list) : n.elem[i] = list[i]
  BY <1>1 DEF Filled
<1> HIDE DEF n
<1>3. {n.elem[i] : i \in 1..n.size} = Members(list) /\ Members(list) \in SUBSET Units
  BY <1>1, <1>2 DEF Members
<1> QED
  BY <1>3 DEF OthersOf, n

\* Trimming takes nobody away whom the masters can carry.
LEMMA NoTrim ==
    ASSUME UnitsOK, NEW u \in Units, HasC3(u), NEW list, Roster(u, list),
           Roomy(Members(list) \cup {u})
    PROVE  trimC3Network(u, list) = list
<1> DEFINE N == Members(list)
<1>1. /\ list \in Seq(Units) /\ Len(list) <= Slots(u)
      /\ \A i, j \in DOMAIN list : list[i] = list[j] => i = j
      /\ u \notin N
  BY DEF Roster, Members
<1>2. N \in SUBSET Units /\ IsFiniteSet(N) /\ Cardinality(N) = Len(list)
  BY <1>1, MembersCount
<1>3. SumOf(list) = Working(N)
  BY <1>1, SumWorking
<1> HIDE DEF N
<1>4. Working(N \cup {u}) = Working(N) + masters[u]
  BY <1>1, <1>2, WorkingAdd
<1>5. Cardinality(N \cup {u}) = Len(list) + 1
  BY <1>1, <1>2, FS_AddElement
<1>6. SumOf(<< >>) = 0
  <2>1. UNION {{i} \X (1..masters[<< >>[i]]) : i \in DOMAIN << >>} = {}
    OBVIOUS
  <2> QED
    BY <2>1, FS_EmptySet DEF SumOf
<1>7. SumOf(list) \in Nat /\ masters[u] \in Nat /\ Len(list) \in Nat /\ Slots(u) = C3_NETWORK_SIZE
  BY <1>1, SumType DEF UnitsOK, Slots, HasC3, HasC3i
<1>8. Len(list) + 1 <= 3 * (SumOf(list) + masters[u]) + 1
  BY <1>3, <1>4, <1>5 DEF Roomy, N
<1>9. countMaxC3Units(u, list, << >>) >= Len(list)
  BY <1>1, <1>6, <1>7, <1>8, C3Assumption DEF countMaxC3Units, AtMost
<1> QED
  BY <1>9 DEF trimC3Network

LEMMA KeptSame ==
    ASSUME UnitsOK, NEW u \in Units, NEW n, Draft(u, n),
           HasC3(u) => Roomy(OthersOf(n, u) \cup {u})
    PROVE  OthersOf(Kept(n, u), u) = OthersOf(n, u)
<1> DEFINE list == Others(n, u)
<1>1. Roster(u, list) /\ Members(list) = OthersOf(n, u)
  BY OthersRoster, OthersMembers
<1> HIDE DEF list
<1>2. HasC3(u) => trimC3Network(u, list) = list
  BY <1>1, NoTrim
<1>3. Kept(n, u) = Filled(u, list)
  BY <1>2 DEF Kept, list
<1>4. OthersOf(Filled(u, list), u) = {v \in OthersOf(n, u) : Linked(u, v)}
  BY <1>1, FilledMembers
<1> QED
  BY <1>3, <1>4 DEF OthersOf

-----------------------------------------------------------------------------
\* The networks as sets: the units each unit can use.

Gone(u) == dead[u] \/ broken[u]
Use(ns, u) == IF Gone(u) THEN {} ELSE OthersOf(ns[u], u)

Agreed(ns) == \A u \in Units : \A v \in Use(ns, u) : Use(ns, u) \cup {u} = Use(ns, v) \cup {v}

\* The masters of every C3 network carry it, so that trimming takes nobody away.
Carried(ns) == \A u \in Units : HasC3(u) /\ ~Gone(u) => Roomy(Use(ns, u) \cup {u})

LEMMA UseFacts ==
    ASSUME NEW ns, AllOK(ns), NEW u \in Units
    PROVE  /\ OthersOf(ns[u], u) \in SUBSET Units /\ IsFiniteSet(OthersOf(ns[u], u))
           /\ u \notin OthersOf(ns[u], u)
           /\ ns[u].size <= 0 => OthersOf(ns[u], u) = {}
           /\ Use(ns, u) \in SUBSET Units /\ IsFiniteSet(Use(ns, u)) /\ u \notin Use(ns, u)
<1> DEFINE n == ns[u]
<1>1. Draft(u, n)
  BY DEF AllOK, ArrayOK
<1>2. Roster(u, Others(n, u)) /\ Members(Others(n, u)) = OthersOf(n, u)
  BY <1>1, OthersRoster, OthersMembers
<1>3. OthersOf(n, u) \in SUBSET Units /\ IsFiniteSet(OthersOf(n, u))
  BY <1>2, MembersCount DEF Roster
<1>4. u \notin OthersOf(n, u)
  BY <1>1 DEF Draft, OthersOf
<1>5. n.size <= 0 => OthersOf(n, u) = {}
  BY <1>1 DEF Draft, OthersOf
<1>6. IsFiniteSet({})
  BY FS_EmptySet
<1> QED
  BY <1>3, <1>4, <1>5, <1>6 DEF Use

LEMMA EmptyUse ==
    ASSUME NEW u \in Units
    PROVE  OthersOf(Empty(u), u) = {}
BY DEF OthersOf, Empty, Filled

\* Cutting u out of v's array.
LEMMA CutUse ==
    ASSUME UnitsOK, NEW ns, AllOK(ns), NEW u \in Units, NEW v \in Units,
           HasC3(v) => Roomy((OthersOf(ns[v], v) \ {u}) \cup {v})
    PROVE  OthersOf(clearMechFromC3Network(ns, u, v), v) = OthersOf(ns[v], v) \ {u}
<1> DEFINE n == ns[v]
           e == [i \in 1..Slots(v) |-> IF n.elem[i] = u THEN None ELSE n.elem[i]]
           cut == [n EXCEPT !.elem = e]
<1>1. ArrayOK(v, n)
  BY DEF AllOK
<1>2. n.elem \in [1..Slots(v) -> Units \cup {None}]
  BY <1>1 DEF ArrayOK, Draft
<1>3. e \in [1..Slots(v) -> Units \cup {None}]
  BY <1>2
<1>4. \A i \in 1..Slots(v) : e[i] = IF n.elem[i] = u THEN None ELSE n.elem[i]
  OBVIOUS
<1>5. n \in Arrays(v) /\ Slots(v) \in Nat
  BY <1>1, SlotsType DEF ArrayOK
<1> HIDE DEF e
<1>6. cut.elem = e /\ cut.size = n.size
  BY <1>5 DEF Arrays
<1>7. \A i \in 1..n.size : i \in 1..Slots(v)
  BY <1>1, <1>5 DEF ArrayOK, Draft
<1>8. None # v /\ None \notin Units
  BY C3Assumption
<1>9. clearMechFromC3Network(ns, u, v) =
         IF n.size = 0 THEN n ELSE IF n.size < 0 THEN Empty(v) ELSE Kept(cut, v)
  BY DEF clearMechFromC3Network, cut, e
<1> HIDE DEF cut
<1>10. Draft(v, cut)
  BY <1>1, <1>3, <1>4, <1>6, <1>7, <1>8 DEF ArrayOK, Draft
<1>11. OthersOf(cut, v) = OthersOf(n, v) \ {u}
  <2>1. {e[i] : i \in 1..n.size} \cap Units = ({n.elem[i] : i \in 1..n.size} \cap Units) \ {u}
    BY <1>4, <1>7, <1>8
  <2> QED
    BY <1>6, <2>1 DEF OthersOf
<1>12. OthersOf(Kept(cut, v), v) = OthersOf(n, v) \ {u}
  BY <1>10, <1>11, KeptSame
<1>13. n.size <= 0 => OthersOf(n, v) = {}
  BY UseFacts
<1>14. n.size \in Int
  BY <1>1 DEF ArrayOK, Draft
<1> QED
  BY <1>9, <1>12, <1>13, <1>14, EmptyUse

\* Validating an array changes nothing that anyone can use.
LEMMA ValidateUse ==
    ASSUME UnitsOK, NEW ns, AllOK(ns), Carried(ns), NEW u \in Units, NEW v \in Units
    PROVE  Use(validateC3Network(ns, u), v) = Use(ns, v)
<1> DEFINE r == validateC3Network(ns, u)
<1>1. CASE Gone(v)
  BY <1>1 DEF Use
<1>2. CASE ~Gone(v) /\ ~(Gone(u) \/ ns[u].size < 0)
  <2>1. r = [ns EXCEPT ![u] = Kept(ns[u], u)]
    BY <1>2 DEF validateC3Network, Gone
  <2>2. OthersOf(Kept(ns[u], u), u) = OthersOf(ns[u], u)
    BY <1>2, KeptSame DEF AllOK, ArrayOK, Carried, Use
  <2>3. r[v] = IF v = u THEN Kept(ns[u], u) ELSE ns[v]
    BY <2>1 DEF AllOK
  <2> HIDE DEF r
  <2> QED
    BY <1>2, <2>2, <2>3 DEF Use, r
<1>3. CASE ~Gone(v) /\ (Gone(u) \/ ns[u].size < 0)
  <2>1. r = clearC3Network(ns, u, TRUE)
    BY <1>3 DEF validateC3Network, Gone
  <2>2. r[v] = IF v = u THEN Empty(u)
               ELSE IF v \in OthersOf(ns[u], u) THEN clearMechFromC3Network(ns, u, v) ELSE ns[v]
    BY <2>1 DEF clearC3Network
  <2> HIDE DEF r
  <2>3. CASE v = u
    <3>1. ns[u].size < 0
      BY <1>3, <2>3
    <3>2. OthersOf(ns[u], u) = {}
      BY <3>1, UseFacts DEF AllOK, ArrayOK, Draft
    <3> QED
      BY <1>3, <2>2, <2>3, <3>2, EmptyUse DEF Use, r
  <2>4. CASE v # u /\ v \in OthersOf(ns[u], u)
    <3>1. Gone(u)
      <4>1. ns[u].size \in Int
        BY DEF AllOK, ArrayOK, Draft
      <4> QED
        BY <1>3, <2>4, <4>1, UseFacts
    <3>2. u \notin OthersOf(ns[v], v)
      BY <3>1 DEF OthersOf, Linked, Gone
    <3>3. OthersOf(ns[v], v) \ {u} = OthersOf(ns[v], v)
      BY <3>2
    <3>4. HasC3(v) => Roomy(OthersOf(ns[v], v) \cup {v})
      BY <1>3 DEF Carried, Use
    <3>5. OthersOf(clearMechFromC3Network(ns, u, v), v) = OthersOf(ns[v], v)
      BY <3>3, <3>4, CutUse
    <3> QED
      BY <1>3, <2>2, <2>4, <3>5 DEF Use, r
  <2>5. CASE v # u /\ v \notin OthersOf(ns[u], u)
    BY <1>3, <2>2, <2>5 DEF Use, r
  <2> QED
    BY <2>3, <2>4, <2>5
<1> QED
  BY <1>1, <1>2, <1>3

LEMMA SameUse ==
    ASSUME NEW ns, NEW ms, \A v \in Units : Use(ms, v) = Use(ns, v), AllOK(ns)
    PROVE  (Agreed(ns) => Agreed(ms)) /\ (Carried(ns) => Carried(ms))
<1>1. \A v \in Units : Use(ns, v) \in SUBSET Units
  BY UseFacts
<1> QED
  BY <1>1 DEF Agreed, Carried

LEMMA ValidateKeeps ==
    ASSUME UnitsOK, NEW ns, AllOK(ns), Carried(ns), Agreed(ns), NEW u \in Units
    PROVE  /\ AllOK(validateC3Network(ns, u)) /\ Carried(validateC3Network(ns, u))
           /\ Agreed(validateC3Network(ns, u)) /\ validateC3Network(ns, u)[u].size >= 0
<1> DEFINE r == validateC3Network(ns, u)
<1>1. AllOK(r) /\ r[u].size >= 0
  BY ValidateOK
<1>2. \A v \in Units : Use(r, v) = Use(ns, v)
  BY ValidateUse
<1> HIDE DEF r
<1>3. Agreed(r) /\ Carried(r)
  BY <1>2, SameUse
<1> QED
  BY <1>1, <1>3 DEF r

-----------------------------------------------------------------------------
\* Leaving.

LEMMA KeptFewer ==
    ASSUME UnitsOK, NEW u \in Units, NEW n, Draft(u, n)
    PROVE  /\ OthersOf(Kept(n, u), u) \subseteq OthersOf(n, u)
           /\ {Kept(n, u).elem[i] : i \in 1..Kept(n, u).size} = OthersOf(Kept(n, u), u)
<1> DEFINE list == Others(n, u)
           kept == IF HasC3(u) THEN trimC3Network(u, list) ELSE list
<1>1. Roster(u, list) /\ Members(list) = OthersOf(n, u)
  BY OthersRoster, OthersMembers
<1>2. Kept(n, u) = Filled(u, kept)
  BY DEF Kept
<1> HIDE DEF list
<1>3. Roster(u, kept) /\ \A i \in DOMAIN kept : \E x \in DOMAIN list : kept[i] = list[x]
  BY <1>1, TrimRoster
<1>4. Members(kept) \subseteq OthersOf(n, u)
  BY <1>1, <1>3 DEF Members
<1> HIDE DEF kept
<1>5. OthersOf(Filled(u, kept), u) = {v \in Members(kept) : Linked(u, v)}
  BY <1>3, FilledMembers
<1>6. OthersOf(Filled(u, kept), u) = Members(kept)
  BY <1>4, <1>5 DEF OthersOf
<1>7. {Filled(u, kept).elem[i] : i \in 1..Filled(u, kept).size} = Members(kept)
  <2>1. /\ kept \in Seq(Units) /\ DOMAIN kept = 1..Len(kept) /\ Len(kept) \in Nat
        /\ Len(kept) <= Slots(u) /\ Slots(u) \in Nat
    BY <1>3, SlotsType DEF Roster
  <2>2. /\ Filled(u, kept).size = Len(kept)
        /\ \A i \in 1..Len(kept) : Filled(u, kept).elem[i] = kept[i]
    BY <2>1 DEF Filled
  <2> QED
    BY <2>1, <2>2 DEF Members
<1> QED
  BY <1>2, <1>4, <1>6, <1>7

\* Whoever is cut out is out, even if the array must be trimmed.
LEMMA CutGone ==
    ASSUME UnitsOK, NEW ns, AllOK(ns), NEW u \in Units, NEW v \in Units
    PROVE  u \notin OthersOf(clearMechFromC3Network(ns, u, v), v)
<1> DEFINE n == ns[v]
           e == [i \in 1..Slots(v) |-> IF n.elem[i] = u THEN None ELSE n.elem[i]]
           cut == [n EXCEPT !.elem = e]
<1>1. ArrayOK(v, n)
  BY DEF AllOK
<1>2. n.elem \in [1..Slots(v) -> Units \cup {None}]
  BY <1>1 DEF ArrayOK, Draft
<1>3. e \in [1..Slots(v) -> Units \cup {None}]
  BY <1>2
<1>4. \A i \in 1..Slots(v) : e[i] = IF n.elem[i] = u THEN None ELSE n.elem[i]
  OBVIOUS
<1>5. n \in Arrays(v) /\ Slots(v) \in Nat /\ n.size \in Int
  BY <1>1, SlotsType DEF ArrayOK, Draft
<1> HIDE DEF e
<1>6. cut.elem = e /\ cut.size = n.size
  BY <1>5 DEF Arrays
<1>7. \A i \in 1..n.size : i \in 1..Slots(v)
  BY <1>1, <1>5 DEF ArrayOK, Draft
<1>8. None # v /\ None # u
  BY C3Assumption
<1>9. clearMechFromC3Network(ns, u, v) =
         IF n.size = 0 THEN n ELSE IF n.size < 0 THEN Empty(v) ELSE Kept(cut, v)
  BY DEF clearMechFromC3Network, cut, e
<1> HIDE DEF cut
<1>10. Draft(v, cut)
  BY <1>1, <1>3, <1>4, <1>6, <1>7, <1>8 DEF ArrayOK, Draft
<1>11. u \notin OthersOf(cut, v)
  BY <1>4, <1>6, <1>7, <1>8 DEF OthersOf
<1>12. u \notin OthersOf(Kept(cut, v), v)
  BY <1>10, <1>11, KeptFewer
<1>13. n.size <= 0 => OthersOf(n, v) = {}
  BY UseFacts
<1> QED
  BY <1>5, <1>9, <1>12, <1>13, EmptyUse

LEMMA RoomyLess ==
    ASSUME UnitsOK, NEW N \in SUBSET Units, IsFiniteSet(N), NEW u \in Units, masters[u] = 0,
           Roomy(N)
    PROVE  Roomy(N \ {u})
<1>1. CASE u \notin N
  <2>1. N \ {u} = N
    BY <1>1
  <2> QED
    BY <2>1
<1>2. CASE u \in N
  <2> DEFINE M == N \ {u}
  <2>1. M \in SUBSET Units /\ u \notin M /\ M \cup {u} = N
    BY <1>2
  <2>2. IsFiniteSet(M) /\ Cardinality(M) = Cardinality(N) - 1
    BY <1>2, FS_RemoveElement
  <2>3. Working(N) = Working(M) + masters[u]
    BY <2>1, <2>2, WorkingAdd
  <2>4. Working(M) \in Nat /\ Cardinality(N) \in Nat
    BY <2>1, <2>2, ComputersFinite, FS_CardinalityType
  <2> HIDE DEF M
  <2> QED
    BY <2>2, <2>3, <2>4 DEF Roomy, M
<1> QED
  BY <1>1, <1>2

\* u leaves: nobody uses it any more, and nothing else changes.
LEMMA LeaveUse ==
    ASSUME UnitsOK, NEW ns, AllOK(ns), Carried(ns), Agreed(ns), NEW u \in Units, ~Gone(u),
           HasC3(u) => masters[u] = 0, NEW v \in Units
    PROVE  Use(clearC3Network(ns, u, TRUE), v) = IF v = u THEN {} ELSE Use(ns, v) \ {u}
<1> DEFINE r == clearC3Network(ns, u, TRUE)
<1>1. r[v] = IF v = u THEN Empty(u)
             ELSE IF v \in OthersOf(ns[u], u) THEN clearMechFromC3Network(ns, u, v) ELSE ns[v]
  BY DEF clearC3Network
<1> HIDE DEF r
<1>2. CASE Gone(v)
  BY <1>2 DEF Use
<1>3. CASE v = u
  BY <1>1, <1>3, EmptyUse DEF Use, r
<1>4. CASE ~Gone(v) /\ v # u /\ v \in OthersOf(ns[u], u)
  <2> DEFINE U == OthersOf(ns[v], v)
  <2>1. U = Use(ns, v) /\ U \in SUBSET Units /\ IsFiniteSet(U)
    BY <1>4, UseFacts DEF Use
  <2>2. HasC3(v) => Roomy((U \ {u}) \cup {v})
    <3> SUFFICES ASSUME HasC3(v)
                 PROVE  Roomy((U \ {u}) \cup {v})
      OBVIOUS
    <3>1. Roomy(U \cup {v})
      BY <1>4, <2>1 DEF Carried
    <3>2. masters[u] = 0
      BY <1>4 DEF OthersOf, Linked, SameKind, HasC3, HasC3i
    <3>3. U \cup {v} \in SUBSET Units /\ IsFiniteSet(U \cup {v})
      BY <2>1, FS_AddElement
    <3>4. (U \cup {v}) \ {u} = (U \ {u}) \cup {v}
      BY <1>4
    <3> HIDE DEF U
    <3>5. Roomy((U \cup {v}) \ {u})
      BY <3>1, <3>2, <3>3, RoomyLess
    <3> QED
      BY <3>4, <3>5
  <2>3. OthersOf(clearMechFromC3Network(ns, u, v), v) = U \ {u}
    BY <2>2, CutUse
  <2> QED
    BY <1>1, <1>4, <2>3 DEF Use, r
<1>5. CASE ~Gone(v) /\ v # u /\ v \notin OthersOf(ns[u], u)
  <2>1. u \notin Use(ns, v)
    <3> SUFFICES ASSUME u \in Use(ns, v)
                 PROVE  FALSE
      OBVIOUS
    <3>1. v \in Use(ns, u) \cup {u}
      BY DEF Agreed
    <3> QED
      BY <1>5, <3>1 DEF Use
  <2>2. Use(r, v) = Use(ns, v)
    BY <1>1, <1>5 DEF Use
  <2> QED
    BY <1>5, <2>1, <2>2 DEF r
<1> QED
  BY <1>2, <1>3, <1>4, <1>5

\* A unit drops out of all that the others can use, and can use nobody.
LEMMA DroppedAgreed ==
    ASSUME NEW ns, NEW ms, AllOK(ns), Agreed(ns), NEW u \in Units,
           \A v \in Units : Use(ms, v) = IF v = u THEN {} ELSE Use(ns, v) \ {u}
    PROVE  Agreed(ms)
<1>1. \A v \in Units : Use(ns, v) \in SUBSET Units
  BY UseFacts
<1> SUFFICES ASSUME NEW w \in Units, NEW v \in Use(ms, w)
             PROVE  Use(ms, w) \cup {w} = Use(ms, v) \cup {v}
  BY DEF Agreed
<1>2. w # u /\ v # u /\ v \in Units /\ v \in Use(ns, w)
  BY <1>1
<1>3. Use(ns, w) \cup {w} = Use(ns, v) \cup {v}
  BY <1>2 DEF Agreed
<1>4. Use(ms, w) = Use(ns, w) \ {u} /\ Use(ms, v) = Use(ns, v) \ {u}
  BY <1>2
<1> QED
  BY <1>2, <1>3, <1>4

LEMMA DroppedCarried ==
    ASSUME UnitsOK, NEW ns, NEW ms, AllOK(ns), Carried(ns), NEW u \in Units,
           \A v \in Units : Use(ms, v) = IF v = u THEN {} ELSE Use(ns, v) \ {u},
           \A v \in Units : HasC3(v) /\ u \in Use(ns, v) => masters[u] = 0
    PROVE  Carried(ms)
<1> SUFFICES ASSUME NEW v \in Units, HasC3(v), ~Gone(v)
             PROVE  Roomy(Use(ms, v) \cup {v})
  BY DEF Carried
<1> DEFINE U == Use(ns, v)
<1>1. U \in SUBSET Units /\ IsFiniteSet(U) /\ Roomy(U \cup {v})
  BY UseFacts DEF Carried
<1>2. CASE v = u
  <2>1. Use(ms, v) \cup {v} = {v}
    BY <1>2
  <2>2. {v} \in SUBSET Units /\ IsFiniteSet({v}) /\ Cardinality({v}) = 1
    BY FS_Singleton
  <2>3. Working({v}) \in Nat
    BY <2>2, ComputersFinite
  <2> QED
    BY <2>1, <2>2, <2>3 DEF Roomy
<1>3. CASE v # u /\ u \notin U
  <2>1. Use(ms, v) = U
    BY <1>3
  <2> QED
    BY <1>1, <2>1
<1>4. CASE v # u /\ u \in U
  <2>1. masters[u] = 0
    BY <1>4
  <2>2. U \cup {v} \in SUBSET Units /\ IsFiniteSet(U \cup {v})
    BY <1>1, FS_AddElement
  <2>3. (U \cup {v}) \ {u} = Use(ms, v) \cup {v}
    BY <1>4
  <2> HIDE DEF U
  <2>4. Roomy((U \cup {v}) \ {u})
    BY <1>1, <2>1, <2>2, RoomyLess
  <2> QED
    BY <2>3, <2>4
<1> QED
  BY <1>2, <1>3, <1>4

-----------------------------------------------------------------------------
\* Joining.

\* The units that an array names.
Names(n) == {n.elem[i] : i \in 1..n.size}

LEMMA NamesInUse ==
    ASSUME NEW u \in Units, NEW n, ArrayOK(u, n)
    PROVE  Names(n) \in SUBSET Units /\ OthersOf(n, u) = {v \in Names(n) : Linked(u, v)}
<1>1. n.size \in Int /\ Slots(u) \in Nat /\ n.size <= Slots(u)
  BY SlotsType DEF ArrayOK, Draft
<1>2. ASSUME NEW i \in 1..n.size
      PROVE  n.elem[i] \in Units
  BY <1>1, <1>2 DEF ArrayOK, Draft
<1>3. Names(n) \in SUBSET Units
  BY <1>2 DEF Names
<1> QED
  BY <1>3 DEF Names, OthersOf

LEMMA ReplicaMembers ==
    ASSUME UnitsOK, NEW ns, AllOK(ns), NEW src \in Units, ns[src].size >= 0,
           NEW dest \in Units, src # dest
    PROVE  Members(Replica(ns, src, dest)) \cap Units = ({src} \cup Names(ns[src])) \ {dest}
<1> DEFINE n == ns[src]
           B == Units \cup {None}
           S == {i \in DOMAIN n.elem : n.elem[i] # dest}
           p == Pick(n.elem, S)
           list == Replica(ns, src, dest)
<1>1. ArrayOK(src, n)
  BY DEF AllOK
<1>2. /\ n.elem \in [1..Slots(src) -> B] /\ Slots(src) \in Nat /\ DOMAIN n.elem = 1..Slots(src)
      /\ n.size \in Nat /\ n.size <= Slots(src)
  BY <1>1, SlotsType DEF ArrayOK, Draft
<1>3. n.elem \in Seq(B) /\ S \in SUBSET DOMAIN n.elem
  BY <1>2, SeqDef
<1>4. Members(p) = {n.elem[x] : x \in S} /\ p \in Seq(B)
  <2> DEFINE e == n.elem
  <2>1. e \in Seq(B) /\ S \in SUBSET DOMAIN e /\ p = Pick(e, S)
    BY <1>3
  <2> HIDE DEF e, S, B, p
  <2>2. Members(p) = {e[x] : x \in S}
    BY <2>1, PickMembers
  <2>3. p \in Seq(B)
    BY <2>1, PickFacts
  <2> QED
    BY <2>2, <2>3 DEF e
<1>5. list = <<src>> \o p
  BY DEF Replica
<1>6. {n.elem[x] : x \in S} \cap Units = Names(n) \ {dest}
  <2>1. \A i \in 1..Slots(src) : n.elem[i] \in Units <=> i \in 1..n.size
    <3>1. None \notin Units
      BY C3Assumption
    <3> QED
      BY <1>1, <1>2, <3>1 DEF ArrayOK
  <2>2. \A i \in 1..n.size : i \in 1..Slots(src)
    BY <1>2
  <2> QED
    BY <1>2, <2>1, <2>2 DEF Names
<1> HIDE DEF p, list, S, B
<1>7. Members(list) = {src} \cup Members(p)
  <2>1. <<src>> \in Seq(B) /\ Len(<<src>>) = 1 /\ <<src>>[1] = src
    BY DEF B
  <2>2. Len(p) \in Nat /\ DOMAIN p = 1..Len(p)
    BY <1>4
  <2>3. /\ list \in Seq(B) /\ Len(list) = 1 + Len(p)
        /\ \A i \in 1..(1 + Len(p)) : list[i] = IF i <= 1 THEN <<src>>[i] ELSE p[i - 1]
    BY <1>4, <1>5, <2>1, ConcatProperties
  <2>4. DOMAIN list = 1..(1 + Len(p))
    BY <2>3
  <2>5. \A i \in DOMAIN list : list[i] \in {src} \cup Members(p)
    BY <2>1, <2>2, <2>3, <2>4 DEF Members
  <2>6. 1 \in DOMAIN list /\ list[1] = src
    BY <2>1, <2>2, <2>3, <2>4
  <2>7. \A i \in DOMAIN p : i + 1 \in DOMAIN list /\ list[i + 1] = p[i]
    BY <2>2, <2>3, <2>4
  <2> QED
    BY <2>5, <2>6, <2>7 DEF Members
<1>8. Members(list) \cap Units = ({src} \cup Names(n)) \ {dest}
  BY <1>4, <1>6, <1>7
<1> QED
  BY <1>8 DEF list

\* The copy that dest gets names src and all its members.
LEMMA ReplicaUse ==
    ASSUME UnitsOK, NEW ns, AllOK(ns), NEW src \in Units, ns[src].size >= 0,
           NEW dest \in OthersOf(ns[src], src),
           NEW T, \A v : v \in T <=> v \in ({src} \cup Names(ns[src])) \ {dest} /\ Linked(dest, v),
           HasC3(dest) => Roomy(T \cup {dest})
    PROVE  OthersOf(replicateC3Network(ns, src, dest), dest) = T
<1> DEFINE list == Replica(ns, src, dest)
           k == AtMost(Len(list), Slots(dest))
           c == SubSeq(list, 1, k)
           e == [i \in 1..Slots(dest) |-> IF i <= Len(c) THEN c[i] ELSE None]
           n == Filled(dest, c)
           B == Units \cup {None}
<1>1. /\ list \in Seq(B) /\ Len(list) <= Slots(dest)
      /\ \A i, j \in DOMAIN list : list[i] = list[j] /\ list[i] # None => i = j
      /\ \A i \in DOMAIN list : list[i] # dest
  BY ReplicaFacts
<1>2. dest \in Units /\ Slots(dest) \in Nat /\ src # dest
  <2> DEFINE O == OthersOf(ns[src], src)
  <2>1. O \in SUBSET Units /\ src \notin O
    BY UseFacts
  <2>2. dest \in O
    OBVIOUS
  <2> HIDE DEF O
  <2> QED
    BY <2>1, <2>2, SlotsType
<1>3. Members(list) \cap Units = ({src} \cup Names(ns[src])) \ {dest}
  BY <1>2, ReplicaMembers
<1>4. replicateC3Network(ns, src, dest) = Kept(n, dest)
  BY DEF replicateC3Network
<1> HIDE DEF list
<1>5. k = Len(list)
  BY <1>1, <1>2 DEF AtMost
<1>6. c = list
  BY <1>1, <1>5, SubSeqFull
<1> HIDE DEF c
<1>7. n.elem = e /\ n.size = Len(list)
  BY <1>6 DEF Filled
<1>8. Len(list) \in Nat /\ DOMAIN list = 1..Len(list)
  BY <1>1
<1>9. e \in [1..Slots(dest) -> B]
  BY <1>1, <1>2, <1>6, <1>8
<1>10. \A i \in 1..Len(list) : e[i] = list[i] /\ i \in DOMAIN list
  BY <1>1, <1>2, <1>6, <1>8
<1> HIDE DEF e, n
<1>11. Draft(dest, n)
  BY <1>1, <1>7, <1>8, <1>9, <1>10 DEF Draft
<1>12. {n.elem[i] : i \in 1..n.size} = Members(list)
  BY <1>7, <1>8, <1>10 DEF Members
<1>13. OthersOf(n, dest) = T
  BY <1>3, <1>12 DEF OthersOf
<1> QED
  BY <1>2, <1>4, <1>11, <1>13, KeptSame

\* After its validation a unit that is in order names those it can use, and no others.
LEMMA ValidatedNames ==
    ASSUME UnitsOK, NEW ns, AllOK(ns), NEW t \in Units
    PROVE  LET n == validateC3Network(ns, t)[t] IN Names(n) = OthersOf(n, t)
<1> DEFINE r == validateC3Network(ns, t)
<1>1. CASE dead[t] \/ broken[t] \/ ns[t].size < 0
  <2>1. r[t] = Empty(t)
    BY <1>1 DEF validateC3Network, clearC3Network
  <2>2. Names(Empty(t)) = {}
    BY DEF Names, Empty, Filled
  <2> QED
    BY <2>1, <2>2, EmptyUse
<1>2. CASE ~(dead[t] \/ broken[t] \/ ns[t].size < 0)
  <2>1. r[t] = Kept(ns[t], t)
    BY <1>2 DEF validateC3Network, AllOK
  <2>2. Draft(t, ns[t])
    BY DEF AllOK, ArrayOK
  <2> QED
    BY <2>1, <2>2, KeptFewer DEF Names
<1> QED
  BY <1>1, <1>2

LEMMA EnteredNames ==
    ASSUME UnitsOK, NEW ns, AllOK(ns), NEW t \in Units, ns[t].size >= 0, NEW u \in Units, u # t,
           NEW i \in FreePos(ns[t], u)
    PROVE  /\ Names(Entered(ns, t, u, i)[t]) = Names(ns[t]) \cup {u}
           /\ u \notin Names(ns[t])
           /\ \A v \in Units : v # t => Entered(ns, t, u, i)[v] = ns[v]
<1> DEFINE n == ns[t]
           e == [j \in 1..Slots(t) |-> IF j = i THEN u ELSE n.elem[j]]
           m == [elem |-> e, size |-> n.size + 1]
           r == Entered(ns, t, u, i)
<1>1. ArrayOK(t, n) /\ n.size >= 0
  BY DEF AllOK
<1>2. i \in 1..Slots(t) /\ i = n.size + 1 /\ \A j \in 1..n.size : n.elem[j] # u
  BY <1>1, FreeSlot
<1>3. Slots(t) \in Nat /\ n.size \in Nat /\ n.size <= Slots(t)
  BY <1>1, SlotsType DEF ArrayOK, Draft
<1>4. r = [ns EXCEPT ![t] = m]
  BY DEF Entered
<1>5. r[t] = m /\ \A v \in Units : v # t => r[v] = ns[v]
  BY <1>4 DEF AllOK
<1>6. m.elem = e /\ m.size = n.size + 1
  OBVIOUS
<1>7. e[i] = u /\ \A j \in 1..n.size : e[j] = n.elem[j]
  BY <1>2, <1>3
<1> HIDE DEF e, m, r
<1>8. \A j \in 1..(n.size + 1) : j = i \/ j \in 1..n.size
  BY <1>2, <1>3
<1>9. i \in 1..(n.size + 1) /\ \A j \in 1..n.size : j \in 1..(n.size + 1)
  BY <1>2, <1>3
<1>10. Names(m) = Names(n) \cup {u}
  BY <1>6, <1>7, <1>8, <1>9 DEF Names
<1>11. u \notin Names(n)
  BY <1>2 DEF Names
<1> QED
  BY <1>5, <1>10, <1>11 DEF r

\* The check for room: the masters of t's network, with t's and u's own, carry it and u.
LEMMA RoomFor ==
    ASSUME UnitsOK, NEW ns, AllOK(ns), NEW t \in Units, NEW u \in Units, u # t, HasC3(t),
           ns[t].size >= 0, NEW N, N = Names(ns[t]), u \notin N, HasRoom(ns, u, t)
    PROVE  Roomy((N \cup {t}) \cup {u})
<1> DEFINE n == ns[t]
           k == n.size
           list == SubSeq(n.elem, 1, k)
           one == <<t>>
<1>1. ArrayOK(t, n) /\ Slots(t) \in Nat /\ k \in Nat /\ k <= Slots(t)
  BY SlotsType DEF AllOK, ArrayOK, Draft
<1>2. n.elem \in Seq(Units \cup {None}) /\ Len(n.elem) = Slots(t)
  BY <1>1, SeqDef DEF ArrayOK, Draft
<1>3. \A i \in 1..k : n.elem[i] \in Units /\ n.elem[i] # t
  BY <1>1 DEF ArrayOK, Draft
<1>4. \A i, j \in 1..k : n.elem[i] = n.elem[j] => i = j
  <2>1. None \notin Units
    BY C3Assumption
  <2> QED
    BY <1>1, <1>3, <2>1 DEF ArrayOK, Draft
<1>5. Len(list) = k /\ DOMAIN list = 1..k /\ \A i \in 1..k : list[i] = n.elem[i]
  BY <1>1, <1>2, SubSeqProperties
<1>6. list \in Seq(Units)
  <2>1. list \in Seq(Units \cup {None})
    BY <1>1, <1>2, SubSeqProperties
  <2> QED
    BY <1>1, <1>3, <1>5, <2>1, SeqDef
<1>7. Members(list) = N /\ t \notin N
  BY <1>3, <1>5 DEF Members, Names
<1>8. countMaxC3Units(u, list, one) >= k + 1
  BY DEF HasRoom, HasC3, HasC3i
<1> HIDE DEF list, k
<1>9. N \in SUBSET Units /\ IsFiniteSet(N) /\ Cardinality(N) = k
  BY <1>4, <1>5, <1>6, <1>7, MembersCount
<1>10. SumOf(list) = Working(N)
  BY <1>4, <1>5, <1>6, <1>7, SumWorking
<1>11. SumOf(one) = masters[t]
  <2>1. one \in Seq(Units) /\ \A i, j \in DOMAIN one : one[i] = one[j] => i = j
    OBVIOUS
  <2>2. Members(one) = {t}
    BY DEF Members
  <2> HIDE DEF one
  <2>3. SumOf(one) = Working({t})
    BY <2>1, <2>2, SumWorking
  <2>4. IsFiniteSet({}) /\ {} \in SUBSET Units /\ t \notin {} /\ {} \cup {t} = {t}
    BY FS_EmptySet
  <2>5. Working({} \cup {t}) = Working({}) + masters[t]
    BY <2>4, WorkingAdd
  <2>6. Working({}) = 0
    BY FS_EmptySet DEF Working, Computers
  <2>7. masters[t] \in Nat
    BY DEF UnitsOK
  <2> QED
    BY <2>3, <2>4, <2>5, <2>6, <2>7
<1> HIDE DEF one
<1> DEFINE M == N \cup {t}
<1>12. M \in SUBSET Units /\ IsFiniteSet(M) /\ Cardinality(M) = k + 1 /\ Working(M) = Working(N) + masters[t]
  BY <1>7, <1>9, FS_AddElement, WorkingAdd
<1>13. u \notin M
  OBVIOUS
<1> HIDE DEF M
<1>14. Cardinality(M \cup {u}) = Cardinality(M) + 1 /\ Working(M \cup {u}) = Working(M) + masters[u]
  BY <1>12, <1>13, FS_AddElement, WorkingAdd
<1>15. masters[u] \in Nat /\ masters[t] \in Nat /\ Working(N) \in Nat /\ k \in Nat
  <2>1. k \in Nat
    BY <1>1 DEF k
  <2> QED
    BY <1>9, <2>1, ComputersFinite DEF UnitsOK
<1>16. 3 * (Working(N) + masters[u] + masters[t]) >= k + 1
  BY <1>8, <1>10, <1>11, <1>15, C3Assumption DEF countMaxC3Units, AtMost
<1>17. Cardinality(M \cup {u}) = k + 2
  BY <1>12, <1>14, <1>15
<1>18. Working(M \cup {u}) = Working(N) + masters[u] + masters[t]
  BY <1>12, <1>14, <1>15
<1>19. Cardinality(M \cup {u}) <= 3 * Working(M \cup {u}) + 1
  BY <1>15, <1>16, <1>17, <1>18
<1> QED
  BY <1>19 DEF Roomy, M

\* A network N1 grows by u, and its members all know.
LEMMA GrownKeeps ==
    ASSUME NEW ns, NEW ms, AllOK(ns), Agreed(ns), Carried(ns), NEW t \in Units, NEW u \in Units,
           Use(ns, u) = {}, NEW N, N = (Use(ns, t) \cup {t}) \cup {u},
           \A v \in N : HasC3(v) => Roomy(N),
           \A v \in Units : Use(ms, v) = IF v \in N THEN N \ {v} ELSE Use(ns, v)
    PROVE  Agreed(ms) /\ Carried(ms)
<1>1. \A v \in Units : Use(ns, v) \in SUBSET Units /\ v \notin Use(ns, v)
  BY UseFacts
<1>2. \A w \in Units : u \notin Use(ns, w)
  BY <1>1 DEF Agreed
<1>3. Agreed(ms)
  <2> SUFFICES ASSUME NEW w \in Units, NEW v \in Use(ms, w)
               PROVE  Use(ms, w) \cup {w} = Use(ms, v) \cup {v}
    BY DEF Agreed
  <2>1. CASE w \in N
    <3>1. Use(ms, w) = N \ {w} /\ v \in N /\ v \in Units
      BY <1>1, <2>1
    <3> QED
      BY <2>1, <3>1
  <2>2. CASE w \notin N
    <3>1. Use(ms, w) = Use(ns, w) /\ v \in Use(ns, w) /\ v \in Units
      BY <1>1, <2>2
    <3>2. Use(ns, w) \cup {w} = Use(ns, v) \cup {v}
      BY <3>1 DEF Agreed
    <3>3. v \notin N
      <4>1. v # u
        BY <1>2, <3>1
      <4>2. v # t
        BY <2>2, <3>2
      <4>3. ASSUME v \in Use(ns, t)
            PROVE  FALSE
        <5>1. Use(ns, t) \cup {t} = Use(ns, v) \cup {v}
          BY <4>3 DEF Agreed
        <5> QED
          BY <2>2, <3>2, <5>1
      <4> QED
        BY <4>1, <4>2, <4>3
    <3> QED
      BY <3>1, <3>2, <3>3
  <2> QED
    BY <2>1, <2>2
<1>4. Carried(ms)
  <2> SUFFICES ASSUME NEW v \in Units, HasC3(v), ~Gone(v)
               PROVE  Roomy(Use(ms, v) \cup {v})
    BY DEF Carried
  <2>1. CASE v \in N
    <3>1. Use(ms, v) \cup {v} = N
      BY <2>1
    <3> QED
      BY <2>1, <3>1
  <2>2. CASE v \notin N
    BY <2>2 DEF Carried
  <2> QED
    BY <2>1, <2>2
<1> QED
  BY <1>3, <1>4

\* u joins t's network: the arrays still agree and the masters still carry them.  If t's own
\* computer is destroyed u gets a copy in which it can use nobody.
LEMMA AddKeeps ==
    ASSUME UnitsOK, NEW ns, AllOK(ns), Agreed(ns), Carried(ns),
           NEW t \in Units, NEW u \in Units, u # t, ~Gone(u), Use(ns, u) = {},
           mapindex[t] = mapindex[u], team[t] = team[u], ~dead[t], SameKind(u, t),
           HasC3(t) /\ ~Gone(t) => Roomy((Use(ns, t) \cup {t}) \cup {u})
    PROVE  LET r == addMechToC3Network(ns, t, u) IN Agreed(r) /\ Carried(r)
<1> DEFINE valid == validateC3Network(ns, t)
           Pos == FreePos(valid[t], u)
           i == CHOOSE x \in Pos : TRUE
           new == Entered(valid, t, u, i)
           all == [v \in Units |-> IF v \in OthersOf(new[t], t)
                                   THEN replicateC3Network(new, t, v) ELSE new[v]]
           N == (Use(ns, t) \cup {t}) \cup {u}
<1>1. AllOK(valid) /\ valid[t].size >= 0 /\ Agreed(valid) /\ Carried(valid)
  BY ValidateKeeps
<1>2. \A v \in Units : Use(valid, v) = Use(ns, v)
  BY ValidateUse
<1>3. Names(valid[t]) = OthersOf(valid[t], t)
  BY ValidatedNames
<1>4. Linked(t, u)
  BY DEF Linked, SameKind, Gone
<1>5. Gone(t) => OthersOf(valid[t], t) = {}
  <2>1. Gone(t) => valid[t] = Empty(t)
    BY DEF validateC3Network, clearC3Network, Gone
  <2> QED
    BY <2>1, EmptyUse
<1>6. CASE Pos = {}
  <2>1. addMechToC3Network(ns, t, u) = valid
    BY <1>6 DEF addMechToC3Network
  <2> QED
    BY <1>1, <2>1
<1> HIDE DEF valid
<1>7. CASE Pos # {}
  <2>1. i \in Pos
    BY <1>7
  <2>2. addMechToC3Network(ns, t, u) = validateC3Network(all, t)
    BY <1>7 DEF addMechToC3Network, valid
  <2> HIDE DEF i
  <2>3. AllOK(new) /\ new[t].size >= 0
    BY <1>1, <2>1, EnteredOK
  <2>4. Names(new[t]) = Names(valid[t]) \cup {u} /\ \A v \in Units : v # t => new[v] = valid[v]
    BY <1>1, <2>1, EnteredNames
  <2> HIDE DEF new
  <2>5. OthersOf(valid[t], t) \in SUBSET Units /\ \A v \in OthersOf(valid[t], t) : Linked(t, v) /\ v # t
    BY <1>1, UseFacts, SMTT(30), ZenonT(30) DEF OthersOf
  <2>6. OthersOf(new[t], t) = OthersOf(valid[t], t) \cup {u}
    <3>1. OthersOf(new[t], t) = {v \in Names(new[t]) : Linked(t, v)}
      BY <2>3, NamesInUse DEF AllOK
    <3> QED
      BY <1>3, <1>4, <2>4, <2>5, <3>1
  <2>7. ASSUME NEW v \in OthersOf(new[t], t)
        PROVE  ArrayOK(v, replicateC3Network(new, t, v))
    BY <2>3, ReplicateOK
  <2>8. AllOK(all)
    BY <2>3, <2>7 DEF AllOK
  <2>9. \A v \in Units : all[v] = IF v \in OthersOf(new[t], t) THEN replicateC3Network(new, t, v) ELSE new[v]
    OBVIOUS
  <2> HIDE DEF all
  <2>10. Agreed(all) /\ Carried(all)
    <3>1. CASE Gone(t)
      <4>1. OthersOf(new[t], t) = {u} /\ Names(new[t]) = {u}
        BY <1>3, <1>5, <2>4, <2>6, <3>1
      <4>2. \A x : x \in {} <=> x \in ({t} \cup Names(new[t])) \ {u} /\ Linked(u, x)
        BY <3>1, <4>1 DEF Linked, Gone
      <4>3. Roomy({} \cup {u})
        <5>1. IsFiniteSet({u}) /\ Cardinality({u}) = 1
          BY FS_Singleton
        <5>2. Working({u}) \in Nat
          BY <5>1, ComputersFinite
        <5>3. {} \cup {u} = {u}
          OBVIOUS
        <5> QED
          BY <5>1, <5>2, <5>3 DEF Roomy
      <4>4. OthersOf(replicateC3Network(new, t, u), u) = {}
        <5>1. u \in OthersOf(new[t], t)
          BY <4>1
        <5> QED
          BY <2>3, <4>2, <4>3, <5>1, ReplicaUse
      <4>5. ASSUME NEW v \in Units
            PROVE  Use(all, v) = Use(ns, v)
        <5>1. CASE v = t
          BY <3>1, <5>1 DEF Use
        <5>2. CASE v = u
          BY <2>9, <4>1, <4>4, <5>2 DEF Use
        <5>3. CASE v # t /\ v # u
          BY <1>2, <2>4, <2>9, <4>1, <5>3 DEF Use
        <5> QED
          BY <5>1, <5>2, <5>3
      <4> QED
        BY <4>5, SameUse
    <3>2. CASE ~Gone(t)
      <4>1. OthersOf(valid[t], t) = Use(ns, t)
        BY <1>2, <3>2 DEF Use
      <4>2. OthersOf(new[t], t) = Use(ns, t) \cup {u} /\ {t} \cup Names(new[t]) = N
        BY <1>3, <2>4, <2>6, <4>1
      <4>3. \A v \in N : v \in Units /\ ~Gone(v) /\ SameKind(t, v) /\ team[v] = team[t] /\ mapindex[v] = mapindex[t]
        BY <1>4, <2>5, <3>2, <4>1 DEF Linked, Gone, SameKind
      <4>4. \A v, x \in N : Linked(v, x)
        BY <4>3 DEF Linked, Gone, SameKind
      <4>5. \A v \in N : HasC3(v) => HasC3(t)
        BY <4>3 DEF SameKind, HasC3, HasC3i
      <4>6. \A v \in N : HasC3(v) => Roomy(N)
        BY <3>2, <4>5
      <4>7. t \notin OthersOf(new[t], t)
        BY <2>5, <4>1, <4>2
      <4> HIDE DEF N
      <4>8. ASSUME NEW v \in OthersOf(new[t], t)
            PROVE  OthersOf(replicateC3Network(new, t, v), v) = N \ {v}
        <5> DEFINE T == {x \in ({t} \cup Names(new[t])) \ {v} : Linked(v, x)}
        <5>1. v \in N
          BY <4>2 DEF N
        <5>2. T = N \ {v}
          BY <4>2, <4>4, <5>1
        <5>3. T \cup {v} = N
          BY <5>1, <5>2
        <5>4. HasC3(v) => Roomy(T \cup {v})
          BY <4>6, <5>1, <5>3
        <5>5. \A x : x \in T <=> x \in ({t} \cup Names(new[t])) \ {v} /\ Linked(v, x)
          OBVIOUS
        <5> HIDE DEF T
        <5>6. OthersOf(replicateC3Network(new, t, v), v) = T
          BY <2>3, <5>4, <5>5, ReplicaUse
        <5> QED
          BY <5>2, <5>6
      <4>9. ASSUME NEW v \in Units
            PROVE  Use(all, v) = IF v \in N THEN N \ {v} ELSE Use(ns, v)
        <5>1. CASE v = t
          <6>1. all[t] = new[t] /\ Use(all, t) = OthersOf(new[t], t)
            BY <2>9, <3>2, <4>7 DEF Use
          <6>2. OthersOf(new[t], t) = N \ {t} /\ t \in N
            BY <4>2, <4>7 DEF N
          <6> QED
            BY <5>1, <6>1, <6>2
        <5>2. CASE v \in OthersOf(new[t], t)
          <6>1. v \in N
            BY <4>2, <5>2 DEF N
          <6>2. ~Gone(v) /\ all[v] = replicateC3Network(new, t, v)
            BY <2>9, <4>3, <5>2, <6>1
          <6> QED
            BY <4>8, <5>2, <6>1, <6>2 DEF Use
        <5>3. CASE v # t /\ v \notin OthersOf(new[t], t)
          <6>1. v \notin N
            BY <4>2, <5>3 DEF N
          <6>2. all[v] = valid[v]
            BY <2>4, <2>9, <5>3
          <6>3. Use(all, v) = Use(valid, v)
            BY <6>2 DEF Use
          <6> QED
            BY <1>2, <6>1, <6>3
        <5> QED
          BY <5>1, <5>2, <5>3
      <4>10. N = (Use(ns, t) \cup {t}) \cup {u}
        BY DEF N
      <4> QED
        BY <4>6, <4>9, <4>10, GrownKeeps
    <3> QED
      BY <3>1, <3>2
  <2> QED
    BY <2>2, <2>8, <2>10, ValidateKeeps
<1> QED
  BY <1>6, <1>7

-----------------------------------------------------------------------------
\* Steps.

\* The inductive invariant of agreement: that the masters carry every C3 network makes it
\* inductive, since an array is trimmed without regard to what the others keep.
AInv == IInv /\ (settled => Agreed(net) /\ Carried(net))

LEMMA InUseIs == AllOK(net) => \A u \in Units : InUse(u) = Use(net, u) /\ Use(net, u) \subseteq Named(u)
<1> SUFFICES ASSUME AllOK(net), NEW u \in Units
             PROVE  InUse(u) = Use(net, u) /\ Use(net, u) \subseteq Named(u)
  OBVIOUS
<1>1. ArrayOK(u, net[u])
  BY DEF AllOK
<1>2. Named(u) = Names(net[u])
  BY DEF Named, Names
<1>3. Named(u) \in SUBSET Units /\ OthersOf(net[u], u) = {v \in Named(u) : Linked(u, v)}
  BY <1>1, <1>2, NamesInUse
<1>4. InUse(u) = IF Gone(u) THEN {} ELSE {v \in Named(u) : Linked(u, v)}
  BY DEF InUse, Gone
<1> QED
  BY <1>3, <1>4 DEF Use

LEMMA InUseNext == AllOK(net)' => \A u \in Units : InUse(u)' = Use(net, u)' /\ Use(net, u)' \subseteq Named(u)'
<1>1. (AllOK(net) => \A u \in Units : InUse(u) = Use(net, u) /\ Use(net, u) \subseteq Named(u))'
  BY InUseIs, PTL
<1> QED
  BY <1>1

\* A step that leaves the networks settled.
Undisturbed == settled /\ ~Returned /\ ~LostMaster

\* What such a step cannot do.
LEMMA TrackFacts ==
    ASSUME AllOK(net), AllOK(net)', UnitsOK, UnitsOK', Undisturbed
    PROVE  /\ settled
           /\ \A v \in Units : net'[v] = net[v] => Use(net, v)' \subseteq Use(net, v)
           /\ \A v \in Units : \A x \in Use(net, v) : x \notin Use(net, v)' => masters[x] = 0
           /\ \A v \in Units : masters'[v] >= masters[v]
<1>1. settled /\ ~Returned /\ ~LostMaster
  BY DEF Undisturbed
<1>2. ASSUME NEW v \in Units
      PROVE  /\ InUse(v) = Use(net, v) /\ InUse(v)' = Use(net, v)' /\ Use(net, v)' \subseteq Named(v)'
             /\ Use(net, v) \in SUBSET Units
  BY InUseIs, InUseNext, UseFacts
<1>3. ASSUME NEW v \in Units, net'[v] = net[v]
      PROVE  Use(net, v)' \subseteq Use(net, v)
  <2>1. Named(v)' = Named(v)
    BY <1>3 DEF Named
  <2>2. Named(v) \cap (InUse(v)' \ InUse(v)) = {}
    BY <1>1 DEF Returned
  <2> QED
    BY <1>2, <2>1, <2>2
<1>4. ASSUME NEW v \in Units, NEW x \in Use(net, v), x \notin Use(net, v)'
      PROVE  masters[x] = 0
  <2>1. x \in InUse(v) \ InUse(v)' /\ x \in Units
    BY <1>2, <1>4
  <2>2. ~(masters[x] > 0)
    BY <1>1, <2>1 DEF LostMaster
  <2> QED
    BY <2>1, <2>2 DEF UnitsOK
<1>5. ASSUME NEW v \in Units
      PROVE  masters'[v] >= masters[v]
  <2>1. ~(masters[v]' < masters[v])
    BY <1>1 DEF LostMaster
  <2>2. masters[v]' \in Nat /\ masters[v] \in Nat
    BY DEF UnitsOK
  <2> QED
    BY <2>1, <2>2
<1> QED
  BY <1>1, <1>3, <1>4, <1>5

\* The steps that change only arrays.
LEMMA SameUnits ==
    ASSUME UNCHANGED <<fleet, team, mapindex, dead, broken, masters>>
    PROVE  \A v \in Units : Use(net, v)' = Use(net', v)
BY DEF Use, Gone, OthersOf, Linked, SameKind, HasC3i

\* Do the masters in g carry the units of N?
Carries(g, N) == Cardinality(N) <= 3 * Cardinality(UNION {{v} \X (1..g[v]) : v \in N}) + 1

LEMMA RoomyIs ==
    ASSUME NEW N
    PROVE  Roomy(N) <=> Carries(masters, N)
BY DEF Roomy, Working, Computers, Carries

LEMMA CarriedNext ==
    ASSUME \A v \in Units : HasC3(v)' /\ ~Gone(v)' => Carries(masters', Use(net, v)' \cup {v})
    PROVE  Carried(net)'
BY DEF Carried, Roomy, Working, Computers, Carries

LEMMA SameUnitsKeep ==
    ASSUME UNCHANGED <<fleet, team, mapindex, dead, broken, masters>>,
           Agreed(net'), Carried(net'), AllOK(net')
    PROVE  Agreed(net)' /\ Carried(net)'
<1>1. \A v \in Units : Use(net, v)' = Use(net', v) /\ Use(net', v) \in SUBSET Units
  BY SameUnits, UseFacts
<1>2. Agreed(net)'
  BY <1>1 DEF Agreed
<1>3. ASSUME NEW v \in Units, HasC3(v)', ~Gone(v)'
      PROVE  Carries(masters', Use(net, v)' \cup {v})
  <2>1. HasC3(v) /\ ~Gone(v)
    BY <1>3 DEF HasC3, HasC3i, Gone
  <2>2. Carries(masters, Use(net', v) \cup {v})
    BY <2>1, RoomyIs DEF Carried
  <2> QED
    BY <1>1, <2>2
<1> QED
  BY <1>2, <1>3, CarriedNext

\* More masters carry as much.
LEMMA CarriesMore ==
    ASSUME NEW N \in SUBSET Units, IsFiniteSet(N), NEW f \in [Units -> Nat], NEW g \in [Units -> Nat],
           \A v \in N : g[v] >= f[v], Carries(f, N)
    PROVE  Carries(g, N)
<1> DEFINE a == [v \in N |-> f[v]]
           b == [v \in N |-> g[v]]
           A == UNION {{v} \X (1..a[v]) : v \in N}
           B == UNION {{v} \X (1..b[v]) : v \in N}
<1>1. IsFiniteSet(B)
  <2>1. b \in [N -> Nat]
    OBVIOUS
  <2> HIDE DEF b
  <2> QED
    BY <2>1, BoxesFinite
<1>2. A \subseteq B
  <2> SUFFICES ASSUME NEW v \in N, NEW x \in {v} \X (1..a[v])
               PROVE  x \in {v} \X (1..b[v])
    OBVIOUS
  <2>1. 1..a[v] \subseteq 1..b[v]
    <3>1. a[v] \in Nat /\ b[v] \in Nat /\ a[v] <= b[v]
      OBVIOUS
    <3> QED
      BY <3>1
  <2> QED
    BY <2>1
<1>3. A = UNION {{v} \X (1..f[v]) : v \in N} /\ B = UNION {{v} \X (1..g[v]) : v \in N}
  OBVIOUS
<1> HIDE DEF A, B
<1>4. Cardinality(A) <= Cardinality(B) /\ Cardinality(A) \in Nat /\ Cardinality(B) \in Nat
  BY <1>1, <1>2, FS_Subset, FS_CardinalityType
<1>5. Cardinality(N) \in Nat
  BY FS_CardinalityType
<1> QED
  BY <1>3, <1>4, <1>5 DEF Carries

LEMMA CarriesOne ==
    ASSUME NEW u
    PROVE  \A g \in [Units -> Nat] : u \in Units => Carries(g, {u})
<1> SUFFICES ASSUME NEW g \in [Units -> Nat], u \in Units
             PROVE  Carries(g, {u})
  OBVIOUS
<1> DEFINE N == {u}
           b == [v \in N |-> g[v]]
           B == UNION {{v} \X (1..b[v]) : v \in N}
<1>1. IsFiniteSet(N) /\ Cardinality(N) = 1
  BY FS_Singleton
<1>2. b \in [N -> Nat] /\ B = UNION {{v} \X (1..g[v]) : v \in N}
  OBVIOUS
<1> HIDE DEF b, N
<1>3. IsFiniteSet(B)
  BY <1>1, <1>2, BoxesFinite
<1> HIDE DEF B
<1>4. Cardinality(B) \in Nat
  BY <1>3, FS_CardinalityType
<1> QED
  BY <1>1, <1>2, <1>4 DEF Carries, N

\* The steps that change a unit: it drops out of all arrays.
LEMMA DroppedStep ==
    ASSUME UnitsOK, UnitsOK', AllOK(net), Agreed(net), Carried(net), NEW u \in Units,
           fleet' = fleet, \A v \in Units : v # u => (Gone(v)' <=> Gone(v)),
           \A v \in Units : masters'[v] >= masters[v],
           \A v \in Units : Use(net, v)' = IF v = u THEN {} ELSE Use(net, v) \ {u},
           \A v \in Units : u \in Use(net, v) => masters[u] = 0
    PROVE  Agreed(net)' /\ Carried(net)'
<1>1. \A v \in Units : Use(net, v) \in SUBSET Units /\ IsFiniteSet(Use(net, v))
  BY UseFacts
<1>2. Agreed(net)'
  <2> SUFFICES ASSUME NEW w \in Units, NEW v \in Use(net, w)'
               PROVE  Use(net, w)' \cup {w} = Use(net, v)' \cup {v}
    BY DEF Agreed
  <2>1. w # u /\ v # u /\ v \in Units /\ v \in Use(net, w)
    BY <1>1
  <2>2. Use(net, w) \cup {w} = Use(net, v) \cup {v}
    BY <2>1 DEF Agreed
  <2>3. Use(net, w)' = Use(net, w) \ {u} /\ Use(net, v)' = Use(net, v) \ {u}
    BY <2>1
  <2> QED
    BY <2>1, <2>2, <2>3
<1>3. ASSUME NEW v \in Units, HasC3(v)', ~Gone(v)'
      PROVE  Carries(masters', Use(net, v)' \cup {v})
  <2>1. masters \in [Units -> Nat] /\ masters' \in [Units -> Nat]
    BY DEF UnitsOK
  <2>2. CASE v = u
    <3>1. Use(net, v)' \cup {v} = {v}
      BY <2>2
    <3> QED
      BY <2>1, <3>1, CarriesOne
  <2>3. CASE v # u
    <3> DEFINE U == Use(net, v)
               N == U \cup {v}
               M == N \ {u}
    <3>1. HasC3(v) /\ ~Gone(v)
      BY <1>3, <2>3 DEF HasC3, HasC3i
    <3>2. Roomy(N) /\ N \in SUBSET Units /\ IsFiniteSet(N)
      BY <1>1, <3>1, FS_AddElement DEF Carried
    <3>3. u \in U => masters[u] = 0
      OBVIOUS
    <3>4. u \notin U => M = N
      BY <2>3
    <3>5. Use(net, v)' \cup {v} = M
      BY <2>3
    <3> HIDE DEF N, U
    <3>6. Roomy(M)
      BY <3>2, <3>3, <3>4, RoomyLess
    <3>7. M \in SUBSET Units /\ IsFiniteSet(M)
      BY <3>2, FS_Subset
    <3>8. \A x \in M : masters'[x] >= masters[x]
      BY <3>7
    <3> HIDE DEF M
    <3>9. Carries(masters', M)
      BY <2>1, <3>6, <3>7, <3>8, RoomyIs, CarriesMore
    <3> QED
      BY <3>5, <3>9
  <2> QED
    BY <2>2, <2>3
<1> QED
  BY <1>2, <1>3, CarriedNext

\* An array that is not touched, of a unit to which nothing happens, while something happens to u.
LEMMA ApartUse ==
    ASSUME NEW u \in Units, NEW v \in Units, v # u, AllOK(net), fleet' = fleet, net'[v] = net[v],
           \A w \in Units : w # u => /\ team'[w] = team[w] /\ mapindex'[w] = mapindex[w]
                                     /\ dead'[w] = dead[w] /\ broken'[w] = broken[w]
    PROVE  Use(net, v)' \ {u} = Use(net, v) \ {u}
<1>1. \A x \in Units : x # u => (Linked(v, x)' <=> Linked(v, x))
  BY DEF Linked, SameKind, HasC3i
<1>2. Gone(v)' = Gone(v)
  BY DEF Gone
<1>3. OthersOf(net[v], v)' \ {u} = OthersOf(net[v], v) \ {u}
  BY <1>1 DEF OthersOf
<1> QED
  BY <1>2, <1>3 DEF Use

\* A unit drops out of the arrays because of what happens to it alone.
LEMMA ChangedStep ==
    ASSUME UnitsOK, UnitsOK', AllOK(net), AllOK(net)', Agreed(net), Carried(net), Undisturbed,
           NEW u \in Units, fleet' = fleet,
           \A w \in Units : w # u => /\ team'[w] = team[w] /\ mapindex'[w] = mapindex[w]
                                     /\ dead'[w] = dead[w] /\ broken'[w] = broken[w]
                                     /\ net'[w] = net[w],
           Use(net, u)' = {}, \A v \in Units : v # u => u \notin Use(net, v)'
    PROVE  Agreed(net)' /\ Carried(net)'
<1>1. \A v \in Units : \A x \in Use(net, v) : x \notin Use(net, v)' => masters[x] = 0
  BY TrackFacts
<1>2. \A v \in Units : masters'[v] >= masters[v]
  BY TrackFacts
<1>3. \A v \in Units : v # u => (Gone(v)' <=> Gone(v))
  BY DEF Gone
<1>4. \A v \in Units : u \in Use(net, v) => masters[u] = 0
  BY <1>1
<1>5. ASSUME NEW v \in Units, v # u
      PROVE  Use(net, v)' = Use(net, v) \ {u}
  <2>1. Use(net, v)' \ {u} = Use(net, v) \ {u}
    BY <1>5, ApartUse
  <2>2. u \notin Use(net, v)'
    BY <1>5
  <2> QED
    BY <2>1, <2>2
<1>6. \A v \in Units : Use(net, v)' = IF v = u THEN {} ELSE Use(net, v) \ {u}
  BY <1>5
<1> QED
  BY <1>2, <1>3, <1>4, <1>6, DroppedStep

LEMMA LeaveStep ==
    ASSUME UnitsOK, UnitsOK', AllOK(net), AllOK(net)', Agreed(net), Carried(net), Undisturbed,
           NEW u \in Units, mech_c3_leave(u)
    PROVE  Agreed(net)' /\ Carried(net)'
<1> DEFINE valid == validateC3Network(net, u)
           r == clearC3Network(valid, u, TRUE)
<1>1. UNCHANGED <<fleet, team, mapindex, dead, broken, masters>> /\ ~Gone(u)
  BY DEF mech_c3_leave, Able, Gone
<1>2. AllOK(valid) /\ Agreed(valid) /\ Carried(valid)
  BY ValidateKeeps
<1>3. \A v \in Units : Use(valid, v) = Use(net, v)
  BY ValidateUse
<1>4. net' = valid \/ net' = r
  BY DEF mech_c3_leave
<1> HIDE DEF valid
<1>5. CASE net' = valid
  BY <1>1, <1>2, <1>5, SameUnitsKeep
<1>6. CASE net' = r
  <2>1. AllOK(r)
    BY <1>2, ClearOK
  <2>2. \A v \in Units : r[v] = IF v = u THEN Empty(u)
                                ELSE IF v \in OthersOf(valid[u], u) THEN clearMechFromC3Network(valid, u, v)
                                ELSE valid[v]
    BY DEF clearC3Network
  <2>3. OthersOf(valid[u], u) = Use(valid, u)
    BY <1>1 DEF Use
  <2> HIDE DEF r
  <2>4. CASE Use(valid, u) = {}
    <3>1. ASSUME NEW v \in Units
          PROVE  Use(r, v) = Use(valid, v)
      <4>1. CASE v = u
        BY <2>2, <2>4, <4>1, EmptyUse DEF Use
      <4>2. CASE v # u
        BY <2>2, <2>3, <2>4, <4>2 DEF Use
      <4> QED
        BY <4>1, <4>2
    <3>2. Agreed(r) /\ Carried(r)
      BY <1>2, <3>1, SameUse
    <3> QED
      BY <1>1, <1>6, <2>1, <3>2, SameUnitsKeep
  <2>5. CASE Use(valid, u) # {}
    <3>1. PICK w \in Use(valid, u) : TRUE
      BY <2>5
    <3>2. w \in Units /\ w # u
      BY <1>2, UseFacts
    <3>3. u \in Use(net, w)
      <4>1. Use(valid, u) \cup {u} = Use(valid, w) \cup {w}
        BY <1>2 DEF Agreed
      <4> QED
        BY <1>3, <3>2, <4>1
    <3>4. u \notin Use(net, w)'
      <4>1. r[w] = clearMechFromC3Network(valid, u, w)
        BY <2>2, <2>3, <3>2
      <4>2. u \notin OthersOf(r[w], w)
        BY <1>2, <3>2, <4>1, CutGone
      <4>3. Use(net, w)' = Use(r, w)
        BY <1>1, <1>6, <3>2, SameUnits
      <4> QED
        BY <4>2, <4>3 DEF Use
    <3>5. masters[u] = 0
      BY <3>2, <3>3, <3>4, TrackFacts
    <3>6. \A v \in Units : Use(r, v) = IF v = u THEN {} ELSE Use(valid, v) \ {u}
      BY <1>1, <1>2, <3>5, LeaveUse DEF r
    <3>7. Agreed(r)
      BY <1>2, <3>6, DroppedAgreed
    <3>8. Carried(r)
      BY <1>2, <3>5, <3>6, DroppedCarried
    <3> QED
      BY <1>1, <1>6, <2>1, <3>7, <3>8, SameUnitsKeep
  <2> QED
    BY <2>4, <2>5
<1> QED
  BY <1>4, <1>5, <1>6

LEMMA JoinStep ==
    ASSUME UnitsOK, AllOK(net), Agreed(net), Carried(net),
           NEW u \in Units, NEW t \in Units, mech_c3_join(u, t)
    PROVE  Agreed(net)' /\ Carried(net)'
<1> DEFINE mine == validateC3Network(net, u)
           valid == validateC3Network(mine, t)
           r == addMechToC3Network(valid, t, u)
<1>1. /\ UNCHANGED <<fleet, team, mapindex, dead, broken, masters>> /\ ~Gone(u) /\ u # t
      /\ mine[u].size <= 0
      /\ mapindex[t] = mapindex[u] /\ team[t] = team[u] /\ ~dead[t] /\ SameKind(u, t)
  BY DEF mech_c3_join, Able, Gone
<1>2. (HasRoom(valid, u, t) /\ net' = r) \/ net' = valid
  BY DEF mech_c3_join
<1>3. AllOK(mine) /\ Agreed(mine) /\ Carried(mine)
  BY ValidateKeeps
<1> HIDE DEF mine
<1>4. AllOK(valid) /\ Agreed(valid) /\ Carried(valid) /\ valid[t].size >= 0
  BY <1>3, ValidateKeeps
<1>5. \A v \in Units : Use(valid, v) = Use(mine, v)
  BY <1>3, ValidateUse
<1>6. Names(valid[t]) = OthersOf(valid[t], t)
  BY <1>3, ValidatedNames
<1> HIDE DEF valid
<1>7. Use(valid, u) = {}
  BY <1>1, <1>3, <1>5, UseFacts DEF Use
<1>8. CASE net' = valid
  BY <1>1, <1>4, <1>8, SameUnitsKeep
<1>9. CASE HasRoom(valid, u, t) /\ net' = r
  <2>1. AllOK(r)
    BY <1>1, <1>4, AddOK
  <2>2. HasC3(t) /\ ~Gone(t) => Roomy((Use(valid, t) \cup {t}) \cup {u})
    <3> SUFFICES ASSUME HasC3(t), ~Gone(t)
                 PROVE  Roomy((Use(valid, t) \cup {t}) \cup {u})
      OBVIOUS
    <3>1. Use(valid, t) = Names(valid[t])
      BY <1>6 DEF Use
    <3>2. u \notin Use(valid, t)
      BY <1>1, <1>4, <1>7, UseFacts DEF Agreed
    <3> QED
      BY <1>1, <1>4, <1>9, <3>1, <3>2, RoomFor
  <2>3. Agreed(r) /\ Carried(r)
    BY <1>1, <1>4, <1>7, <2>2, AddKeeps
  <2> QED
    BY <1>1, <1>9, <2>1, <2>3, SameUnitsKeep
<1> QED
  BY <1>2, <1>8, <1>9

LEMMA UseLinked ==
    ASSUME NEW v \in Units
    PROVE  /\ \A x \in Use(net, v) : x \in Units /\ Linked(v, x) /\ ~Gone(v)
           /\ \A x \in Use(net, v)' : x \in Units /\ Linked(v, x)' /\ ~Gone(v)'
BY DEF Use, OthersOf

\* Another map or another team: u is linked to none of those to whom it was linked, and if it
\* is now linked to others that still name it, the networks are not settled any more.  If u is
\* put back where nobody uses it, nobody does afterwards.
LEMMA MapStep ==
    ASSUME UnitsOK, UnitsOK', AllOK(net), AllOK(net)', Agreed(net), Carried(net), Undisturbed,
           NEW u \in Units, NEW m, mech_Rsetmapindex(u, m), ~PutBack(u, m)
    PROVE  Agreed(net)' /\ Carried(net)'
<1>1. /\ mapindex' = [mapindex EXCEPT ![u] = m]
      /\ UNCHANGED <<fleet, team, dead, broken, masters>>
      /\ net' = IF mapindex[u] # None THEN [net EXCEPT ![u] = Empty(u)] ELSE net
  BY DEF mech_Rsetmapindex
<1>2. mapindex'[u] = m /\ \A w \in Units : w # u => mapindex'[w] = mapindex[w]
  BY <1>1 DEF UnitsOK
<1>3. \A w \in Units : w # u => net'[w] = net[w]
  BY <1>1 DEF AllOK
<1>4. \A v \in Units : net'[v] = net[v] => Use(net, v)' \subseteq Use(net, v)
  BY TrackFacts
<1>7. CASE m = mapindex[u] /\ m = None
  <2>1. mapindex' = mapindex /\ net' = net
    BY <1>1, <1>7 DEF UnitsOK
  <2> QED
    BY <1>1, <2>1, SameUnitsKeep
<1>8. CASE m # mapindex[u] \/ m # None
  <2>5. ASSUME NEW v \in Units, v # u
        PROVE  u \notin Use(net, v)'
    <3> SUFFICES ASSUME u \in Use(net, v)'
                 PROVE  FALSE
      OBVIOUS
    <3>1. u \in Use(net, v) /\ Linked(v, u) /\ Linked(v, u)'
      BY <1>3, <1>4, <2>5, UseLinked
    <3>2. CASE m # mapindex[u]
      BY <1>2, <2>5, <3>1, <3>2 DEF Linked
    <3>3. CASE m = mapindex[u]
      <4>1. u \in InUse(v)
        BY <3>1, InUseIs
      <4> QED
        BY <1>8, <3>3, <4>1 DEF PutBack
    <3> QED
      BY <3>2, <3>3
  <2>6. Use(net, u)' = {}
    <3>1. CASE mapindex[u] = None
      <4> SUFFICES ASSUME NEW x \in Use(net, u)'
                   PROVE  FALSE
        OBVIOUS
      <4>1. x \in Use(net, u) /\ m # mapindex[u]
        BY <1>1, <1>4, <1>8, <3>1
      <4>2. x \in Units /\ x # u /\ Linked(u, x) /\ Linked(u, x)'
        BY <4>1, UseLinked, UseFacts
      <4> QED
        BY <1>2, <4>1, <4>2 DEF Linked
    <3>2. CASE mapindex[u] # None
      <4>1. net'[u] = Empty(u)
        BY <1>1, <3>2 DEF AllOK
      <4>2. net'[u].size = 0
        BY <4>1 DEF Empty, Filled
      <4> QED
        BY <4>2 DEF Use, OthersOf
    <3> QED
      BY <3>1, <3>2
  <2> QED
    BY <1>1, <1>2, <1>3, <2>5, <2>6, ChangedStep
<1> QED
  BY <1>7, <1>8

LEMMA TeamStep ==
    ASSUME UnitsOK, UnitsOK', AllOK(net), AllOK(net)', Agreed(net), Carried(net), Undisturbed,
           NEW u \in Units, NEW t, mech_Rsetteam(u, t)
    PROVE  Agreed(net)' /\ Carried(net)'
<1>1. /\ t # team[u] /\ team' = [team EXCEPT ![u] = t]
      /\ UNCHANGED <<fleet, net, mapindex, dead, broken, masters>>
  BY DEF mech_Rsetteam
<1>2. team'[u] = t /\ \A w \in Units : w # u => team'[w] = team[w]
  BY <1>1 DEF UnitsOK
<1>3. \A v \in Units : Use(net, v)' \subseteq Use(net, v)
  BY <1>1, TrackFacts
<1>4. ASSUME NEW v \in Units, v # u
      PROVE  u \notin Use(net, v)'
  <2> SUFFICES ASSUME u \in Use(net, v)'
               PROVE  FALSE
    OBVIOUS
  <2>1. Linked(v, u) /\ Linked(v, u)'
    BY <1>3, <1>4, UseLinked
  <2> QED
    BY <1>1, <1>2, <1>4, <2>1 DEF Linked
<1>5. Use(net, u)' = {}
  <2> SUFFICES ASSUME NEW x \in Use(net, u)'
               PROVE  FALSE
    OBVIOUS
  <2>1. x \in Use(net, u)
    BY <1>3
  <2>2. x \in Units /\ x # u /\ Linked(u, x) /\ Linked(u, x)'
    BY <2>1, UseLinked, UseFacts
  <2> QED
    BY <1>1, <1>2, <2>2 DEF Linked
<1> QED
  BY <1>1, <1>2, <1>4, <1>5, ChangedStep

\* u is destroyed, or its computer is.
LEMMA GoneStep ==
    ASSUME UnitsOK, UnitsOK', AllOK(net), AllOK(net)', Agreed(net), Carried(net), Undisturbed,
           NEW u \in Units, UNCHANGED <<fleet, net, team, mapindex>>, Gone(u)',
           \A w \in Units : w # u => dead'[w] = dead[w] /\ broken'[w] = broken[w]
    PROVE  Agreed(net)' /\ Carried(net)'
<1>1. Use(net, u)' = {}
  BY DEF Use
<1>2. ASSUME NEW v \in Units
      PROVE  u \notin Use(net, v)'
  BY UseLinked DEF Linked, Gone
<1> QED
  BY <1>1, <1>2, ChangedStep

\* A hit on the C3i computer also tells the others.
LEMMA ClearStep ==
    ASSUME UnitsOK, UnitsOK', AllOK(net), Agreed(net), Carried(net),
           NEW u \in Units, ~Gone(u), HasC3i(u), net' = clearC3Network(net, u, TRUE),
           UNCHANGED <<fleet, team, mapindex, dead, masters>>, broken' = [broken EXCEPT ![u] = TRUE],
           \A v \in Units : u \in Use(net, v) => masters[u] = 0
    PROVE  Agreed(net)' /\ Carried(net)'
<1>1. \A v \in Units : Use(net', v) = IF v = u THEN {} ELSE Use(net, v) \ {u}
  <2>1. ~HasC3(u)
    BY DEF HasC3, HasC3i
  <2>2. \A v \in Units : Use(clearC3Network(net, u, TRUE), v) = IF v = u THEN {} ELSE Use(net, v) \ {u}
    BY <2>1, LeaveUse
  <2> QED
    BY <2>2
<1>2. broken'[u] = TRUE /\ \A w \in Units : w # u => broken'[w] = broken[w]
  BY DEF UnitsOK
<1>3. \A v \in Units : v # u => (Gone(v)' <=> Gone(v))
  BY <1>2 DEF Gone
<1>4. ASSUME NEW v \in Units
      PROVE  Use(net, v)' = IF v = u THEN {} ELSE Use(net, v) \ {u}
  <2>1. CASE v = u
    BY <1>2, <2>1 DEF Use, Gone
  <2>2. CASE v # u
    <3>1. \A x \in Units : x # u => (Linked(v, x)' <=> Linked(v, x))
      BY <1>2 DEF Linked, SameKind, HasC3i
    <3>2. ~Linked(v, u)'
      BY <1>2 DEF Linked
    <3>3. Use(net, v)' = Use(net', v) \ {u}
      BY <1>3, <2>2, <3>1, <3>2 DEF Use, OthersOf
    <3> QED
      BY <1>1, <2>2, <3>3
  <2> QED
    BY <2>1, <2>2
<1>5. \A v \in Units : masters'[v] >= masters[v]
  BY DEF UnitsOK
<1> QED
  BY <1>3, <1>4, <1>5, DroppedStep

\* A hit on a master is one master less, so that the networks are not settled any more.
LEMMA CritStep ==
    ASSUME UnitsOK, UnitsOK', AllOK(net), AllOK(net)', Agreed(net), Carried(net), Undisturbed,
           NEW u \in Units, HandleCrit(u)
    PROVE  Agreed(net)' /\ Carried(net)'
<1>1. UNCHANGED <<fleet, team, mapindex, dead>> /\ ~Gone(u)
  BY DEF HandleCrit, Gone
<1>2. net' = IF HasC3i(u) THEN clearC3Network(net, u, TRUE) ELSE net
  BY DEF HandleCrit
<1>3. fleet[u] \in {C3I, SLAVE}
  <2> SUFFICES ASSUME fleet[u] \notin {C3I, SLAVE}
               PROVE  FALSE
    OBVIOUS
  <2>1. \E n \in 0..(masters[u] - 1) : masters' = [masters EXCEPT ![u] = n]
    BY DEF HandleCrit
  <2>2. masters \in [Units -> Nat]
    BY DEF UnitsOK
  <2>3. PICK n \in 0..(masters[u] - 1) : masters' = [masters EXCEPT ![u] = n]
    BY <2>1
  <2>4. masters'[u] = n /\ masters[u] \in Nat
    BY <2>2, <2>3
  <2>5. masters'[u] >= masters[u]
    BY TrackFacts
  <2> QED
    BY <2>4, <2>5
<1>4. broken' = [broken EXCEPT ![u] = TRUE] /\ masters' = masters
  BY <1>3 DEF HandleCrit
<1>5. broken'[u] = TRUE /\ \A w \in Units : w # u => broken'[w] = broken[w]
  BY <1>4 DEF UnitsOK
<1>6. Gone(u)'
  BY <1>5 DEF Gone
<1>7. CASE HasC3i(u)
  <2>1. ASSUME NEW v \in Units, u \in Use(net, v)
        PROVE  masters[u] = 0
    <3>1. u \notin Use(net, v)'
      BY <1>6, UseLinked DEF Linked, Gone
    <3> QED
      BY <2>1, <3>1, TrackFacts
  <2>2. net' = clearC3Network(net, u, TRUE)
    BY <1>2, <1>7
  <2> QED
    BY <1>1, <1>4, <1>7, <2>1, <2>2, ClearStep
<1>8. CASE ~HasC3i(u)
  BY <1>1, <1>2, <1>5, <1>6, <1>8, GoneStep
<1> QED
  BY <1>7, <1>8

\* A repair makes u eligible again: no array still names it, or the networks are not settled.
LEMMA MagicStep ==
    ASSUME UnitsOK, UnitsOK', AllOK(net), AllOK(net)', Agreed(net), Carried(net), Undisturbed,
           NEW u \in Units, do_magic(u)
    PROVE  Agreed(net)' /\ Carried(net)'
<1>1. /\ UNCHANGED <<fleet, net, team, mapindex>>
      /\ dead' = [dead EXCEPT ![u] = FALSE] /\ broken' = [broken EXCEPT ![u] = FALSE]
  BY DEF do_magic
<1>2. \A v \in Units : (dead'[v] => dead[v]) /\ (broken'[v] => broken[v]) /\ (v # u => (Gone(v)' <=> Gone(v)))
  BY <1>1 DEF UnitsOK, Gone
<1>3. \A v \in Units : Use(net, v)' \subseteq Use(net, v)
  BY <1>1, TrackFacts
<1>4. \A v \in Units : masters'[v] >= masters[v]
  BY TrackFacts
<1>5. ASSUME NEW v \in Units
      PROVE  Use(net, v)' = Use(net, v) /\ Use(net, v) \in SUBSET Units /\ IsFiniteSet(Use(net, v))
  <2>1. \A x \in Units : Linked(v, x) => Linked(v, x)'
    BY <1>1, <1>2 DEF Linked, SameKind, HasC3i
  <2>2. Gone(v)' => Gone(v)
    BY <1>2 DEF Gone
  <2>3. Use(net, v) \subseteq Use(net, v)'
    BY <1>1, <2>1, <2>2 DEF Use, OthersOf
  <2> QED
    BY <1>3, <2>3, UseFacts
<1>6. Agreed(net)'
  BY <1>5 DEF Agreed
<1>7. ASSUME NEW v \in Units, HasC3(v)', ~Gone(v)'
      PROVE  Carries(masters', Use(net, v)' \cup {v})
  <2>1. masters \in [Units -> Nat] /\ masters' \in [Units -> Nat]
    BY DEF UnitsOK
  <2>2. CASE Gone(v)
    <3>1. Use(net, v)' \cup {v} = {v}
      BY <1>5, <2>2 DEF Use
    <3> QED
      BY <2>1, <3>1, CarriesOne
  <2>3. CASE ~Gone(v)
    <3> DEFINE N == Use(net, v) \cup {v}
    <3>1. HasC3(v)
      BY <1>1, <1>7 DEF HasC3
    <3>2. Carries(masters, N)
      BY <2>3, <3>1, RoomyIs DEF Carried
    <3>3. N \in SUBSET Units /\ IsFiniteSet(N) /\ N = Use(net, v)' \cup {v}
      BY <1>5, FS_AddElement
    <3> HIDE DEF N
    <3>4. \A x \in N : masters'[x] >= masters[x]
      BY <1>4, <3>3
    <3>5. Carries(masters', N)
      BY <2>1, <3>2, <3>3, <3>4, CarriesMore
    <3> QED
      BY <3>3, <3>5
  <2> QED
    BY <2>2, <2>3
<1> QED
  BY <1>6, <1>7, CarriedNext

\* After a restart no C3i array is in use, and C3 arrays name no C3i units that can be used.
LEMMA RestartStep ==
    ASSUME UnitsOK, AllOK(net), Agreed(net), Carried(net), Restart
    PROVE  Agreed(net)' /\ Carried(net)'
<1>1. UNCHANGED <<fleet, team, mapindex, dead, broken, masters>>
  BY DEF Restart
<1>2. \A v \in Units : net'[v] = IF HasC3i(v) THEN [net[v] EXCEPT !.size = -1] ELSE net[v]
  BY DEF Restart
<1>3. ASSUME NEW v \in Units
      PROVE  Use(net, v)' = IF HasC3i(v) THEN {} ELSE Use(net, v)
  <2>1. Use(net, v)' = Use(net', v)
    BY <1>1, SameUnits
  <2>2. CASE HasC3i(v)
    <3>1. net'[v].size = -1
      <4>1. net[v] \in Arrays(v)
        BY DEF AllOK, ArrayOK
      <4> QED
        BY <1>2, <2>2, <4>1 DEF Arrays
    <3>2. OthersOf(net'[v], v) = {}
      BY <3>1 DEF OthersOf
    <3> QED
      BY <2>1, <2>2, <3>2 DEF Use
  <2>3. CASE ~HasC3i(v)
    BY <1>2, <2>1, <2>3 DEF Use
  <2> QED
    BY <2>2, <2>3
<1>4. \A v \in Units : Use(net, v) \in SUBSET Units /\ \A x \in Use(net, v) : HasC3i(x) = HasC3i(v)
  BY UseLinked DEF Linked, SameKind
<1>5. Agreed(net)'
  <2> SUFFICES ASSUME NEW w \in Units, NEW v \in Use(net, w)'
               PROVE  Use(net, w)' \cup {w} = Use(net, v)' \cup {v}
    BY DEF Agreed
  <2>1. ~HasC3i(w) /\ v \in Use(net, w) /\ v \in Units
    BY <1>3, <1>4
  <2>2. ~HasC3i(v)
    BY <1>4, <2>1
  <2>3. Use(net, w) \cup {w} = Use(net, v) \cup {v}
    BY <2>1 DEF Agreed
  <2> QED
    BY <1>3, <2>1, <2>2, <2>3
<1>6. ASSUME NEW v \in Units, HasC3(v)', ~Gone(v)'
      PROVE  Carries(masters', Use(net, v)' \cup {v})
  <2>1. HasC3(v) /\ ~HasC3i(v) /\ ~Gone(v)
    BY <1>1, <1>6 DEF HasC3, HasC3i, Gone
  <2>2. Carries(masters, Use(net, v) \cup {v})
    BY <2>1, RoomyIs DEF Carried
  <2> QED
    BY <1>1, <1>3, <2>1, <2>2
<1> QED
  BY <1>5, <1>6, CarriedNext

LEMMA NetworkStep ==
    ASSUME UnitsOK, AllOK(net), Agreed(net), Carried(net), NEW u \in Units, mech_c3_network(u)
    PROVE  Agreed(net)' /\ Carried(net)'
<1>1. net' = validateC3Network(net, u) /\ UNCHANGED <<fleet, team, mapindex, dead, broken, masters>>
  BY DEF mech_c3_network
<1>2. AllOK(net') /\ Agreed(net') /\ Carried(net')
  BY <1>1, ValidateKeeps
<1> QED
  BY <1>1, <1>2, SameUnitsKeep

LEMMA InitAInv == Init => AInv
<1> SUFFICES ASSUME Init
             PROVE  AInv
  OBVIOUS
<1>1. IInv
  BY InitIInv
<1>2. ASSUME NEW v \in Units
      PROVE  Use(net, v) = {}
  BY EmptyUse DEF Init, Use
<1>3. Agreed(net)
  BY <1>2 DEF Agreed
<1>4. Carried(net)
  <2> SUFFICES ASSUME NEW v \in Units
               PROVE  Roomy(Use(net, v) \cup {v})
    BY DEF Carried
  <2>1. Use(net, v) \cup {v} = {v}
    BY <1>2
  <2>2. Carries(masters, {v})
    BY <1>1, CarriesOne DEF IInv, UnitsOK
  <2> QED
    BY <2>1, <2>2, RoomyIs
<1> QED
  BY <1>1, <1>3, <1>4 DEF AInv

LEMMA NextAInv == AInv /\ [Next]_vars => AInv'
<1> SUFFICES ASSUME AInv, [Next]_vars
             PROVE  AInv'
  OBVIOUS
<1>1. IInv /\ IInv'
  BY NextIInv DEF AInv
<1> SUFFICES ASSUME settled'
             PROVE  Agreed(net)' /\ Carried(net)'
  BY <1>1 DEF AInv
<1>2. UnitsOK /\ UnitsOK' /\ AllOK(net) /\ AllOK(net)'
  BY <1>1 DEF IInv
<1>3. CASE UNCHANGED vars
  <2>1. settled /\ net' = net /\ UNCHANGED <<fleet, team, mapindex, dead, broken, masters>>
    BY <1>3 DEF vars
  <2>2. Agreed(net) /\ Carried(net)
    BY <2>1 DEF AInv
  <2> QED
    BY <1>2, <2>1, <2>2, SameUnitsKeep
<1>4. CASE Next
  <2>1. Undisturbed
    BY <1>4 DEF Next, Track, Undisturbed
  <2>2. settled
    BY <2>1 DEF Undisturbed
  <2>3. Agreed(net) /\ Carried(net)
    BY <2>2 DEF AInv
  <2>4. ASSUME NEW u \in Units, mech_c3_leave(u)
        PROVE  Agreed(net)' /\ Carried(net)'
    BY <1>2, <2>1, <2>3, <2>4, LeaveStep
  <2>5. ASSUME NEW u \in Units, mech_c3_network(u)
        PROVE  Agreed(net)' /\ Carried(net)'
    BY <1>2, <2>3, <2>5, NetworkStep
  <2>6. ASSUME NEW u \in Units, DestroyMech(u)
        PROVE  Agreed(net)' /\ Carried(net)'
    <3>1. UNCHANGED <<fleet, net, team, mapindex, broken>> /\ dead' = [dead EXCEPT ![u] = TRUE]
      BY <2>6 DEF DestroyMech
    <3>2. Gone(u)' /\ \A w \in Units : w # u => dead'[w] = dead[w]
      BY <1>2, <3>1 DEF UnitsOK, Gone
    <3> QED
      BY <1>2, <2>1, <2>3, <3>1, <3>2, GoneStep
  <2>7. ASSUME NEW u \in Units, HandleCrit(u)
        PROVE  Agreed(net)' /\ Carried(net)'
    BY <1>2, <2>1, <2>3, <2>7, CritStep
  <2>8. ASSUME NEW u \in Units, do_magic(u)
        PROVE  Agreed(net)' /\ Carried(net)'
    BY <1>2, <2>1, <2>3, <2>8, MagicStep
  <2>9. ASSUME NEW u \in Units, NEW t \in Units, mech_c3_join(u, t)
        PROVE  Agreed(net)' /\ Carried(net)'
    BY <1>2, <2>3, <2>9, JoinStep
  <2>10. ASSUME NEW u \in Units, NEW m \in Maps \cup {None}, mech_Rsetmapindex(u, m),
                Track(PutBack(u, m))
         PROVE  Agreed(net)' /\ Carried(net)'
    <3>1. ~PutBack(u, m)
      BY <2>10 DEF Track
    <3> QED
      BY <1>2, <2>1, <2>3, <2>10, <3>1, MapStep
  <2>11. ASSUME NEW u \in Units, NEW t \in Teams, mech_Rsetteam(u, t)
         PROVE  Agreed(net)' /\ Carried(net)'
    BY <1>2, <2>1, <2>3, <2>11, TeamStep
  <2>12. CASE Restart
    BY <1>2, <2>3, <2>12, RestartStep
  <2> QED
    BY <1>4, <2>4, <2>5, <2>6, <2>7, <2>8, <2>9, <2>10, <2>11, <2>12 DEF Next
<1> QED
  BY <1>3, <1>4

\* The arrays, which the commands copy and prune one by one (mech.c3.c, mech.c3i.c), describe
\* the same networks: whoever a unit can use can use it and the same third units, as long as no
\* unit comes back, or is put back on its map, while an array still names it and no C3 network
\* loses a master.
THEOREM NetworksAlwaysAgree == Spec => []NetworksAgree
<1>1. AInv => NetworksAgree
  <2> SUFFICES ASSUME AInv, settled, NEW u \in Units, NEW v \in InUse(u)
               PROVE  InUse(u) \cup {u} = InUse(v) \cup {v}
    BY DEF NetworksAgree
  <2>1. AllOK(net) /\ Agreed(net)
    BY DEF AInv, IInv
  <2>2. InUse(u) = Use(net, u) /\ v \in Use(net, u) /\ v \in Units
    BY <2>1, InUseIs, UseFacts
  <2>3. InUse(v) = Use(net, v)
    BY <2>1, <2>2, InUseIs
  <2> QED
    BY <2>1, <2>2, <2>3 DEF Agreed
<1> QED
  BY <1>1, InitAInv, NextAInv, PTL DEF Spec
=============================================================================
