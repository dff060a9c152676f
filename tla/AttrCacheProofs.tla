-------------------------- MODULE AttrCacheProofs --------------------------
(***************************************************************************)
(* Proofs about AttrCache, for every number of objects, attributes,        *)
(* buckets and cache entries.                                              *)
(*                                                                         *)
(* The four chains of a bucket are read as lists (Listed), and each        *)
(* operation on links becomes one on lists.  What the lists hold is        *)
(* Contents, how many entries a bucket has is Counted.  Every operation of *)
(* udb_ocache.c keeps the three (Sound) and the attributes of every object *)
(* (Kept), but for those that STORE and DELETE are about and the object    *)
(* that is lost when gdbm refuses to write it.                             *)
(***************************************************************************)
EXTENDS AttrCache, ListSelectionProofs, TLAPS

(* Arrays of attributes, in the order of their numbers.                    *)
Arrays ==
    {a \in Seq([attrnum : Nat, data : Values]) :
        \A i, j \in DOMAIN a : i < j => a[i].attrnum < a[j].attrnum}

Ops == [name : Objects, atrs : Arrays] \cup {NoOp}
Disks == [Objects -> Arrays]

Caches ==
    [nxt : [Blocks -> Ptr], prv : [Blocks -> Ptr],
     head : [Chains -> Ptr], tail : [Chains -> Ptr],
     op : [Blocks -> Ops], count : [Buckets -> Nat], used : SUBSET Blocks]

-----------------------------------------------------------------------------
(* Chains as lists *)

(* Chain q is the list s, linked both ways.                                *)
ChainAt(n, q, s) ==
    /\ IsPath(n.nxt, n.head[q], s)
    /\ IsBack(n.prv, CNULL, s)
    /\ n.tail[q] = IF s = <<>> THEN CNULL ELSE s[Len(s)]

(* The chains are the lists ls, that share no entry.                       *)
Listed(n, ls) ==
    /\ ls \in [Chains -> Seq(Blocks)]
    /\ \A q \in Chains : ChainAt(n, q, ls[q])
    /\ \A q, r \in Chains : q # r => Set(ls[q]) \cap Set(ls[r]) = {}

(* m differs from n in its chains, which are lt, if in anything.           *)
Relinked(n, m, lt) ==
    /\ m \in Caches
    /\ m.op = n.op /\ m.count = n.count /\ m.used = n.used
    /\ Listed(m, lt)

LEMMA CacheFacts ==
    ASSUME NEW n \in Caches
    PROVE  /\ n.nxt \in [Blocks -> Ptr] /\ n.prv \in [Blocks -> Ptr]
           /\ n.head \in [Chains -> Ptr] /\ n.tail \in [Chains -> Ptr]
           /\ n.op \in [Blocks -> Ops] /\ n.count \in [Buckets -> Nat]
           /\ n.used \in SUBSET Blocks
PROOF
  BY DEF Caches

(* The list of a chain, and what its entries are.                          *)
LEMMA ListFacts ==
    ASSUME NEW n \in Caches, NEW ls, Listed(n, ls), NEW q \in Chains
    PROVE  /\ ls[q] \in Seq(Blocks) /\ Len(ls[q]) \in Nat
           /\ DOMAIN ls[q] = 1..Len(ls[q])
           /\ \A i, j \in DOMAIN ls[q] : ls[q][i] = ls[q][j] => i = j
           /\ \A i \in DOMAIN ls[q] : ls[q][i] \in Blocks /\ ls[q][i] \in Set(ls[q])
           /\ Set(ls[q]) \subseteq Blocks
           /\ ls[q] = <<>> <=> Set(ls[q]) = {}
           /\ ls[q] = <<>> => n.head[q] = CNULL /\ n.tail[q] = CNULL
           /\ ls[q] # <<>> => /\ Len(ls[q]) \in DOMAIN ls[q] /\ 1 \in DOMAIN ls[q]
                              /\ n.head[q] = ls[q][1] /\ n.tail[q] = ls[q][Len(ls[q])]
                              /\ n.nxt[ls[q][Len(ls[q])]] = CNULL
                              /\ n.prv[ls[q][1]] = CNULL
           /\ \A i \in DOMAIN ls[q] : i < Len(ls[q]) => n.nxt[ls[q][i]] = ls[q][i + 1]
           /\ \A i \in DOMAIN ls[q] : i > 1 => n.prv[ls[q][i]] = ls[q][i - 1]
           /\ CNULL \notin Blocks
PROOF
  <1> DEFINE s == ls[q]
  <1>1. /\ s \in Seq(Blocks) /\ IsPath(n.nxt, n.head[q], s) /\ IsBack(n.prv, CNULL, s)
        /\ n.tail[q] = IF s = <<>> THEN CNULL ELSE s[Len(s)]
    BY DEF Listed, ChainAt
  <1>2. DOMAIN n.nxt = Blocks /\ n.head[q] \in Ptr /\ n.nxt \in [Blocks -> Ptr]
    BY CacheFacts
  <1>3. CNULL \notin Blocks
    BY NamesAssumption
  <1> HIDE DEF s
  <1>4. Len(s) \in Nat /\ DOMAIN s = 1..Len(s)
    BY <1>1
  <1>5. \A i, j \in DOMAIN s : s[i] = s[j] => i = j
    BY <1>1 DEF IsPath
  <1>6. \A i \in DOMAIN s : s[i] \in Blocks /\ s[i] \in Set(s)
    BY <1>1 DEF Set
  <1>7. s = <<>> => n.head[q] = CNULL /\ n.tail[q] = CNULL
    BY <1>1, <1>2 DEF IsPath, Ptr
  <1>8. s # <<>> => Len(s) \in DOMAIN s /\ 1 \in DOMAIN s
    BY ONLY <1>1, <1>4
  <1>9. ASSUME s # <<>>
        PROVE  /\ n.head[q] = s[1] /\ n.tail[q] = s[Len(s)]
               /\ n.nxt[s[Len(s)]] = CNULL /\ n.prv[s[1]] = CNULL
    <2>1. n.nxt[s[Len(s)]] \notin Blocks
      BY <1>1, <1>2, <1>9 DEF IsPath
    <2>2. n.nxt[s[Len(s)]] \in Ptr
      BY <1>2, <1>6, <1>8, <1>9
    <2> QED BY <1>1, <1>8, <1>9, <2>1, <2>2 DEF IsPath, IsBack, Ptr
  <1>10. s = <<>> <=> Set(s) = {}
    <2>1. s # <<>> => Set(s) # {}
      BY <1>6, <1>8
    <2>2. s = <<>> => DOMAIN s = {}
      BY <1>4
    <2> QED BY <2>1, <2>2 DEF Set
  <1>11. \A i \in DOMAIN s : i < Len(s) => n.nxt[s[i]] = s[i + 1]
    BY <1>1 DEF IsPath
  <1>12. \A i \in DOMAIN s : i > 1 => n.prv[s[i]] = s[i - 1]
    BY <1>1, <1>4 DEF IsBack
  <1>13. Set(s) \subseteq Blocks
    BY <1>6 DEF Set
  <1> QED
    BY <1>1, <1>3, <1>4, <1>5, <1>6, <1>7, <1>8, <1>9, <1>10, <1>11, <1>12, <1>13 DEF s

(* Entries(n, q) is the list.                                              *)
LEMMA EntriesAre ==
    ASSUME NEW n \in Caches, NEW ls, Listed(n, ls), NEW q \in Chains
    PROVE  Entries(n, q) = ls[q]
PROOF
  <1>1. IsPath(n.nxt, n.head[q], ls[q])
    BY DEF Listed, ChainAt
  <1>2. IsFiniteSet(DOMAIN n.nxt)
    BY CacheFacts, SizesAssumption
  <1>3. Path(n.nxt, n.head[q]) = ls[q]
    BY ONLY <1>1, <1>2, PathIs
  <1> QED BY <1>3 DEF Entries

(* A chain none of whose links changes stays the list it was.              *)
LEMMA ChainFrame ==
    ASSUME NEW n \in Caches, NEW m \in Caches, NEW q \in Chains, NEW s, ChainAt(n, q, s),
           \A e \in Set(s) : m.nxt[e] = n.nxt[e] /\ m.prv[e] = n.prv[e],
           m.head[q] = n.head[q], m.tail[q] = n.tail[q]
    PROVE  ChainAt(m, q, s)
PROOF
  <1>1. DOMAIN n.nxt = Blocks /\ DOMAIN m.nxt = Blocks
    BY CacheFacts
  <1>2. IsPath(n.nxt, n.head[q], s)
    BY DEF ChainAt
  <1>3. IsPath(m.nxt, n.head[q], s)
    BY ONLY <1>1, <1>2, PathFrame, \A e \in Set(s) : m.nxt[e] = n.nxt[e] /\ m.prv[e] = n.prv[e]
  <1>4. \A i \in DOMAIN s : s[i] \in Set(s)
    BY DEF Set
  <1>5. IsBack(m.prv, CNULL, s)
    BY <1>4 DEF ChainAt, IsBack
  <1> QED BY <1>3, <1>5 DEF ChainAt

(* One chain becomes the list t, the others stay.                          *)
LEMMA Relist ==
    ASSUME NEW n \in Caches, NEW m \in Caches, NEW ls, Listed(n, ls),
           NEW q \in Chains, NEW t \in Seq(Blocks), ChainAt(m, q, t),
           \A r \in Chains : r # q =>
              /\ Set(t) \cap Set(ls[r]) = {}
              /\ \A e \in Set(ls[r]) : m.nxt[e] = n.nxt[e] /\ m.prv[e] = n.prv[e]
              /\ m.head[r] = n.head[r] /\ m.tail[r] = n.tail[r]
    PROVE  Listed(m, [ls EXCEPT ![q] = t])
PROOF
  <1> DEFINE lt == [ls EXCEPT ![q] = t]
  <1>1. ls \in [Chains -> Seq(Blocks)]
    BY DEF Listed
  <1>2. lt \in [Chains -> Seq(Blocks)] /\ lt[q] = t /\ \A r \in Chains : r # q => lt[r] = ls[r]
    BY <1>1
  <1>3. \A r \in Chains : ChainAt(n, r, ls[r])
    BY DEF Listed
  <1>4. \A r, p \in Chains : r # p => Set(ls[r]) \cap Set(ls[p]) = {}
    BY DEF Listed
  <1> HIDE DEF lt
  <1>5. ASSUME NEW r \in Chains PROVE ChainAt(m, r, lt[r])
    <2>1. CASE r = q
      BY <1>2, <2>1
    <2>2. CASE r # q
      <3>1. \A e \in Set(ls[r]) : m.nxt[e] = n.nxt[e] /\ m.prv[e] = n.prv[e]
        BY <2>2
      <3>2. m.head[r] = n.head[r] /\ m.tail[r] = n.tail[r]
        BY <2>2
      <3>3. ChainAt(m, r, ls[r])
        BY ONLY <1>3, <3>1, <3>2, ChainFrame, n \in Caches, m \in Caches, r \in Chains
      <3> QED BY <3>3, <2>2, <1>2
    <2> QED BY <2>1, <2>2
  <1>6. \A r, p \in Chains : r # p => Set(lt[r]) \cap Set(lt[p]) = {}
    BY <1>2, <1>4
  <1> QED BY <1>2, <1>5, <1>6 DEF Listed, lt

(* DEQUEUE takes the i-th entry off chain q.                               *)
LEMMA DequeueLinks ==
    ASSUME NEW n \in Caches, NEW ls, Listed(n, ls), NEW q \in Chains,
           NEW i \in DOMAIN ls[q]
    PROVE  Relinked(n, DEQUEUE(n, q, ls[q][i]), [ls EXCEPT ![q] = Without(ls[q], i)])
PROOF
  <1> DEFINE s == ls[q]
             N == Len(s)
             e == s[i]
             nx == n.nxt[e]
             pv == n.prv[e]
             m == DEQUEUE(n, q, e)
             t == Without(s, i)
             Nxt == IF pv = CNULL THEN n.nxt ELSE [n.nxt EXCEPT ![pv] = nx]
             Prv == IF nx = CNULL THEN n.prv ELSE [n.prv EXCEPT ![nx] = pv]
             Hd == IF pv = CNULL THEN [n.head EXCEPT ![q] = nx] ELSE n.head
             Tl == IF nx = CNULL THEN [n.tail EXCEPT ![q] = pv] ELSE n.tail
  <1>1. /\ s \in Seq(Blocks) /\ N \in Nat /\ DOMAIN s = 1..N
        /\ \A a, b \in DOMAIN s : s[a] = s[b] => a = b
        /\ \A a \in DOMAIN s : s[a] \in Blocks /\ s[a] \in Set(s)
        /\ CNULL \notin Blocks
    BY ListFacts
  <1>2. s # <<>> /\ i \in 1..N
    BY <1>1
  <1>3. /\ n.nxt[s[N]] = CNULL /\ n.prv[s[1]] = CNULL /\ n.head[q] = s[1] /\ n.tail[q] = s[N]
        /\ \A a \in DOMAIN s : a < N => n.nxt[s[a]] = s[a + 1]
        /\ \A a \in DOMAIN s : a > 1 => n.prv[s[a]] = s[a - 1]
    BY <1>2, ListFacts
  <1>4. /\ n.nxt \in [Blocks -> Ptr] /\ n.prv \in [Blocks -> Ptr]
        /\ n.head \in [Chains -> Ptr] /\ n.tail \in [Chains -> Ptr]
        /\ n.op \in [Blocks -> Ops] /\ n.count \in [Buckets -> Nat] /\ n.used \in SUBSET Blocks
    BY CacheFacts
  <1>5. /\ IsPath(n.nxt, n.head[q], s) /\ IsBack(n.prv, CNULL, s)
        /\ \A r \in Chains : r # q => Set(s) \cap Set(ls[r]) = {}
    BY DEF Listed, ChainAt
  <1> HIDE DEF s
  <1>6. /\ nx = IF i = N THEN CNULL ELSE s[i + 1]
        /\ pv = IF i = 1 THEN CNULL ELSE s[i - 1]
        /\ i # N => i + 1 \in DOMAIN s /\ i < N
        /\ i # 1 => i - 1 \in DOMAIN s /\ i > 1
    <2>1. /\ i # N => i + 1 \in DOMAIN s /\ i < N
          /\ i # 1 => i - 1 \in DOMAIN s /\ i > 1
      BY <1>1, <1>2
    <2>2. i \in DOMAIN s /\ (i = N => nx = CNULL) /\ (i = 1 => pv = CNULL)
      BY <1>1, <1>2, <1>3
    <2>3. (i # N => nx = s[i + 1]) /\ (i # 1 => pv = s[i - 1])
      BY <1>3, <2>1, <2>2
    <2> QED BY <2>1, <2>2, <2>3
  <1>7. /\ nx = CNULL <=> i = N
        /\ pv = CNULL <=> i = 1
        /\ nx \in Ptr /\ pv \in Ptr /\ e \in Blocks
    BY <1>1, <1>2, <1>6 DEF Ptr
  <1>8. nx # CNULL => nx \in Blocks /\ nx \in Set(s)
    BY <1>1, <1>6
  <1>9. pv # CNULL => pv \in Blocks /\ pv \in Set(s)
    BY <1>1, <1>6
  <1>10. m = [n EXCEPT !.nxt = Nxt, !.prv = Prv, !.head = Hd, !.tail = Tl]
    BY <1>4 DEF DEQUEUE, Caches
  <1>11. /\ Nxt \in [Blocks -> Ptr] /\ Prv \in [Blocks -> Ptr]
         /\ Hd \in [Chains -> Ptr] /\ Tl \in [Chains -> Ptr]
    BY <1>4, <1>7
  <1>12. /\ \A x \in Blocks : x # pv => Nxt[x] = n.nxt[x]
         /\ \A x \in Blocks : x # nx => Prv[x] = n.prv[x]
         /\ pv # CNULL => Nxt[pv] = nx
         /\ nx # CNULL => Prv[nx] = pv
         /\ Hd[q] = IF pv = CNULL THEN nx ELSE n.head[q]
         /\ Tl[q] = IF nx = CNULL THEN pv ELSE n.tail[q]
         /\ \A r \in Chains : r # q => Hd[r] = n.head[r] /\ Tl[r] = n.tail[r]
    BY <1>4, <1>7, <1>8, <1>9
  <1> HIDE DEF Nxt, Prv, Hd, Tl, m
  <1>13. /\ m.nxt = Nxt /\ m.prv = Prv /\ m.head = Hd /\ m.tail = Tl
         /\ m.op = n.op /\ m.count = n.count /\ m.used = n.used /\ m \in Caches
    BY <1>4, <1>10, <1>11 DEF Caches
  <1> HIDE DEF nx, pv, e, N
  <1>14. /\ t \in Seq(Blocks) /\ Len(t) = N - 1 /\ DOMAIN t = 1..(N - 1)
         /\ \A j \in 1..(N - 1) : j < i => t[j] = s[j]
         /\ \A j \in 1..(N - 1) : j >= i => t[j] = s[j + 1]
         /\ Set(t) = Set(s) \ {e}
    <2>1. /\ s \in Seq(Blocks) /\ i \in DOMAIN s
          /\ \A a, b \in DOMAIN s : s[a] = s[b] => a = b
      BY <1>1, <1>2
    <2> QED BY ONLY <2>1, WithoutFacts, SMTT(40), ZenonT(40) DEF N, e, t
  <1>15. IsPath(Nxt, Hd[q], t)
    <2>1. DOMAIN n.nxt = Blocks /\ DOMAIN Nxt = Blocks
      BY <1>4, <1>11
    <2>2. CASE i = 1
      <3>1. Hd[q] = n.nxt[n.head[q]]
        BY <2>2, <1>3, <1>7, <1>12 DEF nx, e
      <3>2. \A x \in Set(s) : x # n.head[q] => Nxt[x] = n.nxt[x]
        BY <1>1, <1>7, <1>12, <2>2 DEF Set
      <3>3. IsPath(Nxt, n.nxt[n.head[q]], Without(s, 1))
        BY ONLY <1>2, <1>5, <2>1, <3>2, PathCutFirst
      <3> QED BY <3>1, <3>3, <2>2
    <2>3. CASE i # 1
      <3>1. Hd[q] = n.head[q] /\ i > 1
        BY <2>3, <1>7, <1>12, <1>6
      <3>2. Nxt[s[i - 1]] = n.nxt[s[i]]
        BY <2>3, <1>6, <1>7, <1>12 DEF nx, e
      <3>3. \A x \in Set(s) : x # s[i - 1] /\ x # s[i] => Nxt[x] = n.nxt[x]
        BY <1>1, <1>6, <1>12, <2>3 DEF Set
      <3>4. IsPath(Nxt, n.head[q], Without(s, i))
        BY ONLY <1>1, <1>2, <1>5, <2>1, <3>1, <3>2, <3>3, PathCut
      <3> QED BY <3>1, <3>4
    <2> QED BY <2>2, <2>3
  <1>16. IsBack(Prv, CNULL, t)
    <2>1. i < N => Prv[s[i + 1]] = n.prv[s[i]]
      BY <1>2, <1>6, <1>7, <1>12 DEF pv, e
    <2>2. \A j \in DOMAIN s : j # i /\ j # i + 1 => Prv[s[j]] = n.prv[s[j]]
      <3> SUFFICES ASSUME NEW j \in DOMAIN s, j # i, j # i + 1 PROVE Prv[s[j]] = n.prv[s[j]]
        OBVIOUS
      <3>1. s[j] # nx /\ s[j] \in Blocks
        BY <1>1, <1>6
      <3> QED BY <3>1, <1>12
    <2>3. i < Len(s) => Prv[s[i + 1]] = n.prv[s[i]]
      BY <2>1 DEF N
    <2> QED BY ONLY <1>1, <1>2, <1>5, <2>2, <2>3, BackCut
  <1>17. Tl[q] = IF t = <<>> THEN CNULL ELSE t[Len(t)]
    <2>1. t = <<>> <=> N = 1
      BY ONLY <1>1, <1>2, <1>14
    <2>2. CASE i = N
      <3>1. Tl[q] = pv
        BY <2>2, <1>7, <1>12
      <3>2. CASE N = 1
        BY <2>1, <2>2, <3>1, <3>2, <1>6
      <3>3. CASE N # 1
        <4>1. t[N - 1] = s[N - 1]
          BY <3>3, <2>2, <1>2, <1>14
        <4> QED BY <2>1, <2>2, <3>1, <3>3, <4>1, <1>6, <1>14
      <3> QED BY <3>2, <3>3
    <2>3. CASE i # N
      <3>1. t[N - 1] = s[N] /\ N # 1
        BY <2>3, <1>1, <1>2, <1>14
      <3> QED BY <2>1, <2>3, <3>1, <1>3, <1>7, <1>12, <1>14
    <2> QED BY <2>2, <2>3
  <1>18. ChainAt(m, q, t)
    BY <1>13, <1>15, <1>16, <1>17 DEF ChainAt
  <1>19. ASSUME NEW r \in Chains, r # q
         PROVE  /\ Set(t) \cap Set(ls[r]) = {}
                /\ \A x \in Set(ls[r]) : m.nxt[x] = n.nxt[x] /\ m.prv[x] = n.prv[x]
                /\ m.head[r] = n.head[r] /\ m.tail[r] = n.tail[r]
    <2>1. Set(ls[r]) \subseteq Blocks
      BY ListFacts
    <2>2. Set(s) \cap Set(ls[r]) = {}
      BY <1>5, <1>19
    <2>3. \A x \in Set(ls[r]) : x # pv /\ x # nx
      BY <2>1, <2>2, <1>1, <1>8, <1>9
    <2> QED BY <1>12, <1>13, <1>14, <1>19, <2>1, <2>2, <2>3
  <1>20. Listed(m, [ls EXCEPT ![q] = t])
    <2> HIDE DEF t
    <2> QED BY ONLY <1>13, <1>14, <1>18, <1>19, Relist, n \in Caches, Listed(n, ls), q \in Chains
  <1> QED BY <1>13, <1>20 DEF Relinked, m, e, t, s

(* INSHEAD puts an entry that is on no chain before chain q.               *)
LEMMA InsheadLinks ==
    ASSUME NEW n \in Caches, NEW ls, Listed(n, ls), NEW q \in Chains,
           NEW e \in Blocks, \A r \in Chains : e \notin Set(ls[r])
    PROVE  Relinked(n, INSHEAD(n, q, e), [ls EXCEPT ![q] = <<e>> \o ls[q]])
PROOF
  <1> DEFINE s == ls[q]
             h == n.head[q]
             m == INSHEAD(n, q, e)
             t == <<e>> \o s
             Prv1 == IF h = CNULL THEN n.prv ELSE [n.prv EXCEPT ![h] = e]
             Prv == [Prv1 EXCEPT ![e] = CNULL]
             Nxt == [n.nxt EXCEPT ![e] = h]
             Hd == [n.head EXCEPT ![q] = e]
             Tl == IF h = CNULL THEN [n.tail EXCEPT ![q] = e] ELSE n.tail
  <1>1. /\ s \in Seq(Blocks) /\ Len(s) \in Nat /\ DOMAIN s = 1..Len(s)
        /\ \A a, b \in DOMAIN s : s[a] = s[b] => a = b
        /\ \A a \in DOMAIN s : s[a] \in Blocks /\ s[a] \in Set(s)
        /\ CNULL \notin Blocks
        /\ s = <<>> => h = CNULL
    BY ListFacts
  <1>2. s # <<>> => 1 \in DOMAIN s /\ Len(s) \in DOMAIN s /\ h = s[1] /\ n.tail[q] = s[Len(s)]
    BY ListFacts
  <1>3. \A a \in DOMAIN s : a > 1 => n.prv[s[a]] = s[a - 1]
    BY ListFacts
  <1>4. /\ n.nxt \in [Blocks -> Ptr] /\ n.prv \in [Blocks -> Ptr]
        /\ n.head \in [Chains -> Ptr] /\ n.tail \in [Chains -> Ptr]
        /\ n.op \in [Blocks -> Ops] /\ n.count \in [Buckets -> Nat] /\ n.used \in SUBSET Blocks
        /\ h \in Ptr /\ CNULL \in Ptr /\ e \in Ptr
    BY CacheFacts DEF Ptr
  <1>5. /\ IsPath(n.nxt, h, s)
        /\ \A r \in Chains : r # q => Set(s) \cap Set(ls[r]) = {}
    BY DEF Listed, ChainAt
  <1>6. e \notin Set(s)
    OBVIOUS
  <1> HIDE DEF s, h
  <1>7. h # CNULL => h \in Blocks /\ h \in Set(s) /\ h # e /\ s # <<>>
    BY <1>1, <1>2, <1>4, <1>6 DEF Ptr
  <1>8. Prv1 \in [Blocks -> Ptr]
    BY <1>4
  <1>9. m = [n EXCEPT !.nxt = Nxt, !.prv = Prv, !.head = Hd, !.tail = Tl]
    BY <1>4, <1>8 DEF INSHEAD, Caches, h
  <1>10. /\ Nxt \in [Blocks -> Ptr] /\ Prv \in [Blocks -> Ptr]
         /\ Hd \in [Chains -> Ptr] /\ Tl \in [Chains -> Ptr]
    BY <1>4, <1>8
  <1>11. /\ \A x \in Blocks : x # e => Nxt[x] = n.nxt[x]
         /\ \A x \in Blocks : x # e /\ x # h => Prv[x] = n.prv[x]
         /\ Nxt[e] = h /\ Prv[e] = CNULL
         /\ h # CNULL => Prv[h] = e
         /\ Hd[q] = e
         /\ Tl[q] = IF h = CNULL THEN e ELSE n.tail[q]
         /\ \A r \in Chains : r # q => Hd[r] = n.head[r] /\ Tl[r] = n.tail[r]
    BY <1>4, <1>7, <1>8
  <1> HIDE DEF Nxt, Prv, Prv1, Hd, Tl, m
  <1>12. /\ m.nxt = Nxt /\ m.prv = Prv /\ m.head = Hd /\ m.tail = Tl
         /\ m.op = n.op /\ m.count = n.count /\ m.used = n.used /\ m \in Caches
    BY <1>4, <1>9, <1>10 DEF Caches
  <1>13. /\ t \in Seq(Blocks) /\ Len(t) = Len(s) + 1 /\ DOMAIN t = 1..(Len(s) + 1)
         /\ t # <<>> /\ t[1] = e
         /\ \A a \in DOMAIN s : t[a + 1] = s[a]
         /\ \A a \in DOMAIN t : a = 1 \/ (a - 1 \in DOMAIN s /\ t[a] = s[a - 1])
    BY <1>1
  <1>14. IsPath(Nxt, e, t) /\ Set(t) = {e} \cup Set(s)
    <2>1. DOMAIN n.nxt = Blocks /\ DOMAIN Nxt = Blocks
      BY <1>4, <1>10
    <2>2. \A x \in Set(s) : Nxt[x] = n.nxt[x]
      BY <1>1, <1>6, <1>11 DEF Set
    <2>3. IsPath(Nxt, h, s)
      BY ONLY <1>5, <2>1, <2>2, PathFrame
    <2>4. e \in DOMAIN Nxt /\ Nxt[e] = h
      BY <2>1, <1>11
    <2> QED BY ONLY <1>6, <2>3, <2>4, PathPush
  <1>15. IsBack(Prv, CNULL, t)
    <2>1. ASSUME NEW a \in DOMAIN t PROVE Prv[t[a]] = IF a = 1 THEN CNULL ELSE t[a - 1]
      <3>1. CASE a = 1
        BY <3>1, <1>11, <1>13
      <3>2. CASE a = 2
        <4>1. 1 \in DOMAIN s /\ t[2] = s[1] /\ s # <<>>
          BY <3>2, <1>1, <1>13
        <4>2. h = s[1] /\ h # CNULL
          BY <4>1, <1>1, <1>2
        <4> QED BY <3>2, <4>1, <4>2, <1>11, <1>13
      <3>3. CASE a # 1 /\ a # 2
        <4>1. a - 1 \in DOMAIN s /\ t[a] = s[a - 1] /\ a - 1 > 1 /\ a - 2 \in DOMAIN s
          BY <3>3, <1>1, <1>13
        <4>2. t[a - 1] = s[a - 2] /\ n.prv[s[a - 1]] = s[a - 2]
          <5>1. (a - 2) + 1 = a - 1 /\ (a - 1) - 1 = a - 2
            BY <1>13
          <5> QED BY <4>1, <5>1, <1>3, <1>13
        <4>3. s[a - 1] # h
          <5>1. s # <<>> /\ 1 \in DOMAIN s
            BY <4>1, <1>1
          <5> QED BY <4>1, <5>1, <1>1, <1>2
        <4>4. s[a - 1] # e /\ s[a - 1] \in Blocks
          BY <4>1, <1>1, <1>6
        <4> QED BY <3>3, <4>1, <4>2, <4>3, <4>4, <1>11
      <3> QED BY <3>1, <3>2, <3>3
    <2> QED BY <2>1 DEF IsBack
  <1>16. Tl[q] = IF t = <<>> THEN CNULL ELSE t[Len(t)]
    <2>1. CASE s = <<>>
      <3>1. Len(s) = 0
        BY <2>1
      <3> QED BY <2>1, <3>1, <1>1, <1>11, <1>13
    <2>2. CASE s # <<>>
      <3>1. t[Len(s) + 1] = s[Len(s)] /\ h # CNULL
        BY <2>2, <1>1, <1>2, <1>13
      <3> QED BY <2>2, <3>1, <1>2, <1>11, <1>13
    <2> QED BY <2>1, <2>2
  <1>17. ChainAt(m, q, t)
    BY <1>11, <1>12, <1>14, <1>15, <1>16 DEF ChainAt
  <1>18. ASSUME NEW r \in Chains, r # q
         PROVE  /\ Set(t) \cap Set(ls[r]) = {}
                /\ \A x \in Set(ls[r]) : m.nxt[x] = n.nxt[x] /\ m.prv[x] = n.prv[x]
                /\ m.head[r] = n.head[r] /\ m.tail[r] = n.tail[r]
    <2>1. Set(ls[r]) \subseteq Blocks
      BY ListFacts
    <2>2. Set(s) \cap Set(ls[r]) = {}
      BY <1>5, <1>18
    <2>3. \A x \in Set(ls[r]) : x # e /\ x # h
      BY <2>1, <2>2, <1>1, <1>7
    <2> QED BY <1>11, <1>12, <1>14, <1>18, <2>1, <2>2, <2>3
  <1>19. Listed(m, [ls EXCEPT ![q] = t])
    <2> HIDE DEF t
    <2> QED BY ONLY <1>12, <1>13, <1>17, <1>18, Relist, n \in Caches, Listed(n, ls), q \in Chains
  <1> QED BY <1>12, <1>19 DEF Relinked, m, t, s

(* m is n with entry e off its chain and its object freed.                 *)
Taken(n, m, e, lt) ==
    /\ m \in Caches
    /\ m.op = [n.op EXCEPT ![e] = NoOp] /\ m.count = n.count /\ m.used = n.used
    /\ Listed(m, lt)

(* TakeTail takes the last entry off a chain.                              *)
LEMMA TakeTailLinks ==
    ASSUME NEW n \in Caches, NEW ls, Listed(n, ls), NEW q \in Chains, ls[q] # <<>>
    PROVE  Taken(n, TakeTail(n, q), n.tail[q],
                 [ls EXCEPT ![q] = Without(ls[q], Len(ls[q]))])
PROOF
  <1> DEFINE s == ls[q]
             N == Len(s)
             e == n.tail[q]
             pv == n.prv[e]
             m == TakeTail(n, q)
             t == Without(s, N)
             Nxt1 == [n.nxt EXCEPT ![e] = CNULL]
             Nxt == IF pv = CNULL THEN Nxt1 ELSE [Nxt1 EXCEPT ![pv] = n.nxt[e]]
             Prv == [n.prv EXCEPT ![e] = CNULL]
             Hd == IF pv = CNULL THEN [n.head EXCEPT ![q] = CNULL] ELSE n.head
             Tl == IF pv = CNULL THEN [n.tail EXCEPT ![q] = CNULL]
                   ELSE [n.tail EXCEPT ![q] = pv]
             Op == [n.op EXCEPT ![e] = NoOp]
  <1>1. /\ s \in Seq(Blocks) /\ N \in Nat /\ DOMAIN s = 1..N
        /\ \A a, b \in DOMAIN s : s[a] = s[b] => a = b
        /\ \A a \in DOMAIN s : s[a] \in Blocks /\ s[a] \in Set(s)
        /\ CNULL \notin Blocks
    BY ListFacts
  <1>2. s # <<>> /\ N \in DOMAIN s /\ 1 \in DOMAIN s
    BY ListFacts
  <1>3. /\ n.nxt[s[N]] = CNULL /\ n.prv[s[1]] = CNULL /\ n.head[q] = s[1] /\ e = s[N]
        /\ \A a \in DOMAIN s : a > 1 => n.prv[s[a]] = s[a - 1]
    BY <1>2, ListFacts
  <1>4. /\ n.nxt \in [Blocks -> Ptr] /\ n.prv \in [Blocks -> Ptr]
        /\ n.head \in [Chains -> Ptr] /\ n.tail \in [Chains -> Ptr]
        /\ n.op \in [Blocks -> Ops] /\ n.count \in [Buckets -> Nat] /\ n.used \in SUBSET Blocks
        /\ CNULL \in Ptr
    BY CacheFacts DEF Ptr
  <1>5. /\ IsPath(n.nxt, n.head[q], s) /\ IsBack(n.prv, CNULL, s)
        /\ \A r \in Chains : r # q => Set(s) \cap Set(ls[r]) = {}
    BY DEF Listed, ChainAt
  <1> HIDE DEF s
  <1>6. /\ N = 1 => pv = CNULL
        /\ N # 1 => N > 1 /\ N - 1 \in DOMAIN s /\ pv = s[N - 1] /\ pv \in Blocks /\ pv # e
    <2>1. N # 1 => N > 1 /\ N - 1 \in DOMAIN s
      BY <1>1, <1>2
    <2>2. N # 1 => pv = s[N - 1]
      BY <2>1, <1>2, <1>3
    <2> QED BY <2>1, <2>2, <1>1, <1>2, <1>3
  <1>7. (pv = CNULL <=> N = 1) /\ e \in Blocks
    BY <1>1, <1>2, <1>3, <1>6
  <1>8. Nxt1 \in [Blocks -> Ptr] /\ n.nxt[e] = CNULL
    BY <1>3, <1>4
  <1>9. m = [n EXCEPT !.nxt = Nxt, !.prv = Prv, !.head = Hd, !.tail = Tl, !.op = Op]
    BY <1>4, <1>8, SMTT(40), ZenonT(40) DEF TakeTail, Caches
  <1>10. /\ Nxt \in [Blocks -> Ptr] /\ Prv \in [Blocks -> Ptr]
         /\ Hd \in [Chains -> Ptr] /\ Tl \in [Chains -> Ptr] /\ Op \in [Blocks -> Ops]
    <2>1. NoOp \in Ops
      BY DEF Ops
    <2>2. pv \in Ptr
      BY <1>6 DEF Ptr
    <2> QED BY <1>4, <1>8, <2>1, <2>2
  <1>11. /\ \A x \in Blocks : x # pv /\ x # e => Nxt[x] = n.nxt[x]
         /\ \A x \in Blocks : x # e => Prv[x] = n.prv[x]
         /\ N # 1 => Nxt[s[N - 1]] = CNULL
         /\ Hd[q] = IF N = 1 THEN CNULL ELSE n.head[q]
         /\ Tl[q] = IF N = 1 THEN CNULL ELSE s[N - 1]
         /\ \A r \in Chains : r # q => Hd[r] = n.head[r] /\ Tl[r] = n.tail[r]
    BY <1>4, <1>6, <1>7, <1>8
  <1> HIDE DEF Nxt, Nxt1, Prv, Hd, Tl, Op, m
  <1>12. /\ m.nxt = Nxt /\ m.prv = Prv /\ m.head = Hd /\ m.tail = Tl
         /\ m.op = Op /\ m.count = n.count /\ m.used = n.used /\ m \in Caches
    BY <1>4, <1>9, <1>10 DEF Caches
  <1> HIDE DEF pv, e, N
  <1>13. /\ t \in Seq(Blocks) /\ Len(t) = N - 1 /\ DOMAIN t = 1..(N - 1)
         /\ \A j \in 1..(N - 1) : j < N => t[j] = s[j]
         /\ Set(t) = Set(s) \ {s[N]}
    <2>1. /\ s \in Seq(Blocks) /\ N \in DOMAIN s
          /\ \A a, b \in DOMAIN s : s[a] = s[b] => a = b
      BY <1>1, <1>2
    <2> QED BY ONLY <2>1, WithoutFacts DEF N, t
  <1>14. IsPath(Nxt, Hd[q], t)
    <2>1. DOMAIN n.nxt = Blocks /\ DOMAIN Nxt = Blocks
      BY <1>4, <1>10
    <2>2. CASE N = 1
      <3>1. Hd[q] = n.nxt[n.head[q]]
        BY <2>2, <1>3, <1>11
      <3>2. \A x \in Set(s) : x # n.head[q] => Nxt[x] = n.nxt[x]
        BY <1>1, <1>3, <1>6, <1>7, <1>11, <2>2 DEF Set
      <3>3. IsPath(Nxt, n.nxt[n.head[q]], Without(s, 1))
        BY ONLY <1>2, <1>5, <2>1, <3>2, PathCutFirst
      <3> QED BY <3>1, <3>3, <2>2
    <2>3. CASE N # 1
      <3>1. Hd[q] = n.head[q] /\ N > 1
        BY <2>3, <1>6, <1>11
      <3>2. Nxt[s[N - 1]] = n.nxt[s[N]]
        BY <2>3, <1>3, <1>11
      <3>3. \A x \in Set(s) : x # s[N - 1] /\ x # s[N] => Nxt[x] = n.nxt[x]
        BY <1>1, <1>3, <1>6, <1>11, <2>3 DEF Set
      <3>4. IsPath(Nxt, n.head[q], Without(s, N))
        BY ONLY <1>1, <1>2, <1>5, <2>1, <3>1, <3>2, <3>3, PathCut
      <3> QED BY <3>1, <3>4
    <2> QED BY <2>2, <2>3
  <1>15. IsBack(Prv, CNULL, t)
    <2>1. N < Len(s) => Prv[s[N + 1]] = n.prv[s[N]]
      BY <1>1 DEF N
    <2>2. \A j \in DOMAIN s : j # N /\ j # N + 1 => Prv[s[j]] = n.prv[s[j]]
      BY <1>1, <1>2, <1>3, <1>11
    <2> QED BY ONLY <1>1, <1>2, <1>5, <2>1, <2>2, BackCut
  <1>16. Tl[q] = IF t = <<>> THEN CNULL ELSE t[Len(t)]
    <2>1. t = <<>> <=> N = 1
      BY ONLY <1>1, <1>2, <1>13
    <2>2. N # 1 => N - 1 \in 1..(N - 1)
      BY <1>1, <1>6
    <2>3. N # 1 => t[N - 1] = s[N - 1]
      BY <2>2, <1>1, <1>13
    <2> QED BY <2>1, <2>3, <1>11, <1>13
  <1>17. ChainAt(m, q, t)
    BY <1>12, <1>14, <1>15, <1>16 DEF ChainAt
  <1>18. ASSUME NEW r \in Chains, r # q
         PROVE  /\ Set(t) \cap Set(ls[r]) = {}
                /\ \A x \in Set(ls[r]) : m.nxt[x] = n.nxt[x] /\ m.prv[x] = n.prv[x]
                /\ m.head[r] = n.head[r] /\ m.tail[r] = n.tail[r]
    <2>1. Set(ls[r]) \subseteq Blocks
      BY ListFacts
    <2>2. Set(s) \cap Set(ls[r]) = {}
      BY <1>5, <1>18
    <2>3. \A x \in Set(ls[r]) : x # pv /\ x # e
      <3>1. e \in Set(s) /\ (N # 1 => pv \in Set(s)) /\ (N = 1 => pv = CNULL)
        BY <1>1, <1>2, <1>3, <1>6
      <3> QED BY <3>1, <2>1, <2>2, <1>1
    <2> QED BY <1>11, <1>12, <1>13, <1>18, <2>1, <2>2, <2>3
  <1>19. Listed(m, [ls EXCEPT ![q] = t])
    <2> HIDE DEF t
    <2> QED BY ONLY <1>12, <1>13, <1>17, <1>18, Relist, n \in Caches, Listed(n, ls), q \in Chains
  <1> QED BY <1>12, <1>19 DEF Taken, m, e, t, s, N, Op

(* Chain to becomes u, of the entries of both, and chain from is empty.    *)
LEMMA Relist2 ==
    ASSUME NEW n \in Caches, NEW m \in Caches, NEW ls, Listed(n, ls),
           NEW from \in Chains, NEW to \in Chains, from # to,
           NEW u \in Seq(Blocks), ChainAt(m, to, u),
           Set(u) = Set(ls[from]) \cup Set(ls[to]),
           m.head[from] = CNULL, m.tail[from] = CNULL,
           \A r \in Chains : r # from /\ r # to =>
              /\ \A e \in Set(ls[r]) : m.nxt[e] = n.nxt[e] /\ m.prv[e] = n.prv[e]
              /\ m.head[r] = n.head[r] /\ m.tail[r] = n.tail[r]
    PROVE  Listed(m, [ls EXCEPT ![to] = u, ![from] = <<>>])
PROOF
  <1> DEFINE lt == [ls EXCEPT ![to] = u, ![from] = <<>>]
  <1>1. ls \in [Chains -> Seq(Blocks)]
    BY DEF Listed
  <1>2. <<>> \in Seq(Blocks)
    OBVIOUS
  <1>3. /\ lt \in [Chains -> Seq(Blocks)] /\ lt[to] = u /\ lt[from] = <<>>
        /\ \A r \in Chains : r # from /\ r # to => lt[r] = ls[r]
    BY <1>1, <1>2
  <1>4. \A r \in Chains : ChainAt(n, r, ls[r])
    BY DEF Listed
  <1>5. \A r, p \in Chains : r # p => Set(ls[r]) \cap Set(ls[p]) = {}
    BY DEF Listed
  <1> HIDE DEF lt
  <1>6. ASSUME NEW r \in Chains PROVE ChainAt(m, r, lt[r])
    <2>1. CASE r = to
      BY <1>3, <2>1
    <2>2. CASE r = from
      <3>1. DOMAIN m.nxt = Blocks /\ CNULL \notin Blocks
        BY CacheFacts, NamesAssumption
      <3>2. DOMAIN <<>> = {} /\ <<>> \in Seq(DOMAIN m.nxt)
        OBVIOUS
      <3>3. IsPath(m.nxt, m.head[from], <<>>)
        BY <3>1, <3>2 DEF IsPath
      <3>4. IsBack(m.prv, CNULL, <<>>)
        BY <3>2 DEF IsBack
      <3>5. ChainAt(m, from, <<>>)
        BY <3>3, <3>4 DEF ChainAt
      <3> QED BY <3>5, <2>2, <1>3
    <2>3. CASE r # from /\ r # to
      <3>1. \A e \in Set(ls[r]) : m.nxt[e] = n.nxt[e] /\ m.prv[e] = n.prv[e]
        BY <2>3
      <3>2. m.head[r] = n.head[r] /\ m.tail[r] = n.tail[r]
        BY <2>3
      <3>3. ChainAt(m, r, ls[r])
        BY ONLY <1>4, <3>1, <3>2, ChainFrame, n \in Caches, m \in Caches, r \in Chains
      <3> QED BY <3>3, <2>3, <1>3
    <2> QED BY <2>1, <2>2, <2>3
  <1>7. \A r, p \in Chains : r # p => Set(lt[r]) \cap Set(lt[p]) = {}
    <2>1. Set(<<>>) = {}
      BY DEF Set
    <2>2. Set(lt[from]) = {} /\ Set(lt[to]) = Set(ls[from]) \cup Set(ls[to])
      BY <2>1, <1>3
    <2> QED BY <2>2, <1>3, <1>5, SMTT(40), ZenonT(40)
  <1> QED BY <1>3, <1>6, <1>7 DEF Listed, lt

(* Prepend puts chain from before chain to.                                *)
LEMMA PrependLinks ==
    ASSUME NEW n \in Caches, NEW ls, Listed(n, ls),
           NEW from \in Chains, NEW to \in Chains, from # to
    PROVE  Relinked(n, Prepend(n, from, to),
                    [ls EXCEPT ![to] = ls[from] \o ls[to], ![from] = <<>>])
PROOF
  <1> DEFINE s == ls[from]
             t == ls[to]
             u == s \o t
             m == Prepend(n, from, to)
             h == n.head[to]
             w == n.tail[from]
             Nxt == [n.nxt EXCEPT ![w] = h]
             Prv == IF h = CNULL THEN n.prv ELSE [n.prv EXCEPT ![h] = w]
             Hd1 == [n.head EXCEPT ![to] = n.head[from]]
             Hd == [Hd1 EXCEPT ![from] = CNULL]
             Tl1 == [n.tail EXCEPT ![to] = IF n.tail[to] = CNULL THEN w ELSE n.tail[to]]
             Tl == [Tl1 EXCEPT ![from] = CNULL]
  <1>1. /\ s \in Seq(Blocks) /\ Len(s) \in Nat /\ DOMAIN s = 1..Len(s)
        /\ \A a, b \in DOMAIN s : s[a] = s[b] => a = b
        /\ \A a \in DOMAIN s : s[a] \in Blocks /\ s[a] \in Set(s)
        /\ Set(s) \subseteq Blocks /\ CNULL \notin Blocks
        /\ (s = <<>> <=> Set(s) = {}) /\ (s = <<>> => n.head[from] = CNULL /\ n.tail[from] = CNULL)
    BY ListFacts
  <1>2. s # <<>> => /\ 1 \in DOMAIN s /\ Len(s) \in DOMAIN s
                    /\ n.head[from] = s[1] /\ n.tail[from] = s[Len(s)]
    BY ListFacts
  <1>3. /\ t \in Seq(Blocks) /\ Len(t) \in Nat /\ DOMAIN t = 1..Len(t)
        /\ \A a, b \in DOMAIN t : t[a] = t[b] => a = b
        /\ \A a \in DOMAIN t : t[a] \in Blocks /\ t[a] \in Set(t)
        /\ Set(t) \subseteq Blocks
        /\ (t = <<>> <=> Set(t) = {}) /\ (t = <<>> => n.head[to] = CNULL /\ n.tail[to] = CNULL)
    BY ListFacts
  <1>4. t # <<>> => /\ 1 \in DOMAIN t /\ Len(t) \in DOMAIN t
                    /\ n.head[to] = t[1] /\ n.tail[to] = t[Len(t)]
    BY ListFacts
  <1>5. /\ n.nxt \in [Blocks -> Ptr] /\ n.prv \in [Blocks -> Ptr]
        /\ n.head \in [Chains -> Ptr] /\ n.tail \in [Chains -> Ptr]
        /\ n.op \in [Blocks -> Ops] /\ n.count \in [Buckets -> Nat] /\ n.used \in SUBSET Blocks
        /\ CNULL \in Ptr
    BY CacheFacts DEF Ptr
  <1>6. /\ IsPath(n.nxt, n.head[from], s) /\ IsBack(n.prv, CNULL, s)
        /\ IsPath(n.nxt, n.head[to], t) /\ IsBack(n.prv, CNULL, t)
        /\ Set(s) \cap Set(t) = {}
        /\ \A r \in Chains : r # from => Set(s) \cap Set(ls[r]) = {}
        /\ \A r \in Chains : r # to => Set(t) \cap Set(ls[r]) = {}
    BY DEF Listed, ChainAt
  <1>7. ls \in [Chains -> Seq(Blocks)]
    BY DEF Listed
  <1> HIDE DEF s, t
  <1>8. /\ u \in Seq(Blocks) /\ Len(u) = Len(s) + Len(t) /\ DOMAIN u = 1..(Len(s) + Len(t))
        /\ \A i \in 1..Len(s) : (u)[i] = s[i]
        /\ \A i \in 1..Len(t) : (u)[Len(s) + i] = t[i]
        /\ Set(u) = Set(s) \cup Set(t)
    <2>1. /\ s \o t \in Seq(Blocks) /\ Len(s \o t) = Len(s) + Len(t)
          /\ DOMAIN (s \o t) = 1..(Len(s) + Len(t))
          /\ \A i \in 1..Len(s) : (s \o t)[i] = s[i]
          /\ \A i \in 1..Len(t) : (s \o t)[Len(s) + i] = t[i]
          /\ Set(s \o t) = Set(s) \cup Set(t)
      BY ONLY <1>1, <1>3, ConcatFacts
    <2> QED BY <2>1
  <1>9. CASE n.head[from] = CNULL
    <2>1. m = n /\ s = <<>>
      <3>1. m = n
        BY ONLY <1>9 DEF Prepend, m
      <3>2. s = <<>>
        BY <1>9, <1>1, <1>2
      <3> QED BY ONLY <3>1, <3>2
    <2>2. u = t
      BY ONLY <2>1, <1>3
    <2> DEFINE lt == [ls EXCEPT ![to] = u, ![from] = <<>>]
    <2>3. lt = ls
      BY <1>7, <2>1, <2>2 DEF s, t
    <2> HIDE DEF lt
    <2>4. Relinked(n, m, lt)
      BY <2>1, <2>3 DEF Relinked
    <2> QED BY <2>4 DEF s, t, lt
  <1>10. CASE n.head[from] # CNULL
    <2>1. /\ s # <<>> /\ 1 \in DOMAIN s /\ Len(s) \in DOMAIN s
          /\ n.head[from] = s[1] /\ n.tail[from] = s[Len(s)]
          /\ s[1] \in Blocks /\ s[Len(s)] \in Blocks
          /\ s[1] \in Set(s) /\ s[Len(s)] \in Set(s)
      BY <1>1, <1>2, <1>10
    <2>2. /\ t = <<>> <=> n.head[to] = CNULL
          /\ t = <<>> => n.tail[to] = CNULL
          /\ t # <<>> => /\ 1 \in DOMAIN t /\ Len(t) \in DOMAIN t
                         /\ n.head[to] = t[1] /\ n.tail[to] = t[Len(t)]
                         /\ t[1] \in Blocks /\ t[Len(t)] \in Blocks
                         /\ t[1] \in Set(t) /\ t[Len(t)] \in Set(t)
                         /\ n.tail[to] # CNULL
      BY <1>1, <1>3, <1>4
    <2>3. Hd1 \in [Chains -> Ptr] /\ Tl1 \in [Chains -> Ptr]
      BY <1>5
    <2>4. /\ Nxt \in [Blocks -> Ptr] /\ Prv \in [Blocks -> Ptr]
          /\ Hd \in [Chains -> Ptr] /\ Tl \in [Chains -> Ptr]
      BY <1>5, <2>3, <2>1, <2>2
    <2>5. m = [n EXCEPT !.nxt = Nxt, !.prv = Prv, !.head = Hd, !.tail = Tl]
      BY ONLY <1>10 DEF Prepend, m, h, w, Nxt, Prv, Hd, Hd1, Tl, Tl1
    <2>6. /\ \A x \in Blocks : x # s[Len(s)] => Nxt[x] = n.nxt[x]
          /\ \A x \in Blocks : x \notin Set(t) => Prv[x] = n.prv[x]
          /\ Nxt[s[Len(s)]] = n.head[to]
          /\ t = <<>> => Prv = n.prv
          /\ t # <<>> => /\ Prv[t[1]] = s[Len(s)]
                         /\ \A x \in Blocks : x # t[1] => Prv[x] = n.prv[x]
      BY <1>5, <2>1, <2>2
    <2>7. /\ Hd[from] = CNULL /\ Tl[from] = CNULL
          /\ Hd[to] = s[1]
          /\ Tl[to] = IF t = <<>> THEN s[Len(s)] ELSE t[Len(t)]
          /\ \A r \in Chains : r # from /\ r # to => Hd[r] = n.head[r] /\ Tl[r] = n.tail[r]
      <3>1. Hd1[to] = s[1]
        BY <1>5, <2>1
      <3>2. Tl1[to] = IF t = <<>> THEN s[Len(s)] ELSE t[Len(t)]
        BY <1>5, <2>1, <2>2
      <3>3. \A r \in Chains : r # to => Hd1[r] = n.head[r] /\ Tl1[r] = n.tail[r]
        BY <1>5
      <3> HIDE DEF Hd1, Tl1
      <3> QED BY <2>3, <3>1, <3>2, <3>3
    <2> HIDE DEF Nxt, Prv, Hd, Tl, Hd1, Tl1, m
    <2>8. /\ m.nxt = Nxt /\ m.prv = Prv /\ m.head = Hd /\ m.tail = Tl
          /\ m.op = n.op /\ m.count = n.count /\ m.used = n.used /\ m \in Caches
      BY <1>5, <2>4, <2>5 DEF Caches
    <2>9. DOMAIN n.nxt = Blocks /\ DOMAIN Nxt = Blocks
      BY <1>5, <2>4
    <2>10. IsPath(Nxt, Hd[to], u)
      <3>1. /\ Nxt[s[Len(s)]] = n.head[to]
            /\ \A x \in Set(s) \cup Set(t) : x # s[Len(s)] => Nxt[x] = n.nxt[x]
        BY <2>6, <1>1, <1>3
      <3>2. IsPath(Nxt, n.head[from], s \o t)
        BY ONLY <1>6, <2>1, <2>9, <3>1, PathJoin
      <3> QED BY <3>2, <2>1, <2>7
    <2>11. IsBack(Prv, CNULL, u)
      <3>1. \A x \in Set(s) : Prv[x] = n.prv[x]
        BY <1>1, <1>6, <2>6
      <3>2. t # <<>> => Prv[t[1]] = s[Len(s)]
        BY <2>6
      <3>3. \A i \in DOMAIN t : i # 1 => Prv[t[i]] = n.prv[t[i]]
        BY <2>2, <2>6, <1>3
      <3> QED BY ONLY <1>1, <1>3, <1>6, <2>1, <3>1, <3>2, <3>3, BackJoin
    <2>12. Tl[to] = IF u = <<>> THEN CNULL ELSE (u)[Len(u)]
      <3>1. Len(s) \in 1..Len(s) /\ Len(u) # 0
        BY <1>1, <1>3, <1>8, <2>1
      <3>2. u # <<>>
        BY ONLY <3>1, <1>8
      <3>3. CASE t = <<>>
        <4>1. Len(t) = 0
          BY <3>3
        <4>2. (u)[Len(s)] = s[Len(s)] /\ Len(u) = Len(s)
          BY <4>1, <3>1, <1>1, <1>8
        <4> HIDE DEF u
        <4> QED BY <3>2, <3>3, <4>2, <2>7
      <3>4. CASE t # <<>>
        <4>1. Len(t) \in 1..Len(t)
          BY <3>4, <2>2, <1>3
        <4>2. (u)[Len(s) + Len(t)] = t[Len(t)]
          BY <4>1, <1>8
        <4> HIDE DEF u
        <4> QED BY <3>2, <3>4, <4>2, <1>8, <2>7
      <3> QED BY <3>3, <3>4
    <2>13. ChainAt(m, to, u)
      BY <2>8, <2>10, <2>11, <2>12 DEF ChainAt
    <2>14. ASSUME NEW r \in Chains, r # from, r # to
           PROVE  /\ \A x \in Set(ls[r]) : m.nxt[x] = n.nxt[x] /\ m.prv[x] = n.prv[x]
                  /\ m.head[r] = n.head[r] /\ m.tail[r] = n.tail[r]
      <3>1. Set(ls[r]) \subseteq Blocks
        BY ListFacts
      <3>2. Set(s) \cap Set(ls[r]) = {} /\ Set(t) \cap Set(ls[r]) = {}
        BY <1>6, <2>14
      <3>3. \A x \in Set(ls[r]) : x \notin Set(s) /\ x \notin Set(t) /\ x \in Blocks /\ x # CNULL
        BY <3>1, <3>2, <1>1
      <3> QED BY <2>1, <2>6, <2>7, <2>8, <2>14, <3>3
    <2>15. m.head[from] = CNULL /\ m.tail[from] = CNULL
      BY <2>7, <2>8
    <2>16. Set(u) = Set(ls[from]) \cup Set(ls[to])
      BY <1>8 DEF s, t
    <2>17. u \in Seq(Blocks)
      BY <1>8
    <2> DEFINE lt == [ls EXCEPT ![to] = u, ![from] = <<>>]
    <2>18. Listed(m, lt)
      <3> HIDE DEF u
      <3> QED BY ONLY <2>8, <2>13, <2>14, <2>15, <2>16, <2>17, Relist2, n \in Caches,
                      Listed(n, ls), from \in Chains, to \in Chains, from # to
    <2> HIDE DEF lt
    <2>19. Relinked(n, m, lt)
      BY <2>8, <2>18 DEF Relinked
    <2> QED BY <2>19 DEF m, lt, s, t
  <1> QED BY <1>9, <1>10

(* Put appends chain from to chain to.                                     *)
LEMMA PutLinks ==
    ASSUME NEW n \in Caches, NEW ls, Listed(n, ls),
           NEW from \in Chains, NEW to \in Chains, from # to
    PROVE  Relinked(n, Put(n, from, to),
                    [ls EXCEPT ![to] = ls[to] \o ls[from], ![from] = <<>>])
PROOF
  <1> DEFINE s == ls[from]
             t == ls[to]
             u == t \o s
             m == Put(n, from, to)
             h == n.head[from]
             w == n.tail[to]
             Nxt == IF n.head[to] = CNULL THEN n.nxt ELSE [n.nxt EXCEPT ![w] = h]
             Prv == IF n.head[to] = CNULL THEN n.prv ELSE [n.prv EXCEPT ![h] = w]
             Hd1 == IF n.head[to] = CNULL THEN [n.head EXCEPT ![to] = h] ELSE n.head
             Hd == [Hd1 EXCEPT ![from] = CNULL]
             Tl1 == [n.tail EXCEPT ![to] = n.tail[from]]
             Tl == [Tl1 EXCEPT ![from] = CNULL]
  <1>1. /\ s \in Seq(Blocks) /\ Len(s) \in Nat /\ DOMAIN s = 1..Len(s)
        /\ \A a, b \in DOMAIN s : s[a] = s[b] => a = b
        /\ \A a \in DOMAIN s : s[a] \in Blocks /\ s[a] \in Set(s)
        /\ Set(s) \subseteq Blocks /\ CNULL \notin Blocks
        /\ (s = <<>> <=> Set(s) = {}) /\ (s = <<>> => n.head[from] = CNULL /\ n.tail[from] = CNULL)
    BY ListFacts
  <1>2. s # <<>> => /\ 1 \in DOMAIN s /\ Len(s) \in DOMAIN s
                    /\ n.head[from] = s[1] /\ n.tail[from] = s[Len(s)]
    BY ListFacts
  <1>3. /\ t \in Seq(Blocks) /\ Len(t) \in Nat /\ DOMAIN t = 1..Len(t)
        /\ \A a, b \in DOMAIN t : t[a] = t[b] => a = b
        /\ \A a \in DOMAIN t : t[a] \in Blocks /\ t[a] \in Set(t)
        /\ Set(t) \subseteq Blocks
        /\ (t = <<>> <=> Set(t) = {}) /\ (t = <<>> => n.head[to] = CNULL /\ n.tail[to] = CNULL)
    BY ListFacts
  <1>4. t # <<>> => /\ 1 \in DOMAIN t /\ Len(t) \in DOMAIN t
                    /\ n.head[to] = t[1] /\ n.tail[to] = t[Len(t)]
    BY ListFacts
  <1>5. /\ n.nxt \in [Blocks -> Ptr] /\ n.prv \in [Blocks -> Ptr]
        /\ n.head \in [Chains -> Ptr] /\ n.tail \in [Chains -> Ptr]
        /\ n.op \in [Blocks -> Ops] /\ n.count \in [Buckets -> Nat] /\ n.used \in SUBSET Blocks
        /\ CNULL \in Ptr
    BY CacheFacts DEF Ptr
  <1>6. /\ IsPath(n.nxt, n.head[from], s) /\ IsBack(n.prv, CNULL, s)
        /\ IsPath(n.nxt, n.head[to], t) /\ IsBack(n.prv, CNULL, t)
        /\ Set(s) \cap Set(t) = {}
        /\ \A r \in Chains : r # from => Set(s) \cap Set(ls[r]) = {}
        /\ \A r \in Chains : r # to => Set(t) \cap Set(ls[r]) = {}
    BY DEF Listed, ChainAt
  <1>7. ls \in [Chains -> Seq(Blocks)]
    BY DEF Listed
  <1> HIDE DEF s, t
  <1>8. /\ u \in Seq(Blocks) /\ Len(u) = Len(t) + Len(s) /\ DOMAIN u = 1..(Len(t) + Len(s))
        /\ \A i \in 1..Len(t) : (u)[i] = t[i]
        /\ \A i \in 1..Len(s) : (u)[Len(t) + i] = s[i]
        /\ Set(u) = Set(s) \cup Set(t)
    <2>1. /\ t \o s \in Seq(Blocks) /\ Len(t \o s) = Len(t) + Len(s)
          /\ DOMAIN (t \o s) = 1..(Len(t) + Len(s))
          /\ \A i \in 1..Len(t) : (t \o s)[i] = t[i]
          /\ \A i \in 1..Len(s) : (t \o s)[Len(t) + i] = s[i]
          /\ Set(t \o s) = Set(t) \cup Set(s)
      BY ONLY <1>1, <1>3, ConcatFacts
    <2> QED BY <2>1
  <1>9. CASE n.head[from] = CNULL
    <2>1. m = n /\ s = <<>>
      BY <1>9, <1>1, <1>2 DEF Put
    <2>2. u = t
      BY ONLY <2>1, <1>3
    <2> DEFINE lt == [ls EXCEPT ![to] = u, ![from] = <<>>]
    <2>3. lt = ls
      BY <1>7, <2>1, <2>2 DEF s, t
    <2> HIDE DEF lt
    <2>4. Relinked(n, m, lt)
      BY <2>1, <2>3 DEF Relinked
    <2> QED BY <2>4 DEF s, t, lt
  <1>10. CASE n.head[from] # CNULL
    <2>1. /\ s # <<>> /\ 1 \in DOMAIN s /\ Len(s) \in DOMAIN s
          /\ n.head[from] = s[1] /\ n.tail[from] = s[Len(s)]
          /\ s[1] \in Blocks /\ s[Len(s)] \in Blocks
          /\ s[1] \in Set(s) /\ s[Len(s)] \in Set(s)
      BY <1>1, <1>2, <1>10
    <2>2. /\ t = <<>> <=> n.head[to] = CNULL
          /\ t = <<>> => n.tail[to] = CNULL
          /\ t # <<>> => /\ 1 \in DOMAIN t /\ Len(t) \in DOMAIN t
                         /\ n.head[to] = t[1] /\ n.tail[to] = t[Len(t)]
                         /\ t[1] \in Blocks /\ t[Len(t)] \in Blocks
                         /\ t[1] \in Set(t) /\ t[Len(t)] \in Set(t)
                         /\ n.tail[to] # CNULL
      BY <1>1, <1>3, <1>4
    <2>3. Hd1 \in [Chains -> Ptr] /\ Tl1 \in [Chains -> Ptr]
      BY <1>5
    <2>4. /\ Nxt \in [Blocks -> Ptr] /\ Prv \in [Blocks -> Ptr]
          /\ Hd \in [Chains -> Ptr] /\ Tl \in [Chains -> Ptr]
      BY <1>5, <2>3, <2>1, <2>2
    <2>5. m = [n EXCEPT !.nxt = Nxt, !.prv = Prv, !.head = Hd, !.tail = Tl]
      BY <1>5, <1>10, <2>3, <2>4 DEF Put, Caches
    <2>6. /\ \A x \in Blocks : x \notin Set(t) => Nxt[x] = n.nxt[x]
          /\ \A x \in Blocks : x \notin Set(s) => Prv[x] = n.prv[x]
          /\ t = <<>> => Nxt = n.nxt /\ Prv = n.prv
          /\ t # <<>> => /\ Nxt[t[Len(t)]] = s[1] /\ Prv[s[1]] = t[Len(t)]
                         /\ \A x \in Blocks : x # t[Len(t)] => Nxt[x] = n.nxt[x]
                         /\ \A x \in Blocks : x # s[1] => Prv[x] = n.prv[x]
      BY <1>5, <2>1, <2>2
    <2>7. /\ Hd[from] = CNULL /\ Tl[from] = CNULL
          /\ Hd[to] = IF t = <<>> THEN s[1] ELSE t[1]
          /\ Tl[to] = s[Len(s)]
          /\ \A r \in Chains : r # from /\ r # to => Hd[r] = n.head[r] /\ Tl[r] = n.tail[r]
      <3>1. Hd1[to] = IF t = <<>> THEN s[1] ELSE t[1]
        BY <1>5, <2>1, <2>2
      <3>2. Tl1[to] = s[Len(s)]
        BY <1>5, <2>1
      <3>3. \A r \in Chains : r # to => Hd1[r] = n.head[r] /\ Tl1[r] = n.tail[r]
        BY <1>5
      <3> HIDE DEF Hd1, Tl1
      <3> QED BY <2>3, <3>1, <3>2, <3>3
    <2> HIDE DEF Nxt, Prv, Hd, Tl, Hd1, Tl1, m
    <2>8. /\ m.nxt = Nxt /\ m.prv = Prv /\ m.head = Hd /\ m.tail = Tl
          /\ m.op = n.op /\ m.count = n.count /\ m.used = n.used /\ m \in Caches
      BY <1>5, <2>4, <2>5 DEF Caches
    <2>9. DOMAIN n.nxt = Blocks /\ DOMAIN Nxt = Blocks
      BY <1>5, <2>4
    <2>10. IsPath(Nxt, Hd[to], u)
      <3>1. CASE t = <<>>
        <4>1. u = s
          BY ONLY <3>1, <1>1
        <4> QED BY <4>1, <3>1, <2>1, <2>6, <2>7, <1>6
      <3>2. CASE t # <<>>
        <4>1. /\ Nxt[t[Len(t)]] = n.head[from]
              /\ \A x \in Set(t) \cup Set(s) : x # t[Len(t)] => Nxt[x] = n.nxt[x]
          BY <3>2, <2>1, <2>6, <1>1, <1>3
        <4>2. Set(t) \cap Set(s) = {}
          BY <1>6
        <4>3. IsPath(Nxt, n.head[to], t \o s)
          BY ONLY <3>2, <1>6, <2>9, <4>1, <4>2, PathJoin
        <4> QED BY <4>3, <3>2, <2>2, <2>7
      <3> QED BY <3>1, <3>2
    <2>11. IsBack(Prv, CNULL, u)
      <3>1. CASE t = <<>>
        <4>1. u = s
          BY ONLY <3>1, <1>1
        <4> QED BY <4>1, <3>1, <2>6, <1>6
      <3>2. CASE t # <<>>
        <4>1. \A x \in Set(t) : Prv[x] = n.prv[x]
          BY <1>3, <1>6, <2>6
        <4>2. Prv[s[1]] = t[Len(t)]
          BY <3>2, <2>6
        <4>3. \A i \in DOMAIN s : i # 1 => Prv[s[i]] = n.prv[s[i]]
          BY <3>2, <2>1, <2>6, <1>1
        <4> QED BY ONLY <1>1, <1>3, <1>6, <3>2, <4>1, <4>2, <4>3, BackJoin
      <3> QED BY <3>1, <3>2
    <2>12. Tl[to] = IF u = <<>> THEN CNULL ELSE (u)[Len(u)]
      <3>1. Len(s) \in 1..Len(s) /\ Len(u) # 0
        BY <1>1, <1>3, <1>8, <2>1
      <3>2. (u)[Len(t) + Len(s)] = s[Len(s)]
        BY <1>8, <3>1
      <3>3. u # <<>>
        BY ONLY <3>1, <1>8
      <3> HIDE DEF u
      <3> QED BY <3>2, <3>3, <1>8, <2>7
    <2>13. ChainAt(m, to, u)
      BY <2>8, <2>10, <2>11, <2>12 DEF ChainAt
    <2>14. ASSUME NEW r \in Chains, r # from, r # to
           PROVE  /\ \A x \in Set(ls[r]) : m.nxt[x] = n.nxt[x] /\ m.prv[x] = n.prv[x]
                  /\ m.head[r] = n.head[r] /\ m.tail[r] = n.tail[r]
      <3>1. Set(ls[r]) \subseteq Blocks
        BY ListFacts
      <3>2. Set(s) \cap Set(ls[r]) = {} /\ Set(t) \cap Set(ls[r]) = {}
        BY <1>6, <2>14
      <3>3. \A x \in Set(ls[r]) : x \notin Set(s) /\ x \notin Set(t) /\ x \in Blocks /\ x # CNULL
        BY <3>1, <3>2, <1>1
      <3> QED BY <2>1, <2>6, <2>7, <2>8, <2>14, <3>3
    <2>15. m.head[from] = CNULL /\ m.tail[from] = CNULL
      BY <2>7, <2>8
    <2>16. Set(u) = Set(ls[from]) \cup Set(ls[to])
      BY <1>8 DEF s, t
    <2>17. u \in Seq(Blocks)
      BY <1>8
    <2> DEFINE lt == [ls EXCEPT ![to] = u, ![from] = <<>>]
    <2>18. Listed(m, lt)
      <3> HIDE DEF u
      <3> QED BY ONLY <2>8, <2>13, <2>14, <2>15, <2>16, <2>17, Relist2, n \in Caches,
                      Listed(n, ls), from \in Chains, to \in Chains, from # to
    <2> HIDE DEF lt
    <2>19. Relinked(n, m, lt)
      BY <2>8, <2>18 DEF Relinked
    <2> QED BY <2>19 DEF m, lt, s, t
  <1> QED BY <1>9, <1>10

-----------------------------------------------------------------------------
(* What the chains hold *)

(* The entries on the chains are in use; those with an object are in its   *)
(* bucket, and only the old chain has others; no object is there twice;    *)
(* and what is not written before it is dropped is on disk.                *)
Contents(n, d, ls) ==
    /\ \A q \in Chains : \A e \in Set(ls[q]) :
          /\ e \in n.used
          /\ n.op[e] = NoOp => q[2] = "old"
          /\ n.op[e] # NoOp => Bucket(n.op[e].name) = q[1]
    /\ \A q, r \in Chains : \A e \in Set(ls[q]), f \in Set(ls[r]) :
          n.op[e] # NoOp /\ n.op[e].name = n.op[f].name => e = f
    /\ \A q \in Chains : \A e \in Set(ls[q]) :
          q[2] \in {"active", "old"} /\ n.op[e] # NoOp
             => n.op[e].atrs = d[n.op[e].name]

(* Every entry in use belongs to a bucket, own[e], and is counted there.   *)
Counted(n, ls, own) ==
    /\ own \in [Blocks -> Buckets]
    /\ \A q \in Chains : \A e \in Set(ls[q]) : own[e] = q[1]
    /\ \A b \in Buckets : n.count[b] = Cardinality({e \in n.used : own[e] = b})

Sound(n, d, ls, own) ==
    /\ n \in Caches /\ d \in Disks
    /\ Listed(n, ls) /\ Contents(n, d, ls) /\ Counted(n, ls, own)

(* Nothing that FETCH answers changes from n, d to m, c, and the disk does *)
(* not, but to what it answers.                                            *)
Kept(n, d, m, c) ==
    \A o \in Objects :
        /\ Attributes(m, c, o) = Attributes(n, d, o)
        /\ c[o] = d[o] \/ c[o] = Attributes(n, d, o)

LEMMA KeptTwice ==
    ASSUME NEW n, NEW d, NEW m, NEW c, NEW k, NEW b, Kept(n, d, m, c), Kept(m, c, k, b)
    PROVE  Kept(n, d, k, b)
PROOF
  BY DEF Kept

LEMMA KeptSame ==
    ASSUME NEW n, NEW d
    PROVE  Kept(n, d, n, d)
PROOF
  BY DEF Kept

LEMMA ChainFacts ==
    /\ \A b \in Buckets, k \in Kinds : <<b, k>> \in Chains
    /\ \A q \in Chains : q[1] \in Buckets /\ q[2] \in Kinds /\ q = <<q[1], q[2]>>
    /\ \A o \in Objects : Bucket(o) \in Buckets
    /\ "active" \in Kinds /\ "mactive" \in Kinds /\ "old" \in Kinds /\ "mold" \in Kinds
    /\ CNULL \notin Objects /\ CNULL \notin Blocks
PROOF
  <1>1. ASSUME NEW o \in Objects PROVE Bucket(o) \in Buckets
    <2>1. o \in Nat /\ cwidth \in Nat /\ cwidth > 0
      BY NamesAssumption, SizesAssumption
    <2>2. o % cwidth \in 0..(cwidth - 1)
      BY <2>1
    <2> QED BY <2>2 DEF Bucket, Buckets
  <1> QED BY <1>1, NamesAssumption DEF Chains, Kinds

LEMMA OpFacts ==
    ASSUME NEW n \in Caches, NEW e \in Blocks
    PROVE  /\ n.op[e] = NoOp => n.op[e].name = CNULL
           /\ n.op[e] # NoOp => /\ n.op[e].name \in Objects /\ n.op[e].atrs \in Arrays
                                /\ n.op[e] = [name |-> n.op[e].name, atrs |-> n.op[e].atrs]
           /\ n.op[e].name \in Objects <=> n.op[e] # NoOp
PROOF
  <1>1. n.op[e] \in Ops
    BY CacheFacts
  <1>2. NoOp.name = CNULL /\ CNULL \notin Objects
    BY ChainFacts DEF NoOp
  <1>3. n.op[e] # NoOp => n.op[e] \in [name : Objects, atrs : Arrays]
    BY <1>1 DEF Ops
  <1> QED BY <1>2, <1>3

(* An entry on a chain is in one place only.                               *)
LEMMA OnOne ==
    ASSUME NEW n, NEW ls, Listed(n, ls), NEW q \in Chains, NEW r \in Chains,
           NEW e \in Set(ls[q]), e \in Set(ls[r])
    PROVE  q = r
PROOF
  BY DEF Listed

LEMMA OnBlocks ==
    ASSUME NEW n \in Caches, NEW ls, Listed(n, ls)
    PROVE  \A q \in Chains : \A e \in Set(ls[q]) : e \in Blocks
PROOF
  BY ListFacts

LEMMA FindFacts ==
    ASSUME NEW n \in Caches, NEW ls, Listed(n, ls), NEW q \in Chains, NEW o
    PROVE  /\ Find(n, q, o) = CNULL => \A e \in Set(ls[q]) : n.op[e].name # o
           /\ Find(n, q, o) # CNULL => /\ Find(n, q, o) \in Set(ls[q])
                                       /\ n.op[Find(n, q, o)].name = o
PROOF
  <1> DEFINE s == ls[q]
             hits == {i \in DOMAIN s : n.op[s[i]].name = o}
             x == CHOOSE i \in hits : \A j \in hits : i <= j
  <1>1. /\ Len(s) \in Nat /\ DOMAIN s = 1..Len(s)
        /\ \A i \in DOMAIN s : s[i] \in Blocks /\ s[i] \in Set(s)
        /\ CNULL \notin Blocks
    BY ListFacts
  <1>2. Entries(n, q) = s
    BY EntriesAre
  <1>3. Find(n, q, o) = IF hits = {} THEN CNULL ELSE s[x]
    BY <1>2 DEF Find
  <1>4. hits = {} => \A e \in Set(s) : n.op[e].name # o
    BY DEF Set
  <1>5. hits # {} => x \in hits
    <2>1. hits \subseteq Nat
      BY <1>1
    <2> HIDE DEF hits
    <2>2. hits # {} => \E i \in hits : \A j \in hits : i <= j
      BY <2>1, Least
    <2> QED BY <2>2
  <1>6. hits # {} => s[x] \in Set(s) /\ s[x] # CNULL /\ n.op[s[x]].name = o
    <2> HIDE DEF x
    <2> QED BY <1>1, <1>5
  <1> HIDE DEF hits, x
  <1> QED BY <1>3, <1>4, <1>6

LEMMA FirstFacts ==
    ASSUME NEW n, NEW o
    PROVE  LET k == FirstOf(n, o, SearchOrder)
           IN /\ k = "none" => \A j \in Kinds : Find(n, <<Bucket(o), j>>, o) = CNULL
              /\ k # "none" => k \in Kinds /\ Find(n, <<Bucket(o), k>>, o) # CNULL
PROOF
  <1> DEFINE ks == SearchOrder
             F(j) == Find(n, <<Bucket(o), j>>, o)
             hits == {i \in DOMAIN ks : F(ks[i]) # CNULL}
             x == CHOOSE i \in hits : \A j \in hits : i <= j
  <1>1. /\ DOMAIN ks = 1..4
        /\ ks[1] = "active" /\ ks[2] = "mactive" /\ ks[3] = "old" /\ ks[4] = "mold"
    BY DEF SearchOrder
  <1>2. FirstOf(n, o, SearchOrder) = IF hits = {} THEN "none" ELSE ks[x]
    BY DEF FirstOf
  <1> HIDE DEF ks
  <1>3. \A i \in DOMAIN ks : ks[i] \in Kinds
    <2>1. \A i \in 1..4 : i = 1 \/ i = 2 \/ i = 3 \/ i = 4
      OBVIOUS
    <2> QED BY <2>1, <1>1 DEF Kinds
  <1>4. \A k \in Kinds : \E i \in DOMAIN ks : ks[i] = k
    <2>1. 1 \in 1..4 /\ 2 \in 1..4 /\ 3 \in 1..4 /\ 4 \in 1..4
      OBVIOUS
    <2> QED BY <2>1, <1>1 DEF Kinds
  <1>5. hits # {} => x \in hits
    <2>1. hits \subseteq Nat
      BY <1>1
    <2> HIDE DEF hits
    <2>2. hits # {} => \E i \in hits : \A j \in hits : i <= j
      BY <2>1, Least
    <2> QED BY <2>2
  <1>6. \A k \in Kinds : k # "none"
    BY DEF Kinds
  <1> HIDE DEF x, F
  <1>7. CASE hits = {}
    <2>1. \A k \in Kinds : F(k) = CNULL
      BY <1>4, <1>7
    <2> HIDE DEF hits
    <2> QED BY <1>2, <1>7, <2>1 DEF F
  <1>8. CASE hits # {}
    <2>1. ks[x] \in Kinds /\ F(ks[x]) # CNULL
      BY <1>3, <1>5, <1>8
    <2> HIDE DEF hits
    <2> QED BY <1>2, <1>6, <1>8, <2>1 DEF F
  <1> QED BY <1>7, <1>8

(* e is the entry of object o, on the chain k of its bucket.               *)
Holds(n, ls, o, k, e) ==
    /\ k \in Kinds /\ <<Bucket(o), k>> \in Chains
    /\ e \in Set(ls[<<Bucket(o), k>>]) /\ e \in Blocks
    /\ n.op[e].name = o /\ n.op[e] # NoOp
    /\ n.op[e].atrs \in Arrays
    /\ n.op[e] = [name |-> o, atrs |-> n.op[e].atrs]

Absent(n, ls, o) == \A q \in Chains : \A f \in Set(ls[q]) : n.op[f].name # o

Found(n, ls, o, k, e) ==
    /\ k = "none" => Absent(n, ls, o)
    /\ k # "none" => Holds(n, ls, o, k, e)

(* A search of the chains finds the object if it is on one.                *)
LEMMA SearchFacts ==
    ASSUME NEW n, NEW d, NEW ls, NEW own, Sound(n, d, ls, own), NEW o \in Objects
    PROVE  Found(n, ls, o, FirstOf(n, o, SearchOrder),
                 Find(n, <<Bucket(o), FirstOf(n, o, SearchOrder)>>, o))
PROOF
  <1> DEFINE k == FirstOf(n, o, SearchOrder)
             e == Find(n, <<Bucket(o), k>>, o)
  <1>1. n \in Caches /\ Listed(n, ls) /\ Contents(n, d, ls)
    BY DEF Sound
  <1>2. /\ k = "none" => \A j \in Kinds : Find(n, <<Bucket(o), j>>, o) = CNULL
        /\ k # "none" => k \in Kinds /\ e # CNULL
    BY FirstFacts
  <1>3. Bucket(o) \in Buckets /\ \A j \in Kinds : <<Bucket(o), j>> \in Chains
    BY ChainFacts
  <1> HIDE DEF k
  <1>4. ASSUME k = "none", NEW q \in Chains, NEW f \in Set(ls[q]), n.op[f].name = o
        PROVE  FALSE
    <2>1. f \in Blocks
      BY <1>1, OnBlocks
    <2>2. n.op[f] # NoOp
      BY <1>1, <1>4, <2>1, OpFacts
    <2>3. Bucket(o) = q[1]
      BY <1>1, <1>4, <2>2 DEF Contents
    <2>4. q[2] \in Kinds /\ q = <<Bucket(o), q[2]>>
      BY <2>3, ChainFacts
    <2>5. Find(n, q, o) = CNULL
      BY <1>2, <1>4, <2>4
    <2> QED BY <1>1, <1>4, <2>5, FindFacts
  <1>5. ASSUME k # "none"
        PROVE  /\ e \in Set(ls[<<Bucket(o), k>>]) /\ e \in Blocks
               /\ n.op[e].name = o /\ n.op[e] # NoOp /\ n.op[e].atrs \in Arrays
               /\ n.op[e] = [name |-> o, atrs |-> n.op[e].atrs]
    <2>1. <<Bucket(o), k>> \in Chains /\ e # CNULL
      BY <1>2, <1>3, <1>5
    <2>2. e \in Set(ls[<<Bucket(o), k>>]) /\ n.op[e].name = o
      BY <1>1, <2>1, FindFacts
    <2> HIDE DEF e
    <2>3. e \in Blocks
      BY <1>1, <2>1, <2>2, OnBlocks
    <2> QED BY <1>1, <2>2, <2>3, OpFacts
  <1> HIDE DEF e
  <1>6. Found(n, ls, o, k, e)
    BY <1>2, <1>3, <1>4, <1>5 DEF Found, Holds, Absent
  <1> QED BY <1>6 DEF k, e

(* The attributes of an object are those in its entry, or those on disk.   *)
LEMMA AttributesAre ==
    ASSUME NEW n, NEW d, NEW ls, NEW own, Sound(n, d, ls, own), NEW o \in Objects
    PROVE  /\ \A q \in Chains : \A e \in Set(ls[q]) :
                 n.op[e].name = o => Attributes(n, d, o) = n.op[e].atrs
           /\ Absent(n, ls, o) => Attributes(n, d, o) = d[o]
           /\ Attributes(n, d, o) \in Arrays
           /\ d[o] \in Arrays
PROOF
  <1> DEFINE k == FirstOf(n, o, SearchOrder)
             e == Find(n, <<Bucket(o), k>>, o)
  <1>1. n \in Caches /\ Listed(n, ls) /\ Contents(n, d, ls) /\ d \in Disks
    BY DEF Sound
  <1>2. /\ k = "none" => \A q \in Chains : \A f \in Set(ls[q]) : n.op[f].name # o
        /\ k # "none" => /\ <<Bucket(o), k>> \in Chains
                         /\ e \in Set(ls[<<Bucket(o), k>>])
                         /\ n.op[e].name = o /\ n.op[e] # NoOp /\ n.op[e].atrs \in Arrays
    <2>1. Found(n, ls, o, k, e)
      BY SearchFacts
    <2> HIDE DEF k, e
    <2> QED BY <2>1 DEF Found, Holds, Absent
  <1>3. Attributes(n, d, o) = IF k = "none" THEN d[o] ELSE n.op[e].atrs
    BY DEF Attributes
  <1>4. d[o] \in Arrays
    BY <1>1 DEF Disks
  <1> HIDE DEF k, e
  <1>5. ASSUME NEW q \in Chains, NEW f \in Set(ls[q]), n.op[f].name = o
        PROVE  Attributes(n, d, o) = n.op[f].atrs
    <2>1. k # "none"
      BY <1>2, <1>5
    <2>2. e = f
      <3>1. n.op[e].name = n.op[f].name
        BY <1>2, <1>5, <2>1
      <3> QED BY <3>1, <1>1, <1>2, <2>1, <1>5 DEF Contents
    <2> QED BY <1>3, <2>1, <2>2
  <1> QED BY <1>2, <1>3, <1>4, <1>5 DEF Absent

LEMMA AttributesIn ==
    ASSUME NEW n, NEW d, NEW ls, NEW own, Sound(n, d, ls, own), NEW q \in Chains,
           NEW e \in Set(ls[q]), NEW o \in Objects, n.op[e].name = o
    PROVE  Attributes(n, d, o) = n.op[e].atrs
PROOF
  BY AttributesAre

(* In m entry e has object o with attributes a.                            *)
Loaded(n, m, e, o, a) ==
    /\ m.op = [n.op EXCEPT ![e] = [name |-> o, atrs |-> a]]
    /\ m.count = n.count /\ m.used = n.used

(* In lt entry e is on chain r, and on no other.                           *)
Placed(ls, lt, r, e) ==
    \A p \in Chains : Set(lt[p]) = IF p = r THEN Set(ls[p]) \cup {e} ELSE Set(ls[p]) \ {e}

(* Object o has the attributes a, and the others have what they had.       *)
Changed(n, d, m, o, a) ==
    \A x \in Objects : Attributes(m, d, x) = IF x = o THEN a ELSE Attributes(n, d, x)

(* Entry e of object o moves to chain r of its bucket and gets the         *)
(* attributes a.                                                           *)
LEMMA MovedSound ==
    ASSUME NEW n, NEW d, NEW ls, NEW own, Sound(n, d, ls, own),
           NEW q \in Chains, NEW r \in Chains, r[1] = q[1],
           NEW e \in Set(ls[q]), n.op[e] # NoOp, NEW a \in Arrays,
           r[2] \in {"active", "old"} => a = d[n.op[e].name],
           NEW m \in Caches, NEW lt, Listed(m, lt),
           Loaded(n, m, e, n.op[e].name, a), Placed(ls, lt, r, e)
    PROVE  Sound(m, d, lt, own) /\ Changed(n, d, m, n.op[e].name, a)
PROOF
  <1>0. /\ m.op = [n.op EXCEPT ![e] = [name |-> n.op[e].name, atrs |-> a]]
        /\ m.count = n.count /\ m.used = n.used
        /\ \A p \in Chains :
              Set(lt[p]) = IF p = r THEN Set(ls[p]) \cup {e} ELSE Set(ls[p]) \ {e}
    BY DEF Loaded, Placed
  <1> USE <1>0
  <1> DEFINE w == n.op[e].name
  <1>1. n \in Caches /\ d \in Disks /\ Listed(n, ls) /\ Contents(n, d, ls) /\ Counted(n, ls, own)
    BY DEF Sound
  <1>2. /\ \A p \in Chains : \A f \in Set(ls[p]) : f \in Blocks
        /\ e \in Blocks /\ w \in Objects /\ n.op \in [Blocks -> Ops]
    BY <1>1, OnBlocks, OpFacts, CacheFacts
  <1>3. /\ m.op[e].name = w /\ m.op[e].atrs = a /\ m.op[e] # NoOp
        /\ \A f \in Blocks : f # e => m.op[f] = n.op[f]
        /\ \A f \in Blocks : m.op[f].name = n.op[f].name
    <2>1. w # CNULL
      BY <1>2, ChainFacts
    <2>2. m.op[e] = [name |-> w, atrs |-> a]
      BY <1>2
    <2>3. m.op[e] # NoOp
      BY <2>1, <2>2 DEF NoOp
    <2>4. \A f \in Blocks : f # e => m.op[f] = n.op[f]
      BY <1>2
    <2> QED BY <2>2, <2>3, <2>4
  <1>4. \A p \in Chains : \A f \in Set(lt[p]) : (f = e /\ p = r) \/ (f # e /\ f \in Set(ls[p]))
    <2>1. \A p \in Chains : p # q => e \notin Set(ls[p])
      BY <1>1, OnOne
    <2> QED BY <2>1, SMTT(40), ZenonT(40)
  <1>5. Contents(m, d, lt)
    <2>1. ASSUME NEW p \in Chains, NEW f \in Set(lt[p])
          PROVE  /\ f \in m.used
                 /\ m.op[f] = NoOp => p[2] = "old"
                 /\ m.op[f] # NoOp => Bucket(m.op[f].name) = p[1]
                 /\ p[2] \in {"active", "old"} /\ m.op[f] # NoOp
                       => m.op[f].atrs = d[m.op[f].name]
      <3>1. CASE f = e /\ p = r
        <4>1. e \in n.used /\ Bucket(w) = r[1]
          BY <1>1 DEF Contents
        <4> QED BY <3>1, <4>1, <1>3
      <3>2. CASE f # e /\ f \in Set(ls[p])
        <4>1. m.op[f] = n.op[f]
          BY <1>2, <1>3, <3>2
        <4> QED BY <3>2, <4>1, <1>1 DEF Contents
      <3> QED BY <3>1, <3>2, <1>4
    <2>2. ASSUME NEW p \in Chains, NEW t \in Chains, NEW f \in Set(lt[p]), NEW g \in Set(lt[t]),
                 m.op[f] # NoOp, m.op[f].name = m.op[g].name
          PROVE  f = g
      <3>1. /\ \E x \in Chains : f \in Set(ls[x])
            /\ \E x \in Chains : g \in Set(ls[x])
        BY <1>4
      <3>2. n.op[f].name = n.op[g].name /\ n.op[f] # NoOp
        BY <1>2, <1>3, <2>2, <3>1
      <3> QED BY <3>1, <3>2, <1>1 DEF Contents
    <2> QED BY <2>1, <2>2 DEF Contents
  <1>6. Counted(m, lt, own)
    <2>1. \A p \in Chains : \A f \in Set(lt[p]) : own[f] = p[1]
      BY <1>1, <1>4 DEF Counted
    <2> QED BY <2>1, <1>1 DEF Counted
  <1>7. Sound(m, d, lt, own)
    BY <1>1, <1>5, <1>6 DEF Sound
  <1>8. ASSUME NEW o \in Objects
        PROVE  Attributes(m, d, o) = IF o = w THEN a ELSE Attributes(n, d, o)
    <2>1. CASE o = w
      <3>1. e \in Set(lt[r])
        OBVIOUS
      <3>2. m.op[e].name = o
        BY <2>1, <1>3
      <3>3. Attributes(m, d, o) = m.op[e].atrs
        BY ONLY <3>1, <3>2, <1>7, AttributesIn, r \in Chains, o \in Objects
      <3> QED BY <2>1, <3>3, <1>3
    <2>2. CASE o # w
      <3>1. CASE Absent(n, ls, o)
        <4>1. Absent(m, lt, o)
          BY <1>2, <1>3, <1>4, <2>2, <3>1 DEF Absent
        <4>2. Attributes(n, d, o) = d[o]
          BY <3>1, AttributesAre
        <4>3. Attributes(m, d, o) = d[o]
          BY <4>1, <1>7, AttributesAre
        <4> QED BY <2>2, <4>2, <4>3
      <3>2. CASE ~Absent(n, ls, o)
        <4>1. PICK p \in Chains : \E f \in Set(ls[p]) : n.op[f].name = o
          BY <3>2 DEF Absent
        <4>2. PICK f \in Set(ls[p]) : n.op[f].name = o
          BY <4>1
        <4>3. f # e /\ f \in Set(lt[p]) /\ m.op[f] = n.op[f]
          BY <1>2, <1>3, <2>2, <4>2
        <4>4. Attributes(n, d, o) = n.op[f].atrs
          BY <4>2, AttributesAre
        <4>5. Attributes(m, d, o) = m.op[f].atrs
          <5>1. m.op[f].name = o /\ f \in Set(lt[p]) /\ p \in Chains
            BY <4>2, <4>3
          <5> QED BY ONLY <5>1, <1>7, AttributesIn, o \in Objects
        <4> QED BY <2>2, <4>3, <4>4, <4>5
      <3> QED BY <3>1, <3>2
    <2> QED BY <2>1, <2>2
  <1> QED BY <1>7, <1>8 DEF Changed

(* An entry that was on no chain gets object o, that was on none either.   *)
LEMMA FilledSound ==
    ASSUME NEW n, NEW d, NEW ls, NEW own, Sound(n, d, ls, own),
           NEW q \in Chains, q[2] \in {"active", "mactive"},
           NEW e \in n.used, own[e] = q[1], \A p \in Chains : e \notin Set(ls[p]),
           NEW o \in Objects, Absent(n, ls, o), Bucket(o) = q[1], NEW a \in Arrays,
           q[2] = "active" => a = d[o],
           NEW m \in Caches, NEW lt, Listed(m, lt),
           Loaded(n, m, e, o, a), Placed(ls, lt, q, e)
    PROVE  Sound(m, d, lt, own) /\ Changed(n, d, m, o, a)
PROOF
  <1>0. /\ m.op = [n.op EXCEPT ![e] = [name |-> o, atrs |-> a]]
        /\ m.count = n.count /\ m.used = n.used
        /\ \A p \in Chains : Set(lt[p]) = IF p = q THEN Set(ls[p]) \cup {e} ELSE Set(ls[p])
    BY SMTT(40), ZenonT(40) DEF Loaded, Placed
  <1> USE <1>0
  <1>1. n \in Caches /\ d \in Disks /\ Listed(n, ls) /\ Contents(n, d, ls) /\ Counted(n, ls, own)
    BY DEF Sound
  <1>2. /\ \A p \in Chains : \A f \in Set(ls[p]) : f \in Blocks
        /\ e \in Blocks /\ n.op \in [Blocks -> Ops]
    BY <1>1, OnBlocks, CacheFacts
  <1>3. /\ m.op[e].name = o /\ m.op[e].atrs = a /\ m.op[e] # NoOp
        /\ \A f \in Blocks : f # e => m.op[f] = n.op[f]
    <2>1. o # CNULL
      BY ChainFacts
    <2>2. m.op[e] = [name |-> o, atrs |-> a]
      BY <1>2
    <2>3. m.op[e] # NoOp
      BY <2>1, <2>2 DEF NoOp
    <2>4. \A f \in Blocks : f # e => m.op[f] = n.op[f]
      BY <1>2
    <2> QED BY <2>2, <2>3, <2>4
  <1>4. \A p \in Chains : \A f \in Set(lt[p]) : (f = e /\ p = q) \/ (f # e /\ f \in Set(ls[p]))
    OBVIOUS
  <1>5. Contents(m, d, lt)
    <2>1. ASSUME NEW p \in Chains, NEW f \in Set(lt[p])
          PROVE  /\ f \in m.used
                 /\ m.op[f] = NoOp => p[2] = "old"
                 /\ m.op[f] # NoOp => Bucket(m.op[f].name) = p[1]
                 /\ p[2] \in {"active", "old"} /\ m.op[f] # NoOp
                       => m.op[f].atrs = d[m.op[f].name]
      <3>1. CASE f = e /\ p = q
        BY <3>1, <1>3
      <3>2. CASE f # e /\ f \in Set(ls[p])
        <4>1. m.op[f] = n.op[f]
          BY <1>2, <1>3, <3>2
        <4> QED BY <3>2, <4>1, <1>1 DEF Contents
      <3> QED BY <3>1, <3>2, <1>4
    <2>2. ASSUME NEW p \in Chains, NEW t \in Chains, NEW f \in Set(lt[p]), NEW g \in Set(lt[t]),
                 m.op[f] # NoOp, m.op[f].name = m.op[g].name
          PROVE  f = g
      <3>1. CASE f = e /\ g = e
        BY <3>1
      <3>2. CASE f = e /\ g # e
        <4>1. g \in Set(ls[t]) /\ m.op[g] = n.op[g]
          BY <3>2, <1>2, <1>3, <1>4
        <4> QED BY <3>2, <4>1, <2>2, <1>3 DEF Absent
      <3>3. CASE f # e /\ g = e
        <4>1. f \in Set(ls[p]) /\ m.op[f] = n.op[f]
          BY <3>3, <1>2, <1>3, <1>4
        <4> QED BY <3>3, <4>1, <2>2, <1>3 DEF Absent
      <3>4. CASE f # e /\ g # e
        <4>1. f \in Set(ls[p]) /\ m.op[f] = n.op[f] /\ g \in Set(ls[t]) /\ m.op[g] = n.op[g]
          BY <3>4, <1>2, <1>3, <1>4
        <4> QED BY <4>1, <2>2, <1>1 DEF Contents
      <3> QED BY <3>1, <3>2, <3>3, <3>4
    <2> QED BY <2>1, <2>2 DEF Contents
  <1>6. Counted(m, lt, own)
    <2>1. \A p \in Chains : \A f \in Set(lt[p]) : own[f] = p[1]
      BY <1>1, <1>4 DEF Counted
    <2> QED BY <2>1, <1>1 DEF Counted
  <1>7. Sound(m, d, lt, own)
    BY <1>1, <1>5, <1>6 DEF Sound
  <1>8. ASSUME NEW x \in Objects
        PROVE  Attributes(m, d, x) = IF x = o THEN a ELSE Attributes(n, d, x)
    <2>1. CASE x = o
      <3>1. e \in Set(lt[q])
        OBVIOUS
      <3>2. m.op[e].name = x
        BY <2>1, <1>3
      <3>3. Attributes(m, d, x) = m.op[e].atrs
        BY ONLY <3>1, <3>2, <1>7, AttributesIn, q \in Chains, x \in Objects
      <3> QED BY <2>1, <3>3, <1>3
    <2>2. CASE x # o
      <3>1. CASE Absent(n, ls, x)
        <4>1. Absent(m, lt, x)
          BY <1>2, <1>3, <1>4, <2>2, <3>1 DEF Absent
        <4>2. Attributes(n, d, x) = d[x]
          BY <3>1, AttributesAre
        <4>3. Attributes(m, d, x) = d[x]
          BY <4>1, <1>7, AttributesAre
        <4> QED BY <2>2, <4>2, <4>3
      <3>2. CASE ~Absent(n, ls, x)
        <4>1. PICK p \in Chains : \E f \in Set(ls[p]) : n.op[f].name = x
          BY <3>2 DEF Absent
        <4>2. PICK f \in Set(ls[p]) : n.op[f].name = x
          BY <4>1
        <4>3. f # e /\ f \in Set(lt[p]) /\ m.op[f] = n.op[f]
          BY <1>2, <1>3, <2>2, <4>2
        <4>4. Attributes(n, d, x) = n.op[f].atrs
          BY <4>2, AttributesAre
        <4>5. Attributes(m, d, x) = m.op[f].atrs
          <5>1. m.op[f].name = x /\ f \in Set(lt[p]) /\ p \in Chains
            BY <4>2, <4>3
          <5> QED BY ONLY <5>1, <1>7, AttributesIn, x \in Objects
        <4> QED BY <2>2, <4>3, <4>4, <4>5
      <3> QED BY <3>1, <3>2
    <2> QED BY <2>1, <2>2
  <1> QED BY <1>7, <1>8 DEF Changed

(* The chains of a bucket change, and nothing in the entries on them.      *)
LEMMA MergedSound ==
    ASSUME NEW n, NEW d, NEW ls, NEW own, Sound(n, d, ls, own),
           NEW from \in Chains, NEW to \in Chains, from # to, from[1] = to[1],
           NEW m \in Caches, NEW lt, Listed(m, lt),
           m.op = n.op, m.count = n.count, m.used = n.used,
           Set(lt[to]) = Set(ls[from]) \cup Set(ls[to]), Set(lt[from]) = {},
           \A p \in Chains : p # from /\ p # to => lt[p] = ls[p],
           \A e \in Set(ls[from]) :
              /\ n.op[e] = NoOp => to[2] = "old"
              /\ to[2] \in {"active", "old"} /\ n.op[e] # NoOp
                    => n.op[e].atrs = d[n.op[e].name]
    PROVE  Sound(m, d, lt, own) /\ Kept(n, d, m, d)
PROOF
  <1>1. n \in Caches /\ d \in Disks /\ Listed(n, ls) /\ Contents(n, d, ls) /\ Counted(n, ls, own)
    BY DEF Sound
  <1>2. \A p \in Chains : \A f \in Set(lt[p]) :
           f \in Set(ls[p]) \/ (p = to /\ f \in Set(ls[from]))
    OBVIOUS
  <1>3. \A p \in Chains : \A f \in Set(ls[p]) :
           f \in Set(lt[IF p = from THEN to ELSE p])
    OBVIOUS
  <1>4. Contents(m, d, lt)
    <2>1. ASSUME NEW p \in Chains, NEW f \in Set(lt[p])
          PROVE  /\ f \in m.used
                 /\ m.op[f] = NoOp => p[2] = "old"
                 /\ m.op[f] # NoOp => Bucket(m.op[f].name) = p[1]
                 /\ p[2] \in {"active", "old"} /\ m.op[f] # NoOp
                       => m.op[f].atrs = d[m.op[f].name]
      <3>1. CASE f \in Set(ls[p])
        BY <3>1, <1>1 DEF Contents
      <3>2. CASE p = to /\ f \in Set(ls[from])
        BY <3>2, <1>1 DEF Contents
      <3> QED BY <3>1, <3>2, <1>2
    <2>2. ASSUME NEW p \in Chains, NEW t \in Chains, NEW f \in Set(lt[p]), NEW g \in Set(lt[t]),
                 m.op[f] # NoOp, m.op[f].name = m.op[g].name
          PROVE  f = g
      <3>1. /\ \E x \in Chains : f \in Set(ls[x])
            /\ \E x \in Chains : g \in Set(ls[x])
        BY <1>2
      <3> QED BY <3>1, <2>2, <1>1 DEF Contents
    <2> QED BY <2>1, <2>2 DEF Contents
  <1>5. Counted(m, lt, own)
    <2>1. \A p \in Chains : \A f \in Set(lt[p]) : own[f] = p[1]
      BY <1>1, <1>2 DEF Counted
    <2> QED BY <2>1, <1>1 DEF Counted
  <1>6. Sound(m, d, lt, own)
    BY <1>1, <1>4, <1>5 DEF Sound
  <1>7. ASSUME NEW x \in Objects
        PROVE  Attributes(m, d, x) = Attributes(n, d, x)
    <2>1. CASE Absent(n, ls, x)
      <3>1. Absent(m, lt, x)
        BY <1>2, <2>1 DEF Absent
      <3>2. Attributes(n, d, x) = d[x]
        BY <2>1, AttributesAre
      <3>3. Attributes(m, d, x) = d[x]
        BY <3>1, <1>6, AttributesAre
      <3> QED BY <3>2, <3>3
    <2>2. CASE ~Absent(n, ls, x)
      <3>1. PICK p \in Chains : \E f \in Set(ls[p]) : n.op[f].name = x
        BY <2>2 DEF Absent
      <3>2. PICK f \in Set(ls[p]) : n.op[f].name = x
        BY <3>1
      <3>3. PICK t \in Chains : f \in Set(lt[t])
        BY <1>3, <3>2
      <3>4. Attributes(n, d, x) = n.op[f].atrs
        BY <3>2, AttributesAre
      <3>5. Attributes(m, d, x) = m.op[f].atrs
        BY <3>2, <3>3, <1>6, AttributesAre
      <3> QED BY <3>4, <3>5
    <2> QED BY <2>1, <2>2
  <1> QED BY <1>6, <1>7 DEF Kept

(* Of object o the disk gets what is cached.                               *)
LEMMA WrittenSound ==
    ASSUME NEW n, NEW d, NEW ls, NEW own, Sound(n, d, ls, own),
           NEW q \in Chains, NEW e \in Set(ls[q]), n.op[e] # NoOp
    PROVE  /\ Sound(n, Written(d, n.op[e]), ls, own)
           /\ Kept(n, d, n, Written(d, n.op[e]))
           /\ Written(d, n.op[e])[n.op[e].name] = n.op[e].atrs
           /\ \A x \in Objects : x # n.op[e].name => Written(d, n.op[e])[x] = d[x]
PROOF
  <1> DEFINE c == Written(d, n.op[e])
             w == n.op[e].name
  <1>1. n \in Caches /\ d \in Disks /\ Listed(n, ls) /\ Contents(n, d, ls) /\ Counted(n, ls, own)
    BY DEF Sound
  <1>2. /\ \A p \in Chains : \A f \in Set(ls[p]) : f \in Blocks
        /\ e \in Blocks /\ w \in Objects /\ n.op[e].atrs \in Arrays
    BY <1>1, OnBlocks, OpFacts
  <1>3. /\ c \in Disks /\ c[w] = n.op[e].atrs /\ \A x \in Objects : x # w => c[x] = d[x]
    BY <1>1, <1>2 DEF Written, Disks
  <1> HIDE DEF c
  <1>4. Contents(n, c, ls)
    <2>1. ASSUME NEW p \in Chains, NEW f \in Set(ls[p]), p[2] \in {"active", "old"}, n.op[f] # NoOp
          PROVE  n.op[f].atrs = c[n.op[f].name]
      <3>1. CASE n.op[f].name = w
        <4>1. f = e
          BY <3>1, <2>1, <1>1 DEF Contents
        <4> QED BY <4>1, <1>3
      <3>2. CASE n.op[f].name # w
        <4>1. n.op[f].name \in Objects
          BY <1>1, <1>2, <2>1, OpFacts
        <4> QED BY <3>2, <4>1, <2>1, <1>1, <1>3 DEF Contents
      <3> QED BY <3>1, <3>2
    <2> QED BY <2>1, <1>1 DEF Contents
  <1>5. Sound(n, c, ls, own)
    BY <1>1, <1>3, <1>4 DEF Sound
  <1>6. ASSUME NEW x \in Objects
        PROVE  /\ Attributes(n, c, x) = Attributes(n, d, x)
               /\ c[x] = d[x] \/ c[x] = Attributes(n, d, x)
    <2>1. CASE Absent(n, ls, x)
      <3>1. x # w
        BY <2>1 DEF Absent
      <3>2. Attributes(n, d, x) = d[x]
        BY <2>1, AttributesAre
      <3>3. Attributes(n, c, x) = c[x]
        BY <2>1, <1>5, AttributesAre
      <3> QED BY <3>1, <3>2, <3>3, <1>3
    <2>2. CASE ~Absent(n, ls, x)
      <3>1. PICK p \in Chains : \E f \in Set(ls[p]) : n.op[f].name = x
        BY <2>2 DEF Absent
      <3>2. PICK f \in Set(ls[p]) : n.op[f].name = x
        BY <3>1
      <3>3. Attributes(n, d, x) = n.op[f].atrs
        BY <3>2, AttributesAre
      <3>4. Attributes(n, c, x) = n.op[f].atrs
        BY ONLY <1>5, <3>2, AttributesIn, p \in Chains, x \in Objects
      <3>5. x = w => f = e
        BY <3>2, <1>1 DEF Contents
      <3> QED BY <3>3, <3>4, <3>5, <1>3
    <2> QED BY <2>1, <2>2
  <1> QED BY <1>3, <1>5, <1>6 DEF Kept, c

(* An entry that is taken off its chain loses its object; the disk keeps   *)
(* it, or what it has of it.                                               *)
LEMMA TakenSound ==
    ASSUME NEW n, NEW d, NEW ls, NEW own, Sound(n, d, ls, own),
           NEW q \in Chains, NEW e \in Set(ls[q]),
           NEW m, NEW lt, Taken(n, m, e, lt),
           \A p \in Chains : Set(lt[p]) = Set(ls[p]) \ {e}
    PROVE  /\ Sound(m, d, lt, own)
           /\ e \in m.used /\ own[e] = q[1] /\ \A p \in Chains : e \notin Set(lt[p])
           /\ \A x \in Objects : Absent(n, ls, x) => Absent(m, lt, x)
           /\ \A x \in Objects :
                 Attributes(m, d, x) = IF x = n.op[e].name THEN d[x] ELSE Attributes(n, d, x)
PROOF
  <1>1. n \in Caches /\ d \in Disks /\ Listed(n, ls) /\ Contents(n, d, ls) /\ Counted(n, ls, own)
    BY DEF Sound
  <1>2. /\ \A p \in Chains : \A f \in Set(ls[p]) : f \in Blocks
        /\ e \in Blocks /\ n.op \in [Blocks -> Ops]
    BY <1>1, OnBlocks, CacheFacts
  <1>3. /\ m \in Caches /\ m.count = n.count /\ m.used = n.used /\ Listed(m, lt)
        /\ m.op[e] = NoOp /\ \A f \in Blocks : f # e => m.op[f] = n.op[f]
    BY <1>2 DEF Taken
  <1>4. \A p \in Chains : \A f \in Set(lt[p]) : f # e /\ f \in Set(ls[p]) /\ m.op[f] = n.op[f]
    BY <1>2, <1>3
  <1>5. Contents(m, d, lt)
    <2>1. ASSUME NEW p \in Chains, NEW f \in Set(lt[p])
          PROVE  /\ f \in m.used
                 /\ m.op[f] = NoOp => p[2] = "old"
                 /\ m.op[f] # NoOp => Bucket(m.op[f].name) = p[1]
                 /\ p[2] \in {"active", "old"} /\ m.op[f] # NoOp
                       => m.op[f].atrs = d[m.op[f].name]
      BY <1>1, <1>3, <1>4 DEF Contents
    <2>2. ASSUME NEW p \in Chains, NEW t \in Chains, NEW f \in Set(lt[p]), NEW g \in Set(lt[t]),
                 m.op[f] # NoOp, m.op[f].name = m.op[g].name
          PROVE  f = g
      BY <2>2, <1>1, <1>4 DEF Contents
    <2> QED BY <2>1, <2>2 DEF Contents
  <1>6. Counted(m, lt, own)
    <2>1. \A p \in Chains : \A f \in Set(lt[p]) : own[f] = p[1]
      BY <1>1, <1>4 DEF Counted
    <2> QED BY <2>1, <1>1, <1>3 DEF Counted
  <1>7. Sound(m, d, lt, own)
    BY <1>1, <1>3, <1>5, <1>6 DEF Sound
  <1>8. e \in m.used /\ own[e] = q[1]
    BY <1>1, <1>3 DEF Contents, Counted
  <1>9. \A x \in Objects : Absent(n, ls, x) => Absent(m, lt, x)
    BY <1>4 DEF Absent
  <1>10. ASSUME NEW x \in Objects
         PROVE  Attributes(m, d, x) = IF x = n.op[e].name THEN d[x] ELSE Attributes(n, d, x)
    <2>1. CASE x = n.op[e].name
      <3>1. Absent(m, lt, x)
        <4>1. n.op[e] # NoOp
          BY <2>1, <1>1, <1>2, OpFacts
        <4> QED BY <2>1, <4>1, <1>1, <1>4 DEF Absent, Contents
      <3> QED BY <2>1, <3>1, <1>7, AttributesAre
    <2>2. CASE x # n.op[e].name
      <3>1. CASE Absent(n, ls, x)
        <4>1. Attributes(n, d, x) = d[x]
          BY <3>1, AttributesAre
        <4>2. Attributes(m, d, x) = d[x]
          BY <3>1, <1>7, <1>9, AttributesAre
        <4> QED BY <2>2, <4>1, <4>2
      <3>2. CASE ~Absent(n, ls, x)
        <4>1. PICK p \in Chains : \E f \in Set(ls[p]) : n.op[f].name = x
          BY <3>2 DEF Absent
        <4>2. PICK f \in Set(ls[p]) : n.op[f].name = x
          BY <4>1
        <4>3. f # e /\ f \in Set(lt[p]) /\ m.op[f] = n.op[f] /\ m.op[f].name = x
          BY <1>2, <1>3, <2>2, <4>2
        <4>4. Attributes(n, d, x) = n.op[f].atrs
          BY <4>2, AttributesAre
        <4>5. Attributes(m, d, x) = m.op[f].atrs
          BY ONLY <4>3, <1>7, AttributesIn, p \in Chains, x \in Objects
        <4> QED BY <2>2, <4>3, <4>4, <4>5
      <3> QED BY <3>1, <3>2
    <2> QED BY <2>1, <2>2
  <1> QED BY <1>4, <1>7, <1>8, <1>9, <1>10

(* Two caches that agree but in which entries are in use answer the same.  *)
LEMMA SameAnswers ==
    ASSUME NEW n, NEW d, NEW ls, NEW own, Sound(n, d, ls, own),
           NEW m, NEW ow, Sound(m, d, ls, ow), m.op = n.op
    PROVE  Kept(n, d, m, d)
PROOF
  <1>1. ASSUME NEW x \in Objects
        PROVE  Attributes(m, d, x) = Attributes(n, d, x)
    <2>1. CASE Absent(n, ls, x)
      <3>1. Absent(m, ls, x)
        BY <2>1 DEF Absent
      <3>2. Attributes(n, d, x) = d[x]
        BY <2>1, AttributesAre
      <3>3. Attributes(m, d, x) = d[x]
        BY ONLY Sound(m, d, ls, ow), <3>1, x \in Objects, AttributesAre
      <3> QED BY <3>2, <3>3
    <2>2. CASE ~Absent(n, ls, x)
      <3>1. PICK p \in Chains : \E f \in Set(ls[p]) : n.op[f].name = x
        BY <2>2 DEF Absent
      <3>2. PICK f \in Set(ls[p]) : n.op[f].name = x
        BY <3>1
      <3>3. Attributes(n, d, x) = n.op[f].atrs
        BY <3>2, AttributesAre
      <3>4. m.op[f].name = x
        BY <3>2
      <3>5. Attributes(m, d, x) = m.op[f].atrs
        BY ONLY <3>2, <3>4, Sound(m, d, ls, ow), AttributesIn, p \in Chains, x \in Objects
      <3> QED BY <3>3, <3>5
    <2> QED BY <2>1, <2>2
  <1> QED BY <1>1 DEF Kept

(* Links and chains do not depend on which entries are in use.             *)
LEMMA ListedSame ==
    ASSUME NEW n, NEW m, NEW ls, Listed(n, ls),
           m.nxt = n.nxt, m.prv = n.prv, m.head = n.head, m.tail = n.tail
    PROVE  Listed(m, ls)
PROOF
  BY DEF Listed, ChainAt

Grown(n, b, e) == [n EXCEPT !.used = @ \cup {e}, !.count[b] = @ + 1]
Shrunk(n, b, e) == [n EXCEPT !.count[b] = @ - 1, !.used = @ \ {e}]
Given(own, b, e) == [own EXCEPT ![e] = b]

(* A new entry is counted in its bucket.                                   *)
LEMMA FreshSound ==
    ASSUME NEW n, NEW d, NEW ls, NEW own, Sound(n, d, ls, own),
           NEW b \in Buckets, NEW e \in Blocks \ n.used
    PROVE  /\ Sound(Grown(n, b, e), d, ls, Given(own, b, e))
           /\ Kept(n, d, Grown(n, b, e), d)
           /\ e \in Grown(n, b, e).used /\ Given(own, b, e)[e] = b
           /\ \A p \in Chains : e \notin Set(ls[p])
           /\ Grown(n, b, e).op = n.op
PROOF
  <1> DEFINE m == [n EXCEPT !.used = @ \cup {e}, !.count[b] = @ + 1]
             ow == [own EXCEPT ![e] = b]
             U == n.used \cup {e}
             K == [n.count EXCEPT ![b] = n.count[b] + 1]
             In(x) == {f \in n.used : own[f] = x}
             Im(x) == {f \in U : ow[f] = x}
  <1>1. n \in Caches /\ d \in Disks /\ Listed(n, ls) /\ Contents(n, d, ls) /\ Counted(n, ls, own)
    BY DEF Sound
  <1>2. /\ n.nxt \in [Blocks -> Ptr] /\ n.prv \in [Blocks -> Ptr]
        /\ n.head \in [Chains -> Ptr] /\ n.tail \in [Chains -> Ptr]
        /\ n.op \in [Blocks -> Ops] /\ n.count \in [Buckets -> Nat] /\ n.used \in SUBSET Blocks
    BY <1>1, CacheFacts
  <1>3. U \in SUBSET Blocks /\ K \in [Buckets -> Nat]
    BY <1>2
  <1>4. m = [n EXCEPT !.used = U, !.count = K]
    BY <1>1, <1>2 DEF Caches
  <1>5. /\ own \in [Blocks -> Buckets] /\ ow \in [Blocks -> Buckets] /\ ow[e] = b
        /\ \A f \in Blocks : f # e => ow[f] = own[f]
    BY <1>1 DEF Counted
  <1>6. \A x \in Buckets : K[x] = IF x = b THEN n.count[x] + 1 ELSE n.count[x]
    BY <1>2
  <1>7. \A x \in Buckets : Im(x) = IF x = b THEN In(x) \cup {e} ELSE In(x)
    BY <1>2, <1>5
  <1>8. \A x \in Buckets : n.count[x] = Cardinality(In(x))
    BY <1>1 DEF Counted
  <1>9. \A x \in Buckets : IsFiniteSet(In(x)) /\ e \notin In(x)
    <2>1. \A x \in Buckets : In(x) \in SUBSET Blocks /\ e \notin In(x)
      BY <1>2
    <2> HIDE DEF In
    <2> QED BY <2>1, SizesAssumption, FS_Subset
  <1> HIDE DEF In, Im, U, K, m, ow
  <1>10. \A x \in Buckets : K[x] = Cardinality(Im(x))
    <2>1. \A x \in Buckets : Cardinality(In(x) \cup {e}) = Cardinality(In(x)) + 1
      BY <1>9, FS_AddElement
    <2> QED BY <2>1, <1>6, <1>7, <1>8
  <1>11. /\ m \in Caches /\ m.used = U /\ m.count = K /\ m.op = n.op
         /\ m.nxt = n.nxt /\ m.prv = n.prv /\ m.head = n.head /\ m.tail = n.tail
    BY <1>1, <1>2, <1>3, <1>4 DEF Caches
  <1>12. Listed(m, ls)
    BY <1>1, <1>11, ListedSame
  <1>13. \A p \in Chains : \A f \in Set(ls[p]) : f \in n.used /\ f # e /\ f \in Blocks
    BY <1>1, <1>2 DEF Contents
  <1>14. Contents(m, d, ls)
    BY <1>1, <1>11, <1>13 DEF Contents, U
  <1>15. Counted(m, ls, ow)
    <2>1. \A p \in Chains : \A f \in Set(ls[p]) : ow[f] = p[1]
      BY <1>1, <1>5, <1>13 DEF Counted
    <2>2. \A x \in Buckets : m.count[x] = Cardinality({f \in m.used : ow[f] = x})
      BY <1>10, <1>11 DEF Im
    <2> QED BY <2>1, <2>2, <1>5 DEF Counted
  <1>16. Sound(m, d, ls, ow)
    BY <1>1, <1>11, <1>12, <1>14, <1>15 DEF Sound
  <1>17. Kept(n, d, m, d)
    BY <1>11, <1>16, SameAnswers
  <1>18. e \in m.used
    BY <1>11 DEF U
  <1>19. m = Grown(n, b, e) /\ ow = Given(own, b, e)
    BY DEF m, ow, Grown, Given
  <1> QED BY <1>5, <1>11, <1>13, <1>16, <1>17, <1>18, <1>19

(* An entry on no chain is freed.                                          *)
LEMMA DroppedSound ==
    ASSUME NEW n, NEW d, NEW ls, NEW own, Sound(n, d, ls, own),
           NEW b \in Buckets, NEW e \in n.used, own[e] = b, \A p \in Chains : e \notin Set(ls[p])
    PROVE  /\ Sound(Shrunk(n, b, e), d, ls, own)
           /\ Kept(n, d, Shrunk(n, b, e), d)
PROOF
  <1> DEFINE m == [n EXCEPT !.count[b] = @ - 1, !.used = @ \ {e}]
             U == n.used \ {e}
             K == [n.count EXCEPT ![b] = n.count[b] - 1]
             In(x) == {f \in n.used : own[f] = x}
             Im(x) == {f \in U : own[f] = x}
  <1>1. n \in Caches /\ d \in Disks /\ Listed(n, ls) /\ Contents(n, d, ls) /\ Counted(n, ls, own)
    BY DEF Sound
  <1>2. /\ n.nxt \in [Blocks -> Ptr] /\ n.prv \in [Blocks -> Ptr]
        /\ n.head \in [Chains -> Ptr] /\ n.tail \in [Chains -> Ptr]
        /\ n.op \in [Blocks -> Ops] /\ n.count \in [Buckets -> Nat] /\ n.used \in SUBSET Blocks
    BY <1>1, CacheFacts
  <1>3. \A x \in Buckets : Im(x) = IF x = b THEN In(x) \ {e} ELSE In(x)
    BY <1>2
  <1>4. \A x \in Buckets : n.count[x] = Cardinality(In(x))
    BY <1>1 DEF Counted
  <1>5. \A x \in Buckets : IsFiniteSet(In(x))
    <2>1. \A x \in Buckets : In(x) \in SUBSET Blocks
      BY <1>2
    <2> HIDE DEF In
    <2> QED BY <2>1, SizesAssumption, FS_Subset
  <1>6. e \in In(b)
    OBVIOUS
  <1> HIDE DEF In
  <1>7. Cardinality(In(b) \ {e}) = Cardinality(In(b)) - 1 /\ Cardinality(In(b) \ {e}) \in Nat
    <2>1. IsFiniteSet(In(b) \ {e}) /\ Cardinality(In(b) \ {e}) = Cardinality(In(b)) - 1
      BY <1>5, <1>6, FS_RemoveElement
    <2> QED BY <2>1, FS_CardinalityType
  <1>8. n.count[b] - 1 \in Nat
    BY <1>4, <1>7
  <1>9. U \in SUBSET Blocks /\ K \in [Buckets -> Nat]
    BY <1>2, <1>8
  <1>10. m = [n EXCEPT !.used = U, !.count = K]
    BY <1>1, <1>2 DEF Caches
  <1>11. \A x \in Buckets : K[x] = IF x = b THEN n.count[x] - 1 ELSE n.count[x]
    BY <1>2
  <1> HIDE DEF Im, U, K, m
  <1>12. \A x \in Buckets : K[x] = Cardinality(Im(x))
    BY <1>3, <1>4, <1>7, <1>11
  <1>13. /\ m \in Caches /\ m.used = U /\ m.count = K /\ m.op = n.op
         /\ m.nxt = n.nxt /\ m.prv = n.prv /\ m.head = n.head /\ m.tail = n.tail
    BY <1>1, <1>2, <1>9, <1>10 DEF Caches
  <1>14. Listed(m, ls)
    BY <1>1, <1>13, ListedSame
  <1>15. \A p \in Chains : \A f \in Set(ls[p]) : f \in U
    BY <1>1 DEF Contents, U
  <1>16. Contents(m, d, ls)
    BY <1>1, <1>13, <1>15 DEF Contents
  <1>17. Counted(m, ls, own)
    <2>1. \A x \in Buckets : m.count[x] = Cardinality({f \in m.used : own[f] = x})
      BY <1>12, <1>13 DEF Im
    <2> QED BY <2>1, <1>1 DEF Counted
  <1>18. Sound(m, d, ls, own)
    BY <1>1, <1>13, <1>14, <1>16, <1>17 DEF Sound
  <1>19. Kept(n, d, m, d)
    BY <1>13, <1>18, SameAnswers
  <1>20. m = Shrunk(n, b, e)
    BY DEF m, Shrunk
  <1> QED BY <1>18, <1>19, <1>20

-----------------------------------------------------------------------------
(* Trim *)

(* Of the chains only q changed.                                           *)
OnlyChain(n, d, ls, own, m, q) ==
    /\ \E lt : Sound(m, d, lt, own) /\ \A p \in Chains : p # q => lt[p] = ls[p]
    /\ Kept(n, d, m, d)

(* The last entry of a chain is taken.                                     *)
LEMMA TailTaken ==
    ASSUME NEW n \in Caches, NEW ls, Listed(n, ls), NEW q \in Chains, n.tail[q] # CNULL
    PROVE  /\ n.tail[q] \in Set(ls[q])
           /\ \E lt : /\ Taken(n, TakeTail(n, q), n.tail[q], lt)
                      /\ \A p \in Chains : Set(lt[p]) = Set(ls[p]) \ {n.tail[q]}
                      /\ \A p \in Chains : p # q => lt[p] = ls[p]
PROOF
  <1> DEFINE s == ls[q]
             t == Without(s, Len(s))
             lt == [ls EXCEPT ![q] = t]
  <1>1. ls \in [Chains -> Seq(Blocks)]
    BY DEF Listed
  <1>2. s # <<>>
    BY ListFacts
  <1>3. /\ s \in Seq(Blocks) /\ Len(s) \in DOMAIN s /\ n.tail[q] = s[Len(s)]
        /\ s[Len(s)] \in Set(s) /\ \A a, b \in DOMAIN s : s[a] = s[b] => a = b
    BY <1>2, ListFacts
  <1>4. Taken(n, TakeTail(n, q), n.tail[q], lt)
    BY ONLY <1>2, TakeTailLinks, n \in Caches, Listed(n, ls), q \in Chains
  <1>5. Set(t) = Set(s) \ {s[Len(s)]}
    BY ONLY <1>3, WithoutFacts
  <1>6. lt[q] = t /\ \A p \in Chains : p # q => lt[p] = ls[p]
    BY <1>1
  <1>7. \A p \in Chains : p # q => s[Len(s)] \notin Set(ls[p])
    <2>1. \A p \in Chains : p # q => Set(ls[q]) \cap Set(ls[p]) = {}
      BY DEF Listed
    <2> QED BY <1>3, <2>1
  <1> HIDE DEF lt, t
  <1>8. \A p \in Chains : Set(lt[p]) = Set(ls[p]) \ {n.tail[q]}
    BY <1>3, <1>5, <1>6, <1>7
  <1> QED BY <1>3, <1>4, <1>6, <1>8

LEMMA TrimOneSound ==
    ASSUME NEW n, NEW d, NEW ls, NEW own, Sound(n, d, ls, own), NEW b \in Buckets
    PROVE  OnlyChain(n, d, ls, own, TrimOne(n, b), <<b, "old">>)
PROOF
  <1> DEFINE q == <<b, "old">>
             e == n.tail[q]
             k == TakeTail(n, q)
             m == TrimOne(n, b)
  <1>1. n \in Caches /\ Listed(n, ls) /\ Contents(n, d, ls)
    BY DEF Sound
  <1>2. q \in Chains /\ q[1] = b /\ q[2] = "old"
    BY ChainFacts
  <1>3. CASE n.count[b] <= cdepth \/ e = CNULL
    <2>1. m = n
      BY <1>3 DEF TrimOne
    <2>2. Kept(n, d, n, d)
      BY KeptSame
    <2> HIDE DEF m, q
    <2> QED BY <2>1, <2>2 DEF OnlyChain, m, q
  <1>4. CASE ~(n.count[b] <= cdepth \/ e = CNULL)
    <2>1. m = Shrunk(k, b, e)
      BY <1>4 DEF TrimOne, Shrunk
    <2> HIDE DEF q
    <2>2. /\ e \in Set(ls[q])
          /\ \E lt : /\ Taken(n, k, e, lt)
                     /\ \A p \in Chains : Set(lt[p]) = Set(ls[p]) \ {e}
                     /\ \A p \in Chains : p # q => lt[p] = ls[p]
      BY ONLY <1>1, <1>2, <1>4, TailTaken
    <2>3. PICK lt : /\ Taken(n, k, e, lt)
                    /\ \A p \in Chains : Set(lt[p]) = Set(ls[p]) \ {e}
                    /\ \A p \in Chains : p # q => lt[p] = ls[p]
      BY <2>2
    <2> HIDE DEF k, m
    <2>4. /\ Sound(k, d, lt, own) /\ e \in k.used /\ own[e] = q[1]
          /\ \A p \in Chains : e \notin Set(lt[p])
          /\ \A x \in Objects :
                Attributes(k, d, x) = IF x = n.op[e].name THEN d[x] ELSE Attributes(n, d, x)
      BY ONLY <1>2, <2>2, <2>3, TakenSound, Sound(n, d, ls, own)
    <2>5. ASSUME NEW x \in Objects, x = n.op[e].name PROVE Attributes(n, d, x) = d[x]
      <3>1. e \in Blocks
        BY <1>1, <1>2, <2>2, OnBlocks
      <3>2. n.op[e] # NoOp
        BY <1>1, <2>5, <3>1, OpFacts
      <3>3. n.op[e].atrs = d[x]
        BY <1>1, <1>2, <2>2, <2>5, <3>2 DEF Contents
      <3>4. Attributes(n, d, x) = n.op[e].atrs
        BY ONLY <1>2, <2>2, <2>5, AttributesIn, Sound(n, d, ls, own)
      <3> QED BY <3>3, <3>4
    <2>6. Kept(n, d, k, d)
      BY <2>4, <2>5 DEF Kept
    <2>7. Sound(Shrunk(k, b, e), d, lt, own) /\ Kept(k, d, Shrunk(k, b, e), d)
      BY ONLY <1>2, <2>4, DroppedSound, b \in Buckets
    <2>8. Kept(n, d, m, d)
      BY <2>1, <2>6, <2>7, KeptTwice
    <2> QED BY <2>1, <2>3, <2>7, <2>8 DEF OnlyChain, q, m
  <1> QED BY <1>3, <1>4

LEMMA OnlyTwice ==
    ASSUME NEW n, NEW d, NEW ls, NEW own, NEW m, NEW k, NEW q,
           OnlyChain(n, d, ls, own, m, q),
           \A lt : Sound(m, d, lt, own) => OnlyChain(m, d, lt, own, k, q)
    PROVE  OnlyChain(n, d, ls, own, k, q)
PROOF
  <1>1. PICK lt : Sound(m, d, lt, own) /\ \A p \in Chains : p # q => lt[p] = ls[p]
    BY DEF OnlyChain
  <1>2. OnlyChain(m, d, lt, own, k, q)
    BY <1>1
  <1>3. PICK lu : Sound(k, d, lu, own) /\ \A p \in Chains : p # q => lu[p] = lt[p]
    BY <1>2 DEF OnlyChain
  <1>4. \A p \in Chains : p # q => lu[p] = ls[p]
    BY <1>1, <1>3
  <1>5. Kept(n, d, k, d)
    BY <1>2, KeptTwice DEF OnlyChain
  <1> QED BY <1>3, <1>4, <1>5 DEF OnlyChain

-----------------------------------------------------------------------------
(* Loops *)

LEMMA TrimSound ==
    ASSUME NEW n, NEW d, NEW ls, NEW own, Sound(n, d, ls, own), NEW b \in Buckets
    PROVE  OnlyChain(n, d, ls, own, cache_trim(n, b), <<b, "old">>)
PROOF
  <1> DEFINE N == Cardinality(Blocks)
             q == <<b, "old">>
             U == {m \in Caches : OnlyChain(n, d, ls, own, m, q)}
             D == [i \in 0..N |-> U]
             g == [p \in (1..N) \X U |-> TrimOne(p[2], b)]
             P(f) == f = [i \in 0..N |-> IF i = 0 THEN n ELSE TrimOne(f[i - 1], b)]
             h == CHOOSE f : P(f)
  <1>1. N \in Nat
    BY SizesAssumption, FS_CardinalityType
  <1>2. n \in U
    <2>1. Kept(n, d, n, d) /\ n \in Caches
      BY KeptSame DEF Sound
    <2> QED BY <2>1 DEF OnlyChain
  <1>3. ASSUME NEW m \in U PROVE TrimOne(m, b) \in U
    <2>1. \A lt : Sound(m, d, lt, own) => OnlyChain(m, d, lt, own, TrimOne(m, b), q)
      <3> TAKE lt
      <3> HAVE Sound(m, d, lt, own)
      <3> HIDE DEF q
      <3> QED BY ONLY Sound(m, d, lt, own), TrimOneSound, b \in Buckets DEF q
    <2>2. OnlyChain(n, d, ls, own, m, q)
      OBVIOUS
    <2> HIDE DEF q
    <2>3. OnlyChain(n, d, ls, own, TrimOne(m, b), q)
      BY ONLY <2>1, <2>2, OnlyTwice
    <2>4. TrimOne(m, b) \in Caches
      BY <2>3 DEF OnlyChain, Sound
    <2> QED BY <2>3, <2>4
  <1> HIDE DEF U, N
  <1>4. \E f : P(f)
    <2>1. \A i \in 0..N : D[i] = U
      OBVIOUS
    <2>2. 0 \in 0..N /\ \A i \in 1..N : i \in 0..N /\ i - 1 \in 0..N
      BY <1>1
    <2>3. /\ n \in D[0]
          /\ \A i \in 1..N : \A y \in D[i - 1] :
               g[<<i, y>>] = TrimOne(y, b) /\ g[<<i, y>>] \in D[i]
      BY <1>2, <1>3, <2>1, <2>2
    <2> HIDE DEF D, g
    <2>31. \E f : Turns(f, N, n, D, g)
      BY ONLY <1>1, <2>3, LoopExists
    <2>4. PICK f : /\ f = [i \in 0..N |-> f[i]] /\ f[0] = n
                   /\ \A i \in 1..N : f[i - 1] \in D[i - 1] /\ f[i] = g[<<i, f[i - 1]>>]
      BY <2>31 DEF Turns
    <2>5. \A i \in 0..N : f[i] = IF i = 0 THEN n ELSE TrimOne(f[i - 1], b)
      <3>1. \A i \in 0..N : i # 0 => i \in 1..N
        BY <1>1
      <3> QED BY <2>3, <2>4, <3>1
    <2>6. P(f)
      BY <2>4, <2>5
    <2> QED BY <2>6
  <1>5. P(h)
    <2> HIDE DEF P
    <2> QED BY <1>4
  <1>6. cache_trim(n, b) = h[N]
    BY DEF cache_trim, N
  <1> HIDE DEF h
  <1>7. h[0] = n /\ \A i \in 1..N : h[i] = TrimOne(h[i - 1], b)
    <2>1. \A i \in 0..N : h[i] = IF i = 0 THEN n ELSE TrimOne(h[i - 1], b)
      BY <1>5
    <2>2. 0 \in 0..N /\ \A i \in 1..N : i \in 0..N /\ i # 0
      BY <1>1
    <2> QED BY <2>1, <2>2
  <1>8. h[N] \in U
    <2>1. N \in 0..N /\ 0 \in 0..N /\ \A i \in 1..N : i \in 0..N /\ i - 1 \in 0..N
      BY <1>1
    <2>2. D[0] = U /\ D[N] = U /\ \A i \in 1..N : D[i] = U /\ D[i - 1] = U
      BY <2>1
    <2> HIDE DEF D
    <2>3. h[0] \in D[0] /\ \A i \in 1..N : h[i - 1] \in D[i - 1] => h[i] \in D[i]
      BY <1>2, <1>3, <1>7, <2>2
    <2>4. h[N] \in D[N]
      BY ONLY <1>1, <2>3, LoopKeeps
    <2> QED BY <2>2, <2>4
  <1> QED BY <1>6, <1>8 DEF U

(* With disk c in place of d, the first k of the entries es are stored.    *)
Wrote(n, d, ls, own, es, k, c) ==
    /\ Sound(n, c, ls, own)
    /\ Kept(n, d, n, c)
    /\ \A i \in 1..k : n.op[es[i]] # NoOp /\ c[n.op[es[i]].name] = n.op[es[i]].atrs

(* The entries es, of chains that are written before they are given up,    *)
(* are written up to the k-th.                                             *)
LEMMA WritesSound ==
    ASSUME NEW n, NEW d, NEW ls, NEW own, Sound(n, d, ls, own), NEW es \in Seq(Blocks),
           \A i \in DOMAIN es : \E q \in Chains : q[2] # "old" /\ es[i] \in Set(ls[q]),
           NEW k \in 0..Len(es)
    PROVE  Wrote(n, d, ls, own, es, k, Writes(d, n.op, es, k))
PROOF
  <1> DEFINE Good(c, i) == /\ Sound(n, c, ls, own) /\ Kept(n, d, n, c)
                           /\ \A j \in 1..i : c[n.op[es[j]].name] = n.op[es[j]].atrs
             U(i) == {c \in Disks : Good(c, i)}
             D == [i \in 0..k |-> U(i)]
             g == [p \in (1..k) \X Disks |-> Written(p[2], n.op[es[p[1]]])]
             P(f) == f = [i \in 0..k |-> IF i = 0 THEN d ELSE Written(f[i - 1], n.op[es[i]])]
             h == CHOOSE f : P(f)
  <1>1. k \in Nat /\ \A i \in 1..k : i \in DOMAIN es /\ i \in 0..k /\ i - 1 \in 0..k /\ i # 0
    OBVIOUS
  <1>2. d \in U(0)
    <2>1. Kept(n, d, n, d) /\ d \in Disks /\ 1..0 = {}
      BY KeptSame DEF Sound
    <2> QED BY <2>1
  <1>3. n \in Caches /\ Listed(n, ls) /\ Contents(n, d, ls)
    BY DEF Sound
  <1>4. \A i \in 1..k : \E q \in Chains : es[i] \in Set(ls[q]) /\ n.op[es[i]] # NoOp
    BY <1>1, <1>3 DEF Contents
  <1>5. \A i \in 1..k : n.op[es[i]].name \in Objects
    <2>1. \A i \in 1..k : es[i] \in Blocks
      BY <1>1
    <2> QED BY <1>3, <1>4, <2>1, OpFacts
  <1>6. ASSUME NEW i \in 1..k, NEW c \in U(i - 1) PROVE Written(c, n.op[es[i]]) \in U(i)
    <2> DEFINE e == es[i]
               b == Written(c, n.op[e])
    <2>1. Sound(n, c, ls, own) /\ Kept(n, d, n, c)
      OBVIOUS
    <2>2. \A j \in 1..(i - 1) : c[n.op[es[j]].name] = n.op[es[j]].atrs
      OBVIOUS
    <2>3. PICK q \in Chains : e \in Set(ls[q]) /\ n.op[e] # NoOp
      BY <1>4
    <2> HIDE DEF U, e
    <2>4. /\ Sound(n, b, ls, own) /\ Kept(n, c, n, b) /\ b[n.op[e].name] = n.op[e].atrs
          /\ \A x \in Objects : x # n.op[e].name => b[x] = c[x]
      BY ONLY <2>1, <2>3, WrittenSound
    <2>5. Kept(n, d, n, b) /\ b \in Disks
      BY <2>1, <2>4, KeptTwice DEF Sound
    <2>6. ASSUME NEW j \in 1..i PROVE b[n.op[es[j]].name] = n.op[es[j]].atrs
      <3>1. j \in 1..k
        BY <1>1
      <3>2. CASE n.op[es[j]].name = n.op[e].name
        <4>1. PICK r \in Chains : es[j] \in Set(ls[r]) /\ n.op[es[j]] # NoOp
          BY <1>4, <3>1
        <4>2. es[j] = e
          BY <1>3, <2>3, <3>2, <4>1 DEF Contents
        <4> QED BY <4>2, <2>4
      <3>3. CASE n.op[es[j]].name # n.op[e].name
        <4>1. j \in 1..(i - 1)
          <5>1. j # i
            BY <3>3 DEF e
          <5> QED BY <5>1
        <4> QED BY <3>1, <3>3, <4>1, <1>5, <2>2, <2>4
      <3> QED BY <3>2, <3>3
    <2> QED BY <2>4, <2>5, <2>6 DEF U, e
  <1> HIDE DEF U
  <1>7. \A i \in 0..k : D[i] = U(i) /\ D[i] \subseteq Disks
    <2>1. \A i \in 0..k : U(i) \subseteq Disks
      BY DEF U
    <2> QED BY <2>1
  <1>8. \E f : P(f)
    <2>1. /\ d \in D[0]
          /\ \A i \in 1..k : \A y \in D[i - 1] :
                g[<<i, y>>] = Written(y, n.op[es[i]]) /\ g[<<i, y>>] \in D[i]
      <3>1. 0 \in 0..k
        BY <1>1
      <3>2. ASSUME NEW i \in 1..k, NEW y \in D[i - 1]
            PROVE  g[<<i, y>>] = Written(y, n.op[es[i]]) /\ g[<<i, y>>] \in D[i]
        <4>1. y \in U(i - 1) /\ y \in Disks /\ D[i] = U(i)
          BY <1>1, <1>7
        <4>2. g[<<i, y>>] = Written(y, n.op[es[i]])
          BY <4>1
        <4> QED BY <1>6, <4>1, <4>2
      <3> QED BY <1>2, <1>7, <3>1, <3>2
    <2> HIDE DEF D, g
    <2>2. \E f : Turns(f, k, d, D, g)
      BY ONLY <1>1, <2>1, LoopExists
    <2>3. PICK f : /\ f = [i \in 0..k |-> f[i]] /\ f[0] = d
                   /\ \A i \in 1..k : f[i - 1] \in D[i - 1] /\ f[i] = g[<<i, f[i - 1]>>]
      BY <2>2 DEF Turns
    <2>4. \A i \in 0..k : f[i] = IF i = 0 THEN d ELSE Written(f[i - 1], n.op[es[i]])
      <3>1. \A i \in 0..k : i # 0 => i \in 1..k
        BY <1>1
      <3> QED BY <2>1, <2>3, <3>1
    <2>5. P(f)
      BY <2>3, <2>4
    <2> QED BY <2>5
  <1>9. P(h)
    <2> HIDE DEF P
    <2> QED BY <1>8
  <1>10. Writes(d, n.op, es, k) = h[k]
    BY DEF Writes
  <1> HIDE DEF h
  <1>11. h[0] = d /\ \A i \in 1..k : h[i] = Written(h[i - 1], n.op[es[i]])
    <2>1. \A i \in 0..k : h[i] = IF i = 0 THEN d ELSE Written(h[i - 1], n.op[es[i]])
      BY <1>9
    <2>2. 0 \in 0..k
      BY <1>1
    <2> QED BY <1>1, <2>1, <2>2
  <1>12. h[k] \in U(k)
    <2>1. k \in 0..k /\ 0 \in 0..k
      BY <1>1
    <2>2. D[0] = U(0) /\ D[k] = U(k) /\ \A i \in 1..k : D[i] = U(i) /\ D[i - 1] = U(i - 1)
      BY <1>1, <1>7, <2>1
    <2> HIDE DEF D
    <2>3. h[0] \in D[0] /\ \A i \in 1..k : h[i - 1] \in D[i - 1] => h[i] \in D[i]
      BY <1>2, <1>6, <1>11, <2>2
    <2>4. h[k] \in D[k]
      BY ONLY <1>1, <2>3, LoopKeeps
    <2> QED BY <2>2, <2>4
  <1> QED BY <1>4, <1>10, <1>12 DEF U, Wrote

-----------------------------------------------------------------------------
(* Reset and SYNC *)

(* Chain from was joined to chain to.                                      *)
Spliced(n, d, ls, own, m, from, to) ==
    /\ \E lt : /\ Sound(m, d, lt, own)
               /\ lt[from] = <<>> /\ Set(lt[to]) = Set(ls[from]) \cup Set(ls[to])
               /\ \A p \in Chains : p # from /\ p # to => lt[p] = ls[p]
    /\ Kept(n, d, m, d)
    /\ m.op = n.op

(* Nothing in the entries of chain from hinders that it is joined to to.   *)
Joinable(n, d, ls, from, to) ==
    /\ from \in Chains /\ to \in Chains /\ from # to /\ from[1] = to[1]
    /\ \A e \in Set(ls[from]) :
          /\ n.op[e] = NoOp => to[2] = "old"
          /\ to[2] \in {"active", "old"} /\ n.op[e] # NoOp
                => n.op[e].atrs = d[n.op[e].name]

LEMMA SplicedSound ==
    ASSUME NEW n, NEW d, NEW ls, NEW own, Sound(n, d, ls, own),
           NEW from, NEW to, Joinable(n, d, ls, from, to),
           NEW m, NEW u \in Seq(Blocks), Set(u) = Set(ls[from]) \cup Set(ls[to]),
           Relinked(n, m, [ls EXCEPT ![to] = u, ![from] = <<>>])
    PROVE  Spliced(n, d, ls, own, m, from, to)
PROOF
  <1> DEFINE lt == [ls EXCEPT ![to] = u, ![from] = <<>>]
  <1>1. ls \in [Chains -> Seq(Blocks)]
    BY DEF Sound, Listed
  <1>2. /\ from \in Chains /\ to \in Chains /\ from # to /\ from[1] = to[1]
        /\ \A e \in Set(ls[from]) :
              /\ n.op[e] = NoOp => to[2] = "old"
              /\ to[2] \in {"active", "old"} /\ n.op[e] # NoOp
                    => n.op[e].atrs = d[n.op[e].name]
    BY DEF Joinable
  <1>3. lt[to] = u /\ lt[from] = <<>> /\ \A p \in Chains : p # from /\ p # to => lt[p] = ls[p]
    BY <1>1, <1>2
  <1>4. Set(<<>>) = {}
    BY DEF Set
  <1>5. Relinked(n, m, lt)
    OBVIOUS
  <1> HIDE DEF lt
  <1>6. m \in Caches /\ m.op = n.op /\ m.count = n.count /\ m.used = n.used /\ Listed(m, lt)
    BY <1>5 DEF Relinked
  <1>7. Set(lt[to]) = Set(ls[from]) \cup Set(ls[to]) /\ Set(lt[from]) = {}
    BY <1>3, <1>4
  <1>8. Sound(m, d, lt, own) /\ Kept(n, d, m, d)
    BY ONLY Sound(n, d, ls, own), <1>2, <1>3, <1>6, <1>7, MergedSound
  <1> QED BY <1>3, <1>6, <1>7, <1>8 DEF Spliced

LEMMA JoinSound ==
    ASSUME NEW n, NEW d, NEW ls, NEW own, Sound(n, d, ls, own),
           NEW from, NEW to, Joinable(n, d, ls, from, to)
    PROVE  /\ Spliced(n, d, ls, own, Prepend(n, from, to), from, to)
           /\ Spliced(n, d, ls, own, Put(n, from, to), from, to)
PROOF
  <1>1. n \in Caches /\ Listed(n, ls) /\ ls \in [Chains -> Seq(Blocks)]
    BY DEF Sound, Listed
  <1>2. from \in Chains /\ to \in Chains /\ from # to
    BY DEF Joinable
  <1>3. ls[from] \in Seq(Blocks) /\ ls[to] \in Seq(Blocks)
    BY <1>1, <1>2
  <1> DEFINE u == ls[from] \o ls[to]
             v == ls[to] \o ls[from]
  <1>4. u \in Seq(Blocks) /\ Set(u) = Set(ls[from]) \cup Set(ls[to])
    BY ONLY <1>3, ConcatFacts
  <1>5. v \in Seq(Blocks) /\ Set(v) = Set(ls[to]) \cup Set(ls[from])
    BY ONLY <1>3, ConcatFacts
  <1>6. Relinked(n, Prepend(n, from, to), [ls EXCEPT ![to] = u, ![from] = <<>>])
    BY ONLY <1>1, <1>2, PrependLinks
  <1>7. Relinked(n, Put(n, from, to), [ls EXCEPT ![to] = v, ![from] = <<>>])
    BY ONLY <1>1, <1>2, PutLinks
  <1> HIDE DEF u, v
  <1>8. Spliced(n, d, ls, own, Prepend(n, from, to), from, to)
    BY ONLY <1>4, <1>6, SplicedSound, Sound(n, d, ls, own), Joinable(n, d, ls, from, to)
  <1>9. Set(v) = Set(ls[from]) \cup Set(ls[to])
    BY <1>5
  <1>10. Spliced(n, d, ls, own, Put(n, from, to), from, to)
    BY ONLY <1>5, <1>7, <1>9, SplicedSound, Sound(n, d, ls, own), Joinable(n, d, ls, from, to)
  <1> QED BY <1>8, <1>10

(* m, c is sound, and answers what n, d does.                              *)
Still(n, d, own, m, c) ==
    /\ \E lt : Sound(m, c, lt, own)
    /\ Kept(n, d, m, c)

LEMMA TrimmedSound ==
    ASSUME NEW n, NEW d, NEW ls, NEW own, Sound(n, d, ls, own), NEW b \in Buckets
    PROVE  OnlyChain(n, d, ls, own, Trimmed(n, b), <<b, "old">>)
PROOF
  <1>1. CASE cache_trim_on
    <2>1. Trimmed(n, b) = cache_trim(n, b)
      BY <1>1 DEF Trimmed
    <2> QED BY <2>1, TrimSound
  <1>2. CASE ~cache_trim_on
    <2>1. Trimmed(n, b) = n
      BY <1>2 DEF Trimmed
    <2>2. OnlyChain(n, d, ls, own, n, <<b, "old">>)
      BY KeptSame DEF OnlyChain
    <2> QED BY <2>1, <2>2
  <1> QED BY <1>1, <1>2

LEMMA ResetBucketSound ==
    ASSUME NEW n, NEW d, NEW ls, NEW own, Sound(n, d, ls, own), NEW b \in Buckets, NEW trim
    PROVE  Still(n, d, own, ResetBucket(n, b, trim), d)
PROOF
  <1> DEFINE ac == <<b, "active">>
             od == <<b, "old">>
             ma == <<b, "mactive">>
             mo == <<b, "mold">>
             m == Prepend(n, ac, od)
             k == Prepend(m, ma, mo)
  <1>1. /\ ac \in Chains /\ od \in Chains /\ ma \in Chains /\ mo \in Chains
        /\ ac # od /\ ma # mo /\ ac[1] = od[1] /\ ma[1] = mo[1] /\ ma # ac /\ ma # od
        /\ ac[2] = "active" /\ od[2] = "old" /\ ma[2] = "mactive" /\ mo[2] = "mold"
    BY ChainFacts
  <1>2. Contents(n, d, ls)
    BY DEF Sound
  <1>3. ResetBucket(n, b, trim) = IF trim THEN Trimmed(k, b) ELSE k
    BY DEF ResetBucket
  <1> HIDE DEF ac, od, ma, mo
  <1>4. Joinable(n, d, ls, ac, od)
    BY <1>1, <1>2 DEF Joinable, Contents
  <1>5. Spliced(n, d, ls, own, m, ac, od)
    BY ONLY <1>4, JoinSound, Sound(n, d, ls, own)
  <1> HIDE DEF m
  <1>6. PICK lt : Sound(m, d, lt, own)
    BY <1>5 DEF Spliced
  <1>7. Contents(m, d, lt)
    BY <1>6 DEF Sound
  <1>8. Joinable(m, d, lt, ma, mo)
    BY <1>1, <1>7 DEF Joinable, Contents
  <1>9. Spliced(m, d, lt, own, k, ma, mo)
    BY ONLY <1>6, <1>8, JoinSound
  <1> HIDE DEF k
  <1>10. PICK lu : Sound(k, d, lu, own)
    BY <1>9 DEF Spliced
  <1>11. Kept(n, d, k, d)
    BY <1>5, <1>9, KeptTwice DEF Spliced
  <1>12. CASE trim
    <2>1. OnlyChain(k, d, lu, own, Trimmed(k, b), <<b, "old">>)
      BY ONLY <1>10, TrimmedSound, b \in Buckets
    <2>2. (\E lv : Sound(Trimmed(k, b), d, lv, own)) /\ Kept(k, d, Trimmed(k, b), d)
      BY <2>1 DEF OnlyChain
    <2>3. Kept(n, d, Trimmed(k, b), d)
      BY <1>11, <2>2, KeptTwice
    <2> QED BY <1>3, <1>12, <2>2, <2>3 DEF Still
  <1>13. CASE ~trim
    BY <1>3, <1>10, <1>11, <1>13 DEF Still
  <1> QED BY <1>12, <1>13

LEMMA BucketOf ==
    ASSUME NEW i \in 1..cwidth
    PROVE  i - 1 \in Buckets /\ i - 1 \in 0..cwidth /\ i \in 0..cwidth /\ i # 0
PROOF
  BY SizesAssumption DEF Buckets

LEMMA ResetSound ==
    ASSUME NEW n, NEW d, NEW ls, NEW own, Sound(n, d, ls, own), NEW trim
    PROVE  Still(n, d, own, Reset(n, trim), d)
PROOF
  <1> DEFINE N == cwidth
             U == {m \in Caches : Still(n, d, own, m, d)}
             D == [i \in 0..N |-> U]
             g == [p \in (1..N) \X U |-> ResetBucket(p[2], p[1] - 1, trim)]
             P(f) == f = [i \in 0..N |-> IF i = 0 THEN n ELSE ResetBucket(f[i - 1], i - 1, trim)]
             h == CHOOSE f : P(f)
  <1>1. N \in Nat
    BY SizesAssumption
  <1>2. n \in U
    <2>1. Kept(n, d, n, d) /\ n \in Caches
      BY KeptSame DEF Sound
    <2> QED BY <2>1 DEF Still
  <1>3. ASSUME NEW m \in U, NEW i \in 1..N PROVE ResetBucket(m, i - 1, trim) \in U
    <2> DEFINE k == ResetBucket(m, i - 1, trim)
    <2>1. PICK lt : Sound(m, d, lt, own)
      BY DEF Still
    <2>2. Kept(n, d, m, d)
      BY DEF Still
    <2>3. i - 1 \in Buckets
      BY BucketOf
    <2>4. Still(m, d, own, k, d)
      BY ONLY <2>1, <2>3, ResetBucketSound
    <2> HIDE DEF k
    <2>5. Kept(n, d, k, d)
      BY <2>2, <2>4, KeptTwice DEF Still
    <2>6. k \in Caches
      BY <2>4 DEF Still, Sound
    <2> QED BY <2>4, <2>5, <2>6 DEF Still, k
  <1> HIDE DEF U, N
  <1>4. \E f : P(f)
    <2>1. \A i \in 0..N : D[i] = U
      OBVIOUS
    <2>2. 0 \in 0..N /\ \A i \in 1..N : i \in 0..N /\ i - 1 \in 0..N
      BY <1>1
    <2>3. /\ n \in D[0]
          /\ \A i \in 1..N : \A y \in D[i - 1] :
                g[<<i, y>>] = ResetBucket(y, i - 1, trim) /\ g[<<i, y>>] \in D[i]
      BY <1>2, <1>3, <2>1, <2>2
    <2> HIDE DEF D, g
    <2>4. \E f : Turns(f, N, n, D, g)
      BY ONLY <1>1, <2>3, LoopExists
    <2>5. PICK f : /\ f = [i \in 0..N |-> f[i]] /\ f[0] = n
                   /\ \A i \in 1..N : f[i - 1] \in D[i - 1] /\ f[i] = g[<<i, f[i - 1]>>]
      BY <2>4 DEF Turns
    <2>6. \A i \in 0..N : f[i] = IF i = 0 THEN n ELSE ResetBucket(f[i - 1], i - 1, trim)
      <3>1. \A i \in 0..N : i # 0 => i \in 1..N
        BY <1>1
      <3> QED BY <2>3, <2>5, <3>1
    <2>7. P(f)
      BY <2>5, <2>6
    <2> QED BY <2>7
  <1>5. P(h)
    <2> HIDE DEF P
    <2> QED BY <1>4
  <1>6. Reset(n, trim) = h[N]
    BY DEF Reset, N
  <1> HIDE DEF h
  <1>7. h[0] = n /\ \A i \in 1..N : h[i] = ResetBucket(h[i - 1], i - 1, trim)
    <2>1. \A i \in 0..N : h[i] = IF i = 0 THEN n ELSE ResetBucket(h[i - 1], i - 1, trim)
      BY <1>5
    <2>2. 0 \in 0..N /\ \A i \in 1..N : i \in 0..N /\ i # 0
      BY <1>1
    <2> QED BY <2>1, <2>2
  <1>8. h[N] \in U
    <2>1. N \in 0..N /\ 0 \in 0..N /\ \A i \in 1..N : i \in 0..N /\ i - 1 \in 0..N
      BY <1>1
    <2>2. D[0] = U /\ D[N] = U /\ \A i \in 1..N : D[i] = U /\ D[i - 1] = U
      BY <2>1
    <2> HIDE DEF D
    <2>3. h[0] \in D[0] /\ \A i \in 1..N : h[i - 1] \in D[i - 1] => h[i] \in D[i]
      BY <1>2, <1>3, <1>7, <2>2
    <2>4. h[N] \in D[N]
      BY ONLY <1>1, <2>3, LoopKeeps
    <2> QED BY <2>2, <2>4
  <1> QED BY <1>6, <1>8 DEF U

(* cache_clean, once the modified entries of the bucket are on disk.       *)
LEMMA CleanSound ==
    ASSUME NEW n, NEW d, NEW ls, NEW own, Sound(n, d, ls, own), NEW b \in Buckets,
           \A e \in Set(ls[<<b, "mold">>]) \cup Set(ls[<<b, "mactive">>]) :
              n.op[e] # NoOp => n.op[e].atrs = d[n.op[e].name]
    PROVE  /\ \E lt : /\ Sound(Clean(n, b), d, lt, own)
                      /\ lt[<<b, "mold">>] = <<>> /\ lt[<<b, "mactive">>] = <<>>
                      /\ \A p \in Chains : p[1] # b => lt[p] = ls[p]
           /\ Kept(n, d, Clean(n, b), d)
PROOF
  <1> DEFINE ac == <<b, "active">>
             od == <<b, "old">>
             ma == <<b, "mactive">>
             mo == <<b, "mold">>
             m == Put(n, mo, od)
             k == Put(m, ma, ac)
             j == Trimmed(k, b)
  <1>1. /\ ac \in Chains /\ od \in Chains /\ ma \in Chains /\ mo \in Chains
        /\ mo # od /\ ma # ac /\ mo[1] = od[1] /\ ma[1] = ac[1] /\ ma # mo /\ ma # od
        /\ mo # ac /\ ac # od
        /\ ac[1] = b /\ od[1] = b /\ ma[1] = b /\ mo[1] = b
        /\ ac[2] = "active" /\ od[2] = "old" /\ ma[2] = "mactive" /\ mo[2] = "mold"
    BY ChainFacts
  <1>2. Contents(n, d, ls)
    BY DEF Sound
  <1>3. Clean(n, b) = j
    BY DEF Clean
  <1>4. \A e \in Set(ls[mo]) \cup Set(ls[ma]) :
           n.op[e] # NoOp => n.op[e].atrs = d[n.op[e].name]
    OBVIOUS
  <1> HIDE DEF ac, od, ma, mo
  <1>5. Joinable(n, d, ls, mo, od)
    BY <1>1, <1>4 DEF Joinable
  <1>6. Spliced(n, d, ls, own, m, mo, od)
    BY ONLY <1>5, JoinSound, Sound(n, d, ls, own)
  <1> HIDE DEF m
  <1>7. PICK lt : /\ Sound(m, d, lt, own) /\ lt[mo] = <<>>
                  /\ \A p \in Chains : p # mo /\ p # od => lt[p] = ls[p]
    BY <1>6 DEF Spliced
  <1>8. m.op = n.op /\ Kept(n, d, m, d)
    BY <1>6 DEF Spliced
  <1>9. Joinable(m, d, lt, ma, ac)
    <2>1. lt[ma] = ls[ma]
      BY <1>1, <1>7
    <2>2. \A e \in Set(ls[ma]) : n.op[e] # NoOp
      BY <1>1, <1>2 DEF Contents
    <2> QED BY <1>1, <1>4, <1>8, <2>1, <2>2 DEF Joinable
  <1>10. Spliced(m, d, lt, own, k, ma, ac)
    BY ONLY <1>7, <1>9, JoinSound
  <1> HIDE DEF k
  <1>11. PICK lu : /\ Sound(k, d, lu, own) /\ lu[ma] = <<>>
                   /\ \A p \in Chains : p # ma /\ p # ac => lu[p] = lt[p]
    BY <1>10 DEF Spliced
  <1>12. OnlyChain(k, d, lu, own, j, <<b, "old">>)
    BY ONLY <1>11, TrimmedSound, b \in Buckets
  <1> HIDE DEF j
  <1>13. OnlyChain(k, d, lu, own, j, od)
    BY <1>12 DEF od
  <1>14. PICK lv : Sound(j, d, lv, own) /\ \A p \in Chains : p # od => lv[p] = lu[p]
    BY <1>13 DEF OnlyChain
  <1>15. Kept(n, d, j, d)
    <2>1. Kept(m, d, k, d) /\ Kept(k, d, j, d)
      BY <1>10, <1>12 DEF Spliced, OnlyChain
    <2>2. Kept(m, d, j, d)
      BY <2>1, KeptTwice
    <2> QED BY <1>8, <2>2, KeptTwice
  <1>16. lv[mo] = <<>> /\ lv[ma] = <<>>
    BY <1>1, <1>7, <1>11, <1>14
  <1>17. \A p \in Chains : p[1] # b => lv[p] = ls[p]
    BY <1>1, <1>7, <1>11, <1>14
  <1> QED BY <1>3, <1>14, <1>15, <1>16, <1>17 DEF mo, ma

Syncs == [n : Caches, d : Disks, left : Nat, ok : BOOLEAN]

(* r is how far SYNC of n, d got: it left nothing modified in the first i  *)
(* buckets, if no write failed.                                            *)
Syncing(n, d, own, r, i) ==
    /\ \E lt : /\ Sound(r.n, r.d, lt, own)
               /\ r.ok => \A p \in Chains : p[1] < i /\ p[2] \in {"mold", "mactive"}
                                               => lt[p] = <<>>
    /\ Kept(n, d, r.n, r.d)

LEMMA SyncBucketSound ==
    ASSUME NEW n, NEW d, NEW own, NEW r \in Syncs, NEW i \in 1..cwidth,
           Syncing(n, d, own, r, i - 1)
    PROVE  /\ SyncBucket(r, i - 1) \in Syncs
           /\ Syncing(n, d, own, SyncBucket(r, i - 1), i)
PROOF
  <1> DEFINE b == i - 1
             mo == <<b, "mold">>
             ma == <<b, "mactive">>
             R == SyncBucket(r, b)
  <1>1. b \in Buckets /\ b \in Nat /\ i = b + 1
    BY BucketOf
  <1>2. /\ mo \in Chains /\ ma \in Chains /\ mo[1] = b /\ ma[1] = b
        /\ mo[2] = "mold" /\ ma[2] = "mactive"
    BY <1>1, ChainFacts
  <1>3. PICK ls : /\ Sound(r.n, r.d, ls, own)
                  /\ r.ok => \A p \in Chains : p[1] < b /\ p[2] \in {"mold", "mactive"}
                                                  => ls[p] = <<>>
    BY DEF Syncing
  <1>4. Kept(n, d, r.n, r.d)
    BY DEF Syncing
  <1>5. r.n \in Caches /\ Listed(r.n, ls) /\ r.left \in Nat /\ r.ok \in BOOLEAN
    BY <1>3 DEF Sound, Syncs
  <1>6. CASE ~r.ok
    <2>1. R = r
      BY <1>6 DEF SyncBucket
    <2> HIDE DEF R
    <2>2. Syncing(n, d, own, R, i)
      BY <2>1, <1>3, <1>4, <1>6 DEF Syncing
    <2> QED BY <2>1, <2>2 DEF R
  <1>7. CASE r.ok
    <2> DEFINE es == ls[mo] \o ls[ma]
               all == Len(es) <= r.left
               k == IF all THEN Len(es) ELSE r.left
               c == Writes(r.d, r.n.op, es, k)
               m == IF all THEN Clean(r.n, b) ELSE r.n
    <2>1. Entries(r.n, mo) = ls[mo] /\ Entries(r.n, ma) = ls[ma]
      BY ONLY <1>2, <1>5, EntriesAre
    <2>2. ls[mo] \in Seq(Blocks) /\ ls[ma] \in Seq(Blocks)
      BY <1>2, <1>5 DEF Listed
    <2>3. R = [n |-> m, d |-> c, left |-> r.left - k, ok |-> all]
      <3> HIDE DEF mo, ma
      <3> QED BY <1>7, <2>1 DEF SyncBucket, mo, ma
    <2> HIDE DEF mo, ma, R
    <2>4. es \in Seq(Blocks) /\ Set(es) = Set(ls[mo]) \cup Set(ls[ma])
      BY ONLY <2>2, ConcatFacts
    <2> HIDE DEF es
    <2>5. /\ Len(es) \in Nat /\ DOMAIN es = 1..Len(es)
          /\ k \in 0..Len(es) /\ r.left - k \in Nat /\ all \in BOOLEAN
          /\ all => k = Len(es)
      BY <2>4, <1>5
    <2> HIDE DEF k, all
    <2>6. \A j \in DOMAIN es : \E q \in Chains : q[2] # "old" /\ es[j] \in Set(ls[q])
      <3>1. \A j \in DOMAIN es : es[j] \in Set(es)
        BY DEF Set
      <3> QED BY <3>1, <2>4, <1>2
    <2>7. /\ Sound(r.n, c, ls, own) /\ Kept(r.n, r.d, r.n, c)
          /\ \A j \in 1..k : /\ r.n.op[es[j]] # NoOp
                             /\ c[r.n.op[es[j]].name] = r.n.op[es[j]].atrs
      <3>1. k \in 0..Len(es) /\ es \in Seq(Blocks)
        BY <2>4, <2>5
      <3>2. Wrote(r.n, r.d, ls, own, es, k, Writes(r.d, r.n.op, es, k))
        BY ONLY <1>3, <2>6, <3>1, WritesSound
      <3>3. Wrote(r.n, r.d, ls, own, es, k, c)
        BY <3>2
      <3> HIDE DEF c
      <3> QED BY <3>3 DEF Wrote
    <2> HIDE DEF c
    <2>8. Kept(n, d, r.n, c) /\ c \in Disks
      BY <1>4, <2>7, KeptTwice DEF Sound
    <2>9. CASE all
      <3>1. m = Clean(r.n, b)
        BY <2>9
      <3>2. \A e \in Set(ls[mo]) \cup Set(ls[ma]) : r.n.op[e].atrs = c[r.n.op[e].name]
        <4>1. \A e \in Set(es) : \E j \in 1..k : e = es[j]
          BY <2>5, <2>9 DEF Set
        <4> QED BY <4>1, <2>4, <2>7
      <3>3. \A e \in Set(ls[<<b, "mold">>]) \cup Set(ls[<<b, "mactive">>]) :
               r.n.op[e] # NoOp => r.n.op[e].atrs = c[r.n.op[e].name]
        BY <3>2 DEF mo, ma
      <3>4. /\ \E lt : /\ Sound(Clean(r.n, b), c, lt, own)
                       /\ lt[<<b, "mold">>] = <<>> /\ lt[<<b, "mactive">>] = <<>>
                       /\ \A p \in Chains : p[1] # b => lt[p] = ls[p]
            /\ Kept(r.n, c, Clean(r.n, b), c)
        BY ONLY <1>1, <2>7, <3>3, CleanSound
      <3>5. PICK lt : /\ Sound(m, c, lt, own)
                      /\ lt[<<b, "mold">>] = <<>> /\ lt[<<b, "mactive">>] = <<>>
                      /\ \A p \in Chains : p[1] # b => lt[p] = ls[p]
        BY <3>1, <3>4
      <3>6. Kept(n, d, m, c)
        BY <3>1, <3>4, <2>8, KeptTwice
      <3>7. m \in Caches
        BY <3>5 DEF Sound
      <3> HIDE DEF m
      <3>8. R \in Syncs /\ R.n = m /\ R.d = c /\ R.ok = all
        BY <2>3, <2>5, <2>8, <3>7 DEF Syncs
      <3>9. ASSUME NEW p \in Chains, p[1] < i, p[2] \in {"mold", "mactive"}
            PROVE  lt[p] = <<>>
        <4>1. p[1] \in Nat /\ p = <<p[1], p[2]>>
          BY ChainFacts, SizesAssumption DEF Buckets
        <4>2. CASE p[1] = b
          BY <4>1, <4>2, <3>5, <3>9
        <4>3. CASE p[1] # b
          <5>1. p[1] < b
            BY <4>1, <4>3, <3>9, <1>1
          <5> QED BY <5>1, <4>3, <3>5, <3>9, <1>3, <1>7
        <4> QED BY <4>2, <4>3
      <3>10. Syncing(n, d, own, R, i)
        BY <3>5, <3>6, <3>8, <3>9 DEF Syncing
      <3> QED BY <3>8, <3>10 DEF R
    <2>10. CASE ~all
      <3>1. m = r.n
        BY <2>10
      <3> HIDE DEF m
      <3>2. R \in Syncs /\ R.n = r.n /\ R.d = c /\ R.ok = all
        BY <2>3, <2>5, <2>8, <3>1, <1>5 DEF Syncs
      <3>3. Syncing(n, d, own, R, i)
        BY <2>7, <2>8, <2>10, <3>2 DEF Syncing
      <3> QED BY <3>2, <3>3 DEF R
    <2> QED BY <2>9, <2>10
  <1> QED BY <1>5, <1>6, <1>7

(* SYNC keeps every answer, and leaves nothing unwritten if it succeeds.   *)
LEMMA SyncSound ==
    ASSUME NEW ls, NEW own, Sound(sys_c, disk, ls, own), NEW left \in Nat
    PROVE  /\ Still(sys_c, disk, own, SyncUpTo(left).n, SyncUpTo(left).d)
           /\ SyncUpTo(left).ok
                 => \A o \in Objects : SyncUpTo(left).d[o] = Attributes(sys_c, disk, o)
PROOF
  <1> DEFINE N == cwidth
             x == [n |-> Reset(sys_c, FALSE), d |-> disk, left |-> left, ok |-> TRUE]
             U(i) == {r \in Syncs : Syncing(sys_c, disk, own, r, i)}
             D == [i \in 0..N |-> U(i)]
             g == [p \in (1..N) \X Syncs |-> SyncBucket(p[2], p[1] - 1)]
             P(f) == f = [i \in 0..N |-> IF i = 0 THEN x ELSE SyncBucket(f[i - 1], i - 1)]
             h == CHOOSE f : P(f)
  <1>1. N \in Nat /\ \A i \in 1..N : i \in 0..N /\ i - 1 \in 0..N /\ i # 0
    BY SizesAssumption
  <1>2. x \in U(0)
    <2> DEFINE m == Reset(sys_c, FALSE)
    <2>1. Still(sys_c, disk, own, m, disk)
      BY ONLY Sound(sys_c, disk, ls, own), ResetSound
    <2> HIDE DEF m
    <2>2. PICK lt : Sound(m, disk, lt, own)
      BY <2>1 DEF Still
    <2>3. x = [n |-> m, d |-> disk, left |-> left, ok |-> TRUE]
      BY DEF m
    <2> HIDE DEF x
    <2>4. x \in Syncs /\ x.n = m /\ x.d = disk
      BY <2>2, <2>3 DEF Sound, Syncs
    <2>5. \A p \in Chains : ~(p[1] < 0)
      BY ChainFacts, SizesAssumption DEF Buckets
    <2> QED BY <2>1, <2>2, <2>4, <2>5 DEF Syncing, Still
  <1> HIDE DEF x
  <1>3. ASSUME NEW i \in 1..N, NEW r \in U(i - 1) PROVE SyncBucket(r, i - 1) \in U(i)
    <2>1. /\ SyncBucket(r, i - 1) \in Syncs
          /\ Syncing(sys_c, disk, own, SyncBucket(r, i - 1), i)
      <3>1. r \in Syncs /\ Syncing(sys_c, disk, own, r, i - 1)
        OBVIOUS
      <3> QED BY ONLY <3>1, i \in 1..N, SyncBucketSound
    <2> QED BY <2>1
  <1> HIDE DEF U
  <1>4. \A i \in 0..N : D[i] = U(i) /\ D[i] \subseteq Syncs
    <2>1. \A i \in 0..N : U(i) \subseteq Syncs
      BY DEF U
    <2> QED BY <2>1
  <1>5. \E f : P(f)
    <2>1. /\ x \in D[0]
          /\ \A i \in 1..N : \A y \in D[i - 1] :
                g[<<i, y>>] = SyncBucket(y, i - 1) /\ g[<<i, y>>] \in D[i]
      <3>1. 0 \in 0..N
        BY <1>1
      <3>2. ASSUME NEW i \in 1..N, NEW y \in D[i - 1]
            PROVE  g[<<i, y>>] = SyncBucket(y, i - 1) /\ g[<<i, y>>] \in D[i]
        <4>1. y \in U(i - 1) /\ y \in Syncs /\ D[i] = U(i)
          BY <1>1, <1>4
        <4>2. g[<<i, y>>] = SyncBucket(y, i - 1)
          BY <4>1
        <4> QED BY <1>3, <4>1, <4>2
      <3> QED BY <1>2, <1>4, <3>1, <3>2
    <2> HIDE DEF D, g, N
    <2>2. \E f : Turns(f, N, x, D, g)
      BY ONLY <1>1, <2>1, LoopExists
    <2>3. PICK f : /\ f = [i \in 0..N |-> f[i]] /\ f[0] = x
                   /\ \A i \in 1..N : f[i - 1] \in D[i - 1] /\ f[i] = g[<<i, f[i - 1]>>]
      BY <2>2 DEF Turns
    <2>4. \A i \in 0..N : f[i] = IF i = 0 THEN x ELSE SyncBucket(f[i - 1], i - 1)
      <3>1. \A i \in 0..N : i # 0 => i \in 1..N
        BY <1>1
      <3> QED BY <2>1, <2>3, <3>1
    <2>5. P(f)
      BY <2>3, <2>4
    <2> QED BY <2>5
  <1>6. P(h)
    <2> HIDE DEF P
    <2> QED BY <1>5
  <1>7. SyncUpTo(left) = h[N]
    BY DEF SyncUpTo, x
  <1> HIDE DEF h
  <1>8. h[0] = x /\ \A i \in 1..N : h[i] = SyncBucket(h[i - 1], i - 1)
    <2>1. \A i \in 0..N : h[i] = IF i = 0 THEN x ELSE SyncBucket(h[i - 1], i - 1)
      BY <1>6
    <2>2. 0 \in 0..N
      BY <1>1
    <2> QED BY <1>1, <2>1, <2>2
  <1>9. h[N] \in U(N)
    <2>1. N \in 0..N /\ 0 \in 0..N
      BY <1>1
    <2>2. D[0] = U(0) /\ D[N] = U(N) /\ \A i \in 1..N : D[i] = U(i) /\ D[i - 1] = U(i - 1)
      BY <1>1, <1>4, <2>1
    <2> HIDE DEF D
    <2>3. h[0] \in D[0] /\ \A i \in 1..N : h[i - 1] \in D[i - 1] => h[i] \in D[i]
      BY <1>2, <1>3, <1>8, <2>2
    <2> HIDE DEF N
    <2>4. h[N] \in D[N]
      BY ONLY <1>1, <2>3, LoopKeeps
    <2> QED BY <2>2, <2>4
  <1> DEFINE r == SyncUpTo(left)
  <1>10. r \in Syncs /\ Syncing(sys_c, disk, own, r, cwidth)
    BY <1>7, <1>9 DEF U, N
  <1> HIDE DEF r
  <1>11. PICK lt : /\ Sound(r.n, r.d, lt, own)
                   /\ r.ok => \A p \in Chains : p[1] < cwidth /\ p[2] \in {"mold", "mactive"}
                                                   => lt[p] = <<>>
    BY <1>10 DEF Syncing
  <1>12. Kept(sys_c, disk, r.n, r.d)
    BY <1>10 DEF Syncing
  <1>13. ASSUME r.ok, NEW o \in Objects PROVE r.d[o] = Attributes(sys_c, disk, o)
    <2>1. Attributes(r.n, r.d, o) = Attributes(sys_c, disk, o)
      BY <1>12 DEF Kept
    <2>2. CASE Absent(r.n, lt, o)
      <3>1. Attributes(r.n, r.d, o) = r.d[o]
        BY ONLY <1>11, <2>2, AttributesAre, o \in Objects
      <3> QED BY <2>1, <3>1
    <2>3. CASE ~Absent(r.n, lt, o)
      <3>1. PICK q \in Chains : \E e \in Set(lt[q]) : r.n.op[e].name = o
        BY <2>3 DEF Absent
      <3>2. PICK e \in Set(lt[q]) : r.n.op[e].name = o
        BY <3>1
      <3>3. r.n \in Caches /\ Listed(r.n, lt) /\ Contents(r.n, r.d, lt)
        BY <1>11 DEF Sound
      <3>4. r.n.op[e] # NoOp
        <4>1. e \in Blocks
          BY <3>3, OnBlocks
        <4> QED BY <3>2, <3>3, <4>1, OpFacts
      <3>5. q[2] \in {"active", "old"}
        <4>1. q[1] < cwidth /\ q[2] \in Kinds
          BY ChainFacts, SizesAssumption DEF Buckets
        <4>2. lt[q] # <<>>
          <5>1. Set(<<>>) = {}
            BY DEF Set
          <5> QED BY <5>1
        <4> QED BY <4>1, <4>2, <1>11, <1>13 DEF Kinds
      <3>6. r.n.op[e].atrs = r.d[o]
        BY <3>2, <3>3, <3>4, <3>5 DEF Contents
      <3>7. Attributes(r.n, r.d, o) = r.n.op[e].atrs
        BY ONLY <1>11, <3>2, AttributesIn, o \in Objects, q \in Chains
      <3> QED BY <2>1, <3>6, <3>7
    <2> QED BY <2>2, <2>3
  <1> QED BY <1>11, <1>12, <1>13 DEF Still, r

-----------------------------------------------------------------------------
(* The cache at the start *)

Members(n, own, x) == {e \in n.used : own[e] = x}

(* cache_init has filled the buckets before b and put y entries in that.   *)
(* The counts of those before c are set.                                   *)
Filling(n, b, y, c) ==
    /\ n \in Caches /\ \A e \in Blocks : n.op[e] = NoOp
    /\ \E ls, own :
          /\ Listed(n, ls) /\ own \in [Blocks -> Buckets]
          /\ \A q \in Chains : \A e \in Set(ls[q]) :
                e \in n.used /\ own[e] = q[1] /\ q[2] = "old"
          /\ \A x \in Buckets :
                /\ x < b => Cardinality(Members(n, own, x)) = cdepth
                /\ x = b => Cardinality(Members(n, own, x)) = y
                /\ x > b => Cardinality(Members(n, own, x)) = 0
    /\ Cardinality(n.used) = b * cdepth + y
    /\ \A x \in Buckets : n.count[x] = IF x < c THEN cdepth ELSE 0

(* There is an entry left to put in bucket b.                              *)
LEMMA Room ==
    ASSUME NEW b \in Buckets, NEW y \in 1..cdepth, NEW n, n.used \in SUBSET Blocks,
           Cardinality(n.used) = b * cdepth + (y - 1)
    PROVE  \E e \in Blocks : e \notin n.used
PROOF
  <1>1. /\ b \in Nat /\ cdepth \in Nat /\ cwidth \in Nat /\ b + 1 <= cwidth /\ y <= cdepth
        /\ cwidth * cdepth <= Cardinality(Blocks) /\ IsFiniteSet(Blocks) /\ y \in Nat
    BY SizesAssumption DEF Buckets
  <1>2. (b + 1) * cdepth <= cwidth * cdepth
    BY <1>1
  <1>3. (b + 1) * cdepth = b * cdepth + cdepth /\ b * cdepth \in Nat
    BY <1>1
  <1>4. Cardinality(Blocks) \in Nat /\ cwidth * cdepth \in Nat
    BY <1>1, FS_CardinalityType
  <1>5. b * cdepth + (y - 1) < Cardinality(Blocks)
    <2> DEFINE u == b * cdepth
               w == cwidth * cdepth
    <2>1. u \in Nat /\ w \in Nat /\ u + cdepth <= w /\ w <= Cardinality(Blocks)
      BY <1>1, <1>2, <1>3, <1>4
    <2> HIDE DEF u, w
    <2>2. u + (y - 1) < Cardinality(Blocks)
      BY <2>1, <1>1, <1>4
    <2> QED BY <2>2 DEF u
  <1>6. n.used # Blocks
    BY <1>4, <1>5, <1>3, <1>1
  <1> QED BY <1>6

LEMMA PreallocFills ==
    ASSUME NEW b \in Buckets, NEW y \in 1..cdepth, NEW n, Filling(n, b, y - 1, b + 1)
    PROVE  Filling(Prealloc(n, b), b, y, b + 1)
PROOF
  <1> DEFINE e == CHOOSE f \in Blocks : f \notin n.used
             q == <<b, "old">>
             k == INSHEAD(n, q, e)
             U == n.used \cup {e}
             m == [k EXCEPT !.used = @ \cup {e}]
  <1>1. n \in Caches /\ Cardinality(n.used) = b * cdepth + (y - 1) /\ n.used \in SUBSET Blocks
    <2>1. n \in Caches
      BY DEF Filling
    <2> QED BY <2>1, CacheFacts DEF Filling
  <1>2. e \in Blocks /\ e \notin n.used
    <2>1. \E f \in Blocks : f \notin n.used
      BY <1>1, Room
    <2> QED BY <2>1
  <1> HIDE DEF e
  <1>3. PICK ls, own :
          /\ Listed(n, ls) /\ own \in [Blocks -> Buckets]
          /\ \A p \in Chains : \A f \in Set(ls[p]) : f \in n.used /\ own[f] = p[1] /\ p[2] = "old"
          /\ \A x \in Buckets :
                /\ x < b => Cardinality(Members(n, own, x)) = cdepth
                /\ x = b => Cardinality(Members(n, own, x)) = y - 1
                /\ x > b => Cardinality(Members(n, own, x)) = 0
    BY DEF Filling
  <1>4. q \in Chains /\ q[1] = b /\ q[2] = "old"
    BY ChainFacts
  <1> DEFINE lt == [ls EXCEPT ![q] = <<e>> \o ls[q]]
             ow == [own EXCEPT ![e] = b]
             In(x) == Members(n, own, x)
             Im(x) == {f \in U : ow[f] = x}
  <1>5. \A p \in Chains : e \notin Set(ls[p])
    BY <1>2, <1>3
  <1>6. Relinked(n, k, lt)
    <2> HIDE DEF q, k
    <2>1. Relinked(n, INSHEAD(n, q, e), [ls EXCEPT ![q] = <<e>> \o ls[q]])
      BY <1>1, <1>2, <1>3, <1>4, <1>5, InsheadLinks
    <2> QED BY <2>1 DEF k
  <1>7. \A p \in Chains : Set(lt[p]) = IF p = q THEN Set(ls[p]) \cup {e} ELSE Set(ls[p])
    <2>1. ls[q] \in Seq(Blocks) /\ <<e>> \in Seq(Blocks) /\ ls \in [Chains -> Seq(Blocks)]
      BY <1>2, <1>3, <1>4 DEF Listed
    <2>2. Set(<<e>> \o ls[q]) = Set(<<e>>) \cup Set(ls[q])
      <3> DEFINE u == <<e>>
                 v == ls[q]
      <3>1. u \in Seq(Blocks) /\ v \in Seq(Blocks)
        BY <2>1
      <3> HIDE DEF u, v
      <3>2. Set(u \o v) = Set(u) \cup Set(v)
        BY ONLY <3>1, ConcatFacts
      <3> QED BY <3>2 DEF u, v
    <2>3. Set(<<e>>) = {e}
      BY DEF Set
    <2> HIDE DEF q
    <2>4. lt[q] = <<e>> \o ls[q] /\ \A p \in Chains : p # q => lt[p] = ls[p]
      BY <2>1, <1>4
    <2> HIDE DEF lt
    <2> QED BY <2>2, <2>3, <2>4
  <1>8. Listed(k, lt) /\ k \in Caches /\ k.op = n.op /\ k.count = n.count /\ k.used = n.used
    BY <1>6 DEF Relinked
  <1>9. U \in SUBSET Blocks
    BY <1>1, <1>2
  <1> HIDE DEF lt, k
  <1>10. m = [k EXCEPT !.used = U]
    BY <1>8 DEF Caches
  <1> HIDE DEF m
  <1>11. /\ m \in Caches /\ m.used = U /\ m.op = k.op /\ m.count = k.count
         /\ m.nxt = k.nxt /\ m.prv = k.prv /\ m.head = k.head /\ m.tail = k.tail
    <2> HIDE DEF U
    <2> QED BY <1>8, <1>9, <1>10 DEF Caches
  <1>12. Listed(m, lt)
    BY <1>8, <1>11, ListedSame
  <1>13. /\ ow \in [Blocks -> Buckets] /\ ow[e] = b
         /\ \A f \in Blocks : f # e => ow[f] = own[f]
    BY <1>2, <1>3
  <1>14. \A x \in Buckets : Im(x) = IF x = b THEN In(x) \cup {e} ELSE In(x)
    BY <1>1, <1>2, <1>13 DEF Members
  <1>15. \A x \in Buckets : IsFiniteSet(In(x)) /\ e \notin In(x)
    <2>1. \A x \in Buckets : In(x) \in SUBSET Blocks /\ e \notin In(x)
      BY <1>1, <1>2 DEF Members
    <2> HIDE DEF In
    <2> QED BY <2>1, SizesAssumption, FS_Subset
  <1>16. \A x \in Buckets : Im(x) = Members(m, ow, x)
    BY <1>11 DEF Members
  <1> HIDE DEF Im, In, ow
  <1>17. \A x \in Buckets : /\ x # b => Im(x) = In(x)
                            /\ x = b => Cardinality(Im(x)) = Cardinality(In(x)) + 1
    BY <1>14, <1>15, FS_AddElement
  <1>18. \A x \in Buckets :
            /\ x < b => Cardinality(Members(m, ow, x)) = cdepth
            /\ x = b => Cardinality(Members(m, ow, x)) = y
            /\ x > b => Cardinality(Members(m, ow, x)) = 0
    <2>1. b \in Nat /\ y - 1 + 1 = y /\ Buckets \subseteq Nat
      BY SizesAssumption DEF Buckets
    <2>2. \A x \in Buckets : Cardinality(Members(m, ow, x)) = Cardinality(Im(x))
      BY <1>16
    <2>3. \A x \in Buckets : (x < b => x # b) /\ (x > b => x # b)
      BY <2>1
    <2> QED BY <1>3, <1>17, <2>1, <2>2, <2>3 DEF In
  <1>19. Cardinality(U) = b * cdepth + y
    <2>1. IsFiniteSet(n.used)
      BY <1>1, SizesAssumption, FS_Subset
    <2>2. Cardinality(U) = Cardinality(n.used) + 1
      BY <2>1, <1>2, FS_AddElement
    <2>3. b * cdepth \in Nat /\ y \in Nat
      BY SizesAssumption DEF Buckets
    <2> QED BY <1>1, <2>2, <2>3
  <1>20. \A p \in Chains : \A f \in Set(lt[p]) : f \in m.used /\ ow[f] = p[1] /\ p[2] = "old"
    <2>1. ASSUME NEW p \in Chains, NEW f \in Set(lt[p])
          PROVE  f \in U /\ ow[f] = p[1] /\ p[2] = "old"
      <3>1. CASE f = e
        <4>1. p = q
          BY <1>5, <1>7, <2>1, <3>1
        <4> QED BY <3>1, <4>1, <1>4, <1>13
      <3>2. CASE f # e
        <4>1. f \in Set(ls[p])
          BY <1>7, <2>1, <3>2
        <4>2. f \in n.used /\ f \in Blocks
          BY <4>1, <1>1, <1>3
        <4> QED BY <3>2, <4>1, <4>2, <1>3, <1>13
      <3> QED BY <3>1, <3>2
    <2> QED BY <2>1, <1>11
  <1>21. \A f \in Blocks : m.op[f] = NoOp
    BY <1>8, <1>11 DEF Filling
  <1>22. \A x \in Buckets : m.count[x] = IF x < b + 1 THEN cdepth ELSE 0
    BY <1>8, <1>11 DEF Filling
  <1>23. Filling(m, b, y, b + 1)
    BY <1>11, <1>12, <1>13, <1>18, <1>19, <1>20, <1>21, <1>22 DEF Filling
  <1> QED BY <1>23 DEF m, k, q, e, Prealloc

LEMMA InitBucketFills ==
    ASSUME NEW b \in Buckets, NEW n, Filling(n, b, 0, b)
    PROVE  Filling(InitBucket(n, b), b + 1, 0, b + 1)
PROOF
  <1> DEFINE N == cdepth
             x == [n EXCEPT !.count[b] = cdepth]
             U(i) == {m \in Caches : Filling(m, b, i, b + 1)}
             D == [i \in 0..N |-> U(i)]
             g == [p \in (1..N) \X Caches |-> Prealloc(p[2], b)]
             P(f) == f = [i \in 0..N |-> IF i = 0 THEN x ELSE Prealloc(f[i - 1], b)]
             h == CHOOSE f : P(f)
  <1>1. N \in Nat /\ \A i \in 1..N : i \in 0..N /\ i - 1 \in 0..N /\ i # 0
    BY SizesAssumption
  <1>2. x \in U(0)
    <2> DEFINE K == [n.count EXCEPT ![b] = cdepth]
    <2>1. n \in Caches
      BY DEF Filling
    <2>2. /\ n.nxt \in [Blocks -> Ptr] /\ n.prv \in [Blocks -> Ptr]
          /\ n.head \in [Chains -> Ptr] /\ n.tail \in [Chains -> Ptr]
          /\ n.op \in [Blocks -> Ops] /\ n.count \in [Buckets -> Nat] /\ n.used \in SUBSET Blocks
      BY <2>1, CacheFacts
    <2>3. K \in [Buckets -> Nat]
      BY <1>1, <2>2
    <2>4. x = [n EXCEPT !.count = K]
      BY <2>1 DEF Caches
    <2>5. K[b] = cdepth /\ \A z \in Buckets : z # b => K[z] = n.count[z]
      BY <2>2
    <2> HIDE DEF K, x
    <2>6. /\ x \in Caches /\ x.count = K /\ x.op = n.op /\ x.used = n.used
          /\ x.nxt = n.nxt /\ x.prv = n.prv /\ x.head = n.head /\ x.tail = n.tail
      BY <2>1, <2>3, <2>4 DEF Caches
    <2>7. \A z \in Buckets : x.count[z] = IF z < b + 1 THEN cdepth ELSE 0
      <3>1. \A z \in Buckets : n.count[z] = IF z < b THEN cdepth ELSE 0
        BY DEF Filling
      <3>2. Buckets \subseteq Nat
        BY SizesAssumption DEF Buckets
      <3>3. \A z \in Buckets : z < b + 1 <=> z < b \/ z = b
        BY <3>2
      <3> QED BY <2>5, <2>6, <3>1, <3>3
    <2>8. PICK ls, own :
            /\ Listed(n, ls) /\ own \in [Blocks -> Buckets]
            /\ \A p \in Chains : \A f \in Set(ls[p]) : f \in n.used /\ own[f] = p[1] /\ p[2] = "old"
            /\ \A z \in Buckets :
                  /\ z < b => Cardinality(Members(n, own, z)) = cdepth
                  /\ z = b => Cardinality(Members(n, own, z)) = 0
                  /\ z > b => Cardinality(Members(n, own, z)) = 0
      BY DEF Filling
    <2>9. Listed(x, ls)
      BY <2>6, <2>8, ListedSame
    <2>10. \A z : Members(x, own, z) = Members(n, own, z)
      BY <2>6 DEF Members
    <2>11. Filling(x, b, 0, b + 1)
      <3>1. Cardinality(x.used) = b * cdepth + 0 /\ \A e \in Blocks : x.op[e] = NoOp
        BY <2>6 DEF Filling
      <3> QED BY <2>6, <2>7, <2>8, <2>9, <2>10, <3>1 DEF Filling
    <2> QED BY <2>6, <2>11
  <1> HIDE DEF x
  <1>3. ASSUME NEW i \in 1..N, NEW m \in U(i - 1) PROVE Prealloc(m, b) \in U(i)
    <2>1. Filling(m, b, i - 1, b + 1) /\ i \in 1..cdepth
      OBVIOUS
    <2>2. Filling(Prealloc(m, b), b, i, b + 1)
      BY ONLY <2>1, PreallocFills, b \in Buckets
    <2>3. Prealloc(m, b) \in Caches
      BY <2>2 DEF Filling
    <2> QED BY <2>2, <2>3
  <1> HIDE DEF U
  <1>4. \A i \in 0..N : D[i] = U(i) /\ D[i] \subseteq Caches
    <2>1. \A i \in 0..N : U(i) \subseteq Caches
      BY DEF U
    <2> QED BY <2>1
  <1>5. \E f : P(f)
    <2>1. /\ x \in D[0]
          /\ \A i \in 1..N : \A y \in D[i - 1] :
               g[<<i, y>>] = Prealloc(y, b) /\ g[<<i, y>>] \in D[i]
      <3>1. 0 \in 0..N
        BY <1>1
      <3>2. ASSUME NEW i \in 1..N, NEW y \in D[i - 1]
            PROVE  g[<<i, y>>] = Prealloc(y, b) /\ g[<<i, y>>] \in D[i]
        <4>1. y \in U(i - 1) /\ y \in Caches /\ D[i] = U(i)
          BY <1>1, <1>4
        <4>2. g[<<i, y>>] = Prealloc(y, b)
          BY <4>1
        <4> QED BY <1>3, <4>1, <4>2
      <3> QED BY <1>2, <1>4, <3>1, <3>2
    <2> HIDE DEF D, g, N
    <2>2. \E f : Turns(f, N, x, D, g)
      BY ONLY <1>1, <2>1, LoopExists
    <2>3. PICK f : /\ f = [i \in 0..N |-> f[i]] /\ f[0] = x
                   /\ \A i \in 1..N : f[i - 1] \in D[i - 1] /\ f[i] = g[<<i, f[i - 1]>>]
      BY <2>2 DEF Turns
    <2>4. \A i \in 0..N : f[i] = IF i = 0 THEN x ELSE Prealloc(f[i - 1], b)
      <3>1. \A i \in 0..N : i # 0 => i \in 1..N
        BY <1>1
      <3> QED BY <2>1, <2>3, <3>1
    <2>5. P(f)
      BY <2>3, <2>4
    <2> QED BY <2>5
  <1>6. P(h)
    <2> HIDE DEF P
    <2> QED BY <1>5
  <1>7. InitBucket(n, b) = h[N]
    BY DEF InitBucket, x
  <1> HIDE DEF h
  <1>8. h[0] = x /\ \A i \in 1..N : h[i] = Prealloc(h[i - 1], b)
    <2>1. \A i \in 0..N : h[i] = IF i = 0 THEN x ELSE Prealloc(h[i - 1], b)
      BY <1>6
    <2>2. 0 \in 0..N
      BY <1>1
    <2> QED BY <1>1, <2>1, <2>2
  <1>9. h[N] \in U(N)
    <2>1. N \in 0..N /\ 0 \in 0..N
      BY <1>1
    <2>2. D[0] = U(0) /\ D[N] = U(N) /\ \A i \in 1..N : D[i] = U(i) /\ D[i - 1] = U(i - 1)
      BY <1>1, <1>4, <2>1
    <2> HIDE DEF D
    <2>3. h[0] \in D[0] /\ \A i \in 1..N : h[i - 1] \in D[i - 1] => h[i] \in D[i]
      BY <1>2, <1>3, <1>8, <2>2
    <2> HIDE DEF N
    <2>4. h[N] \in D[N]
      BY ONLY <1>1, <2>3, LoopKeeps
    <2> QED BY <2>2, <2>4
  <1> DEFINE m == InitBucket(n, b)
  <1>10. Filling(m, b, cdepth, b + 1)
    BY <1>7, <1>9 DEF U, N
  <1> HIDE DEF m, h
  <1>11. Filling(m, b + 1, 0, b + 1)
    <2>1. Buckets \subseteq Nat /\ cdepth \in Nat
      BY SizesAssumption DEF Buckets
    <2>2. \A z \in Buckets : /\ z < b + 1 <=> z < b \/ z = b
                             /\ z = b + 1 => z > b
                             /\ z > b + 1 => z > b
      BY <2>1
    <2>3. b * cdepth + cdepth = (b + 1) * cdepth + 0
      BY <2>1
    <2> QED BY <1>10, <2>2, <2>3 DEF Filling
  <1> QED BY <1>11 DEF m

(* The cache cache_init leaves holds no object.                            *)
LEMMA InitSound ==
    /\ \A d \in Disks : \E ls, own : Sound(cache_init, d, ls, own)
    /\ \A d \in Disks, o \in Objects :
          Attributes(cache_init, d, o) = d[o] /\ FoundIn(cache_init, o) = "none"
PROOF
  <1> DEFINE N == cwidth
             U(i) == {m \in Caches : Filling(m, i, 0, i)}
             D == [i \in 0..N |-> U(i)]
             g == [p \in (1..N) \X Caches |-> InitBucket(p[2], p[1] - 1)]
             P(f) == f = [i \in 0..N |-> IF i = 0 THEN NoCache ELSE InitBucket(f[i - 1], i - 1)]
             h == CHOOSE f : P(f)
  <1>1. N \in Nat /\ \A i \in 1..N : i \in 0..N /\ i - 1 \in 0..N /\ i # 0
    BY SizesAssumption
  <1>2. NoCache \in U(0)
    <2> DEFINE ls == [q \in Chains |-> <<>>]
               own == [e \in Blocks |-> 0]
    <2>1. NoCache \in Caches
      BY DEF NoCache, Caches, Ptr, Ops
    <2>2. 0 \in Buckets /\ cdepth \in Nat
      BY SizesAssumption DEF Buckets
    <2>3. Listed(NoCache, ls)
      <3>1. ls \in [Chains -> Seq(Blocks)] /\ \A q \in Chains : ls[q] = <<>>
        OBVIOUS
      <3> HIDE DEF ls
      <3>2. Set(<<>>) = {}
        BY DEF Set
      <3>3. \A q \in Chains : ChainAt(NoCache, q, <<>>)
        BY ChainFacts DEF ChainAt, IsPath, IsBack, NoCache
      <3> QED BY <3>1, <3>2, <3>3 DEF Listed
    <2>4. \A q \in Chains : Set(ls[q]) = {}
      BY DEF Set
    <2>5. own \in [Blocks -> Buckets]
      BY <2>2
    <2> HIDE DEF ls, own
    <2>6. \A x \in Buckets : Members(NoCache, own, x) = {}
      BY DEF Members, NoCache
    <2>7. Cardinality({}) = 0 /\ NoCache.used = {} /\ 0 = 0 * cdepth + 0
      BY <2>2, FS_EmptySet DEF NoCache
    <2>8. \A x \in Buckets : ~(x < 0)
      BY SizesAssumption DEF Buckets
    <2>9. \A x \in Buckets : NoCache.count[x] = IF x < 0 THEN cdepth ELSE 0
      BY <2>8 DEF NoCache
    <2>10. \A e \in Blocks : NoCache.op[e] = NoOp
      BY DEF NoCache
    <2>11. Filling(NoCache, 0, 0, 0)
      BY <2>1, <2>3, <2>4, <2>5, <2>6, <2>7, <2>8, <2>9, <2>10 DEF Filling
    <2> QED BY <2>1, <2>11
  <1>3. ASSUME NEW i \in 1..N, NEW m \in U(i - 1) PROVE InitBucket(m, i - 1) \in U(i)
    <2>1. Filling(m, i - 1, 0, i - 1) /\ i - 1 \in Buckets /\ i - 1 + 1 = i
      BY BucketOf
    <2>2. Filling(InitBucket(m, i - 1), i - 1 + 1, 0, i - 1 + 1)
      BY ONLY <2>1, InitBucketFills
    <2> HIDE DEF U
    <2>3. Filling(InitBucket(m, i - 1), i, 0, i)
      BY <2>1, <2>2
    <2>4. InitBucket(m, i - 1) \in Caches
      BY <2>3 DEF Filling
    <2> QED BY <2>3, <2>4 DEF U
  <1> HIDE DEF U
  <1>4. \A i \in 0..N : D[i] = U(i) /\ D[i] \subseteq Caches
    <2>1. \A i \in 0..N : U(i) \subseteq Caches
      BY DEF U
    <2> QED BY <2>1
  <1>5. \E f : P(f)
    <2>1. /\ NoCache \in D[0]
          /\ \A i \in 1..N : \A y \in D[i - 1] :
               g[<<i, y>>] = InitBucket(y, i - 1) /\ g[<<i, y>>] \in D[i]
      <3>1. 0 \in 0..N
        BY <1>1
      <3>2. ASSUME NEW i \in 1..N, NEW y \in D[i - 1]
            PROVE  g[<<i, y>>] = InitBucket(y, i - 1) /\ g[<<i, y>>] \in D[i]
        <4>1. y \in U(i - 1) /\ y \in Caches /\ D[i] = U(i)
          BY <1>1, <1>4
        <4>2. g[<<i, y>>] = InitBucket(y, i - 1)
          BY <4>1
        <4> QED BY <1>3, <4>1, <4>2
      <3> QED BY <1>2, <1>4, <3>1, <3>2
    <2> HIDE DEF D, g, N
    <2>2. \E f : Turns(f, N, NoCache, D, g)
      BY ONLY <1>1, <2>1, LoopExists
    <2>3. PICK f : /\ f = [i \in 0..N |-> f[i]] /\ f[0] = NoCache
                   /\ \A i \in 1..N : f[i - 1] \in D[i - 1] /\ f[i] = g[<<i, f[i - 1]>>]
      BY <2>2 DEF Turns
    <2>4. \A i \in 0..N : f[i] = IF i = 0 THEN NoCache ELSE InitBucket(f[i - 1], i - 1)
      <3>1. \A i \in 0..N : i # 0 => i \in 1..N
        BY <1>1
      <3> QED BY <2>1, <2>3, <3>1
    <2>5. P(f)
      BY <2>3, <2>4
    <2> QED BY <2>5
  <1>6. P(h)
    <2> HIDE DEF P
    <2> QED BY <1>5
  <1>7. cache_init = h[N]
    BY DEF cache_init
  <1> HIDE DEF h
  <1>8. h[0] = NoCache /\ \A i \in 1..N : h[i] = InitBucket(h[i - 1], i - 1)
    <2>1. \A i \in 0..N : h[i] = IF i = 0 THEN NoCache ELSE InitBucket(h[i - 1], i - 1)
      BY <1>6
    <2>2. 0 \in 0..N
      BY <1>1
    <2> QED BY <1>1, <2>1, <2>2
  <1>9. h[N] \in U(N)
    <2>1. N \in 0..N /\ 0 \in 0..N
      BY <1>1
    <2>2. D[0] = U(0) /\ D[N] = U(N) /\ \A i \in 1..N : D[i] = U(i) /\ D[i - 1] = U(i - 1)
      BY <1>1, <1>4, <2>1
    <2> HIDE DEF D
    <2>3. h[0] \in D[0] /\ \A i \in 1..N : h[i - 1] \in D[i - 1] => h[i] \in D[i]
      BY <1>2, <1>3, <1>8, <2>2
    <2> HIDE DEF N
    <2>4. h[N] \in D[N]
      BY ONLY <1>1, <2>3, LoopKeeps
    <2> QED BY <2>2, <2>4
  <1> DEFINE m == cache_init
  <1>10. Filling(m, cwidth, 0, cwidth)
    BY <1>7, <1>9 DEF U, N
  <1> HIDE DEF m, h
  <1>11. PICK ls, own :
          /\ Listed(m, ls) /\ own \in [Blocks -> Buckets]
          /\ \A q \in Chains : \A e \in Set(ls[q]) : e \in m.used /\ own[e] = q[1] /\ q[2] = "old"
          /\ \A x \in Buckets : x < cwidth => Cardinality(Members(m, own, x)) = cdepth
    BY <1>10 DEF Filling
  <1>12. m \in Caches /\ \A e \in Blocks : m.op[e] = NoOp
    BY <1>10 DEF Filling
  <1>13. \A q \in Chains : \A e \in Set(ls[q]) : e \in Blocks /\ m.op[e] = NoOp
    BY <1>11, <1>12, OnBlocks
  <1>14. Counted(m, ls, own)
    <2>1. \A x \in Buckets : x < cwidth
      BY SizesAssumption DEF Buckets
    <2>2. \A x \in Buckets : m.count[x] = Cardinality(Members(m, own, x))
      BY <1>10, <1>11, <2>1 DEF Filling
    <2> QED BY <1>11, <2>2 DEF Counted, Members
  <1>15. ASSUME NEW d \in Disks PROVE Sound(m, d, ls, own)
    <2>1. Contents(m, d, ls)
      <3>1. \A q, r \in Chains : \A e \in Set(ls[q]), f \in Set(ls[r]) : m.op[e] = NoOp
        BY <1>13
      <3> QED BY <1>11, <1>13, <3>1 DEF Contents
    <2> QED BY <1>11, <1>12, <1>14, <2>1 DEF Sound
  <1>16. ASSUME NEW d \in Disks, NEW o \in Objects
         PROVE  Attributes(m, d, o) = d[o] /\ FoundIn(m, o) = "none"
    <2>1. Absent(m, ls, o)
      <3>1. NoOp.name # o
        BY ChainFacts DEF NoOp
      <3> QED BY <1>13, <3>1 DEF Absent
    <2>2. Sound(m, d, ls, own)
      BY <1>15
    <2>3. Attributes(m, d, o) = d[o]
      BY ONLY <2>1, <2>2, AttributesAre, o \in Objects
    <2> DEFINE k == FirstOf(m, o, SearchOrder)
               e == Find(m, <<Bucket(o), k>>, o)
    <2>4. Found(m, ls, o, k, e)
      BY ONLY <2>2, SearchFacts, o \in Objects
    <2> HIDE DEF k, e
    <2>5. k = "none"
      BY <1>12, <2>4 DEF Found, Holds
    <2> QED BY <2>3, <2>5 DEF k, FoundIn
  <1> QED BY <1>15, <1>16 DEF m

-----------------------------------------------------------------------------
(* What FETCH has given out *)

Pins == {"active", "mactive"}
Safe(n, o) == FoundIn(n, o) \in Pins
Stays(n, m) == \A o \in Objects : Safe(n, o) => Safe(m, o)

(* An entry that has object o is the one that is found.                    *)
IsFound(n, ls, o) ==
    \A q \in Chains : \A e \in Set(ls[q]) :
       n.op[e].name = o => FoundIn(n, o) = q[2]

LEMMA FoundWhere ==
    ASSUME NEW n, NEW d, NEW ls, NEW own, Sound(n, d, ls, own), NEW o \in Objects
    PROVE  /\ IsFound(n, ls, o)
           /\ FoundIn(n, o) # "none"
                 => Holds(n, ls, o, FoundIn(n, o), Find(n, <<Bucket(o), FoundIn(n, o)>>, o))
           /\ FoundIn(n, o) = "none" => Absent(n, ls, o)
PROOF
  <1> DEFINE k == FoundIn(n, o)
             e == Find(n, <<Bucket(o), k>>, o)
  <1>1. Found(n, ls, o, k, e)
    BY SearchFacts DEF FoundIn
  <1>2. n \in Caches /\ Listed(n, ls) /\ Contents(n, d, ls)
    BY DEF Sound
  <1>3. ASSUME NEW q \in Chains, NEW f \in Set(ls[q]), n.op[f].name = o
        PROVE  k = q[2]
    <2> HIDE DEF k, e
    <2>1. k # "none"
      BY <1>1, <1>3 DEF Found, Absent
    <2>2. Holds(n, ls, o, k, e)
      BY <1>1, <2>1 DEF Found
    <2>3. e = f
      <3>1. n.op[e].name = n.op[f].name
        BY <1>3, <2>2 DEF Holds
      <3> QED BY <3>1, <1>2, <1>3, <2>2 DEF Contents, Holds
    <2>4. q = <<Bucket(o), k>>
      BY <1>2, <1>3, <2>2, <2>3, OnOne DEF Holds
    <2> QED BY <2>4
  <1> QED BY <1>1, <1>3 DEF Found, IsFound, k, e

LEMMA StaysIf ==
    ASSUME NEW n, NEW d, NEW ls, NEW own, Sound(n, d, ls, own),
           NEW m, NEW c, NEW lt, NEW ow, Sound(m, c, lt, ow),
           \A q \in Chains : \A e \in Set(ls[q]) :
              q[2] \in Pins => \E r \in Chains : /\ r[2] \in Pins /\ e \in Set(lt[r])
                                                 /\ m.op[e].name = n.op[e].name
    PROVE  Stays(n, m)
PROOF
  <1>1. ASSUME NEW o \in Objects, Safe(n, o) PROVE Safe(m, o)
    <2> DEFINE k == FoundIn(n, o)
               e == Find(n, <<Bucket(o), k>>, o)
    <2>1. k \in Pins /\ k # "none"
      BY <1>1 DEF Safe, Pins
    <2>2. Holds(n, ls, o, k, e)
      BY ONLY <2>1, FoundWhere, o \in Objects, Sound(n, d, ls, own)
    <2> HIDE DEF k, e
    <2>3. /\ <<Bucket(o), k>> \in Chains /\ <<Bucket(o), k>>[2] \in Pins
          /\ e \in Set(ls[<<Bucket(o), k>>]) /\ n.op[e].name = o
      BY <2>1, <2>2 DEF Holds
    <2>4. PICK r \in Chains : r[2] \in Pins /\ e \in Set(lt[r]) /\ m.op[e].name = n.op[e].name
      BY <2>3
    <2>5. FoundIn(m, o) = r[2]
      <3>1. m.op[e].name = o /\ e \in Set(lt[r])
        BY <2>3, <2>4
      <3>2. IsFound(m, lt, o)
        BY ONLY FoundWhere, o \in Objects, Sound(m, c, lt, ow)
      <3> QED BY <3>1, <3>2 DEF IsFound
    <2> QED BY <2>4, <2>5 DEF Safe
  <1> QED BY <1>1 DEF Stays

-----------------------------------------------------------------------------
(* FETCH, STORE and DELETE *)

(* From n, d to m, c object o gets the attributes a and is kept until the  *)
(* next cache_reset, and the other objects keep what they have.            *)
After(n, d, m, c, o, a) ==
    /\ \E ls, own : Sound(m, c, ls, own)
    /\ \A x \in Objects : Attributes(m, c, x) = IF x = o THEN a ELSE Attributes(n, d, x)
    /\ \A x \in Objects : c[x] = d[x] \/ c[x] = Attributes(n, d, x)
    /\ Stays(n, m) /\ Safe(m, o)

(* An object that could not be written is lost.                            *)
Lost(n, d, m, c) ==
    /\ \E ls, own : Sound(m, c, ls, own)
    /\ c = d
    /\ \E o \in Objects : \A x \in Objects :
          Attributes(m, c, x) = IF x = o THEN d[x] ELSE Attributes(n, d, x)
    /\ Stays(n, m)

(* m is n with entry e on chain r.                                         *)
MovedTo(n, ls, m, lt, r, e) ==
    Relinked(n, m, lt) /\ Placed(ls, lt, r, e)

LEMMA MoveLinks ==
    ASSUME NEW n \in Caches, NEW ls, Listed(n, ls), NEW q \in Chains, NEW r \in Chains,
           NEW e \in Set(ls[q]), q # r
    PROVE  \E lt : MovedTo(n, ls, Move(n, q, r, e), lt, r, e)
PROOF
  <1> DEFINE k == DEQUEUE(n, q, e)
             m == INSHEAD(k, r, e)
  <1>1. /\ ls[q] \in Seq(Blocks) /\ ls[r] \in Seq(Blocks) /\ ls \in [Chains -> Seq(Blocks)]
        /\ \A i, j \in DOMAIN ls[q] : ls[q][i] = ls[q][j] => i = j
        /\ e \in Blocks
    BY ListFacts, OnBlocks DEF Listed
  <1>2. PICK i \in DOMAIN ls[q] : ls[q][i] = e
    BY DEF Set
  <1> DEFINE w == Without(ls[q], i)
             lt == [ls EXCEPT ![q] = w]
             u == <<e>> \o lt[r]
             lu == [lt EXCEPT ![r] = u]
  <1>3. Relinked(n, k, lt)
    <2>1. Relinked(n, DEQUEUE(n, q, ls[q][i]), [ls EXCEPT ![q] = Without(ls[q], i)])
      BY DequeueLinks
    <2> QED BY <1>2, <2>1
  <1>4. Set(w) = Set(ls[q]) \ {e} /\ w \in Seq(Blocks)
    <2> DEFINE s == ls[q]
    <2>1. /\ s \in Seq(Blocks) /\ i \in DOMAIN s /\ s[i] = e
          /\ \A x, y \in DOMAIN s : s[x] = s[y] => x = y
      BY <1>1, <1>2
    <2> HIDE DEF s
    <2>2. Set(Without(s, i)) = Set(s) \ {e} /\ Without(s, i) \in Seq(Blocks)
      BY <2>1, WithoutFacts
    <2> QED BY <2>2 DEF s
  <1> HIDE DEF k, w
  <1>5. lt \in [Chains -> Seq(Blocks)] /\ lt[q] = w /\ \A p \in Chains : p # q => lt[p] = ls[p]
    BY <1>1, <1>4
  <1> HIDE DEF lt
  <1>6. \A p \in Chains : Set(lt[p]) = Set(ls[p]) \ {e}
    <2>1. \A p \in Chains : p # q => e \notin Set(ls[p])
      BY OnOne
    <2> QED BY <1>4, <1>5, <2>1
  <1>7. k \in Caches /\ Listed(k, lt) /\ k.op = n.op /\ k.count = n.count /\ k.used = n.used
    BY <1>3 DEF Relinked
  <1>8. Relinked(k, m, lu)
    <2>1. \A p \in Chains : e \notin Set(lt[p])
      BY <1>6
    <2>2. Relinked(k, INSHEAD(k, r, e), [lt EXCEPT ![r] = <<e>> \o lt[r]])
      BY ONLY <1>1, <1>7, <2>1, InsheadLinks, r \in Chains
    <2> QED BY <2>2
  <1>9. Set(u) = {e} \cup Set(lt[r])
    <2> DEFINE s == <<e>>
               t == lt[r]
    <2>1. s \in Seq(Blocks) /\ t \in Seq(Blocks) /\ Set(s) = {e}
      BY <1>1, <1>5 DEF Set
    <2> HIDE DEF s, t
    <2>2. Set(s \o t) = Set(s) \cup Set(t)
      BY ONLY <2>1, ConcatFacts
    <2>3. u = s \o t
      BY DEF s, t
    <2> QED BY <2>1, <2>2, <2>3 DEF t
  <1> HIDE DEF u
  <1>10. lu[r] = u /\ \A p \in Chains : p # r => lu[p] = lt[p]
    BY <1>5
  <1> HIDE DEF lu, m
  <1>11. Relinked(n, m, lu)
    BY <1>7, <1>8 DEF Relinked
  <1>12. \A p \in Chains :
            Set(lu[p]) = IF p = r THEN Set(ls[p]) \cup {e} ELSE Set(ls[p]) \ {e}
    BY <1>6, <1>9, <1>10
  <1>13. m = Move(n, q, r, e)
    BY DEF m, k, Move
  <1> QED BY <1>11, <1>12, <1>13 DEF MovedTo, Placed

(* The object found on chain from of its bucket gets the attributes a and  *)
(* moves to chain to.                                                      *)
LEMMA RechainAfter ==
    ASSUME NEW n, NEW d, NEW ls, NEW own, Sound(n, d, ls, own), NEW o \in Objects,
           NEW from, from = FoundIn(n, o), from # "none",
           NEW e, e = Find(n, <<Bucket(o), from>>, o),
           NEW a \in Arrays, NEW to \in Pins, to = "active" => a = d[o],
           NEW n1, n1 = [n EXCEPT !.op[e].atrs = a]
    PROVE  After(n, d, Rechain(n1, o, from, to), d, o, a)
PROOF
  <1> DEFINE q == <<Bucket(o), from>>
             r == <<Bucket(o), to>>
             m == Rechain(n1, o, from, to)
             O == [n.op EXCEPT ![e] = [name |-> n.op[e].name, atrs |-> a]]
  <1>1. n \in Caches /\ Listed(n, ls) /\ Contents(n, d, ls) /\ d \in Disks
    BY DEF Sound
  <1>2. Holds(n, ls, o, from, e)
    BY FoundWhere
  <1>3. /\ q \in Chains /\ e \in Set(ls[q]) /\ e \in Blocks
        /\ n.op[e].name = o /\ n.op[e] # NoOp /\ n.op[e] = [name |-> o, atrs |-> n.op[e].atrs]
    BY <1>2 DEF Holds
  <1>4. r \in Chains /\ r[1] = q[1] /\ r[2] = to /\ q[2] = from /\ to \in Kinds
    BY ChainFacts DEF Pins, Kinds
  <1>5. /\ n1 \in Caches /\ n1.op = O /\ n1.count = n.count /\ n1.used = n.used
        /\ n1.nxt = n.nxt /\ n1.prv = n.prv /\ n1.head = n.head /\ n1.tail = n.tail
    <2>1. n.op \in [Blocks -> Ops]
      BY <1>1, CacheFacts
    <2> DEFINE p == n.op[e]
    <2>2. p = [name |-> o, atrs |-> p.atrs]
      BY <1>3
    <2>3. [p EXCEPT !.atrs = a] = [name |-> p.name, atrs |-> a]
      <3> HIDE DEF p
      <3> QED BY <2>2
    <2>4. n1 = [n EXCEPT !.op = [n.op EXCEPT ![e] = [p EXCEPT !.atrs = a]]]
      BY <1>1, <2>1 DEF Caches
    <2>5. O = [n.op EXCEPT ![e] = [p EXCEPT !.atrs = a]]
      BY <2>3
    <2>6. O \in [Blocks -> Ops]
      BY <1>3, <2>1 DEF Ops
    <2> HIDE DEF O
    <2>7. n1 = [n EXCEPT !.op = O]
      BY <2>4, <2>5
    <2> QED BY <1>1, <2>6, <2>7 DEF Caches
  <1>6. Listed(n1, ls)
    BY <1>1, <1>5, ListedSame
  <1>7. \A f \in Blocks : n1.op[f].name = n.op[f].name
    <2>1. n.op \in [Blocks -> Ops]
      BY <1>1, CacheFacts
    <2> QED BY <1>3, <1>5, <2>1
  <1> HIDE DEF q, r, m, O
  <1>8. Find(n1, q, o) = e
    <2> DEFINE f == Find(n1, q, o)
    <2>1. /\ f = CNULL => \A g \in Set(ls[q]) : n1.op[g].name # o
          /\ f # CNULL => f \in Set(ls[q]) /\ n1.op[f].name = o
      BY ONLY <1>3, <1>5, <1>6, FindFacts, o \in Objects
    <2> HIDE DEF f
    <2>2. f \in Set(ls[q]) /\ n1.op[f].name = o
      BY <1>3, <1>7, <2>1
    <2>3. f \in Blocks
      BY <1>1, <1>3, <2>2, OnBlocks
    <2>4. n.op[e].name = n.op[f].name
      BY <1>3, <1>7, <2>2, <2>3
    <2> QED BY <1>1, <1>3, <2>2, <2>4 DEF Contents, f
  <1>9. m = IF from = to THEN n1 ELSE Move(n1, q, r, e)
    BY <1>8 DEF m, q, r, Rechain
  <1>10. PICK lt : /\ m \in Caches /\ Listed(m, lt) /\ m.op = O
                   /\ m.count = n.count /\ m.used = n.used
                   /\ \A p \in Chains :
                        Set(lt[p]) = IF p = r THEN Set(ls[p]) \cup {e} ELSE Set(ls[p]) \ {e}
    <2>1. CASE from = to
      <3>1. m = n1 /\ q = r
        BY <1>9, <2>1 DEF q, r
      <3>2. \A p \in Chains : e \in Set(ls[p]) => p = q
        BY <1>1, <1>3, OnOne
      <3>3. \A p \in Chains :
              Set(ls[p]) = IF p = r THEN Set(ls[p]) \cup {e} ELSE Set(ls[p]) \ {e}
        BY <1>3, <3>1, <3>2
      <3> QED BY <1>5, <1>6, <3>1, <3>3
    <2>2. CASE from # to
      <3>1. m = Move(n1, q, r, e) /\ q # r
        BY <1>4, <1>9, <2>2
      <3>2. \E lt : MovedTo(n1, ls, Move(n1, q, r, e), lt, r, e)
        BY ONLY <1>3, <1>4, <1>5, <1>6, <3>1, MoveLinks
      <3>3. PICK lt : MovedTo(n1, ls, m, lt, r, e)
        BY <3>1, <3>2
      <3> QED BY <1>5, <3>3 DEF MovedTo, Relinked, Placed
    <2> QED BY <2>1, <2>2
  <1>11. r[2] \in {"active", "old"} => a = d[n.op[e].name]
    BY <1>3, <1>4 DEF Pins
  <1>12. Loaded(n, m, e, n.op[e].name, a) /\ Placed(ls, lt, r, e) /\ m \in Caches /\ Listed(m, lt)
    BY <1>10 DEF O, Loaded, Placed
  <1>13. Sound(m, d, lt, own) /\ Changed(n, d, m, n.op[e].name, a)
    BY ONLY <1>3, <1>4, <1>11, <1>12, MovedSound, Sound(n, d, ls, own), a \in Arrays
  <1>14. \A f \in Blocks : m.op[f].name = n.op[f].name
    BY <1>5, <1>7, <1>10
  <1>15. Stays(n, m)
    <2>1. ASSUME NEW p \in Chains, NEW f \in Set(ls[p]), p[2] \in Pins
          PROVE  \E s \in Chains : s[2] \in Pins /\ f \in Set(lt[s]) /\ m.op[f].name = n.op[f].name
      <3>1. f \in Blocks
        BY <1>1, OnBlocks
      <3>2. CASE f = e
        BY <1>4, <1>10, <1>14, <3>1, <3>2
      <3>3. CASE f # e
        BY <1>10, <1>14, <2>1, <3>1, <3>3
      <3> QED BY <3>2, <3>3
    <2>2. \A p \in Chains : \A f \in Set(ls[p]) : p[2] \in Pins =>
             \E s \in Chains : s[2] \in Pins /\ f \in Set(lt[s]) /\ m.op[f].name = n.op[f].name
      BY <2>1
    <2> QED BY ONLY <1>13, <2>2, StaysIf, Sound(n, d, ls, own)
  <1>16. Safe(m, o)
    <2>1. e \in Set(lt[r]) /\ m.op[e].name = o
      BY <1>3, <1>4, <1>10, <1>14
    <2>2. IsFound(m, lt, o)
      BY ONLY <1>13, FoundWhere, o \in Objects
    <2> QED BY <1>4, <2>1, <2>2 DEF Safe, IsFound
  <1>17. After(n, d, m, d, o, a)
    BY <1>3, <1>13, <1>15, <1>16 DEF After, Changed
  <1> QED BY <1>17 DEF m

(* Entry e was taken for an object of bucket b, with no change to what     *)
(* FETCH answers.                                                          *)
Freed(n, d, m, c, b, e) ==
    /\ \E ls, own : /\ Sound(m, c, ls, own)
                    /\ e \in m.used /\ own[e] = b /\ \A p \in Chains : e \notin Set(ls[p])
    /\ Kept(n, d, m, c) /\ Stays(n, m)
    /\ \A x \in Objects : FoundIn(n, x) = "none" => FoundIn(m, x) = "none"

(* Entry e was taken off chain q, with its object.                         *)
Evicted(n, d, m, q, e) ==
    /\ \E ls, own : /\ Sound(m, d, ls, own)
                    /\ e \in m.used /\ own[e] = q[1] /\ \A p \in Chains : e \notin Set(ls[p])
    /\ \A x \in Objects :
          Attributes(m, d, x) = IF x = n.op[e].name THEN d[x] ELSE Attributes(n, d, x)
    /\ Stays(n, m)
    /\ \A x \in Objects : FoundIn(n, x) = "none" => FoundIn(m, x) = "none"

LEMMA NotFound ==
    ASSUME NEW n, NEW d, NEW ls, NEW own, Sound(n, d, ls, own), NEW o \in Objects
    PROVE  FoundIn(n, o) = "none" <=> Absent(n, ls, o)
PROOF
  <1>1. FoundIn(n, o) = "none" => Absent(n, ls, o)
    BY FoundWhere
  <1>2. FoundIn(n, o) # "none" => ~Absent(n, ls, o)
    <2>1. FoundIn(n, o) # "none"
             => Holds(n, ls, o, FoundIn(n, o), Find(n, <<Bucket(o), FoundIn(n, o)>>, o))
      BY FoundWhere
    <2> QED BY <2>1 DEF Holds, Absent
  <1> QED BY <1>1, <1>2

LEMMA EvictSound ==
    ASSUME NEW n, NEW d, NEW ls, NEW own, Sound(n, d, ls, own),
           NEW q \in Chains, q[2] \notin Pins, n.tail[q] # CNULL
    PROVE  n.tail[q] \in Set(ls[q]) /\ Evicted(n, d, TakeTail(n, q), q, n.tail[q])
PROOF
  <1> DEFINE e == n.tail[q]
             m == TakeTail(n, q)
  <1>1. n \in Caches /\ Listed(n, ls) /\ Contents(n, d, ls)
    BY DEF Sound
  <1>2. /\ e \in Set(ls[q])
        /\ \E lt : /\ Taken(n, m, e, lt)
                   /\ \A p \in Chains : Set(lt[p]) = Set(ls[p]) \ {e}
                   /\ \A p \in Chains : p # q => lt[p] = ls[p]
    BY ONLY <1>1, q \in Chains, n.tail[q] # CNULL, TailTaken
  <1>3. PICK lt : /\ Taken(n, m, e, lt)
                  /\ \A p \in Chains : Set(lt[p]) = Set(ls[p]) \ {e}
                  /\ \A p \in Chains : p # q => lt[p] = ls[p]
    BY <1>2
  <1> HIDE DEF e, m
  <1>4. /\ Sound(m, d, lt, own) /\ e \in m.used /\ own[e] = q[1]
        /\ \A p \in Chains : e \notin Set(lt[p])
        /\ \A x \in Objects : Absent(n, ls, x) => Absent(m, lt, x)
        /\ \A x \in Objects :
              Attributes(m, d, x) = IF x = n.op[e].name THEN d[x] ELSE Attributes(n, d, x)
    BY ONLY <1>2, <1>3, TakenSound, Sound(n, d, ls, own), q \in Chains
  <1>5. Stays(n, m)
    <2>1. ASSUME NEW p \in Chains, NEW f \in Set(ls[p]), p[2] \in Pins
          PROVE  f \in Set(lt[p]) /\ m.op[f].name = n.op[f].name
      <3>1. p # q
        BY <2>1
      <3>2. f # e
        BY <1>1, <1>2, <2>1, <3>1, OnOne
      <3>3. f \in Blocks /\ n.op \in [Blocks -> Ops]
        BY <1>1, OnBlocks, CacheFacts
      <3> QED BY <1>3, <3>2, <3>3 DEF Taken
    <2>2. \A p \in Chains : \A f \in Set(ls[p]) : p[2] \in Pins =>
             \E s \in Chains : s[2] \in Pins /\ f \in Set(lt[s]) /\ m.op[f].name = n.op[f].name
      BY <2>1
    <2> QED BY ONLY <1>4, <2>2, StaysIf, Sound(n, d, ls, own)
  <1>6. \A x \in Objects : FoundIn(n, x) = "none" => FoundIn(m, x) = "none"
    <2>1. \A x \in Objects : FoundIn(n, x) = "none" => Absent(n, ls, x)
      BY NotFound
    <2>2. \A x \in Objects : Absent(m, lt, x) => FoundIn(m, x) = "none"
      BY <1>4, NotFound
    <2> QED BY <1>4, <2>1, <2>2
  <1>7. Evicted(n, d, m, q, e)
    BY <1>4, <1>5, <1>6 DEF Evicted
  <1> QED BY <1>2, <1>7 DEF e, m

LEMMA FreeEntrySound ==
    ASSUME NEW n, NEW d, NEW ls, NEW own, Sound(n, d, ls, own), NEW b \in Buckets,
           NEW ok \in BOOLEAN, NEW new \in Spare(n, b),
           NEW r, r = get_free_entry(n, d, b, ok, new)
    PROVE  /\ r = [n |-> r.n, d |-> r.d, cp |-> r.cp]
           /\ r.cp # CNULL => Freed(n, d, r.n, r.d, b, r.cp)
           /\ r.cp = CNULL => Lost(n, d, r.n, r.d)
PROOF
  <1> DEFINE old == <<b, "old">>
             mold == <<b, "mold">>
  <1>1. /\ old \in Chains /\ mold \in Chains /\ old[1] = b /\ mold[1] = b
        /\ old[2] = "old" /\ mold[2] = "mold" /\ "old" \notin Pins /\ "mold" \notin Pins
    BY ChainFacts DEF Pins
  <1>2. n \in Caches /\ Listed(n, ls) /\ Contents(n, d, ls) /\ CNULL \notin Blocks
    BY ChainFacts DEF Sound
  <1>3. CASE n.tail[old] # CNULL
    <2> DEFINE e == n.tail[old]
               m == TakeTail(n, old)
    <2>1. r = [n |-> m, d |-> d, cp |-> e]
      BY <1>3 DEF get_free_entry
    <2> HIDE DEF old
    <2>2. e \in Set(ls[old]) /\ Evicted(n, d, m, old, e)
      BY ONLY <1>1, <1>3, EvictSound, Sound(n, d, ls, own)
    <2> HIDE DEF m
    <2>3. Kept(n, d, m, d)
      <3>1. ASSUME NEW x \in Objects, x = n.op[e].name PROVE Attributes(n, d, x) = d[x]
        <4>1. e \in Blocks
          BY <1>1, <1>2, <2>2, OnBlocks
        <4>2. n.op[e] # NoOp
          BY <1>2, <3>1, <4>1, OpFacts
        <4>3. n.op[e].atrs = d[x]
          BY <1>1, <1>2, <2>2, <3>1, <4>2 DEF Contents
        <4>4. Attributes(n, d, x) = n.op[e].atrs
          BY ONLY <1>1, <2>2, <3>1, AttributesIn, Sound(n, d, ls, own)
        <4> QED BY <4>3, <4>4
      <3> QED BY <2>2, <3>1 DEF Evicted, Kept
    <2>4. Freed(n, d, m, d, b, e)
      BY <1>1, <2>2, <2>3 DEF Evicted, Freed
    <2> QED BY <1>3, <2>1, <2>4
  <1>4. CASE n.tail[old] = CNULL /\ n.tail[mold] # CNULL
    <2> DEFINE e == n.tail[mold]
               m == TakeTail(n, mold)
               w == Written(d, n.op[e])
    <2>1. r = [n |-> m, d |-> IF ok THEN w ELSE d, cp |-> IF ok THEN e ELSE CNULL]
      BY <1>4 DEF get_free_entry
    <2> HIDE DEF old, mold
    <2>2. e \in Set(ls[mold]) /\ Evicted(n, d, m, mold, e)
      BY ONLY <1>1, <1>4, EvictSound, Sound(n, d, ls, own)
    <2>3. e \in Blocks /\ n.op[e] # NoOp
      BY <1>1, <1>2, <2>2, OnBlocks DEF Contents
    <2>4. n.op[e].name \in Objects
      BY <1>2, <2>3, OpFacts
    <2>5. CASE ok
      <3>1. /\ Sound(n, w, ls, own) /\ Kept(n, d, n, w) /\ w[n.op[e].name] = n.op[e].atrs
        BY ONLY <1>1, <2>2, <2>3, WrittenSound, Sound(n, d, ls, own)
      <3> HIDE DEF w
      <3>2. Evicted(n, w, m, mold, e)
        BY ONLY <1>1, <1>4, <3>1, EvictSound
      <3> HIDE DEF m, e
      <3>3. Attributes(n, w, n.op[e].name) = n.op[e].atrs
        BY ONLY <1>1, <2>2, <2>4, <3>1, AttributesIn
      <3>4. Kept(n, w, m, w)
        BY <3>1, <3>2, <3>3 DEF Evicted, Kept
      <3>5. Kept(n, d, m, w)
        BY <3>1, <3>4, KeptTwice
      <3>6. Freed(n, d, m, w, b, e)
        BY <1>1, <3>2, <3>5 DEF Evicted, Freed
      <3> QED BY <2>1, <2>3, <2>5, <3>6, <1>2
    <2>6. CASE ~ok
      <3> HIDE DEF m, e
      <3>1. Lost(n, d, m, d)
        BY <2>2, <2>4 DEF Evicted, Lost
      <3> QED BY <2>1, <2>6, <3>1
    <2> QED BY <2>5, <2>6
  <1>5. CASE n.tail[old] = CNULL /\ n.tail[mold] = CNULL
    <2> DEFINE m == Grown(n, b, new)
               ow == Given(own, b, new)
    <2>1. new \in Blocks \ n.used
      BY <1>5 DEF Spare
    <2>2. r = [n |-> m, d |-> d, cp |-> new]
      BY <1>5 DEF get_free_entry, Grown
    <2>3. /\ Sound(m, d, ls, ow) /\ Kept(n, d, m, d)
          /\ new \in m.used /\ ow[new] = b
          /\ \A p \in Chains : new \notin Set(ls[p])
          /\ m.op = n.op
      BY ONLY <2>1, FreshSound, Sound(n, d, ls, own), b \in Buckets
    <2> HIDE DEF m, ow
    <2>4. Stays(n, m)
      <3>1. \A p \in Chains : \A f \in Set(ls[p]) : p[2] \in Pins =>
               \E s \in Chains : s[2] \in Pins /\ f \in Set(ls[s]) /\ m.op[f].name = n.op[f].name
        BY <2>3
      <3> QED BY ONLY <2>3, <3>1, StaysIf, Sound(n, d, ls, own)
    <2>5. \A x \in Objects : FoundIn(n, x) = "none" => FoundIn(m, x) = "none"
      <3>1. \A x \in Objects : FoundIn(n, x) = "none" => Absent(n, ls, x)
        BY NotFound
      <3>2. \A x \in Objects : Absent(m, ls, x) => FoundIn(m, x) = "none"
        BY <2>3, NotFound
      <3> QED BY <2>3, <3>1, <3>2 DEF Absent
    <2>6. Freed(n, d, m, d, b, new)
      BY <2>3, <2>4, <2>5 DEF Freed
    <2> QED BY <1>2, <2>1, <2>2, <2>6
  <1> QED BY <1>3, <1>4, <1>5

LEMMA FillAfter ==
    ASSUME NEW n, NEW d, NEW ls, NEW own, Sound(n, d, ls, own),
           NEW o \in Objects, FoundIn(n, o) = "none", NEW a \in Arrays,
           NEW kind \in Pins, kind = "active" => a = d[o],
           NEW m, NEW c, NEW e, Freed(n, d, m, c, Bucket(o), e),
           NEW k, k = [m EXCEPT !.op[e] = [name |-> o, atrs |-> a]]
    PROVE  After(n, d, INSHEAD(k, <<Bucket(o), kind>>, e), c, o, a)
PROOF
  <1> DEFINE q == <<Bucket(o), kind>>
             j == INSHEAD(k, q, e)
             O == [m.op EXCEPT ![e] = [name |-> o, atrs |-> a]]
  <1>1. PICK lt, ow : /\ Sound(m, c, lt, ow) /\ e \in m.used /\ ow[e] = Bucket(o)
                      /\ \A p \in Chains : e \notin Set(lt[p])
    BY DEF Freed
  <1>2. Kept(n, d, m, c) /\ Stays(n, m) /\ FoundIn(m, o) = "none"
    BY DEF Freed
  <1>3. m \in Caches /\ Listed(m, lt) /\ m.op \in [Blocks -> Ops] /\ e \in Blocks
    <2>1. m \in Caches /\ Listed(m, lt)
      BY <1>1 DEF Sound
    <2> QED BY <1>1, <2>1, CacheFacts
  <1>4. q \in Chains /\ q[1] = Bucket(o) /\ q[2] = kind
    BY ChainFacts DEF Pins, Kinds
  <1>5. O \in [Blocks -> Ops] /\ \A f \in Blocks : f # e => O[f] = m.op[f]
    BY <1>3 DEF Ops
  <1>6. O[e].name = o
    BY <1>3
  <1>7. k = [m EXCEPT !.op = O]
    BY <1>3 DEF Caches
  <1> HIDE DEF O
  <1>8. /\ k \in Caches /\ k.op = O /\ k.count = m.count /\ k.used = m.used
        /\ k.nxt = m.nxt /\ k.prv = m.prv /\ k.head = m.head /\ k.tail = m.tail
    BY <1>3, <1>5, <1>7 DEF Caches
  <1>9. Listed(k, lt)
    BY <1>3, <1>8, ListedSame
  <1> HIDE DEF q
  <1> DEFINE u == <<e>> \o lt[q]
             lu == [lt EXCEPT ![q] = u]
  <1>10. Relinked(k, j, lu)
    <2>1. Relinked(k, INSHEAD(k, q, e), [lt EXCEPT ![q] = <<e>> \o lt[q]])
      BY ONLY <1>1, <1>3, <1>4, <1>8, <1>9, InsheadLinks
    <2> QED BY <2>1
  <1>11. lt \in [Chains -> Seq(Blocks)]
    BY <1>3 DEF Listed
  <1>12. Set(u) = {e} \cup Set(lt[q])
    <2> DEFINE s == <<e>>
               t == lt[q]
    <2>1. s \in Seq(Blocks) /\ t \in Seq(Blocks) /\ Set(s) = {e}
      BY <1>3, <1>4, <1>11 DEF Set
    <2> HIDE DEF s, t
    <2>2. Set(s \o t) = Set(s) \cup Set(t)
      BY ONLY <2>1, ConcatFacts
    <2>3. u = s \o t
      BY DEF s, t
    <2> QED BY <2>1, <2>2, <2>3 DEF t
  <1> HIDE DEF u
  <1>13. lu[q] = u /\ \A p \in Chains : p # q => lu[p] = lt[p]
    BY <1>4, <1>11
  <1> HIDE DEF lu, j
  <1>14. j \in Caches /\ Listed(j, lu) /\ j.op = O /\ Loaded(m, j, e, o, a)
    BY <1>8, <1>10 DEF Relinked, Loaded, O
  <1>15. Placed(lt, lu, q, e)
    BY <1>1, <1>4, <1>12, <1>13 DEF Placed
  <1>16. Absent(m, lt, o)
    BY <1>1, <1>2, NotFound
  <1>17. q[2] = "active" => a = c[o]
    <2>1. Attributes(n, d, o) = d[o]
      <3>1. Absent(n, ls, o)
        BY NotFound
      <3> QED BY ONLY <3>1, AttributesAre, Sound(n, d, ls, own), o \in Objects
    <2> QED BY <1>2, <1>4, <2>1 DEF Kept
  <1>18. Sound(j, c, lu, ow) /\ Changed(m, c, j, o, a)
    <2>1. q[2] \in {"active", "mactive"} /\ ow[e] = q[1] /\ Bucket(o) = q[1]
      BY <1>1, <1>4 DEF Pins
    <2> QED BY ONLY <1>1, <1>4, <1>14, <1>15, <1>16, <1>17, <2>1, FilledSound,
                    o \in Objects, a \in Arrays
  <1>19. Stays(m, j)
    <2>1. ASSUME NEW p \in Chains, NEW f \in Set(lt[p])
          PROVE  f \in Set(lu[p]) /\ j.op[f].name = m.op[f].name
      <3>1. f \in Blocks /\ f # e
        BY <1>1, <1>3, OnBlocks
      <3> QED BY <1>5, <1>14, <1>15, <3>1 DEF Placed
    <2>2. \A p \in Chains : \A f \in Set(lt[p]) : p[2] \in Pins =>
             \E s \in Chains : s[2] \in Pins /\ f \in Set(lu[s]) /\ j.op[f].name = m.op[f].name
      BY <2>1
    <2> QED BY ONLY <1>1, <1>18, <2>2, StaysIf
  <1>20. Safe(j, o)
    <2>1. e \in Set(lu[q]) /\ j.op[e].name = o
      BY <1>4, <1>6, <1>14, <1>15 DEF Placed
    <2>2. IsFound(j, lu, o)
      BY ONLY <1>18, FoundWhere, o \in Objects
    <2> QED BY <1>4, <2>1, <2>2 DEF Safe, IsFound
  <1>21. \A x \in Objects : Attributes(j, c, x) = IF x = o THEN a ELSE Attributes(n, d, x)
    BY <1>2, <1>18 DEF Changed, Kept
  <1>22. Stays(n, j)
    BY <1>2, <1>19 DEF Stays
  <1>23. After(n, d, j, c, o, a)
    BY <1>2, <1>18, <1>20, <1>21, <1>22 DEF After, Kept
  <1> QED BY <1>23 DEF j, q

LEMMA LoadAfter ==
    ASSUME NEW ls, NEW own, Sound(sys_c, disk, ls, own),
           NEW o \in Objects, FoundIn(sys_c, o) = "none", NEW a \in Arrays,
           NEW kind \in Pins, kind = "active" => a = disk[o],
           NEW ok \in BOOLEAN, NEW new \in Spare(sys_c, Bucket(o)),
           NEW r, r = Load(o, a, kind, ok, new)
    PROVE  /\ r.cp # CNULL => After(sys_c, disk, r.n, r.d, o, a)
           /\ r.cp = CNULL => Lost(sys_c, disk, r.n, r.d)
PROOF
  <1> DEFINE b == Bucket(o)
             t == get_free_entry(sys_c, disk, b, ok, new)
             k == [t.n EXCEPT !.op[t.cp] = [name |-> o, atrs |-> a]]
             m == INSHEAD(k, <<b, kind>>, t.cp)
  <1>1. b \in Buckets
    BY ChainFacts
  <1>2. r = IF t.cp = CNULL THEN t ELSE [t EXCEPT !.n = m]
    BY DEF Load
  <1>3. /\ t = [n |-> t.n, d |-> t.d, cp |-> t.cp]
        /\ t.cp # CNULL => Freed(sys_c, disk, t.n, t.d, b, t.cp)
        /\ t.cp = CNULL => Lost(sys_c, disk, t.n, t.d)
    <2> HIDE DEF b
    <2>1. new \in Spare(sys_c, b)
      BY DEF b
    <2> HIDE DEF t
    <2>2. t = get_free_entry(sys_c, disk, b, ok, new)
      BY DEF t
    <2> QED BY ONLY <1>1, <2>1, <2>2, FreeEntrySound, Sound(sys_c, disk, ls, own),
                    ok \in BOOLEAN
  <1>4. CASE t.cp = CNULL
    BY <1>2, <1>3, <1>4
  <1>5. CASE t.cp # CNULL
    <2>1. /\ Freed(sys_c, disk, t.n, t.d, Bucket(o), t.cp)
          /\ k = [t.n EXCEPT !.op[t.cp] = [name |-> o, atrs |-> a]]
      BY <1>3, <1>5
    <2>2. m = INSHEAD(k, <<Bucket(o), kind>>, t.cp)
      OBVIOUS
    <2> HIDE DEF t, k, m
    <2>3. After(sys_c, disk, INSHEAD(k, <<Bucket(o), kind>>, t.cp), t.d, o, a)
      <3> DEFINE n == t.n
                 c == t.d
                 e == t.cp
      <3>1. /\ Freed(sys_c, disk, n, c, Bucket(o), e)
            /\ k = [n EXCEPT !.op[e] = [name |-> o, atrs |-> a]]
        BY <2>1
      <3> HIDE DEF n, c, e
      <3>2. After(sys_c, disk, INSHEAD(k, <<Bucket(o), kind>>, e), c, o, a)
        BY <3>1, FillAfter
      <3> QED BY <3>2 DEF n, c, e
    <2>4. r.n = m /\ r.d = t.d /\ r.cp = t.cp
      BY <1>2, <1>3, <1>5
    <2> QED BY <1>5, <2>2, <2>3, <2>4
  <1> QED BY <1>4, <1>5

-----------------------------------------------------------------------------
(* Arrays of attributes *)

(* s is where attribute k is in a, or where it has to be inserted.         *)
Located(a, k, s) ==
    /\ s.found \in BOOLEAN
    /\ s.found => s.at \in DOMAIN a /\ a[s.at].attrnum = k
    /\ ~s.found => /\ s.at \in 1..(Len(a) + 1)
                   /\ \A j \in DOMAIN a : /\ j < s.at => a[j].attrnum < k
                                          /\ j >= s.at => a[j].attrnum > k

(* After i turns of the search at most Len(a) - i attributes are left, or  *)
(* it has been found.                                                      *)
Narrowed(a, k, s, i) ==
    /\ s.lo \in 1..(Len(a) + 1) /\ s.hi \in 0..Len(a) /\ s.lo <= s.hi + 1
    /\ \A j \in DOMAIN a : /\ j < s.lo => a[j].attrnum < k
                           /\ j > s.hi => a[j].attrnum > k
    /\ \/ s.hi - s.lo + 1 <= Len(a) - i
       \/ s.lo <= s.hi /\ a[Mid(s)].attrnum = k

LEMMA MidIs ==
    ASSUME NEW lo \in Int, NEW hi \in Int, lo <= hi
    PROVE  ((hi - lo) \div 2) + lo \in lo..hi
PROOF
  <1>1. /\ (hi - lo) \in Nat
    OBVIOUS
  <1>2. (hi - lo) \div 2 \in Int /\ 0 <= (hi - lo) \div 2 /\ (hi - lo) \div 2 <= hi - lo
    BY <1>1
  <1> QED BY <1>2

LEMMA ArrayFacts ==
    ASSUME NEW a \in Arrays
    PROVE  /\ a \in Seq([attrnum : Nat, data : Values])
           /\ Len(a) \in Nat /\ DOMAIN a = 1..Len(a)
           /\ \A i \in DOMAIN a : /\ a[i] \in [attrnum : Nat, data : Values]
                                  /\ a[i].attrnum \in Nat /\ a[i].data \in Values
           /\ \A i, j \in DOMAIN a : i < j => a[i].attrnum < a[j].attrnum
           /\ \A i, j \in DOMAIN a : a[i].attrnum = a[j].attrnum => i = j
PROOF
  <1>1. /\ a \in Seq([attrnum : Nat, data : Values])
        /\ \A i, j \in DOMAIN a : i < j => a[i].attrnum < a[j].attrnum
    BY DEF Arrays
  <1>2. Len(a) \in Nat /\ DOMAIN a = 1..Len(a)
    BY <1>1
  <1>3. \A i \in DOMAIN a : a[i] \in [attrnum : Nat, data : Values]
    <2> DEFINE S == [attrnum : Nat, data : Values]
    <2>1. a \in Seq(S)
      BY <1>1
    <2> HIDE DEF S
    <2>2. \A i \in DOMAIN a : a[i] \in S
      BY <2>1
    <2> QED BY <2>2 DEF S
  <1>4. \A i \in DOMAIN a : a[i].attrnum \in Nat /\ a[i].data \in Values
    BY <1>3
  <1>5. ASSUME NEW i \in DOMAIN a, NEW j \in DOMAIN a, a[i].attrnum = a[j].attrnum PROVE i = j
    <2>1. i < j \/ j < i \/ i = j
      BY <1>2
    <2> QED BY <2>1, <1>1, <1>4, <1>5
  <1> QED BY <1>1, <1>2, <1>3, <1>4, <1>5

(* The binary search of get_attrib, set_attrib and del_attrib.             *)
LEMMA SearchLocates ==
    ASSUME NEW a \in Arrays, NEW k \in Nat
    PROVE  Located(a, k, Search(a, k))
PROOF
  <1> DEFINE N == Len(a)
             R == [lo : 1..(N + 1), hi : 0..N]
             T(s) == IF s.lo > s.hi \/ a[Mid(s)].attrnum = k THEN s
                     ELSE IF a[Mid(s)].attrnum > k THEN [s EXCEPT !.hi = Mid(s) - 1]
                     ELSE [s EXCEPT !.lo = Mid(s) + 1]
             x == [lo |-> 1, hi |-> Len(a)]
             U(i) == {s \in R : Narrowed(a, k, s, i)}
             D == [i \in 0..N |-> U(i)]
             g == [p \in (1..N) \X R |-> T(p[2])]
             P(f) == f = [i \in 0..N |-> IF i = 0 THEN x ELSE T(f[i - 1])]
             h == CHOOSE f : P(f)
  <1>0. /\ Len(a) \in Nat /\ DOMAIN a = 1..Len(a)
        /\ \A i \in DOMAIN a : a[i].attrnum \in Nat
        /\ \A i, j \in DOMAIN a : i < j => a[i].attrnum < a[j].attrnum
    BY ArrayFacts
  <1>1. N \in Nat /\ \A i \in 1..N : i \in 0..N /\ i - 1 \in 0..N /\ i # 0
    BY <1>0
  <1>2. x \in U(0)
    <2>1. x \in R /\ x.lo = 1 /\ x.hi = N
      BY <1>0
    <2> HIDE DEF x
    <2> QED BY <1>0, <2>1 DEF Narrowed
  <1>3. ASSUME NEW i \in 1..N, NEW s \in U(i - 1) PROVE T(s) \in U(i)
    <2> DEFINE c == Mid(s)
    <2>1. s \in R /\ s = [lo |-> s.lo, hi |-> s.hi] /\ Narrowed(a, k, s, i - 1)
      OBVIOUS
    <2>2. s.lo \in 1..(N + 1) /\ s.hi \in 0..N
      BY <2>1
    <2>3. CASE s.lo > s.hi
      <3>1. T(s) = s
        BY <2>3
      <3> HIDE DEF T
      <3>2. Narrowed(a, k, s, i)
        <4>1. s.hi - s.lo + 1 <= Len(a) - i
          BY <1>0, <2>2, <2>3
        <4> QED BY <2>1, <4>1 DEF Narrowed
      <3> QED BY <3>1, <3>2, <2>1
    <2>4. CASE s.lo <= s.hi
      <3>1. c \in s.lo..s.hi /\ c \in DOMAIN a
        <4>1. c \in s.lo..s.hi
          BY <2>2, <2>4, MidIs DEF Mid
        <4> HIDE DEF c
        <4> QED BY <1>0, <2>2, <4>1
      <3>2. ~(s.lo > s.hi)
        BY <2>2, <2>4
      <3>3. a[c].attrnum \in Nat /\ c \in Nat
        BY <1>0, <3>1
      <3>4. CASE a[c].attrnum = k
        <4>1. T(s) = s
          BY <3>4
        <4> HIDE DEF T
        <4>2. Narrowed(a, k, s, i)
          BY <2>1, <2>4, <3>4 DEF Narrowed
        <4> QED BY <4>1, <4>2, <2>1
      <3>5. CASE a[c].attrnum > k
        <4> DEFINE z == [lo |-> s.lo, hi |-> c - 1]
        <4>1. T(s) = z
          <5>1. ~(a[c].attrnum = k)
            BY <3>3, <3>5
          <5>2. T(s) = [s EXCEPT !.hi = c - 1]
            BY <3>2, <3>5, <5>1
          <5> HIDE DEF T, c
          <5> QED BY <5>2, <2>1
        <4> HIDE DEF T, c
        <4>2. z.lo = s.lo /\ z.hi = c - 1 /\ z \in R
          BY <1>0, <2>2, <3>1
        <4> HIDE DEF z
        <4>3. \A j \in DOMAIN a : j > z.hi => a[j].attrnum > k
          <5>1. \A j \in DOMAIN a : j > z.hi => j = c \/ c < j
            BY <1>0, <3>3, <4>2
          <5> QED BY <1>0, <3>1, <3>5, <5>1, SMTT(40), ZenonT(40)
        <4>4. \/ z.hi - z.lo + 1 <= Len(a) - i
              \/ s.lo <= s.hi /\ a[Mid(s)].attrnum = k
          <5>1. \/ s.hi - s.lo + 1 <= Len(a) - (i - 1)
                \/ s.lo <= s.hi /\ a[Mid(s)].attrnum = k
            BY <2>1 DEF Narrowed
          <5> QED BY <5>1, <1>0, <2>2, <3>1, <4>2, SMTT(40), ZenonT(40)
        <4>5. ~(a[Mid(s)].attrnum = k)
          BY <3>3, <3>5 DEF c
        <4>6. z.lo <= z.hi + 1
          BY <2>2, <3>1, <4>2
        <4>7. Narrowed(a, k, z, i)
          BY <2>1, <4>2, <4>3, <4>4, <4>5, <4>6 DEF Narrowed
        <4> QED BY <4>1, <4>2, <4>7
      <3>6. CASE a[c].attrnum < k
        <4> DEFINE z == [lo |-> c + 1, hi |-> s.hi]
        <4>1. T(s) = z
          <5>1. ~(a[c].attrnum = k) /\ ~(a[c].attrnum > k)
            BY <3>3, <3>6
          <5>2. T(s) = [s EXCEPT !.lo = c + 1]
            BY <3>2, <5>1
          <5> HIDE DEF T, c
          <5> QED BY <5>2, <2>1
        <4> HIDE DEF T, c
        <4>2. z.lo = c + 1 /\ z.hi = s.hi /\ z \in R
          BY <1>0, <2>2, <3>1
        <4> HIDE DEF z
        <4>3. \A j \in DOMAIN a : j < z.lo => a[j].attrnum < k
          <5>1. \A j \in DOMAIN a : j < z.lo => j = c \/ j < c
            BY <1>0, <3>3, <4>2
          <5> QED BY <1>0, <3>1, <3>6, <5>1, SMTT(40), ZenonT(40)
        <4>4. \/ z.hi - z.lo + 1 <= Len(a) - i
              \/ s.lo <= s.hi /\ a[Mid(s)].attrnum = k
          <5>1. \/ s.hi - s.lo + 1 <= Len(a) - (i - 1)
                \/ s.lo <= s.hi /\ a[Mid(s)].attrnum = k
            BY <2>1 DEF Narrowed
          <5> QED BY <5>1, <1>0, <2>2, <3>1, <4>2, SMTT(40), ZenonT(40)
        <4>5. ~(a[Mid(s)].attrnum = k)
          BY <3>3, <3>6 DEF c
        <4>6. z.lo <= z.hi + 1
          BY <2>2, <3>1, <4>2
        <4>7. Narrowed(a, k, z, i)
          BY <2>1, <4>2, <4>3, <4>4, <4>5, <4>6 DEF Narrowed
        <4> QED BY <4>1, <4>2, <4>7
      <3> HIDE DEF T, c
      <3> QED BY <3>3, <3>4, <3>5, <3>6
    <2> HIDE DEF T
    <2> QED BY <2>2, <2>3, <2>4
  <1> HIDE DEF x, U, T
  <1>4. \A i \in 0..N : D[i] = U(i) /\ D[i] \subseteq R
    <2>1. \A i \in 0..N : U(i) \subseteq R
      BY DEF U
    <2> QED BY <2>1
  <1>5. \E f : P(f)
    <2>1. /\ x \in D[0]
          /\ \A i \in 1..N : \A y \in D[i - 1] : g[<<i, y>>] = T(y) /\ g[<<i, y>>] \in D[i]
      <3>1. 0 \in 0..N
        BY <1>1
      <3>2. ASSUME NEW i \in 1..N, NEW y \in D[i - 1]
            PROVE  g[<<i, y>>] = T(y) /\ g[<<i, y>>] \in D[i]
        <4>1. y \in U(i - 1) /\ y \in R /\ D[i] = U(i)
          BY <1>1, <1>4
        <4>2. g[<<i, y>>] = T(y)
          BY <4>1
        <4> QED BY <1>3, <4>1, <4>2
      <3> QED BY <1>2, <1>4, <3>1, <3>2
    <2> HIDE DEF D, g, N
    <2>2. \E f : Turns(f, N, x, D, g)
      BY ONLY <1>1, <2>1, LoopExists
    <2>3. PICK f : /\ f = [i \in 0..N |-> f[i]] /\ f[0] = x
                   /\ \A i \in 1..N : f[i - 1] \in D[i - 1] /\ f[i] = g[<<i, f[i - 1]>>]
      BY <2>2 DEF Turns
    <2>4. \A i \in 0..N : f[i] = IF i = 0 THEN x ELSE T(f[i - 1])
      <3>1. \A i \in 0..N : i # 0 => i \in 1..N
        BY <1>1
      <3> QED BY <2>1, <2>3, <3>1
    <2>5. P(f)
      BY <2>3, <2>4
    <2> QED BY <2>5
  <1>6. P(h)
    <2> HIDE DEF P
    <2> QED BY <1>5
  <1> DEFINE last == h[N]
             result == [found |-> last.lo <= last.hi,
                        at |-> IF last.lo <= last.hi THEN Mid(last) ELSE last.lo]
  <1>7. Search(a, k) = result
    BY DEF Search, x, T
  <1> HIDE DEF h
  <1>8. h[0] = x /\ \A i \in 1..N : h[i] = T(h[i - 1])
    <2>1. \A i \in 0..N : h[i] = IF i = 0 THEN x ELSE T(h[i - 1])
      BY <1>6
    <2>2. 0 \in 0..N
      BY <1>1
    <2> QED BY <1>1, <2>1, <2>2
  <1>9. h[N] \in U(N)
    <2>1. N \in 0..N /\ 0 \in 0..N
      BY <1>1
    <2>2. D[0] = U(0) /\ D[N] = U(N) /\ \A i \in 1..N : D[i] = U(i) /\ D[i - 1] = U(i - 1)
      BY <1>1, <1>4, <2>1
    <2> HIDE DEF D
    <2>3. h[0] \in D[0] /\ \A i \in 1..N : h[i - 1] \in D[i - 1] => h[i] \in D[i]
      BY <1>2, <1>3, <1>8, <2>2
    <2> HIDE DEF N
    <2>4. h[N] \in D[N]
      BY ONLY <1>1, <2>3, LoopKeeps
    <2> QED BY <2>2, <2>4
  <1> HIDE DEF last
  <1>10. last \in R /\ Narrowed(a, k, last, N)
    BY <1>9 DEF U, last
  <1>11. last.lo \in 1..(N + 1) /\ last.hi \in 0..N
    BY <1>10
  <1>12. CASE last.lo <= last.hi
    <2>1. result.found /\ result.found \in BOOLEAN /\ result.at = Mid(last)
      BY <1>12
    <2>2. Mid(last) \in last.lo..last.hi
      BY <1>11, <1>12, MidIs DEF Mid
    <2>3. Mid(last) \in DOMAIN a
      BY <1>0, <1>11, <2>2
    <2>4. a[Mid(last)].attrnum = k
      <3>1. ~(last.hi - last.lo + 1 <= Len(a) - N)
        BY <1>0, <1>11, <1>12
      <3> QED BY <1>10, <3>1 DEF Narrowed
    <2> HIDE DEF result
    <2> QED BY <1>7, <2>1, <2>3, <2>4 DEF Located
  <1>13. CASE ~(last.lo <= last.hi)
    <2> DEFINE u == last.lo
               v == last.hi
               y == [found |-> u <= v, at |-> IF u <= v THEN Mid(last) ELSE u]
    <2>a. result = y /\ ~(u <= v)
      BY <1>13
    <2> HIDE DEF u, v, result
    <2>b. (u <= v) = FALSE
      BY <2>a
    <2>c. y = [found |-> FALSE, at |-> u]
      BY <2>b
    <2> HIDE DEF y
    <2>1. ~result.found /\ result.found \in BOOLEAN /\ result.at = last.lo
      <3>1. y.found = FALSE /\ y.at = u
        BY <2>c
      <3> QED BY <2>a, <3>1 DEF u
    <2> HIDE DEF result
    <2>2. last.lo = last.hi + 1
      BY <1>10, <1>11, <1>13 DEF Narrowed
    <2>3. \A j \in DOMAIN a :
            /\ j < last.lo => a[j].attrnum < k
            /\ j >= last.lo => a[j].attrnum > k
      <3>1. \A j \in DOMAIN a : j >= last.lo => j > last.hi
        BY <1>0, <1>11, <2>2
      <3> QED BY <1>10, <3>1 DEF Narrowed
    <2> QED BY <1>7, <1>11, <2>1, <2>3 DEF Located
  <1> QED BY <1>12, <1>13

(* What get_attrib returns of an array.                                    *)
Reads(a, k, v) ==
    \/ \E x \in Set(a) : x.attrnum = k /\ x.data = v
    \/ (\A x \in Set(a) : x.attrnum # k) /\ v = none

LEMMA GetReads ==
    ASSUME NEW a \in Arrays, NEW k \in Nat
    PROVE  /\ Reads(a, k, get_attrib(a, k))
           /\ \A v : Reads(a, k, v) => v = get_attrib(a, k)
           /\ get_attrib(a, k) \in Values \cup {none}
PROOF
  <1> DEFINE s == Search(a, k)
             v == get_attrib(a, k)
  <1>1. Located(a, k, s)
    BY SearchLocates
  <1>2. v = IF s.found THEN a[s.at].data ELSE none
    BY DEF get_attrib
  <1> HIDE DEF s, v
  <1>3. /\ Len(a) \in Nat /\ DOMAIN a = 1..Len(a)
        /\ \A i \in DOMAIN a : a[i].attrnum \in Nat /\ a[i].data \in Values
        /\ \A i, j \in DOMAIN a : a[i].attrnum = a[j].attrnum => i = j
    BY ArrayFacts
  <1>4. Reads(a, k, v) /\ v \in Values \cup {none}
    <2>1. CASE s.found
      <3>1. s.at \in DOMAIN a /\ a[s.at].attrnum = k /\ v = a[s.at].data
        BY <1>1, <1>2, <2>1 DEF Located
      <3>2. a[s.at] \in Set(a)
        BY <3>1 DEF Set
      <3> QED BY <1>3, <3>1, <3>2 DEF Reads
    <2>2. CASE ~s.found
      <3>1. /\ s.at \in 1..(Len(a) + 1) /\ v = none
            /\ \A j \in DOMAIN a : (j < s.at => a[j].attrnum < k) /\ (j >= s.at => a[j].attrnum > k)
        BY <1>1, <1>2, <2>2 DEF Located
      <3>2. \A j \in DOMAIN a : a[j].attrnum # k
        <4>1. \A j \in DOMAIN a : j < s.at \/ j >= s.at
          BY <1>3, <3>1
        <4> QED BY <1>3, <3>1, <4>1
      <3> QED BY <3>1, <3>2 DEF Reads, Set
    <2> QED BY <2>1, <2>2
  <1>5. ASSUME NEW w, Reads(a, k, w) PROVE w = v
    <2>1. \A x, y \in Set(a) : x.attrnum = y.attrnum => x = y
      BY <1>3 DEF Set
    <2> QED BY <1>4, <1>5, <2>1 DEF Reads
  <1> QED BY <1>4, <1>5 DEF v

(* t is s with e moved in at place i.                                      *)
Inserted(s, i, e, t) ==
    /\ Len(t) = Len(s) + 1 /\ DOMAIN t = 1..(Len(s) + 1) /\ t[i] = e
    /\ \A j \in 1..(Len(s) + 1) : /\ j < i => j \in DOMAIN s /\ t[j] = s[j]
                                  /\ j > i => j - 1 \in DOMAIN s /\ t[j] = s[j - 1]
    /\ Set(t) = Set(s) \cup {e}

LEMMA WithFacts ==
    ASSUME NEW B, NEW s \in Seq(B), NEW i \in 1..(Len(s) + 1), NEW e \in B
    PROVE  With(s, i, e) \in Seq(B) /\ Inserted(s, i, e, With(s, i, e))
PROOF
  <1> DEFINE t == With(s, i, e)
             n == Len(s) + 1
  <1>1. Len(s) \in Nat /\ DOMAIN s = 1..Len(s) /\ n \in Nat /\ i \in 1..n /\ i \in Nat
    OBVIOUS
  <1>2. t = [j \in 1..n |-> IF j < i THEN s[j] ELSE IF j = i THEN e ELSE s[j - 1]]
    BY DEF With
  <1>3. \A j \in 1..n : /\ j < i => j \in DOMAIN s
                        /\ j > i => j - 1 \in DOMAIN s
                        /\ j < i \/ j = i \/ j > i
    BY <1>1
  <1> HIDE DEF t
  <1>4. /\ DOMAIN t = 1..n /\ t[i] = e
        /\ \A j \in 1..n : (j < i => t[j] = s[j]) /\ (j > i => t[j] = s[j - 1])
    BY <1>1, <1>2
  <1>5. \A j \in DOMAIN s : s[j] \in B
    OBVIOUS
  <1>6. \A j \in 1..n : t[j] \in B
    BY <1>3, <1>4, <1>5
  <1>7. t \in Seq(B) /\ Len(t) = n
    <2>1. t = [j \in 1..n |-> t[j]]
      BY <1>2, <1>4
    <2> QED BY <1>1, <1>6, <2>1
  <1>8. Set(t) = Set(s) \cup {e}
    <2>1. ASSUME NEW j \in DOMAIN s PROVE \E m \in 1..n : t[m] = s[j]
      <3>1. CASE j < i
        BY <1>1, <1>4, <3>1
      <3>2. CASE j >= i
        <4>1. j + 1 \in 1..n /\ j + 1 > i /\ j + 1 - 1 = j
          BY <1>1, <3>2
        <4>2. t[j + 1] = s[j]
          BY <1>4, <4>1
        <4> QED BY <4>1, <4>2
      <3> QED BY <1>1, <3>1, <3>2
    <2>2. ASSUME NEW j \in 1..n PROVE t[j] = e \/ \E m \in DOMAIN s : t[j] = s[m]
      BY <1>3, <1>4
    <2>3. \A x \in Set(t) : x = e \/ x \in Set(s)
      BY <2>2, <1>4 DEF Set
    <2>4. \A x \in Set(s) : x \in Set(t)
      BY <2>1, <1>4 DEF Set
    <2>5. e \in Set(t)
      BY <1>1, <1>4 DEF Set
    <2> QED BY <2>3, <2>4, <2>5
  <1> QED BY <1>3, <1>4, <1>7, <1>8 DEF t, Inserted

(* Of a the entries of k go, and e, if there is one, comes.                *)
Replaced(a, k, es, r) ==
    r \in Arrays /\ Set(r) = {x \in Set(a) : x.attrnum # k} \cup es

LEMMA SetReplaces ==
    ASSUME NEW a \in Arrays, NEW k \in Nat, NEW v \in Values
    PROVE  Replaced(a, k, {[attrnum |-> k, data |-> v]}, set_attrib(a, k, v))
PROOF
  <1> DEFINE s == Search(a, k)
             e == [attrnum |-> k, data |-> v]
             r == set_attrib(a, k, v)
             B == [attrnum : Nat, data : Values]
  <1>1. Located(a, k, s)
    BY SearchLocates
  <1>2. r = IF s.found THEN [a EXCEPT ![s.at] = e] ELSE With(a, s.at, e)
    BY DEF set_attrib
  <1>3. e \in B /\ e.attrnum = k
    OBVIOUS
  <1>4. /\ a \in Seq(B) /\ Len(a) \in Nat /\ DOMAIN a = 1..Len(a)
        /\ \A i \in DOMAIN a : a[i].attrnum \in Nat
        /\ \A i, j \in DOMAIN a : i < j => a[i].attrnum < a[j].attrnum
        /\ \A i, j \in DOMAIN a : a[i].attrnum = a[j].attrnum => i = j
    BY ArrayFacts
  <1> HIDE DEF s, e, r, B
  <1> DEFINE keep == {x \in Set(a) : x.attrnum # k}
  <1>5. CASE s.found
    <2>1. s.at \in DOMAIN a /\ a[s.at].attrnum = k /\ r = [a EXCEPT ![s.at] = e]
      BY <1>1, <1>2, <1>5 DEF Located
    <2>2. /\ DOMAIN r = DOMAIN a /\ r[s.at] = e
          /\ \A i \in DOMAIN a : i # s.at => r[i] = a[i]
      BY <2>1, <1>4
    <2>3. r \in Seq(B)
      BY <1>3, <1>4, <2>1
    <2>4. \A i \in DOMAIN a : r[i].attrnum = a[i].attrnum
      BY <1>3, <2>1, <2>2
    <2>5. r \in Arrays
      BY <1>4, <2>2, <2>3, <2>4 DEF Arrays, B
    <2>6. Set(r) = keep \cup {e}
      <3>1. \A i \in DOMAIN a : a[i].attrnum # k <=> i # s.at
        BY <1>4, <2>1
      <3> QED BY <2>1, <2>2, <3>1 DEF Set
    <2> QED BY <2>5, <2>6 DEF Replaced, r, e
  <1>6. CASE ~s.found
    <2>1. /\ s.at \in 1..(Len(a) + 1) /\ r = With(a, s.at, e)
          /\ \A j \in DOMAIN a : (j < s.at => a[j].attrnum < k) /\ (j >= s.at => a[j].attrnum > k)
      BY <1>1, <1>2, <1>6 DEF Located
    <2> DEFINE c == s.at
               n == Len(a) + 1
    <2>2. c \in 1..(Len(a) + 1)
      BY <2>1
    <2> HIDE DEF c
    <2>3. /\ r \in Seq(B) /\ Len(r) = n /\ DOMAIN r = 1..n /\ r[c] = e
          /\ \A j \in 1..n : /\ j < c => j \in DOMAIN a /\ r[j] = a[j]
                             /\ j > c => j - 1 \in DOMAIN a /\ r[j] = a[j - 1]
          /\ Set(r) = Set(a) \cup {e}
      <3>1. r = With(a, c, e)
        BY <2>1 DEF c
      <3>2. With(a, c, e) \in Seq(B) /\ Inserted(a, c, e, With(a, c, e))
        BY ONLY <1>3, <1>4, <2>2, WithFacts
      <3>3. r \in Seq(B) /\ Inserted(a, c, e, r)
        BY <3>1, <3>2
      <3> QED BY <3>3 DEF Inserted
    <2>4. \A j \in DOMAIN a : (j < c => a[j].attrnum < k) /\ (j >= c => a[j].attrnum > k)
      BY <2>1 DEF c
    <2>5. ASSUME NEW i \in 1..n, NEW j \in 1..n, i < j PROVE r[i].attrnum < r[j].attrnum
      <3>1. i \in Nat /\ j \in Nat /\ c \in Nat /\ k \in Nat
        BY <1>4, <2>2
      <3>2. CASE j < c
        BY <3>1, <3>2, <2>3, <2>5, <1>4, SMTT(40), ZenonT(40)
      <3>3. CASE j = c
        <4>1. i < c
          BY <2>5, <3>3
        <4> QED BY <4>1, <3>3, <2>3, <2>4, <1>3
      <3>4. CASE j > c /\ i < c
        <4>1. i \in DOMAIN a /\ j - 1 \in DOMAIN a /\ r[i] = a[i] /\ r[j] = a[j - 1]
          BY <2>3, <3>4
        <4>2. i < j - 1
          BY <3>1, <3>4
        <4> QED BY <1>4, <4>1, <4>2
      <3>5. CASE j > c /\ i = c
        <4>1. j - 1 \in DOMAIN a /\ r[j] = a[j - 1] /\ j - 1 >= c
          BY <2>3, <3>1, <3>5
        <4>2. a[j - 1].attrnum > k /\ a[j - 1].attrnum \in Nat
          BY <1>4, <2>4, <4>1
        <4> QED BY <1>3, <2>3, <3>1, <3>5, <4>1, <4>2
      <3>6. CASE j > c /\ i > c
        <4>1. i - 1 \in DOMAIN a /\ j - 1 \in DOMAIN a /\ r[i] = a[i - 1] /\ r[j] = a[j - 1]
          BY <2>3, <3>6
        <4>2. i - 1 < j - 1
          BY <2>5, <3>1
        <4> QED BY <1>4, <4>1, <4>2
      <3> QED BY <3>1, <3>2, <3>3, <3>4, <3>5, <3>6
    <2>6. r \in Arrays
      BY <2>3, <2>5 DEF Arrays, B
    <2>7. keep = Set(a)
      <3>1. \A j \in DOMAIN a : a[j].attrnum # k
        <4>1. \A j \in DOMAIN a : j < c \/ j >= c
          BY <1>4, <2>2
        <4> QED BY <1>4, <2>4, <4>1
      <3> QED BY <3>1 DEF Set
    <2> QED BY <2>3, <2>6, <2>7 DEF Replaced, r, e
  <1> QED BY <1>5, <1>6

LEMMA DelReplaces ==
    ASSUME NEW a \in Arrays, NEW k \in Nat
    PROVE  Replaced(a, k, {}, del_attrib(a, k))
PROOF
  <1> DEFINE s == Search(a, k)
             r == del_attrib(a, k)
             B == [attrnum : Nat, data : Values]
             keep == {x \in Set(a) : x.attrnum # k}
  <1>1. Located(a, k, s)
    BY SearchLocates
  <1>2. r = IF s.found THEN Without(a, s.at) ELSE a
    BY DEF del_attrib
  <1>3. /\ a \in Seq(B) /\ Len(a) \in Nat /\ DOMAIN a = 1..Len(a)
        /\ \A i \in DOMAIN a : a[i].attrnum \in Nat
        /\ \A i, j \in DOMAIN a : i < j => a[i].attrnum < a[j].attrnum
        /\ \A i, j \in DOMAIN a : a[i].attrnum = a[j].attrnum => i = j
    BY ArrayFacts
  <1> HIDE DEF s, r, B
  <1>4. CASE s.found
    <2>1. s.at \in DOMAIN a /\ a[s.at].attrnum = k /\ r = Without(a, s.at)
      BY <1>1, <1>2, <1>4 DEF Located
    <2> DEFINE c == s.at
               n == Len(a) - 1
    <2>2. c \in DOMAIN a /\ r = Without(a, c) /\ a[c].attrnum = k /\ c \in Nat
      BY <1>3, <2>1
    <2> HIDE DEF c
    <2>3. \A i, j \in DOMAIN a : a[i] = a[j] => i = j
      BY <1>3
    <2>4. /\ r \in Seq(B) /\ Len(r) = n /\ DOMAIN r = 1..n
          /\ \A j \in 1..n : j < c => r[j] = a[j]
          /\ \A j \in 1..n : j >= c => r[j] = a[j + 1]
          /\ Set(r) = Set(a) \ {a[c]}
      <3>1. a \in Seq(B) /\ c \in DOMAIN a
        BY <1>3, <2>2
      <3>2. /\ Without(a, c) \in Seq(B) /\ Len(Without(a, c)) = Len(a) - 1
            /\ DOMAIN Without(a, c) = 1..(Len(a) - 1)
            /\ \A j \in 1..(Len(a) - 1) : j < c => Without(a, c)[j] = a[j]
            /\ \A j \in 1..(Len(a) - 1) : j >= c => Without(a, c)[j] = a[j + 1]
            /\ Set(Without(a, c)) = Set(a) \ {a[c]}
        BY ONLY <2>3, <3>1, WithoutFacts, SMTT(40), ZenonT(40)
      <3> QED BY <2>2, <3>2
    <2>5. ASSUME NEW i \in 1..n, NEW j \in 1..n, i < j PROVE r[i].attrnum < r[j].attrnum
      <3>1. /\ i \in Nat /\ j \in Nat /\ i \in DOMAIN a /\ j \in DOMAIN a
            /\ i + 1 \in DOMAIN a /\ j + 1 \in DOMAIN a /\ i < j + 1 /\ i + 1 < j + 1
        BY <1>3, <2>5
      <3>2. CASE j < c
        <4>1. i < c
          BY <2>2, <2>5, <3>1, <3>2
        <4> QED BY <1>3, <2>4, <2>5, <3>1, <3>2, <4>1
      <3>3. CASE j >= c /\ i < c
        BY <1>3, <2>4, <3>1, <3>3, SMTT(40), ZenonT(40)
      <3>4. CASE j >= c /\ i >= c
        BY <1>3, <2>4, <3>1, <3>4, SMTT(40), ZenonT(40)
      <3> QED BY <2>2, <2>5, <3>1, <3>2, <3>3, <3>4
    <2>6. r \in Arrays
      BY <2>4, <2>5 DEF Arrays, B
    <2>7. keep = Set(a) \ {a[c]}
      <3>1. \A j \in DOMAIN a : a[j].attrnum # k <=> a[j] # a[c]
        BY <1>3, <2>2
      <3> QED BY <3>1, <2>2 DEF Set
    <2> QED BY <2>4, <2>6, <2>7 DEF Replaced, r
  <1>5. CASE ~s.found
    <2>1. /\ s.at \in 1..(Len(a) + 1) /\ r = a
          /\ \A j \in DOMAIN a : (j < s.at => a[j].attrnum < k) /\ (j >= s.at => a[j].attrnum > k)
      BY <1>1, <1>2, <1>5 DEF Located
    <2>2. \A j \in DOMAIN a : a[j].attrnum # k
      <3>1. \A j \in DOMAIN a : j < s.at \/ j >= s.at
        BY <1>3, <2>1
      <3> QED BY <1>3, <2>1, <3>1
    <2> QED BY <2>1, <2>2 DEF Replaced, Set, r
  <1> QED BY <1>4, <1>5

(* set_attrib and del_attrib do to the attributes what they say.           *)
LEMMA ChangeReads ==
    ASSUME NEW a \in Arrays, NEW k \in Nat
    PROVE  /\ \A v \in Values :
                 /\ set_attrib(a, k, v) \in Arrays
                 /\ get_attrib(set_attrib(a, k, v), k) = v
                 /\ \A j \in Nat : j # k => get_attrib(set_attrib(a, k, v), j) = get_attrib(a, j)
           /\ del_attrib(a, k) \in Arrays
           /\ get_attrib(del_attrib(a, k), k) = none
           /\ \A j \in Nat : j # k => get_attrib(del_attrib(a, k), j) = get_attrib(a, j)
PROOF
  <1>1. ASSUME NEW es, NEW r, Replaced(a, k, es, r), \A x \in es : x.attrnum = k
        PROVE  /\ r \in Arrays
               /\ \A j \in Nat : j # k => get_attrib(r, j) = get_attrib(a, j)
    <2>1. r \in Arrays /\ Set(r) = {x \in Set(a) : x.attrnum # k} \cup es
      BY <1>1 DEF Replaced
    <2>2. ASSUME NEW j \in Nat, j # k PROVE get_attrib(r, j) = get_attrib(a, j)
      <3>1. \A x : x \in Set(a) /\ x.attrnum = j <=> x \in Set(r) /\ x.attrnum = j
        BY <1>1, <2>1, <2>2
      <3>2. Reads(r, j, get_attrib(r, j))
        BY <2>1, GetReads
      <3>3. Reads(a, j, get_attrib(r, j))
        BY <3>1, <3>2 DEF Reads
      <3> QED BY <3>3, GetReads
    <2> QED BY <2>1, <2>2
  <1>2. ASSUME NEW v \in Values
        PROVE  /\ set_attrib(a, k, v) \in Arrays
               /\ get_attrib(set_attrib(a, k, v), k) = v
               /\ \A j \in Nat : j # k => get_attrib(set_attrib(a, k, v), j) = get_attrib(a, j)
    <2> DEFINE e == [attrnum |-> k, data |-> v]
               r == set_attrib(a, k, v)
    <2>1. Replaced(a, k, {e}, r)
      BY SetReplaces
    <2>2. e.attrnum = k /\ e.data = v
      OBVIOUS
    <2> HIDE DEF e, r
    <2>3. r \in Arrays /\ \A j \in Nat : j # k => get_attrib(r, j) = get_attrib(a, j)
      BY <1>1, <2>1, <2>2
    <2>4. Reads(r, k, v)
      BY <2>1, <2>2 DEF Replaced, Reads
    <2>5. get_attrib(r, k) = v
      BY <2>3, <2>4, GetReads
    <2> QED BY <2>3, <2>5 DEF r
  <1>3. /\ del_attrib(a, k) \in Arrays
        /\ get_attrib(del_attrib(a, k), k) = none
        /\ \A j \in Nat : j # k => get_attrib(del_attrib(a, k), j) = get_attrib(a, j)
    <2> DEFINE r == del_attrib(a, k)
    <2>1. Replaced(a, k, {}, r)
      BY DelReplaces
    <2> HIDE DEF r
    <2>2. r \in Arrays /\ \A j \in Nat : j # k => get_attrib(r, j) = get_attrib(a, j)
      BY <1>1, <2>1
    <2>3. Reads(r, k, none)
      BY <2>1 DEF Replaced, Reads
    <2>4. get_attrib(r, k) = none
      BY <2>2, <2>3, GetReads
    <2> QED BY <2>2, <2>4 DEF r
  <1> QED BY <1>2, <1>3

-----------------------------------------------------------------------------
(* The steps *)

SomeSound(n, d) == \E ls, own : Sound(n, d, ls, own)

LEMMA NowIs ==
    ASSUME SomeSound(sys_c, disk), NEW o \in Objects
    PROVE  /\ Now(o) \in Arrays /\ disk[o] \in Arrays
           /\ FoundIn(sys_c, o) = "none" => Now(o) = disk[o]
           /\ FoundIn(sys_c, o) # "none" =>
                 Now(o) = sys_c.op[Find(sys_c, <<Bucket(o), FoundIn(sys_c, o)>>, o)].atrs
PROOF
  <1>1. PICK ls, own : Sound(sys_c, disk, ls, own)
    BY DEF SomeSound
  <1>2. Attributes(sys_c, disk, o) \in Arrays /\ disk[o] \in Arrays
    BY <1>1, AttributesAre
  <1> QED BY <1>2 DEF Now, Attributes, FoundIn

LEMMA SameEntry ==
    ASSUME NEW n \in Caches, NEW e \in Blocks, n.op[e] # NoOp
    PROVE  [n EXCEPT !.op[e].atrs = n.op[e].atrs] = n
PROOF
  <1> DEFINE p == n.op[e]
  <1>1. n.op \in [Blocks -> Ops] /\ p = [name |-> p.name, atrs |-> p.atrs]
    BY CacheFacts, OpFacts
  <1>2. [p EXCEPT !.atrs = p.atrs] = p
    <2> HIDE DEF p
    <2> QED BY <1>1
  <1>3. [n.op EXCEPT ![e] = [p EXCEPT !.atrs = p.atrs]] = n.op
    BY <1>1, <1>2
  <1>4. [n EXCEPT !.op[e].atrs = n.op[e].atrs]
           = [n EXCEPT !.op = [n.op EXCEPT ![e] = [p EXCEPT !.atrs = p.atrs]]]
    BY <1>1 DEF Caches
  <1>5. [n EXCEPT !.op = n.op] = n
    BY DEF Caches
  <1> QED BY <1>3, <1>4, <1>5

(* FETCH answers with what there is and keeps every answer, but that a     *)
(* write that fails loses an object and leaves FETCH with nothing.         *)
LEMMA GetStep ==
    ASSUME SomeSound(sys_c, disk), NEW x \in Anames, cache_get(x)
    PROVE  \/ /\ After(sys_c, disk, sys_c', disk', x[1], Now(x[1]))
              /\ held' = held \cup {x[1]}
              /\ done' = "fetched" /\ answer' = Answer(x, Now(x[1]))
           \/ /\ Lost(sys_c, disk, sys_c', disk') /\ held' = held
              /\ done' = "refused" /\ answer' = <<x, none>>
           \/ /\ sys_c' = sys_c /\ disk' = disk /\ held' = held
              /\ done' = "fetched" /\ answer' = Answer(x, Now(x[1]))
PROOF
  <1> DEFINE o == x[1]
             from == FoundIn(sys_c, o)
             e == Find(sys_c, <<Bucket(o), from>>, o)
  <1>1. o \in Objects /\ x[2] \in Nat
    BY NamesAssumption
  <1> HIDE DEF o
  <1>2. PICK ls, own : Sound(sys_c, disk, ls, own)
    BY DEF SomeSound
  <1>3. \/ from # "none" /\ Effect(Rechain(sys_c, o, from, Touched(from)), disk, {o},
                                   "fetched", Answer(x, sys_c.op[e].atrs))
        \/ from = "none" /\ disk[o] = <<>> /\ Effect(sys_c, disk, {}, "fetched", <<x, none>>)
        \/ /\ from = "none"
           /\ \E ok \in DBAnswers(sys_c, Bucket(o)), new \in Spare(sys_c, Bucket(o)) :
                LET r == Load(o, disk[o], "active", ok, new)
                IN IF r.cp = CNULL
                   THEN Effect(r.n, r.d, {}, "refused", <<x, none>>)
                   ELSE Effect(r.n, r.d, {o}, "fetched", Answer(x, disk[o]))
    BY DEF cache_get, o
  <1>4. CASE from # "none" /\ Effect(Rechain(sys_c, o, from, Touched(from)), disk, {o},
                                     "fetched", Answer(x, sys_c.op[e].atrs))
    <2> DEFINE a == Now(o)
               to == Touched(from)
               n1 == [sys_c EXCEPT !.op[e].atrs = a]
    <2>1. Holds(sys_c, ls, o, from, e)
      BY <1>1, <1>2, <1>4, FoundWhere
    <2>2. a = sys_c.op[e].atrs /\ a \in Arrays
      BY <1>1, <1>4, NowIs
    <2> HIDE DEF a, from
    <2>3. to \in Pins /\ (to = "active" => from \in {"active", "old"})
      BY <2>1 DEF Holds, Touched, Pins, Kinds
    <2>4. to = "active" => a = disk[o]
      <3>1. Contents(sys_c, disk, ls)
        BY <1>2 DEF Sound
      <3> QED BY <2>1, <2>2, <2>3, <3>1 DEF Contents, Holds
    <2>5. sys_c \in Caches /\ e \in Blocks /\ sys_c.op[e] # NoOp
      BY <1>2, <2>1 DEF Holds, Sound
    <2>8. /\ sys_c' = Rechain(sys_c, o, from, to)
          /\ disk' = disk
          /\ held' = held \cup {o}
          /\ done' = "fetched" /\ answer' = Answer(x, a)
      BY <1>4, <2>2 DEF Effect
    <2> HIDE DEF e, to
    <2>6. n1 = sys_c
      BY <2>2, <2>5, SameEntry
    <2> HIDE DEF n1
    <2>7. After(sys_c, disk, Rechain(n1, o, from, to), disk, o, a)
      <3>1. n1 = [sys_c EXCEPT !.op[e].atrs = a] /\ e = Find(sys_c, <<Bucket(o), from>>, o)
        BY DEF n1, e
      <3>2. from = FoundIn(sys_c, o) /\ from # "none"
        BY <1>4 DEF from
      <3> QED BY ONLY <1>1, <1>2, <2>2, <2>3, <2>4, <3>1, <3>2, RechainAfter
    <2> QED BY <2>6, <2>7, <2>8 DEF a, o
  <1>5. CASE from = "none" /\ disk[o] = <<>> /\ Effect(sys_c, disk, {}, "fetched", <<x, none>>)
    <2>1. Now(o) = <<>> /\ <<>> \in Arrays
      BY <1>1, <1>5, NowIs
    <2>2. Reads(<<>>, x[2], none)
      BY DEF Reads, Set
    <2>3. get_attrib(<<>>, x[2]) = none
      BY <1>1, <2>1, <2>2, GetReads
    <2>4. answer' = Answer(x, Now(o))
      BY <1>5, <2>1, <2>3 DEF Effect, Answer
    <2> QED BY <1>5, <2>4 DEF Effect, o
  <1>6. CASE /\ from = "none"
             /\ \E ok \in DBAnswers(sys_c, Bucket(o)), new \in Spare(sys_c, Bucket(o)) :
                  LET r == Load(o, disk[o], "active", ok, new)
                  IN IF r.cp = CNULL
                     THEN Effect(r.n, r.d, {}, "refused", <<x, none>>)
                     ELSE Effect(r.n, r.d, {o}, "fetched", Answer(x, disk[o]))
    <2>1. PICK ok \in DBAnswers(sys_c, Bucket(o)), new \in Spare(sys_c, Bucket(o)) :
             LET r == Load(o, disk[o], "active", ok, new)
             IN IF r.cp = CNULL
                THEN Effect(r.n, r.d, {}, "refused", <<x, none>>)
                ELSE Effect(r.n, r.d, {o}, "fetched", Answer(x, disk[o]))
      BY <1>6
    <2> DEFINE a == disk[o]
               kind == "active"
               r == Load(o, a, kind, ok, new)
    <2>2. Now(o) = a /\ a \in Arrays
      BY <1>1, <1>6, NowIs
    <2>3. ok \in BOOLEAN /\ kind \in Pins /\ (kind = "active" => a = disk[o])
      BY DEF DBAnswers, Pins
    <2>4. /\ r.cp = CNULL => Effect(r.n, r.d, {}, "refused", <<x, none>>)
          /\ r.cp # CNULL => Effect(r.n, r.d, {o}, "fetched", Answer(x, a))
      BY <2>1
    <2> HIDE DEF a, kind, from
    <2>5. FoundIn(sys_c, o) = "none" /\ new \in Spare(sys_c, Bucket(o))
      BY <1>6 DEF from
    <2> HIDE DEF r
    <2>6. r = Load(o, a, kind, ok, new)
      BY DEF r
    <2>7. /\ r.cp # CNULL => After(sys_c, disk, r.n, r.d, o, a)
          /\ r.cp = CNULL => Lost(sys_c, disk, r.n, r.d)
      BY ONLY <1>1, <1>2, <2>2, <2>3, <2>5, <2>6, LoadAfter
    <2>8. CASE r.cp = CNULL
      BY <2>4, <2>7, <2>8 DEF Effect
    <2>9. CASE r.cp # CNULL
      <3>1. /\ sys_c' = r.n
            /\ disk' = r.d
            /\ held' = held \cup {o}
            /\ done' = "fetched" /\ answer' = Answer(x, Now(o))
        BY <2>2, <2>4, <2>9 DEF Effect
      <3> QED BY <2>2, <2>7, <2>9, <3>1 DEF o
    <2> QED BY <2>8, <2>9
  <1> HIDE DEF from, e
  <1> QED BY <1>3, <1>4, <1>5, <1>6

LEMMA ModifyStep ==
    ASSUME SomeSound(sys_c, disk), NEW o \in Objects, NEW a \in Arrays, NEW what,
           Modify(o, a, what)
    PROVE  /\ held' = held
           /\ answer' = none
           /\ \/ After(sys_c, disk, sys_c', disk', o, a) /\ done' = what
              \/ Lost(sys_c, disk, sys_c', disk') /\ done' = "refused"
PROOF
  <1> DEFINE from == FoundIn(sys_c, o)
             e == Find(sys_c, <<Bucket(o), from>>, o)
             to == "mactive"
             n1 == [sys_c EXCEPT !.op[e].atrs = a]
  <1>1. PICK ls, own : Sound(sys_c, disk, ls, own)
    BY DEF SomeSound
  <1>2. \/ from # "none" /\ Effect(Rechain(n1, o, from, to), disk, {}, what, none)
        \/ /\ from = "none"
           /\ \E ok \in DBAnswers(sys_c, Bucket(o)), new \in Spare(sys_c, Bucket(o)) :
                LET r == Load(o, a, to, ok, new)
                IN Effect(r.n, r.d, {}, IF r.cp = CNULL THEN "refused" ELSE what, none)
    BY DEF Modify
  <1>3. to \in Pins /\ (to = "active" => a = disk[o])
    BY DEF Pins
  <1>4. CASE from # "none" /\ Effect(Rechain(n1, o, from, to), disk, {}, what, none)
    <2> HIDE DEF from, to, e, n1
    <2>1. n1 = [sys_c EXCEPT !.op[e].atrs = a] /\ e = Find(sys_c, <<Bucket(o), from>>, o)
      BY DEF n1, e
    <2>2. from = FoundIn(sys_c, o) /\ from # "none"
      BY <1>4 DEF from
    <2>3. After(sys_c, disk, Rechain(n1, o, from, to), disk, o, a)
      BY ONLY <1>1, <1>3, <2>1, <2>2, RechainAfter, o \in Objects, a \in Arrays
    <2>4. /\ sys_c' = Rechain(n1, o, from, to) /\ disk' = disk /\ held' = held
          /\ done' = what /\ answer' = none
      BY <1>4 DEF Effect
    <2> QED BY <2>3, <2>4
  <1>5. CASE /\ from = "none"
             /\ \E ok \in DBAnswers(sys_c, Bucket(o)), new \in Spare(sys_c, Bucket(o)) :
                  LET r == Load(o, a, to, ok, new)
                  IN Effect(r.n, r.d, {}, IF r.cp = CNULL THEN "refused" ELSE what, none)
    <2> HIDE DEF from, to, e, n1
    <2>1. PICK ok \in DBAnswers(sys_c, Bucket(o)), new \in Spare(sys_c, Bucket(o)) :
             LET r == Load(o, a, to, ok, new)
             IN Effect(r.n, r.d, {}, IF r.cp = CNULL THEN "refused" ELSE what, none)
      BY <1>5
    <2> DEFINE r == Load(o, a, to, ok, new)
    <2>2. ok \in BOOLEAN
      BY DEF DBAnswers
    <2>3. /\ sys_c' = r.n
          /\ disk' = r.d
          /\ held' = held
          /\ done' = (IF r.cp = CNULL THEN "refused" ELSE what) /\ answer' = none
      BY <2>1 DEF Effect
    <2>4. FoundIn(sys_c, o) = "none" /\ new \in Spare(sys_c, Bucket(o))
      BY <1>5 DEF from
    <2> HIDE DEF r
    <2>5. r = Load(o, a, to, ok, new)
      BY DEF r
    <2>6. /\ r.cp # CNULL => After(sys_c, disk, r.n, r.d, o, a)
          /\ r.cp = CNULL => Lost(sys_c, disk, r.n, r.d)
      BY ONLY <1>1, <1>3, <2>2, <2>4, <2>5, LoadAfter, o \in Objects, a \in Arrays
    <2> QED BY <2>3, <2>6
  <1> HIDE DEF from, to, e, n1
  <1> QED BY <1>2, <1>4, <1>5

(* What a step may do to the cache and the disk.                           *)
Got(x, a, what, told) ==
    /\ After(sys_c, disk, sys_c', disk', x[1], a)
    /\ held' \subseteq held \cup {x[1]} /\ done' = what /\ answer' = told

\* Of the map, x alone has changed, to what a has of it.
Became(x, a, what, told) ==
    /\ Map!Flushes /\ Map!Unchanged(Anames \ {x})
    /\ done' = what /\ answer' = told
    /\ shown'.map[x] = get_attrib(a, x[2])

Outcome ==
    \/ \E x \in Anames : Got(x, Now(x[1]), "fetched", Answer(x, Now(x[1])))
    \/ \E x \in Anames, v \in Values :
          Got(x, set_attrib(Now(x[1]), x[2], v), "stored", none)
    \/ \E x \in Anames : Got(x, del_attrib(Now(x[1]), x[2]), "deleted", none)
    \/ /\ Lost(sys_c, disk, sys_c', disk') /\ held' = held
       /\ done' = "refused" /\ answer' \in {none} \cup (Anames \X {none})
    \/ /\ sys_c' = sys_c /\ disk' = disk /\ held' = held
       /\ \/ done' = "none" /\ answer' = none
          \/ done' = "fetched" /\ \E x \in Anames : answer' = Answer(x, Now(x[1]))
    \/ /\ SomeSound(sys_c', disk') /\ Kept(sys_c, disk, sys_c', disk') /\ held' = {}
       /\ answer' = none
       /\ \/ done' = "none"
          \/ done' = "synced" /\ \A o \in Objects : disk'[o] = Now(o)
    \/ /\ SomeSound(sys_c', disk') /\ held' = {} /\ done' = "none" /\ answer' = none
       /\ \A o \in Objects : /\ Attributes(sys_c', disk', o) = disk'[o]
                             /\ disk'[o] = disk[o] \/ disk'[o] = Now(o)

LEMMA ModifiedCount ==
    Cardinality(Modified) \in Nat
PROOF
  <1>1. Modified \in SUBSET Blocks
    BY DEF Modified
  <1> HIDE DEF Modified
  <1>2. IsFiniteSet(Modified)
    BY <1>1, SizesAssumption, FS_Subset
  <1> QED BY <1>2, FS_CardinalityType

LEMMA StepOutcome ==
    ASSUME SomeSound(sys_c, disk), Step
    PROVE  Outcome
PROOF
  <1>1. PICK ls, own : Sound(sys_c, disk, ls, own)
    BY DEF SomeSound
  <1>2. Anames \subseteq Objects \X Nat
    BY NamesAssumption
  <1>3. ASSUME NEW x \in Anames, cache_get(x) PROVE Outcome
    <2>1. \/ /\ After(sys_c, disk, sys_c', disk', x[1], Now(x[1]))
             /\ held' = held \cup {x[1]}
             /\ done' = "fetched" /\ answer' = Answer(x, Now(x[1]))
          \/ /\ Lost(sys_c, disk, sys_c', disk') /\ held' = held
             /\ done' = "refused" /\ answer' = <<x, none>>
          \/ /\ sys_c' = sys_c /\ disk' = disk /\ held' = held
             /\ done' = "fetched" /\ answer' = Answer(x, Now(x[1]))
      BY <1>3, GetStep
    <2>2. <<x, none>> \in Anames \X {none}
      OBVIOUS
    <2> QED BY <2>1, <2>2 DEF Outcome, Got
  <1>4. ASSUME NEW x \in Anames, cache_del(x) PROVE Outcome
    <2> DEFINE o == x[1]
               a == del_attrib(Now(o), x[2])
    <2>1. o \in Objects /\ x[2] \in Nat
      BY <1>2
    <2>2. CASE Effect(sys_c, disk, {}, "none", none)
      BY <2>2 DEF Effect, Outcome
    <2>3. CASE Modify(o, a, "deleted")
      <3>1. a \in Arrays
        BY <2>1, NowIs, ChangeReads
      <3> HIDE DEF a
      <3>2. /\ held' = held /\ answer' = none
            /\ \/ After(sys_c, disk, sys_c', disk', o, a) /\ done' = "deleted"
               \/ Lost(sys_c, disk, sys_c', disk') /\ done' = "refused"
        BY <2>1, <2>3, <3>1, ModifyStep
      <3> QED BY <3>2 DEF Outcome, Got, a
    <2> QED BY <1>4, <2>2, <2>3 DEF cache_del
  <1>5. ASSUME NEW x \in Anames, NEW v \in Values, cache_put(x, v) PROVE Outcome
    <2> DEFINE o == x[1]
               a == set_attrib(Now(o), x[2], v)
    <2>1. o \in Objects /\ x[2] \in Nat
      BY <1>2
    <2>2. Modify(o, a, "stored")
      BY <1>5 DEF cache_put
    <2>3. a \in Arrays
      BY <2>1, NowIs, ChangeReads
    <2> HIDE DEF a
    <2>4. /\ held' = held /\ answer' = none
          /\ \/ After(sys_c, disk, sys_c', disk', o, a) /\ done' = "stored"
             \/ Lost(sys_c, disk, sys_c', disk') /\ done' = "refused"
      BY <2>1, <2>2, <2>3, ModifyStep
    <2> QED BY <2>4 DEF Outcome, Got, a
  <1>6. ASSUME cache_reset PROVE Outcome
    <2>1. PICK trim \in BOOLEAN : sys_c' = Reset(sys_c, trim)
      BY <1>6 DEF cache_reset
    <2>2. Still(sys_c, disk, own, Reset(sys_c, trim), disk)
      BY <1>1, ResetSound
    <2>3. disk' = disk /\ held' = {} /\ done' = "none" /\ answer' = none
      BY <1>6 DEF cache_reset
    <2>4. SomeSound(Reset(sys_c, trim), disk) /\ Kept(sys_c, disk, Reset(sys_c, trim), disk)
      BY <2>2 DEF Still, SomeSound
    <2> QED BY <2>1, <2>3, <2>4 DEF Outcome
  <1>7. \A left \in Nat :
           /\ SomeSound(SyncUpTo(left).n, SyncUpTo(left).d)
           /\ Kept(sys_c, disk, SyncUpTo(left).n, SyncUpTo(left).d)
           /\ SyncUpTo(left).ok => \A o \in Objects : SyncUpTo(left).d[o] = Now(o)
    <2>1. ASSUME NEW left \in Nat
          PROVE  /\ Still(sys_c, disk, own, SyncUpTo(left).n, SyncUpTo(left).d)
                 /\ SyncUpTo(left).ok
                       => \A o \in Objects : SyncUpTo(left).d[o] = Attributes(sys_c, disk, o)
      BY <1>1, SyncSound
    <2> QED BY <2>1 DEF Still, SomeSound, Now
  <1>8. ASSUME cache_sync PROVE Outcome
    <2>1. PICK left \in (IF DBFails THEN 0 ELSE Cardinality(Modified))..Cardinality(Modified) :
             /\ sys_c' = SyncUpTo(left).n /\ disk' = SyncUpTo(left).d
             /\ held' = {} /\ answer' = none
             /\ done' = IF SyncUpTo(left).ok THEN "synced" ELSE "none"
      BY <1>8 DEF cache_sync
    <2>2. left \in Nat
      BY ModifiedCount
    <2>3. /\ SomeSound(SyncUpTo(left).n, SyncUpTo(left).d)
          /\ Kept(sys_c, disk, SyncUpTo(left).n, SyncUpTo(left).d)
          /\ SyncUpTo(left).ok => \A o \in Objects : SyncUpTo(left).d[o] = Now(o)
      BY <1>7, <2>2
    <2> QED BY <2>1, <2>3 DEF Outcome
  <1>9. ASSUME Crash PROVE Outcome
    <2>1. PICK left \in 0..Cardinality(Modified) : disk' = SyncUpTo(left).d
      BY <1>9 DEF Crash
    <2>2. sys_c' = cache_init /\ held' = {} /\ done' = "none" /\ answer' = none
      BY <1>9 DEF Crash
    <2>3. left \in Nat
      BY ModifiedCount
    <2> DEFINE c == SyncUpTo(left).d
    <2>4. c \in Disks /\ Kept(sys_c, disk, SyncUpTo(left).n, c)
      BY <1>7, <2>3 DEF SomeSound, Sound
    <2> HIDE DEF c
    <2>5. \A o \in Objects : c[o] = disk[o] \/ c[o] = Now(o)
      BY <2>4 DEF Kept, Now
    <2>6. SomeSound(cache_init, c) /\ \A o \in Objects : Attributes(cache_init, c, o) = c[o]
      BY <2>4, InitSound DEF SomeSound
    <2>7. disk' = c
      BY <2>1 DEF c
    <2> QED BY <2>2, <2>5, <2>6, <2>7 DEF Outcome
  <1> QED BY <1>3, <1>4, <1>5, <1>6, <1>8, <1>9 DEF Step

-----------------------------------------------------------------------------
(* The theorems *)

(* The inductive invariant.                                                *)
IInv ==
    /\ SomeSound(sys_c, disk)
    /\ held \subseteq Objects /\ \A o \in held : Safe(sys_c, o)
    /\ shown = Shown(sys_c, disk)

LEMMA InitHolds ==
    ASSUME Init
    PROVE  IInv
PROOF
  <1>1. disk \in Disks
    <2>1. <<>> \in Arrays
      BY DEF Arrays
    <2> QED BY <2>1 DEF Init, Disks
  <1>2. SomeSound(sys_c, disk)
    BY <1>1, InitSound DEF Init, SomeSound
  <1> QED BY <1>2 DEF Init, IInv

LEMMA OutcomeKeeps ==
    ASSUME IInv, Outcome, shown' = Shown(sys_c', disk')
    PROVE  IInv'
PROOF
  <1>1. /\ SomeSound(sys_c, disk) /\ held \subseteq Objects
        /\ \A o \in held : Safe(sys_c, o)
    BY DEF IInv
  <1>2. /\ SomeSound(sys_c', disk') /\ held' \subseteq Objects
        /\ \A o \in held' : Safe(sys_c', o)
    <2>1. ASSUME NEW x \in Anames, NEW a, NEW what, NEW told, Got(x, a, what, told)
          PROVE  /\ SomeSound(sys_c', disk') /\ held' \subseteq Objects
                 /\ \A o \in held' : Safe(sys_c', o)
      <3>1. x[1] \in Objects
        BY NamesAssumption
      <3>2. /\ SomeSound(sys_c', disk') /\ Stays(sys_c, sys_c') /\ Safe(sys_c', x[1])
            /\ held' \subseteq held \cup {x[1]}
        BY <2>1 DEF Got, After, SomeSound
      <3> QED BY <1>1, <3>1, <3>2 DEF Stays
    <2>2. CASE Lost(sys_c, disk, sys_c', disk') /\ held' = held
      <3>1. SomeSound(sys_c', disk') /\ Stays(sys_c, sys_c')
        BY <2>2 DEF Lost, SomeSound
      <3> QED BY <1>1, <2>2, <3>1 DEF Stays
    <2>3. CASE sys_c' = sys_c /\ disk' = disk /\ held' = held
      BY <1>1, <2>3
    <2>4. CASE SomeSound(sys_c', disk') /\ held' = {}
      BY <2>4
    <2> QED BY <2>1, <2>2, <2>3, <2>4 DEF Outcome
  <1> QED BY <1>2 DEF IInv, SomeSound, Safe, Pins, Shown, FETCH, Attributes

LEMMA SoundImplies ==
    ASSUME IInv
    PROVE  CacheSound /\ HeldStays
PROOF
  <1>1. PICK ls, own : Sound(sys_c, disk, ls, own)
    BY DEF IInv, SomeSound
  <1>2. /\ sys_c \in Caches /\ disk \in Disks /\ Listed(sys_c, ls)
        /\ Contents(sys_c, disk, ls) /\ Counted(sys_c, ls, own)
    BY <1>1 DEF Sound
  <1>3. \A q \in Chains : Entries(sys_c, q) = ls[q]
    BY <1>2, EntriesAre
  <1>4. /\ sys_c.nxt \in [Blocks -> Ptr] /\ sys_c.prv \in [Blocks -> Ptr]
        /\ sys_c.head \in [Chains -> Ptr] /\ sys_c.tail \in [Chains -> Ptr]
        /\ sys_c.used \in SUBSET Blocks /\ own \in [Blocks -> Buckets]
    BY <1>2, CacheFacts DEF Counted
  <1>5. \A b \in Buckets :
           /\ IsFiniteSet({e \in sys_c.used : own[e] = b})
           /\ Cardinality({e \in sys_c.used : own[e] = b}) \in 0..Cardinality(Blocks)
           /\ sys_c.count[b] = Cardinality({e \in sys_c.used : own[e] = b})
    <2>1. ASSUME NEW S, S \in SUBSET Blocks
          PROVE  IsFiniteSet(S) /\ Cardinality(S) \in 0..Cardinality(Blocks)
      <3>1. IsFiniteSet(S) /\ Cardinality(S) <= Cardinality(Blocks)
        BY <2>1, SizesAssumption, FS_Subset
      <3>2. Cardinality(S) \in Nat /\ Cardinality(Blocks) \in Nat
        BY <3>1, SizesAssumption, FS_CardinalityType
      <3> QED BY <3>1, <3>2
    <2>2. \A b \in Buckets : {e \in sys_c.used : own[e] = b} \in SUBSET Blocks
      BY <1>4
    <2> QED BY <1>2, <2>1, <2>2 DEF Counted
  <1>6. TypeOK
    <2>1. ASSUME NEW o \in Objects, NEW i \in DOMAIN disk[o] PROVE disk[o][i].data \in Values
      <3>1. disk[o] \in Arrays
        BY <1>2 DEF Disks
      <3> QED BY <3>1, ArrayFacts
    <2>2. \A b \in Buckets : sys_c.count[b] \in 0..Cardinality(Blocks)
      BY <1>5
    <2> QED BY <1>4, <2>1, <2>2 DEF TypeOK, IInv
  <1>7. ChainsLinked
    <2> DEFINE es == [q \in Chains |-> Entries(sys_c, q)]
    <2>1. \A q \in Chains : es[q] = ls[q]
      BY <1>3
    <2> HIDE DEF es
    <2>2. ASSUME NEW q \in Chains
          PROVE  /\ \A i \in DOMAIN es[q] :
                      LET e == es[q][i]
                      IN /\ sys_c.prv[e] = IF i = 1 THEN CNULL ELSE es[q][i - 1]
                         /\ sys_c.op[e] # NoOp => Bucket(sys_c.op[e].name) = q[1]
                 /\ es[q] # <<>> => /\ sys_c.tail[q] = es[q][Len(es[q])]
                                   /\ sys_c.nxt[es[q][Len(es[q])]] = CNULL
                 /\ es[q] = <<>> /\ q[2] \in {"old", "mold"} => sys_c.tail[q] = CNULL
      <3> DEFINE s == ls[q]
      <3>1. /\ Len(s) \in Nat /\ DOMAIN s = 1..Len(s)
            /\ \A i \in DOMAIN s : s[i] \in Set(s)
            /\ s = <<>> => sys_c.tail[q] = CNULL
            /\ s # <<>> => /\ sys_c.tail[q] = s[Len(s)] /\ sys_c.nxt[s[Len(s)]] = CNULL
                           /\ sys_c.prv[s[1]] = CNULL
            /\ \A i \in DOMAIN s : i > 1 => sys_c.prv[s[i]] = s[i - 1]
        BY <1>2, ListFacts
      <3>2. \A e \in Set(s) : sys_c.op[e] # NoOp => Bucket(sys_c.op[e].name) = q[1]
        BY <1>2 DEF Contents
      <3>3. es[q] = s
        BY <2>1
      <3> HIDE DEF s
      <3>4. \A i \in DOMAIN s : s # <<>> /\ (i = 1 \/ i > 1)
        <4>1. s = <<>> => DOMAIN s = {}
          BY <3>1
        <4> QED BY <3>1, <4>1
      <3>5. \A i \in DOMAIN s : /\ sys_c.prv[s[i]] = IF i = 1 THEN CNULL ELSE s[i - 1]
                                /\ sys_c.op[s[i]] # NoOp => Bucket(sys_c.op[s[i]].name) = q[1]
        BY <3>1, <3>2, <3>4
      <3> QED BY <3>1, <3>3, <3>5
    <2>3. \A q, r \in Chains : q # r => Set(es[q]) \cap Set(es[r]) = {}
      BY <1>2, <2>1 DEF Listed
    <2> QED BY <2>2, <2>3 DEF ChainsLinked, es
  <1>8. ASSUME NEW b \in Buckets, NEW e \in OnChains(b)
        PROVE  \E k \in Kinds : <<b, k>> \in Chains /\ e \in Set(ls[<<b, k>>])
    <2>1. PICK k \in Kinds : e \in Set(Entries(sys_c, <<b, k>>))
      BY <1>8 DEF OnChains
    <2>2. <<b, k>> \in Chains
      BY ChainFacts
    <2> QED BY <1>3, <2>1, <2>2
  <1>9. CachedOnce
    <2>1. ASSUME NEW b \in Buckets, NEW e \in OnChains(b), NEW f \in OnChains(b),
                 e # f, sys_c.op[e] # NoOp
          PROVE  sys_c.op[e].name # sys_c.op[f].name
      <3>1. PICK q \in Chains : e \in Set(ls[q])
        BY <1>8
      <3>2. PICK r \in Chains : f \in Set(ls[r])
        BY <1>8
      <3> QED BY <1>2, <2>1, <3>1, <3>2 DEF Contents
    <2> QED BY <2>1 DEF CachedOnce
  <1>10. CleanIsStored
    <2>1. ASSUME NEW b \in Buckets, NEW k \in {"active", "old"}
          PROVE  \A e \in Set(Entries(sys_c, <<b, k>>)) :
                    sys_c.op[e] # NoOp => sys_c.op[e].atrs = disk[sys_c.op[e].name]
      <3> DEFINE q == <<b, k>>
      <3>1. q \in Chains /\ q[2] \in {"active", "old"}
        BY ChainFacts
      <3> HIDE DEF q
      <3>2. \A e \in Set(ls[q]) : sys_c.op[e] # NoOp => sys_c.op[e].atrs = disk[sys_c.op[e].name]
        BY <1>2, <3>1 DEF Contents
      <3> QED BY <1>3, <3>1, <3>2 DEF q
    <2> QED BY <2>1 DEF CleanIsStored
  <1>11. \A b \in Buckets : Cardinality(OnChains(b)) <= sys_c.count[b]
    <2>1. ASSUME NEW b \in Buckets
          PROVE  OnChains(b) \subseteq {e \in sys_c.used : own[e] = b}
      <3>1. ASSUME NEW e \in OnChains(b) PROVE e \in sys_c.used /\ own[e] = b
        <4>1. PICK k \in Kinds : <<b, k>> \in Chains /\ e \in Set(ls[<<b, k>>])
          BY <1>8
        <4> QED BY <1>2, <4>1 DEF Contents, Counted
      <3> QED BY <3>1
    <2>2. ASSUME NEW b \in Buckets PROVE Cardinality(OnChains(b)) <= sys_c.count[b]
      <3> DEFINE S == OnChains(b)
                 T == {e \in sys_c.used : own[e] = b}
      <3>1. S \subseteq T /\ IsFiniteSet(T) /\ sys_c.count[b] = Cardinality(T)
        BY <1>5, <2>1
      <3> HIDE DEF S, T
      <3>2. Cardinality(S) <= Cardinality(T)
        BY <3>1, FS_Subset
      <3> QED BY <3>1, <3>2 DEF S
    <2> QED BY <2>2
  <1>12. CacheSound
    BY <1>6, <1>7, <1>9, <1>10, <1>11 DEF CacheSound
  <1>13. HeldStays
    BY DEF IInv, Safe, Pins, HeldStays
  <1> QED BY <1>12, <1>13

LEMMA Inductive == Spec => []IInv
PROOF
  <1>1. Init => IInv
    BY InitHolds
  <1>2. IInv /\ [Next]_vars => IInv'
    <2>1. ASSUME IInv, Next PROVE IInv'
      <3>1. Outcome /\ shown' = Shown(sys_c', disk')
        BY <2>1, StepOutcome DEF IInv, Next
      <3> QED BY <2>1, <3>1, OutcomeKeeps
    <2>2. ASSUME IInv, UNCHANGED vars PROVE IInv'
      BY <2>2 DEF IInv, vars, SomeSound, Safe, Shown, FETCH, Attributes
    <2> QED BY <2>1, <2>2
  <1> QED BY <1>1, <1>2, PTL DEF Spec

(* Whatever mixture of moves, splices, evictions, trims, failed writes and *)
(* crashes happens, the four chains of every bucket stay well-formed lists *)
(* that share no entry, no object is cached twice, and what may be dropped *)
(* without being written is on disk (udb_ocache.c:77-113, 705, 742-823).   *)
THEOREM CacheStaysSound == Spec => []CacheSound
PROOF
  <1>1. IInv => CacheSound
    BY SoundImplies
  <1> QED BY <1>1, Inductive, PTL

(* No entry whose object FETCH has found since the last cache_reset is     *)
(* given to another object (udb_ocache.c:754; db.c:2145).                  *)
THEOREM HeldStaysCached == Spec => []HeldStays
PROOF
  <1>1. IInv => HeldStays
    BY SoundImplies
  <1> QED BY <1>1, Inductive, PTL

-----------------------------------------------------------------------------
(* The attribute store is a map *)

(* map and stored, by object.                                              *)
LEMMA ShownIs ==
    ASSUME IInv
    PROVE  \A x \in Anames :
              /\ x[1] \in Objects /\ x[2] \in Nat /\ x = <<x[1], x[2]>>
              /\ shown.map[x] = get_attrib(Now(x[1]), x[2])
              /\ shown.stored[x] = get_attrib(disk[x[1]], x[2])
PROOF
  <1>1. Anames \subseteq Objects \X Nat
    BY NamesAssumption
  <1> QED BY <1>1 DEF IInv, Shown, FETCH, Now

(* The same after a step.                                                  *)
Later ==
    \A x \in Anames :
       /\ shown'.map[x] = get_attrib(Attributes(sys_c', disk', x[1]), x[2])
       /\ shown'.stored[x] = get_attrib(disk'[x[1]], x[2])

LEMMA FlushesIf ==
    ASSUME IInv, Later,
           \A o \in Objects : disk'[o] = disk[o] \/ disk'[o] = Now(o)
    PROVE  Map!Flushes
PROOF
  <1>1. ASSUME NEW o \in Objects
        PROVE  \/ \A x \in Map!OfObject(o) : shown'.stored[x] = shown.stored[x]
               \/ \A x \in Map!OfObject(o) : shown'.stored[x] = shown.map[x]
    <2>1. \A x \in Map!OfObject(o) : x \in Anames /\ x[1] = o
      BY DEF Map!OfObject
    <2>2. \A x \in Map!OfObject(o) : /\ shown.map[x] = get_attrib(Now(o), x[2])
                                    /\ shown.stored[x] = get_attrib(disk[o], x[2])
                                    /\ shown'.stored[x] = get_attrib(disk'[o], x[2])
      BY <2>1, ShownIs DEF Later
    <2> QED BY <2>2
  <1> QED BY <1>1 DEF Map!Flushes

LEMMA MapSteps ==
    ASSUME IInv, Outcome, shown' = Shown(sys_c', disk')
    PROVE  Map!Next
PROOF
  <1>1. Later
    BY DEF Later, Shown, FETCH
  <1>2. \A x \in Anames :
              /\ x[1] \in Objects /\ x[2] \in Nat /\ x = <<x[1], x[2]>>
              /\ shown.map[x] = get_attrib(Now(x[1]), x[2])
              /\ shown.stored[x] = get_attrib(disk[x[1]], x[2])
    BY ShownIs
  <1>3. \A o \in Objects : Now(o) \in Arrays /\ disk[o] \in Arrays
    BY NowIs DEF IInv
  <1>4. ASSUME NEW x \in Anames, NEW a, NEW what, NEW told,
               Got(x, a, what, told),
               \A j \in Nat : j # x[2] => get_attrib(a, j) = get_attrib(Now(x[1]), j)
        PROVE  Became(x, a, what, told)
    <2>1. /\ \A o \in Objects :
                Attributes(sys_c', disk', o) = IF o = x[1] THEN a ELSE Now(o)
          /\ \A o \in Objects : disk'[o] = disk[o] \/ disk'[o] = Now(o)
          /\ done' = what /\ answer' = told
      BY <1>4 DEF Got, After, Now
    <2>2. Map!Flushes
      BY <1>1, <2>1, FlushesIf
    <2>3. ASSUME NEW y \in Anames \ {x} PROVE shown'.map[y] = shown.map[y]
      <3>1. CASE y[1] = x[1]
        <4>1. y[2] # x[2]
          BY <1>2, <2>3, <3>1
        <4> QED BY <1>1, <1>2, <1>4, <2>1, <3>1, <4>1 DEF Later
      <3>2. CASE y[1] # x[1]
        BY <1>1, <1>2, <2>1, <3>2 DEF Later
      <3> QED BY <3>1, <3>2
    <2>4. shown'.map[x] = get_attrib(a, x[2])
      BY <1>1, <1>2, <2>1 DEF Later
    <2> QED BY <2>1, <2>2, <2>3, <2>4 DEF Map!Unchanged, Became
  <1>5. ASSUME NEW x \in Anames, Got(x, Now(x[1]), "fetched", Answer(x, Now(x[1])))
        PROVE  Map!Next
    <2>1. /\ Map!Flushes /\ Map!Unchanged(Anames \ {x})
          /\ done' = "fetched" /\ answer' = Answer(x, Now(x[1]))
          /\ shown'.map[x] = get_attrib(Now(x[1]), x[2])
      BY <1>4, <1>5 DEF Became
    <2>2. shown'.map[x] = shown.map[x] /\ answer' = <<x, shown.map[x]>>
      BY <1>2, <2>1 DEF Answer
    <2>3. Map!Unchanged(Anames)
      BY <2>1, <2>2 DEF Map!Unchanged
    <2>4. Map!Fetch
      BY <2>1, <2>2, <2>3 DEF Map!Fetch
    <2> QED BY <2>4 DEF Map!Next
  <1>6. ASSUME NEW x \in Anames, NEW v \in Values,
               Got(x, set_attrib(Now(x[1]), x[2], v), "stored", none)
        PROVE  Map!Next
    <2> DEFINE a == set_attrib(Now(x[1]), x[2], v)
    <2>1. /\ get_attrib(a, x[2]) = v
          /\ \A j \in Nat : j # x[2] => get_attrib(a, j) = get_attrib(Now(x[1]), j)
      BY <1>2, <1>3, ChangeReads
    <2>2. Got(x, a, "stored", none)
      BY <1>6
    <2> HIDE DEF a
    <2>3. Became(x, a, "stored", none)
      BY <1>4, <2>1, <2>2
    <2>4. /\ Map!Flushes /\ Map!Unchanged(Anames \ {x})
          /\ done' = "stored" /\ answer' = none /\ shown'.map[x] = v
      BY <2>1, <2>3 DEF Became
    <2> QED BY <2>4 DEF Map!Next, Map!Store, Map!Change
  <1>7. ASSUME NEW x \in Anames, Got(x, del_attrib(Now(x[1]), x[2]), "deleted", none)
        PROVE  Map!Next
    <2> DEFINE a == del_attrib(Now(x[1]), x[2])
    <2>1. /\ get_attrib(a, x[2]) = none
          /\ \A j \in Nat : j # x[2] => get_attrib(a, j) = get_attrib(Now(x[1]), j)
      BY <1>2, <1>3, ChangeReads
    <2>2. Got(x, a, "deleted", none)
      BY <1>7
    <2> HIDE DEF a
    <2>3. Became(x, a, "deleted", none)
      BY <1>4, <2>1, <2>2
    <2>4. /\ Map!Flushes /\ Map!Unchanged(Anames \ {x})
          /\ done' = "deleted" /\ answer' = none /\ shown'.map[x] = none
      BY <2>1, <2>3 DEF Became
    <2> QED BY <2>4 DEF Map!Next, Map!Delete, Map!Change
  <1>8. ASSUME Lost(sys_c, disk, sys_c', disk'), done' = "refused",
               answer' \in {none} \cup (Anames \X {none})
        PROVE  Map!Next
    <2>1. PICK o \in Objects : \A x \in Objects :
             Attributes(sys_c', disk', x) = IF x = o THEN disk[x] ELSE Now(x)
      BY <1>8 DEF Lost, Now
    <2>2. disk' = disk
      BY <1>8 DEF Lost
    <2>3. \A x \in Map!OfObject(o) : shown'.map[x] = shown.stored[x]
      BY <1>1, <1>2, <2>1 DEF Later, Map!OfObject
    <2>4. Map!Unchanged(Anames \ Map!OfObject(o))
      BY <1>1, <1>2, <2>1 DEF Later, Map!OfObject, Map!Unchanged
    <2>5. shown'.stored = shown.stored
      BY <2>2 DEF IInv, Shown
    <2> QED BY <1>8, <2>3, <2>4, <2>5 DEF Map!Next, Map!Lose
  <1>9. ASSUME sys_c' = sys_c, disk' = disk,
               \/ done' = "none" /\ answer' = none
               \/ done' = "fetched" /\ \E x \in Anames : answer' = Answer(x, Now(x[1]))
        PROVE  Map!Next
    <2>1. Map!Flushes
      BY <1>1, <1>9, FlushesIf
    <2>2. Map!Unchanged(Anames)
      BY <1>1, <1>2, <1>9 DEF Later, Now, Map!Unchanged
    <2>3. CASE done' = "none" /\ answer' = none
      BY <2>1, <2>2, <2>3 DEF Map!Next, Map!Idle
    <2>4. ASSUME done' = "fetched", NEW x \in Anames, answer' = Answer(x, Now(x[1]))
          PROVE  Map!Next
      <3>1. answer' = <<x, shown.map[x]>>
        BY <1>2, <2>4 DEF Answer
      <3>2. Map!Fetch
        BY <2>1, <2>2, <2>4, <3>1 DEF Map!Fetch
      <3> QED BY <3>2 DEF Map!Next
    <2> QED BY <1>9, <2>3, <2>4
  <1>10. ASSUME Kept(sys_c, disk, sys_c', disk'), answer' = none,
                \/ done' = "none"
                \/ done' = "synced" /\ \A o \in Objects : disk'[o] = Now(o)
         PROVE  Map!Next
    <2>1. \A o \in Objects : /\ Attributes(sys_c', disk', o) = Now(o)
                             /\ disk'[o] = disk[o] \/ disk'[o] = Now(o)
      BY <1>10 DEF Kept, Now
    <2>2. Map!Flushes
      BY <1>1, <2>1, FlushesIf
    <2>3. Map!Unchanged(Anames)
      BY <1>1, <1>2, <2>1 DEF Later, Map!Unchanged
    <2>4. ASSUME done' = "none" PROVE Map!Next
      BY <2>2, <2>3, <1>10, <2>4 DEF Map!Next, Map!Idle
    <2>5. ASSUME done' = "synced", \A o \in Objects : disk'[o] = Now(o) PROVE Map!Next
      <3>1. \A x \in Anames : shown'.stored[x] = shown.map[x]
        BY <1>1, <1>2, <2>5 DEF Later
      <3> QED BY <1>10, <2>3, <2>5, <3>1 DEF Map!Next, Map!Sync
    <2> QED BY <1>10, <2>4, <2>5
  <1>11. ASSUME \A o \in Objects : /\ Attributes(sys_c', disk', o) = disk'[o]
                                   /\ disk'[o] = disk[o] \/ disk'[o] = Now(o),
                done' = "none", answer' = none
         PROVE  Map!Next
    <2>1. Map!Flushes
      BY <1>1, <1>11, FlushesIf
    <2>2. shown'.map = shown'.stored
      BY <1>2, <1>11 DEF Shown, FETCH
    <2> QED BY <1>11, <2>1, <2>2 DEF Map!Next, Map!Crash
  <1> QED BY <1>5, <1>6, <1>7, <1>8, <1>9, <1>10, <1>11 DEF Outcome

(* FETCH, STORE, DELETE, SYNC and the crashes between them, as they work   *)
(* on links, chains and arrays, are what AttrMap promises db.c: FETCH      *)
(* answers with what STORE or DELETE did last, or with nothing if gdbm     *)
(* refuses the write that makes room; the disk lags behind object by       *)
(* object; and after a SYNC that returns 0 it lacks nothing                *)
(* (udb_ocache.c:383-937).                                                 *)
THEOREM MapImplemented == Spec => ImplementsMap
PROOF
  <1>1. Init => Map!Init
    <2>1. ASSUME Init PROVE Map!Init
      <3>1. shown = Shown(cache_init, disk) /\ done = "none" /\ answer = none
        BY <2>1 DEF Init
      <3>2. disk \in Disks
        <4>1. <<>> \in Arrays
          BY DEF Arrays
        <4> QED BY <2>1, <4>1 DEF Init, Disks
      <3>3. \A x \in Anames : Attributes(cache_init, disk, x[1]) = disk[x[1]]
        BY <3>2, InitSound, NamesAssumption
      <3>4. shown.map = shown.stored
        BY <3>1, <3>3 DEF Shown, FETCH
      <3> QED BY <3>1, <3>4 DEF Map!Init
    <2> QED BY <2>1
  <1>2. IInv /\ [Next]_vars => [Map!Next]_(<<shown.map, shown.stored, done, answer>>)
    <2>1. ASSUME IInv, Next PROVE Map!Next
      <3>1. Outcome /\ shown' = Shown(sys_c', disk')
        BY <2>1, StepOutcome DEF IInv, Next
      <3> QED BY <2>1, <3>1, MapSteps
    <2>2. ASSUME UNCHANGED vars PROVE UNCHANGED <<shown.map, shown.stored, done, answer>>
      BY <2>2 DEF vars
    <2> QED BY <2>1, <2>2
  <1> QED BY <1>1, <1>2, Inductive, PTL DEF Spec, ImplementsMap, Map!Spec
=============================================================================
