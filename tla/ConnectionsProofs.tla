-------------------------- MODULE ConnectionsProofs --------------------------
(***************************************************************************)
(* Proofs about Connections, for any number of descriptors and players.    *)
(***************************************************************************)
EXTENDS Connections, ListSelectionProofs

Persons == Players \cup {NOBODY}

(* The fields of net. *)
Nets ==
    [head : Ptr, next : [Descs -> Ptr], prev : [Descs -> Ptr],
     live : SUBSET Descs, hash : [Persons -> Ptr], hashnext : [Descs -> Ptr],
     player : [Descs -> Persons], conn : SUBSET Descs,
     online : SUBSET Players, made : SUBSET Players,
     prog : [Descs -> Programs \cup {NULL}], heap : SUBSET Programs,
     input : [Descs -> 0..MaxInput], quota : [Descs -> 0..cmd_quota_max],
     recent : SUBSET Descs, untold : BOOLEAN, fault : BOOLEAN]

(* The list of descriptors is a list both ways and has the open ones. *)
ListOK(n) ==
    /\ IsPath(n.next, n.head, List(n))
    /\ IsBack(n.prev, HEAD, List(n))
    /\ Set(List(n)) = n.live

Mine(n, p) == {d \in n.conn : n.player[d] = p}

(* The chain of every player is a list and has the player's descriptors. *)
ChainsOK(n) ==
    \A p \in Players : /\ IsPath(n.hashnext, n.hash[p], Chain(n, p))
                       /\ Set(Chain(n, p)) = Mine(n, p)

(* Who is logged in is open and somebody; no lines wait on what is freed. *)
LoginsOK(n) ==
    /\ n.conn \subseteq n.live
    /\ \A d \in Descs : d \in n.conn <=> n.player[d] \in Players
    /\ \A d \in Descs \ n.live : n.input[d] = 0

OnlineOK(n) ==
    /\ \A p \in Players : p \in n.online <=> \E d \in n.conn : n.player[d] = p
    /\ ~n.untold

ProgramsOK(n) ==
    ~PipedLogout =>
       /\ \A d \in Descs \ n.conn : n.prog[d] = NULL
       /\ \A d, e \in n.conn :
             /\ n.player[d] = n.player[e] => n.prog[d] = n.prog[e]
             /\ n.prog[d] = n.prog[e] => n.prog[d] = NULL \/ n.player[d] = n.player[e]
       /\ \A g \in Programs : g \in n.heap <=> \E d \in n.conn : n.prog[d] = g
       /\ ~n.fault

Sound(n) ==
    /\ n \in Nets
    /\ ListOK(n) /\ ChainsOK(n) /\ LoginsOK(n) /\ OnlineOK(n) /\ ProgramsOK(n)

(* Following links meets after the step from n to m what it met before, but *)
(* for descriptors that were closed. *)
Keeps(n, m) ==
    /\ m.live \subseteq n.live
    /\ \A f \in Ptr : \A s \in Seq(Descs) : IsPath(n.next, f, s) =>
          \E t \in Seq(Descs) :
             IsPath(m.next, f, t) /\ Set(t) \subseteq Set(s) /\ Set(s) \cap m.live \subseteq Set(t)
-----------------------------------------------------------------------------
LEMMA Constants ==
    /\ NULL \notin Descs /\ NULL \notin Programs /\ HEAD = NULL
    /\ NOBODY \notin Players /\ Wizards \subseteq Players
    /\ IsFiniteSet(Descs) /\ Ptr = Descs \cup {NULL}
PROOF
  BY NamesAssumption, BoundsAssumption DEF HEAD, Ptr

(* Paths in a net are what the operators return. *)
LEMMA ListIs ==
    ASSUME NEW n \in Nets, NEW s, IsPath(n.next, n.head, s)
    PROVE  List(n) = s
PROOF
  <1>1. DOMAIN n.next = Descs
    BY DEF Nets
  <1> QED BY <1>1, Constants, PathIs DEF List

LEMMA ChainIs ==
    ASSUME NEW n \in Nets, NEW p \in Persons, NEW s, IsPath(n.hashnext, n.hash[p], s)
    PROVE  Chain(n, p) = s
PROOF
  <1>1. DOMAIN n.hashnext = Descs
    BY DEF Nets
  <1> QED BY <1>1, Constants, PathIs DEF Chain

LEMMA KeepsSame ==
    ASSUME NEW n, NEW m, m.next = n.next, m.live \subseteq n.live
    PROVE  Keeps(n, m)
PROOF
  BY DEF Keeps

LEMMA KeepsTwice ==
    ASSUME NEW n, NEW m, NEW k, Keeps(n, m), Keeps(m, k)
    PROVE  Keeps(n, k)
PROOF
  <1>1. k.live \subseteq n.live
    BY DEF Keeps
  <1>2. ASSUME NEW f \in Ptr, NEW s \in Seq(Descs), IsPath(n.next, f, s)
        PROVE  \E t \in Seq(Descs) :
             IsPath(k.next, f, t) /\ Set(t) \subseteq Set(s) /\ Set(s) \cap k.live \subseteq Set(t)
    <2>1. PICK t \in Seq(Descs) : /\ IsPath(m.next, f, t) /\ Set(t) \subseteq Set(s)
                                  /\ Set(s) \cap m.live \subseteq Set(t)
      BY <1>2 DEF Keeps
    <2>2. PICK u \in Seq(Descs) : /\ IsPath(k.next, f, u) /\ Set(u) \subseteq Set(t)
                                  /\ Set(t) \cap k.live \subseteq Set(u)
      BY <2>1 DEF Keeps
    <2>3. k.live \subseteq m.live
      BY DEF Keeps
    <2> QED BY <2>1, <2>2, <2>3
  <1> QED BY <1>1, <1>2 DEF Keeps
-----------------------------------------------------------------------------
(* Taking a descriptor off the list. *)

SameUsers(n, m) ==
    /\ m.hash = n.hash /\ m.hashnext = n.hashnext /\ m.player = n.player
    /\ m.conn = n.conn /\ m.online = n.online /\ m.made = n.made
    /\ m.prog = n.prog /\ m.heap = n.heap /\ m.quota = n.quota
    /\ m.recent = n.recent /\ m.untold = n.untold /\ m.fault = n.fault

LEMMA UnlinkFields ==
    ASSUME NEW n \in Nets, NEW d \in Descs
    PROVE  LET m == Unlink(n, d)
           IN /\ m \in Nets /\ SameUsers(n, m) /\ m.live = n.live /\ m.input = n.input
              /\ m.head = IF n.prev[d] = HEAD THEN n.next[d] ELSE n.head
              /\ m.next = IF n.prev[d] = HEAD THEN n.next
                          ELSE [n.next EXCEPT ![n.prev[d]] = n.next[d]]
              /\ m.prev = IF n.next[d] = NULL THEN n.prev
                          ELSE [n.prev EXCEPT ![n.next[d]] = n.prev[d]]
PROOF
  <1> DEFINE k == IF n.prev[d] = HEAD
                  THEN [n EXCEPT !.head = n.next[d]]
                  ELSE [n EXCEPT !.next[n.prev[d]] = n.next[d]]
             m == Unlink(n, d)
  <1>1. n.prev[d] \in Ptr /\ n.next[d] \in Ptr
    BY DEF Nets
  <1>2. /\ k \in Nets /\ SameUsers(n, k) /\ k.live = n.live /\ k.input = n.input
        /\ k.prev = n.prev
        /\ k.head = IF n.prev[d] = HEAD THEN n.next[d] ELSE n.head
        /\ k.next = IF n.prev[d] = HEAD THEN n.next
                    ELSE [n.next EXCEPT ![n.prev[d]] = n.next[d]]
    <2>1. CASE n.prev[d] = HEAD
      BY <1>1, <2>1 DEF Nets, SameUsers
    <2>2. CASE n.prev[d] # HEAD
      <3>1. n.prev[d] \in Descs
        BY <1>1, <2>2, Constants
      <3> QED BY <1>1, <2>2, <3>1 DEF Nets, SameUsers
    <2> QED BY <2>1, <2>2
  <1>3. m = IF n.next[d] = NULL THEN k ELSE [k EXCEPT !.prev[n.next[d]] = n.prev[d]]
    BY DEF Unlink
  <1> HIDE DEF k, m
  <1>4. CASE n.next[d] = NULL
    BY <1>2, <1>3, <1>4 DEF m
  <1>5. CASE n.next[d] # NULL
    <2>1. n.next[d] \in Descs
      BY <1>1, <1>5, Constants
    <2> DEFINE j == [k EXCEPT !.prev[n.next[d]] = n.prev[d]]
    <2>2. k \in Nets
      BY <1>2
    <2>3. /\ j \in Nets /\ SameUsers(k, j) /\ j.live = k.live /\ j.input = k.input
          /\ j.head = k.head /\ j.next = k.next
          /\ j.prev = [k.prev EXCEPT ![n.next[d]] = n.prev[d]]
      BY <2>1, <2>2, <1>1 DEF Nets, SameUsers
    <2>4. m = j
      BY <1>3, <1>5
    <2> HIDE DEF j
    <2>5. SameUsers(n, m)
      BY <1>2, <2>3, <2>4 DEF SameUsers
    <2> QED BY <1>2, <2>3, <2>4, <2>5, <1>5 DEF m
  <1> QED BY <1>4, <1>5

(* What Unlink does to the list, and to any other list on the same links. *)
LEMMA UnlinkList ==
    ASSUME NEW n \in Nets, ListOK(n), NEW d \in n.live
    PROVE  LET m == Unlink(n, d)
           IN \E t \in Seq(Descs) :
                /\ IsPath(m.next, m.head, t) /\ IsBack(m.prev, HEAD, t)
                /\ Set(t) = n.live \ {d}
PROOF
  <1> DEFINE m == Unlink(n, d)
             s == List(n)
  <1>1. d \in Descs /\ DOMAIN n.next = Descs /\ DOMAIN n.prev = Descs
    BY DEF Nets
  <1>2. /\ m.head = IF n.prev[d] = HEAD THEN n.next[d] ELSE n.head
        /\ m.next = IF n.prev[d] = HEAD THEN n.next
                    ELSE [n.next EXCEPT ![n.prev[d]] = n.next[d]]
        /\ m.prev = IF n.next[d] = NULL THEN n.prev
                    ELSE [n.prev EXCEPT ![n.next[d]] = n.prev[d]]
    BY <1>1, UnlinkFields
  <1> HIDE DEF m, s
  <1>3. IsPath(n.next, n.head, s) /\ IsBack(n.prev, HEAD, s) /\ Set(s) = n.live
    BY DEF ListOK, s
  <1>4. /\ s \in Seq(Descs) /\ Len(s) \in Nat /\ DOMAIN s = 1..Len(s)
        /\ \A i, j \in DOMAIN s : s[i] = s[j] => i = j
    BY <1>1, <1>3 DEF IsPath
  <1>5. PICK i \in DOMAIN s : s[i] = d
    BY <1>3 DEF Set
  <1>6. n.prev[d] = IF i = 1 THEN HEAD ELSE s[i - 1]
    BY <1>3, <1>5 DEF IsBack
  <1>7. i # 1 => i > 1 /\ i - 1 \in DOMAIN s /\ s[i - 1] \in Descs /\ s[i - 1] # HEAD
    BY <1>4, Constants
  <1>8. IsPath(m.next, m.head, Without(s, i))
    <2>1. CASE i = 1
      <3>1. m.next = n.next /\ m.head = n.next[d]
        BY <2>1, <1>2, <1>6
      <3>2. s # <<>> /\ n.head = d
        BY <2>1, <1>3, <1>4, <1>5 DEF IsPath
      <3> QED BY <3>1, <3>2, <1>3, <2>1, PathCutFirst
    <2>2. CASE i # 1
      <3>1. m.next = [n.next EXCEPT ![s[i - 1]] = n.next[d]] /\ m.head = n.head
        BY <2>2, <1>2, <1>6, <1>7
      <3>2. DOMAIN m.next = Descs /\ m.next[s[i - 1]] = n.next[s[i]]
        BY <3>1, <1>1, <1>5, <1>7, <2>2
      <3>3. \A x \in Set(s) : x # s[i - 1] /\ x # s[i] => m.next[x] = n.next[x]
        <4>1. Set(s) \subseteq Descs
          BY <1>4 DEF Set
        <4> QED BY <4>1, <3>1, <1>1
      <3>4. IsPath(n.next, m.head, s) /\ i > 1 /\ DOMAIN n.next = Descs /\ DOMAIN m.next = Descs
        BY <3>1, <3>2, <1>1, <1>3, <1>7, <2>2
      <3> QED BY ONLY <3>2, <3>3, <3>4, i \in DOMAIN s, PathCut
    <2> QED BY <2>1, <2>2
  <1>9. IsBack(m.prev, HEAD, Without(s, i))
    <2>1. i < Len(s) => /\ n.next[d] = s[i + 1] /\ i + 1 \in DOMAIN s
                        /\ s[i + 1] \in Descs /\ s[i + 1] # NULL
      BY <1>3, <1>4, <1>5, Constants DEF IsPath
    <2>2. ~(i < Len(s)) => n.next[d] \notin Descs
      <3>1. ~(i < Len(s)) => i = Len(s) /\ s # <<>>
        BY <1>4
      <3> QED BY <3>1, <1>1, <1>3, <1>5 DEF IsPath
    <2>3. n.next[d] \in Ptr
      BY <1>1 DEF Nets
    <2>4. i < Len(s) => m.prev[s[i + 1]] = n.prev[s[i]]
      BY <2>1, <1>2, <1>1, <1>5
    <2>5. ASSUME NEW j \in DOMAIN s, j # i, j # i + 1 PROVE m.prev[s[j]] = n.prev[s[j]]
      <3>1. CASE i < Len(s)
        <4>1. s[j] # s[i + 1] /\ s[j] \in Descs
          BY <2>1, <3>1, <2>5, <1>4
        <4> QED BY <4>1, <2>1, <3>1, <1>1, <1>2
      <3>2. CASE ~(i < Len(s))
        <4>1. n.next[d] = NULL
          BY <3>2, <2>2, <2>3, Constants
        <4> QED BY <4>1, <1>2
      <3> QED BY <3>1, <3>2
    <2>6. IsBack(n.prev, HEAD, s)
      BY <1>3
    <2>7. s \in Seq(Descs) /\ \A a, b \in DOMAIN s : s[a] = s[b] => a = b
      BY <1>4
    <2> QED BY ONLY <2>4, <2>5, <2>6, <2>7, i \in DOMAIN s, BackCut
  <1>10. Without(s, i) \in Seq(Descs) /\ Set(Without(s, i)) = n.live \ {d}
    <2>1. s \in Seq(Descs) /\ \A a, b \in DOMAIN s : s[a] = s[b] => a = b
      BY <1>4
    <2>2. Without(s, i) \in Seq(Descs) /\ Set(Without(s, i)) = Set(s) \ {s[i]}
      BY ONLY <2>1, i \in DOMAIN s, WithoutFacts
    <2> QED BY <2>2, <1>3, <1>5
  <1> QED BY <1>8, <1>9, <1>10 DEF m

LEMMA UnlinkOther ==
    ASSUME NEW n \in Nets, ListOK(n), NEW d \in n.live,
           NEW f \in Ptr, NEW s \in Seq(Descs), IsPath(n.next, f, s)
    PROVE  \E t \in Seq(Descs) :
              /\ IsPath(Unlink(n, d).next, f, t) /\ Set(t) \subseteq Set(s)
              /\ Set(s) \ {d} \subseteq Set(t)
PROOF
  <1> DEFINE m == Unlink(n, d)
             x == n.prev[d]
  <1>1. d \in Descs /\ DOMAIN n.next = Descs
    BY DEF Nets
  <1>2. m.next = IF x = HEAD THEN n.next ELSE [n.next EXCEPT ![x] = n.next[d]]
    BY <1>1, UnlinkFields
  <1>3. DOMAIN m.next = Descs
    BY <1>1, <1>2
  <1> HIDE DEF m
  <1>4. x # HEAD => x \in Descs /\ n.next[x] = d
    <2> DEFINE l == List(n)
    <2>1. IsPath(n.next, n.head, l) /\ IsBack(n.prev, HEAD, l) /\ Set(l) = n.live
      BY DEF ListOK
    <2>2. PICK i \in DOMAIN l : l[i] = d
      BY <2>1 DEF Set
    <2> HIDE DEF l
    <2>3. l \in Seq(Descs) /\ DOMAIN l = 1..Len(l) /\ Len(l) \in Nat
      BY <2>1, <1>1 DEF IsPath
    <2>4. x = IF i = 1 THEN HEAD ELSE l[i - 1]
      BY <2>1, <2>2 DEF IsBack
    <2>5. i # 1 => i - 1 \in DOMAIN l /\ i - 1 < Len(l) /\ (i - 1) + 1 = i
      BY <2>3
    <2>6. i # 1 => n.next[l[i - 1]] = l[i]
      BY <2>1, <2>5 DEF IsPath
    <2> QED BY <2>2, <2>3, <2>4, <2>5, <2>6
  <1>5. CASE x = HEAD \/ x \notin Set(s)
    <2>1. \A y \in Set(s) : m.next[y] = n.next[y]
      <3>1. Set(s) \subseteq Descs
        BY DEF Set
      <3> QED BY <3>1, <1>1, <1>2, <1>5
    <2>2. IsPath(m.next, f, s)
      BY <2>1, <1>1, <1>3, PathFrame
    <2> QED BY <2>2 DEF m
  <1>6. CASE x # HEAD /\ x \in Set(s)
    <2>1. x \in Descs /\ n.next[x] = d
      BY <1>4, <1>6
    <2>2. d \in Set(s) /\ \A i \in DOMAIN s : s[i] = d => i > 1 /\ s[i - 1] = x
      <3>1. n.next[x] \in DOMAIN n.next
        BY <2>1, <1>1
      <3>2. x \in Set(s)
        BY <1>6
      <3> QED BY <3>1, <3>2, <2>1, PathBefore
    <2>3. PICK i \in DOMAIN s : s[i] = d
      BY <2>2 DEF Set
    <2>4. i > 1 /\ s[i - 1] = x
      BY <2>2, <2>3
    <2>5. m.next[s[i - 1]] = n.next[s[i]]
      BY <2>1, <2>3, <2>4, <1>1, <1>2, <1>6
    <2>6. \A y \in Set(s) : y # s[i - 1] /\ y # s[i] => m.next[y] = n.next[y]
      <3>1. Set(s) \subseteq Descs
        BY DEF Set
      <3> QED BY <3>1, <2>4, <1>1, <1>2, <1>6
    <2>7. IsPath(m.next, f, Without(s, i))
      BY <2>4, <2>5, <2>6, <1>1, <1>3, PathCut
    <2>8. \A a, b \in DOMAIN s : s[a] = s[b] => a = b
      BY DEF IsPath
    <2>9. Without(s, i) \in Seq(Descs) /\ Set(Without(s, i)) = Set(s) \ {s[i]}
      BY ONLY <2>8, s \in Seq(Descs), i \in DOMAIN s, WithoutFacts
    <2> QED BY <2>3, <2>7, <2>9 DEF m
  <1> QED BY <1>5, <1>6
-----------------------------------------------------------------------------
(* The chains of a player's descriptors. *)

SameButChains(n, m) ==
    /\ m.head = n.head /\ m.next = n.next /\ m.prev = n.prev /\ m.live = n.live
    /\ m.player = n.player /\ m.conn = n.conn /\ m.online = n.online
    /\ m.made = n.made /\ m.prog = n.prog /\ m.heap = n.heap
    /\ m.input = n.input /\ m.quota = n.quota /\ m.recent = n.recent
    /\ m.untold = n.untold /\ m.fault = n.fault

LEMMA ChainFacts ==
    ASSUME NEW n \in Nets, ChainsOK(n), NEW p \in Players
    PROVE  /\ Chain(n, p) \in Seq(Descs) /\ Len(Chain(n, p)) \in Nat
           /\ DOMAIN Chain(n, p) = 1..Len(Chain(n, p))
           /\ \A i, j \in DOMAIN Chain(n, p) : Chain(n, p)[i] = Chain(n, p)[j] => i = j
           /\ Set(Chain(n, p)) = Mine(n, p)
           /\ Chain(n, p) = <<>> <=> n.hash[p] = NULL
           /\ Chain(n, p) = <<>> <=> Mine(n, p) = {}
           /\ Chain(n, p) # <<>> => n.hash[p] = Chain(n, p)[1] /\ n.hash[p] \in Mine(n, p)
PROOF
  <1> DEFINE c == Chain(n, p)
  <1>1. DOMAIN n.hashnext = Descs /\ n.hash[p] \in Ptr
    BY DEF Nets, Persons
  <1>2. IsPath(n.hashnext, n.hash[p], c) /\ Set(c) = Mine(n, p)
    BY DEF ChainsOK
  <1> HIDE DEF c
  <1>3. /\ c \in Seq(Descs) /\ Len(c) \in Nat /\ DOMAIN c = 1..Len(c)
        /\ \A i, j \in DOMAIN c : c[i] = c[j] => i = j
    BY <1>1, <1>2 DEF IsPath
  <1>4. c = <<>> => n.hash[p] = NULL
    BY <1>1, <1>2, Constants DEF IsPath
  <1>5. c # <<>> => 1 \in DOMAIN c /\ n.hash[p] = c[1] /\ c[1] \in Descs
    BY <1>2, <1>3 DEF IsPath
  <1>6. c # <<>> => n.hash[p] \in Set(c) /\ n.hash[p] # NULL
    BY <1>5, Constants DEF Set
  <1>7. c = <<>> => Set(c) = {}
    BY <1>3 DEF Set
  <1> QED BY <1>2, <1>3, <1>4, <1>5, <1>6, <1>7 DEF c

LEMMA DelhashFields ==
    ASSUME NEW n \in Nets, ChainsOK(n), LoginsOK(n), NEW d \in n.conn,
           NEW i \in DOMAIN Chain(n, n.player[d]), Chain(n, n.player[d])[i] = d
    PROVE  LET m == desc_delhash(n, d)
               p == n.player[d]
               c == Chain(n, p)
           IN /\ m \in Nets /\ SameButChains(n, m) /\ p \in Players
              /\ m.hash = IF i = 1 THEN [n.hash EXCEPT ![p] = n.hashnext[d]] ELSE n.hash
              /\ m.hashnext = IF i = 1 THEN [n.hashnext EXCEPT ![d] = NULL]
                              ELSE [[n.hashnext EXCEPT ![c[i - 1]] = n.hashnext[d]]
                                      EXCEPT ![d] = NULL]
PROOF
  <1> DEFINE p == n.player[d]
             c == Chain(n, p)
             at == {j \in DOMAIN c : c[j] = d}
             k == IF i = 1 THEN [n EXCEPT !.hash[p] = n.hashnext[d]]
                  ELSE [n EXCEPT !.hashnext[c[i - 1]] = n.hashnext[d]]
             m == [k EXCEPT !.hashnext[d] = NULL]
  <1>1. d \in Descs /\ p \in Players /\ p \in Persons /\ n.hashnext[d] \in Ptr /\ NULL \in Ptr
    BY Constants DEF Nets, LoginsOK, Persons
  <1>2. /\ c \in Seq(Descs) /\ Len(c) \in Nat /\ DOMAIN c = 1..Len(c)
        /\ \A a, b \in DOMAIN c : c[a] = c[b] => a = b
    BY <1>1, ChainFacts
  <1>3. i \in DOMAIN c /\ c[i] = d /\ i \in Nat
    BY <1>2
  <1> HIDE DEF c
  <1>4. at = {i}
    BY <1>2, <1>3
  <1>5. (CHOOSE x \in at : \A y \in at : x <= y) = i
    BY <1>3, <1>4
  <1>6. desc_delhash(n, d) = m
    <2>1. desc_delhash(n, d) =
            LET j == CHOOSE x \in at : \A y \in at : x <= y
                q == IF at = {} THEN n
                     ELSE IF j = 1 THEN [n EXCEPT !.hash[p] = n.hashnext[d]]
                     ELSE [n EXCEPT !.hashnext[c[j - 1]] = n.hashnext[d]]
            IN [q EXCEPT !.hashnext[d] = NULL]
      BY DEF desc_delhash, c
    <2> HIDE DEF at, p
    <2> QED BY <2>1, <1>4, <1>5
  <1>7. i # 1 => c[i - 1] \in Descs
    BY <1>2, <1>3
  <1> HIDE DEF p, at
  <1>8. /\ k \in Nets /\ SameButChains(n, k)
        /\ k.hash = IF i = 1 THEN [n.hash EXCEPT ![p] = n.hashnext[d]] ELSE n.hash
        /\ k.hashnext = IF i = 1 THEN n.hashnext
                        ELSE [n.hashnext EXCEPT ![c[i - 1]] = n.hashnext[d]]
    <2>1. CASE i = 1
      BY <2>1, <1>1 DEF Nets, SameButChains
    <2>2. CASE i # 1
      BY <2>2, <1>1, <1>7 DEF Nets, SameButChains
    <2> QED BY <2>1, <2>2
  <1> HIDE DEF k
  <1>9. /\ m \in Nets /\ SameButChains(k, m) /\ m.hash = k.hash
        /\ m.hashnext = [k.hashnext EXCEPT ![d] = NULL]
    BY <1>1, <1>8 DEF Nets, SameButChains
  <1> HIDE DEF m
  <1>10. SameButChains(n, m)
    BY <1>8, <1>9 DEF SameButChains
  <1>11. m.hashnext = IF i = 1 THEN [n.hashnext EXCEPT ![d] = NULL]
                      ELSE [[n.hashnext EXCEPT ![c[i - 1]] = n.hashnext[d]]
                              EXCEPT ![d] = NULL]
    BY <1>8, <1>9
  <1> QED BY <1>1, <1>6, <1>8, <1>9, <1>10, <1>11 DEF p, c

(* desc_delhash takes d out of its chain and leaves the others alone. *)
LEMMA DelhashChains ==
    ASSUME NEW n \in Nets, ChainsOK(n), LoginsOK(n), NEW d \in n.conn
    PROVE  LET m == desc_delhash(n, d)
           IN /\ m \in Nets /\ SameButChains(n, m)
              /\ \A q \in Players : \E t \in Seq(Descs) :
                    IsPath(m.hashnext, m.hash[q], t) /\ Set(t) = Mine(n, q) \ {d}
PROOF
  <1> DEFINE p == n.player[d]
             c == Chain(n, p)
             m == desc_delhash(n, d)
  <1>1. /\ d \in Descs /\ p \in Players /\ DOMAIN n.hashnext = Descs
        /\ DOMAIN n.hash = Persons /\ p \in Persons
    BY DEF Nets, LoginsOK, Persons
  <1>2. /\ c \in Seq(Descs) /\ Len(c) \in Nat /\ DOMAIN c = 1..Len(c)
        /\ \A a, b \in DOMAIN c : c[a] = c[b] => a = b
        /\ Set(c) = Mine(n, p)
    BY <1>1, ChainFacts
  <1>3. IsPath(n.hashnext, n.hash[p], c)
    BY <1>1 DEF ChainsOK
  <1>4. PICK i \in DOMAIN c : c[i] = d
    <2>1. d \in Mine(n, p)
      BY DEF Mine
    <2> HIDE DEF c, p
    <2> QED BY <2>1, <1>2 DEF Set
  <1>5. /\ m \in Nets /\ SameButChains(n, m)
        /\ m.hash = IF i = 1 THEN [n.hash EXCEPT ![p] = n.hashnext[d]] ELSE n.hash
        /\ m.hashnext = IF i = 1 THEN [n.hashnext EXCEPT ![d] = NULL]
                        ELSE [[n.hashnext EXCEPT ![c[i - 1]] = n.hashnext[d]]
                                EXCEPT ![d] = NULL]
    BY <1>4, DelhashFields
  <1> HIDE DEF m, c, p
  <1>6. i # 1 => c[i - 1] \in Descs /\ i - 1 \in DOMAIN c /\ c[i - 1] # d /\ i > 1
    BY <1>2, <1>4
  <1>7. i # 1 => c[i - 1] \in Mine(n, p)
    BY <1>2, <1>6 DEF Set
  <1>8. /\ DOMAIN m.hashnext = Descs
        /\ \A x \in Descs \ Mine(n, p) : m.hashnext[x] = n.hashnext[x]
        /\ \A x \in Descs : x # d /\ (i # 1 => x # c[i - 1]) => m.hashnext[x] = n.hashnext[x]
        /\ i # 1 => m.hashnext[c[i - 1]] = n.hashnext[d]
    <2>1. d \in Mine(n, p)
      BY DEF Mine, p
    <2>2. CASE i = 1
      BY <2>1, <2>2, <1>1, <1>5
    <2>3. CASE i # 1
      BY <2>1, <2>3, <1>1, <1>5, <1>6, <1>7
    <2> QED BY <2>2, <2>3
  <1>9. ASSUME NEW q \in Players, q # p
        PROVE  \E t \in Seq(Descs) :
                  IsPath(m.hashnext, m.hash[q], t) /\ Set(t) = Mine(n, q) \ {d}
    <2> DEFINE s == Chain(n, q)
    <2>1. IsPath(n.hashnext, n.hash[q], s) /\ Set(s) = Mine(n, q) /\ s \in Seq(Descs)
      BY ChainFacts DEF ChainsOK
    <2> HIDE DEF s
    <2>2. m.hash[q] = n.hash[q]
      BY <1>1, <1>5, <1>9 DEF Persons
    <2>3. Mine(n, q) \cap Mine(n, p) = {} /\ d \notin Mine(n, q) /\ Mine(n, q) \subseteq Descs
      BY <1>9 DEF Mine, p, Nets
    <2>4. \A x \in Set(s) : m.hashnext[x] = n.hashnext[x]
      BY <2>1, <2>3, <1>8
    <2>5. IsPath(m.hashnext, n.hash[q], s)
      BY <2>1, <2>4, <1>1, <1>8, PathFrame
    <2> QED BY <2>1, <2>2, <2>3, <2>5
  <1>10. \E t \in Seq(Descs) :
            IsPath(m.hashnext, m.hash[p], t) /\ Set(t) = Mine(n, p) \ {d}
    <2>1. c \in Seq(Descs) /\ \A a, b \in DOMAIN c : c[a] = c[b] => a = b
      BY <1>2
    <2>2. Without(c, i) \in Seq(Descs) /\ Set(Without(c, i)) = Set(c) \ {c[i]}
      BY ONLY <2>1, i \in DOMAIN c, WithoutFacts
    <2>3. Set(Without(c, i)) = Mine(n, p) \ {d}
      BY <2>2, <1>2, <1>4
    <2>4. Set(c) \subseteq Descs
      BY <2>1 DEF Set
    <2>5. CASE i = 1
      <3>1. c # <<>> /\ n.hash[p] = d
        BY <2>5, <1>2, <1>3, <1>4 DEF IsPath
      <3>2. m.hash[p] = n.hashnext[d]
        BY <2>5, <1>1, <1>5
      <3>3. \A x \in Set(c) : x # d => m.hashnext[x] = n.hashnext[x]
        BY <2>4, <2>5, <1>8
      <3>4. IsPath(m.hashnext, n.hashnext[n.hash[p]], Without(c, 1))
        BY <3>1, <3>3, <1>1, <1>3, <1>8, PathCutFirst
      <3> QED BY <3>1, <3>2, <3>4, <2>2, <2>3, <2>5
    <2>6. CASE i # 1
      <3>1. m.hash[p] = n.hash[p]
        BY <2>6, <1>5
      <3>2. \A x \in Set(c) : x # c[i - 1] /\ x # c[i] => m.hashnext[x] = n.hashnext[x]
        BY <2>4, <2>6, <1>4, <1>8
      <3>3. m.hashnext[c[i - 1]] = n.hashnext[c[i]] /\ i > 1
        BY <2>6, <1>4, <1>6, <1>8
      <3>4. DOMAIN m.hashnext = DOMAIN n.hashnext
        BY <1>1, <1>8
      <3>5. IsPath(m.hashnext, n.hash[p], Without(c, i))
        BY ONLY <3>2, <3>3, <3>4, <1>3, i \in DOMAIN c, PathCut
      <3> QED BY <3>1, <3>5, <2>2, <2>3
    <2> QED BY <2>5, <2>6
  <1> QED BY <1>5, <1>9, <1>10 DEF m
-----------------------------------------------------------------------------
(* The end of a connection.  Told says what announce_disconnect has done    *)
(* with d, and of a descriptor that is not logged in there is nothing to do. *)
Told(n, k, d) ==
    /\ k \in Nets
    /\ k.head = n.head /\ k.next = n.next /\ k.prev = n.prev /\ k.live = n.live
    /\ k.player = n.player /\ k.conn = n.conn /\ k.made = n.made /\ k.prog = n.prog
    /\ k.heap = n.heap /\ k.input = n.input /\ k.quota = n.quota
    /\ k.recent = n.recent /\ k.fault = n.fault /\ ~k.untold
    /\ \A q \in Players : \E t \in Seq(Descs) :
          IsPath(k.hashnext, k.hash[q], t) /\ Set(t) = Mine(n, q) \ {d}
    /\ \A q \in Players : q \in k.online <=> \E e \in n.conn \ {d} : n.player[e] = q

LEMMA ToldNothing ==
    ASSUME NEW n, Sound(n), NEW d \in Descs \ n.conn
    PROVE  Told(n, n, d)
PROOF
  <1>1. ASSUME NEW q \in Players
        PROVE  \E t \in Seq(Descs) :
                  IsPath(n.hashnext, n.hash[q], t) /\ Set(t) = Mine(n, q) \ {d}
    <2>1. n \in Nets /\ ChainsOK(n)
      BY DEF Sound
    <2>2. Chain(n, q) \in Seq(Descs) /\ Set(Chain(n, q)) = Mine(n, q)
      BY <2>1, ChainFacts
    <2>3. IsPath(n.hashnext, n.hash[q], Chain(n, q))
      BY <2>1 DEF ChainsOK
    <2>4. d \notin Mine(n, q)
      BY DEF Mine
    <2> QED BY <2>2, <2>3, <2>4
  <1>2. n.conn \ {d} = n.conn
    OBVIOUS
  <1>3. n \in Nets /\ ~n.untold
    BY DEF Sound, OnlineOK
  <1>4. \A q \in Players : q \in n.online <=> \E e \in n.conn \ {d} : n.player[e] = q
    BY <1>2 DEF Sound, OnlineOK
  <1> QED BY <1>1, <1>3, <1>4 DEF Told

(* The flag goes with the last descriptor of the player. *)
LEMMA LastOne ==
    ASSUME NEW n \in Nets, ChainsOK(n), LoginsOK(n), NEW d \in n.conn
    PROVE  Len(Chain(n, n.player[d])) < 2 <=> Mine(n, n.player[d]) = {d}
PROOF
  <1> DEFINE p == n.player[d]
             c == Chain(n, p)
  <1>1. p \in Players
    BY DEF Nets, LoginsOK
  <1>2. /\ c \in Seq(Descs) /\ Len(c) \in Nat /\ DOMAIN c = 1..Len(c)
        /\ \A a, b \in DOMAIN c : c[a] = c[b] => a = b
        /\ Set(c) = Mine(n, p)
    BY <1>1, ChainFacts
  <1>3. d \in Mine(n, p)
    BY DEF Mine
  <1> HIDE DEF c, p
  <1>4. ASSUME Len(c) < 2 PROVE Mine(n, p) = {d}
    <2>1. \A a, b \in DOMAIN c : a = b
      BY <1>2, <1>4
    <2> QED BY <2>1, <1>2, <1>3 DEF Set
  <1>5. ASSUME ~(Len(c) < 2) PROVE Mine(n, p) # {d}
    <2>1. 1 \in DOMAIN c /\ 2 \in DOMAIN c
      BY <1>2, <1>5
    <2>2. c[1] # c[2]
      BY <2>1, <1>2
    <2>3. c[1] \in Set(c) /\ c[2] \in Set(c)
      BY <2>1 DEF Set
    <2> QED BY <2>2, <2>3, <1>2
  <1> QED BY <1>4, <1>5 DEF c, p

LEMMA ToldAnnounce ==
    ASSUME NEW n, Sound(n), NEW d \in n.conn, NEW reason \in disc_messages
    PROVE  Told(n, announce_disconnect(n, d, reason), d)
PROOF
  <1> DEFINE p == n.player[d]
             k == [n EXCEPT !.untold = @ \/ reason \notin disc_messages,
                       !.online = IF Len(Chain(n, p)) < 2 THEN @ \ {p} ELSE @]
             m == desc_delhash(k, d)
  <1>1. n \in Nets /\ ChainsOK(n) /\ LoginsOK(n) /\ OnlineOK(n) /\ ~n.untold
    BY DEF Sound, OnlineOK
  <1>2. announce_disconnect(n, d, reason) = m
    BY DEF announce_disconnect
  <1>3. p \in Players /\ d \in Descs
    BY <1>1 DEF Nets, LoginsOK
  <1>4. /\ k \in Nets /\ k.untold = FALSE
        /\ k.online = IF Len(Chain(n, p)) < 2 THEN n.online \ {p} ELSE n.online
        /\ k.head = n.head /\ k.next = n.next /\ k.prev = n.prev /\ k.live = n.live
        /\ k.player = n.player /\ k.conn = n.conn /\ k.made = n.made /\ k.prog = n.prog
        /\ k.heap = n.heap /\ k.input = n.input /\ k.quota = n.quota
        /\ k.recent = n.recent /\ k.fault = n.fault
        /\ k.hash = n.hash /\ k.hashnext = n.hashnext
    <2> DEFINE less == Len(Chain(n, p)) < 2
    <2>1. less \in BOOLEAN
      OBVIOUS
    <2>2. (n.untold \/ reason \notin disc_messages) = FALSE
      BY <1>1
    <2> HIDE DEF less
    <2>3. k = [n EXCEPT !.untold = FALSE, !.online = IF less THEN n.online \ {p} ELSE n.online]
      <3>1. k = [n EXCEPT !.untold = n.untold \/ reason \notin disc_messages,
                          !.online = IF less THEN n.online \ {p} ELSE n.online]
        BY DEF less
      <3> QED BY <3>1, <2>2
    <2> HIDE DEF k, p
    <2>4. k.online = IF less THEN n.online \ {p} ELSE n.online
      BY <2>3, <1>1 DEF Nets
    <2> QED BY <2>3, <2>4, <1>1 DEF Nets, less
  <1> HIDE DEF k
  <1>5. \A q \in Players : Chain(k, q) = Chain(n, q) /\ Mine(k, q) = Mine(n, q)
    BY <1>4 DEF Chain, Mine
  <1>6. ChainsOK(k) /\ LoginsOK(k)
    BY <1>1, <1>4, <1>5 DEF ChainsOK, LoginsOK
  <1>7. d \in k.conn
    BY <1>4
  <1>8. /\ m \in Nets /\ SameButChains(k, m)
        /\ \A q \in Players : \E t \in Seq(Descs) :
              IsPath(m.hashnext, m.hash[q], t) /\ Set(t) = Mine(k, q) \ {d}
    BY <1>4, <1>6, <1>7, DelhashChains
  <1> HIDE DEF m
  <1>9. ASSUME NEW q \in Players
        PROVE  q \in k.online <=> \E e \in n.conn \ {d} : n.player[e] = q
    <2>1. Len(Chain(n, p)) < 2 <=> Mine(n, p) = {d}
      BY <1>1, LastOne
    <2>2. q \in n.online <=> \E e \in n.conn : n.player[e] = q
      BY <1>1 DEF OnlineOK
    <2>3. CASE q # p
      <3>1. q \in k.online <=> q \in n.online
        BY <2>3, <1>4
      <3> QED BY <2>2, <2>3, <3>1
    <2>4. CASE q = p
      <3>1. q \in n.online
        BY <2>2, <2>4
      <3>2. q \in k.online <=> Mine(n, p) # {d}
        BY <3>1, <2>1, <2>4, <1>4
      <3>3. d \in Mine(n, p)
        BY DEF Mine
      <3> QED BY <3>2, <3>3, <2>4 DEF Mine
    <2> QED BY <2>3, <2>4
  <1>10. \A q \in Players : \E t \in Seq(Descs) :
            IsPath(m.hashnext, m.hash[q], t) /\ Set(t) = Mine(n, q) \ {d}
    BY <1>5, <1>8
  <1>11. SameButChains(k, m) /\ m \in Nets
    BY <1>8
  <1>12. Told(n, m, d)
    BY <1>4, <1>9, <1>10, <1>11 DEF Told, SameButChains
  <1> QED BY <1>2, <1>12

(* The fields after Drop; u is the net with d off the list. *)
LEMMA DropFields ==
    ASSUME NEW k \in Nets, NEW d \in Descs
    PROVE  LET m == Drop(k, d)
               u == Unlink(k, d)
           IN /\ m \in Nets
              /\ m.head = u.head /\ m.next = u.next /\ m.prev = [u.prev EXCEPT ![d] = HEAD]
              /\ m.live = k.live \ {d} /\ m.hash = k.hash
              /\ m.hashnext = [k.hashnext EXCEPT ![d] = NULL]
              /\ m.player = [k.player EXCEPT ![d] = NOBODY]
              /\ m.conn = k.conn \ {d} /\ m.online = k.online /\ m.made = k.made
              /\ m.prog = [k.prog EXCEPT ![d] = NULL]
              /\ m.heap = IF k.prog[d] # NULL /\ Chain(k, k.player[d]) = <<>>
                          THEN k.heap \ {k.prog[d]} ELSE k.heap
              /\ m.input = [k.input EXCEPT ![d] = 0]
              /\ m.quota = [k.quota EXCEPT ![d] = 0]
              /\ m.untold = k.untold /\ m.fault = k.fault
PROOF
  <1> DEFINE j == [k EXCEPT !.input[d] = 0]
             v == Unlink(j, d)
             u == Unlink(k, d)
             w == FreeLastProgram(v, d)
             m == Drop(k, d)
  <1>1. MaxInput \in Nat /\ cmd_quota_max \in Nat /\ HEAD \in Ptr /\ NULL \in Ptr
    BY BoundsAssumption, Constants
  <1>2. /\ j \in Nets /\ SameUsers(k, j) /\ j.head = k.head /\ j.next = k.next
        /\ j.prev = k.prev /\ j.live = k.live /\ j.input = [k.input EXCEPT ![d] = 0]
    <2>1. 0 \in 0..MaxInput
      BY <1>1
    <2>2. [k.input EXCEPT ![d] = 0] \in [Descs -> 0..MaxInput]
      BY <2>1 DEF Nets
    <2> QED BY <2>2 DEF Nets, SameUsers
  <1>3. m = Blank(w, d)
    BY DEF Drop, free_desc
  <1> HIDE DEF j, m
  <1>4. /\ v \in Nets /\ SameUsers(j, v) /\ v.live = j.live /\ v.input = j.input
        /\ v.head = u.head /\ v.next = u.next /\ v.prev = u.prev
    <2>1. /\ v \in Nets /\ SameUsers(j, v) /\ v.live = j.live /\ v.input = j.input
          /\ v.head = IF j.prev[d] = HEAD THEN j.next[d] ELSE j.head
          /\ v.next = IF j.prev[d] = HEAD THEN j.next
                      ELSE [j.next EXCEPT ![j.prev[d]] = j.next[d]]
          /\ v.prev = IF j.next[d] = NULL THEN j.prev
                      ELSE [j.prev EXCEPT ![j.next[d]] = j.prev[d]]
      BY <1>2, UnlinkFields
    <2>2. /\ u.head = IF k.prev[d] = HEAD THEN k.next[d] ELSE k.head
          /\ u.next = IF k.prev[d] = HEAD THEN k.next
                      ELSE [k.next EXCEPT ![k.prev[d]] = k.next[d]]
          /\ u.prev = IF k.next[d] = NULL THEN k.prev
                      ELSE [k.prev EXCEPT ![k.next[d]] = k.prev[d]]
      BY UnlinkFields
    <2> HIDE DEF v, u
    <2> QED BY <2>1, <2>2, <1>2
  <1> HIDE DEF v, u
  <1>5. SameUsers(k, v)
    BY <1>2, <1>4 DEF SameUsers
  <1>6. Chain(v, v.player[d]) = Chain(k, k.player[d]) /\ v.prog = k.prog /\ v.heap = k.heap
    BY <1>5 DEF SameUsers, Chain
  <1> DEFINE last == k.prog[d] # NULL /\ Chain(k, k.player[d]) = <<>>
             heap == IF last THEN k.heap \ {k.prog[d]} ELSE k.heap
  <1>7. w = [v EXCEPT !.heap = heap]
    <2>1. v = [v EXCEPT !.heap = v.heap]
      BY <1>4 DEF Nets
    <2> QED BY <2>1, <1>6 DEF FreeLastProgram
  <1>8. heap \in SUBSET Programs
    BY DEF Nets
  <1> HIDE DEF w, heap
  <1>9. /\ w \in Nets /\ w.heap = heap
        /\ w.head = v.head /\ w.next = v.next /\ w.prev = v.prev /\ w.live = v.live
        /\ w.hash = v.hash /\ w.hashnext = v.hashnext /\ w.player = v.player
        /\ w.conn = v.conn /\ w.online = v.online /\ w.made = v.made
        /\ w.prog = v.prog /\ w.input = v.input /\ w.quota = v.quota
        /\ w.recent = v.recent /\ w.untold = v.untold /\ w.fault = v.fault
    BY <1>4, <1>7, <1>8 DEF Nets
  <1>10. /\ m \in Nets /\ m.heap = w.heap /\ m.head = w.head /\ m.next = w.next
         /\ m.prev = [w.prev EXCEPT ![d] = HEAD] /\ m.live = w.live \ {d}
         /\ m.hash = w.hash /\ m.hashnext = [w.hashnext EXCEPT ![d] = NULL]
         /\ m.player = [w.player EXCEPT ![d] = NOBODY]
         /\ m.conn = w.conn \ {d} /\ m.online = w.online /\ m.made = w.made
         /\ m.prog = [w.prog EXCEPT ![d] = NULL] /\ m.input = w.input
         /\ m.quota = [w.quota EXCEPT ![d] = 0]
         /\ m.untold = w.untold /\ m.fault = w.fault
    <2>1. w \in Nets /\ NOBODY \in Persons /\ 0 \in 0..cmd_quota_max
      BY <1>1, <1>9 DEF Persons
    <2>2. /\ [w.prev EXCEPT ![d] = HEAD] \in [Descs -> Ptr]
          /\ [w.hashnext EXCEPT ![d] = NULL] \in [Descs -> Ptr]
          /\ [w.player EXCEPT ![d] = NOBODY] \in [Descs -> Persons]
          /\ [w.prog EXCEPT ![d] = NULL] \in [Descs -> Programs \cup {NULL}]
      BY <2>1, <1>1 DEF Nets
    <2>3. [w.quota EXCEPT ![d] = 0] \in [Descs -> 0..cmd_quota_max]
      BY <2>1 DEF Nets
    <2>4. m = [w EXCEPT !.live = w.live \ {d}, !.conn = w.conn \ {d},
                        !.recent = w.recent \ {d},
                        !.player = [w.player EXCEPT ![d] = NOBODY],
                        !.prev = [w.prev EXCEPT ![d] = HEAD],
                        !.hashnext = [w.hashnext EXCEPT ![d] = NULL],
                        !.prog = [w.prog EXCEPT ![d] = NULL],
                        !.quota = [w.quota EXCEPT ![d] = 0]]
      BY <2>1, <1>3 DEF Blank, Nets
    <2> QED BY <2>1, <2>2, <2>3, <2>4 DEF Nets
  <1>11. v.input = [k.input EXCEPT ![d] = 0] /\ v.live = k.live
    BY <1>2, <1>4
  <1> QED BY <1>4, <1>5, <1>9, <1>10, <1>11 DEF m, u, heap, SameUsers

(* Freeing d, after announce_disconnect, leaves the others in order. *)
LEMMA DropList ==
    ASSUME NEW n, Sound(n), NEW d \in n.live, NEW k, Told(n, k, d)
    PROVE  LET m == Drop(k, d)
           IN /\ m \in Nets /\ ListOK(m) /\ m.live = n.live \ {d}
              /\ Keeps(n, m) /\ m.next[d] = n.next[d]
PROOF
  <1> DEFINE m == Drop(k, d)
             u == Unlink(k, d)
  <1>1. /\ n \in Nets /\ k \in Nets /\ k.next = n.next /\ k.head = n.head
        /\ k.prev = n.prev /\ k.live = n.live /\ d \in Descs
    BY DEF Sound, Told, Nets
  <1>2. ListOK(k)
    <2>1. List(k) = List(n)
      BY <1>1 DEF List
    <2> QED BY <1>1, <2>1 DEF Sound, ListOK
  <1>3. /\ m \in Nets /\ m.head = u.head /\ m.next = u.next
        /\ m.prev = [u.prev EXCEPT ![d] = HEAD] /\ m.live = k.live \ {d}
    BY <1>1, DropFields
  <1>4. PICK t \in Seq(Descs) : /\ IsPath(u.next, u.head, t) /\ IsBack(u.prev, HEAD, t)
                                /\ Set(t) = k.live \ {d}
    BY <1>1, <1>2, UnlinkList
  <1>5. u \in Nets /\ u.next = IF k.prev[d] = HEAD THEN k.next
                               ELSE [k.next EXCEPT ![k.prev[d]] = k.next[d]]
    BY <1>1, UnlinkFields
  <1>6. d \in k.live
    BY <1>1
  <1>7. ASSUME NEW f \in Ptr, NEW s \in Seq(Descs), IsPath(k.next, f, s)
        PROVE  \E r \in Seq(Descs) :
                  /\ IsPath(u.next, f, r) /\ Set(r) \subseteq Set(s)
                  /\ Set(s) \ {d} \subseteq Set(r)
    BY <1>1, <1>2, <1>6, <1>7, UnlinkOther
  <1> HIDE DEF m, u
  <1>8. List(m) = t
    BY <1>3, <1>4, ListIs
  <1>9. IsBack(m.prev, HEAD, t)
    <2>1. \A i \in DOMAIN t : t[i] # d /\ t[i] \in Descs
      <3>1. \A i \in DOMAIN t : t[i] \in Set(t)
        BY DEF Set
      <3>2. k.live \subseteq Descs
        BY <1>1 DEF Nets
      <3> QED BY <3>1, <3>2, <1>4
    <2>2. DOMAIN u.prev = Descs
      BY <1>5 DEF Nets
    <2>3. \A i \in DOMAIN t : m.prev[t[i]] = u.prev[t[i]]
      BY <2>1, <2>2, <1>3
    <2> QED BY <2>3, <1>4 DEF IsBack
  <1>10. ListOK(m)
    BY <1>3, <1>4, <1>8, <1>9 DEF ListOK
  <1>11. m.live = n.live \ {d}
    BY <1>1, <1>3
  <1>12. Keeps(n, m)
    <2>1. ASSUME NEW f \in Ptr, NEW s \in Seq(Descs), IsPath(n.next, f, s)
          PROVE  \E r \in Seq(Descs) :
                    /\ IsPath(m.next, f, r) /\ Set(r) \subseteq Set(s)
                    /\ Set(s) \cap m.live \subseteq Set(r)
      BY <2>1, <1>1, <1>3, <1>7, <1>11
    <2> QED BY <2>1, <1>11 DEF Keeps
  <1>13. m.next[d] = n.next[d]
    <2>1. k.prev[d] # d
      <3> DEFINE l == List(k)
      <3>1. IsBack(k.prev, HEAD, l) /\ Set(l) = k.live /\ IsPath(k.next, k.head, l)
        BY <1>2 DEF ListOK
      <3>2. PICK i \in DOMAIN l : l[i] = d
        BY <3>1, <1>6 DEF Set
      <3> HIDE DEF l
      <3>3. l \in Seq(DOMAIN k.next) /\ \A a, b \in DOMAIN l : l[a] = l[b] => a = b
        BY <3>1 DEF IsPath
      <3>4. i # 1 => i - 1 \in DOMAIN l /\ i - 1 # i
        BY <3>3
      <3>5. k.prev[d] = IF i = 1 THEN HEAD ELSE l[i - 1]
        BY <3>1, <3>2 DEF IsBack
      <3> QED BY <3>2, <3>3, <3>4, <3>5, <1>1, Constants
    <2> QED BY <2>1, <1>1, <1>3, <1>5 DEF Nets
  <1> QED BY <1>3, <1>10, <1>11, <1>12, <1>13 DEF m

LEMMA DropSound ==
    ASSUME NEW n, Sound(n), NEW d \in n.live, NEW k, Told(n, k, d)
    PROVE  LET m == Drop(k, d)
           IN Sound(m) /\ Keeps(n, m) /\ m.live = n.live \ {d} /\ m.next[d] = n.next[d]
PROOF
  <1> DEFINE m == Drop(k, d)
             last == k.prog[d] # NULL /\ Chain(k, k.player[d]) = <<>>
  <1>1. /\ n \in Nets /\ k \in Nets /\ d \in Descs /\ k.player = n.player /\ k.conn = n.conn
        /\ k.prog = n.prog /\ k.heap = n.heap /\ k.input = n.input /\ k.fault = n.fault
        /\ k.live = n.live /\ ~k.untold
    BY DEF Sound, Told, Nets
  <1>2. /\ m \in Nets /\ ListOK(m) /\ m.live = n.live \ {d}
        /\ Keeps(n, m) /\ m.next[d] = n.next[d]
    BY DropList
  <1>3. /\ m.hash = k.hash /\ m.hashnext = [k.hashnext EXCEPT ![d] = NULL]
        /\ m.player = [k.player EXCEPT ![d] = NOBODY]
        /\ m.conn = k.conn \ {d} /\ m.online = k.online
        /\ m.prog = [k.prog EXCEPT ![d] = NULL]
        /\ m.heap = IF last THEN k.heap \ {k.prog[d]} ELSE k.heap
        /\ m.input = [k.input EXCEPT ![d] = 0]
        /\ m.untold = k.untold /\ m.fault = k.fault
    BY <1>1, DropFields
  <1> HIDE DEF m
  <1>4. /\ \A x \in Descs : x # d => m.player[x] = n.player[x] /\ m.prog[x] = n.prog[x]
                                     /\ m.input[x] = n.input[x] /\ m.hashnext[x] = k.hashnext[x]
        /\ m.player[d] = NOBODY /\ m.prog[d] = NULL /\ m.input[d] = 0
    BY <1>1, <1>3 DEF Nets
  <1>5. m.conn = n.conn \ {d} /\ n.conn \subseteq Descs
    BY <1>1, <1>3 DEF Nets
  <1>6. \A q \in Players : Mine(m, q) = Mine(n, q) \ {d}
    BY <1>4, <1>5 DEF Mine
  <1>7. ASSUME NEW q \in Players
        PROVE  IsPath(m.hashnext, m.hash[q], Chain(m, q)) /\ Set(Chain(m, q)) = Mine(m, q)
    <2>1. PICK t \in Seq(Descs) :
             IsPath(k.hashnext, k.hash[q], t) /\ Set(t) = Mine(n, q) \ {d}
      BY DEF Told
    <2>2. Set(t) \subseteq Descs /\ DOMAIN k.hashnext = Descs /\ DOMAIN m.hashnext = Descs
      BY <2>1, <1>1, <1>2 DEF Set, Nets
    <2>3. \A x \in Set(t) : m.hashnext[x] = k.hashnext[x]
      BY <2>1, <2>2, <1>4
    <2>4. IsPath(m.hashnext, m.hash[q], t)
      BY <2>1, <2>2, <2>3, <1>3, PathFrame
    <2>5. q \in Persons
      BY DEF Persons
    <2>6. Chain(m, q) = t
      BY <2>4, <2>5, <1>2, ChainIs
    <2> QED BY <2>1, <2>4, <2>6, <1>6
  <1>8. ChainsOK(m)
    BY <1>7 DEF ChainsOK
  <1>9. LoginsOK(m)
    <2>1. LoginsOK(n)
      BY DEF Sound
    <2> QED BY <2>1, <1>2, <1>4, <1>5, Constants DEF LoginsOK
  <1>10. OnlineOK(m)
    <2>1. \A q \in Players : q \in k.online <=> \E e \in n.conn \ {d} : n.player[e] = q
      BY DEF Told
    <2>2. \A e \in n.conn \ {d} : m.player[e] = n.player[e]
      BY <1>4, <1>5
    <2> QED BY <2>1, <2>2, <1>1, <1>3, <1>5 DEF OnlineOK
  <1>11. ASSUME ~PipedLogout PROVE ProgramsOK(m)
    <2>1. /\ \A x \in Descs \ n.conn : n.prog[x] = NULL
          /\ \A x, e \in n.conn :
               /\ n.player[x] = n.player[e] => n.prog[x] = n.prog[e]
               /\ n.prog[x] = n.prog[e] => n.prog[x] = NULL \/ n.player[x] = n.player[e]
          /\ \A g \in Programs : g \in n.heap <=> \E x \in n.conn : n.prog[x] = g
          /\ ~n.fault
      BY <1>11 DEF Sound, ProgramsOK
    <2>2. d \in n.conn => (Chain(k, k.player[d]) = <<>> <=> Mine(n, n.player[d]) \ {d} = {})
      <3>1. HAVE d \in n.conn
      <3>2. n.player[d] \in Players
        BY <3>1, <1>1 DEF Sound, LoginsOK
      <3>3. PICK t \in Seq(Descs) : /\ IsPath(k.hashnext, k.hash[n.player[d]], t)
                                    /\ Set(t) = Mine(n, n.player[d]) \ {d}
        BY <3>2 DEF Told
      <3>4. n.player[d] \in Persons
        BY <3>2 DEF Persons
      <3>5. Chain(k, k.player[d]) = t
        BY <3>3, <3>4, <1>1, ChainIs
      <3>6. t = <<>> <=> Set(t) = {}
        <4>1. t # <<>> => 1 \in DOMAIN t
          OBVIOUS
        <4> QED BY <4>1 DEF Set
      <3> QED BY <3>3, <3>5, <3>6
    <2>3. \A x \in Descs \ m.conn : m.prog[x] = NULL
      BY <2>1, <1>4, <1>5
    <2>4. \A x, e \in m.conn :
             /\ m.player[x] = m.player[e] => m.prog[x] = m.prog[e]
             /\ m.prog[x] = m.prog[e] => m.prog[x] = NULL \/ m.player[x] = m.player[e]
      BY <2>1, <1>4, <1>5
    <2>5. ASSUME NEW g \in Programs
          PROVE  g \in m.heap <=> \E x \in m.conn : m.prog[x] = g
      <3>1. (\E x \in m.conn : m.prog[x] = g) <=> \E x \in n.conn \ {d} : n.prog[x] = g
        BY <1>4, <1>5
      <3>2. g \in n.heap <=> \E x \in n.conn : n.prog[x] = g
        BY <2>1
      <3>3. g # NULL
        BY Constants
      <3>4. CASE n.prog[d] # g
        <4>1. g \in m.heap <=> g \in n.heap
          BY <3>4, <1>1, <1>3
        <4> QED BY <4>1, <3>1, <3>2, <3>4
      <3>5. CASE n.prog[d] = g
        <4>1. d \in n.conn
          BY <3>3, <3>5, <2>1, <1>1
        <4>2. last <=> Mine(n, n.player[d]) \ {d} = {}
          BY <4>1, <3>3, <3>5, <2>2, <1>1
        <4>3. g \in m.heap <=> ~last
          BY <4>1, <3>2, <3>5, <1>1, <1>3
        <4>4. (\E x \in n.conn \ {d} : n.prog[x] = g) <=> Mine(n, n.player[d]) \ {d} # {}
          BY <4>1, <3>3, <3>5, <2>1 DEF Mine
        <4> HIDE DEF last
        <4> QED BY <4>2, <4>3, <4>4, <3>1
      <3> QED BY <3>4, <3>5
    <2>6. ~m.fault
      BY <2>1, <1>1, <1>3
    <2> QED BY <2>3, <2>4, <2>5, <2>6 DEF ProgramsOK
  <1>12. ProgramsOK(m)
    BY <1>11 DEF ProgramsOK
  <1> QED BY <1>2, <1>8, <1>9, <1>10, <1>12 DEF m, Sound

(* LOGOUT keeps the socket. *)
LEMMA StaySound ==
    ASSUME NEW n, Sound(n), NEW d \in n.conn, NEW k, Told(n, k, d),
           PipedLogout \/ n.prog[d] = NULL
    PROVE  LET m == StayLoggedOut(k, d)
           IN Sound(m) /\ Keeps(n, m) /\ m.live = n.live /\ m.next = n.next
PROOF
  <1> DEFINE m == StayLoggedOut(k, d)
  <1>1. /\ n \in Nets /\ k \in Nets /\ d \in Descs /\ k.player = n.player /\ k.conn = n.conn
        /\ k.prog = n.prog /\ k.heap = n.heap /\ k.input = n.input /\ k.fault = n.fault
        /\ k.live = n.live /\ ~k.untold
        /\ k.head = n.head /\ k.next = n.next /\ k.prev = n.prev
    BY DEF Sound, Told, Nets
  <1>2. /\ m \in Nets /\ m.conn = k.conn \ {d} /\ m.player = [k.player EXCEPT ![d] = NOBODY]
        /\ m.head = k.head /\ m.next = k.next /\ m.prev = k.prev /\ m.live = k.live
        /\ m.hash = k.hash /\ m.hashnext = k.hashnext /\ m.online = k.online
        /\ m.prog = k.prog /\ m.heap = k.heap /\ m.input = k.input
        /\ m.untold = k.untold /\ m.fault = k.fault
    <2>1. cmd_quota_max \in 0..cmd_quota_max /\ NOBODY \in Persons
      BY BoundsAssumption DEF Persons
    <2>2. /\ [k.quota EXCEPT ![d] = cmd_quota_max] \in [Descs -> 0..cmd_quota_max]
          /\ [k.player EXCEPT ![d] = NOBODY] \in [Descs -> Persons]
      BY <2>1, <1>1 DEF Nets
    <2> QED BY <1>1, <2>2 DEF StayLoggedOut, Nets
  <1> HIDE DEF m
  <1>3. List(m) = List(n) /\ ListOK(m)
    <2>1. List(m) = List(n)
      BY <1>1, <1>2 DEF List
    <2> QED BY <2>1, <1>1, <1>2 DEF Sound, ListOK
  <1>4. /\ \A x \in Descs : x # d => m.player[x] = n.player[x]
        /\ m.player[d] = NOBODY /\ m.conn = n.conn \ {d} /\ n.conn \subseteq Descs
    BY <1>1, <1>2 DEF Nets
  <1>5. \A q \in Players : Mine(m, q) = Mine(n, q) \ {d}
    BY <1>4 DEF Mine
  <1>6. ChainsOK(m)
    <2>1. ASSUME NEW q \in Players
          PROVE  IsPath(m.hashnext, m.hash[q], Chain(m, q)) /\ Set(Chain(m, q)) = Mine(m, q)
      <3>1. PICK t \in Seq(Descs) :
               IsPath(m.hashnext, m.hash[q], t) /\ Set(t) = Mine(n, q) \ {d}
        BY <1>2 DEF Told
      <3>2. q \in Persons
        BY DEF Persons
      <3>3. Chain(m, q) = t
        BY <3>1, <3>2, <1>2, ChainIs
      <3> QED BY <3>1, <3>3, <1>5
    <2> QED BY <2>1 DEF ChainsOK
  <1>7. LoginsOK(m)
    BY <1>1, <1>2, <1>4, Constants DEF Sound, LoginsOK
  <1>8. OnlineOK(m)
    <2>1. \A q \in Players : q \in k.online <=> \E e \in n.conn \ {d} : n.player[e] = q
      BY DEF Told
    <2>2. \A e \in n.conn \ {d} : m.player[e] = n.player[e]
      BY <1>4
    <2> QED BY <2>1, <2>2, <1>1, <1>2, <1>4 DEF OnlineOK
  <1>9. ASSUME ~PipedLogout PROVE ProgramsOK(m)
    <2>1. n.prog[d] = NULL /\ m.prog = n.prog /\ m.heap = n.heap /\ m.fault = n.fault
      BY <1>9, <1>1, <1>2
    <2>2. /\ \A x \in Descs \ n.conn : n.prog[x] = NULL
          /\ \A x, e \in n.conn :
               /\ n.player[x] = n.player[e] => n.prog[x] = n.prog[e]
               /\ n.prog[x] = n.prog[e] => n.prog[x] = NULL \/ n.player[x] = n.player[e]
          /\ \A g \in Programs : g \in n.heap <=> \E x \in n.conn : n.prog[x] = g
          /\ ~n.fault
      BY <1>9 DEF Sound, ProgramsOK
    <2>3. \A g \in Programs : g \in m.heap <=> \E x \in m.conn : m.prog[x] = g
      BY <2>1, <2>2, <1>4, Constants
    <2>4. \A x, e \in m.conn :
             /\ m.player[x] = m.player[e] => m.prog[x] = m.prog[e]
             /\ m.prog[x] = m.prog[e] => m.prog[x] = NULL \/ m.player[x] = m.player[e]
      BY <2>1, <2>2, <1>4
    <2>5. \A x \in Descs \ m.conn : m.prog[x] = NULL
      BY <2>1, <2>2, <1>4
    <2> QED BY <2>1, <2>2, <2>3, <2>4, <2>5 DEF ProgramsOK
  <1>10. ProgramsOK(m)
    BY <1>9 DEF ProgramsOK
  <1>11. m.live = n.live /\ m.next = n.next
    BY <1>1, <1>2
  <1>12. Keeps(n, m)
    BY <1>11, KeepsSame
  <1> QED BY <1>2, <1>3, <1>6, <1>7, <1>8, <1>10, <1>11, <1>12 DEF m, Sound

(* shutdownsock for a reason other than R_LOGOUT. *)
LEMMA ShutSound ==
    ASSUME NEW n, Sound(n), NEW d \in n.live, NEW reason, reason # R_LOGOUT,
           d \in n.conn => reason \in disc_messages
    PROVE  LET m == shutdownsock(n, d, reason)
           IN /\ Sound(m) /\ Keeps(n, m) /\ m.live = n.live \ {d} /\ m.next[d] = n.next[d]
PROOF
  <1>1. d \in Descs
    BY DEF Sound, Nets
  <1>2. CASE d \in n.conn
    <2> DEFINE k == announce_disconnect(n, d, reason)
    <2>1. Told(n, k, d)
      BY <1>2, ToldAnnounce
    <2>2. shutdownsock(n, d, reason) = Drop(k, d)
      BY <1>2 DEF shutdownsock
    <2> HIDE DEF k
    <2>3. /\ Sound(Drop(k, d)) /\ Keeps(n, Drop(k, d)) /\ Drop(k, d).live = n.live \ {d}
          /\ Drop(k, d).next[d] = n.next[d]
      BY <2>1, DropSound
    <2> QED BY <2>2, <2>3
  <1>3. CASE d \notin n.conn
    <2>1. Told(n, n, d)
      BY <1>1, <1>3, ToldNothing
    <2>2. shutdownsock(n, d, reason) = Drop(n, d)
      BY <1>3 DEF shutdownsock
    <2>3. /\ Sound(Drop(n, d)) /\ Keeps(n, Drop(n, d)) /\ Drop(n, d).live = n.live \ {d}
          /\ Drop(n, d).next[d] = n.next[d]
      BY <2>1, DropSound
    <2> QED BY <2>2, <2>3
  <1> QED BY <1>2, <1>3

LEMMA LogoutSound ==
    ASSUME NEW n, Sound(n), NEW d \in n.conn, PipedLogout \/ n.prog[d] = NULL
    PROVE  LET m == shutdownsock(n, d, R_LOGOUT)
           IN Sound(m) /\ Keeps(n, m)
PROOF
  <1> DEFINE k == announce_disconnect(n, d, R_LOGOUT)
  <1>1. R_LOGOUT \in disc_messages
    BY DEF R_LOGOUT, disc_messages
  <1>2. Told(n, k, d)
    BY <1>1, ToldAnnounce
  <1>3. shutdownsock(n, d, R_LOGOUT) = StayLoggedOut(k, d)
    BY DEF shutdownsock
  <1> HIDE DEF k
  <1> QED BY <1>2, <1>3, StaySound
-----------------------------------------------------------------------------
(* The loops over a player's descriptors. *)

(* The function that ShutdownAll names exists: one call after another. *)
LEMMA ShutdownSteps ==
    ASSUME NEW n, NEW ds \in Seq(Descs), NEW reason
    PROVE  \E h : /\ h[0] = n /\ ShutdownAll(n, ds, reason) = h[Len(ds)]
                  /\ \A i \in 1..Len(ds) : h[i] = shutdownsock(h[i - 1], ds[i], reason)
PROOF
  <1> DEFINE R(f, i) == IF i = 0 THEN n ELSE shutdownsock(f[i - 1], ds[i], reason)
             P(f, k) == f = [i \in 0..k |-> R(f, i)]
             T == {k \in Nat : \E f : P(f, k)}
             h == CHOOSE f : P(f, Len(ds))
  <1>1. Len(ds) \in Nat
    OBVIOUS
  <1>2. 0 \in T
    <2> DEFINE f == [i \in 0..0 |-> n]
    <2>1. P(f, 0)
      <3>1. \A i \in 0..0 : R(f, i) = n
        OBVIOUS
      <3> HIDE DEF R
      <3> QED BY <3>1
    <2> HIDE DEF P, f
    <2> QED BY <2>1
  <1>3. ASSUME NEW k \in 1..Len(ds), k - 1 \in T PROVE k \in T
    <2>1. PICK f : P(f, k - 1)
      BY <1>3
    <2> DEFINE g == [i \in 0..k |-> IF i < k THEN f[i] ELSE shutdownsock(f[k - 1], ds[k], reason)]
    <2>2. k \in Nat /\ k - 1 \in Nat /\ k - 1 < k /\ k # 0 /\ k - 1 \in 0..k
      BY <1>1
    <2>3. \A i \in 0..(k - 1) : f[i] = R(f, i) /\ g[i] = f[i]
      <3>1. \A i \in 0..(k - 1) : f[i] = R(f, i)
        BY <2>1
      <3>2. \A i \in 0..(k - 1) : i \in 0..k /\ i < k
        BY <2>2
      <3> QED BY <3>1, <3>2
    <2>4. g[k] = shutdownsock(f[k - 1], ds[k], reason)
      BY <2>2
    <2>5. ASSUME NEW i \in 0..k PROVE g[i] = R(g, i)
      <3>1. CASE i = 0
        <4>1. 0 \in 0..(k - 1)
          BY <2>2
        <4> QED BY <3>1, <4>1, <2>3
      <3>2. CASE i # 0 /\ i < k
        <4>1. i \in 0..(k - 1) /\ i - 1 \in 0..(k - 1)
          BY <3>2, <2>2
        <4> HIDE DEF g
        <4> QED BY <3>2, <4>1, <2>3
      <3>3. CASE i = k
        <4>1. k - 1 \in 0..(k - 1)
          BY <2>2
        <4> HIDE DEF g
        <4> QED BY <3>3, <4>1, <2>2, <2>3, <2>4
      <3> QED BY <3>1, <3>2, <3>3, <2>2
    <2>6. g = [i \in 0..k |-> g[i]]
      OBVIOUS
    <2>7. P(g, k)
      <3> HIDE DEF g, R
      <3> QED BY <2>5, <2>6
    <2> HIDE DEF g, P
    <2> QED BY <2>2, <2>7
  <1>4. Len(ds) \in T
    <2>1. 0..Len(ds) \subseteq T
      <3> HIDE DEF T
      <3> QED BY ONLY <1>1, <1>2, <1>3, Induct
    <2> QED BY <2>1, <1>1
  <1>5. P(h, Len(ds))
    <2>1. \E f : P(f, Len(ds))
      BY <1>4
    <2> HIDE DEF P
    <2> QED BY <2>1
  <1>6. ShutdownAll(n, ds, reason) = h[Len(ds)]
    BY DEF ShutdownAll
  <1> HIDE DEF h
  <1>7. \A i \in 0..Len(ds) : h[i] = R(h, i)
    BY <1>5
  <1>8. h[0] = n
    BY <1>1, <1>7
  <1>9. \A i \in 1..Len(ds) : h[i] = shutdownsock(h[i - 1], ds[i], reason)
    <2>1. \A i \in 1..Len(ds) : i \in 0..Len(ds) /\ i # 0
      BY <1>1
    <2> QED BY <2>1, <1>7
  <1> QED BY <1>6, <1>8, <1>9

(* Closing one descriptor after another. *)
LEMMA ShutdownAllSound ==
    ASSUME NEW n, Sound(n), NEW ds \in Seq(Descs), Set(ds) \subseteq n.live,
           \A i, j \in DOMAIN ds : ds[i] = ds[j] => i = j,
           NEW reason \in disc_messages, reason # R_LOGOUT
    PROVE  LET m == ShutdownAll(n, ds, reason) IN Sound(m) /\ Keeps(n, m)
PROOF
  <1>1. PICK h : /\ h[0] = n /\ ShutdownAll(n, ds, reason) = h[Len(ds)]
                 /\ \A i \in 1..Len(ds) : h[i] = shutdownsock(h[i - 1], ds[i], reason)
    BY ShutdownSteps
  <1> DEFINE T == {k \in 0..Len(ds) : /\ Sound(h[k]) /\ Keeps(n, h[k])
                                      /\ \A j \in DOMAIN ds : j > k => ds[j] \in h[k].live}
  <1>2. Len(ds) \in Nat /\ DOMAIN ds = 1..Len(ds)
    OBVIOUS
  <1>3. 0 \in T
    <2>1. Keeps(n, n)
      BY KeepsSame
    <2>2. \A j \in DOMAIN ds : ds[j] \in n.live
      BY DEF Set
    <2> QED BY <1>1, <1>2, <2>1, <2>2
  <1>4. ASSUME NEW k \in 1..Len(ds), k - 1 \in T PROVE k \in T
    <2> DEFINE a == h[k - 1]
               b == h[k]
    <2>1. /\ Sound(a) /\ Keeps(n, a) /\ k \in Nat /\ k - 1 \in Nat
          /\ \A j \in DOMAIN ds : j > k - 1 => ds[j] \in a.live
      BY <1>2, <1>4
    <2>2. b = shutdownsock(a, ds[k], reason)
      BY <1>1
    <2>3. ds[k] \in a.live
      BY <2>1, <1>2
    <2> HIDE DEF a, b
    <2>4. Sound(b) /\ Keeps(a, b) /\ b.live = a.live \ {ds[k]}
      BY <2>1, <2>2, <2>3, ShutSound
    <2>5. Keeps(n, b)
      BY <2>1, <2>4, KeepsTwice
    <2>6. ASSUME NEW j \in DOMAIN ds, j > k PROVE ds[j] \in b.live
      <3>1. j > k - 1 /\ j # k /\ k \in DOMAIN ds
        BY <2>1, <2>6, <1>2
      <3>2. ds[j] # ds[k]
        BY <3>1
      <3> QED BY <3>1, <3>2, <2>1, <2>4
    <2>7. k \in 0..Len(ds)
      BY <1>2
    <2> QED BY <2>4, <2>5, <2>6, <2>7 DEF b
  <1>5. Len(ds) \in T
    <2>1. 0..Len(ds) \subseteq T
      <3> HIDE DEF T
      <3> QED BY ONLY <1>2, <1>3, <1>4, Induct
    <2> QED BY <2>1, <1>2
  <1> QED BY <1>1, <1>5

LEMMA BootSound ==
    ASSUME NEW n, Sound(n)
    PROVE  /\ \A p \in Players : Sound(boot_off(n, p)) /\ Keeps(n, boot_off(n, p))
           /\ \A d \in n.live : Sound(boot_by_port(n, d)) /\ Keeps(n, boot_by_port(n, d))
PROOF
  <1>1. R_BOOT \in disc_messages /\ R_BOOT # R_LOGOUT
    BY DEF R_BOOT, R_LOGOUT, disc_messages
  <1>2. ASSUME NEW p \in Players
        PROVE  Sound(boot_off(n, p)) /\ Keeps(n, boot_off(n, p))
    <2> DEFINE c == Chain(n, p)
               m == ShutdownAll(n, c, R_BOOT)
    <2>1. n \in Nets /\ ChainsOK(n) /\ n.conn \subseteq n.live
      BY DEF Sound, LoginsOK
    <2>2. /\ c \in Seq(Descs) /\ Set(c) = Mine(n, p)
          /\ \A i, j \in DOMAIN c : c[i] = c[j] => i = j
      BY <2>1, ChainFacts
    <2>3. Set(c) \subseteq n.live
      BY <2>1, <2>2 DEF Mine
    <2> HIDE DEF c
    <2>4. Sound(m) /\ Keeps(n, m)
      BY <1>1, <2>2, <2>3, ShutdownAllSound
    <2> QED BY <2>4 DEF boot_off, c
  <1>3. ASSUME NEW d \in n.live
        PROVE  Sound(boot_by_port(n, d)) /\ Keeps(n, boot_by_port(n, d))
    BY <1>1, ShutSound DEF boot_by_port
  <1> QED BY <1>2, <1>3

(* QUIT and LOGOUT. *)
LEMMA LoggedOutSound ==
    ASSUME NEW n, Sound(n), NEW p \in Players, NEW reason \in {R_QUIT, R_LOGOUT},
           reason = R_LOGOUT => PipedLogout \/ ~InProgram(n, p)
    PROVE  LET m == logged_out(n, p, reason) IN Sound(m) /\ Keeps(n, m)
PROOF
  <1> DEFINE c == Chain(n, p)
             S == {i \in DOMAIN c : c[i] \in n.recent}
             now == Pick(c, S)
  <1>1. n \in Nets /\ ChainsOK(n) /\ n.conn \subseteq n.live
    BY DEF Sound, LoginsOK
  <1>2. c \in Seq(Descs) /\ Set(c) = Mine(n, p)
    BY <1>1, ChainFacts
  <1>3. logged_out(n, p, reason) =
          IF now = <<>> THEN n ELSE shutdownsock(n, Head(now), reason)
    BY DEF logged_out, Select, Positions
  <1>4. CASE now = <<>>
    BY <1>3, <1>4, KeepsSame
  <1>5. CASE now # <<>>
    <2> DEFINE d == Head(now)
    <2>1. S \in SUBSET DOMAIN c
      OBVIOUS
    <2> HIDE DEF c, S
    <2>2. /\ now \in Seq(Descs) /\ Place(S) \in [1..Cardinality(S) -> S]
          /\ DOMAIN now = 1..Cardinality(S)
          /\ \A i \in DOMAIN now : now[i] = c[Place(S)[i]]
      BY <1>2, <2>1, PickFacts
    <2> HIDE DEF now
    <2>3. d = now[1] /\ 1 \in DOMAIN now
      <3>1. now \in Seq(Descs)
        BY <2>2
      <3> QED BY ONLY <3>1, now # <<>>, <1>5
    <2>4. d \in Set(c)
      BY <2>1, <2>2, <2>3 DEF Set
    <2> HIDE DEF d
    <2>5. d \in n.conn /\ d \in n.live
      BY <2>4, <1>1, <1>2 DEF Mine
    <2>6. CASE reason = R_QUIT
      <3>1. R_QUIT \in disc_messages /\ R_QUIT # R_LOGOUT
        BY DEF R_QUIT, R_LOGOUT, disc_messages
      <3>2. Sound(shutdownsock(n, d, reason)) /\ Keeps(n, shutdownsock(n, d, reason))
        BY <3>1, <2>5, <2>6, ShutSound
      <3> QED BY <3>2, <1>3, <1>5 DEF d
    <2>7. CASE reason = R_LOGOUT
      <3>1. PipedLogout \/ n.prog[d] = NULL
        BY <2>4, <2>7 DEF InProgram, c
      <3>2. Sound(shutdownsock(n, d, R_LOGOUT)) /\ Keeps(n, shutdownsock(n, d, R_LOGOUT))
        BY <3>1, <2>5, LogoutSound
      <3> QED BY <3>2, <2>7, <1>3, <1>5 DEF d
    <2> QED BY <2>6, <2>7
  <1> QED BY <1>4, <1>5
-----------------------------------------------------------------------------
(* @program.  Frame: nothing but programs, quotas and the like changes. *)
Frame(n, m) ==
    /\ m \in Nets /\ m.head = n.head /\ m.next = n.next /\ m.prev = n.prev
    /\ m.live = n.live /\ m.hash = n.hash /\ m.hashnext = n.hashnext
    /\ m.player = n.player /\ m.conn = n.conn /\ m.online = n.online
    /\ m.untold = n.untold /\ \A d \in Descs \ n.live : m.input[d] = n.input[d]

LEMMA FrameSound ==
    ASSUME NEW n, Sound(n), NEW m, Frame(n, m), ~PipedLogout => ProgramsOK(m)
    PROVE  Sound(m) /\ Keeps(n, m)
PROOF
  <1>1. m \in Nets
    BY DEF Frame
  <1>2. ListOK(m)
    <2>1. List(m) = List(n)
      BY DEF Frame, List
    <2> QED BY <2>1 DEF Frame, Sound, ListOK
  <1>3. ChainsOK(m)
    <2>1. \A p \in Players : Chain(m, p) = Chain(n, p) /\ Mine(m, p) = Mine(n, p)
      BY DEF Frame, Chain, Mine
    <2> QED BY <2>1 DEF Frame, Sound, ChainsOK
  <1>4. LoginsOK(m) /\ OnlineOK(m)
    BY DEF Frame, Sound, LoginsOK, OnlineOK
  <1>5. ProgramsOK(m)
    BY DEF ProgramsOK
  <1>6. Keeps(n, m)
    BY KeepsSame DEF Frame
  <1> QED BY <1>1, <1>2, <1>3, <1>4, <1>5, <1>6 DEF Sound

(* Programs that do not change. *)
LEMMA FrameSame ==
    ASSUME NEW n, Sound(n), NEW m, Frame(n, m),
           m.prog = n.prog, m.heap = n.heap, m.fault = n.fault
    PROVE  Sound(m) /\ Keeps(n, m)
PROOF
  <1>1. ProgramsOK(m)
    BY DEF Sound, Frame, ProgramsOK
  <1> QED BY <1>1, FrameSound

ProgPtr == Programs \cup {NULL}

(* The descriptors in all get program g. *)
Give(n, heap, all, g) ==
    [n EXCEPT !.heap = heap,
              !.prog = [d \in Descs |-> IF d \in all THEN g ELSE n.prog[d]]]

Given(n, m, heap, all, g) ==
    /\ Frame(n, m) /\ m.heap = heap /\ m.fault = n.fault
    /\ \A d \in Descs : m.prog[d] = IF d \in all THEN g ELSE n.prog[d]

LEMMA GiveProgram ==
    ASSUME NEW n \in Nets, NEW all, NEW g \in ProgPtr,
           NEW heap \in SUBSET Programs
    PROVE  Given(n, Give(n, heap, all, g), heap, all, g)
PROOF
  <1> DEFINE f == [d \in Descs |-> IF d \in all THEN g ELSE n.prog[d]]
             m == [n EXCEPT !.heap = heap, !.prog = f]
  <1>1. f \in [Descs -> Programs \cup {NULL}]
    BY DEF Nets, ProgPtr
  <1>2. \A d \in Descs : f[d] = IF d \in all THEN g ELSE n.prog[d]
    OBVIOUS
  <1> HIDE DEF f
  <1>3. Frame(n, m) /\ m.heap = heap /\ m.fault = n.fault /\ m.prog = f
    BY <1>1 DEF Nets, Frame
  <1>4. Give(n, heap, all, g) = m
    BY DEF Give, f
  <1> HIDE DEF m
  <1> QED BY <1>2, <1>3, <1>4 DEF Given

LEMMA FaultFrame ==
    ASSUME NEW n \in Nets
    PROVE  Frame(n, [n EXCEPT !.fault = TRUE])
PROOF
  BY DEF Nets, Frame

LEMMA EndProgramSound ==
    ASSUME NEW n, Sound(n), NEW p \in Persons,
           ~PipedLogout => p \in Players /\ InProgram(n, p)
    PROVE  Sound(EndProgram(n, p)) /\ Keeps(n, EndProgram(n, p))
PROOF
  <1> DEFINE m == EndProgram(n, p)
             h == n.hash[p]
             all == Set(Chain(n, p))
             bad == h = NULL \/ n.prog[h] \notin n.heap
             k == Give(n, n.heap \ {n.prog[h]}, all, NULL)
  <1>1. m = IF bad THEN [n EXCEPT !.fault = TRUE] ELSE k
    BY DEF EndProgram, Give
  <1>2. n \in Nets
    BY DEF Sound
  <1>3. /\ Frame(n, k) /\ k.heap = n.heap \ {n.prog[h]} /\ k.fault = n.fault
        /\ \A d \in Descs : k.prog[d] = IF d \in all THEN NULL ELSE n.prog[d]
    <2> DEFINE heap == n.heap \ {n.prog[h]}
               w == Give(n, heap, all, NULL)
    <2>1. heap \in SUBSET Programs /\ NULL \in ProgPtr /\ n \in Nets
      BY <1>2 DEF Nets, ProgPtr
    <2> HIDE DEF all, h, heap
    <2>2. Given(n, w, heap, all, NULL)
      BY ONLY <2>1, GiveProgram
    <2> QED BY <2>2 DEF heap, Given
  <1> HIDE DEF k
  <1>4. Frame(n, m)
    BY <1>1, <1>2, <1>3, FaultFrame
  <1>5. ASSUME ~PipedLogout PROVE ProgramsOK(m)
    <2>1. /\ \A x \in Descs \ n.conn : n.prog[x] = NULL
          /\ \A x, e \in n.conn :
               /\ n.player[x] = n.player[e] => n.prog[x] = n.prog[e]
               /\ n.prog[x] = n.prog[e] => n.prog[x] = NULL \/ n.player[x] = n.player[e]
          /\ \A g \in Programs : g \in n.heap <=> \E x \in n.conn : n.prog[x] = g
          /\ ~n.fault
      BY <1>5 DEF Sound, ProgramsOK
    <2>2. p \in Players /\ InProgram(n, p) /\ ChainsOK(n)
      BY <1>5 DEF Sound
    <2>3. /\ all = Mine(n, p)
          /\ Chain(n, p) = <<>> <=> Mine(n, p) = {}
          /\ Chain(n, p) # <<>> => n.hash[p] \in Mine(n, p)
      BY <1>2, <2>2, ChainFacts
    <2>4. PICK x \in Mine(n, p) : n.prog[x] # NULL
      BY <2>2, <2>3 DEF InProgram
    <2>5. h \in Mine(n, p)
      BY <2>3, <2>4
    <2> HIDE DEF all, h
    <2>6. x \in n.conn /\ h \in n.conn /\ n.player[x] = p /\ n.player[h] = p
      BY <2>4, <2>5 DEF Mine
    <2>7. n.prog[h] = n.prog[x]
      BY <2>1, <2>6
    <2>8. n.prog[h] \in Programs /\ n.prog[h] # NULL
      BY <2>4, <2>6, <2>7, <1>2 DEF Nets
    <2>9. n.prog[h] \in n.heap /\ h # NULL
      BY <2>1, <2>6, <2>8, <1>2, Constants DEF Nets
    <2>10. m = k
      BY <1>1, <2>9
    <2>11. \A d \in n.conn : /\ d \in Descs
                             /\ d \in all <=> n.player[d] = p
                             /\ n.player[d] = p <=> n.prog[d] = n.prog[h]
      BY <2>1, <2>3, <2>6, <2>8, <1>2 DEF Mine, Nets
    <2>12. k.conn = n.conn /\ k.player = n.player
      BY <1>3 DEF Frame
    <2>13. all \subseteq n.conn
      BY <2>3 DEF Mine
    <2>14. \A d \in Descs \ k.conn : k.prog[d] = NULL
      BY <2>1, <2>12, <2>13, <1>3
    <2>15. \A d, e \in k.conn :
              /\ k.player[d] = k.player[e] => k.prog[d] = k.prog[e]
              /\ k.prog[d] = k.prog[e] => k.prog[d] = NULL \/ k.player[d] = k.player[e]
      BY <2>1, <2>11, <2>12, <1>3
    <2>16. \A g \in Programs : g \in k.heap <=> \E d \in k.conn : k.prog[d] = g
      BY <2>1, <2>11, <2>12, <1>3, Constants
    <2>17. ~k.fault
      BY <2>1, <1>3
    <2> QED BY <2>10, <2>14, <2>15, <2>16, <2>17 DEF ProgramsOK
  <1> HIDE DEF m
  <1>6. Sound(m) /\ Keeps(n, m)
    BY <1>4, <1>5, FrameSound
  <1> QED BY <1>6 DEF m

LEMMA HandleSound ==
    ASSUME NEW n, Sound(n), NEW d \in Descs, n.prog[d] # NULL
    PROVE  Sound(handle_prog(n, d)) /\ Keeps(n, handle_prog(n, d))
PROOF
  <1>1. n \in Nets /\ n.player[d] \in Persons /\ n.prog[d] \in Programs
    BY DEF Sound, Nets
  <1>2. ASSUME ~PipedLogout
        PROVE  /\ d \in n.conn /\ n.player[d] \in Players /\ InProgram(n, n.player[d])
               /\ n.prog[d] \in n.heap
    <2>1. d \in n.conn
      BY <1>2 DEF Sound, ProgramsOK
    <2>2. n.player[d] \in Players
      BY <2>1 DEF Sound, LoginsOK
    <2>3. n.prog[d] \in n.heap
      BY <1>1, <1>2, <2>1 DEF Sound, ProgramsOK
    <2>4. Set(Chain(n, n.player[d])) = Mine(n, n.player[d])
      BY <2>2 DEF Sound, ChainsOK
    <2>5. d \in Mine(n, n.player[d])
      BY <2>1 DEF Mine
    <2> QED BY <2>1, <2>2, <2>3, <2>4, <2>5 DEF InProgram
  <1>3. CASE n.prog[d] \in n.heap
    <2>1. Sound(EndProgram(n, n.player[d])) /\ Keeps(n, EndProgram(n, n.player[d]))
      BY <1>1, <1>2, EndProgramSound
    <2> QED BY <1>3, <2>1 DEF handle_prog
  <1>4. CASE n.prog[d] \notin n.heap
    <2> DEFINE m == [n EXCEPT !.fault = TRUE]
    <2>1. Frame(n, m) /\ PipedLogout
      BY <1>1, <1>2, <1>4, FaultFrame
    <2> HIDE DEF m
    <2>2. Sound(m) /\ Keeps(n, m)
      BY <2>1, FrameSound
    <2> QED BY <1>4, <2>2 DEF handle_prog, m
  <1> QED BY <1>3, <1>4

LEMMA QuitprogSound ==
    ASSUME NEW n, Sound(n), NEW p \in Players
    PROVE  Sound(do_quitprog(n, p)) /\ Keeps(n, do_quitprog(n, p))
PROOF
  <1>1. p \in Persons
    BY DEF Persons
  <1>2. CASE p \in n.online /\ InProgram(n, p)
    <2>1. Sound(EndProgram(n, p)) /\ Keeps(n, EndProgram(n, p))
      BY <1>1, <1>2, EndProgramSound
    <2> QED BY <1>2, <2>1 DEF do_quitprog
  <1>3. CASE ~(p \in n.online /\ InProgram(n, p))
    BY <1>3, KeepsSame DEF do_quitprog
  <1> QED BY <1>2, <1>3

LEMMA ProgSound ==
    ASSUME NEW n, Sound(n), NEW p \in Players, NEW g \in Programs \ n.heap
    PROVE  Sound(do_prog(n, p, g)) /\ Keeps(n, do_prog(n, p, g))
PROOF
  <1> DEFINE all == Set(Chain(n, p))
             k == Give(n, n.heap \cup {g}, all, g)
  <1>1. n \in Nets /\ ChainsOK(n)
    BY DEF Sound
  <1>2. CASE p \notin n.online \/ InProgram(n, p)
    BY <1>2, KeepsSame DEF do_prog
  <1>3. CASE ~(p \notin n.online \/ InProgram(n, p))
    <2>1. do_prog(n, p, g) = k
      BY <1>3 DEF do_prog, Give
    <2>2. all = Mine(n, p)
      BY <1>1, ChainFacts
    <2>3. \A d \in all : n.prog[d] = NULL
      BY <1>3 DEF InProgram
    <2>4. all # {}
      BY <1>3, <2>2 DEF Sound, OnlineOK, Mine
    <2>5. /\ Frame(n, k) /\ k.heap = n.heap \cup {g} /\ k.fault = n.fault
          /\ \A d \in Descs : k.prog[d] = IF d \in all THEN g ELSE n.prog[d]
      <3> DEFINE heap == n.heap \cup {g}
                 m == Give(n, heap, all, g)
      <3>1. heap \in SUBSET Programs /\ g \in ProgPtr /\ n \in Nets
        BY <1>1 DEF Nets, ProgPtr
      <3> HIDE DEF all, heap
      <3>2. Given(n, m, heap, all, g)
        BY ONLY <3>1, GiveProgram
      <3> QED BY <3>2 DEF heap, Given
    <2> HIDE DEF k, all
    <2>6. ASSUME ~PipedLogout PROVE ProgramsOK(k)
      <3>1. /\ \A x \in Descs \ n.conn : n.prog[x] = NULL
            /\ \A x, e \in n.conn :
                 /\ n.player[x] = n.player[e] => n.prog[x] = n.prog[e]
                 /\ n.prog[x] = n.prog[e] => n.prog[x] = NULL \/ n.player[x] = n.player[e]
            /\ \A x \in Programs : x \in n.heap <=> \E d \in n.conn : n.prog[d] = x
            /\ ~n.fault
        BY <2>6 DEF Sound, ProgramsOK
      <3>2. k.conn = n.conn /\ k.player = n.player /\ g # NULL
        BY <2>5, Constants DEF Frame
      <3>3. \A d \in n.conn : d \in Descs /\ n.prog[d] # g /\ (d \in all <=> n.player[d] = p)
        BY <3>1, <2>2, <1>1 DEF Mine, Nets
      <3>4. all \subseteq n.conn
        BY <2>2 DEF Mine
      <3>5. \A d \in Descs \ k.conn : k.prog[d] = NULL
        BY <3>1, <3>2, <3>4, <2>5
      <3>6. \A d, e \in k.conn :
              /\ k.player[d] = k.player[e] => k.prog[d] = k.prog[e]
              /\ k.prog[d] = k.prog[e] => k.prog[d] = NULL \/ k.player[d] = k.player[e]
        BY <3>1, <3>2, <3>3, <2>5
      <3>7. \A x \in Programs : x \in k.heap <=> \E d \in k.conn : k.prog[d] = x
        BY <3>1, <3>2, <3>3, <3>4, <2>3, <2>4, <2>5, Constants
      <3> QED BY <3>1, <3>5, <3>6, <3>7, <2>5 DEF ProgramsOK
    <2>7. Sound(k) /\ Keeps(n, k)
      BY <2>5, <2>6, FrameSound
    <2> QED BY <2>1, <2>7
  <1> QED BY <1>2, <1>3
-----------------------------------------------------------------------------
(* Login.  Joined: the fields of m after d logged in to n as p. *)
Joined(n, m, d, p) ==
    /\ m \in Nets /\ m.head = n.head /\ m.next = n.next /\ m.prev = n.prev
    /\ m.live = n.live /\ m.input = n.input /\ m.untold = n.untold
    /\ m.heap = n.heap /\ m.fault = n.fault
    /\ m.conn = n.conn \cup {d} /\ m.online = n.online \cup {p}
    /\ \A e \in Descs : /\ m.player[e] = IF e = d THEN p ELSE n.player[e]
                        /\ m.hashnext[e] = IF e = d THEN n.hash[p] ELSE n.hashnext[e]
                        /\ e # d => m.prog[e] = n.prog[e]
    /\ \A q \in Persons : m.hash[q] = IF q = p THEN d ELSE n.hash[q]
    /\ \A e \in Mine(n, p) : n.prog[e] # NULL =>
          \E f \in Mine(n, p) : m.prog[d] = n.prog[f] /\ n.prog[f] # NULL
    /\ (\A e \in Mine(n, p) : n.prog[e] = NULL) => m.prog[d] = n.prog[d]

LEMMA LogInFields ==
    ASSUME NEW n, Sound(n), NEW d \in n.live \ n.conn, NEW p \in Players
    PROVE  Joined(n, LogIn(n, d, p), d, p)
PROOF
  <1> DEFINE a == [n EXCEPT !.conn = @ \cup {d}, !.player[d] = p, !.made = @ \cup {p}]
             c == Chain(n, p)
             S == {i \in DOMAIN c : n.prog[c[i]] # NULL}
             others == Pick(c, S)
             g == IF others = <<>> THEN n.prog[d] ELSE n.prog[Head(others)]
             b == JoinProgram(a, d, p)
             m == [b EXCEPT !.hashnext[d] = b.hash[p], !.hash[p] = d]
             k == [m EXCEPT !.online = @ \cup {p}]
  <1>1. n \in Nets /\ ChainsOK(n) /\ d \in Descs /\ p \in Persons
    BY DEF Sound, Nets, Persons
  <1>2. /\ a \in Nets /\ a.conn = n.conn \cup {d} /\ a.player = [n.player EXCEPT ![d] = p]
        /\ a.head = n.head /\ a.next = n.next /\ a.prev = n.prev /\ a.live = n.live
        /\ a.hash = n.hash /\ a.hashnext = n.hashnext /\ a.online = n.online
        /\ a.prog = n.prog /\ a.heap = n.heap /\ a.input = n.input
        /\ a.untold = n.untold /\ a.fault = n.fault
    BY <1>1 DEF Nets
  <1> HIDE DEF a
  <1>3. Chain(a, p) = c
    BY <1>2 DEF Chain
  <1>4. b = IF others = <<>> THEN a ELSE [a EXCEPT !.prog[d] = n.prog[Head(others)]]
    BY <1>2, <1>3 DEF JoinProgram, Select, Positions
  <1>5. /\ others = <<>> => \A e \in Mine(n, p) : n.prog[e] = NULL
        /\ others # <<>> => Head(others) \in Mine(n, p) /\ n.prog[Head(others)] # NULL
    <2>1. c \in Seq(Descs) /\ Set(c) = Mine(n, p) /\ S \in SUBSET DOMAIN c
      BY <1>1, ChainFacts
    <2>2. \A i \in S : c[i] \in Mine(n, p) /\ n.prog[c[i]] # NULL
      BY <2>1 DEF Set
    <2>3. S = {} => \A e \in Mine(n, p) : n.prog[e] = NULL
      BY <2>1 DEF Set
    <2> HIDE DEF c, S
    <2>4. /\ Pick(c, S) = <<>> => S = {}
          /\ Pick(c, S) # <<>> => \E i \in S : Head(Pick(c, S)) = c[i]
      BY ONLY <2>1, PickHead
    <2> QED BY <2>2, <2>3, <2>4
  <1> HIDE DEF others, b
  <1>6. g \in Programs \cup {NULL}
    BY <1>1, <1>5 DEF Nets, Mine
  <1>7. b = [a EXCEPT !.prog[d] = g]
    <2>1. a = [a EXCEPT !.prog[d] = n.prog[d]]
      BY <1>1, <1>2 DEF Nets
    <2> QED BY <2>1, <1>4
  <1>8. (\A e \in Mine(n, p) : n.prog[e] = NULL) => g = n.prog[d]
    BY <1>5
  <1>9. \A e \in Mine(n, p) : n.prog[e] # NULL =>
           \E f \in Mine(n, p) : g = n.prog[f] /\ n.prog[f] # NULL
    BY <1>5
  <1> HIDE DEF g
  <1>10. /\ b \in Nets /\ b.prog = [n.prog EXCEPT ![d] = g]
         /\ b.conn = n.conn \cup {d} /\ b.player = [n.player EXCEPT ![d] = p]
         /\ b.head = n.head /\ b.next = n.next /\ b.prev = n.prev /\ b.live = n.live
         /\ b.hash = n.hash /\ b.hashnext = n.hashnext /\ b.online = n.online
         /\ b.heap = n.heap /\ b.input = n.input
         /\ b.untold = n.untold /\ b.fault = n.fault
    BY <1>1, <1>2, <1>6, <1>7 DEF Nets
  <1>11. b.player[d] = p
    BY <1>1, <1>10 DEF Nets
  <1>12. LogIn(n, d, p) = k
    <2>1. LogIn(n, d, p) = announce_connect(b, d)
      BY DEF LogIn, a, b
    <2> QED BY <2>1, <1>11 DEF announce_connect, desc_addhash
  <1>13. /\ m \in Nets /\ m.hashnext = [n.hashnext EXCEPT ![d] = n.hash[p]]
         /\ m.hash = [n.hash EXCEPT ![p] = d] /\ m.prog = b.prog
         /\ m.conn = b.conn /\ m.player = b.player /\ m.head = b.head /\ m.next = b.next
         /\ m.prev = b.prev /\ m.live = b.live /\ m.online = b.online /\ m.heap = b.heap
         /\ m.input = b.input /\ m.untold = b.untold /\ m.fault = b.fault
    <2>1. b.hash[p] = n.hash[p] /\ n.hash[p] \in Ptr /\ d \in Ptr
      BY <1>1, <1>10 DEF Nets, Ptr
    <2> QED BY <1>1, <1>10, <2>1 DEF Nets
  <1> HIDE DEF m
  <1>14. /\ k \in Nets /\ k.online = n.online \cup {p}
         /\ k.hashnext = m.hashnext /\ k.hash = m.hash /\ k.prog = m.prog
         /\ k.conn = m.conn /\ k.player = m.player /\ k.head = m.head /\ k.next = m.next
         /\ k.prev = m.prev /\ k.live = m.live /\ k.heap = m.heap
         /\ k.input = m.input /\ k.untold = m.untold /\ k.fault = m.fault
    BY <1>10, <1>13 DEF Nets
  <1> HIDE DEF k
  <1>15. /\ k.head = n.head /\ k.next = n.next /\ k.prev = n.prev
         /\ k.live = n.live /\ k.input = n.input /\ k.untold = n.untold
         /\ k.heap = n.heap /\ k.fault = n.fault
         /\ k.conn = n.conn \cup {d}
         /\ k.player = [n.player EXCEPT ![d] = p] /\ k.prog = [n.prog EXCEPT ![d] = g]
         /\ k.hashnext = [n.hashnext EXCEPT ![d] = n.hash[p]]
         /\ k.hash = [n.hash EXCEPT ![p] = d]
    BY <1>10, <1>13, <1>14
  <1>16. \A e \in Descs : /\ k.player[e] = IF e = d THEN p ELSE n.player[e]
                          /\ k.hashnext[e] = IF e = d THEN n.hash[p] ELSE n.hashnext[e]
                          /\ e # d => k.prog[e] = n.prog[e]
    BY <1>1, <1>15 DEF Nets
  <1>17. \A q \in Persons : k.hash[q] = IF q = p THEN d ELSE n.hash[q]
    BY <1>1, <1>15 DEF Nets
  <1>18. k.prog[d] = g
    BY <1>1, <1>15 DEF Nets
  <1>19. Joined(n, k, d, p)
    BY <1>8, <1>9, <1>14, <1>15, <1>16, <1>17, <1>18 DEF Joined
  <1> QED BY <1>12, <1>19

LEMMA JoinedSound ==
    ASSUME NEW n, Sound(n), NEW d \in n.live \ n.conn, NEW p \in Players,
           NEW m, Joined(n, m, d, p)
    PROVE  Sound(m) /\ Keeps(n, m)
PROOF
  <1>1. n \in Nets /\ ChainsOK(n) /\ d \in Descs /\ p \in Persons /\ n.conn \subseteq Descs
    BY DEF Sound, Nets, Persons
  <1>2. /\ m \in Nets /\ m.head = n.head /\ m.next = n.next /\ m.prev = n.prev
        /\ m.live = n.live /\ m.conn = n.conn \cup {d} /\ m.online = n.online \cup {p}
    BY DEF Joined
  <1>3. /\ \A e \in Descs : e # d => m.player[e] = n.player[e] /\ m.hashnext[e] = n.hashnext[e]
                                     /\ m.prog[e] = n.prog[e]
        /\ m.player[d] = p /\ m.hashnext[d] = n.hash[p]
    BY <1>1 DEF Joined
  <1>4. \A q \in Persons : m.hash[q] = IF q = p THEN d ELSE n.hash[q]
    BY DEF Joined
  <1>5. Keeps(n, m)
    BY <1>2, KeepsSame
  <1>6. ListOK(m)
    <2>1. List(m) = List(n)
      BY <1>2 DEF List
    <2> QED BY <2>1, <1>2 DEF Sound, ListOK
  <1>7. \A q \in Players : Mine(m, q) = IF q = p THEN Mine(n, q) \cup {d} ELSE Mine(n, q)
    BY <1>1, <1>2, <1>3 DEF Mine
  <1>8. ASSUME NEW q \in Players
        PROVE  IsPath(m.hashnext, m.hash[q], Chain(m, q)) /\ Set(Chain(m, q)) = Mine(m, q)
    <2> DEFINE c == Chain(n, q)
    <2>1. c \in Seq(Descs) /\ Set(c) = Mine(n, q) /\ IsPath(n.hashnext, n.hash[q], c)
      BY <1>1, ChainFacts DEF ChainsOK
    <2> HIDE DEF c
    <2>2. q \in Persons /\ DOMAIN n.hashnext = Descs /\ DOMAIN m.hashnext = Descs
      BY <1>1, <1>2 DEF Persons, Nets
    <2>3. d \notin Set(c) /\ Set(c) \subseteq Descs
      BY <2>1, <1>1 DEF Mine
    <2>4. \A x \in Set(c) : m.hashnext[x] = n.hashnext[x]
      BY <2>3, <1>3
    <2>5. IsPath(m.hashnext, n.hash[q], c)
      BY <2>1, <2>2, <2>4, PathFrame
    <2>6. CASE q # p
      <3>1. m.hash[q] = n.hash[q]
        BY <2>2, <2>6, <1>4
      <3>2. Chain(m, q) = c
        BY <3>1, <2>2, <2>5, <1>2, ChainIs
      <3> QED BY <3>1, <3>2, <2>1, <2>5, <2>6, <1>7
    <2>7. CASE q = p
      <3>1. m.hash[q] = d /\ m.hashnext[d] = n.hash[q]
        BY <2>2, <2>7, <1>3, <1>4
      <3>2. d \in DOMAIN m.hashnext
        BY <2>2, <1>1
      <3>3. IsPath(m.hashnext, d, <<d>> \o c) /\ Set(<<d>> \o c) = {d} \cup Set(c)
        BY <3>1, <3>2, <2>3, <2>5, PathPush
      <3>4. IsPath(m.hashnext, m.hash[q], <<d>> \o c)
        BY <3>1, <3>3
      <3>5. Chain(m, q) = <<d>> \o c
        BY <3>4, <2>2, <1>2, ChainIs
      <3>6. Set(Chain(m, q)) = Mine(m, q)
        BY <3>3, <3>5, <2>1, <2>7, <1>7
      <3> QED BY <3>4, <3>5, <3>6
    <2> QED BY <2>6, <2>7
  <1>9. ChainsOK(m)
    BY <1>8 DEF ChainsOK
  <1>10. LoginsOK(m)
    <2>1. m.input = n.input
      BY DEF Joined
    <2> QED BY <2>1, <1>1, <1>2, <1>3 DEF Sound, LoginsOK
  <1>11. OnlineOK(m)
    <2>1. m.untold = n.untold
      BY DEF Joined
    <2>2. \A q \in Players : q \in n.online <=> \E e \in n.conn : n.player[e] = q
      BY DEF Sound, OnlineOK
    <2>3. \A e \in n.conn : m.player[e] = n.player[e]
      BY <1>1, <1>3
    <2>4. \A q \in Players : q \in m.online <=> \E e \in m.conn : m.player[e] = q
      BY <2>2, <2>3, <1>2, <1>3
    <2> QED BY <2>1, <2>4 DEF Sound, OnlineOK
  <1>12. ASSUME ~PipedLogout PROVE ProgramsOK(m)
    <2>1. /\ \A x \in Descs \ n.conn : n.prog[x] = NULL
          /\ \A x, e \in n.conn :
               /\ n.player[x] = n.player[e] => n.prog[x] = n.prog[e]
               /\ n.prog[x] = n.prog[e] => n.prog[x] = NULL \/ n.player[x] = n.player[e]
          /\ \A x \in Programs : x \in n.heap <=> \E e \in n.conn : n.prog[e] = x
          /\ ~n.fault
      BY <1>12 DEF Sound, ProgramsOK
    <2>2. /\ \A e \in Mine(n, p) : n.prog[e] # NULL =>
                \E f \in Mine(n, p) : m.prog[d] = n.prog[f] /\ n.prog[f] # NULL
          /\ (\A e \in Mine(n, p) : n.prog[e] = NULL) => m.prog[d] = n.prog[d]
          /\ m.heap = n.heap /\ m.fault = n.fault
      BY DEF Joined
    <2>3. n.prog[d] = NULL
      BY <2>1, <1>1
    <2>4. \A e \in Mine(n, p) : m.prog[d] = n.prog[e]
      BY <2>1, <2>2, <2>3 DEF Mine
    <2>5. m.prog[d] = NULL \/ \E e \in Mine(n, p) : m.prog[d] = n.prog[e]
      BY <2>2, <2>3
    <2>6. \A e \in n.conn : m.prog[e] = n.prog[e] /\ m.player[e] = n.player[e] /\ e # d
      BY <1>1, <1>3
    <2>7. \A x \in Descs \ m.conn : m.prog[x] = NULL
      BY <2>1, <1>2, <1>3
    <2>8. \A e \in n.conn : /\ m.player[e] = p => m.prog[e] = m.prog[d]
                            /\ m.prog[e] = m.prog[d] => m.prog[d] = NULL \/ m.player[e] = p
      BY <2>1, <2>4, <2>5, <2>6 DEF Mine
    <2>9. \A x, e \in m.conn :
             /\ m.player[x] = m.player[e] => m.prog[x] = m.prog[e]
             /\ m.prog[x] = m.prog[e] => m.prog[x] = NULL \/ m.player[x] = m.player[e]
      BY <2>1, <2>6, <2>8, <1>2, <1>3
    <2>10. \A x \in Programs : x \in m.heap <=> \E e \in m.conn : m.prog[e] = x
      <3>1. \A x \in Programs : x # NULL
        BY Constants
      <3>2. \A x \in Programs : m.prog[d] = x => \E e \in n.conn : n.prog[e] = x
        BY <3>1, <2>5 DEF Mine
      <3> QED BY <3>2, <2>1, <2>2, <2>6, <1>2
    <2> QED BY <2>1, <2>2, <2>7, <2>9, <2>10 DEF ProgramsOK
  <1>13. ProgramsOK(m)
    BY <1>12 DEF ProgramsOK
  <1> QED BY <1>2, <1>5, <1>6, <1>9, <1>10, <1>11, <1>13 DEF Sound

LEMMA LogInSound ==
    ASSUME NEW n, Sound(n), NEW d \in n.live \ n.conn, NEW p \in Players
    PROVE  Sound(LogIn(n, d, p)) /\ Keeps(n, LogIn(n, d, p))
PROOF
  BY LogInFields, JoinedSound
-----------------------------------------------------------------------------
(* A line that is typed. *)
Fine(n, m) == Sound(m) /\ Keeps(n, m)

LEMMA ConnectSound ==
    ASSUME NEW n, Sound(n), NEW d \in n.live \ n.conn, NEW m \in check_connect(n, d)
    PROVE  Fine(n, m)
PROOF
  <1>1. ASSUME NEW r \in {R_QUIT, R_BADLOGIN, R_GAMEDOWN, R_GAMEFULL}
        PROVE  Fine(n, shutdownsock(n, d, r))
    <2>1. r # R_LOGOUT
      BY <1>1 DEF R_QUIT, R_BADLOGIN, R_GAMEDOWN, R_GAMEFULL, R_LOGOUT
    <2>2. Sound(shutdownsock(n, d, r)) /\ Keeps(n, shutdownsock(n, d, r))
      BY <2>1, ShutSound
    <2> QED BY <2>2 DEF Fine
  <1>2. \A p \in Players : Fine(n, LogIn(n, d, p))
    BY LogInSound DEF Fine
  <1>3. n.made \subseteq Players
    BY DEF Sound, Nets
  <1>4. \A p \in n.made : Fine(n, Connect(n, d, p))
    BY <1>1, <1>2, <1>3 DEF Connect, failconn
  <1>5. \A p \in Players \ n.made : Fine(n, Create(n, d, p))
    BY <1>1, <1>2 DEF Create, failconn
  <1>6. Fine(n, n)
    BY KeepsSame DEF Fine
  <1>7. \/ m \in {n, shutdownsock(n, d, R_BADLOGIN), shutdownsock(n, d, R_GAMEDOWN),
                  shutdownsock(n, d, R_QUIT)}
        \/ \E p \in n.made : m = Connect(n, d, p)
        \/ \E p \in Players \ n.made : m = Create(n, d, p)
    BY DEF check_connect, failconn
  <1> QED BY <1>1, <1>4, <1>5, <1>6, <1>7

LEMMA CommandSound ==
    ASSUME NEW n, Sound(n), NEW p \in Players, NEW m \in process_command(n, p)
    PROVE  Fine(n, m)
PROOF
  <1>1. Fine(n, n)
    BY KeepsSame DEF Fine
  <1>2. Fine(n, logged_out(n, p, R_QUIT))
    <2>1. R_QUIT \in {R_QUIT, R_LOGOUT} /\ R_QUIT # R_LOGOUT
      BY DEF R_QUIT, R_LOGOUT
    <2> QED BY <2>1, LoggedOutSound DEF Fine
  <1>3. \A k \in LogsOut(n, p) : Fine(n, k)
    <2>1. SUFFICES ASSUME PipedLogout \/ ~InProgram(n, p)
                   PROVE  Fine(n, logged_out(n, p, R_LOGOUT))
      BY DEF LogsOut
    <2>2. R_LOGOUT \in {R_QUIT, R_LOGOUT}
      OBVIOUS
    <2> QED BY <2>1, <2>2, LoggedOutSound DEF Fine
  <1>4. \A q \in Players : \A g \in Programs \ n.heap : Fine(n, do_prog(n, q, g))
    BY ProgSound DEF Fine
  <1>5. \A q \in Players : Fine(n, do_quitprog(n, q))
    BY QuitprogSound DEF Fine
  <1>6. \A q \in Players : Fine(n, boot_off(n, q))
    BY BootSound DEF Fine
  <1>7. \A d \in n.live : Fine(n, boot_by_port(n, d))
    BY BootSound DEF Fine
  <1>8. \/ m = n \/ m = logged_out(n, p, R_QUIT) \/ m \in LogsOut(n, p)
        \/ \E q \in Players, g \in Programs \ n.heap : m = do_prog(n, q, g)
        \/ \E q \in Players : m = do_quitprog(n, q)
        \/ \E q \in Players : m = boot_off(n, q)
        \/ \E d \in n.live : m = boot_by_port(n, d)
    BY DEF process_command
  <1> QED BY <1>1, <1>2, <1>3, <1>4, <1>5, <1>6, <1>7, <1>8

LEMMA FineTwice ==
    ASSUME NEW n, NEW m, NEW k, Keeps(n, m), Fine(m, k)
    PROVE  Fine(n, k)
PROOF
  BY KeepsTwice DEF Fine

LEMMA LineSound ==
    ASSUME NEW n, Sound(n), NEW d \in Descs, Ready(n, d), NEW m \in OneLine(n, d)
    PROVE  Fine(n, m)
PROOF
  <1> DEFINE a == Take(n, d)
             b == [a EXCEPT !.recent = @ \cup {d}]
  <1>1. n \in Nets /\ d \in n.live /\ n.conn \subseteq Descs
    <2>1. n.input[d] > 0 /\ n \in Nets
      BY DEF Ready, Sound
    <2>2. d \in n.live
      BY <2>1 DEF Sound, LoginsOK
    <2> QED BY <2>1, <2>2 DEF Nets
  <1>2. /\ Frame(n, a) /\ a.prog = n.prog /\ a.heap = n.heap /\ a.fault = n.fault
    <2>1. n.input[d] - 1 \in 0..MaxInput
      BY <1>1, BoundsAssumption DEF Ready, Nets
    <2>2. (IF n.player[d] \in Wizards THEN n.quota[d] ELSE n.quota[d] - 1) \in 0..cmd_quota_max
      BY <1>1, BoundsAssumption DEF Ready, Nets
    <2> DEFINE x == n.input[d] - 1
               y == IF n.player[d] \in Wizards THEN n.quota[d] ELSE n.quota[d] - 1
    <2>3. a = [n EXCEPT !.input[d] = x, !.quota[d] = y]
      BY <1>1 DEF Take, Nets
    <2> HIDE DEF x, y
    <2>4. /\ [n.input EXCEPT ![d] = x] \in [Descs -> 0..MaxInput]
          /\ [n.quota EXCEPT ![d] = y] \in [Descs -> 0..cmd_quota_max]
      BY <1>1, <2>1, <2>2 DEF Nets, x, y
    <2>5. /\ a \in Nets /\ a.prog = n.prog /\ a.heap = n.heap /\ a.fault = n.fault
          /\ a.head = n.head /\ a.next = n.next /\ a.prev = n.prev
          /\ a.live = n.live /\ a.hash = n.hash /\ a.hashnext = n.hashnext
          /\ a.player = n.player /\ a.conn = n.conn /\ a.online = n.online
          /\ a.untold = n.untold /\ a.input = [n.input EXCEPT ![d] = x]
      BY <1>1, <2>3, <2>4 DEF Nets
    <2>6. \A e \in Descs \ n.live : a.input[e] = n.input[e]
      BY <2>5, <1>1 DEF Nets
    <2> QED BY <2>5, <2>6 DEF Frame
  <1>3. Sound(a) /\ Keeps(n, a)
    BY <1>2, FrameSame
  <1>4. a.live = n.live /\ a.conn = n.conn /\ a.player = n.player
    BY <1>2 DEF Frame
  <1> HIDE DEF a
  <1>5. Frame(a, b) /\ b.prog = a.prog /\ b.heap = a.heap /\ b.fault = a.fault
    BY <1>3 DEF Sound, Nets, Frame
  <1>6. Sound(b) /\ Keeps(a, b)
    BY <1>3, <1>5, FrameSame
  <1>7. b.live = n.live /\ b.conn = n.conn /\ b.player = n.player
    BY <1>4, <1>5 DEF Frame
  <1>8. \/ d \in n.conn /\ m \in process_command(b, n.player[d])
        \/ d \notin n.conn /\ m \in check_connect(b, d)
        \/ n.prog[d] # NULL /\ m = handle_prog(a, d)
    BY <1>4 DEF OneLine, do_command, a
  <1> HIDE DEF b
  <1>9. CASE d \in n.conn /\ m \in process_command(b, n.player[d])
    <2>1. n.player[d] \in Players
      BY <1>9 DEF Sound, LoginsOK
    <2>2. Fine(b, m)
      BY <1>6, <1>9, <2>1, CommandSound
    <2> QED BY <2>2, <1>3, <1>6, FineTwice
  <1>10. CASE d \notin n.conn /\ m \in check_connect(b, d)
    <2>1. d \in b.live \ b.conn
      BY <1>1, <1>7, <1>10
    <2>2. Fine(b, m)
      BY <1>6, <1>10, <2>1, ConnectSound
    <2> QED BY <2>2, <1>3, <1>6, FineTwice
  <1>11. CASE n.prog[d] # NULL /\ m = handle_prog(a, d)
    <2>1. a.prog[d] # NULL
      BY <1>2, <1>11
    <2>2. Sound(handle_prog(a, d)) /\ Keeps(a, handle_prog(a, d))
      BY <1>3, <2>1, HandleSound
    <2>3. Fine(a, m)
      BY <1>11, <2>2 DEF Fine
    <2> QED BY <2>3, <1>3, FineTwice
  <1> QED BY <1>8, <1>9, <1>10, <1>11
-----------------------------------------------------------------------------
(* A new connection goes to the front of the list. *)
LEMMA NewFields ==
    ASSUME NEW n \in Nets, NEW d \in Descs
    PROVE  LET m == initializesock(n, d)
           IN /\ m \in Nets /\ m.head = d /\ m.next = [n.next EXCEPT ![d] = n.head]
              /\ m.prev = IF n.head = NULL THEN [n.prev EXCEPT ![d] = HEAD]
                          ELSE [[n.prev EXCEPT ![n.head] = d] EXCEPT ![d] = HEAD]
              /\ m.live = n.live \cup {d} /\ m.hash = n.hash
              /\ m.hashnext = [n.hashnext EXCEPT ![d] = NULL]
              /\ m.player = [n.player EXCEPT ![d] = NOBODY]
              /\ m.conn = n.conn \ {d} /\ m.online = n.online
              /\ m.prog = [n.prog EXCEPT ![d] = NULL] /\ m.heap = n.heap
              /\ m.input = [n.input EXCEPT ![d] = 0]
              /\ m.untold = n.untold /\ m.fault = n.fault
PROOF
  <1> DEFINE k == IF n.head = NULL THEN n ELSE [n EXCEPT !.prev[n.head] = d]
             m == initializesock(n, d)
  <1>1. n.head \in Ptr /\ d \in Ptr /\ NULL \in Ptr /\ HEAD \in Ptr /\ NOBODY \in Persons
    BY Constants DEF Nets, Persons
  <1>2. n.head # NULL => n.head \in Descs
    BY <1>1, Constants
  <1>3. /\ k \in Nets /\ k.head = n.head /\ k.next = n.next
        /\ k.prev = IF n.head = NULL THEN n.prev ELSE [n.prev EXCEPT ![n.head] = d]
        /\ k.live = n.live /\ k.hash = n.hash /\ k.hashnext = n.hashnext
        /\ k.player = n.player /\ k.conn = n.conn /\ k.online = n.online /\ k.prog = n.prog
        /\ k.heap = n.heap /\ k.input = n.input /\ k.untold = n.untold /\ k.fault = n.fault
    <2>1. CASE n.head = NULL
      BY <2>1
    <2>2. CASE n.head # NULL
      BY <1>1, <1>2, <2>2 DEF Nets
    <2> QED BY <2>1, <2>2
  <1>4. m = [k EXCEPT !.live = @ \cup {d}, !.conn = @ \ {d}, !.player[d] = NOBODY,
                 !.input[d] = 0, !.quota[d] = cmd_quota_max, !.prog[d] = NULL,
                 !.hashnext[d] = NULL, !.next[d] = n.head, !.prev[d] = HEAD,
                 !.head = d]
    BY DEF initializesock
  <1> HIDE DEF k, m
  <1>5. 0 \in 0..MaxInput /\ cmd_quota_max \in 0..cmd_quota_max
    BY BoundsAssumption
  <1>6. m = [k EXCEPT !.live = k.live \cup {d}, !.conn = k.conn \ {d},
                      !.player = [k.player EXCEPT ![d] = NOBODY],
                      !.input = [k.input EXCEPT ![d] = 0],
                      !.quota = [k.quota EXCEPT ![d] = cmd_quota_max],
                      !.prog = [k.prog EXCEPT ![d] = NULL],
                      !.hashnext = [k.hashnext EXCEPT ![d] = NULL],
                      !.next = [k.next EXCEPT ![d] = n.head],
                      !.prev = [k.prev EXCEPT ![d] = HEAD],
                      !.head = d]
    BY <1>3, <1>4 DEF Nets
  <1>7. /\ [k.player EXCEPT ![d] = NOBODY] \in [Descs -> Persons]
        /\ [k.prog EXCEPT ![d] = NULL] \in [Descs -> Programs \cup {NULL}]
        /\ [k.hashnext EXCEPT ![d] = NULL] \in [Descs -> Ptr]
        /\ [k.next EXCEPT ![d] = n.head] \in [Descs -> Ptr]
        /\ [k.prev EXCEPT ![d] = HEAD] \in [Descs -> Ptr]
    BY <1>1, <1>3 DEF Nets
  <1>8. /\ [k.input EXCEPT ![d] = 0] \in [Descs -> 0..MaxInput]
        /\ [k.quota EXCEPT ![d] = cmd_quota_max] \in [Descs -> 0..cmd_quota_max]
    BY <1>3, <1>5 DEF Nets
  <1>9. /\ m \in Nets /\ m.head = d /\ m.next = [k.next EXCEPT ![d] = n.head]
        /\ m.prev = [k.prev EXCEPT ![d] = HEAD]
        /\ m.live = k.live \cup {d} /\ m.hash = k.hash
        /\ m.hashnext = [k.hashnext EXCEPT ![d] = NULL]
        /\ m.player = [k.player EXCEPT ![d] = NOBODY]
        /\ m.conn = k.conn \ {d} /\ m.online = k.online
        /\ m.prog = [k.prog EXCEPT ![d] = NULL] /\ m.heap = k.heap
        /\ m.input = [k.input EXCEPT ![d] = 0]
        /\ m.untold = k.untold /\ m.fault = k.fault
    BY <1>1, <1>3, <1>6, <1>7, <1>8, SMTT(40), ZenonT(40) DEF Nets
  <1>10. m.prev = IF n.head = NULL THEN [n.prev EXCEPT ![d] = HEAD]
                  ELSE [[n.prev EXCEPT ![n.head] = d] EXCEPT ![d] = HEAD]
    BY <1>3, <1>9
  <1> QED BY <1>3, <1>9, <1>10 DEF m

LEMMA NewSound ==
    ASSUME NEW n, Sound(n), NEW d \in Descs \ n.live
    PROVE  Sound(initializesock(n, d))
PROOF
  <1> DEFINE m == initializesock(n, d)
             l == List(n)
  <1>1. /\ n \in Nets /\ d \notin n.conn /\ DOMAIN n.next = Descs /\ DOMAIN n.prev = Descs
        /\ DOMAIN n.hashnext = Descs /\ n.conn \subseteq Descs
    BY DEF Sound, LoginsOK, Nets
  <1>2. /\ m \in Nets /\ m.head = d /\ m.next = [n.next EXCEPT ![d] = n.head]
        /\ m.prev = IF n.head = NULL THEN [n.prev EXCEPT ![d] = HEAD]
                    ELSE [[n.prev EXCEPT ![n.head] = d] EXCEPT ![d] = HEAD]
        /\ m.live = n.live \cup {d} /\ m.hash = n.hash
        /\ m.hashnext = [n.hashnext EXCEPT ![d] = NULL]
        /\ m.player = [n.player EXCEPT ![d] = NOBODY]
        /\ m.conn = n.conn \ {d} /\ m.online = n.online
        /\ m.prog = [n.prog EXCEPT ![d] = NULL] /\ m.heap = n.heap
        /\ m.input = [n.input EXCEPT ![d] = 0]
        /\ m.untold = n.untold /\ m.fault = n.fault
    BY <1>1, NewFields
  <1>3. IsPath(n.next, n.head, l) /\ IsBack(n.prev, HEAD, l) /\ Set(l) = n.live
    BY DEF Sound, ListOK
  <1> HIDE DEF m, l
  <1>4. /\ l \in Seq(Descs) /\ Len(l) \in Nat /\ DOMAIN l = 1..Len(l)
        /\ \A i, j \in DOMAIN l : l[i] = l[j] => i = j
        /\ l # <<>> => n.head = l[1] /\ 1 \in DOMAIN l
        /\ \A i \in DOMAIN l : l[i] \in Descs /\ l[i] # d
    <2>1. /\ l \in Seq(Descs) /\ Len(l) \in Nat /\ DOMAIN l = 1..Len(l)
          /\ \A i, j \in DOMAIN l : l[i] = l[j] => i = j
          /\ l # <<>> => n.head = l[1] /\ 1 \in DOMAIN l
      BY <1>1, <1>3 DEF IsPath
    <2>2. \A i \in DOMAIN l : l[i] \in Set(l)
      BY DEF Set
    <2>3. n.live \subseteq Descs
      BY <1>1 DEF Nets
    <2> QED BY <2>1, <2>2, <2>3, <1>3
  <1>5. IsPath(m.next, d, <<d>> \o l) /\ Set(<<d>> \o l) = {d} \cup Set(l)
    <2>1. DOMAIN m.next = Descs /\ m.next[d] = n.head
      BY <1>1, <1>2
    <2>2. \A x \in Set(l) : m.next[x] = n.next[x]
      BY <1>1, <1>2, <1>3 DEF Nets
    <2>3. IsPath(m.next, n.head, l)
      BY <2>1, <2>2, <1>1, <1>3, PathFrame
    <2>4. d \in DOMAIN m.next /\ d \notin Set(l)
      BY <2>1, <1>3
    <2> QED BY <2>1, <2>3, <2>4, PathPush
  <1>6. List(m) = <<d>> \o l
    BY <1>2, <1>5, ListIs
  <1>7. IsBack(m.prev, HEAD, <<d>> \o l)
    <2> DEFINE back == [n.prev EXCEPT ![d] = HEAD]
               s == <<d>>
    <2>1. s \in Seq(Descs) /\ s # <<>> /\ Len(s) = 1 /\ s[1] = d /\ DOMAIN s = {1}
      OBVIOUS
    <2>2. IsBack(back, HEAD, s)
      BY <2>1, <1>1 DEF IsBack
    <2>3. IsBack(back, HEAD, l)
      <3>1. \A i \in DOMAIN l : back[l[i]] = n.prev[l[i]]
        BY <1>1, <1>4
      <3> QED BY <3>1, <1>3 DEF IsBack
    <2>4. \A x \in Set(s) : m.prev[x] = back[x]
      <3>1. Set(s) = {d}
        BY <2>1 DEF Set
      <3> QED BY <3>1, <1>1, <1>2
    <2>5. l # <<>> => m.prev[l[1]] = s[Len(s)]
      <3>1. l # <<>> => n.head # NULL /\ n.head = l[1] /\ l[1] \in Descs /\ l[1] # d
        BY <1>4, Constants
      <3> QED BY <3>1, <2>1, <1>1, <1>2
    <2>6. \A i \in DOMAIN l : i # 1 => m.prev[l[i]] = back[l[i]]
      <3>1. \A i \in DOMAIN l : i # 1 => l[i] # n.head /\ l[i] \in Descs /\ l[i] # d
        BY <1>4
      <3> QED BY <3>1, <1>1, <1>2
    <2>7. l \in Seq(Descs)
      BY <1>4
    <2> HIDE DEF back, s
    <2>8. IsBack(m.prev, HEAD, s \o l)
      BY ONLY <2>1, <2>2, <2>3, <2>4, <2>5, <2>6, <2>7, BackJoin
    <2> QED BY <2>8 DEF s
  <1>8. ListOK(m)
    BY <1>2, <1>3, <1>5, <1>6, <1>7 DEF ListOK
  <1>9. /\ \A x \in Descs : x # d => m.player[x] = n.player[x] /\ m.prog[x] = n.prog[x]
                                     /\ m.input[x] = n.input[x] /\ m.hashnext[x] = n.hashnext[x]
        /\ m.player[d] = NOBODY /\ m.prog[d] = NULL /\ m.input[d] = 0 /\ m.conn = n.conn
    BY <1>1, <1>2 DEF Nets
  <1>10. ChainsOK(m)
    <2>1. ASSUME NEW q \in Players
          PROVE  IsPath(m.hashnext, m.hash[q], Chain(m, q)) /\ Set(Chain(m, q)) = Mine(m, q)
      <3> DEFINE c == Chain(n, q)
      <3>1. c \in Seq(Descs) /\ Set(c) = Mine(n, q) /\ IsPath(n.hashnext, n.hash[q], c)
        BY <1>1, ChainFacts DEF Sound, ChainsOK
      <3> HIDE DEF c
      <3>2. q \in Persons /\ DOMAIN m.hashnext = Descs
        BY <1>2 DEF Persons, Nets
      <3>3. \A x \in Set(c) : m.hashnext[x] = n.hashnext[x]
        BY <3>1, <1>1, <1>9 DEF Mine
      <3>4. IsPath(m.hashnext, m.hash[q], c)
        <4>1. m.hash[q] = n.hash[q] /\ DOMAIN m.hashnext = DOMAIN n.hashnext
          BY <3>2, <1>1, <1>2
        <4> QED BY ONLY <4>1, <3>1, <3>3, PathFrame
      <3>5. Chain(m, q) = c
        BY <3>2, <3>4, <1>2, ChainIs, SMTT(40), ZenonT(40)
      <3>6. Mine(m, q) = Mine(n, q)
        BY <1>1, <1>9 DEF Mine
      <3> QED BY <3>1, <3>4, <3>5, <3>6
    <2> QED BY <2>1 DEF ChainsOK
  <1>11. LoginsOK(m)
    BY <1>1, <1>2, <1>9, Constants DEF Sound, LoginsOK
  <1>12. OnlineOK(m)
    <2>1. \A e \in n.conn : m.player[e] = n.player[e]
      BY <1>1, <1>9
    <2> QED BY <2>1, <1>2, <1>9 DEF Sound, OnlineOK
  <1>13. ProgramsOK(m)
    <2>1. \A e \in n.conn : m.player[e] = n.player[e] /\ m.prog[e] = n.prog[e]
      BY <1>1, <1>9
    <2> QED BY <2>1, <1>2, <1>9 DEF Sound, ProgramsOK
  <1> QED BY <1>2, <1>8, <1>10, <1>11, <1>12, <1>13 DEF m, Sound

(* Forgetting the links of freed descriptors. *)
LEMMA SettledSound ==
    ASSUME NEW n, Sound(n)
    PROVE  Sound(Settled(n)) /\ Settled(n).live = n.live /\ Settled(n).head = n.head
PROOF
  <1> DEFINE f == [d \in Descs |-> IF d \in n.live THEN n.next[d] ELSE NULL]
             m == Settled(n)
             l == List(n)
  <1>1. n \in Nets /\ DOMAIN n.next = Descs /\ n.live \subseteq Descs
    BY DEF Sound, Nets
  <1>2. f \in [Descs -> Ptr] /\ \A d \in n.live : f[d] = n.next[d]
    BY <1>1 DEF Nets, Ptr
  <1>3. m = [n EXCEPT !.next = f]
    BY DEF Settled
  <1> HIDE DEF f, m, l
  <1>4. /\ m \in Nets /\ m.next = f /\ m.head = n.head /\ m.prev = n.prev
        /\ m.live = n.live /\ m.hash = n.hash /\ m.hashnext = n.hashnext
        /\ m.player = n.player /\ m.conn = n.conn /\ m.online = n.online
        /\ m.prog = n.prog /\ m.heap = n.heap /\ m.input = n.input
        /\ m.untold = n.untold /\ m.fault = n.fault
    BY <1>1, <1>2, <1>3, SMTT(40), ZenonT(40) DEF Nets
  <1>5. ListOK(m)
    <2>1. IsPath(n.next, n.head, l) /\ IsBack(n.prev, HEAD, l) /\ Set(l) = n.live
      BY DEF Sound, ListOK, l
    <2>2. \A x \in Set(l) : m.next[x] = n.next[x]
      BY <2>1, <1>2, <1>4
    <2>3. DOMAIN m.next = DOMAIN n.next
      BY <1>1, <1>2, <1>4
    <2>4. IsPath(m.next, m.head, l)
      BY <2>1, <2>2, <2>3, <1>4, PathFrame
    <2>5. List(m) = l
      BY <2>4, <1>4, ListIs
    <2> QED BY <2>1, <2>4, <2>5, <1>4 DEF ListOK
  <1>6. ChainsOK(m)
    <2>1. \A p \in Players : Chain(m, p) = Chain(n, p) /\ Mine(m, p) = Mine(n, p)
      BY <1>4 DEF Chain, Mine
    <2> QED BY <2>1, <1>4 DEF Sound, ChainsOK
  <1>7. LoginsOK(m) /\ OnlineOK(m) /\ ProgramsOK(m)
    BY <1>4 DEF Sound, LoginsOK, OnlineOK, ProgramsOK
  <1> QED BY <1>4, <1>5, <1>6, <1>7 DEF Sound, m
-----------------------------------------------------------------------------
(* @restart *)
Quiet(n) ==
    /\ \A d \in Descs : n.prog[d] = NULL
    /\ n.heap = {} /\ ~n.fault

LEMMA QuietPrograms ==
    ASSUME NEW n \in Nets, Quiet(n)
    PROVE  ProgramsOK(n)
PROOF
  BY Constants DEF Quiet, ProgramsOK, Nets

LEMMA NoNetSound ==
    Sound(NoNet) /\ Quiet(NoNet) /\ NoNet.live = {}
PROOF
  <1> DEFINE n == NoNet
  <1>1. /\ NULL \in Ptr /\ HEAD \in Ptr /\ NOBODY \in Persons /\ Wizards \subseteq Players
        /\ 0 \in 0..MaxInput /\ 0 \in 0..cmd_quota_max
    BY Constants, BoundsAssumption DEF Persons
  <1>2. /\ n.head = NULL /\ n.next = [d \in Descs |-> NULL]
        /\ n.prev = [d \in Descs |-> HEAD] /\ n.live = {}
        /\ n.hash = [p \in Persons |-> NULL] /\ n.hashnext = [d \in Descs |-> NULL]
        /\ n.player = [d \in Descs |-> NOBODY] /\ n.conn = {} /\ n.online = {}
        /\ n.prog = [d \in Descs |-> NULL] /\ n.heap = {}
        /\ n.input = [d \in Descs |-> 0] /\ n.untold = FALSE /\ n.fault = FALSE
    BY DEF NoNet, Persons
  <1>3. n \in Nets
    <2>1. /\ [d \in Descs |-> NULL] \in [Descs -> Ptr] /\ [d \in Descs |-> HEAD] \in [Descs -> Ptr]
          /\ [p \in Persons |-> NULL] \in [Persons -> Ptr]
          /\ [d \in Descs |-> NOBODY] \in [Descs -> Persons]
          /\ [d \in Descs |-> NULL] \in [Descs -> Programs \cup {NULL}]
          /\ [d \in Descs |-> 0] \in [Descs -> 0..MaxInput]
          /\ [d \in Descs |-> 0] \in [Descs -> 0..cmd_quota_max]
      BY <1>1
    <2> QED BY <1>1, <2>1 DEF NoNet, Nets, Persons
  <1> HIDE DEF n
  <1>4. \A link : DOMAIN link = Descs => IsPath(link, NULL, <<>>) /\ Set(<<>>) = {}
    <2>1. DOMAIN <<>> = {}
      OBVIOUS
    <2> QED BY <2>1, Constants DEF IsPath, Set
  <1>5. ListOK(n)
    <2>1. IsPath(n.next, n.head, <<>>) /\ Set(<<>>) = n.live
      BY <1>2, <1>4
    <2>2. List(n) = <<>>
      BY <1>3, <2>1, ListIs
    <2>3. IsBack(n.prev, HEAD, <<>>)
      BY DEF IsBack
    <2> QED BY <2>1, <2>2, <2>3 DEF ListOK
  <1>6. ASSUME NEW p \in Players
        PROVE  IsPath(n.hashnext, n.hash[p], Chain(n, p)) /\ Set(Chain(n, p)) = Mine(n, p)
    <2>1. p \in Persons
      BY DEF Persons
    <2>2. IsPath(n.hashnext, n.hash[p], <<>>) /\ Set(<<>>) = Mine(n, p)
      BY <1>2, <1>4, <2>1 DEF Mine
    <2>3. Chain(n, p) = <<>>
      BY <1>3, <2>1, <2>2, ChainIs
    <2> QED BY <2>2, <2>3
  <1>7. ChainsOK(n)
    BY <1>6 DEF ChainsOK
  <1>8. LoginsOK(n) /\ OnlineOK(n)
    BY <1>2, Constants DEF LoginsOK, OnlineOK
  <1>9. Quiet(n)
    BY <1>2 DEF Quiet
  <1>10. ProgramsOK(n)
    BY <1>3, <1>9, QuietPrograms
  <1> QED BY <1>2, <1>3, <1>5, <1>7, <1>8, <1>9, <1>10 DEF n, Sound

(* The fields of m after d was read back to n. *)
Reloaded(n, m, d) ==
    /\ m \in Nets /\ m.live = n.live \cup {d}
    /\ m.head = IF List(n) = <<>> THEN d ELSE n.head
    /\ \A e \in Descs :
         /\ m.next[e] = IF e = d THEN NULL
                        ELSE IF List(n) # <<>> /\ e = List(n)[Len(List(n))] THEN d
                        ELSE n.next[e]
         /\ m.prev[e] = IF e # d THEN n.prev[e]
                        ELSE IF List(n) = <<>> THEN HEAD ELSE List(n)[Len(List(n))]
         /\ m.player[e] = IF e = d THEN net.player[d] ELSE n.player[e]
         /\ m.hashnext[e] = IF e = d THEN n.hash[net.player[d]] ELSE n.hashnext[e]
    /\ \A q \in Persons : m.hash[q] = IF q = net.player[d] THEN d ELSE n.hash[q]
    /\ m.conn = n.conn \cup (net.conn \cap {d})
    /\ m.online = n.online \cup ({net.player[d]} \cap Players)
    /\ m.prog = n.prog /\ m.heap = n.heap /\ m.input = n.input
    /\ m.untold = n.untold /\ m.fault = n.fault

LEMMA ReloadFields ==
    ASSUME Sound(net), NEW n, Sound(n), NEW d \in Descs \ n.live
    PROVE  Reloaded(n, Reload(n, d), d)
PROOF
  <1> DEFINE l == List(n)
             at == IF l = <<>> THEN HEAD ELSE l[Len(l)]
             a == IF l = <<>> THEN [n EXCEPT !.head = d] ELSE [n EXCEPT !.next[at] = d]
             b == [a EXCEPT !.live = @ \cup {d}, !.prev[d] = at, !.next[d] = NULL,
                       !.player[d] = net.player[d],
                       !.conn = @ \cup (net.conn \cap {d}),
                       !.recent = @ \cup (net.recent \cap {d}),
                       !.quota[d] = cmd_quota_max]
             p == net.player[d]
             c == [b EXCEPT !.online = @ \cup ({p} \cap Players)]
             m == [c EXCEPT !.hashnext[d] = c.hash[p], !.hash[p] = d]
  <1>1. n \in Nets /\ p \in Persons /\ d \in Ptr /\ NULL \in Ptr /\ HEAD \in Ptr
    BY Constants DEF Sound, Nets
  <1>2. at \in Ptr /\ (l # <<>> => at \in n.live /\ at \in Descs /\ at # d)
    <2>1. IsPath(n.next, n.head, l) /\ Set(l) = n.live
      BY DEF Sound, ListOK
    <2>2. l \in Seq(Descs)
      BY <2>1, <1>1 DEF IsPath, Nets
    <2> HIDE DEF l
    <2>3. l # <<>> => Len(l) \in DOMAIN l /\ l[Len(l)] \in Descs
      BY <2>2
    <2>4. l # <<>> => l[Len(l)] \in Set(l)
      BY <2>3 DEF Set
    <2> QED BY <2>1, <2>3, <2>4, <1>1 DEF Ptr
  <1> HIDE DEF l
  <1>3. /\ a \in Nets /\ a.head = IF l = <<>> THEN d ELSE n.head
        /\ a.next = IF l = <<>> THEN n.next ELSE [n.next EXCEPT ![at] = d]
        /\ a.prev = n.prev /\ a.live = n.live /\ a.hash = n.hash /\ a.hashnext = n.hashnext
        /\ a.player = n.player /\ a.conn = n.conn /\ a.online = n.online /\ a.prog = n.prog
        /\ a.heap = n.heap /\ a.input = n.input /\ a.untold = n.untold /\ a.fault = n.fault
    <2> HIDE DEF at
    <2>1. CASE l = <<>>
      BY <1>1, <2>1 DEF Nets
    <2>2. CASE l # <<>>
      BY <1>1, <1>2, <2>2 DEF Nets
    <2> QED BY <2>1, <2>2
  <1>4. Reload(n, d) = desc_addhash(c, d)
    BY DEF Reload, l
  <1> HIDE DEF a, at
  <1>5. /\ b \in Nets /\ b.live = n.live \cup {d} /\ b.prev = [n.prev EXCEPT ![d] = at]
        /\ b.next = [a.next EXCEPT ![d] = NULL] /\ b.player = [n.player EXCEPT ![d] = p]
        /\ b.conn = n.conn \cup (net.conn \cap {d}) /\ b.head = a.head
        /\ b.hash = n.hash /\ b.hashnext = n.hashnext
        /\ b.online = n.online /\ b.prog = n.prog
        /\ b.heap = n.heap /\ b.input = n.input /\ b.untold = n.untold /\ b.fault = n.fault
    <2> DEFINE cc == n.conn \cup (net.conn \cap {d})
               rr == a.recent \cup (net.recent \cap {d})
    <2>1. cc \in SUBSET Descs /\ rr \in SUBSET Descs
      BY <1>1, <1>3 DEF Nets
    <2>2. cmd_quota_max \in 0..cmd_quota_max
      BY BoundsAssumption
    <2>3. /\ [a.prev EXCEPT ![d] = at] \in [Descs -> Ptr]
          /\ [a.next EXCEPT ![d] = NULL] \in [Descs -> Ptr]
          /\ [a.player EXCEPT ![d] = p] \in [Descs -> Persons]
      BY <1>1, <1>2, <1>3 DEF Nets
    <2>4. [a.quota EXCEPT ![d] = cmd_quota_max] \in [Descs -> 0..cmd_quota_max]
      BY <1>3, <2>2 DEF Nets
    <2>5. b = [a EXCEPT !.live = a.live \cup {d}, !.prev = [a.prev EXCEPT ![d] = at],
                        !.next = [a.next EXCEPT ![d] = NULL],
                        !.player = [a.player EXCEPT ![d] = p],
                        !.conn = cc, !.recent = rr,
                        !.quota = [a.quota EXCEPT ![d] = cmd_quota_max]]
      BY <1>3 DEF Nets
    <2> HIDE DEF b, cc, rr
    <2>6. /\ b \in Nets /\ b.live = a.live \cup {d} /\ b.prev = [a.prev EXCEPT ![d] = at]
          /\ b.next = [a.next EXCEPT ![d] = NULL] /\ b.player = [a.player EXCEPT ![d] = p]
          /\ b.conn = cc /\ b.head = a.head
          /\ b.hash = a.hash /\ b.hashnext = a.hashnext
          /\ b.online = a.online /\ b.prog = a.prog
          /\ b.heap = a.heap /\ b.input = a.input /\ b.untold = a.untold /\ b.fault = a.fault
      BY <1>3, <2>1, <2>3, <2>4, <2>5 DEF Nets
    <2> QED BY <1>3, <2>6 DEF cc
  <1> HIDE DEF b
  <1>6. /\ c \in Nets /\ c.online = n.online \cup ({p} \cap Players)
        /\ c.live = b.live /\ c.prev = b.prev /\ c.next = b.next /\ c.player = b.player
        /\ c.conn = b.conn /\ c.head = b.head /\ c.hash = b.hash /\ c.hashnext = b.hashnext
        /\ c.prog = b.prog /\ c.heap = b.heap /\ c.input = b.input
        /\ c.untold = b.untold /\ c.fault = b.fault
    BY <1>5 DEF Nets
  <1> HIDE DEF c
  <1>7. c.player[d] = p
    BY <1>1, <1>5, <1>6 DEF Nets
  <1>8. Reload(n, d) = m
    BY <1>4, <1>7 DEF desc_addhash
  <1>9. /\ m \in Nets /\ m.hashnext = [c.hashnext EXCEPT ![d] = c.hash[p]]
        /\ m.hash = [c.hash EXCEPT ![p] = d]
        /\ m.live = c.live /\ m.prev = c.prev /\ m.next = c.next /\ m.player = c.player
        /\ m.conn = c.conn /\ m.head = c.head /\ m.online = c.online
        /\ m.prog = c.prog /\ m.heap = c.heap /\ m.input = c.input
        /\ m.untold = c.untold /\ m.fault = c.fault
    <2>1. c.hash[p] \in Ptr
      BY <1>1, <1>6 DEF Nets
    <2> HIDE DEF p
    <2> QED BY <1>1, <1>6, <2>1 DEF Nets
  <1> HIDE DEF m
  <1>10. /\ m.hashnext = [n.hashnext EXCEPT ![d] = n.hash[p]]
         /\ m.hash = [n.hash EXCEPT ![p] = d] /\ m.player = [n.player EXCEPT ![d] = p]
         /\ m.prev = [n.prev EXCEPT ![d] = at]
         /\ m.next = IF l = <<>> THEN [n.next EXCEPT ![d] = NULL]
                     ELSE [[n.next EXCEPT ![at] = d] EXCEPT ![d] = NULL]
    BY <1>3, <1>5, <1>6, <1>9
  <1>11. ASSUME NEW e \in Descs
         PROVE  /\ m.next[e] = IF e = d THEN NULL
                               ELSE IF l # <<>> /\ e = l[Len(l)] THEN d ELSE n.next[e]
                /\ m.prev[e] = IF e # d THEN n.prev[e]
                               ELSE IF l = <<>> THEN HEAD ELSE l[Len(l)]
                /\ m.player[e] = IF e = d THEN p ELSE n.player[e]
                /\ m.hashnext[e] = IF e = d THEN n.hash[p] ELSE n.hashnext[e]
    <2>1. /\ m.player[e] = IF e = d THEN p ELSE n.player[e]
          /\ m.hashnext[e] = IF e = d THEN n.hash[p] ELSE n.hashnext[e]
      BY <1>1, <1>10 DEF Nets
    <2>2. m.prev[e] = IF e # d THEN n.prev[e] ELSE at
      BY <1>1, <1>10 DEF Nets
    <2>3. CASE l = <<>>
      <3>1. at = HEAD /\ m.next[e] = IF e = d THEN NULL ELSE n.next[e]
        BY <2>3, <1>1, <1>10 DEF Nets, at
      <3> QED BY <2>1, <2>2, <2>3, <3>1
    <2>4. CASE l # <<>>
      <3>1. at = l[Len(l)]
        BY <2>4 DEF at
      <3>2. m.next[e] = IF e = d THEN NULL ELSE IF e = at THEN d ELSE n.next[e]
        BY <2>4, <1>1, <1>2, <1>10 DEF Nets
      <3> QED BY <2>1, <2>2, <2>4, <3>1, <3>2
    <2> QED BY <2>3, <2>4
  <1>12. \A q \in Persons : m.hash[q] = IF q = p THEN d ELSE n.hash[q]
    BY <1>1, <1>10 DEF Nets
  <1>13. /\ m \in Nets /\ m.live = n.live \cup {d} /\ m.head = IF l = <<>> THEN d ELSE n.head
         /\ m.conn = n.conn \cup (net.conn \cap {d})
         /\ m.online = n.online \cup ({p} \cap Players)
         /\ m.prog = n.prog /\ m.heap = n.heap /\ m.input = n.input
         /\ m.untold = n.untold /\ m.fault = n.fault
    BY <1>3, <1>5, <1>6, <1>9
  <1>14. Reloaded(n, m, d)
    BY <1>11, <1>12, <1>13 DEF Reloaded, l, p
  <1> QED BY <1>8, <1>14

LEMMA ReloadedList ==
    ASSUME NEW n, Sound(n), NEW d \in Descs \ n.live, NEW m, Reloaded(n, m, d)
    PROVE  ListOK(m)
PROOF
  <1> DEFINE l == List(n)
             s == <<d>>
             link == [n.next EXCEPT ![d] = NULL]
             back == [n.prev EXCEPT ![d] = HEAD]
  <1>1. n \in Nets /\ DOMAIN n.next = Descs /\ DOMAIN n.prev = Descs /\ n.live \subseteq Descs
    BY DEF Sound, Nets
  <1>2. /\ m \in Nets /\ m.live = n.live \cup {d} /\ m.head = IF l = <<>> THEN d ELSE n.head
        /\ \A e \in Descs :
             /\ m.next[e] = IF e = d THEN NULL
                            ELSE IF l # <<>> /\ e = l[Len(l)] THEN d ELSE n.next[e]
             /\ m.prev[e] = IF e # d THEN n.prev[e] ELSE IF l = <<>> THEN HEAD ELSE l[Len(l)]
    BY DEF Reloaded
  <1>3. IsPath(n.next, n.head, l) /\ IsBack(n.prev, HEAD, l) /\ Set(l) = n.live
    BY DEF Sound, ListOK
  <1> HIDE DEF l
  <1>4. l \in Seq(Descs) /\ \A i \in DOMAIN l : l[i] \in Set(l)
    BY <1>1, <1>3 DEF IsPath, Set
  <1>5. \A i \in DOMAIN l : l[i] \in Descs /\ l[i] # d
    BY <1>1, <1>3, <1>4
  <1>6. /\ s \in Seq(Descs) /\ s # <<>> /\ Len(s) = 1 /\ s[1] = d /\ DOMAIN s = {1}
        /\ Set(s) = {d}
    BY DEF Set
  <1>7. DOMAIN m.next = Descs /\ DOMAIN link = Descs /\ link[d] = NULL /\ NULL \notin Descs
    BY <1>1, <1>2, Constants DEF Nets
  <1>8. \A w : DOMAIN w = Descs /\ w[d] = NULL => IsPath(w, d, s)
    <2> SUFFICES ASSUME NEW w, DOMAIN w = Descs, w[d] = NULL PROVE IsPath(w, d, s)
      OBVIOUS
    <2> HIDE DEF s
    <2>1. /\ s \in Seq(DOMAIN w) /\ \A i, j \in DOMAIN s : s[i] = s[j] => i = j
          /\ s # <<>> /\ d = s[1] /\ \A i \in DOMAIN s : ~(i < Len(s))
          /\ w[s[Len(s)]] \notin DOMAIN w
      BY <1>6, <1>7
    <2> QED BY <2>1 DEF IsPath
  <1>9. CASE l = <<>>
    <2>1. m.head = d /\ m.next[d] = NULL /\ m.prev[d] = HEAD /\ Set(l) = {}
      BY <1>2, <1>9 DEF Set
    <2>2. IsPath(m.next, m.head, s)
      BY <2>1, <1>7, <1>8
    <2>3. List(m) = s
      BY <2>2, <1>2, ListIs
    <2>4. IsBack(m.prev, HEAD, s)
      BY <2>1, <1>6 DEF IsBack
    <2>5. m.live = {d}
      BY <2>1, <1>2, <1>3
    <2> QED BY <2>2, <2>3, <2>4, <2>5, <1>6 DEF ListOK
  <1>10. CASE l # <<>>
    <2> DEFINE at == l[Len(l)]
    <2>1. Len(l) \in DOMAIN l
      BY <1>4, <1>10
    <2>2. at \in Descs /\ at # d /\ at \in Set(l)
      BY <2>1, <1>4, <1>5
    <2>3. IsPath(link, n.head, l)
      <3>1. \A x \in Set(l) : link[x] = n.next[x]
        BY <1>1, <1>3
      <3>2. DOMAIN link = DOMAIN n.next
        BY <1>1
      <3> HIDE DEF link
      <3> QED BY ONLY <3>1, <3>2, <1>3, PathFrame
    <2>4. IsPath(link, d, s)
      BY <1>7, <1>8
    <2>5. /\ m.next[at] = d /\ DOMAIN m.next = DOMAIN link
          /\ \A x \in Set(l) \cup Set(s) : x # at => m.next[x] = link[x]
          /\ Set(l) \cap Set(s) = {}
      <3>1. m.next[at] = d
        BY <2>2, <1>2, <1>10
      <3>2. \A x \in Descs : x # at => m.next[x] = link[x]
        BY <1>1, <1>2
      <3>3. Set(l) \cup Set(s) \subseteq Descs /\ Set(l) \cap Set(s) = {}
        BY <1>1, <1>3, <1>6
      <3> QED BY <3>1, <3>2, <3>3, <1>7
    <2>6. IsPath(m.next, n.head, l \o s)
      <3> HIDE DEF link, s
      <3> QED BY ONLY <2>3, <2>4, <2>5, <1>10, PathJoin
    <2>7. m.head = n.head /\ m.prev[d] = at
      BY <1>2, <1>10
    <2>8. List(m) = l \o s
      BY <2>6, <2>7, <1>2, ListIs
    <2>9. IsBack(m.prev, HEAD, l \o s)
      <3>1. IsBack(back, HEAD, l)
        <4>1. \A i \in DOMAIN l : back[l[i]] = n.prev[l[i]]
          BY <1>1, <1>5
        <4> QED BY <4>1, <1>3 DEF IsBack
      <3>2. IsBack(back, HEAD, s)
        BY <1>1, <1>6 DEF IsBack
      <3>3. \A x \in Set(l) : m.prev[x] = back[x]
        BY <1>1, <1>2, <1>3
      <3>4. s # <<>> => m.prev[s[1]] = l[Len(l)]
        BY <2>7, <1>6
      <3>5. \A i \in DOMAIN s : i # 1 => m.prev[s[i]] = back[s[i]]
        BY <1>6
      <3>6. l \in Seq(Descs) /\ s \in Seq(Descs)
        BY <1>4, <1>6
      <3> HIDE DEF back, s
      <3> QED BY ONLY <3>1, <3>2, <3>3, <3>4, <3>5, <3>6, <1>10, BackJoin
    <2>10. Set(l \o s) = m.live
      <3>1. l \in Seq(Descs) /\ s \in Seq(Descs)
        BY <1>4, <1>6
      <3>2. Set(l \o s) = Set(l) \cup Set(s)
        <4> HIDE DEF s
        <4> QED BY ONLY <3>1, ConcatFacts
      <3> QED BY <3>2, <1>2, <1>3, <1>6
    <2> QED BY <2>6, <2>7, <2>8, <2>9, <2>10 DEF ListOK
  <1> QED BY <1>9, <1>10

LEMMA ReloadedSound ==
    ASSUME Sound(net), NEW n, Sound(n), Quiet(n), NEW d \in Descs \ n.live,
           NEW m, Reloaded(n, m, d)
    PROVE  Sound(m) /\ Quiet(m) /\ m.live = n.live \cup {d}
PROOF
  <1> DEFINE p == net.player[d]
  <1>1. /\ n \in Nets /\ n.conn \subseteq n.live /\ n.live \subseteq Descs /\ p \in Persons
        /\ d \in net.conn <=> p \in Players
    BY DEF Sound, Nets, LoginsOK
  <1>2. /\ m \in Nets /\ m.live = n.live \cup {d}
        /\ \A e \in Descs :
             /\ m.player[e] = IF e = d THEN p ELSE n.player[e]
             /\ m.hashnext[e] = IF e = d THEN n.hash[p] ELSE n.hashnext[e]
        /\ \A q \in Persons : m.hash[q] = IF q = p THEN d ELSE n.hash[q]
        /\ m.conn = n.conn \cup (net.conn \cap {d})
        /\ m.online = n.online \cup ({p} \cap Players)
        /\ m.prog = n.prog /\ m.heap = n.heap /\ m.input = n.input
        /\ m.untold = n.untold /\ m.fault = n.fault
    BY DEF Reloaded
  <1> HIDE DEF p
  <1>3. ListOK(m)
    BY ReloadedList
  <1>4. Quiet(m)
    BY <1>2 DEF Quiet
  <1>5. ProgramsOK(m)
    BY <1>2, <1>4, QuietPrograms
  <1>6. \A q \in Players : Mine(m, q) = IF q = p THEN Mine(n, q) \cup {d} ELSE Mine(n, q)
    BY <1>1, <1>2 DEF Mine
  <1>7. ASSUME NEW q \in Players
        PROVE  IsPath(m.hashnext, m.hash[q], Chain(m, q)) /\ Set(Chain(m, q)) = Mine(m, q)
    <2> DEFINE c == Chain(n, q)
    <2>1. c \in Seq(Descs) /\ Set(c) = Mine(n, q) /\ IsPath(n.hashnext, n.hash[q], c)
      BY <1>1, ChainFacts DEF Sound, ChainsOK
    <2> HIDE DEF c
    <2>2. q \in Persons /\ DOMAIN n.hashnext = Descs /\ DOMAIN m.hashnext = Descs
      BY <1>1, <1>2 DEF Persons, Nets
    <2>3. d \notin Set(c) /\ Set(c) \subseteq Descs
      BY <2>1, <1>1 DEF Mine
    <2>4. \A x \in Set(c) : m.hashnext[x] = n.hashnext[x]
      BY <2>3, <1>2
    <2>5. IsPath(m.hashnext, n.hash[q], c)
      BY <2>1, <2>2, <2>4, PathFrame
    <2>6. CASE q # p
      <3>1. m.hash[q] = n.hash[q]
        BY <2>2, <2>6, <1>2
      <3>2. Chain(m, q) = c
        BY <3>1, <2>2, <2>5, <1>2, ChainIs
      <3> QED BY <3>1, <3>2, <2>1, <2>5, <2>6, <1>6
    <2>7. CASE q = p
      <3>1. m.hash[q] = d /\ m.hashnext[d] = n.hash[q]
        BY <2>2, <2>7, <1>2
      <3>2. d \in DOMAIN m.hashnext
        BY <2>2
      <3>3. IsPath(m.hashnext, d, <<d>> \o c) /\ Set(<<d>> \o c) = {d} \cup Set(c)
        BY <3>1, <3>2, <2>3, <2>5, PathPush
      <3>4. IsPath(m.hashnext, m.hash[q], <<d>> \o c)
        BY <3>1, <3>3
      <3>5. Chain(m, q) = <<d>> \o c
        BY <3>4, <2>2, <1>2, ChainIs
      <3>6. Set(Chain(m, q)) = Mine(m, q)
        BY <3>3, <3>5, <2>1, <2>7, <1>6
      <3> QED BY <3>4, <3>5, <3>6
    <2> QED BY <2>6, <2>7
  <1>8. ChainsOK(m)
    BY <1>7 DEF ChainsOK
  <1>9. LoginsOK(m)
    BY <1>1, <1>2 DEF Sound, LoginsOK
  <1>10. OnlineOK(m)
    <2>1. \A q \in Players : q \in n.online <=> \E e \in n.conn : n.player[e] = q
      BY DEF Sound, OnlineOK
    <2>2. \A e \in n.conn : m.player[e] = n.player[e]
      BY <1>1, <1>2
    <2>3. m.player[d] = p
      BY <1>2
    <2>4. \A q \in Players : q \in m.online <=> \E e \in m.conn : m.player[e] = q
      BY <2>1, <2>2, <2>3, <1>1, <1>2
    <2> QED BY <2>4, <1>2 DEF Sound, OnlineOK
  <1> QED BY <1>2, <1>3, <1>4, <1>5, <1>8, <1>9, <1>10 DEF Sound

(* One descriptor read back after another. *)
LEMMA ReloadSteps ==
    ASSUME NEW ds \in Seq(Descs)
    PROVE  \E h : /\ h[0] = NoNet /\ ReloadAll(ds) = h[Len(ds)]
                  /\ \A i \in 1..Len(ds) : h[i] = Reload(h[i - 1], ds[i])
PROOF
  <1> DEFINE R(f, i) == IF i = 0 THEN NoNet ELSE Reload(f[i - 1], ds[i])
             P(f, k) == f = [i \in 0..k |-> R(f, i)]
             T == {k \in Nat : \E f : P(f, k)}
             h == CHOOSE f : P(f, Len(ds))
  <1>1. Len(ds) \in Nat
    OBVIOUS
  <1>2. 0 \in T
    <2> DEFINE f == [i \in 0..0 |-> NoNet]
    <2>1. P(f, 0)
      <3>1. \A i \in 0..0 : R(f, i) = NoNet
        OBVIOUS
      <3> HIDE DEF R
      <3> QED BY <3>1
    <2> HIDE DEF P, f
    <2> QED BY <2>1
  <1>3. ASSUME NEW k \in 1..Len(ds), k - 1 \in T PROVE k \in T
    <2>1. PICK f : P(f, k - 1)
      BY <1>3
    <2> DEFINE g == [i \in 0..k |-> IF i < k THEN f[i] ELSE Reload(f[k - 1], ds[k])]
    <2>2. k \in Nat /\ k - 1 \in Nat /\ k - 1 < k /\ k # 0 /\ k - 1 \in 0..k
      BY <1>1
    <2>3. \A i \in 0..(k - 1) : f[i] = R(f, i) /\ g[i] = f[i]
      <3>1. \A i \in 0..(k - 1) : f[i] = R(f, i)
        BY <2>1
      <3>2. \A i \in 0..(k - 1) : i \in 0..k /\ i < k
        BY <2>2
      <3> QED BY <3>1, <3>2
    <2>4. g[k] = Reload(f[k - 1], ds[k])
      BY <2>2
    <2>5. ASSUME NEW i \in 0..k PROVE g[i] = R(g, i)
      <3>1. CASE i = 0
        <4>1. 0 \in 0..(k - 1)
          BY <2>2
        <4> QED BY <3>1, <4>1, <2>3
      <3>2. CASE i # 0 /\ i < k
        <4>1. i \in 0..(k - 1) /\ i - 1 \in 0..(k - 1)
          BY <3>2, <2>2
        <4> HIDE DEF g
        <4> QED BY <3>2, <4>1, <2>3
      <3>3. CASE i = k
        <4>1. k - 1 \in 0..(k - 1)
          BY <2>2
        <4> HIDE DEF g
        <4> QED BY <3>3, <4>1, <2>2, <2>3, <2>4
      <3> QED BY <3>1, <3>2, <3>3, <2>2
    <2>6. g = [i \in 0..k |-> g[i]]
      OBVIOUS
    <2>7. P(g, k)
      <3> HIDE DEF g, R
      <3> QED BY <2>5, <2>6
    <2> HIDE DEF g, P
    <2> QED BY <2>2, <2>7
  <1>4. Len(ds) \in T
    <2>1. 0..Len(ds) \subseteq T
      <3> HIDE DEF T
      <3> QED BY ONLY <1>1, <1>2, <1>3, Induct
    <2> QED BY <2>1, <1>1
  <1>5. P(h, Len(ds))
    <2>1. \E f : P(f, Len(ds))
      BY <1>4
    <2> HIDE DEF P
    <2> QED BY <2>1
  <1>6. ReloadAll(ds) = h[Len(ds)]
    BY DEF ReloadAll
  <1> HIDE DEF h
  <1>7. \A i \in 0..Len(ds) : h[i] = R(h, i)
    BY <1>5
  <1>8. h[0] = NoNet
    BY <1>1, <1>7
  <1>9. \A i \in 1..Len(ds) : h[i] = Reload(h[i - 1], ds[i])
    <2>1. \A i \in 1..Len(ds) : i \in 0..Len(ds) /\ i # 0
      BY <1>1
    <2> QED BY <2>1, <1>7
  <1> QED BY <1>6, <1>8, <1>9

LEMMA RestartSound ==
    ASSUME Sound(net), do_restart
    PROVE  Sound(net')
PROOF
  <1> DEFINE ds == List(net)
             k == ReloadAll(ds)
  <1>1. net \in Nets /\ ~net.untold /\ net.made \subseteq Players
    BY DEF Sound, OnlineOK, Nets
  <1>2. /\ ds \in Seq(Descs) /\ Len(ds) \in Nat /\ DOMAIN ds = 1..Len(ds)
        /\ \A i, j \in DOMAIN ds : ds[i] = ds[j] => i = j
    <2>1. IsPath(net.next, net.head, ds) /\ DOMAIN net.next = Descs
      BY <1>1 DEF Sound, ListOK, Nets
    <2> HIDE DEF ds
    <2> QED BY <2>1 DEF IsPath
  <1> HIDE DEF ds
  <1>3. PICK h : /\ h[0] = NoNet /\ ReloadAll(ds) = h[Len(ds)]
                 /\ \A i \in 1..Len(ds) : h[i] = Reload(h[i - 1], ds[i])
    BY <1>2, ReloadSteps
  <1> DEFINE T == {i \in 0..Len(ds) : /\ Sound(h[i]) /\ Quiet(h[i])
                                      /\ \A j \in DOMAIN ds : j > i => ds[j] \notin h[i].live}
  <1>4. 0 \in T
    BY <1>2, <1>3, NoNetSound
  <1>5. ASSUME NEW i \in 1..Len(ds), i - 1 \in T PROVE i \in T
    <2> DEFINE a == h[i - 1]
               b == h[i]
               d == ds[i]
    <2>1. /\ Sound(a) /\ Quiet(a) /\ i \in Nat /\ i - 1 \in Nat
          /\ \A j \in DOMAIN ds : j > i - 1 => ds[j] \notin a.live
      BY <1>2, <1>5
    <2>2. b = Reload(a, d)
      BY <1>3
    <2>3. d \in Descs \ a.live
      BY <2>1, <1>2
    <2> HIDE DEF a, b, d
    <2>4. Reloaded(a, b, d)
      BY <2>1, <2>2, <2>3, ReloadFields
    <2>5. Sound(b) /\ Quiet(b) /\ b.live = a.live \cup {d}
      BY <2>1, <2>3, <2>4, ReloadedSound
    <2>6. ASSUME NEW j \in DOMAIN ds, j > i PROVE ds[j] \notin b.live
      <3>1. j > i - 1 /\ j # i /\ i \in DOMAIN ds
        BY <2>1, <2>6, <1>2
      <3>2. ds[j] # d
        BY <3>1, <1>2 DEF d
      <3> QED BY <3>1, <3>2, <2>1, <2>5
    <2>7. i \in 0..Len(ds)
      BY <1>2
    <2> QED BY <2>5, <2>6, <2>7 DEF b
  <1>6. Len(ds) \in T
    <2>1. 0..Len(ds) \subseteq T
      <3> HIDE DEF T
      <3> QED BY ONLY <1>2, <1>4, <1>5, Induct
    <2> QED BY <2>1, <1>2
  <1>7. Sound(k) /\ Quiet(k)
    BY <1>3, <1>6
  <1>8. net' = [k EXCEPT !.made = net.made, !.untold = net.untold]
    BY DEF do_restart, ds
  <1> HIDE DEF k
  <1>9. k \in Nets /\ ~k.untold /\ k.untold = net.untold
    BY <1>1, <1>7 DEF Sound, OnlineOK, Nets
  <1>10. Frame(k, net') /\ net'.prog = k.prog /\ net'.heap = k.heap /\ net'.fault = k.fault
    BY <1>1, <1>8, <1>9 DEF Nets, Frame
  <1> QED BY <1>7, <1>10, FrameSame
-----------------------------------------------------------------------------
(* The loop in progress: the links from where it will go next lead to the   *)
(* descriptors that are still to be visited, and perhaps to closed ones.    *)
Walks == [kind : Kinds \cup {"none"}, d : Ptr, dnext : Ptr, todo : SUBSET Descs,
          nprocessed : BOOLEAN]

Ahead(n, w) == IF w.kind = "broken" THEN n.next[w.d] ELSE w.dnext

WalkOK(n, w) ==
    /\ w \in Walks
    /\ w.kind = "none" => w = NoWalk
    /\ w.d = NULL => w.todo \cap n.live = {}
    /\ w.d # NULL => \E t \in Seq(Descs) :
          /\ IsPath(n.next, Ahead(n, w), t) /\ w.d \notin Set(t)
          /\ w.todo \cap n.live = ({w.d} \cup Set(t)) \cap n.live
          /\ w.kind # "commands" => {w.d} \cup Set(t) \subseteq n.live

LEMMA NoWalkOK ==
    ASSUME NEW n
    PROVE  WalkOK(n, NoWalk)
PROOF
  <1>1. NoWalk \in Walks /\ NoWalk.d = NULL /\ NoWalk.todo = {}
    BY Constants DEF NoWalk, Walks
  <1> QED BY <1>1 DEF WalkOK

(* A loop that begins. *)
LEMMA StartOK ==
    ASSUME NEW n, Sound(n), NEW w, w.kind \in Kinds, w.d = n.head,
           w.dnext = NextOf(n, n.head), w.todo = n.live, w \in Walks
    PROVE  WalkOK(n, w)
PROOF
  <1> DEFINE l == List(n)
  <1>1. IsPath(n.next, n.head, l) /\ Set(l) = n.live
    BY DEF Sound, ListOK
  <1>2. DOMAIN n.next = Descs /\ n.head \in Ptr /\ NULL \notin Descs
    BY Constants DEF Sound, Nets
  <1> HIDE DEF l
  <1>3. w.kind # "none"
    BY DEF Kinds
  <1>4. l \in Seq(Descs) /\ (l = <<>> <=> n.head = NULL)
    BY <1>1, <1>2 DEF IsPath, Ptr
  <1>5. CASE n.head = NULL
    <2>1. Set(l) = {}
      BY <1>4, <1>5 DEF Set
    <2> QED BY <1>1, <1>3, <1>5, <2>1 DEF WalkOK
  <1>6. CASE n.head # NULL
    <2> DEFINE t == Tail(l)
    <2>1. l # <<>>
      BY <1>4, <1>6
    <2>2. /\ IsPath(n.next, n.next[n.head], t) /\ n.head \notin Set(t)
          /\ Set(l) = {n.head} \cup Set(t)
      BY <1>1, <2>1, PathTail
    <2>3. t \in Seq(Descs)
      BY <1>4, <2>1
    <2>4. Ahead(n, w) = n.next[n.head]
      BY <1>6 DEF Ahead, NextOf
    <2> HIDE DEF t
    <2> QED BY <1>1, <1>3, <1>6, <2>2, <2>3, <2>4 DEF WalkOK
  <1> QED BY <1>5, <1>6

(* A loop that goes on to the next descriptor. *)
LEMMA AdvanceOK ==
    ASSUME NEW n, n \in Nets, NEW m, m \in Nets, NEW w, WalkOK(n, w), w.d # NULL, Keeps(n, m),
           w.kind # "commands" => n.live \ {w.d} \subseteq m.live,
           w.kind = "broken" => m.next[w.d] = n.next[w.d],
           NEW v, v \in Walks, v.kind = w.kind, v.todo = w.todo \ {w.d},
           v.d = Ahead(m, w), v.kind # "broken" => v.dnext = NextOf(m, w.dnext)
    PROVE  WalkOK(m, v)
PROOF
  <1> DEFINE f == Ahead(n, w)
  <1>1. w \in Walks /\ w.kind # "none" /\ w.d \in Descs /\ NULL \notin Descs
    BY Constants DEF WalkOK, Walks, NoWalk, Ptr
  <1>2. f \in Ptr
    BY <1>1 DEF Ahead, Walks, Nets
  <1>3. PICK t \in Seq(Descs) :
          /\ IsPath(n.next, f, t) /\ w.d \notin Set(t)
          /\ w.todo \cap n.live = ({w.d} \cup Set(t)) \cap n.live
          /\ w.kind # "commands" => {w.d} \cup Set(t) \subseteq n.live
    BY DEF WalkOK
  <1>4. PICK u \in Seq(Descs) : /\ IsPath(m.next, f, u) /\ Set(u) \subseteq Set(t)
                                /\ Set(t) \cap m.live \subseteq Set(u)
    BY <1>2, <1>3 DEF Keeps
  <1>5. m.live \subseteq n.live /\ DOMAIN m.next = Descs
    BY DEF Keeps, Nets
  <1>6. v.todo \cap m.live = Set(u) \cap m.live
    BY <1>3, <1>4, <1>5
  <1>7. v.d = f /\ v.kind # "none"
    BY <1>1 DEF Ahead
  <1> HIDE DEF f
  <1>8. w.kind # "commands" => Set(u) \subseteq m.live
    BY <1>3, <1>4
  <1>9. CASE f = NULL
    <2>1. u = <<>>
      BY <1>1, <1>4, <1>5, <1>9 DEF IsPath
    <2>2. Set(u) = {}
      BY <2>1 DEF Set
    <2> QED BY <1>6, <1>7, <1>9, <2>2 DEF WalkOK
  <1>10. CASE f # NULL
    <2> DEFINE r == Tail(u)
    <2>1. f \in Descs
      BY <1>2, <1>10 DEF Ptr
    <2>2. u # <<>>
      BY <2>1, <1>4, <1>5 DEF IsPath
    <2>3. IsPath(m.next, m.next[f], r) /\ f \notin Set(r) /\ Set(u) = {f} \cup Set(r)
      BY <1>4, <2>2, PathTail
    <2>4. r \in Seq(Descs)
      BY <2>2
    <2> HIDE DEF r
    <2>5. Ahead(m, v) = m.next[f]
      <3>1. CASE w.kind = "broken"
        BY <3>1, <1>7 DEF Ahead
      <3>2. CASE w.kind # "broken"
        <4>1. f = w.dnext
          BY <3>2 DEF Ahead, f
        <4> QED BY <4>1, <3>2, <1>7, <1>10 DEF Ahead, NextOf
      <3> QED BY <3>1, <3>2
    <2> QED BY <1>6, <1>7, <1>8, <1>10, <2>3, <2>4, <2>5 DEF WalkOK
  <1> QED BY <1>9, <1>10

(* What Visited makes of the loop. *)
LEMMA VisitedOK ==
    ASSUME Sound(net), WalkOK(net, walk), walk.d # NULL, NEW m, Sound(m), Keeps(net, m),
           walk.kind # "commands" => net.live \ {walk.d} \subseteq m.live,
           walk.kind = "broken" => m.next[walk.d] = net.next[walk.d],
           NEW b \in BOOLEAN
    PROVE  WalkOK(m, [Visited(m) EXCEPT !.nprocessed = b])
PROOF
  <1> DEFINE v == [Visited(m) EXCEPT !.nprocessed = b]
  <1>1. walk \in Walks /\ walk.kind # "none" /\ walk.d \in Descs /\ net \in Nets /\ m \in Nets
    BY DEF WalkOK, Walks, NoWalk, Ptr, Sound
  <1>2. Ahead(m, walk) \in Ptr /\ NextOf(m, walk.dnext) \in Ptr
    <2>1. walk.dnext \in Ptr
      BY <1>1 DEF Walks
    <2> QED BY <1>1, <2>1, Constants DEF Ahead, NextOf, Nets
  <1>3. walk.todo \ {walk.d} \in SUBSET Descs
    BY <1>1 DEF Walks
  <1>4. /\ v \in Walks /\ v.kind = walk.kind /\ v.todo = walk.todo \ {walk.d}
        /\ v.d = Ahead(m, walk) /\ (v.kind # "broken" => v.dnext = NextOf(m, walk.dnext))
    <2>1. CASE walk.kind = "broken"
      <3>1. v = [walk EXCEPT !.d = Ahead(m, walk), !.todo = walk.todo \ {walk.d},
                             !.nprocessed = b]
        BY <2>1, <1>1 DEF Visited, Advance, Ahead, NextOf, Walks
      <3> HIDE DEF v
      <3> QED BY <2>1, <3>1, <1>1, <1>2, <1>3 DEF Walks
    <2>2. CASE walk.kind # "broken"
      <3>1. v = [walk EXCEPT !.d = Ahead(m, walk), !.dnext = NextOf(m, walk.dnext),
                             !.todo = walk.todo \ {walk.d}, !.nprocessed = b]
        BY <2>2, <1>1 DEF Visited, Advance, Ahead, Walks
      <3> HIDE DEF v
      <3> QED BY <2>2, <3>1, <1>1, <1>2, <1>3 DEF Walks
    <2> QED BY <2>1, <2>2
  <1> HIDE DEF v
  <1>5. WalkOK(m, v)
    BY <1>1, <1>4, AdvanceOK
  <1> QED BY <1>5 DEF v

(* The loops that keep nprocessed. *)
LEMMA VisitedSame ==
    ASSUME Sound(net), WalkOK(net, walk), walk.d # NULL, NEW m, Sound(m), Keeps(net, m),
           walk.kind # "commands" => net.live \ {walk.d} \subseteq m.live,
           walk.kind = "broken" => m.next[walk.d] = net.next[walk.d]
    PROVE  WalkOK(m, Visited(m))
PROOF
  <1> DEFINE v == Visited(m)
  <1>1. walk \in Walks
    BY DEF WalkOK
  <1>2. walk.nprocessed \in BOOLEAN
    BY <1>1 DEF Walks
  <1>3. v = [v EXCEPT !.nprocessed = walk.nprocessed]
    BY <1>1 DEF Visited, Advance, Walks
  <1>4. WalkOK(m, [Visited(m) EXCEPT !.nprocessed = walk.nprocessed])
    BY <1>2, VisitedOK
  <1> HIDE DEF v
  <1> QED BY <1>3, <1>4 DEF v
-----------------------------------------------------------------------------
(* The inductive invariant. *)
IInv == Sound(net) /\ WalkOK(net, walk)

LEMMA InitOK ==
    ASSUME Init
    PROVE  IInv
PROOF
  BY NoNetSound, NoWalkOK DEF Init, IInv

LEMMA CommandsOK ==
    ASSUME IInv, process_commands
    PROVE  IInv'
PROOF
  <1> DEFINE ready == Ready(net, walk.d)
             b == walk.nprocessed \/ ready
  <1>1. Sound(net) /\ WalkOK(net, walk) /\ walk.kind = "commands" /\ walk.d # NULL
    BY DEF IInv, process_commands, On
  <1>2. walk.d \in Descs /\ walk \in Walks
    BY <1>1 DEF WalkOK, Walks, Ptr
  <1>3. Fine(net, net')
    <2>1. CASE ready
      <3>1. net' \in OneLine(net, walk.d)
        BY <2>1 DEF process_commands
      <3> QED BY <1>1, <1>2, <2>1, <3>1, LineSound
    <2>2. CASE ~ready
      <3>1. net' = net
        BY <2>2 DEF process_commands
      <3> QED BY <1>1, <3>1, KeepsSame DEF Fine
    <2> QED BY <2>1, <2>2
  <1>4. Sound(net') /\ Keeps(net, net')
    BY <1>3 DEF Fine
  <1>5. walk' = [Visited(net') EXCEPT !.nprocessed = b]
    <2>1. Visited(net').nprocessed = walk.nprocessed
      BY <1>1, <1>2 DEF Visited, Advance, Walks
    <2>2. walk' = [Visited(net') EXCEPT !.nprocessed = Visited(net').nprocessed \/ ready]
      BY DEF process_commands
    <2> QED BY <2>1, <2>2
  <1>6. b \in BOOLEAN
    OBVIOUS
  <1> HIDE DEF b
  <1>7. WalkOK(net', [Visited(net') EXCEPT !.nprocessed = b])
    <2>1. /\ walk.kind # "commands" => net.live \ {walk.d} \subseteq net'.live
          /\ walk.kind = "broken" => net'.next[walk.d] = net.next[walk.d]
      BY <1>1
    <2> QED BY <1>1, <1>4, <1>6, <2>1, VisitedOK
  <1> QED BY <1>4, <1>5, <1>7 DEF IInv

(* The descriptor that one of the other loops stands on is open. *)
LEMMA OpenHere ==
    ASSUME IInv, NEW kind \in {"sockets", "idle", "broken"}, On(kind)
    PROVE  /\ Sound(net) /\ WalkOK(net, walk) /\ walk.kind = kind /\ walk.d # NULL
           /\ walk.d \in net.live /\ walk.d \in Descs
PROOF
  <1>1. Sound(net) /\ WalkOK(net, walk) /\ walk.kind = kind /\ walk.d # NULL
    BY DEF IInv, On
  <1>2. walk.d \in net.live
    BY <1>1 DEF WalkOK
  <1>3. net.live \subseteq Descs
    BY <1>1 DEF Sound, Nets
  <1> QED BY <1>1, <1>2, <1>3

LEMMA BodyOK ==
    ASSUME IInv, NEW kind \in {"sockets", "idle", "broken"}, On(kind),
           Sound(net'), Keeps(net, net'), net.live \ {walk.d} \subseteq net'.live,
           net'.next[walk.d] = net.next[walk.d], walk' = Visited(net')
    PROVE  IInv'
PROOF
  <1>1. Sound(net) /\ WalkOK(net, walk) /\ walk.kind = kind /\ walk.d # NULL
    BY OpenHere
  <1>2. WalkOK(net', Visited(net'))
    BY <1>1, VisitedSame
  <1> QED BY <1>2 DEF IInv

(* Closing the descriptor the loop stands on. *)
LEMMA CloseHere ==
    ASSUME IInv, NEW kind \in {"sockets", "idle", "broken"}, On(kind),
           NEW reason \in {R_SOCKDIED, R_TIMEOUT},
           net' = shutdownsock(net, walk.d, reason), walk' = Visited(net')
    PROVE  IInv'
PROOF
  <1>1. Sound(net) /\ walk.d \in net.live
    BY OpenHere
  <1>2. reason \in disc_messages /\ reason # R_LOGOUT
    BY DEF R_SOCKDIED, R_TIMEOUT, R_LOGOUT, disc_messages
  <1> DEFINE d == walk.d
             m == shutdownsock(net, d, reason)
  <1> HIDE DEF d
  <1>3. d \in net.live
    BY <1>1 DEF d
  <1>4. Sound(m) /\ Keeps(net, m) /\ m.live = net.live \ {d} /\ m.next[d] = net.next[d]
    BY <1>1, <1>2, <1>3, ShutSound
  <1>5. net' = m
    BY DEF d
  <1> HIDE DEF m
  <1>6. /\ Sound(net') /\ Keeps(net, net') /\ net.live \ {d} \subseteq net'.live
        /\ net'.next[d] = net.next[d]
    BY <1>4, <1>5
  <1> QED BY <1>6, BodyOK DEF d

LEMMA SameHere ==
    ASSUME IInv, NEW kind \in {"sockets", "idle", "broken"}, On(kind),
           UNCHANGED net, walk' = Visited(net')
    PROVE  IInv'
PROOF
  <1>1. Sound(net)
    BY OpenHere
  <1>2. Sound(net') /\ Keeps(net, net')
    BY <1>1, KeepsSame
  <1>3. net.live \ {walk.d} \subseteq net'.live /\ net'.next[walk.d] = net.next[walk.d]
    OBVIOUS
  <1> QED BY <1>2, <1>3, BodyOK

LEMMA ShoveOK ==
    ASSUME IInv, shovechars
    PROVE  IInv'
PROOF
  <1>1. On("sockets") /\ walk' = Visited(net')
    BY DEF shovechars
  <1>2. CASE UNCHANGED net
    BY <1>1, <1>2, SameHere
  <1>3. CASE net' = shutdownsock(net, walk.d, R_SOCKDIED)
    BY <1>1, <1>3, CloseHere
  <1>4. ASSUME NEW k \in 1..MaxInput, net' = [net EXCEPT !.input[walk.d] = k]
        PROVE  IInv'
    <2> DEFINE d == walk.d
               m == [net EXCEPT !.input[d] = k]
    <2>1. Sound(net) /\ d \in net.live /\ d \in Descs
      BY <1>1, OpenHere
    <2> HIDE DEF d
    <2>2. k \in 0..MaxInput
      BY BoundsAssumption
    <2>3. [net.input EXCEPT ![d] = k] \in [Descs -> 0..MaxInput]
      BY <2>1, <2>2 DEF Sound, Nets
    <2>4. /\ m \in Nets /\ m.head = net.head /\ m.next = net.next /\ m.prev = net.prev
          /\ m.live = net.live /\ m.hash = net.hash /\ m.hashnext = net.hashnext
          /\ m.player = net.player /\ m.conn = net.conn /\ m.online = net.online
          /\ m.untold = net.untold /\ m.input = [net.input EXCEPT ![d] = k]
          /\ m.prog = net.prog /\ m.heap = net.heap /\ m.fault = net.fault
      BY <2>1, <2>3 DEF Sound, Nets
    <2>5. \A e \in Descs \ net.live : m.input[e] = net.input[e]
      BY <2>1, <2>4 DEF Sound, Nets
    <2>6. Frame(net, m)
      BY <2>4, <2>5 DEF Frame
    <2>7. net' = m
      BY <1>4 DEF d
    <2> HIDE DEF m
    <2>8. Sound(m) /\ Keeps(net, m)
      BY <2>1, <2>4, <2>6, FrameSame
    <2>9. /\ Sound(net') /\ Keeps(net, net') /\ net.live \ {d} \subseteq net'.live
          /\ net'.next[d] = net.next[d]
      BY <2>4, <2>7, <2>8
    <2> QED BY <1>1, <2>9, BodyOK DEF d
  <1> QED BY <1>2, <1>3, <1>4 DEF shovechars

LEMMA IdleOK ==
    ASSUME IInv, check_idle
    PROVE  IInv'
PROOF
  <1>1. On("idle") /\ walk' = Visited(net')
    BY DEF check_idle
  <1>2. CASE UNCHANGED net
    BY <1>1, <1>2, SameHere
  <1>3. CASE net' = shutdownsock(net, walk.d, R_TIMEOUT)
    BY <1>1, <1>3, CloseHere
  <1> QED BY <1>2, <1>3 DEF check_idle

LEMMA BrokenOK ==
    ASSUME IInv, eradicate_broken_fd
    PROVE  IInv'
PROOF
  <1>1. On("broken") /\ walk' = Visited(net')
    BY DEF eradicate_broken_fd
  <1>2. CASE UNCHANGED net
    BY <1>1, <1>2, SameHere
  <1>3. CASE net' = shutdownsock(net, walk.d, R_SOCKDIED)
    BY <1>1, <1>3, CloseHere
  <1> QED BY <1>2, <1>3 DEF eradicate_broken_fd

(* The start of a loop, on links that agree with those of net. *)
LEMMA StartOfOK ==
    ASSUME Sound(net), NEW m, Sound(m), m.head = net.head, m.live = net.live,
           NextOf(m, net.head) = NextOf(net, net.head), NEW kind \in Kinds
    PROVE  WalkOK(m, StartOf(kind))
PROOF
  <1> DEFINE w == StartOf(kind)
  <1>1. net.head \in Ptr /\ net.live \in SUBSET Descs /\ NextOf(net, net.head) \in Ptr
    BY Constants DEF Sound, Nets, NextOf
  <1>2. /\ w \in Walks /\ w.kind \in Kinds /\ w.d = m.head /\ w.todo = m.live
        /\ w.dnext = NextOf(m, m.head)
    BY <1>1 DEF StartOf, Walks
  <1> HIDE DEF w
  <1> QED BY <1>2, StartOK DEF w

LEMMA EndOK ==
    ASSUME IInv, EndWalk
    PROVE  IInv'
PROOF
  <1>1. Sound(net) /\ net' = Settled(net)
    BY DEF IInv, EndWalk
  <1>2. Sound(net') /\ net'.live = net.live /\ net'.head = net.head
    BY <1>1, SettledSound
  <1>3. NextOf(net', net.head) = NextOf(net, net.head)
    <2>1. CASE net.head = NULL
      BY <2>1 DEF NextOf
    <2>2. CASE net.head # NULL
      <3> DEFINE l == List(net)
      <3>1. IsPath(net.next, net.head, l) /\ Set(l) = net.live /\ net \in Nets
        BY <1>1 DEF Sound, ListOK
      <3>2. net.head \in Descs /\ DOMAIN net.next = Descs
        BY <2>2, <3>1 DEF Nets, Ptr
      <3> HIDE DEF l
      <3>3. l # <<>> /\ l \in Seq(Descs)
        BY <3>1, <3>2 DEF IsPath
      <3>4. net.head = l[1] /\ 1 \in DOMAIN l
        BY <3>1, <3>3 DEF IsPath
      <3>5. net.head \in net.live
        BY <3>1, <3>4 DEF Set
      <3>6. net'.next = [d \in Descs |-> IF d \in net.live THEN net.next[d] ELSE NULL]
        BY <1>1, <3>1 DEF Settled, Nets
      <3>7. net'.next[net.head] = net.next[net.head]
        BY <3>2, <3>5, <3>6
      <3> QED BY <2>2, <3>7 DEF NextOf
    <2> QED BY <2>1, <2>2
  <1>4. CASE walk.kind = "commands" /\ walk.nprocessed
    <2>1. walk' = StartOf("commands") /\ "commands" \in Kinds
      BY <1>4 DEF EndWalk, Kinds
    <2>2. WalkOK(net', StartOf("commands"))
      BY <1>1, <1>2, <1>3, <2>1, StartOfOK
    <2> QED BY <1>2, <2>1, <2>2 DEF IInv
  <1>5. CASE ~(walk.kind = "commands" /\ walk.nprocessed)
    <2>1. walk' = NoWalk
      BY <1>5 DEF EndWalk
    <2> QED BY <1>2, <2>1, NoWalkOK DEF IInv
  <1> QED BY <1>4, <1>5

LEMMA StartWalkOK ==
    ASSUME IInv, NEW kind \in Kinds, StartWalk(kind)
    PROVE  IInv'
PROOF
  <1>1. Sound(net) /\ net' = net /\ walk' = StartOf(kind)
    BY DEF IInv, StartWalk
  <1>2. WalkOK(net, StartOf(kind))
    BY <1>1, StartOfOK
  <1> QED BY <1>1, <1>2 DEF IInv

(* Steps between loops. *)
LEMMA BetweenOK ==
    ASSUME IInv, Idle, UNCHANGED walk, Sound(net')
    PROVE  IInv'
PROOF
  <1>1. walk' = NoWalk
    BY DEF IInv, Idle, WalkOK
  <1> QED BY <1>1, NoWalkOK DEF IInv

LEMMA NewConnectionOK ==
    ASSUME IInv, new_connection
    PROVE  IInv'
PROOF
  <1>1. PICK d \in Descs \ net.live : net' = initializesock(net, d)
    BY DEF new_connection
  <1>2. Sound(net')
    BY <1>1, NewSound DEF IInv
  <1> QED BY <1>2, BetweenOK DEF new_connection

LEMMA TopOK ==
    ASSUME IInv, do_top
    PROVE  IInv'
PROOF
  <1>1. PICK p \in Players : \E n \in process_command(net, p) : net' = Settled(n)
    BY DEF do_top
  <1>2. PICK n \in process_command(net, p) : net' = Settled(n)
    BY <1>1
  <1>3. Fine(net, n)
    BY <1>2, CommandSound DEF IInv
  <1>4. Sound(net')
    BY <1>2, <1>3, SettledSound DEF Fine
  <1> QED BY <1>4, BetweenOK DEF do_top

LEMMA NewSecondOK ==
    ASSUME IInv, NewSecond
    PROVE  IInv'
PROOF
  <1> DEFINE q == [d \in Descs |-> IF d \in net.live THEN cmd_quota_max ELSE net.quota[d]]
  <1>1. Sound(net) /\ net \in Nets /\ net' = [net EXCEPT !.recent = {}, !.quota = q]
    BY DEF IInv, NewSecond, Sound
  <1>2. q \in [Descs -> 0..cmd_quota_max]
    <2>1. cmd_quota_max \in 0..cmd_quota_max
      BY BoundsAssumption
    <2> QED BY <1>1, <2>1 DEF Nets
  <1> HIDE DEF q
  <1>3. Frame(net, net') /\ net'.prog = net.prog /\ net'.heap = net.heap /\ net'.fault = net.fault
    BY <1>1, <1>2 DEF Nets, Frame
  <1>4. Sound(net')
    BY <1>1, <1>3, FrameSame
  <1> QED BY <1>4, BetweenOK DEF NewSecond

LEMMA RestartOK ==
    ASSUME IInv, do_restart
    PROVE  IInv'
PROOF
  <1>1. Sound(net')
    BY RestartSound DEF IInv
  <1>2. walk' = NoWalk
    BY DEF do_restart
  <1> QED BY <1>1, <1>2, NoWalkOK DEF IInv

LEMMA NextOK ==
    ASSUME IInv, [Next]_vars
    PROVE  IInv'
PROOF
  <1>1. CASE Next
    BY <1>1, CommandsOK, ShoveOK, IdleOK, BrokenOK, EndOK, StartWalkOK, NewConnectionOK,
       TopOK, NewSecondOK, RestartOK DEF Next
  <1>2. CASE UNCHANGED vars
    BY <1>2 DEF vars, IInv
  <1> QED BY <1>1, <1>2

LEMMA Inductive == Spec => []IInv
PROOF
  <1>1. Init => IInv
    BY InitOK
  <1>2. IInv /\ [Next]_vars => IInv'
    BY NextOK
  <1> QED BY <1>1, <1>2, PTL DEF Spec
-----------------------------------------------------------------------------
(* The theorems *)

LEMMA IInvType ==
    ASSUME IInv
    PROVE  TypeOK
PROOF
  <1>1. net \in Nets /\ walk \in Walks
    BY DEF IInv, Sound, WalkOK
  <1>2. walk.kind \in Kinds \cup {"none"}
    BY <1>1 DEF Walks
  <1> QED BY <1>1, <1>2 DEF Nets, Persons, TypeOK

LEMMA IInvConnected ==
    ASSUME IInv
    PROVE  Connected = net.conn /\ net.conn \subseteq Descs
PROOF
  BY DEF IInv, Sound, LoginsOK, Nets, Connected

LEMMA IInvLists ==
    ASSUME IInv
    PROVE  ListsExact
PROOF
  <1> DEFINE l == List(net)
  <1>1. Sound(net) /\ net \in Nets /\ ListOK(net) /\ ChainsOK(net)
    BY DEF IInv, Sound
  <1>2. /\ Set(l) = net.live /\ Len(l) = Cardinality(net.live)
        /\ \A i \in DOMAIN l : net.prev[l[i]] = IF i = 1 THEN HEAD ELSE l[i - 1]
    <2>1. IsPath(net.next, net.head, l) /\ IsBack(net.prev, HEAD, l) /\ Set(l) = net.live
      BY <1>1 DEF ListOK
    <2>2. DOMAIN net.next = Descs
      BY <1>1 DEF Nets
    <2> HIDE DEF l
    <2>3. l \in Seq(Descs) /\ \A i, j \in DOMAIN l : l[i] = l[j] => i = j
      BY <2>1, <2>2 DEF IsPath
    <2>4. Cardinality(Set(l)) = Len(l)
      BY ONLY <2>3, Lengths
    <2> QED BY <2>1, <2>4 DEF IsBack
  <1>3. ASSUME NEW p \in Players
        PROVE  /\ Set(Chain(net, p)) = {d \in Connected : net.player[d] = p}
               /\ Len(Chain(net, p)) = Cardinality(Set(Chain(net, p)))
    <2> DEFINE c == Chain(net, p)
    <2>1. /\ c \in Seq(Descs) /\ Set(c) = Mine(net, p)
          /\ \A i, j \in DOMAIN c : c[i] = c[j] => i = j
      BY <1>1, ChainFacts
    <2> HIDE DEF c
    <2>2. Cardinality(Set(c)) = Len(c)
      BY ONLY <2>1, Lengths
    <2>3. Mine(net, p) = {d \in Connected : net.player[d] = p}
      BY IInvConnected DEF Mine
    <2> QED BY <2>1, <2>2, <2>3 DEF c
  <1> QED BY <1>2, <1>3, IInvType DEF ListsExact

LEMMA IInvOnline ==
    ASSUME IInv
    PROVE  OnlineExact
PROOF
  <1>1. /\ \A p \in Players : p \in net.online <=> \E d \in net.conn : net.player[d] = p
        /\ ~net.untold /\ net.online \subseteq Players
        /\ \A d \in net.conn : net.player[d] \in Players
    BY IInvConnected DEF IInv, Sound, OnlineOK, LoginsOK, Nets
  <1> QED BY <1>1, IInvConnected DEF OnlineExact

LEMMA IInvWalk ==
    ASSUME IInv
    PROVE  WalkExact
PROOF
  <1> DEFINE ahead == IF walk.d = NULL THEN {}
                 ELSE IF walk.kind = "broken" THEN Set(Path(net.next, walk.d))
                 ELSE {walk.d} \cup Set(Path(net.next, walk.dnext))
  <1>1. /\ Sound(net) /\ net \in Nets /\ WalkOK(net, walk) /\ walk \in Walks
        /\ DOMAIN net.next = Descs /\ IsFiniteSet(DOMAIN net.next)
    BY Constants DEF IInv, Sound, WalkOK, Nets
  <1>2. ahead \cap net.live = walk.todo \cap net.live
    <2>1. CASE walk.d = NULL
      BY <1>1, <2>1 DEF WalkOK
    <2>2. CASE walk.d # NULL
      <3>1. PICK t \in Seq(Descs) :
              /\ IsPath(net.next, Ahead(net, walk), t) /\ walk.d \notin Set(t)
              /\ walk.todo \cap net.live = ({walk.d} \cup Set(t)) \cap net.live
        BY <1>1, <2>2 DEF WalkOK
      <3>2. walk.d \in Descs
        BY <1>1, <2>2 DEF Walks, Ptr
      <3>3. CASE walk.kind = "broken"
        <4> DEFINE d == walk.d
        <4>1. IsPath(net.next, net.next[d], t)
          BY <3>1, <3>3 DEF Ahead
        <4>2. d \in DOMAIN net.next /\ d \notin Set(t)
          BY <1>1, <3>1, <3>2
        <4> HIDE DEF d
        <4>3. IsPath(net.next, d, <<d>> \o t) /\ Set(<<d>> \o t) = {d} \cup Set(t)
          BY <4>1, <4>2, PathPush
        <4>4. Path(net.next, d) = <<d>> \o t
          BY <1>1, <4>3, PathIs
        <4>5. ahead = {d} \cup Set(t)
          BY <2>2, <3>3, <4>3, <4>4 DEF d
        <4> QED BY <3>1, <4>5 DEF d
      <3>4. CASE walk.kind # "broken"
        <4>1. IsPath(net.next, walk.dnext, t)
          BY <3>1, <3>4 DEF Ahead
        <4>2. Path(net.next, walk.dnext) = t
          BY <1>1, <4>1, PathIs
        <4> QED BY <2>2, <3>1, <3>4, <4>2
      <3> QED BY <3>3, <3>4
    <2> QED BY <2>1, <2>2
  <1>3. ASSUME walk.d \notin net.live \cup {NULL}
        PROVE  walk.kind = "commands" /\ net.input[walk.d] = 0
    <2>1. walk.d \in Descs \ net.live /\ walk.d # NULL
      BY <1>1, <1>3 DEF Walks, Ptr
    <2>2. walk.kind = "commands"
      BY <1>1, <2>1 DEF WalkOK
    <2> QED BY <1>1, <2>1, <2>2 DEF Sound, LoginsOK
  <1> QED BY <1>2, <1>3 DEF WalkExact

LEMMA IInvPrograms ==
    ASSUME IInv, ~PipedLogout
    PROVE  ProgramShared
PROOF
  <1>1. /\ \A d, e \in net.conn : net.player[d] = net.player[e] => net.prog[d] = net.prog[e]
        /\ \A g \in Programs : g \in net.heap <=> \E d \in net.conn : net.prog[d] = g
        /\ ~net.fault
    BY DEF IInv, Sound, ProgramsOK
  <1>2. net.heap \subseteq Programs /\ \A d \in net.conn : net.prog[d] \in Programs \cup {NULL}
    BY IInvConnected DEF IInv, Sound, Nets
  <1>3. \A g \in Programs : g # NULL
    BY Constants
  <1>4. net.heap = {net.prog[d] : d \in net.conn} \ {NULL}
    BY <1>1, <1>2, <1>3
  <1> QED BY <1>1, <1>4, IInvConnected DEF ProgramShared

(* The links of the descriptor list and of the hash chains, the logins and  *)
(* the quotas stay what interface.h declares.                               *)
THEOREM TypeCorrect == Spec => []TypeOK
PROOF
  <1>1. IInv => TypeOK
    BY IInvType
  <1> QED BY <1>1, Inductive, PTL

(* Whatever connects, logs in, quits, times out, is booted or restarted,    *)
(* descriptor_list has every open descriptor once and no freed one, linked  *)
(* both ways by shutdownsock and initializesock, and every player's hash    *)
(* chain has just the descriptors logged in as that player.                 *)
THEOREM ListsStayExact == Spec => []ListsExact
PROOF
  <1>1. IInv => ListsExact
    BY IInvLists
  <1> QED BY <1>1, Inductive, PTL

(* announce_connect and announce_disconnect keep the CONNECTED flag on just *)
(* the players that have a descriptor, and no descriptor that is logged in  *)
(* is closed for a reason that disc_messages has no text for.               *)
THEOREM OnlineStaysExact == Spec => []OnlineExact
PROOF
  <1>1. IInv => OnlineExact
    BY IInvOnline
  <1> QED BY <1>1, Inductive, PTL

(* A loop over descriptor_list that closes descriptors, its own or others,  *)
(* still meets each open descriptor it has not visited, and only those:     *)
(* freed ones it steps on in process_commands have no line waiting.         *)
THEOREM WalksStayExact == Spec => []WalkExact
PROOF
  <1>1. IInv => WalkExact
    BY IInvWalk
  <1> QED BY <1>1, Inductive, PTL

(* As long as nobody in an @program sends LOGOUT through with '|', the      *)
(* descriptors of a player share one @program, and just the programs in use *)
(* are allocated: handle_prog, @quitprogram and shutdownsock free each once. *)
THEOREM ProgramsStayShared ==
    ASSUME ~PipedLogout
    PROVE  Spec => []ProgramShared
PROOF
  <1>1. IInv => ProgramShared
    BY IInvPrograms
  <1> QED BY <1>1, Inductive, PTL
=============================================================================
