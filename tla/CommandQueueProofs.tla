------------------------- MODULE CommandQueueProofs -------------------------
(***************************************************************************)
(* Proofs about CommandQueue, for any players, things, attributes, quota,  *)
(* deposit and bounds.                                                     *)
(***************************************************************************)
EXTENDS CommandQueue, ListSelectionProofs

-----------------------------------------------------------------------------
(* The blocks of the four lists, and those give_que is called with.         *)
QBlocks == Block(Objects \cup {NOTHING}, Things \cup {NOTHING}, {0})
WBlocks == Block(Objects, {NOTHING}, Int)
SBlocks == Block(Objects, Things, Int)
Live    == Block(Objects, Things \cup {NOTHING}, Int)
Blocks4 == Block(Objects \cup {NOTHING}, Things \cup {NOTHING}, Int)

LEMMA BlockKinds ==
    /\ QBlocks \subseteq Blocks4 /\ WBlocks \subseteq Blocks4
    /\ SBlocks \subseteq Blocks4 /\ Live \subseteq Blocks4
    /\ WBlocks \subseteq Live /\ SBlocks \subseteq Live
PROOF
  BY DEF QBlocks, WBlocks, SBlocks, Live, Blocks4, Block

LEMMA SeqWider ==
    ASSUME NEW A, NEW B, A \subseteq B, NEW s \in Seq(A)
    PROVE  s \in Seq(B)
PROOF
  OBVIOUS

LEMMA ListKinds ==
    /\ \A s \in Seq(QBlocks) : s \in Seq(Blocks4)
    /\ \A s \in Seq(WBlocks) : s \in Seq(Blocks4) /\ s \in Seq(Live)
    /\ \A s \in Seq(SBlocks) : s \in Seq(Blocks4) /\ s \in Seq(Live)
    /\ \A s \in Seq(Live) : s \in Seq(Blocks4)
PROOF
  BY BlockKinds, SeqWider

(* A list whose elements are changed one by one.                            *)
LEMMA Changed ==
    ASSUME NEW A, NEW B, NEW s \in Seq(A), NEW t, DOMAIN t = DOMAIN s,
           t = [i \in DOMAIN s |-> t[i]], \A i \in DOMAIN s : t[i] \in B
    PROVE  t \in Seq(B) /\ Len(t) = Len(s)
PROOF
  <1>1. Len(s) \in Nat /\ DOMAIN s = 1..Len(s)
    OBVIOUS
  <1>2. t \in [1..Len(s) -> B]
    BY <1>1
  <1> QED BY <1>1, <1>2, SeqDef

LEMMA MarkType ==
    ASSUME NEW list \in Seq(QBlocks), NEW player, NEW object
    PROVE  /\ Mark(list, player, object) \in Seq(QBlocks)
           /\ DOMAIN Mark(list, player, object) = DOMAIN list
           /\ Len(Mark(list, player, object)) = Len(list)
           /\ \A i \in DOMAIN list :
                Mark(list, player, object)[i] =
                  IF que_want(list[i], player, object)
                    THEN [list[i] EXCEPT !.player = NOTHING] ELSE list[i]
PROOF
  <1> DEFINE m == Mark(list, player, object)
  <1>1. /\ DOMAIN m = DOMAIN list /\ m = [i \in DOMAIN list |-> m[i]]
        /\ \A i \in DOMAIN list :
             m[i] = IF que_want(list[i], player, object)
                      THEN [list[i] EXCEPT !.player = NOTHING] ELSE list[i]
    BY DEF Mark
  <1>2. \A e \in QBlocks : [e EXCEPT !.player = NOTHING] \in QBlocks
    BY DEF QBlocks, Block
  <1>3. \A i \in DOMAIN list : list[i] \in QBlocks
    OBVIOUS
  <1> HIDE DEF m
  <1>4. \A i \in DOMAIN list : m[i] \in QBlocks
    BY <1>1, <1>2, <1>3
  <1>5. m \in Seq(QBlocks) /\ Len(m) = Len(list)
    BY <1>1, <1>4, Changed
  <1> QED BY <1>1, <1>5 DEF m

LEMMA GivenType ==
    ASSUME NEW list \in Seq(Live)
    PROVE  /\ Given(list) \in Seq(QBlocks)
           /\ DOMAIN Given(list) = DOMAIN list
           /\ Len(Given(list)) = Len(list)
           /\ \A i \in DOMAIN list :
                Given(list)[i] = [list[i] EXCEPT !.waittime = 0]
           /\ GivenFirst(list) \in Seq(QBlocks)
           /\ GivenLow(list) \in Seq(QBlocks)
PROOF
  <1> DEFINE g == Given(list)
  <1>1. /\ DOMAIN g = DOMAIN list /\ g = [i \in DOMAIN list |-> g[i]]
        /\ \A i \in DOMAIN list : g[i] = [list[i] EXCEPT !.waittime = 0]
    BY DEF Given
  <1>2. \A e \in Live : [e EXCEPT !.waittime = 0] \in QBlocks
    BY DEF Live, QBlocks, Block
  <1>3. \A i \in DOMAIN list : list[i] \in Live
    OBVIOUS
  <1>4. GivenFirst(list) = Pick(g, {i \in DOMAIN g : ByPlayer(g[i])})
    BY DEF GivenFirst, Select, Positions
  <1>5. GivenLow(list) = Pick(g, DOMAIN g \ {i \in DOMAIN g : ByPlayer(g[i])})
    BY DEF GivenLow, Delete, Positions
  <1> HIDE DEF g
  <1>6. \A i \in DOMAIN list : g[i] \in QBlocks
    BY <1>1, <1>2, <1>3
  <1>7. g \in Seq(QBlocks) /\ Len(g) = Len(list)
    BY <1>1, <1>6, Changed
  <1> DEFINE P == {i \in DOMAIN g : ByPlayer(g[i])}
             R == DOMAIN g \ P
  <1>8. P \in SUBSET DOMAIN g /\ R \in SUBSET DOMAIN g
    OBVIOUS
  <1> HIDE DEF P, R
  <1>9. Pick(g, P) \in Seq(QBlocks) /\ Pick(g, R) \in Seq(QBlocks)
    BY <1>7, <1>8, PickFacts
  <1> QED BY <1>1, <1>4, <1>5, <1>7, <1>9 DEF g, P, R

-----------------------------------------------------------------------------
(* What is picked by a condition on the element.                            *)
Among(list, U) == {i \in DOMAIN list : list[i] \in U}

LEMMA Chosen ==
    ASSUME NEW B, NEW list \in Seq(B), NEW U, NEW S, S = Among(list, U)
    PROVE  /\ S \in SUBSET DOMAIN list
           /\ Pick(list, S) \in Seq(B)
           /\ Len(Pick(list, S)) \in 0..Len(list)
           /\ \A i \in DOMAIN Pick(list, S) : Pick(list, S)[i] \in B \cap U
           /\ \A T : Count(Pick(list, S), T) = Count(list, T \cap U)
PROOF
  <1> USE DEF Among
  <1>1. S \in SUBSET DOMAIN list
    OBVIOUS
  <1>2. /\ Pick(list, S) \in Seq(B) /\ Len(Pick(list, S)) \in 0..Len(list)
        /\ Place(S) \in [DOMAIN Pick(list, S) -> S]
        /\ \A i \in DOMAIN Pick(list, S) : Pick(list, S)[i] = list[Place(S)[i]]
    BY <1>1, PickFacts
  <1>3. \A i \in S : list[i] \in B \cap U
    OBVIOUS
  <1>4. \A i \in DOMAIN Pick(list, S) : Pick(list, S)[i] \in B \cap U
    BY <1>2, <1>3
  <1>5. ASSUME NEW T PROVE Count(Pick(list, S), T) = Count(list, T \cap U)
    <2>1. Count(Pick(list, S), T) = Cardinality({i \in S : list[i] \in T})
      BY <1>1, CountPick
    <2>2. {i \in S : list[i] \in T} = {i \in DOMAIN list : list[i] \in T \cap U}
      OBVIOUS
    <2> QED BY <2>1, <2>2 DEF Count
  <1> QED BY <1>1, <1>2, <1>4, <1>5

(* The blocks that wait on a semaphore, and those of one owner.             *)
WaitsOn(k) == {e \in Blocks4 : <<e.sem, e.attr>> = k}
Of(p) == {e \in Blocks4 : Owner(e.player) = p}
Wanted(player, object) == {e \in Blocks4 : que_want(e, player, object)}

LEMMA CountDownFacts ==
    ASSUME NEW list \in Seq(Blocks4), NEW counts \in [Semaphores -> Int]
    PROVE  /\ CountDown(counts, list) \in [Semaphores -> Int]
           /\ \A k \in Semaphores :
                CountDown(counts, list)[k] = counts[k] - Count(list, WaitsOn(k))
PROOF
  <1> DEFINE c == CountDown(counts, list)
             P(k) == {i \in DOMAIN list : <<list[i].sem, list[i].attr>> = k}
  <1>1. \A k : P(k) = {i \in DOMAIN list : list[i] \in WaitsOn(k)}
    <2>1. \A i \in DOMAIN list : list[i] \in Blocks4
      OBVIOUS
    <2> QED BY <2>1 DEF WaitsOn
  <1>2. c = [k \in Semaphores |-> counts[k] - Cardinality(P(k))]
    BY DEF CountDown, HowMany, Positions
  <1> HIDE DEF P
  <1>3. c = [k \in Semaphores |-> counts[k] - Count(list, WaitsOn(k))]
    BY <1>1, <1>2 DEF Count
  <1>4. \A k \in Semaphores : Count(list, WaitsOn(k)) \in Nat
    BY CountType
  <1> HIDE DEF c
  <1>5. ASSUME NEW k \in Semaphores PROVE counts[k] - Count(list, WaitsOn(k)) \in Int
    <2>1. counts[k] \in Int /\ Count(list, WaitsOn(k)) \in Nat
      BY <1>4
    <2> QED BY <2>1
  <1> QED BY <1>3, <1>5 DEF c

LEMMA WaitersFacts ==
    ASSUME qsemfirst \in Seq(SBlocks), NEW k \in Semaphores
    PROVE  /\ Waiters(k[1], k[2]) = Count(qsemfirst, WaitsOn(k))
           /\ Waiters(k[1], k[2]) \in Nat
PROOF
  <1>1. \A i \in DOMAIN qsemfirst : qsemfirst[i] \in Blocks4
    BY BlockKinds
  <1>2. k = <<k[1], k[2]>>
    BY DEF Semaphores
  <1>3. {i \in DOMAIN qsemfirst : <<qsemfirst[i].sem, qsemfirst[i].attr>> = <<k[1], k[2]>>}
          = {i \in DOMAIN qsemfirst : qsemfirst[i] \in WaitsOn(k)}
    BY <1>1, <1>2 DEF WaitsOn
  <1>4. Waiters(k[1], k[2]) = Count(qsemfirst, WaitsOn(k))
    BY <1>3 DEF Waiters, HowMany, Positions, Waits, Count
  <1>5. Count(qsemfirst, WaitsOn(k)) \in Nat
    BY CountType
  <1> QED BY <1>4, <1>5

LEMMA OwnedByFacts ==
    ASSUME NEW list \in Seq(Blocks4), NEW p
    PROVE  OwnedBy(p, list) = Count(list, Of(p)) /\ OwnedBy(p, list) \in Nat
PROOF
  <1>1. \A i \in DOMAIN list : list[i] \in Blocks4
    OBVIOUS
  <1>2. {i \in DOMAIN list : Owner(list[i].player) = p}
          = {i \in DOMAIN list : list[i] \in Of(p)}
    BY <1>1 DEF Of
  <1>3. OwnedBy(p, list) = Count(list, Of(p))
    BY <1>2 DEF OwnedBy, HowMany, Positions, Count
  <1>4. Count(list, Of(p)) \in Nat
    BY CountType
  <1> QED BY <1>3, <1>4

(* The blocks halt_que looks for, counted, deleted and selected.            *)
Sought(list, player, object) ==
    {i \in DOMAIN list : que_want(list[i], player, object)}

(* Those of a kind that it does not look for.                               *)
Left(player, object, T) == T \cap (Blocks4 \ Wanted(player, object))

Unsought(list, player, object) == DOMAIN list \ Sought(list, player, object)

LEMMA SoughtFacts ==
    ASSUME NEW list \in Seq(Blocks4), NEW player, NEW object
    PROVE  /\ Sought(list, player, object) = Among(list, Wanted(player, object))
           /\ Unsought(list, player, object)
                = Among(list, Blocks4 \ Wanted(player, object))
PROOF
  <1>1. \A i \in DOMAIN list : list[i] \in Blocks4
    OBVIOUS
  <1> QED BY <1>1 DEF Sought, Unsought, Among, Wanted

LEMMA WantedCount ==
    ASSUME NEW list \in Seq(Blocks4), NEW player, NEW object
    PROVE  Cardinality(Sought(list, player, object)) = Count(list, Wanted(player, object))
PROOF
  BY SoughtFacts DEF Count, Among

LEMMA WantedPick ==
    ASSUME NEW list \in Seq(Blocks4), NEW player, NEW object, NEW T
    PROVE  Count(Pick(list, Sought(list, player, object)), T)
             = Count(list, T \cap Wanted(player, object))
PROOF
  <1> DEFINE P == Sought(list, player, object)
             W == Wanted(player, object)
  <1>1. P = Among(list, W)
    BY SoughtFacts
  <1> HIDE DEF P, W
  <1> QED BY <1>1, Chosen DEF P, W

LEMMA WantedLeft ==
    ASSUME NEW list \in Seq(Blocks4), NEW player, NEW object, NEW T
    PROVE  Count(Pick(list, Unsought(list, player, object)), T)
             = Count(list, Left(player, object, T))
PROOF
  <1> DEFINE P == Unsought(list, player, object)
             W == Blocks4 \ Wanted(player, object)
  <1>1. P = Among(list, W)
    BY SoughtFacts
  <1> HIDE DEF P, W
  <1>2. Count(Pick(list, P), T) = Count(list, T \cap W)
    BY <1>1, Chosen
  <1> QED BY <1>2 DEF P, W, Left

LEMMA PickType ==
    ASSUME NEW B, NEW list \in Seq(B), NEW player, NEW object
    PROVE  /\ Pick(list, Sought(list, player, object)) \in Seq(B)
           /\ Pick(list, Unsought(list, player, object)) \in Seq(B)
PROOF
  <1> DEFINE P == Sought(list, player, object)
             R == Unsought(list, player, object)
  <1>1. P \in SUBSET DOMAIN list /\ R \in SUBSET DOMAIN list
    BY DEF Sought, Unsought
  <1> HIDE DEF P, R
  <1>2. Pick(list, P) \in Seq(B) /\ Pick(list, R) \in Seq(B)
    BY <1>1, PickFacts
  <1> QED BY <1>2 DEF P, R

-----------------------------------------------------------------------------
(* The parts of the type.                                                   *)
ListsOK ==
    /\ qfirst \in Seq(QBlocks) /\ qlfirst \in Seq(QBlocks)
    /\ qwait \in Seq(WBlocks) /\ qsemfirst \in Seq(SBlocks)

NumbersOK ==
    /\ semaphore \in [Semaphores -> Int]
    /\ queue \in [Players -> Int]
    /\ pennies \in [Mortals -> Int]

WorldOK ==
    /\ owner \in [Things -> Players]
    /\ halted \subseteq Objects /\ going \subseteq Things /\ gone \subseteq Things
    /\ control_flags \subseteq {"CF_INTERP", "CF_DEQUEUE"}

LoopOK ==
    /\ tops \in Seq({"called", "running", "between"})
    /\ now \in Nat /\ added \in 0..MaxAdded

LEMMA TypeParts == TypeOK <=> ListsOK /\ NumbersOK /\ WorldOK /\ LoopOK
PROOF
  <1>1. (\A list \in {qfirst, qlfirst} :
            list \in Seq(Block(Objects \cup {NOTHING}, Things \cup {NOTHING}, {0})))
         <=> qfirst \in Seq(QBlocks) /\ qlfirst \in Seq(QBlocks)
    BY DEF QBlocks
  <1> QED BY <1>1, Zenon DEF TypeOK, ListsOK, NumbersOK, WorldOK, LoopOK, WBlocks, SBlocks

(* How many blocks of the four lists are in T.                              *)
Total(a, b, c, d, T) == Count(a, T) + Count(b, T) + Count(c, T) + Count(d, T)

LEMMA TotalFacts ==
    ASSUME NEW a \in Seq(Blocks4), NEW b \in Seq(Blocks4),
           NEW c \in Seq(Blocks4), NEW d \in Seq(Blocks4), NEW T
    PROVE  /\ a \o b \o c \o d \in Seq(Blocks4)
           /\ Count(a \o b \o c \o d, T) = Total(a, b, c, d, T)
           /\ Count(a, T) \in Nat /\ Count(b, T) \in Nat
           /\ Count(c, T) \in Nat /\ Count(d, T) \in Nat
           /\ Total(a, b, c, d, T) \in Nat
PROOF
  <1>1. PICK ab \in Seq(Blocks4) : ab = a \o b
    BY ConcatProperties
  <1>2. PICK abc \in Seq(Blocks4) : abc = ab \o c
    BY ConcatProperties
  <1>3. PICK abcd \in Seq(Blocks4) : abcd = abc \o d
    BY ConcatProperties
  <1>4. Count(ab, T) = Count(a, T) + Count(b, T)
    BY <1>1, CountConcat
  <1>5. Count(abc, T) = Count(ab, T) + Count(c, T)
    BY <1>2, CountConcat
  <1>6. Count(abcd, T) = Count(abc, T) + Count(d, T)
    BY <1>3, CountConcat
  <1>7. /\ Count(a, T) \in Nat /\ Count(b, T) \in Nat
        /\ Count(c, T) \in Nat /\ Count(d, T) \in Nat
    BY CountType
  <1>8. Count(abcd, T) = Total(a, b, c, d, T)
    BY <1>4, <1>5, <1>6, <1>7 DEF Total
  <1>9. Total(a, b, c, d, T) \in Nat
    BY <1>7 DEF Total
  <1> QED BY <1>1, <1>2, <1>3, <1>7, <1>8, <1>9

LEMMA AllBlocks4 ==
    ASSUME ListsOK
    PROVE  /\ qfirst \in Seq(Blocks4) /\ qlfirst \in Seq(Blocks4)
           /\ qwait \in Seq(Blocks4) /\ qsemfirst \in Seq(Blocks4)
PROOF
  BY ListKinds DEF ListsOK

(* A marked block belongs to nobody: it is not in T if all of T are owned.  *)
LEMMA MarkCount ==
    ASSUME NEW list \in Seq(QBlocks), NEW player, NEW object, NEW T,
           \A e \in T : e.player # NOTHING
    PROVE  Count(Mark(list, player, object), T)
             = Count(list, Left(player, object, T))
PROOF
  <1> DEFINE m == Mark(list, player, object)
             U == Left(player, object, T)
  <1>1. /\ m \in Seq(QBlocks) /\ DOMAIN m = DOMAIN list
        /\ \A i \in DOMAIN list :
             m[i] = IF que_want(list[i], player, object)
                      THEN [list[i] EXCEPT !.player = NOTHING] ELSE list[i]
    BY MarkType
  <1> HIDE DEF m
  <1>2. ASSUME NEW i \in DOMAIN list PROVE m[i] \in T <=> list[i] \in U
    <2>1. list[i] \in QBlocks /\ list[i] \in Blocks4
      BY BlockKinds
    <2>2. CASE que_want(list[i], player, object)
      <3>1. m[i].player = NOTHING
        BY <1>1, <2>1, <2>2 DEF QBlocks, Block
      <3>2. m[i] \notin T
        BY <3>1
      <3>3. list[i] \in Wanted(player, object)
        BY <2>1, <2>2 DEF Wanted
      <3> QED BY <3>2, <3>3 DEF Left
    <2>3. CASE ~que_want(list[i], player, object)
      <3>1. m[i] = list[i]
        BY <1>1, <2>3
      <3>2. list[i] \notin Wanted(player, object)
        BY <2>3 DEF Wanted
      <3> QED BY <2>1, <3>1, <3>2 DEF Left
    <2> QED BY <2>2, <2>3
  <1> HIDE DEF U
  <1>3. Count(m, T) = Count(list, U)
    BY <1>1, <1>2, CountSame
  <1> QED BY <1>3 DEF m, U

-----------------------------------------------------------------------------
(* halt_que.                                                                *)
LEMMA GiveType ==
    ASSUME NEW purses \in [Mortals -> Int], NEW who \in Players, NEW n \in Int
    PROVE  Give(purses, who, n) \in [Mortals -> Int]
PROOF
  BY DEF Give, Players

LEMMA HaltFacts ==
    ASSUME ListsOK, NEW player, NEW object, NEW payee \in Players,
           NEW counts \in [Semaphores -> Int], NEW queues \in [Players -> Int],
           NEW purses \in [Mortals -> Int], NEW n,
           n = Total(qfirst, qlfirst, qwait, qsemfirst, Wanted(player, object)),
           halt_que(player, object, payee, counts, queues, purses)
    PROVE  /\ ListsOK' /\ NumbersOK' /\ n \in Nat
           /\ pennies' = Give(purses, payee, WaitCost * n)
           /\ queue' = [queues EXCEPT ![payee] = LeftCounted(object, @, n)]
           /\ \A k \in Semaphores :
                semaphore'[k] = counts[k] - Count(qsemfirst, WaitsOn(k) \cap Wanted(player, object))
           /\ \A T : Count(qwait', T) = Count(qwait, Left(player, object, T))
           /\ \A T : Count(qsemfirst', T) = Count(qsemfirst, Left(player, object, T))
           /\ \A T : (\A e \in T : e.player # NOTHING) =>
                /\ Count(qfirst', T) = Count(qfirst, Left(player, object, T))
                /\ Count(qlfirst', T) = Count(qlfirst, Left(player, object, T))
PROOF
  <1> DEFINE W == Wanted(player, object)
             all == qfirst \o qlfirst \o qwait \o qsemfirst
             UW == Unsought(qwait, player, object)
             US == Unsought(qsemfirst, player, object)
             PS == Sought(qsemfirst, player, object)
             PA == Sought(all, player, object)
  <1>1. /\ qfirst' = Mark(qfirst, player, object)
        /\ qlfirst' = Mark(qlfirst, player, object)
        /\ qwait' = Pick(qwait, UW)
        /\ qsemfirst' = Pick(qsemfirst, US)
        /\ semaphore' = CountDown(counts, Pick(qsemfirst, PS))
        /\ pennies' = Give(purses, payee, WaitCost * Cardinality(PA))
        /\ queue' = [queues EXCEPT ![payee] = LeftCounted(object, @, Cardinality(PA))]
    BY DEF halt_que, Delete, Select, Positions, HowMany, Sought, Unsought
  <1>2. qfirst \in Seq(QBlocks) /\ qlfirst \in Seq(QBlocks)
    BY DEF ListsOK
  <1>17. qwait \in Seq(WBlocks) /\ qwait \in Seq(Blocks4)
    BY AllBlocks4 DEF ListsOK
  <1>18. qsemfirst \in Seq(SBlocks) /\ qsemfirst \in Seq(Blocks4)
    BY AllBlocks4 DEF ListsOK
  <1>19. all \in Seq(Blocks4)
    BY AllBlocks4, TotalFacts
  <1>3. Count(all, W) = n /\ n \in Nat
    BY AllBlocks4, TotalFacts
  <1> HIDE DEF all
  <1>4. Cardinality(PA) = n
    <2>1. Cardinality(Sought(all, player, object)) = Count(all, Wanted(player, object))
      BY <1>19, WantedCount
    <2> QED BY <1>3, <2>1
  <1> HIDE DEF PA
  <1>5. /\ Pick(qwait, UW) \in Seq(WBlocks)
        /\ Pick(qsemfirst, US) \in Seq(SBlocks)
        /\ Pick(qsemfirst, PS) \in Seq(SBlocks)
    BY <1>17, <1>18, PickType
  <1>6. \A T : Count(Pick(qwait, UW), T) = Count(qwait, Left(player, object, T))
    BY <1>17, WantedLeft
  <1>20. \A T : Count(Pick(qsemfirst, US), T)
                   = Count(qsemfirst, Left(player, object, T))
    BY <1>18, WantedLeft
  <1>21. \A T : Count(Pick(qsemfirst, PS), T) = Count(qsemfirst, T \cap W)
    BY <1>18, WantedPick
  <1> HIDE DEF UW, US, PS
  <1>7. Mark(qfirst, player, object) \in Seq(QBlocks) /\ Mark(qlfirst, player, object) \in Seq(QBlocks)
    BY <1>2, MarkType
  <1>8. ASSUME NEW T, \A e \in T : e.player # NOTHING
        PROVE  /\ Count(qfirst', T) = Count(qfirst, Left(player, object, T))
               /\ Count(qlfirst', T) = Count(qlfirst, Left(player, object, T))
    <2>1. Count(Mark(qfirst, player, object), T) = Count(qfirst, Left(player, object, T))
      BY <1>2, <1>8, MarkCount
    <2>2. Count(Mark(qlfirst, player, object), T) = Count(qlfirst, Left(player, object, T))
      BY <1>2, <1>8, MarkCount
    <2> QED BY <1>1, <2>1, <2>2
  <1>9. ListsOK'
    BY <1>1, <1>5, <1>7 DEF ListsOK
  <1>10. Pick(qsemfirst, PS) \in Seq(Blocks4)
    BY <1>5, ListKinds
  <1>11. /\ semaphore' \in [Semaphores -> Int]
         /\ \A k \in Semaphores : semaphore'[k] = counts[k] - Count(Pick(qsemfirst, PS), WaitsOn(k))
    BY <1>1, <1>10, CountDownFacts
  <1>12. \A k \in Semaphores : semaphore'[k] = counts[k] - Count(qsemfirst, WaitsOn(k) \cap W)
    BY <1>11, <1>21
  <1>13. WaitCost * n \in Int
    BY <1>3, CostAssumption
  <1>14. pennies' \in [Mortals -> Int]
    BY <1>1, <1>4, <1>13, GiveType
  <1>15. \A c \in Int : LeftCounted(object, c, n) \in Int
    BY <1>3 DEF LeftCounted
  <1>16. queue' \in [Players -> Int]
    BY <1>1, <1>4, <1>15
  <1> QED BY <1>1, <1>3, <1>4, <1>6, <1>20, <1>8, <1>9, <1>11, <1>12, <1>14, <1>16 DEF NumbersOK, W

-----------------------------------------------------------------------------
(* give_que.  A kind of blocks that a change of the time or the semaphore   *)
(* does not touch.                                                          *)
Stable(T) ==
    \A e \in Live : /\ [e EXCEPT !.waittime = 0] \in T <=> e \in T
                    /\ [e EXCEPT !.sem = NOTHING] \in T <=> e \in T

LEMMA OfStable ==
    ASSUME NEW p
    PROVE  Stable(Of(p))
PROOF
  <1>1. ASSUME NEW e \in Live
        PROVE  /\ [e EXCEPT !.waittime = 0] \in Of(p) <=> e \in Of(p)
               /\ [e EXCEPT !.sem = NOTHING] \in Of(p) <=> e \in Of(p)
    <2> DEFINE f == [e EXCEPT !.waittime = 0]
               g == [e EXCEPT !.sem = NOTHING]
    <2>1. f \in Blocks4 /\ g \in Blocks4 /\ e \in Blocks4
      BY DEF Live, Blocks4, Block
    <2>2. f.player = e.player /\ g.player = e.player
      BY DEF Live, Block
    <2> HIDE DEF f, g
    <2>3. (f \in Of(p) <=> e \in Of(p)) /\ (g \in Of(p) <=> e \in Of(p))
      BY <2>1, <2>2 DEF Of
    <2> QED BY <2>3 DEF f, g
  <1> QED BY <1>1 DEF Stable

LEMMA OfOwned ==
    ASSUME ObjectsAssumption, NEW p \in Mortals
    PROVE  \A e \in Of(p) : e.player # NOTHING
PROOF
  <1>1. NOTHING \notin Things /\ p # GOD
    BY DEF ObjectsAssumption, Objects
  <1> QED BY <1>1 DEF Of, Owner

LEMMA GivenCount ==
    ASSUME NEW list \in Seq(Live), NEW T, Stable(T)
    PROVE  Count(GivenFirst(list), T) + Count(GivenLow(list), T) = Count(list, T)
PROOF
  <1> DEFINE g == Given(list)
             P == {i \in DOMAIN g : ByPlayer(g[i])}
  <1>1. /\ g \in Seq(QBlocks) /\ DOMAIN g = DOMAIN list
        /\ \A i \in DOMAIN list : g[i] = [list[i] EXCEPT !.waittime = 0]
    BY GivenType
  <1>2. GivenFirst(list) = Pick(g, P) /\ GivenLow(list) = Pick(g, DOMAIN g \ P)
    BY DEF GivenFirst, GivenLow, Select, Delete, Positions
  <1> HIDE DEF g
  <1>3. P \in SUBSET DOMAIN g
    OBVIOUS
  <1> HIDE DEF P
  <1>4. Count(Pick(g, P), T) + Count(Pick(g, DOMAIN g \ P), T) = Count(g, T)
    BY <1>1, <1>3, CountSplit
  <1>5. \A i \in DOMAIN list : list[i] \in Live
    OBVIOUS
  <1>6. ASSUME NEW i \in DOMAIN g PROVE g[i] \in T <=> list[i] \in T
    <2>1. list[i] \in Live /\ g[i] = [list[i] EXCEPT !.waittime = 0]
      BY <1>1, <1>5
    <2>2. [list[i] EXCEPT !.waittime = 0] \in T <=> list[i] \in T
      BY <2>1 DEF Stable
    <2> QED BY <2>1, <2>2
  <1>7. Count(g, T) = Count(list, T)
    BY <1>1, <1>6, CountSame
  <1> QED BY <1>2, <1>4, <1>7

-----------------------------------------------------------------------------
(* Insert: as many of each kind, and sorted.                                *)
Sorted(list) ==
    \A i, j \in DOMAIN list : i < j => list[i].waittime <= list[j].waittime

LEMMA PickSorted ==
    ASSUME NEW B, NEW list \in Seq(B), Sorted(list), NEW S \in SUBSET DOMAIN list
    PROVE  Sorted(Pick(list, S))
PROOF
  <1> DEFINE p == Pick(list, S)
             f == Place(S)
             N == 1..Cardinality(S)
             n == Len(list)
  <1>1. n \in Nat /\ S \in SUBSET (1..n)
    OBVIOUS
  <1>2. f \in [N -> S] /\ \A i, j \in N : i < j => f[i] < f[j]
    <2> HIDE DEF n
    <2> QED BY <1>1, PlaceFacts
  <1>3. DOMAIN p = N /\ \A i \in N : p[i] = list[f[i]]
    BY PickFacts
  <1> HIDE DEF p, f, N
  <1>4. ASSUME NEW i \in N, NEW j \in N, i < j
        PROVE  p[i].waittime <= p[j].waittime
    <2>1. f[i] \in DOMAIN list /\ f[j] \in DOMAIN list /\ f[i] < f[j]
      BY <1>2, <1>4
    <2>2. list[f[i]].waittime <= list[f[j]].waittime
      BY <2>1 DEF Sorted
    <2> QED BY <1>3, <2>2
  <1>5. Sorted(p)
    BY <1>3, <1>4 DEF Sorted
  <1> QED BY <1>5 DEF p

LEMMA ConcatSorted ==
    ASSUME NEW a \in Seq(WBlocks), NEW b \in Seq(WBlocks), Sorted(a), Sorted(b),
           \A i \in DOMAIN a, j \in DOMAIN b : a[i].waittime <= b[j].waittime
    PROVE  Sorted(a \o b)
PROOF
  <1> DEFINE n == Len(a)
             m == Len(b)
             c == a \o b
  <1>1. n \in Nat /\ m \in Nat /\ DOMAIN a = 1..n /\ DOMAIN b = 1..m
    OBVIOUS
  <1>2. /\ c \in Seq(WBlocks) /\ Len(c) = n + m
        /\ \A i \in 1..(n + m) : c[i] = IF i <= n THEN a[i] ELSE b[i - n]
    BY ConcatProperties
  <1> HIDE DEF n, m, c
  <1>3. DOMAIN c = 1..(n + m)
    BY <1>2
  <1>4. ASSUME NEW i \in 1..(n + m), NEW j \in 1..(n + m), i < j
        PROVE  c[i].waittime <= c[j].waittime
    <2>1. CASE j <= n
      <3>1. c[i] = a[i] /\ c[j] = a[j] /\ i \in DOMAIN a /\ j \in DOMAIN a
        BY <1>1, <1>2, <1>4, <2>1
      <3> QED BY <3>1, <1>4 DEF Sorted
    <2>2. CASE i <= n /\ ~(j <= n)
      <3>1. c[i] = a[i] /\ c[j] = b[j - n] /\ i \in DOMAIN a /\ j - n \in DOMAIN b
        BY <1>1, <1>2, <1>4, <2>2
      <3> QED BY <3>1
    <2>3. CASE ~(i <= n)
      <3>1. /\ c[i] = b[i - n] /\ c[j] = b[j - n]
            /\ i - n \in DOMAIN b /\ j - n \in DOMAIN b /\ i - n < j - n
        BY <1>1, <1>2, <1>4, <2>3
      <3> QED BY <3>1 DEF Sorted
    <2> QED BY <2>1, <2>2, <2>3
  <1>5. Sorted(c)
    BY <1>3, <1>4 DEF Sorted
  <1> QED BY <1>5 DEF c

Soon(list, t) == {i \in DOMAIN list : list[i].waittime <= t}
Later(list, t) == {i \in DOMAIN list : list[i].waittime > t}

LEMMA PickHas ==
    ASSUME NEW B, NEW list \in Seq(B), NEW S \in SUBSET DOMAIN list,
           NEW i \in DOMAIN Pick(list, S)
    PROVE  \E x \in S : Pick(list, S)[i] = list[x]
PROOF
  <1>1. Place(S)[i] \in S /\ Pick(list, S)[i] = list[Place(S)[i]]
    BY PickFacts
  <1> QED BY <1>1

LEMMA InsertFacts ==
    ASSUME NEW list \in Seq(WBlocks), NEW e \in WBlocks
    PROVE  /\ Insert(list, e) \in Seq(WBlocks)
           /\ \A T : Count(Insert(list, e), T)
                       = Count(list, T) + (IF e \in T THEN 1 ELSE 0)
           /\ Sorted(list) => Sorted(Insert(list, e))
PROOF
  <1> DEFINE t == e.waittime
             S == Soon(list, t)
             L == Later(list, t)
             a == Pick(list, S)
             c == Pick(list, L)
  <1>1. t \in Int
    BY DEF WBlocks, Block
  <1>16. \A i \in DOMAIN list : list[i] \in WBlocks
    OBVIOUS
  <1>2. \A i \in DOMAIN list : list[i].waittime \in Int
    BY <1>16 DEF WBlocks, Block
  <1>3. S \in SUBSET DOMAIN list /\ L \in SUBSET DOMAIN list
    BY DEF Soon, Later
  <1>4. L = DOMAIN list \ S
    BY <1>1, <1>2 DEF Soon, Later
  <1>5. Insert(list, e) = a \o <<e>> \o c
    BY DEF Insert, Select, Positions, Soon, Later
  <1> HIDE DEF t, S, L
  <1>6. a \in Seq(WBlocks) /\ c \in Seq(WBlocks)
    BY <1>3, PickFacts
  <1>7. \A T : Count(a, T) + Count(c, T) = Count(list, T)
    BY <1>3, <1>4, CountSplit
  <1>8. \A i \in DOMAIN a : a[i].waittime <= t
    <2> SUFFICES ASSUME NEW i \in DOMAIN a PROVE a[i].waittime <= t
      OBVIOUS
    <2>1. PICK x \in S : a[i] = list[x]
      BY <1>3, PickHas
    <2> QED BY <2>1 DEF S, Soon
  <1>9. \A i \in DOMAIN c : c[i].waittime > t
    <2> SUFFICES ASSUME NEW i \in DOMAIN c PROVE c[i].waittime > t
      OBVIOUS
    <2>1. PICK x \in L : c[i] = list[x]
      BY <1>3, PickHas
    <2> QED BY <2>1 DEF L, Later
  <1>10. Sorted(list) => Sorted(a) /\ Sorted(c)
    BY <1>3, PickSorted
  <1> HIDE DEF a, c
  <1>11. <<e>> \in Seq(WBlocks) /\ DOMAIN <<e>> = {1} /\ <<e>>[1] = e
    OBVIOUS
  <1>12. PICK ae \in Seq(WBlocks) : ae = a \o <<e>>
    BY <1>6, <1>11, ConcatProperties
  <1>13. PICK aec \in Seq(WBlocks) : aec = ae \o c
    BY <1>6, ConcatProperties
  <1>14. ASSUME NEW T
         PROVE  Count(aec, T) = Count(list, T) + (IF e \in T THEN 1 ELSE 0)
    <2>1. Count(ae, T) = Count(a, T) + Count(<<e>>, T)
      BY <1>6, <1>11, <1>12, CountConcat
    <2>2. Count(aec, T) = Count(ae, T) + Count(c, T)
      BY <1>6, <1>13, CountConcat
    <2>3. Count(a, T) \in Nat /\ Count(c, T) \in Nat
      BY <1>6, CountType
    <2>4. Count(<<e>>, T) = IF e \in T THEN 1 ELSE 0
      BY CountOne
    <2>5. Count(a, T) + Count(c, T) = Count(list, T)
      BY <1>7
    <2> QED BY <2>1, <2>2, <2>3, <2>4, <2>5
  <1>15. ASSUME Sorted(list) PROVE Sorted(aec)
    <2>1. Sorted(a) /\ Sorted(c)
      BY <1>10, <1>15
    <2>2. Sorted(<<e>>)
      BY <1>11 DEF Sorted
    <2>3. \A i \in DOMAIN a, j \in DOMAIN <<e>> : a[i].waittime <= <<e>>[j].waittime
      BY <1>8, <1>11 DEF t
    <2>4. Sorted(ae)
      BY <1>6, <1>11, <1>12, <2>1, <2>2, <2>3, ConcatSorted
    <2>5. \A i \in DOMAIN ae : ae[i].waittime <= t
      <3>1. /\ DOMAIN ae = 1..(Len(a) + 1) /\ Len(a) \in Nat /\ DOMAIN a = 1..Len(a)
            /\ \A i \in 1..(Len(a) + 1) : ae[i] = IF i <= Len(a) THEN a[i] ELSE <<e>>[i - Len(a)]
        BY <1>6, <1>11, <1>12
      <3> DEFINE n == Len(a)
      <3> HIDE DEF n
      <3>2. ASSUME NEW i \in 1..(n + 1) PROVE ae[i].waittime <= t
        <4>1. CASE i <= n
          <5>1. ae[i] = a[i] /\ i \in DOMAIN a
            BY <3>1, <3>2, <4>1 DEF n
          <5> QED BY <1>8, <5>1
        <4>2. CASE ~(i <= n)
          <5>1. ae[i] = <<e>>[i - n] /\ i - n = 1
            BY <3>1, <3>2, <4>2 DEF n
          <5> QED BY <1>1, <1>11, <5>1 DEF t
        <4> QED BY <4>1, <4>2
      <3> QED BY <3>1, <3>2 DEF n
    <2>6. ASSUME NEW i \in DOMAIN ae, NEW j \in DOMAIN c PROVE ae[i].waittime <= c[j].waittime
      <3>1. ae[i] \in WBlocks /\ c[j] \in WBlocks
        BY <1>6, <1>12
      <3>2. ae[i].waittime \in Int /\ c[j].waittime \in Int
        BY <3>1 DEF WBlocks, Block
      <3>3. ae[i].waittime <= t /\ c[j].waittime > t
        BY <1>9, <2>5
      <3> QED BY <1>1, <3>2, <3>3
    <2> QED BY <1>6, <1>12, <1>13, <2>1, <2>4, <2>6, ConcatSorted
  <1> QED BY <1>5, <1>12, <1>13, <1>14, <1>15

-----------------------------------------------------------------------------
(* The head of the player queue stays, and stays marked.                    *)
Kept(a, b) ==
    a # <<>> => /\ b # <<>>
                /\ Head(a).player = NOTHING => Head(b).player = NOTHING

LEMMA KeptConcat ==
    ASSUME NEW a \in Seq(QBlocks), NEW b \in Seq(QBlocks)
    PROVE  a \o b \in Seq(QBlocks) /\ Kept(a, a \o b)
PROOF
  <1> DEFINE ab == a \o b
  <1>1. /\ ab \in Seq(QBlocks) /\ Len(ab) = Len(a) + Len(b)
        /\ \A i \in 1..(Len(a) + Len(b)) : ab[i] = IF i <= Len(a) THEN a[i] ELSE b[i - Len(a)]
    BY ConcatProperties
  <1> HIDE DEF ab
  <1>2. ASSUME a # <<>> PROVE ab # <<>> /\ Head(ab) = Head(a)
    <2>1. Len(a) \in Nat /\ Len(b) \in Nat /\ Len(a) > 0
      BY <1>2
    <2>2. 1 \in 1..Len(ab) /\ 1 <= Len(a)
      BY <1>1, <2>1
    <2>3. ab[1] = a[1]
      BY <1>1, <2>2
    <2>4. ab # <<>>
      BY <1>1, <2>1
    <2> QED BY <1>2, <2>3, <2>4
  <1> QED BY <1>1, <1>2 DEF Kept, ab

LEMMA KeptMark ==
    ASSUME NEW list \in Seq(QBlocks), NEW player, NEW object
    PROVE  Kept(list, Mark(list, player, object))
PROOF
  <1> DEFINE m == Mark(list, player, object)
  <1>1. /\ m \in Seq(QBlocks) /\ Len(m) = Len(list)
        /\ \A i \in DOMAIN list :
             m[i] = IF que_want(list[i], player, object)
                      THEN [list[i] EXCEPT !.player = NOTHING] ELSE list[i]
    BY MarkType
  <1> HIDE DEF m
  <1>2. ASSUME list # <<>>
        PROVE  m # <<>> /\ (Head(list).player = NOTHING => Head(m).player = NOTHING)
    <2>1. 1 \in DOMAIN list /\ Head(list) = list[1] /\ list[1] \in QBlocks
      BY <1>2
    <2>2. m # <<>> /\ Head(m) = m[1]
      BY <1>1, <1>2
    <2>3. [list[1] EXCEPT !.player = NOTHING].player = NOTHING
      BY <2>1 DEF QBlocks, Block
    <2>4. m[1].player = NOTHING \/ m[1] = list[1]
      BY <1>1, <2>1, <2>3
    <2> QED BY <2>1, <2>2, <2>4
  <1> QED BY <1>2 DEF Kept, m

(* What give_que adds to the two queues.                                    *)
LEMMA GiveFacts ==
    ASSUME NEW a \in Seq(QBlocks), NEW b \in Seq(QBlocks), NEW g \in Seq(Live)
    PROVE  /\ a \o GivenFirst(g) \in Seq(QBlocks)
           /\ b \o GivenLow(g) \in Seq(QBlocks)
           /\ Kept(a, a \o GivenFirst(g))
           /\ \A T : Stable(T) =>
                Count(a \o GivenFirst(g), T) + Count(b \o GivenLow(g), T)
                  = Count(a, T) + Count(b, T) + Count(g, T)
PROOF
  <1> DEFINE f == GivenFirst(g)
             l == GivenLow(g)
  <1>1. f \in Seq(QBlocks) /\ l \in Seq(QBlocks)
    BY GivenType
  <1>2. \A T : Stable(T) => Count(f, T) + Count(l, T) = Count(g, T)
    BY GivenCount
  <1> HIDE DEF f, l
  <1>3. a \o f \in Seq(QBlocks) /\ Kept(a, a \o f) /\ b \o l \in Seq(QBlocks)
    BY <1>1, KeptConcat
  <1>4. ASSUME NEW T, Stable(T)
        PROVE  Count(a \o f, T) + Count(b \o l, T) = Count(a, T) + Count(b, T) + Count(g, T)
    <2>1. Count(a \o f, T) = Count(a, T) + Count(f, T)
      BY <1>1, CountConcat
    <2>2. Count(b \o l, T) = Count(b, T) + Count(l, T)
      BY <1>1, CountConcat
    <2>3. /\ Count(a, T) \in Nat /\ Count(b, T) \in Nat
          /\ Count(f, T) \in Nat /\ Count(l, T) \in Nat
      BY <1>1, CountType
    <2>4. Count(f, T) + Count(l, T) = Count(g, T)
      BY <1>2, <1>4
    <2> QED BY <2>1, <2>2, <2>3, <2>4
  <1> QED BY <1>3, <1>4 DEF f, l

-----------------------------------------------------------------------------
(* do_second.                                                               *)
Timed(list) == {i \in DOMAIN list : list[i].waittime # 0 /\ list[i].waittime <= now'}
Untimed(list) == DOMAIN list \ Timed(list)
Free(list) == [i \in DOMAIN list |-> [list[i] EXCEPT !.sem = NOTHING]]

LEMMA FreeFacts ==
    ASSUME NEW list \in Seq(SBlocks)
    PROVE  /\ Free(list) \in Seq(Live)
           /\ \A T : Stable(T) => Count(Free(list), T) = Count(list, T)
PROOF
  <1> DEFINE f == Free(list)
  <1>1. /\ DOMAIN f = DOMAIN list /\ f = [i \in DOMAIN list |-> f[i]]
        /\ \A i \in DOMAIN list : f[i] = [list[i] EXCEPT !.sem = NOTHING]
    BY DEF Free
  <1>2. \A e \in SBlocks : [e EXCEPT !.sem = NOTHING] \in Live /\ e \in Live
    BY DEF SBlocks, Live, Block
  <1>3. \A i \in DOMAIN list : list[i] \in SBlocks
    OBVIOUS
  <1> HIDE DEF f
  <1>4. \A i \in DOMAIN list : f[i] \in Live
    BY <1>1, <1>2, <1>3
  <1>5. f \in Seq(Live)
    BY <1>1, <1>4, Changed
  <1>6. ASSUME NEW T, Stable(T) PROVE Count(f, T) = Count(list, T)
    <2>1. ASSUME NEW i \in DOMAIN f PROVE f[i] \in T <=> list[i] \in T
      <3>1. list[i] \in Live /\ f[i] = [list[i] EXCEPT !.sem = NOTHING]
        BY <1>1, <1>2, <1>3
      <3>2. [list[i] EXCEPT !.sem = NOTHING] \in T <=> list[i] \in T
        BY <3>1, <1>6 DEF Stable
      <3> QED BY <3>1, <3>2
    <2> QED BY <1>1, <1>5, <2>1, CountSame
  <1> QED BY <1>5, <1>6 DEF f

Rest(wait) == IF ReleasedWaits(wait) = <<>> THEN wait ELSE Tail(wait)

LEMMA ReleasedFacts ==
    ASSUME NEW wait \in Seq(WBlocks)
    PROVE  /\ ReleasedWaits(wait) \in Seq(WBlocks)
           /\ Rest(wait) \in Seq(WBlocks)
           /\ \A T : Count(ReleasedWaits(wait), T) + Count(Rest(wait), T) = Count(wait, T)
           /\ Sorted(wait) => Sorted(Rest(wait))
PROOF
  <1>1. CASE wait # <<>> /\ Head(wait).waittime <= now'
    <2>1. ReleasedWaits(wait) = <<Head(wait)>> /\ <<Head(wait)>> # <<>>
      BY <1>1 DEF ReleasedWaits
    <2>2. Rest(wait) = Tail(wait)
      BY <2>1 DEF Rest
    <2>3. Head(wait) \in WBlocks /\ Tail(wait) \in Seq(WBlocks)
      BY <1>1
    <2>4. ASSUME NEW T
          PROVE  Count(<<Head(wait)>>, T) + Count(Tail(wait), T) = Count(wait, T)
      <3>1. Count(<<Head(wait)>>, T) = IF Head(wait) \in T THEN 1 ELSE 0
        BY CountOne
      <3>2. Count(wait, T) = (IF Head(wait) \in T THEN 1 ELSE 0) + Count(Tail(wait), T)
        BY <1>1, CountTail
      <3> QED BY <3>1, <3>2
    <2>5. ASSUME Sorted(wait) PROVE Sorted(Tail(wait))
      <3> DEFINE n == Len(wait)
                 u == Tail(wait)
      <3>1. n \in Nat /\ DOMAIN wait = 1..n /\ n # 0
        BY <1>1
      <3>2. DOMAIN u = 1..(n - 1) /\ \A i \in 1..(n - 1) : u[i] = wait[i + 1]
        BY <1>1
      <3> HIDE DEF n, u
      <3>3. ASSUME NEW i \in 1..(n - 1), NEW j \in 1..(n - 1), i < j
            PROVE  u[i].waittime <= u[j].waittime
        <4>1. i + 1 \in DOMAIN wait /\ j + 1 \in DOMAIN wait /\ i + 1 < j + 1
          BY <3>1, <3>3
        <4>2. wait[i + 1].waittime <= wait[j + 1].waittime
          BY <2>5, <4>1 DEF Sorted
        <4> QED BY <3>2, <4>2
      <3> QED BY <3>2, <3>3 DEF Sorted, u
    <2>6. <<Head(wait)>> \in Seq(WBlocks)
      BY <2>3
    <2> QED BY <2>1, <2>2, <2>3, <2>4, <2>5, <2>6
  <1>2. CASE ~(wait # <<>> /\ Head(wait).waittime <= now')
    <2>1. ReleasedWaits(wait) = <<>>
      BY <1>2 DEF ReleasedWaits
    <2>2. Rest(wait) = wait
      BY <2>1 DEF Rest
    <2>3. <<>> \in Seq(WBlocks)
      OBVIOUS
    <2>4. ASSUME NEW T PROVE Count(<<>>, T) + Count(wait, T) = Count(wait, T)
      <3>1. Count(<<>>, T) = 0 /\ Count(wait, T) \in Nat
        BY CountEmpty, CountType
      <3> QED BY <3>1
    <2> QED BY <2>1, <2>2, <2>3, <2>4
  <1> QED BY <1>1, <1>2

LEMMA SecondFacts ==
    ASSUME ListsOK, semaphore \in [Semaphores -> Int],
           NEW wait \in Seq(WBlocks), NEW sem \in Seq(SBlocks),
           do_second(wait, sem)
    PROVE  /\ ListsOK' /\ semaphore' \in [Semaphores -> Int]
           /\ Kept(qfirst, qfirst')
           /\ Sorted(wait) => Sorted(qwait')
           /\ \A T : Stable(T) =>
                Total(qfirst', qlfirst', qwait', qsemfirst', T)
                  = Total(qfirst, qlfirst, wait, sem, T)
           /\ \A k \in Semaphores :
                semaphore'[k] - Count(qsemfirst', WaitsOn(k))
                  = semaphore[k] - Count(sem, WaitsOn(k))
PROOF
  <1> DEFINE waited == ReleasedWaits(wait)
             P == Timed(sem)
             R == Untimed(sem)
             timed == Pick(sem, P)
             freed == Free(timed)
             both == qfirst \o qlfirst
  <1>1. /\ qfirst' = both \o GivenFirst(waited \o freed)
        /\ qlfirst' = GivenLow(waited \o freed)
        /\ qwait' = Rest(wait)
        /\ qsemfirst' = Pick(sem, R)
        /\ semaphore' = CountDown(semaphore, timed)
    BY DEF do_second, Select, Delete, Positions, Expired, Timed, Untimed, Free, Rest
  <1>2. P \in SUBSET DOMAIN sem /\ R \in SUBSET DOMAIN sem /\ R = DOMAIN sem \ P
    BY DEF Timed, Untimed
  <1> HIDE DEF P, R
  <1>3. timed \in Seq(SBlocks) /\ Pick(sem, R) \in Seq(SBlocks)
    BY <1>2, PickFacts
  <1>4. \A T : Count(timed, T) + Count(Pick(sem, R), T) = Count(sem, T)
    BY <1>2, CountSplit
  <1>5. timed \in Seq(Blocks4)
    BY <1>3, ListKinds
  <1> HIDE DEF timed
  <1>6. freed \in Seq(Live) /\ \A T : Stable(T) => Count(freed, T) = Count(timed, T)
    BY <1>3, FreeFacts
  <1>7. /\ waited \in Seq(WBlocks) /\ Rest(wait) \in Seq(WBlocks)
        /\ \A T : Count(waited, T) + Count(Rest(wait), T) = Count(wait, T)
        /\ Sorted(wait) => Sorted(Rest(wait))
    BY ReleasedFacts
  <1>8. waited \in Seq(Live)
    BY <1>7, ListKinds
  <1> HIDE DEF waited, freed
  <1>9. PICK g \in Seq(Live) : g = waited \o freed
    BY <1>6, <1>8, ConcatProperties
  <1>10. qfirst \in Seq(QBlocks) /\ qlfirst \in Seq(QBlocks)
    BY DEF ListsOK
  <1>11. both \in Seq(QBlocks) /\ Kept(qfirst, both)
    BY <1>10, KeptConcat
  <1>12. \A T : Count(both, T) = Count(qfirst, T) + Count(qlfirst, T)
    BY <1>10, CountConcat
  <1> HIDE DEF both
  <1>13. GivenFirst(g) \in Seq(QBlocks) /\ GivenLow(g) \in Seq(QBlocks)
    BY GivenType
  <1>14. both \o GivenFirst(g) \in Seq(QBlocks) /\ Kept(both, both \o GivenFirst(g))
    BY <1>11, <1>13, KeptConcat
  <1>15. ListsOK'
    BY <1>1, <1>3, <1>7, <1>9, <1>13, <1>14 DEF ListsOK
  <1>16. Kept(qfirst, qfirst')
    BY <1>1, <1>9, <1>11, <1>14 DEF Kept
  <1>17. /\ semaphore' \in [Semaphores -> Int]
         /\ \A k \in Semaphores : semaphore'[k] = semaphore[k] - Count(timed, WaitsOn(k))
    BY <1>1, <1>5, CountDownFacts
  <1>18. ASSUME NEW k \in Semaphores
         PROVE  semaphore'[k] - Count(qsemfirst', WaitsOn(k))
                  = semaphore[k] - Count(sem, WaitsOn(k))
    <2>1. semaphore'[k] = semaphore[k] - Count(timed, WaitsOn(k)) /\ semaphore[k] \in Int
      BY <1>17
    <2>2. Count(timed, WaitsOn(k)) + Count(Pick(sem, R), WaitsOn(k)) = Count(sem, WaitsOn(k))
      BY <1>4
    <2>3. Count(timed, WaitsOn(k)) \in Nat /\ Count(Pick(sem, R), WaitsOn(k)) \in Nat
      BY <1>3, CountType
    <2> QED BY <1>1, <2>1, <2>2, <2>3
  <1>19. ASSUME NEW T, Stable(T)
         PROVE  Total(qfirst', qlfirst', qwait', qsemfirst', T)
                  = Total(qfirst, qlfirst, wait, sem, T)
    <2>1. Count(both \o GivenFirst(g), T) = Count(both, T) + Count(GivenFirst(g), T)
      BY <1>11, <1>13, CountConcat
    <2>2. Count(GivenFirst(g), T) + Count(GivenLow(g), T) = Count(g, T)
      BY <1>19, GivenCount
    <2>3. Count(g, T) = Count(waited, T) + Count(freed, T)
      BY <1>6, <1>8, <1>9, CountConcat
    <2>4. Count(freed, T) = Count(timed, T)
      BY <1>6, <1>19
    <2>5. /\ Count(timed, T) + Count(Pick(sem, R), T) = Count(sem, T)
          /\ Count(waited, T) + Count(Rest(wait), T) = Count(wait, T)
          /\ Count(both, T) = Count(qfirst, T) + Count(qlfirst, T)
      BY <1>4, <1>7, <1>12
    <2>6. /\ Count(GivenFirst(g), T) \in Nat /\ Count(GivenLow(g), T) \in Nat
          /\ Count(qfirst, T) \in Nat /\ Count(qlfirst, T) \in Nat
      BY <1>10, <1>13, CountType
    <2>7. /\ Count(timed, T) \in Nat /\ Count(Pick(sem, R), T) \in Nat
          /\ Count(waited, T) \in Nat /\ Count(Rest(wait), T) \in Nat
      BY <1>3, <1>7, CountType
    <2>8. Total(qfirst', qlfirst', qwait', qsemfirst', T)
            = Count(both \o GivenFirst(g), T) + Count(GivenLow(g), T)
              + Count(Rest(wait), T) + Count(Pick(sem, R), T)
      BY <1>1, <1>9 DEF Total
    <2>9. Total(qfirst, qlfirst, wait, sem, T)
            = Count(qfirst, T) + Count(qlfirst, T) + Count(wait, T) + Count(sem, T)
      BY DEF Total
    <2>10. Count(both \o GivenFirst(g), T)
             = Count(qfirst, T) + Count(qlfirst, T) + Count(GivenFirst(g), T)
      BY <2>1, <2>5
    <2>11. Count(GivenFirst(g), T) + Count(GivenLow(g), T) = Count(waited, T) + Count(timed, T)
      BY <2>2, <2>3, <2>4
    <2> DEFINE f == Count(GivenFirst(g), T)
               l == Count(GivenLow(g), T)
               a == Count(qfirst, T)
               b == Count(qlfirst, T)
               w == Count(waited, T)
               v == Count(Rest(wait), T)
               t == Count(timed, T)
               r == Count(Pick(sem, R), T)
    <2>12. a + b + f + l + v + r = a + b + (w + v) + (t + r)
      <3>1. /\ f \in Nat /\ l \in Nat /\ a \in Nat /\ b \in Nat
            /\ w \in Nat /\ v \in Nat /\ t \in Nat /\ r \in Nat
        BY <2>6, <2>7
      <3>2. f + l = w + t
        BY <2>11
      <3> HIDE DEF f, l, a, b, w, v, t, r
      <3> QED BY <3>1, <3>2
    <2>13. Total(qfirst', qlfirst', qwait', qsemfirst', T) = a + b + f + l + v + r
      BY <2>8, <2>10
    <2>14. Total(qfirst, qlfirst, wait, sem, T) = a + b + (w + v) + (t + r)
      BY <2>5, <2>9
    <2> QED BY <2>12, <2>13, <2>14
  <1> QED BY <1>1, <1>7, <1>15, <1>16, <1>17, <1>18, <1>19

-----------------------------------------------------------------------------
(* wait_que: the block, and the list it is put in.                          *)
Entry(player, cause, wait, sem, attr) ==
    [player |-> player, cause |-> cause, sem |-> sem, attr |-> attr,
     waittime |-> IF wait = 0 THEN 0 ELSE now + wait]

Placed(e, wait, sem) ==
    \/ /\ sem = NOTHING /\ wait <= 0
       /\ qfirst' = qfirst \o GivenFirst(<<e>>)
       /\ qlfirst' = qlfirst \o GivenLow(<<e>>)
       /\ UNCHANGED <<qwait, qsemfirst>>
    \/ /\ sem = NOTHING /\ wait > 0
       /\ qwait' = Insert(qwait, e)
       /\ UNCHANGED <<qfirst, qlfirst, qsemfirst>>
    \/ /\ sem # NOTHING
       /\ qsemfirst' = Append(qsemfirst, e)
       /\ UNCHANGED <<qfirst, qlfirst, qwait>>

LEMMA CountAppend ==
    ASSUME NEW B, NEW s \in Seq(B), NEW e \in B, NEW T
    PROVE  /\ Append(s, e) \in Seq(B)
           /\ Count(Append(s, e), T) = Count(s, T) + (IF e \in T THEN 1 ELSE 0)
PROOF
  <1>1. <<e>> \in Seq(B) /\ Append(s, e) = s \o <<e>>
    OBVIOUS
  <1>2. Count(s \o <<e>>, T) = Count(s, T) + Count(<<e>>, T)
    BY <1>1, CountConcat
  <1>3. Count(<<e>>, T) = IF e \in T THEN 1 ELSE 0
    BY CountOne
  <1> QED BY <1>1, <1>2, <1>3

LEMMA KeptSame ==
    ASSUME NEW a
    PROVE  Kept(a, a)
PROOF
  BY DEF Kept

LEMMA PlacedFacts ==
    ASSUME ListsOK, ObjectsAssumption, NEW e \in Live, NEW wait \in Int, NEW sem, e.sem = sem,
           Placed(e, wait, sem)
    PROVE  /\ ListsOK' /\ Kept(qfirst, qfirst')
           /\ Sorted(qwait) => Sorted(qwait')
           /\ \A T : Stable(T) =>
                Total(qfirst', qlfirst', qwait', qsemfirst', T)
                  = Total(qfirst, qlfirst, qwait, qsemfirst, T)
                    + (IF e \in T THEN 1 ELSE 0)
           /\ \A T : Count(qsemfirst', T) = Count(qsemfirst, T)
                       + (IF sem # NOTHING /\ e \in T THEN 1 ELSE 0)
PROOF
  <1> DEFINE one(T) == IF e \in T THEN 1 ELSE 0
  <1>1. /\ qfirst \in Seq(QBlocks) /\ qlfirst \in Seq(QBlocks)
        /\ qwait \in Seq(WBlocks) /\ qsemfirst \in Seq(SBlocks)
    BY DEF ListsOK
  <1>2. \A T : /\ Count(qfirst, T) \in Nat /\ Count(qlfirst, T) \in Nat
               /\ Count(qwait, T) \in Nat /\ Count(qsemfirst, T) \in Nat
    BY <1>1, CountType
  <1>3. CASE /\ sem = NOTHING /\ wait <= 0
             /\ qfirst' = qfirst \o GivenFirst(<<e>>)
             /\ qlfirst' = qlfirst \o GivenLow(<<e>>)
             /\ UNCHANGED <<qwait, qsemfirst>>
    <2> DEFINE g == <<e>>
               f == qfirst \o GivenFirst(g)
               l == qlfirst \o GivenLow(g)
    <2>1. g \in Seq(Live)
      OBVIOUS
    <2>8. qfirst' = f /\ qlfirst' = l
      BY <1>3
    <2> HIDE DEF g
    <2>9. /\ f \in Seq(QBlocks) /\ l \in Seq(QBlocks) /\ Kept(qfirst, f)
      BY <1>1, <2>1, GiveFacts
    <2>10. \A T : Stable(T) => Count(f, T) + Count(l, T)
                                = Count(qfirst, T) + Count(qlfirst, T) + Count(g, T)
      BY <1>1, <2>1, GiveFacts
    <2> HIDE DEF f, l
    <2>2. /\ qfirst' \in Seq(QBlocks) /\ qlfirst' \in Seq(QBlocks)
          /\ Kept(qfirst, qfirst')
          /\ \A T : Stable(T) => Count(qfirst', T) + Count(qlfirst', T)
                                  = Count(qfirst, T) + Count(qlfirst, T) + Count(<<e>>, T)
      BY <2>8, <2>9, <2>10 DEF g
    <2>3. \A T : Count(<<e>>, T) = one(T)
      BY CountOne
    <2>4. ListsOK'
      BY <1>1, <1>3, <2>2 DEF ListsOK
    <2>5. \A T : Count(qfirst', T) \in Nat /\ Count(qlfirst', T) \in Nat
      BY <2>2, CountType
    <2>6. ASSUME NEW T, Stable(T)
          PROVE  Total(qfirst', qlfirst', qwait', qsemfirst', T)
                   = Total(qfirst, qlfirst, qwait, qsemfirst, T) + one(T)
      <3>1. Count(qfirst', T) + Count(qlfirst', T)
              = Count(qfirst, T) + Count(qlfirst, T) + one(T)
        BY <2>2, <2>3, <2>6
      <3>2. qwait' = qwait /\ qsemfirst' = qsemfirst
        BY <1>3
      <3> QED BY <1>2, <2>5, <3>1, <3>2 DEF Total
    <2>7. \A T : Count(qsemfirst', T) = Count(qsemfirst, T)
                       + (IF sem # NOTHING /\ e \in T THEN 1 ELSE 0)
      BY <1>2, <1>3
    <2>11. Sorted(qwait) => Sorted(qwait')
      BY <1>3
    <2> QED BY <2>2, <2>4, <2>6, <2>7, <2>11
  <1>4. CASE /\ sem = NOTHING /\ wait > 0
             /\ qwait' = Insert(qwait, e)
             /\ UNCHANGED <<qfirst, qlfirst, qsemfirst>>
    <2>1. e \in WBlocks
      BY <1>4 DEF Live, WBlocks, Block
    <2>2. /\ qwait' \in Seq(WBlocks)
          /\ \A T : Count(qwait', T) = Count(qwait, T) + one(T)
          /\ Sorted(qwait) => Sorted(qwait')
      BY <1>1, <1>4, <2>1, InsertFacts
    <2>3. ListsOK'
      BY <1>1, <1>4, <2>2 DEF ListsOK
    <2>4. ASSUME NEW T
          PROVE  Total(qfirst', qlfirst', qwait', qsemfirst', T)
                   = Total(qfirst, qlfirst, qwait, qsemfirst, T) + one(T)
      <3>1. Count(qwait', T) = Count(qwait, T) + one(T)
        BY <2>2
      <3>2. qfirst' = qfirst /\ qlfirst' = qlfirst /\ qsemfirst' = qsemfirst
        BY <1>4
      <3> QED BY <1>2, <3>1, <3>2 DEF Total
    <2>5. \A T : Count(qsemfirst', T) = Count(qsemfirst, T)
      BY <1>4
    <2> QED BY <1>2, <1>4, <2>2, <2>3, <2>4, <2>5, KeptSame
  <1>5. CASE /\ sem # NOTHING
             /\ qsemfirst' = Append(qsemfirst, e)
             /\ UNCHANGED <<qfirst, qlfirst, qwait>>
    <2>1. e \in SBlocks
      BY <1>5 DEF Live, SBlocks, Block
    <2>2. /\ qsemfirst' \in Seq(SBlocks)
          /\ \A T : Count(qsemfirst', T) = Count(qsemfirst, T) + one(T)
      BY <1>1, <1>5, <2>1, CountAppend
    <2>3. ListsOK'
      BY <1>1, <1>5, <2>2 DEF ListsOK
    <2>4. ASSUME NEW T
          PROVE  Total(qfirst', qlfirst', qwait', qsemfirst', T)
                   = Total(qfirst, qlfirst, qwait, qsemfirst, T) + one(T)
      <3>1. Count(qsemfirst', T) = Count(qsemfirst, T) + one(T)
        BY <2>2
      <3>2. qfirst' = qfirst /\ qlfirst' = qlfirst /\ qwait' = qwait
        BY <1>5
      <3> QED BY <1>2, <3>1, <3>2 DEF Total
    <2> QED BY <1>2, <1>5, <2>2, <2>3, <2>4, KeptSame
  <1> QED BY <1>3, <1>4, <1>5 DEF Placed

-----------------------------------------------------------------------------
(* Every waiter is counted.                                                 *)
Covered(list, counts) ==
    \A k \in Semaphores :
        Count(list, WaitsOn(k)) > 0 => counts[k] >= Count(list, WaitsOn(k))

LEMMA CoversCovered ==
    ASSUME ListsOK
    PROVE  SemaphoreCovers <=> Covered(qsemfirst, semaphore)
PROOF
  <1>1. \A k \in Semaphores : Waiters(k[1], k[2]) = Count(qsemfirst, WaitsOn(k))
    BY WaitersFacts DEF ListsOK
  <1> QED BY <1>1 DEF SemaphoreCovers, Covered

LEMMA CoveredLess ==
    ASSUME NEW list \in Seq(SBlocks), NEW rest \in Seq(SBlocks),
           NEW counts \in [Semaphores -> Int], NEW left \in [Semaphores -> Int],
           Covered(list, counts),
           \A k \in Semaphores :
              /\ Count(rest, WaitsOn(k)) <= Count(list, WaitsOn(k))
              /\ left[k] - Count(rest, WaitsOn(k)) >= counts[k] - Count(list, WaitsOn(k))
    PROVE  Covered(rest, left)
PROOF
  <1>1. ASSUME NEW k \in Semaphores, Count(rest, WaitsOn(k)) > 0
        PROVE  left[k] >= Count(rest, WaitsOn(k))
    <2>1. Count(list, WaitsOn(k)) \in Nat /\ Count(rest, WaitsOn(k)) \in Nat
      BY CountType
    <2>2. counts[k] \in Int /\ left[k] \in Int
      OBVIOUS
    <2>3. counts[k] >= Count(list, WaitsOn(k))
      BY <1>1, <2>1 DEF Covered
    <2> QED BY <2>1, <2>2, <2>3
  <1> QED BY <1>1 DEF Covered

LEMMA LeftSplit ==
    ASSUME NEW list \in Seq(Blocks4), NEW player, NEW object, NEW T \in SUBSET Blocks4
    PROVE  /\ Count(list, T) = Count(list, T \cap Wanted(player, object))
                                 + Count(list, Left(player, object, T))
           /\ Count(list, T \cap Wanted(player, object)) \in Nat
           /\ Count(list, Left(player, object, T)) \in Nat
PROOF
  <1> DEFINE W == Wanted(player, object)
             U == Left(player, object, T)
  <1>1. T = (T \cap W) \cup U /\ (T \cap W) \cap U = {}
    BY DEF Left
  <1> HIDE DEF W, U
  <1>2. Count(list, (T \cap W) \cup U) = Count(list, T \cap W) + Count(list, U)
    BY <1>1, CountKinds
  <1>3. Count(list, T \cap W) \in Nat /\ Count(list, U) \in Nat
    BY CountType
  <1> QED BY <1>1, <1>2, <1>3 DEF W, U

LEMMA KindTypes ==
    \A k : WaitsOn(k) \in SUBSET Blocks4 /\ Of(k) \in SUBSET Blocks4
PROOF
  BY DEF WaitsOn, Of

LEMMA HaltKeeps ==
    ASSUME ListsOK, NEW player, NEW object, NEW payee \in Players,
           NEW counts \in [Semaphores -> Int], NEW queues \in [Players -> Int],
           NEW purses \in [Mortals -> Int],
           halt_que(player, object, payee, counts, queues, purses)
    PROVE  /\ ListsOK' /\ NumbersOK' /\ Kept(qfirst, qfirst')
           /\ Sorted(qwait) => Sorted(qwait')
           /\ Covered(qsemfirst, counts) => Covered(qsemfirst', semaphore')
PROOF
  <1>1. PICK n : n = Total(qfirst, qlfirst, qwait, qsemfirst, Wanted(player, object))
    OBVIOUS
  <1>2. /\ ListsOK' /\ NumbersOK'
        /\ \A k \in Semaphores :
             semaphore'[k] = counts[k] - Count(qsemfirst, WaitsOn(k) \cap Wanted(player, object))
        /\ \A T : Count(qsemfirst', T) = Count(qsemfirst, Left(player, object, T))
    BY <1>1, HaltFacts
  <1>3. /\ qfirst' = Mark(qfirst, player, object)
        /\ qwait' = Pick(qwait, Unsought(qwait, player, object))
    BY DEF halt_que, Delete, Positions, Sought, Unsought
  <1>4. Kept(qfirst, qfirst')
    BY <1>3, KeptMark DEF ListsOK
  <1>5. ASSUME Sorted(qwait) PROVE Sorted(qwait')
    <2> DEFINE R == Unsought(qwait, player, object)
    <2>1. R \in SUBSET DOMAIN qwait /\ qwait \in Seq(WBlocks)
      BY DEF Unsought, ListsOK
    <2> HIDE DEF R
    <2>2. Sorted(Pick(qwait, R))
      BY <1>5, <2>1, PickSorted
    <2> QED BY <1>3, <2>2 DEF R
  <1>6. ASSUME Covered(qsemfirst, counts) PROVE Covered(qsemfirst', semaphore')
    <2>1. ASSUME NEW k \in Semaphores
          PROVE  /\ Count(qsemfirst', WaitsOn(k)) <= Count(qsemfirst, WaitsOn(k))
                 /\ semaphore'[k] - Count(qsemfirst', WaitsOn(k))
                      >= counts[k] - Count(qsemfirst, WaitsOn(k))
      <3>1. qsemfirst \in Seq(Blocks4) /\ WaitsOn(k) \in SUBSET Blocks4
        BY AllBlocks4, KindTypes
      <3>2. /\ Count(qsemfirst, WaitsOn(k))
                 = Count(qsemfirst, WaitsOn(k) \cap Wanted(player, object))
                     + Count(qsemfirst, Left(player, object, WaitsOn(k)))
            /\ Count(qsemfirst, WaitsOn(k) \cap Wanted(player, object)) \in Nat
            /\ Count(qsemfirst, Left(player, object, WaitsOn(k))) \in Nat
        BY <3>1, LeftSplit
      <3>3. /\ Count(qsemfirst', WaitsOn(k)) = Count(qsemfirst, Left(player, object, WaitsOn(k)))
            /\ semaphore'[k] = counts[k] - Count(qsemfirst, WaitsOn(k) \cap Wanted(player, object))
        BY <1>2
      <3>4. counts[k] \in Int
        OBVIOUS
      <3> QED BY <3>2, <3>3, <3>4
    <2>2. qsemfirst \in Seq(SBlocks) /\ qsemfirst' \in Seq(SBlocks) /\ semaphore' \in [Semaphores -> Int]
      BY <1>2 DEF ListsOK, NumbersOK
    <2> QED BY <1>6, <2>1, <2>2, CoveredLess
  <1> QED BY <1>2, <1>4, <1>5, <1>6

-----------------------------------------------------------------------------
(* wait_que: refused, over the quota, or queued.                            *)
LEMMA WaitCases ==
    ASSUME NEW player, NEW cause, NEW wait, NEW sem, NEW attr, NEW counts,
           wait_que(player, cause, wait, sem, attr, counts)
    PROVE  \E extra \in Surcharges :
             LET e       == Entry(player, cause, wait, sem, attr)
                 who     == Owner(player)
                 counted == [queue EXCEPT ![who] = @ + 1]
                 paid    == Give(pennies, who, -(WaitCost + extra))
             IN  /\ UNCHANGED <<owner, going, gone, control_flags, tops, now>>
                 /\ added < MaxAdded
                 /\ \/ /\ semaphore' = counts
                       /\ UNCHANGED <<lists, accounts, halted, added>>
                    \/ /\ halt_que(who, NOTHING, who, counts, counted, paid)
                       /\ halted' = halted \cup {player}
                       /\ added' = added + 1
                    \/ /\ ~OverQuota(who, counted)
                       /\ queue' = counted /\ pennies' = paid
                       /\ semaphore' = counts
                       /\ added' = added + 1
                       /\ Placed(e, wait, sem)
                       /\ UNCHANGED halted
PROOF
  BY DEF wait_que, Entry, Placed

LEMMA OwnerType ==
    ASSUME WorldOK, NEW x \in Objects \cup {NOTHING}
    PROVE  Owner(x) \in Players
PROOF
  BY DEF WorldOK, Owner, Objects, Players

Steady ==
    /\ ListsOK' /\ NumbersOK' /\ WorldOK' /\ LoopOK'
    /\ Kept(qfirst, qfirst')
    /\ Sorted(qwait) => Sorted(qwait')

LEMMA WaitSteady ==
    ASSUME ObjectsAssumption, CostAssumption, ListsOK, NumbersOK, WorldOK, LoopOK,
           NEW player \in Objects, NEW cause \in Objects, NEW wait \in Int,
           NEW sem \in Things \cup {NOTHING}, NEW attr \in Attrs \cup {0},
           NEW counts \in [Semaphores -> Int],
           Covered(qsemfirst, semaphore) =>
              Covered(qsemfirst, counts) /\
              (sem # NOTHING =>
                  counts[<<sem, attr>>] > Count(qsemfirst, WaitsOn(<<sem, attr>>))),
           wait_que(player, cause, wait, sem, attr, counts)
    PROVE  /\ Steady /\ UNCHANGED tops
           /\ Covered(qsemfirst, semaphore) => Covered(qsemfirst', semaphore')
PROOF
  <1> DEFINE e       == Entry(player, cause, wait, sem, attr)
             who     == Owner(player)
             counted == [queue EXCEPT ![who] = @ + 1]
             paid(x) == Give(pennies, who, -(WaitCost + x))
  <1>1. PICK extra \in Surcharges :
          /\ UNCHANGED <<owner, going, gone, control_flags, tops, now>>
          /\ added < MaxAdded
          /\ \/ /\ semaphore' = counts
                /\ UNCHANGED <<lists, accounts, halted, added>>
             \/ /\ halt_que(who, NOTHING, who, counts, counted, paid(extra))
                /\ halted' = halted \cup {player}
                /\ added' = added + 1
             \/ /\ ~OverQuota(who, counted)
                /\ queue' = counted /\ pennies' = paid(extra)
                /\ semaphore' = counts
                /\ added' = added + 1
                /\ Placed(e, wait, sem)
                /\ UNCHANGED halted
    BY WaitCases
  <1>2. who \in Players
    BY OwnerType
  <1>3. /\ e \in Live /\ e.sem = sem /\ e.attr = attr
    BY DEF Entry, Live, Block, LoopOK
  <1> HIDE DEF e, who
  <1>4. counted \in [Players -> Int]
    BY <1>2 DEF NumbersOK
  <1>5. -(WaitCost + extra) \in Int
    BY CostAssumption
  <1>6. paid(extra) \in [Mortals -> Int]
    BY <1>2, <1>5, GiveType DEF NumbersOK
  <1> HIDE DEF counted, paid
  <1>7. CASE /\ semaphore' = counts
             /\ UNCHANGED <<lists, accounts, halted, added>>
    <2>1. UNCHANGED <<qfirst, qlfirst, qwait, qsemfirst, queue, pennies, halted, added>>
      BY <1>7 DEF lists, accounts
    <2>2. ListsOK' /\ NumbersOK' /\ WorldOK' /\ LoopOK'
      BY <1>1, <1>7, <2>1 DEF ListsOK, NumbersOK, WorldOK, LoopOK
    <2>3. Kept(qfirst, qfirst') /\ (Sorted(qwait) => Sorted(qwait'))
      BY <2>1, KeptSame
    <2>4. Covered(qsemfirst, semaphore) => Covered(qsemfirst', semaphore')
      BY <1>7, <2>1
    <2> QED BY <1>1, <2>2, <2>3, <2>4 DEF Steady
  <1>8. CASE /\ halt_que(who, NOTHING, who, counts, counted, paid(extra))
             /\ halted' = halted \cup {player}
             /\ added' = added + 1
    <2>1. /\ ListsOK' /\ NumbersOK' /\ Kept(qfirst, qfirst')
          /\ Sorted(qwait) => Sorted(qwait')
          /\ Covered(qsemfirst, counts) => Covered(qsemfirst', semaphore')
      BY <1>2, <1>4, <1>6, <1>8, HaltKeeps
    <2>2. WorldOK'
      BY <1>1, <1>8 DEF WorldOK
    <2>3. LoopOK'
      BY <1>1, <1>8 DEF LoopOK
    <2> QED BY <1>1, <2>1, <2>2, <2>3 DEF Steady
  <1>9. CASE /\ ~OverQuota(who, counted)
             /\ queue' = counted /\ pennies' = paid(extra)
             /\ semaphore' = counts
             /\ added' = added + 1
             /\ Placed(e, wait, sem)
             /\ UNCHANGED halted
    <2>1. /\ ListsOK' /\ Kept(qfirst, qfirst')
          /\ Sorted(qwait) => Sorted(qwait')
          /\ \A T : Count(qsemfirst', T) = Count(qsemfirst, T)
                       + (IF sem # NOTHING /\ e \in T THEN 1 ELSE 0)
      BY <1>3, <1>9, PlacedFacts
    <2>2. NumbersOK'
      BY <1>4, <1>6, <1>9 DEF NumbersOK
    <2>3. WorldOK'
      BY <1>1, <1>9 DEF WorldOK
    <2>4. LoopOK'
      BY <1>1, <1>9 DEF LoopOK
    <2>5. ASSUME Covered(qsemfirst, semaphore) PROVE Covered(qsemfirst', semaphore')
      <3>1. ASSUME NEW k \in Semaphores, Count(qsemfirst', WaitsOn(k)) > 0
            PROVE  counts[k] >= Count(qsemfirst', WaitsOn(k))
        <4>1. Count(qsemfirst, WaitsOn(k)) \in Nat /\ counts[k] \in Int
          BY CountType DEF ListsOK
        <4>2. CASE sem # NOTHING /\ e \in WaitsOn(k)
          <5>1. k = <<sem, attr>>
            BY <1>3, <4>2 DEF WaitsOn
          <5>2. counts[k] > Count(qsemfirst, WaitsOn(k))
            BY <2>5, <4>2, <5>1
          <5>3. Count(qsemfirst', WaitsOn(k)) = Count(qsemfirst, WaitsOn(k)) + 1
            BY <2>1, <4>2
          <5> QED BY <4>1, <5>2, <5>3
        <4>3. CASE ~(sem # NOTHING /\ e \in WaitsOn(k))
          <5>1. Count(qsemfirst', WaitsOn(k)) = Count(qsemfirst, WaitsOn(k)) + 0
            BY <2>1, <4>3
          <5>2. Count(qsemfirst', WaitsOn(k)) = Count(qsemfirst, WaitsOn(k))
            BY <4>1, <5>1
          <5> QED BY <2>5, <3>1, <5>2 DEF Covered
        <4> QED BY <4>2, <4>3
      <3> QED BY <1>9, <3>1 DEF Covered
    <2> QED BY <1>1, <2>1, <2>2, <2>3, <2>4, <2>5 DEF Steady
  <1> QED BY <1>1, <1>7, <1>8, <1>9

-----------------------------------------------------------------------------
(* nfy_que.  As many of the first numbers in a set as asked for.            *)
LEMMA FirstOnes ==
    ASSUME NEW n \in Nat, NEW S \in SUBSET (1..n), NEW c \in Nat
    PROVE  Cardinality({i \in S : Rank(S, i) <= c})
             = IF c <= Cardinality(S) THEN c ELSE Cardinality(S)
PROOF
  <1> DEFINE m == Cardinality(S)
             N == 1..m
             f == Place(S)
             T == {i \in S : Rank(S, i) <= c}
  <1>1. m \in Nat /\ m \in 0..n
    BY FinitePositions
  <1>2. \A x \in S : Rank(S, x) \in N
    BY RankGrows
  <1>3. /\ f \in [N -> S]
        /\ \A i \in N : Rank(S, f[i]) = i
        /\ \A x \in S : \E i \in N : f[i] = x
    BY PlaceFacts
  <1> HIDE DEF m, f
  <1>4. CASE c <= m
    <2> DEFINE C == 1..c
               g == [i \in C |-> f[i]]
    <2>1. \A i \in C : i \in N /\ i <= c
      BY <1>1, <1>4
    <2>2. IsFiniteSet(C) /\ Cardinality(C) = c
      <3>1. IsFiniteSet(1..c) /\ Cardinality(1..c) = IF 1 > c THEN 0 ELSE c - 1 + 1
        BY FS_Interval
      <3> QED BY <3>1
    <2>3. g \in [C -> T]
      BY <1>3, <2>1
    <2>4. \A a, b \in C : g[a] = g[b] => a = b
      BY <1>3, <2>1
    <2>5. ASSUME NEW x \in T PROVE \E i \in C : g[i] = x
      <3>1. x \in S /\ Rank(S, x) <= c
        OBVIOUS
      <3>2. PICK i \in N : f[i] = x
        BY <1>3, <3>1
      <3>3. i <= c
        BY <1>3, <3>1, <3>2
      <3>4. i \in C
        BY <1>1, <3>3
      <3> QED BY <3>2, <3>4
    <2> HIDE DEF C, g, T
    <2>6. Cardinality(T) = Cardinality(C)
      BY <2>2, <2>3, <2>4, <2>5, Matched
    <2> QED BY <1>4, <2>2, <2>6 DEF m, T
  <1>5. CASE ~(c <= m)
    <2>1. \A x \in S : Rank(S, x) <= c
      BY <1>1, <1>2, <1>5
    <2>2. T = S
      BY <2>1
    <2> QED BY <1>5, <2>2 DEF m
  <1> QED BY <1>4, <1>5

Waiting(list, sem, attr) == {i \in DOMAIN list : Waits(list[i], sem, attr)}

ChosenNow(sem, attr, key, count) ==
    IF semaphore[<<sem, attr>>] > 0 THEN Notified(sem, attr, key, count) ELSE {}

LEMMA NotifiedFacts ==
    ASSUME ListsOK, NEW sem, NEW attr, NEW key, NEW count \in Nat
    PROVE  LET k == <<sem, attr>>
               N == Count(qsemfirst, WaitsOn(k))
               S == Notified(sem, attr, key, count)
           IN  /\ S \in SUBSET DOMAIN qsemfirst
               /\ \A i \in S : qsemfirst[i] \in WaitsOn(k)
               /\ Cardinality(S) = IF key = "first" /\ count <= N THEN count ELSE N
PROOF
  <1> DEFINE k == <<sem, attr>>
             N == Count(qsemfirst, WaitsOn(k))
             S == Notified(sem, attr, key, count)
             P == Waiting(qsemfirst, sem, attr)
  <1>1. S = {i \in P : key = "first" => Rank(P, i) <= count}
    BY DEF Notified, Positions, Waiting
  <1>2. qsemfirst \in Seq(Blocks4)
    BY AllBlocks4
  <1>3. \A i \in DOMAIN qsemfirst : qsemfirst[i] \in Blocks4
    BY <1>2
  <1>4. P = {i \in DOMAIN qsemfirst : qsemfirst[i] \in WaitsOn(k)}
    BY <1>3 DEF Waiting, Waits, WaitsOn
  <1>5. Cardinality(P) = N /\ P \in SUBSET (1..Len(qsemfirst)) /\ Len(qsemfirst) \in Nat
    BY <1>2, <1>4 DEF Count
  <1>6. \A i \in P : qsemfirst[i] \in WaitsOn(k)
    BY <1>4
  <1>7. P \in SUBSET DOMAIN qsemfirst
    BY <1>4
  <1> HIDE DEF P, N, S
  <1>8. S \in SUBSET P
    BY <1>1
  <1>9. Cardinality(S) = IF key = "first" /\ count <= N THEN count ELSE N
    <2>1. CASE key = "first"
      <3>1. S = {i \in P : Rank(P, i) <= count}
        BY <1>1, <2>1
      <3>2. Cardinality({i \in P : Rank(P, i) <= count})
              = IF count <= Cardinality(P) THEN count ELSE Cardinality(P)
        BY <1>5, FirstOnes
      <3> QED BY <1>5, <2>1, <3>1, <3>2
    <2>2. CASE key # "first"
      <3>1. S = P
        BY <1>1, <2>2
      <3> QED BY <1>5, <2>2, <3>1
    <2> QED BY <2>1, <2>2
  <1> QED BY <1>6, <1>7, <1>8, <1>9 DEF N, S

(* What the blocks taken out of the semaphore queue leave.                  *)
LEMMA TakenFacts ==
    ASSUME ListsOK, NEW S \in SUBSET DOMAIN qsemfirst
    PROVE  /\ Pick(qsemfirst, S) \in Seq(SBlocks)
           /\ Pick(qsemfirst, S) \in Seq(Live)
           /\ Pick(qsemfirst, S) \in Seq(Blocks4)
           /\ Pick(qsemfirst, DOMAIN qsemfirst \ S) \in Seq(SBlocks)
           /\ \A T : /\ Count(Pick(qsemfirst, S), T) + Count(Pick(qsemfirst, DOMAIN qsemfirst \ S), T)
                          = Count(qsemfirst, T)
                     /\ Count(Pick(qsemfirst, S), T) \in Nat
                     /\ Count(Pick(qsemfirst, DOMAIN qsemfirst \ S), T) \in Nat
           /\ \A T : (\A i \in S : qsemfirst[i] \in T) =>
                        Count(Pick(qsemfirst, S), T) = Cardinality(S)
           /\ \A T : (\A i \in S : qsemfirst[i] \notin T) =>
                        Count(Pick(qsemfirst, S), T) = 0
PROOF
  <1> DEFINE R == DOMAIN qsemfirst \ S
             p == Pick(qsemfirst, S)
             r == Pick(qsemfirst, R)
  <1>1. qsemfirst \in Seq(SBlocks) /\ R \in SUBSET DOMAIN qsemfirst
    BY DEF ListsOK
  <1>2. \A T : Count(p, T) + Count(r, T) = Count(qsemfirst, T)
    BY <1>1, CountSplit
  <1>3. \A T : Count(p, T) = Cardinality({i \in S : qsemfirst[i] \in T})
    BY <1>1, CountPick
  <1> HIDE DEF R
  <1>4. p \in Seq(SBlocks) /\ r \in Seq(SBlocks)
    BY <1>1, PickFacts
  <1> HIDE DEF p, r
  <1>5. p \in Seq(Live) /\ p \in Seq(Blocks4)
    BY <1>4, ListKinds
  <1>6. \A T : Count(p, T) \in Nat /\ Count(r, T) \in Nat
    BY <1>4, CountType
  <1>7. ASSUME NEW T, \A i \in S : qsemfirst[i] \in T PROVE Count(p, T) = Cardinality(S)
    <2>1. {i \in S : qsemfirst[i] \in T} = S
      BY <1>7
    <2> QED BY <1>3, <2>1
  <1>8. ASSUME NEW T, \A i \in S : qsemfirst[i] \notin T PROVE Count(p, T) = 0
    <2>1. {i \in S : qsemfirst[i] \in T} = {}
      BY <1>8
    <2>2. Cardinality({}) = 0
      BY FS_EmptySet
    <2> QED BY <1>3, <2>1, <2>2
  <1> QED BY <1>2, <1>4, <1>5, <1>6, <1>7, <1>8 DEF p, r, R

-----------------------------------------------------------------------------
(* A step returns the deposit of, and uncounts, n commands of a player, of  *)
(* whom at least n fewer are pending after it.                              *)
Pend(p) == Total(qfirst, qlfirst, qwait, qsemfirst, Of(p))

Settled(p) ==
    \E n \in Nat : /\ Pend(p)' + n <= Pend(p)
                   /\ queue'[p] = queue[p] - n
                   /\ pennies'[p] = pennies[p] + WaitCost * n

LEMMA PendType ==
    ASSUME ListsOK, NEW p
    PROVE  /\ Pend(p) \in Nat
           /\ Pending(p) = Pend(p)
           /\ Count(qfirst, Of(p)) \in Nat /\ Count(qlfirst, Of(p)) \in Nat
           /\ Count(qwait, Of(p)) \in Nat /\ Count(qsemfirst, Of(p)) \in Nat
PROOF
  <1>1. /\ qfirst \in Seq(Blocks4) /\ qlfirst \in Seq(Blocks4)
        /\ qwait \in Seq(Blocks4) /\ qsemfirst \in Seq(Blocks4)
    BY AllBlocks4
  <1> DEFINE all == qfirst \o qlfirst \o qwait \o qsemfirst
  <1>2. /\ all \in Seq(Blocks4)
        /\ Count(all, Of(p)) = Total(qfirst, qlfirst, qwait, qsemfirst, Of(p))
    BY <1>1, TotalFacts
  <1>5. /\ Count(qfirst, Of(p)) \in Nat /\ Count(qlfirst, Of(p)) \in Nat
        /\ Count(qwait, Of(p)) \in Nat /\ Count(qsemfirst, Of(p)) \in Nat
        /\ Total(qfirst, qlfirst, qwait, qsemfirst, Of(p)) \in Nat
    BY <1>1, TotalFacts
  <1>3. Pending(p) = OwnedBy(p, all)
    BY DEF Pending
  <1> HIDE DEF all
  <1>4. OwnedBy(p, all) = Count(all, Of(p))
    BY <1>2, OwnedByFacts
  <1> QED BY <1>2, <1>3, <1>4, <1>5 DEF Pend

LEMMA OfSame ==
    ASSUME owner' = owner
    PROVE  \A p : Of(p)' = Of(p)
PROOF
  BY DEF Of, Owner

LEMMA PendNext ==
    ASSUME owner' = owner, NEW p
    PROVE  Pend(p)' = Total(qfirst', qlfirst', qwait', qsemfirst', Of(p))
PROOF
  BY OfSame DEF Pend, Total

LEMMA SettledZero ==
    ASSUME ListsOK, NumbersOK, NEW p \in Mortals, Pend(p)' <= Pend(p), Pend(p)' \in Nat,
           queue'[p] = queue[p], pennies'[p] = pennies[p]
    PROVE  Settled(p)
PROOF
  <1>1. queue[p] \in Int /\ pennies[p] \in Int
    BY DEF NumbersOK, Players
  <1>2. WaitCost * 0 = 0
    BY CostAssumption
  <1>3. /\ Pend(p)' + 0 <= Pend(p) /\ queue'[p] = queue[p] - 0
        /\ pennies'[p] = pennies[p] + WaitCost * 0
    BY <1>1, <1>2
  <1> QED BY <1>3 DEF Settled

LEMMA SettledSame ==
    ASSUME ListsOK, NumbersOK, UNCHANGED <<lists, accounts, owner>>, NEW p \in Mortals
    PROVE  Settled(p)
PROOF
  <1>1. /\ qfirst' = qfirst /\ qlfirst' = qlfirst /\ qwait' = qwait
        /\ qsemfirst' = qsemfirst /\ queue' = queue /\ pennies' = pennies
        /\ owner' = owner
    BY DEF lists, accounts
  <1>2. Pend(p)' = Pend(p)
    BY <1>1, PendNext DEF Pend
  <1>3. Pend(p) \in Nat
    BY PendType
  <1> QED BY <1>1, <1>2, <1>3, SettledZero

LEMMA RefundFacts ==
    ASSUME NumbersOK, NEW list \in Seq(Blocks4)
    PROVE  /\ Refund(pennies, list) \in [Mortals -> Int]
           /\ Uncount(queue, list) \in [Players -> Int]
           /\ \A p \in Mortals :
                /\ Refund(pennies, list)[p] = pennies[p] + WaitCost * Count(list, Of(p))
                /\ Uncount(queue, list)[p] = queue[p] - Count(list, Of(p))
PROOF
  <1>1. \A p : OwnedBy(p, list) = Count(list, Of(p)) /\ OwnedBy(p, list) \in Nat
    BY OwnedByFacts
  <1>2. Mortals \subseteq Players
    BY DEF Players
  <1>3. ASSUME NEW p \in Mortals PROVE pennies[p] + WaitCost * OwnedBy(p, list) \in Int
    <2>1. pennies[p] \in Int /\ WaitCost \in Nat /\ OwnedBy(p, list) \in Nat
      BY <1>1, CostAssumption DEF NumbersOK
    <2> QED BY <2>1
  <1>4. ASSUME NEW p \in Players PROVE queue[p] - OwnedBy(p, list) \in Int
    <2>1. queue[p] \in Int /\ OwnedBy(p, list) \in Nat
      BY <1>1 DEF NumbersOK
    <2> QED BY <2>1
  <1>5. Refund(pennies, list) = [p \in Mortals |-> pennies[p] + WaitCost * OwnedBy(p, list)]
    BY DEF Refund
  <1>6. Uncount(queue, list) = [p \in Players |-> queue[p] - OwnedBy(p, list)]
    BY DEF Uncount
  <1>7. Refund(pennies, list) \in [Mortals -> Int] /\ Uncount(queue, list) \in [Players -> Int]
    BY <1>3, <1>4, <1>5, <1>6
  <1> QED BY <1>1, <1>2, <1>5, <1>6, <1>7

LEMMA NotifySteady ==
    ASSUME ListsOK, NumbersOK, NEW sem, NEW attr, <<sem, attr>> \in Semaphores,
           NEW key, NEW count \in Nat, nfy_que(sem, attr, key, count)
    PROVE  /\ ListsOK' /\ NumbersOK' /\ Kept(qfirst, qfirst') /\ qwait' = qwait
           /\ Covered(qsemfirst, semaphore) => Covered(qsemfirst', semaphore')
           /\ owner' = owner => \A p \in Mortals : Settled(p)
PROOF
  <1> DEFINE k == <<sem, attr>>
             N == Count(qsemfirst, WaitsOn(k))
             S == ChosenNow(sem, attr, key, count)
             p == Pick(qsemfirst, S)
             r == Pick(qsemfirst, DOMAIN qsemfirst \ S)
  <1>1. /\ qsemfirst' = r /\ qwait' = qwait
        /\ IF key = "drain"
             THEN /\ pennies' = Refund(pennies, p)
                  /\ queue' = Uncount(queue, p)
                  /\ qfirst' = qfirst /\ qlfirst' = qlfirst
             ELSE /\ qfirst' = qfirst \o GivenFirst(p)
                  /\ qlfirst' = qlfirst \o GivenLow(p)
                  /\ queue' = queue /\ pennies' = pennies
        /\ semaphore' = [semaphore EXCEPT ![k] = IF key = "first" THEN @ - count ELSE 0]
    BY DEF nfy_que, ChosenNow, accounts
  <1>2. /\ S \in SUBSET DOMAIN qsemfirst
        /\ \A i \in S : qsemfirst[i] \in WaitsOn(k)
        /\ semaphore[k] > 0 =>
             Cardinality(S) = IF key = "first" /\ count <= N THEN count ELSE N
    BY NotifiedFacts DEF ChosenNow
  <1> HIDE DEF S
  <1>3. p \in Seq(SBlocks) /\ p \in Seq(Live) /\ p \in Seq(Blocks4) /\ r \in Seq(SBlocks)
    BY <1>2, TakenFacts
  <1>4. \A T : /\ Count(p, T) + Count(r, T) = Count(qsemfirst, T)
               /\ Count(p, T) \in Nat /\ Count(r, T) \in Nat
    BY <1>2, TakenFacts
  <1>5. Count(p, WaitsOn(k)) = Cardinality(S)
    BY <1>2, TakenFacts
  <1>6. ASSUME NEW h \in Semaphores, h # k PROVE Count(p, WaitsOn(h)) = 0
    <2>1. \A i \in S : qsemfirst[i] \notin WaitsOn(h)
      BY <1>2, <1>6 DEF WaitsOn
    <2> QED BY <1>2, <2>1, TakenFacts
  <1> HIDE DEF p, r
  <1>7. qfirst \in Seq(QBlocks) /\ qlfirst \in Seq(QBlocks) /\ qwait \in Seq(WBlocks)
    BY DEF ListsOK
  <1>8. /\ qfirst' \in Seq(QBlocks) /\ qlfirst' \in Seq(QBlocks) /\ Kept(qfirst, qfirst')
    <2>1. CASE key = "drain"
      BY <1>1, <1>7, <2>1, KeptSame
    <2>2. CASE key # "drain"
      <3>1. /\ qfirst \o GivenFirst(p) \in Seq(QBlocks)
            /\ qlfirst \o GivenLow(p) \in Seq(QBlocks)
            /\ Kept(qfirst, qfirst \o GivenFirst(p))
        BY <1>3, <1>7, GiveFacts
      <3> QED BY <1>1, <2>2, <3>1
    <2> QED BY <2>1, <2>2
  <1>9. ListsOK'
    BY <1>1, <1>3, <1>7, <1>8 DEF ListsOK
  <1>10. /\ Refund(pennies, p) \in [Mortals -> Int]
         /\ Uncount(queue, p) \in [Players -> Int]
         /\ \A q \in Mortals :
                /\ Refund(pennies, p)[q] = pennies[q] + WaitCost * Count(p, Of(q))
                /\ Uncount(queue, p)[q] = queue[q] - Count(p, Of(q))
    BY <1>3, RefundFacts
  <1>11. semaphore' \in [Semaphores -> Int]
    <2>1. semaphore[k] \in Int /\ semaphore \in [Semaphores -> Int]
      BY DEF NumbersOK
    <2>2. (IF key = "first" THEN semaphore[k] - count ELSE 0) \in Int
      BY <2>1
    <2> QED BY <1>1, <2>1, <2>2
  <1>12. queue' \in [Players -> Int] /\ pennies' \in [Mortals -> Int]
    <2>1. CASE key = "drain"
      BY <1>1, <1>10, <2>1
    <2>2. CASE key # "drain"
      BY <1>1, <2>2 DEF NumbersOK
    <2> QED BY <2>1, <2>2
  <1>13. NumbersOK'
    BY <1>11, <1>12 DEF NumbersOK
  <1>14. ASSUME Covered(qsemfirst, semaphore), NEW h \in Semaphores,
                Count(r, WaitsOn(h)) > 0
         PROVE  semaphore'[h] >= Count(r, WaitsOn(h))
    <2>1. /\ Count(p, WaitsOn(h)) + Count(r, WaitsOn(h)) = Count(qsemfirst, WaitsOn(h))
          /\ Count(p, WaitsOn(h)) \in Nat /\ Count(r, WaitsOn(h)) \in Nat
      BY <1>4
    <2>2. Count(qsemfirst, WaitsOn(h)) > 0
      BY <1>14, <2>1
    <2>3. semaphore[h] >= Count(qsemfirst, WaitsOn(h)) /\ semaphore[h] \in Int
      BY <1>14, <2>2 DEF Covered, NumbersOK
    <2>4. CASE h # k
      <3>1. semaphore'[h] = semaphore[h]
        BY <1>1, <2>4 DEF NumbersOK
      <3>2. Count(p, WaitsOn(h)) = 0
        BY <1>6, <2>4
      <3> QED BY <2>1, <2>3, <3>1, <3>2
    <2>5. CASE h = k
      <3>1. semaphore[k] > 0
        BY <2>1, <2>2, <2>3, <2>5
      <3>2. Count(p, WaitsOn(k)) = IF key = "first" /\ count <= N THEN count ELSE N
        BY <1>2, <1>5, <3>1
      <3>3. key = "first" /\ Count(p, WaitsOn(k)) = count
        BY <1>14, <2>1, <2>5, <3>2
      <3>4. semaphore'[k] = semaphore[k] - count
        BY <1>1, <3>3 DEF NumbersOK
      <3> QED BY <2>1, <2>3, <2>5, <3>3, <3>4
    <2> QED BY <2>4, <2>5
  <1>15. ASSUME owner' = owner, NEW q \in Mortals PROVE Settled(q)
    <2> DEFINE a == Count(qfirst, Of(q))
               b == Count(qlfirst, Of(q))
               c == Count(qwait, Of(q))
               n == Count(p, Of(q))
               m == Count(r, Of(q))
    <2>1. a \in Nat /\ b \in Nat /\ c \in Nat /\ n \in Nat /\ m \in Nat
      BY <1>4, PendType
    <2>2. Pend(q) = a + b + c + Count(qsemfirst, Of(q)) /\ Count(qsemfirst, Of(q)) = n + m
      BY <1>4 DEF Pend, Total
    <2>3. Pend(q)' = Count(qfirst', Of(q)) + Count(qlfirst', Of(q)) + c + m
      BY <1>1, <1>15, PendNext DEF Total
    <2>4. CASE key = "drain"
      <3>1. /\ pennies'[q] = pennies[q] + WaitCost * n
            /\ queue'[q] = queue[q] - n
        BY <1>1, <1>10, <2>4
      <3>2. Pend(q)' = a + b + c + m
        BY <1>1, <2>3, <2>4
      <3> HIDE DEF a, b, c, n, m
      <3>3. Pend(q)' + n <= Pend(q)
        BY <2>1, <2>2, <3>2
      <3> QED BY <2>1, <3>1, <3>3 DEF Settled
    <2>5. CASE key # "drain"
      <3>1. queue'[q] = queue[q] /\ pennies'[q] = pennies[q]
        BY <1>1, <2>5
      <3> DEFINE f == qfirst \o GivenFirst(p)
                 l == qlfirst \o GivenLow(p)
      <3>2. Stable(Of(q))
        BY OfStable
      <3>3. Count(f, Of(q)) + Count(l, Of(q)) = a + b + n
        BY <1>3, <1>7, <3>2, GiveFacts
      <3>4. qfirst' = f /\ qlfirst' = l
        BY <1>1, <2>5
      <3> HIDE DEF f, l
      <3>5. Count(f, Of(q)) \in Nat /\ Count(l, Of(q)) \in Nat
        BY <1>8, <3>4, CountType
      <3>6. Pend(q)' = Count(f, Of(q)) + Count(l, Of(q)) + c + m
        BY <2>3, <3>4
      <3> HIDE DEF a, b, c, n, m
      <3>7. Pend(q)' <= Pend(q) /\ Pend(q)' \in Nat
        BY <2>1, <2>2, <3>3, <3>5, <3>6
      <3> QED BY <3>1, <3>7, SettledZero
    <2> QED BY <2>4, <2>5
  <1>16. Covered(qsemfirst, semaphore) => Covered(qsemfirst', semaphore')
    BY <1>1, <1>14 DEF Covered
  <1> QED BY <1>1, <1>8, <1>9, <1>13, <1>15, <1>16

-----------------------------------------------------------------------------
(* The clock: dispatch, and the timers of do_queue_warp.                    *)
LEMMA SameOwner ==
    ASSUME NEW e \in Blocks4, NEW f \in Blocks4, e.player = f.player, NEW p
    PROVE  e \in Of(p) <=> f \in Of(p)
PROOF
  BY DEF Of

LEMMA SameSemaphore ==
    ASSUME NEW e \in Blocks4, NEW f \in Blocks4, e.sem = f.sem, e.attr = f.attr, NEW k
    PROVE  e \in WaitsOn(k) <=> f \in WaitsOn(k)
PROOF
  BY DEF WaitsOn

WarpedWait(secs) == [i \in DOMAIN qwait |-> [qwait[i] EXCEPT !.waittime = -secs]]
WarpedSem(secs) == [i \in DOMAIN qsemfirst |-> Warped(qsemfirst[i], secs)]

LEMMA WarpedWaitFacts ==
    ASSUME ListsOK, NEW secs \in Int
    PROVE  /\ WarpedWait(secs) \in Seq(WBlocks) /\ Sorted(WarpedWait(secs))
           /\ \A p : Count(WarpedWait(secs), Of(p)) = Count(qwait, Of(p))
PROOF
  <1> DEFINE w == WarpedWait(secs)
  <1>1. qwait \in Seq(WBlocks) /\ -secs \in Int
    BY DEF ListsOK
  <1>2. /\ DOMAIN w = DOMAIN qwait /\ w = [i \in DOMAIN qwait |-> w[i]]
        /\ \A i \in DOMAIN qwait : w[i] = [qwait[i] EXCEPT !.waittime = -secs]
    BY DEF WarpedWait
  <1>3. \A i \in DOMAIN qwait : qwait[i] \in WBlocks
    BY <1>1
  <1>4. ASSUME NEW e \in WBlocks
        PROVE  /\ [e EXCEPT !.waittime = -secs] \in WBlocks
               /\ [e EXCEPT !.waittime = -secs].player = e.player
               /\ [e EXCEPT !.waittime = -secs].waittime = -secs
    BY <1>1 DEF WBlocks, Block
  <1> HIDE DEF w
  <1>5. ASSUME NEW i \in DOMAIN qwait
        PROVE  w[i] \in WBlocks /\ w[i].player = qwait[i].player /\ w[i].waittime = -secs
    <2>1. PICK e \in WBlocks : e = qwait[i]
      BY <1>3
    <2>2. w[i] = [e EXCEPT !.waittime = -secs]
      BY <1>2, <2>1
    <2> QED BY <1>4, <2>1, <2>2
  <1>6. w \in Seq(WBlocks)
    BY <1>1, <1>2, <1>5, Changed
  <1>7. Sorted(w)
    BY <1>1, <1>2, <1>5 DEF Sorted
  <1>8. ASSUME NEW p PROVE Count(w, Of(p)) = Count(qwait, Of(p))
    <2>1. \A i \in DOMAIN w : w[i] \in Of(p) <=> qwait[i] \in Of(p)
      BY <1>2, <1>3, <1>5, BlockKinds, SameOwner
    <2> QED BY <1>1, <1>2, <1>6, <2>1, CountSame
  <1> QED BY <1>6, <1>7, <1>8 DEF w

LEMMA WarpedSemFacts ==
    ASSUME ListsOK, NEW secs \in Int
    PROVE  /\ WarpedSem(secs) \in Seq(SBlocks)
           /\ \A p : Count(WarpedSem(secs), Of(p)) = Count(qsemfirst, Of(p))
           /\ \A k : Count(WarpedSem(secs), WaitsOn(k)) = Count(qsemfirst, WaitsOn(k))
PROOF
  <1> DEFINE w == WarpedSem(secs)
  <1>1. qsemfirst \in Seq(SBlocks)
    BY DEF ListsOK
  <1>2. /\ DOMAIN w = DOMAIN qsemfirst /\ w = [i \in DOMAIN qsemfirst |-> w[i]]
        /\ \A i \in DOMAIN qsemfirst : w[i] = Warped(qsemfirst[i], secs)
    BY DEF WarpedSem
  <1>3. \A i \in DOMAIN qsemfirst : qsemfirst[i] \in SBlocks
    BY <1>1
  <1>4. ASSUME NEW e \in SBlocks
        PROVE  /\ Warped(e, secs) \in SBlocks
               /\ Warped(e, secs).player = e.player
               /\ Warped(e, secs).sem = e.sem /\ Warped(e, secs).attr = e.attr
    <2>1. e.waittime \in Int
      BY DEF SBlocks, Block
    <2>2. PICK t \in Int : t = IF e.waittime - secs <= 0 THEN -1 ELSE e.waittime - secs
      BY <2>1
    <2>3. Warped(e, secs) = e \/ Warped(e, secs) = [e EXCEPT !.waittime = t]
      BY <2>2 DEF Warped
    <2> QED BY <2>3 DEF SBlocks, Block
  <1> HIDE DEF w
  <1>5. \A i \in DOMAIN qsemfirst :
          /\ w[i] \in SBlocks /\ w[i].player = qsemfirst[i].player
          /\ w[i].sem = qsemfirst[i].sem /\ w[i].attr = qsemfirst[i].attr
    BY <1>2, <1>3, <1>4
  <1>6. w \in Seq(SBlocks)
    BY <1>1, <1>2, <1>5, Changed
  <1>7. ASSUME NEW p PROVE Count(w, Of(p)) = Count(qsemfirst, Of(p))
    <2>1. \A i \in DOMAIN w : w[i] \in Of(p) <=> qsemfirst[i] \in Of(p)
      BY <1>2, <1>3, <1>5, BlockKinds, SameOwner
    <2> QED BY <1>1, <1>2, <1>6, <2>1, CountSame
  <1>8. ASSUME NEW k PROVE Count(w, WaitsOn(k)) = Count(qsemfirst, WaitsOn(k))
    <2>1. \A i \in DOMAIN w : w[i] \in WaitsOn(k) <=> qsemfirst[i] \in WaitsOn(k)
      BY <1>2, <1>3, <1>5, BlockKinds, SameSemaphore
    <2> QED BY <1>1, <1>2, <1>6, <2>1, CountSame
  <1> QED BY <1>6, <1>7, <1>8 DEF w

LEMMA SecondKeeps ==
    ASSUME ListsOK, NumbersOK, NEW wait \in Seq(WBlocks), NEW sem \in Seq(SBlocks),
           \A p : Count(wait, Of(p)) = Count(qwait, Of(p)),
           \A p : Count(sem, Of(p)) = Count(qsemfirst, Of(p)),
           \A k : Count(sem, WaitsOn(k)) = Count(qsemfirst, WaitsOn(k)),
           do_second(wait, sem), UNCHANGED <<queue, pennies, owner>>
    PROVE  /\ ListsOK' /\ NumbersOK' /\ Kept(qfirst, qfirst')
           /\ Sorted(wait) => Sorted(qwait')
           /\ Covered(qsemfirst, semaphore) => Covered(qsemfirst', semaphore')
           /\ \A p \in Mortals : Settled(p)
PROOF
  <1>1. semaphore \in [Semaphores -> Int]
    BY DEF NumbersOK
  <1>2. /\ ListsOK' /\ semaphore' \in [Semaphores -> Int]
        /\ Kept(qfirst, qfirst')
        /\ Sorted(wait) => Sorted(qwait')
        /\ \A T : Stable(T) =>
             Total(qfirst', qlfirst', qwait', qsemfirst', T)
               = Total(qfirst, qlfirst, wait, sem, T)
        /\ \A k \in Semaphores :
             semaphore'[k] - Count(qsemfirst', WaitsOn(k))
               = semaphore[k] - Count(sem, WaitsOn(k))
    BY <1>1, SecondFacts
  <1>3. NumbersOK'
    BY <1>2 DEF NumbersOK
  <1>4. ASSUME NEW p \in Mortals PROVE Settled(p)
    <2>1. Total(qfirst', qlfirst', qwait', qsemfirst', Of(p))
            = Total(qfirst, qlfirst, wait, sem, Of(p))
      BY <1>2, OfStable
    <2>2. Total(qfirst, qlfirst, wait, sem, Of(p)) = Pend(p)
      BY DEF Total, Pend
    <2>3. Pend(p)' = Pend(p)
      BY <2>1, <2>2, PendNext
    <2>4. Pend(p) \in Nat
      BY PendType
    <2> QED BY <2>3, <2>4, SettledZero
  <1>5. ASSUME Covered(qsemfirst, semaphore) PROVE Covered(qsemfirst', semaphore')
    <2>1. qsemfirst' = Pick(sem, Untimed(sem))
      BY DEF do_second, Delete, Positions, Expired, Timed, Untimed
    <2>2. Untimed(sem) \in SUBSET DOMAIN sem
      BY DEF Untimed
    <2>3. ASSUME NEW k \in Semaphores
          PROVE  /\ Count(qsemfirst', WaitsOn(k)) <= Count(qsemfirst, WaitsOn(k))
                 /\ semaphore'[k] - Count(qsemfirst', WaitsOn(k))
                      >= semaphore[k] - Count(qsemfirst, WaitsOn(k))
      <3> DEFINE R == Untimed(sem)
                 U == DOMAIN sem \ R
                 T == WaitsOn(k)
      <3>1. R \in SUBSET DOMAIN sem /\ U \in SUBSET DOMAIN sem
        BY <2>2
      <3>5. Count(Pick(sem, R), T) + Count(Pick(sem, U), T) = Count(sem, T)
        BY <3>1, CountSplit
      <3> HIDE DEF R, U
      <3>2. Pick(sem, R) \in Seq(SBlocks) /\ Pick(sem, U) \in Seq(SBlocks)
        BY <3>1, PickFacts
      <3>3. Count(Pick(sem, R), T) \in Nat /\ Count(Pick(sem, U), T) \in Nat
        BY <3>2, CountType
      <3>6. qsemfirst' = Pick(sem, R)
        BY <2>1 DEF R
      <3>4. Count(sem, T) = Count(qsemfirst, T)
        OBVIOUS
      <3>7. semaphore'[k] - Count(qsemfirst', WaitsOn(k)) = semaphore[k] - Count(sem, WaitsOn(k))
        BY <1>2
      <3>8. semaphore[k] \in Int
        BY <1>1
      <3> HIDE DEF T
      <3>9. Count(qsemfirst', T) <= Count(qsemfirst, T)
        BY <3>3, <3>4, <3>5, <3>6
      <3>10. semaphore[k] - Count(sem, T) >= semaphore[k] - Count(qsemfirst, T)
        <4>1. Count(qsemfirst, T) \in Nat
          BY <3>3, <3>4, <3>5
        <4> QED BY <3>4, <3>8, <4>1
      <3> QED BY <3>7, <3>9, <3>10 DEF T
    <2>4. qsemfirst \in Seq(SBlocks) /\ qsemfirst' \in Seq(SBlocks)
      BY <1>2 DEF ListsOK
    <2> QED BY <1>1, <1>2, <1>5, <2>3, <2>4, CoveredLess
  <1> QED BY <1>2, <1>3, <1>4, <1>5

-----------------------------------------------------------------------------
(* do_top.                                                                  *)
States == {"called", "running", "between"}

LEMMA FrontFacts ==
    ASSUME NEW s \in Seq(States), s # <<>>, NEW x \in States
    PROVE  /\ Front(s) \in Seq(States) /\ Len(Front(s)) = Len(s) - 1
           /\ Front(s) \o <<x>> \in Seq(States)
           /\ Len(Front(s) \o <<x>>) = Len(s)
           /\ Len(s) = 1 => \A i \in DOMAIN (Front(s) \o <<x>>) : (Front(s) \o <<x>>)[i] = x
PROOF
  <1> DEFINE f == Front(s)
             n == Len(s)
  <1>1. n \in Nat /\ n # 0
    OBVIOUS
  <1>2. f \in Seq(States) /\ Len(f) = n - 1
    <2>1. f = SubSeq(s, 1, n - 1)
      BY DEF Front
    <2>2. \A i \in 1..(n - 1) : s[i] \in States
      OBVIOUS
    <2> HIDE DEF n, f
    <2>3. /\ SubSeq(s, 1, n - 1) \in Seq(States)
          /\ Len(SubSeq(s, 1, n - 1)) = IF 1 <= n - 1 THEN n - 1 - 1 + 1 ELSE 0
      BY <1>1, <2>2, SubSeqProperties
    <2> QED BY <1>1, <2>1, <2>3
  <1>3. <<x>> \in Seq(States) /\ Len(<<x>>) = 1 /\ <<x>>[1] = x
    OBVIOUS
  <1> HIDE DEF f, n
  <1> DEFINE g == f \o <<x>>
  <1>4. /\ g \in Seq(States) /\ Len(g) = Len(f) + 1
        /\ \A i \in 1..(Len(f) + 1) : g[i] = IF i <= Len(f) THEN f[i] ELSE <<x>>[i - Len(f)]
    BY <1>2, <1>3, ConcatProperties
  <1> HIDE DEF g
  <1>5. Len(g) = n
    BY <1>1, <1>2, <1>4
  <1>6. ASSUME n = 1, NEW i \in DOMAIN g PROVE g[i] = x
    <2>1. DOMAIN g = 1..1 /\ Len(f) = 0
      BY <1>2, <1>4, <1>5, <1>6
    <2>2. i = 1
      BY <2>1
    <2>3. g[1] = <<x>>[1 - Len(f)]
      BY <1>4, <2>1
    <2> QED BY <1>3, <2>1, <2>2, <2>3
  <1> QED BY <1>2, <1>4, <1>5, <1>6 DEF f, g, n

(* A block marked and a block dropped both leave the rest to be counted.    *)
LEMMA StartedFacts ==
    ASSUME NEW list \in Seq(QBlocks), list # <<>>
    PROVE  /\ Started(list) \in Seq(QBlocks) /\ Tail(list) \in Seq(QBlocks)
           /\ Head(list) \in QBlocks
           /\ Started(list) # <<>> /\ Head(Started(list)).player = NOTHING
           /\ \A T : Count(list, T) = (IF Head(list) \in T THEN 1 ELSE 0) + Count(Tail(list), T)
           /\ \A T : (\A e \in T : e.player # NOTHING) =>
                        Count(Started(list), T) = Count(Tail(list), T)
PROOF
  <1> DEFINE s == Started(list)
             n == Len(list)
  <1>1. n \in Nat /\ n # 0 /\ DOMAIN list = 1..n /\ 1 \in DOMAIN list
    OBVIOUS
  <1>2. /\ DOMAIN s = DOMAIN list /\ s = [i \in DOMAIN list |-> s[i]]
        /\ s[1] = [list[1] EXCEPT !.player = NOTHING]
        /\ \A i \in DOMAIN list : i # 1 => s[i] = list[i]
    BY <1>1 DEF Started
  <1>3. \A i \in DOMAIN list : list[i] \in QBlocks
    OBVIOUS
  <1>4. \A e \in QBlocks : /\ [e EXCEPT !.player = NOTHING] \in QBlocks
                           /\ [e EXCEPT !.player = NOTHING].player = NOTHING
    BY DEF QBlocks, Block
  <1> HIDE DEF s
  <1>11. s[1] \in QBlocks /\ s[1].player = NOTHING
    BY <1>1, <1>2, <1>3, <1>4
  <1>5. \A i \in DOMAIN list : s[i] \in QBlocks
    BY <1>2, <1>3, <1>11
  <1>6. s \in Seq(QBlocks) /\ Len(s) = n
    BY <1>2, <1>5, Changed
  <1>7. s # <<>> /\ Head(s) = s[1]
    BY <1>1, <1>6
  <1>8. Tail(list) \in Seq(QBlocks) /\ Head(list) \in QBlocks
    OBVIOUS
  <1>9. Tail(s) = Tail(list)
    <2> HIDE DEF n
    <2>1. /\ Tail(s) \in Seq(QBlocks) /\ Len(Tail(s)) = n - 1
          /\ \A i \in 1..Len(Tail(s)) : Tail(s)[i] = s[i + 1]
      BY <1>6, <1>7, HeadTailProperties
    <2>2. /\ Tail(list) \in Seq(QBlocks) /\ Len(Tail(list)) = n - 1
          /\ \A i \in 1..Len(Tail(list)) : Tail(list)[i] = list[i + 1]
      BY HeadTailProperties DEF n
    <2>3. \A i \in 1..(n - 1) : i + 1 \in DOMAIN list /\ i + 1 # 1
      BY <1>1
    <2>4. \A i \in 1..(n - 1) : s[i + 1] = list[i + 1]
      BY <1>2, <2>3
    <2> QED BY <2>1, <2>2, <2>4, SeqEqual
  <1>10. ASSUME NEW T, \A e \in T : e.player # NOTHING
         PROVE  Count(s, T) = Count(Tail(list), T)
    <2>1. Head(s) \notin T
      BY <1>7, <1>10, <1>11
    <2>2. Count(s, T) = (IF Head(s) \in T THEN 1 ELSE 0) + Count(Tail(s), T)
      BY <1>6, <1>7, CountTail
    <2>3. Count(Tail(list), T) \in Nat
      BY <1>8, CountType
    <2>4. Count(s, T) = 0 + Count(Tail(list), T)
      BY <1>9, <2>1, <2>2
    <2> QED BY <2>3, <2>4
  <1>12. \A T : Count(list, T) = (IF Head(list) \in T THEN 1 ELSE 0) + Count(Tail(list), T)
    BY CountTail
  <1> QED BY <1>6, <1>7, <1>8, <1>10, <1>11, <1>12 DEF s

(* What is left when the head of the player queue is marked or dropped.     *)
LEMMA HeadGone ==
    ASSUME ObjectsAssumption, ListsOK, qfirst # <<>>, owner' = owner,
           qfirst' = Started(qfirst) \/ qfirst' = Tail(qfirst),
           qlfirst' = qlfirst, qwait' = qwait, qsemfirst' = qsemfirst,
           NEW p \in Mortals
    PROVE  /\ Pend(p)' = Pend(p) - (IF Head(qfirst) \in Of(p) THEN 1 ELSE 0)
           /\ Pend(p)' \in Nat
PROOF
  <1> DEFINE a == Count(Tail(qfirst), Of(p))
             b == Count(qlfirst, Of(p))
             c == Count(qwait, Of(p))
             d == Count(qsemfirst, Of(p))
             h == IF Head(qfirst) \in Of(p) THEN 1 ELSE 0
  <1>1. qfirst \in Seq(QBlocks)
    BY DEF ListsOK
  <1>2. Count(qfirst, Of(p)) = h + a /\ Tail(qfirst) \in Seq(QBlocks)
    BY <1>1, StartedFacts
  <1>3. Count(Started(qfirst), Of(p)) = a
    BY <1>1, OfOwned, StartedFacts
  <1>4. Count(qfirst', Of(p)) = a
    BY <1>3
  <1>5. a \in Nat
    BY <1>2, CountType
  <1>6. b \in Nat /\ c \in Nat /\ d \in Nat /\ h \in Nat
    BY PendType
  <1>7. Pend(p) = h + a + b + c + d
    BY <1>2 DEF Pend, Total
  <1>8. Pend(p)' = a + b + c + d
    BY <1>4, PendNext DEF Total
  <1> HIDE DEF a, b, c, d, h
  <1>9. Pend(p)' = Pend(p) - h /\ Pend(p)' \in Nat
    BY <1>5, <1>6, <1>7, <1>8
  <1> QED BY <1>9 DEF h

LEMMA TopEndSettled ==
    ASSUME ObjectsAssumption, ListsOK, NumbersOK, TopEnd, NEW p \in Mortals
    PROVE  Settled(p)
PROOF
  <1>1. /\ qfirst # <<>> /\ owner' = owner /\ qfirst' = Tail(qfirst)
        /\ qlfirst' = qlfirst /\ qwait' = qwait /\ qsemfirst' = qsemfirst
        /\ queue' = queue /\ pennies' = pennies
    BY DEF TopEnd, accounts, world
  <1>2. /\ Pend(p)' = Pend(p) - (IF Head(qfirst) \in Of(p) THEN 1 ELSE 0)
        /\ Pend(p)' \in Nat
    BY <1>1, HeadGone
  <1>3. Pend(p) \in Nat
    BY PendType
  <1>4. Pend(p)' <= Pend(p)
    BY <1>2, <1>3
  <1> QED BY <1>1, <1>2, <1>4, SettledZero

Runs == Head(qfirst).player # NOTHING /\ Head(qfirst).player \notin going

LEMMA TopStartCases ==
    ASSUME TopStart
    PROVE  /\ Looping /\ qfirst # <<>>
           /\ qlfirst' = qlfirst /\ qwait' = qwait /\ qsemfirst' = qsemfirst
           /\ owner' = owner /\ halted' = halted /\ going' = going /\ gone' = gone
           /\ control_flags' = control_flags /\ semaphore' = semaphore
           /\ now' = now /\ added' = added
           /\ \/ /\ qfirst' = Started(qfirst)
                 /\ tops' = Front(tops) \o <<"running">>
              \/ /\ qfirst' = Tail(qfirst)
                 /\ tops' = Front(tops) \o <<"between">>
           /\ IF Runs
                THEN /\ pennies' = Give(pennies, Owner(Head(qfirst).player), WaitCost)
                     /\ queue' = [queue EXCEPT ![Owner(Head(qfirst).player)] = @ - 1]
                ELSE pennies' = pennies /\ queue' = queue
PROOF
  BY DEF TopStart, Runs, accounts, world, Dropped

LEMMA TopStartNumbers ==
    ASSUME ObjectsAssumption, CostAssumption, ListsOK, NumbersOK, WorldOK, TopStart
    PROVE  NumbersOK' /\ \A p \in Mortals : Settled(p)
PROOF
  <1> DEFINE x == Head(qfirst).player
             who == Owner(x)
  <1>1. /\ qfirst # <<>> /\ owner' = owner /\ semaphore' = semaphore
        /\ qfirst' = Started(qfirst) \/ qfirst' = Tail(qfirst)
        /\ qlfirst' = qlfirst /\ qwait' = qwait /\ qsemfirst' = qsemfirst
        /\ IF Runs
             THEN /\ pennies' = Give(pennies, who, WaitCost)
                  /\ queue' = [queue EXCEPT ![who] = @ - 1]
             ELSE pennies' = pennies /\ queue' = queue
    BY TopStartCases
  <1>2. Head(qfirst) \in QBlocks
    BY <1>1, StartedFacts DEF ListsOK
  <1>3. x \in Objects \cup {NOTHING} /\ Head(qfirst) \in Blocks4
    BY <1>2 DEF QBlocks, Blocks4, Block
  <1>4. who \in Players
    BY <1>3, OwnerType
  <1>5. \A p : Head(qfirst) \in Of(p) <=> who = p
    BY <1>3 DEF Of
  <1> HIDE DEF who
  <1>6. /\ queue \in [Players -> Int] /\ pennies \in [Mortals -> Int] /\ WaitCost \in Nat
        /\ semaphore \in [Semaphores -> Int]
    BY CostAssumption DEF NumbersOK
  <1>7. Give(pennies, who, WaitCost) \in [Mortals -> Int]
    BY <1>4, <1>6, GiveType
  <1>8. NumbersOK'
    BY <1>1, <1>4, <1>6, <1>7 DEF NumbersOK
  <1>9. ASSUME NEW p \in Mortals PROVE Settled(p)
    <2>1. /\ Pend(p)' = Pend(p) - (IF Head(qfirst) \in Of(p) THEN 1 ELSE 0)
          /\ Pend(p)' \in Nat
      BY <1>1, HeadGone
    <2>2. Pend(p) \in Nat
      BY PendType
    <2>3. queue[p] \in Int /\ pennies[p] \in Int /\ p \in Players /\ p # GOD
      BY <1>6, ObjectsAssumption DEF Players
    <2>4. CASE Runs /\ who = p
      <3>1. pennies'[p] = pennies[p] + WaitCost /\ queue'[p] = queue[p] - 1
        BY <1>1, <1>6, <2>3, <2>4 DEF Give
      <3>2. WaitCost = WaitCost * 1
        BY <1>6
      <3>3. Pend(p)' + 1 <= Pend(p)
        BY <1>5, <2>1, <2>2, <2>4
      <3> QED BY <3>1, <3>2, <3>3 DEF Settled
    <2>5. CASE ~(Runs /\ who = p)
      <3>1. pennies'[p] = pennies[p] /\ queue'[p] = queue[p]
        BY <1>1, <1>6, <2>3, <2>5 DEF Give
      <3>2. Pend(p)' <= Pend(p)
        BY <2>1, <2>2
      <3> QED BY <2>1, <3>1, <3>2, SettledZero
    <2> QED BY <2>4, <2>5
  <1> QED BY <1>8, <1>9

-----------------------------------------------------------------------------
(* destroy_obj.                                                             *)
Useless(thing) == Wanted(NOTHING, thing) \cup {e \in Blocks4 : e.sem = thing}

UselessAt(list, thing) ==
    {i \in DOMAIN list : que_want(list[i], NOTHING, thing) \/ list[i].sem = thing}

UsefulAt(list, thing) == DOMAIN list \ UselessAt(list, thing)

LEMMA UselessFacts ==
    ASSUME NEW list \in Seq(Blocks4), NEW thing
    PROVE  /\ UselessAt(list, thing) = Among(list, Useless(thing))
           /\ UsefulAt(list, thing) = Among(list, Blocks4 \ Useless(thing))
           /\ UselessAt(list, thing) \in SUBSET DOMAIN list
           /\ UsefulAt(list, thing) \in SUBSET DOMAIN list
PROOF
  <1>1. \A i \in DOMAIN list : list[i] \in Blocks4
    OBVIOUS
  <1>2. \A i \in DOMAIN list :
          (que_want(list[i], NOTHING, thing) \/ list[i].sem = thing)
             <=> list[i] \in Useless(thing)
    BY <1>1 DEF Useless, Wanted
  <1> QED BY <1>1, <1>2 DEF UselessAt, UsefulAt, Among

LEMMA DestroyForm ==
    ASSUME NEW thing, destroy_obj(thing)
    PROVE  LET all == qfirst \o qlfirst \o qwait
               freed == Pick(all, Sought(all, NOTHING, thing))
                          \o Pick(qsemfirst, UselessAt(qsemfirst, thing))
           IN  /\ thing \in going
               /\ qfirst' = Mark(qfirst, NOTHING, thing)
               /\ qlfirst' = Mark(qlfirst, NOTHING, thing)
               /\ qwait' = Pick(qwait, Unsought(qwait, NOTHING, thing))
               /\ qsemfirst' = Pick(qsemfirst, UsefulAt(qsemfirst, thing))
               /\ pennies' = Refund(pennies, freed)
               /\ queue' = Uncount(queue, freed)
               /\ semaphore' = [k \in Semaphores |-> IF k[1] = thing THEN 0
                    ELSE CountDown(semaphore, Pick(qsemfirst, Sought(qsemfirst, NOTHING, thing)))[k]]
               /\ going' = going \ {thing} /\ gone' = gone \cup {thing}
               /\ halted' = halted \ {thing} /\ owner' = [owner EXCEPT ![thing] = GOD]
               /\ control_flags' = control_flags /\ tops' = tops
               /\ now' = now /\ added' = added
PROOF
  BY DEF destroy_obj, Select, Delete, Positions, Sought, Unsought, UselessAt, UsefulAt

LEMMA DestroyKeeps ==
    ASSUME ObjectsAssumption, CostAssumption, ListsOK, NumbersOK, WorldOK, LoopOK,
           NEW thing \in Things, destroy_obj(thing)
    PROVE  /\ Steady /\ UNCHANGED tops
           /\ Covered(qsemfirst, semaphore) => Covered(qsemfirst', semaphore')
           /\ \A p \in Mortals : Settled(p)
PROOF
  <1> DEFINE all == qfirst \o qlfirst \o qwait
             mine == Pick(all, Sought(all, NOTHING, thing))
             drained == Pick(qsemfirst, UselessAt(qsemfirst, thing))
             waits == Pick(qsemfirst, Sought(qsemfirst, NOTHING, thing))
             W == Wanted(NOTHING, thing)
             U == Useless(thing)
  <1>1. /\ thing \in going
        /\ qfirst' = Mark(qfirst, NOTHING, thing)
        /\ qlfirst' = Mark(qlfirst, NOTHING, thing)
        /\ qwait' = Pick(qwait, Unsought(qwait, NOTHING, thing))
        /\ qsemfirst' = Pick(qsemfirst, UsefulAt(qsemfirst, thing))
        /\ pennies' = Refund(pennies, mine \o drained)
        /\ queue' = Uncount(queue, mine \o drained)
        /\ semaphore' = [k \in Semaphores |-> IF k[1] = thing THEN 0
                                              ELSE CountDown(semaphore, waits)[k]]
        /\ going' = going \ {thing} /\ gone' = gone \cup {thing}
        /\ halted' = halted \ {thing} /\ owner' = [owner EXCEPT ![thing] = GOD]
        /\ control_flags' = control_flags /\ tops' = tops
        /\ now' = now /\ added' = added
    BY DestroyForm
  <1>2. /\ qfirst \in Seq(QBlocks) /\ qlfirst \in Seq(QBlocks)
        /\ qwait \in Seq(WBlocks) /\ qsemfirst \in Seq(SBlocks)
        /\ qfirst \in Seq(Blocks4) /\ qlfirst \in Seq(Blocks4)
        /\ qwait \in Seq(Blocks4) /\ qsemfirst \in Seq(Blocks4)
    BY AllBlocks4 DEF ListsOK
  <1>3. \A T : Count(all, T) = Count(qfirst, T) + Count(qlfirst, T) + Count(qwait, T)
    <2> SUFFICES ASSUME NEW T
                 PROVE  Count(all, T) = Count(qfirst, T) + Count(qlfirst, T) + Count(qwait, T)
      OBVIOUS
    <2>1. PICK fl \in Seq(Blocks4) : fl = qfirst \o qlfirst
      BY <1>2, ConcatProperties
    <2>2. Count(fl, T) = Count(qfirst, T) + Count(qlfirst, T)
      BY <1>2, <2>1, CountConcat
    <2>4. qwait \in Seq(Blocks4) /\ fl \in Seq(Blocks4)
      BY <1>2
    <2>3. Count(fl \o qwait, T) = Count(fl, T) + Count(qwait, T)
      BY <2>4, CountConcat
    <2> QED BY <2>1, <2>2, <2>3
  <1>4. all \in Seq(Blocks4)
    <2>1. PICK fl \in Seq(Blocks4) : fl = qfirst \o qlfirst
      BY <1>2, ConcatProperties
    <2>2. fl \o qwait \in Seq(Blocks4)
      BY <1>2, <2>1, ConcatProperties
    <2> QED BY <2>1, <2>2
  <1> HIDE DEF all
  <1>5. mine \in Seq(Blocks4) /\ \A T : Count(mine, T) = Count(all, T \cap W)
    BY <1>4, PickType, WantedPick
  <1>6. waits \in Seq(Blocks4) /\ \A T : Count(waits, T) = Count(qsemfirst, T \cap W)
    BY <1>2, PickType, WantedPick
  <1>7. /\ drained \in Seq(Blocks4)
        /\ \A T : Count(drained, T) = Count(qsemfirst, T \cap U)
    <2>1. UselessAt(qsemfirst, thing) = Among(qsemfirst, U)
      BY <1>2, UselessFacts
    <2> DEFINE S == UselessAt(qsemfirst, thing)
    <2> HIDE DEF S
    <2>2. S = Among(qsemfirst, U)
      BY <2>1 DEF S
    <2>3. Pick(qsemfirst, S) \in Seq(Blocks4) /\ \A T : Count(Pick(qsemfirst, S), T) = Count(qsemfirst, T \cap U)
      BY <1>2, <2>2, Chosen
    <2> QED BY <2>3 DEF S
  <1>8. /\ qsemfirst' \in Seq(SBlocks)
        /\ \A T : Count(qsemfirst', T) = Count(qsemfirst, T \cap (Blocks4 \ U))
    <2>1. UsefulAt(qsemfirst, thing) = Among(qsemfirst, Blocks4 \ U)
      BY <1>2, UselessFacts
    <2> DEFINE S == UsefulAt(qsemfirst, thing)
               V == Blocks4 \ U
    <2> HIDE DEF S, V
    <2>2. S = Among(qsemfirst, V)
      BY <2>1 DEF S, V
    <2>3. Pick(qsemfirst, S) \in Seq(SBlocks) /\ \A T : Count(Pick(qsemfirst, S), T) = Count(qsemfirst, T \cap V)
      BY <1>2, <2>2, Chosen
    <2> QED BY <1>1, <2>3 DEF S, V
  <1>9. /\ qwait' \in Seq(WBlocks)
        /\ \A T : Count(qwait', T) = Count(qwait, Left(NOTHING, thing, T))
    BY <1>1, <1>2, PickType, WantedLeft
  <1>10. Sorted(qwait) => Sorted(qwait')
    <2> DEFINE R == Unsought(qwait, NOTHING, thing)
    <2>1. R \in SUBSET DOMAIN qwait
      BY DEF Unsought
    <2> HIDE DEF R
    <2>2. Sorted(qwait) => Sorted(Pick(qwait, R))
      BY <1>2, <2>1, PickSorted
    <2> QED BY <1>1, <2>2 DEF R
  <1>11. qfirst' \in Seq(QBlocks) /\ qlfirst' \in Seq(QBlocks) /\ Kept(qfirst, qfirst')
    BY <1>1, <1>2, MarkType, KeptMark
  <1> HIDE DEF mine, drained, waits, U, W
  <1>12. PICK freed \in Seq(Blocks4) : freed = mine \o drained
    BY <1>5, <1>7, ConcatProperties
  <1>13. \A T : Count(freed, T) = Count(mine, T) + Count(drained, T)
    BY <1>5, <1>7, <1>12, CountConcat
  <1>14. /\ Refund(pennies, freed) \in [Mortals -> Int]
         /\ Uncount(queue, freed) \in [Players -> Int]
         /\ \A p \in Mortals :
              /\ Refund(pennies, freed)[p] = pennies[p] + WaitCost * Count(freed, Of(p))
              /\ Uncount(queue, freed)[p] = queue[p] - Count(freed, Of(p))
    BY RefundFacts
  <1>15. /\ CountDown(semaphore, waits) \in [Semaphores -> Int]
         /\ \A k \in Semaphores : CountDown(semaphore, waits)[k] = semaphore[k] - Count(waits, WaitsOn(k))
    BY <1>6, CountDownFacts DEF NumbersOK
  <1>16. semaphore' \in [Semaphores -> Int]
    BY <1>1, <1>15
  <1>17. ListsOK'
    BY <1>8, <1>9, <1>11 DEF ListsOK
  <1>18. NumbersOK'
    BY <1>1, <1>12, <1>14, <1>16 DEF NumbersOK
  <1>19. WorldOK'
    <2>1. GOD \in Players
      BY DEF Players
    <2>2. owner' \in [Things -> Players]
      BY <1>1, <2>1 DEF WorldOK
    <2> QED BY <1>1, <2>2 DEF WorldOK
  <1>20. LoopOK'
    BY <1>1 DEF LoopOK
  <1>21. ASSUME Covered(qsemfirst, semaphore) PROVE Covered(qsemfirst', semaphore')
    <2>1. ASSUME NEW k \in Semaphores
          PROVE  Count(qsemfirst', WaitsOn(k)) > 0 =>
                   semaphore'[k] >= Count(qsemfirst', WaitsOn(k))
      <3>1. Count(qsemfirst', WaitsOn(k)) = Count(qsemfirst, WaitsOn(k) \cap (Blocks4 \ U))
        BY <1>8
      <3>2. CASE k[1] = thing
        <4>1. \A e \in WaitsOn(k) : e \in U
          <5>1. \A e \in Blocks4 : <<e.sem, e.attr>> = k => e.sem = k[1]
            OBVIOUS
          <5> QED BY <3>2, <5>1 DEF WaitsOn, U, Useless
        <4> DEFINE Z == WaitsOn(k) \cap (Blocks4 \ U)
        <4>2. Z = {}
          BY <4>1
        <4>4. Count(qsemfirst', WaitsOn(k)) = Count(qsemfirst, Z)
          BY <3>1
        <4> HIDE DEF Z
        <4>3. Count(qsemfirst, {}) = 0
          BY <1>2, CountNone
        <4>5. Count(qsemfirst', WaitsOn(k)) = 0
          BY <4>2, <4>3, <4>4
        <4> QED BY <4>5
      <3>3. CASE k[1] # thing
        <4>1. \A e \in WaitsOn(k) : e \in U <=> e \in W
          <5>1. \A e \in Blocks4 : <<e.sem, e.attr>> = k => e.sem = k[1]
            OBVIOUS
          <5> QED BY <3>3, <5>1 DEF WaitsOn, U, W, Useless
        <4>2. WaitsOn(k) \cap (Blocks4 \ U) = Left(NOTHING, thing, WaitsOn(k))
          BY <4>1 DEF Left, W
        <4>3. /\ Count(qsemfirst, WaitsOn(k))
                   = Count(qsemfirst, WaitsOn(k) \cap W)
                       + Count(qsemfirst, Left(NOTHING, thing, WaitsOn(k)))
              /\ Count(qsemfirst, WaitsOn(k) \cap W) \in Nat
              /\ Count(qsemfirst, Left(NOTHING, thing, WaitsOn(k))) \in Nat
          BY <1>2, KindTypes, LeftSplit DEF W
        <4>4. semaphore'[k] = semaphore[k] - Count(waits, WaitsOn(k))
          BY <1>1, <1>15, <3>3
        <4>5. Count(waits, WaitsOn(k)) = Count(qsemfirst, WaitsOn(k) \cap W)
          BY <1>6
        <4>6. semaphore[k] \in Int
          BY DEF NumbersOK
        <4>7. Count(qsemfirst, WaitsOn(k)) > 0 => semaphore[k] >= Count(qsemfirst, WaitsOn(k))
          BY <1>21 DEF Covered
        <4>8. Count(qsemfirst', WaitsOn(k)) = Count(qsemfirst, Left(NOTHING, thing, WaitsOn(k)))
          BY <3>1, <4>2
        <4> QED BY <4>3, <4>4, <4>5, <4>6, <4>7, <4>8
      <3> QED BY <3>2, <3>3
    <2> QED BY <2>1 DEF Covered
  <1>22. ASSUME NEW p \in Mortals PROVE Settled(p)
    <2> DEFINE T == Of(p)
               L == Left(NOTHING, thing, T)
               V == T \cap (Blocks4 \ U)
    <2>1. T \in SUBSET Blocks4 /\ \A e \in T : e.player # NOTHING
      BY OfOwned, KindTypes
    <2>2. ASSUME NEW e \in Blocks4, e \notin W PROVE e \in Of(p)' <=> e \in Of(p)
      <3>1. e.player # thing
        BY <2>2 DEF W, Wanted, que_want
      <3>2. Owner(e.player)' = Owner(e.player)
        BY <1>1, <3>1 DEF Owner, WorldOK
      <3> QED BY <3>2 DEF Of
    <2>3. Of(p)' \in SUBSET Blocks4 /\ \A e \in Of(p)' : e.player # NOTHING
      <3>1. NOTHING \notin Things /\ p # GOD
        BY DEF ObjectsAssumption, Objects
      <3> QED BY <3>1 DEF Of, Owner
    <2>4. Left(NOTHING, thing, Of(p)') = L
      BY <2>1, <2>2, <2>3 DEF Left, W
    <2>5. Of(p)' \cap (Blocks4 \ U) = V
      BY <2>1, <2>2, <2>3 DEF U, Useless, W
    <2> DEFINE P == Of(p)'
    <2> HIDE DEF P
    <2>6. Count(qfirst', P) = Count(qfirst, L) /\ Count(qlfirst', P) = Count(qlfirst, L)
      <3>1. \A e \in P : e.player # NOTHING
        BY <2>3 DEF P
      <3>2. /\ Count(Mark(qfirst, NOTHING, thing), P) = Count(qfirst, Left(NOTHING, thing, P))
            /\ Count(Mark(qlfirst, NOTHING, thing), P) = Count(qlfirst, Left(NOTHING, thing, P))
        BY <1>2, <3>1, MarkCount
      <3> QED BY <1>1, <2>4, <3>2 DEF P
    <2>7. Count(qwait', P) = Count(qwait, L)
      BY <1>9, <2>4 DEF P
    <2>8. Count(qsemfirst', P) = Count(qsemfirst, V)
      BY <1>8, <2>5 DEF P
    <2>9. Pend(p)' = Count(qfirst, L) + Count(qlfirst, L) + Count(qwait, L) + Count(qsemfirst, V)
      BY <2>6, <2>7, <2>8 DEF Pend, Total, P
    <2>10. Count(qsemfirst, T) = Count(qsemfirst, T \cap U) + Count(qsemfirst, V)
      <3>1. T = (T \cap U) \cup V /\ (T \cap U) \cap V = {}
        BY <2>1
      <3> HIDE DEF T, V
      <3>2. Count(qsemfirst, (T \cap U) \cup V) = Count(qsemfirst, T \cap U) + Count(qsemfirst, V)
        BY <1>2, <3>1, CountKinds
      <3> QED BY <3>1, <3>2
    <2> HIDE DEF T, V
    <2>11. /\ Count(qfirst, T) = Count(qfirst, T \cap W) + Count(qfirst, L)
           /\ Count(qlfirst, T) = Count(qlfirst, T \cap W) + Count(qlfirst, L)
           /\ Count(qwait, T) = Count(qwait, T \cap W) + Count(qwait, L)
      BY <1>2, <2>1, LeftSplit DEF W
    <2>12. Count(freed, T) = Count(qfirst, T \cap W) + Count(qlfirst, T \cap W)
                               + Count(qwait, T \cap W) + Count(qsemfirst, T \cap U)
      BY <1>3, <1>5, <1>7, <1>13
    <2>13. /\ Count(qfirst, T \cap W) \in Nat /\ Count(qlfirst, T \cap W) \in Nat
           /\ Count(qwait, T \cap W) \in Nat /\ Count(qsemfirst, T \cap U) \in Nat
      BY <1>2, CountType
    <2>14. /\ Count(qfirst, L) \in Nat /\ Count(qlfirst, L) \in Nat
           /\ Count(qwait, L) \in Nat /\ Count(qsemfirst, V) \in Nat
      BY <1>2, CountType
    <2>15. Pend(p) = Count(qfirst, T) + Count(qlfirst, T) + Count(qwait, T) + Count(qsemfirst, T)
      BY DEF Pend, Total, T
    <2>16. Pend(p)' + Count(freed, T) <= Pend(p) /\ Count(freed, T) \in Nat
      <3> DEFINE f1 == Count(qfirst, T \cap W)
                 f2 == Count(qlfirst, T \cap W)
                 f3 == Count(qwait, T \cap W)
                 f4 == Count(qsemfirst, T \cap U)
                 l1 == Count(qfirst, L)
                 l2 == Count(qlfirst, L)
                 l3 == Count(qwait, L)
                 l4 == Count(qsemfirst, V)
      <3>1. /\ f1 \in Nat /\ f2 \in Nat /\ f3 \in Nat /\ f4 \in Nat
            /\ l1 \in Nat /\ l2 \in Nat /\ l3 \in Nat /\ l4 \in Nat
        BY <2>13, <2>14
      <3>2. Pend(p) = (f1 + l1) + (f2 + l2) + (f3 + l3) + (f4 + l4)
        BY <2>10, <2>11, <2>15
      <3>3. Pend(p)' = l1 + l2 + l3 + l4
        BY <2>9
      <3>4. Count(freed, T) = f1 + f2 + f3 + f4
        BY <2>12
      <3> HIDE DEF f1, f2, f3, f4, l1, l2, l3, l4
      <3> QED BY <3>1, <3>2, <3>3, <3>4
    <2>17. /\ pennies'[p] = pennies[p] + WaitCost * Count(freed, T)
           /\ queue'[p] = queue[p] - Count(freed, T)
      BY <1>1, <1>12, <1>14 DEF T
    <2> QED BY <2>16, <2>17 DEF Settled
  <1> QED BY <1>1, <1>10, <1>11, <1>17, <1>18, <1>19, <1>20, <1>21, <1>22 DEF Steady

-----------------------------------------------------------------------------
(* What every step keeps.                                                   *)
Looped == Len(tops) <= 1 /\ RunningAtHead

Fine ==
    /\ ListsOK' /\ NumbersOK' /\ WorldOK' /\ LoopOK'
    /\ Sorted(qwait) => Sorted(qwait')
    /\ Covered(qsemfirst, semaphore) => Covered(qsemfirst', semaphore')
    /\ "kick" \notin Happens /\ Looped => Looped'

LEMMA KeptLooped ==
    ASSUME Kept(qfirst, qfirst'), tops' = tops
    PROVE  Looped => Looped'
PROOF
  BY DEF Kept, Looped, RunningAtHead

LEMMA FineSteady ==
    ASSUME Steady, tops' = tops,
           Covered(qsemfirst, semaphore) => Covered(qsemfirst', semaphore')
    PROVE  Fine
PROOF
  BY KeptLooped DEF Steady, Fine

LEMMA FineIdle ==
    ASSUME ListsOK, NumbersOK, UNCHANGED <<lists, semaphore, accounts>>,
           WorldOK', LoopOK', "kick" \notin Happens /\ Looped => Looped'
    PROVE  Fine
PROOF
  <1>1. /\ qfirst' = qfirst /\ qlfirst' = qlfirst /\ qwait' = qwait
        /\ qsemfirst' = qsemfirst /\ queue' = queue /\ pennies' = pennies
        /\ semaphore' = semaphore
    BY DEF lists, accounts
  <1>2. ListsOK' /\ NumbersOK'
    BY <1>1 DEF ListsOK, NumbersOK
  <1>3. (Sorted(qwait) => Sorted(qwait')) /\ (Covered(qsemfirst, semaphore) => Covered(qsemfirst', semaphore'))
    BY <1>1
  <1> QED BY <1>2, <1>3 DEF Fine

LEMMA SameTops ==
    ASSUME UNCHANGED <<lists, tops>>
    PROVE  Looped => Looped'
PROOF
  BY DEF lists, Looped, RunningAtHead

LEMMA OneTop ==
    ASSUME NEW s, \A i \in DOMAIN s : s[i] # "running", Len(s) <= 1, tops' = s
    PROVE  Looped'
PROOF
  BY DEF Looped, RunningAtHead

LEMMA HaltFine ==
    ASSUME ListsOK, NumbersOK, LoopOK, NEW player, NEW object, NEW payee \in Players,
           halt_que(player, object, payee, semaphore, queue, pennies),
           WorldOK', UNCHANGED <<tops, now, added>>
    PROVE  Fine
PROOF
  <1>1. /\ ListsOK' /\ NumbersOK' /\ Kept(qfirst, qfirst')
        /\ Sorted(qwait) => Sorted(qwait')
        /\ Covered(qsemfirst, semaphore) => Covered(qsemfirst', semaphore')
    BY HaltKeeps DEF NumbersOK
  <1>2. LoopOK'
    BY DEF LoopOK
  <1> QED BY <1>1, <1>2, KeptLooped DEF Fine

LEMMA PayeeType ==
    ASSUME ObjectsAssumption, WorldOK, NEW target \in Objects,
           NEW ptarg \in {NOTHING, Owner(target)}
    PROVE  Payee(ptarg, target) = Owner(target) /\ Owner(target) \in Players
PROOF
  BY OwnerType DEF Payee

LEMMA GodPaid ==
    ASSUME ObjectsAssumption
    PROVE  Payee(NOTHING, NOTHING) = GOD /\ GOD \in Players
PROOF
  BY DEF ObjectsAssumption, Objects, Payee, Owner, Players

LEMMA HaltStep ==
    ASSUME ObjectsAssumption, ListsOK, NumbersOK, WorldOK, LoopOK,
           (\E x \in Objects : do_halt(x)) \/ do_halt_all
           \/ \E t \in Things, p \in Players : do_chown(t, p)
    PROVE  Fine
PROOF
  <1>1. ASSUME NEW x \in Objects, do_halt(x) PROVE Fine
    <2>1. WorldOK' /\ UNCHANGED <<tops, now, added>>
      BY <1>1 DEF do_halt, world, WorldOK
    <2>2. CASE x \in Players
      <3>1. halt_que(x, NOTHING, x, semaphore, queue, pennies)
        BY <1>1, <2>2 DEF do_halt
      <3> QED BY <2>1, <2>2, <3>1, HaltFine
    <2>3. CASE x \notin Players
      <3>1. PICK ptarg \in {NOTHING, Owner(x)} :
              halt_que(ptarg, x, Payee(ptarg, x), semaphore, queue, pennies)
        BY <1>1, <2>3 DEF do_halt
      <3>2. Payee(ptarg, x) \in Players
        BY PayeeType
      <3> QED BY <2>1, <3>1, <3>2, HaltFine
    <2> QED BY <2>2, <2>3
  <1>2. ASSUME do_halt_all PROVE Fine
    <2>1. WorldOK' /\ UNCHANGED <<tops, now, added>>
      BY <1>2 DEF do_halt_all, world, WorldOK
    <2>2. halt_que(NOTHING, NOTHING, GOD, semaphore, queue, pennies) /\ GOD \in Players
      BY <1>2, GodPaid DEF do_halt_all
    <2> QED BY <2>1, <2>2, HaltFine
  <1>3. ASSUME NEW t \in Things, NEW p \in Players, do_chown(t, p) PROVE Fine
    <2>1. /\ owner' = [owner EXCEPT ![t] = p] /\ halted' = halted \cup {t}
          /\ UNCHANGED <<going, gone, control_flags, tops, now, added>>
          /\ halt_que(NOTHING, t, p, semaphore, queue, pennies)
      BY <1>3 DEF do_chown
    <2>2. WorldOK'
      BY <2>1 DEF WorldOK, Objects
    <2> QED BY <2>1, <2>2, HaltFine
  <1> QED BY <1>1, <1>2, <1>3

LEMMA SecondsStep ==
    ASSUME ObjectsAssumption, CostAssumption, ListsOK, NumbersOK, WorldOK, LoopOK,
           NEW x \in Actors, NEW c \in Causes, NEW secs \in 0..MaxWait,
           do_wait_seconds(x, c, secs)
    PROVE  Fine
PROOF
  <1>1. x \in Objects /\ c \in Objects /\ secs \in Int /\ 0 \in Attrs \cup {0}
        /\ NOTHING \in Things \cup {NOTHING}
    BY CostAssumption DEF ObjectsAssumption
  <1>2. wait_que(x, c, secs, NOTHING, 0, semaphore)
    BY DEF do_wait_seconds
  <1>3. semaphore \in [Semaphores -> Int]
    BY DEF NumbersOK
  <1>4. Steady /\ tops' = tops /\ (Covered(qsemfirst, semaphore) => Covered(qsemfirst', semaphore'))
    BY <1>1, <1>2, <1>3, WaitSteady
  <1> QED BY <1>4, FineSteady

LEMMA SemaphoreStep ==
    ASSUME ObjectsAssumption, CostAssumption, ListsOK, NumbersOK, WorldOK, LoopOK,
           NEW x \in Actors, NEW c \in Causes, NEW thing \in Things, NEW attr \in Attrs,
           NEW secs \in -1..MaxWait,
           do_wait_semaphore(x, c, thing, attr, secs)
    PROVE  Fine
PROOF
  <1> DEFINE k == <<thing, attr>>
             counts == [semaphore EXCEPT ![k] = @ + 1]
             blocks == Blocks(counts[k])
             wait == IF blocks THEN secs ELSE 0
             sem == IF blocks THEN thing ELSE NOTHING
  <1>1. x \in Objects /\ c \in Objects /\ attr \in Attrs \cup {0} /\ secs \in Int
    BY CostAssumption DEF ObjectsAssumption
  <1>2. wait_que(x, c, wait, sem, attr, counts)
    BY DEF do_wait_semaphore
  <1>3. k \in Semaphores /\ semaphore \in [Semaphores -> Int]
    BY DEF NumbersOK, Semaphores
  <1>4. /\ counts \in [Semaphores -> Int] /\ counts[k] = semaphore[k] + 1
        /\ \A h \in Semaphores : h # k => counts[h] = semaphore[h]
        /\ semaphore[k] \in Int
    BY <1>3
  <1>5. blocks <=> counts[k] > 0
    BY DEF Blocks
  <1> HIDE DEF counts
  <1>6. wait \in Int /\ sem \in Things \cup {NOTHING}
    BY <1>1
  <1>7. sem # NOTHING => sem = thing /\ counts[k] > 0
    BY <1>5
  <1> HIDE DEF wait, sem, blocks
  <1>8. ASSUME Covered(qsemfirst, semaphore)
        PROVE  Covered(qsemfirst, counts) /\
               (sem # NOTHING =>
                   counts[<<sem, attr>>] > Count(qsemfirst, WaitsOn(<<sem, attr>>)))
    <2>1. \A h \in Semaphores : Count(qsemfirst, WaitsOn(h)) \in Nat /\ semaphore[h] \in Int
      BY <1>3, CountType DEF ListsOK
    <2>2. \A h \in Semaphores : counts[h] >= semaphore[h] /\ counts[h] \in Int
      BY <1>4, <2>1
    <2>3. ASSUME NEW h \in Semaphores, Count(qsemfirst, WaitsOn(h)) > 0
          PROVE  counts[h] >= Count(qsemfirst, WaitsOn(h))
      <3>1. semaphore[h] >= Count(qsemfirst, WaitsOn(h))
        BY <1>8, <2>3 DEF Covered
      <3> QED BY <2>1, <2>2, <3>1
    <2>4. ASSUME sem # NOTHING PROVE counts[<<sem, attr>>] > Count(qsemfirst, WaitsOn(<<sem, attr>>))
      <3>1. <<sem, attr>> = k /\ counts[k] > 0
        BY <1>7, <2>4
      <3>2. Count(qsemfirst, WaitsOn(k)) > 0 => semaphore[k] >= Count(qsemfirst, WaitsOn(k))
        BY <1>3, <1>8 DEF Covered
      <3>3. Count(qsemfirst, WaitsOn(k)) \in Nat
        BY <1>3, <2>1
      <3> HIDE DEF k
      <3>4. counts[k] > Count(qsemfirst, WaitsOn(k))
        BY <1>4, <3>1, <3>2, <3>3
      <3> QED BY <3>1, <3>4
    <2> QED BY <2>3, <2>4 DEF Covered
  <1>9. Steady /\ tops' = tops /\ (Covered(qsemfirst, semaphore) => Covered(qsemfirst', semaphore'))
    BY <1>1, <1>2, <1>4, <1>6, <1>8, WaitSteady
  <1> QED BY <1>9, FineSteady

LEMMA NotifyStep ==
    ASSUME ObjectsAssumption, CostAssumption, ListsOK, NumbersOK, WorldOK, LoopOK,
           NEW thing \in Things, NEW attr \in Attrs, NEW key, NEW n \in 1..2,
           do_notify(thing, attr, key, n)
    PROVE  Fine /\ \A p \in Mortals : Settled(p)
PROOF
  <1>1. <<thing, attr>> \in Semaphores /\ n \in Nat
    BY DEF Semaphores
  <1>2. nfy_que(thing, attr, key, n) /\ UNCHANGED <<world, tops, now, added>>
    BY DEF do_notify
  <1>3. owner' = owner /\ tops' = tops /\ WorldOK' /\ LoopOK'
    BY <1>2 DEF world, WorldOK, LoopOK
  <1>4. /\ ListsOK' /\ NumbersOK' /\ Kept(qfirst, qfirst') /\ qwait' = qwait
        /\ Covered(qsemfirst, semaphore) => Covered(qsemfirst', semaphore')
        /\ owner' = owner => \A p \in Mortals : Settled(p)
    BY <1>1, <1>2, NotifySteady
  <1>5. Sorted(qwait) => Sorted(qwait')
    BY <1>4
  <1>6. Steady
    BY <1>3, <1>4, <1>5 DEF Steady
  <1> QED BY <1>3, <1>4, <1>6, FineSteady

LEMMA ClockStep ==
    ASSUME ObjectsAssumption, CostAssumption, ListsOK, NumbersOK, WorldOK, LoopOK,
           dispatch \/ \E secs \in {-1, 1} : do_queue_warp(secs)
    PROVE  Fine /\ \A p \in Mortals : Settled(p)
PROOF
  <1>1. CASE dispatch
    <2>1. /\ WorldOK' /\ owner' = owner /\ tops' = tops
          /\ queue' = queue /\ pennies' = pennies
      BY <1>1 DEF dispatch, world, accounts, WorldOK
    <2>2. LoopOK'
      BY <1>1 DEF dispatch, LoopOK
    <2>3. CASE "CF_DEQUEUE" \in control_flags
      <3>1. do_second(qwait, qsemfirst)
        BY <1>1, <2>3 DEF dispatch
      <3>2. qwait \in Seq(WBlocks) /\ qsemfirst \in Seq(SBlocks)
        BY DEF ListsOK
      <3>3. /\ ListsOK' /\ NumbersOK' /\ Kept(qfirst, qfirst')
            /\ Sorted(qwait) => Sorted(qwait')
            /\ Covered(qsemfirst, semaphore) => Covered(qsemfirst', semaphore')
            /\ \A p \in Mortals : Settled(p)
        BY <2>1, <3>1, <3>2, SecondKeeps
      <3> QED BY <2>1, <2>2, <3>3, FineSteady DEF Steady
    <2>4. CASE "CF_DEQUEUE" \notin control_flags
      <3>1. UNCHANGED <<lists, semaphore, accounts>>
        BY <1>1, <2>4 DEF dispatch
      <3>2. Looped => Looped'
        BY <2>1, <3>1, SameTops
      <3> QED BY <2>1, <2>2, <3>1, <3>2, FineIdle, SettledSame
    <2> QED BY <2>3, <2>4
  <1>2. ASSUME NEW secs \in {-1, 1}, do_queue_warp(secs)
        PROVE  Fine /\ \A p \in Mortals : Settled(p)
    <2>1. /\ do_second(WarpedWait(secs), WarpedSem(secs))
          /\ now' = now /\ UNCHANGED <<accounts, world, tops, added>>
      BY <1>2 DEF do_queue_warp, WarpedWait, WarpedSem
    <2>2. /\ WorldOK' /\ LoopOK' /\ owner' = owner /\ tops' = tops
          /\ queue' = queue /\ pennies' = pennies
      BY <2>1 DEF world, accounts, WorldOK, LoopOK
    <2>3. secs \in Int
      OBVIOUS
    <2>4. /\ WarpedWait(secs) \in Seq(WBlocks) /\ Sorted(WarpedWait(secs))
          /\ \A p : Count(WarpedWait(secs), Of(p)) = Count(qwait, Of(p))
      BY <2>3, WarpedWaitFacts
    <2>5. /\ WarpedSem(secs) \in Seq(SBlocks)
          /\ \A p : Count(WarpedSem(secs), Of(p)) = Count(qsemfirst, Of(p))
          /\ \A k : Count(WarpedSem(secs), WaitsOn(k)) = Count(qsemfirst, WaitsOn(k))
      BY <2>3, WarpedSemFacts
    <2>6. /\ ListsOK' /\ NumbersOK' /\ Kept(qfirst, qfirst')
          /\ Sorted(WarpedWait(secs)) => Sorted(qwait')
          /\ Covered(qsemfirst, semaphore) => Covered(qsemfirst', semaphore')
          /\ \A p \in Mortals : Settled(p)
      BY <2>1, <2>2, <2>4, <2>5, SecondKeeps
    <2> QED BY <2>2, <2>4, <2>6, FineSteady DEF Steady
  <1> QED BY <1>1, <1>2

LEMMA TopStep ==
    ASSUME ObjectsAssumption, CostAssumption, ListsOK, NumbersOK, WorldOK, LoopOK,
           TopStart \/ TopEnd
    PROVE  Fine
PROOF
  <1>1. qfirst \in Seq(QBlocks) /\ tops \in Seq(States)
    BY DEF ListsOK, LoopOK, States
  <1>2. CASE TopStart
    <2>1. /\ tops # <<>> /\ qfirst # <<>>
          /\ qlfirst' = qlfirst /\ qwait' = qwait /\ qsemfirst' = qsemfirst
          /\ owner' = owner /\ halted' = halted /\ going' = going /\ gone' = gone
          /\ control_flags' = control_flags /\ semaphore' = semaphore
          /\ now' = now /\ added' = added
          /\ \/ /\ qfirst' = Started(qfirst)
                /\ tops' = Front(tops) \o <<"running">>
             \/ /\ qfirst' = Tail(qfirst)
                /\ tops' = Front(tops) \o <<"between">>
      BY <1>2, TopStartCases DEF Looping
    <2>2. NumbersOK'
      BY <1>2, TopStartNumbers
    <2>3. /\ Started(qfirst) \in Seq(QBlocks) /\ Tail(qfirst) \in Seq(QBlocks)
          /\ Started(qfirst) # <<>> /\ Head(Started(qfirst)).player = NOTHING
      BY <1>1, <2>1, StartedFacts
    <2>4. ListsOK'
      BY <2>1, <2>3 DEF ListsOK
    <2>5. WorldOK'
      BY <2>1 DEF WorldOK
    <2>6. "running" \in States /\ "between" \in States
      BY DEF States
    <2>7. tops' \in Seq(States)
      BY <1>1, <2>1, <2>6, FrontFacts
    <2>8. LoopOK'
      BY <2>1, <2>7 DEF LoopOK, States
    <2>9. ASSUME Looped PROVE Looped'
      <3>1. Len(tops) = 1
        BY <1>1, <2>1, <2>9 DEF Looped
      <3>2. CASE qfirst' = Started(qfirst) /\ tops' = Front(tops) \o <<"running">>
        <4>1. Len(tops') = 1
          BY <1>1, <2>1, <2>6, <3>1, <3>2, FrontFacts
        <4>2. qfirst' # <<>> /\ Head(qfirst').player = NOTHING
          BY <2>3, <3>2
        <4> QED BY <4>1, <4>2 DEF Looped, RunningAtHead
      <3>3. CASE tops' = Front(tops) \o <<"between">>
        <4> DEFINE s == Front(tops) \o <<"between">>
        <4>3. Len(s) = 1 /\ \A i \in DOMAIN s : s[i] = "between"
          BY <1>1, <2>1, <2>6, <3>1, FrontFacts
        <4>1. Len(s) <= 1 /\ \A i \in DOMAIN s : s[i] # "running"
          BY <4>3
        <4> HIDE DEF s
        <4>2. tops' = s
          BY <3>3 DEF s
        <4> QED BY <4>1, <4>2, OneTop
      <3> QED BY <2>1, <3>2, <3>3
    <2>10. (Sorted(qwait) => Sorted(qwait')) /\ (Covered(qsemfirst, semaphore) => Covered(qsemfirst', semaphore'))
      BY <2>1
    <2> QED BY <2>2, <2>4, <2>5, <2>8, <2>9, <2>10 DEF Fine
  <1>3. CASE TopEnd
    <2>1. /\ tops # <<>> /\ qfirst # <<>> /\ qfirst' = Tail(qfirst)
          /\ qlfirst' = qlfirst /\ qwait' = qwait /\ qsemfirst' = qsemfirst
          /\ owner' = owner /\ halted' = halted /\ going' = going /\ gone' = gone
          /\ control_flags' = control_flags /\ semaphore' = semaphore
          /\ now' = now /\ added' = added
          /\ queue' = queue /\ pennies' = pennies
          /\ tops' = Front(tops) \o <<"between">>
      BY <1>3 DEF TopEnd, accounts, world
    <2>2. NumbersOK' /\ WorldOK'
      BY <2>1 DEF NumbersOK, WorldOK
    <2>3. Tail(qfirst) \in Seq(QBlocks)
      BY <1>1, <2>1, StartedFacts
    <2>4. ListsOK'
      BY <2>1, <2>3 DEF ListsOK
    <2>6. "between" \in States
      BY DEF States
    <2>7. tops' \in Seq(States)
      BY <1>1, <2>1, <2>6, FrontFacts
    <2>8. LoopOK'
      BY <2>1, <2>7 DEF LoopOK, States
    <2>9. ASSUME Looped PROVE Looped'
      <3>1. Len(tops) = 1
        BY <1>1, <2>1, <2>9 DEF Looped
      <3> DEFINE s == Front(tops) \o <<"between">>
      <3>4. Len(s) = 1 /\ \A i \in DOMAIN s : s[i] = "between"
        BY <1>1, <2>1, <2>6, <3>1, FrontFacts
      <3>2. Len(s) <= 1 /\ \A i \in DOMAIN s : s[i] # "running"
        BY <3>4
      <3> HIDE DEF s
      <3>3. tops' = s
        BY <2>1 DEF s
      <3> QED BY <3>2, <3>3, OneTop
    <2>10. (Sorted(qwait) => Sorted(qwait')) /\ (Covered(qsemfirst, semaphore) => Covered(qsemfirst', semaphore'))
      BY <2>1
    <2> QED BY <2>2, <2>4, <2>8, <2>9, <2>10 DEF Fine
  <1> QED BY <1>2, <1>3

(* The steps that touch neither the lists nor the accounts.                 *)
IdleNext ==
    \/ do_top \/ do_queue_kick \/ TopReturn
    \/ \E x \in Objects : do_set_halt(x)
    \/ \E t \in Things : do_destroy(t)
    \/ \E flag \in {"CF_INTERP", "CF_DEQUEUE"} : do_global(flag)

LEMMA IdleStep ==
    ASSUME ListsOK, NumbersOK, WorldOK, LoopOK, IdleNext
    PROVE  Fine /\ \A p \in Mortals : Settled(p)
PROOF
  <1>1. UNCHANGED <<lists, semaphore, accounts, owner>>
    BY DEF IdleNext, do_top, do_queue_kick, TopReturn, do_set_halt, do_destroy, do_global, world
  <1>2. \A p \in Mortals : Settled(p)
    BY <1>1, SettledSame
  <1>3. tops \in Seq(States)
    BY DEF LoopOK, States
  <1>4. CASE do_top
    <2>1. tops' = <<"called">> /\ UNCHANGED <<world, now, added>>
      BY <1>4 DEF do_top
    <2>2. WorldOK' /\ LoopOK'
      BY <2>1 DEF WorldOK, LoopOK, world
    <2>3. Len(<<"called">>) <= 1 /\ \A i \in DOMAIN <<"called">> : <<"called">>[i] # "running"
      OBVIOUS
    <2>4. Looped'
      BY <2>1, <2>3, OneTop
    <2> QED BY <1>1, <1>2, <2>2, <2>4, FineIdle
  <1>5. CASE do_queue_kick
    <2>1. tops' = Append(tops, "called") /\ UNCHANGED <<world, now, added>> /\ "kick" \in Happens
      BY <1>5 DEF do_queue_kick
    <2>2. WorldOK' /\ LoopOK'
      BY <2>1 DEF WorldOK, LoopOK, world
    <2> QED BY <1>1, <1>2, <2>1, <2>2, FineIdle
  <1>6. CASE TopReturn
    <2>1. tops # <<>> /\ tops' = Front(tops) /\ UNCHANGED <<world, now, added>>
      BY <1>6 DEF TopReturn, Looping
    <2>2. "called" \in States
      BY DEF States
    <2>3. Front(tops) \in Seq(States) /\ Len(Front(tops)) = Len(tops) - 1
      BY <1>3, <2>1, <2>2, FrontFacts
    <2>4. WorldOK' /\ LoopOK'
      BY <2>1, <2>3 DEF WorldOK, LoopOK, world, States
    <2>5. ASSUME Looped PROVE Looped'
      <3>1. Len(Front(tops)) = 0
        BY <1>3, <2>1, <2>3, <2>5 DEF Looped
      <3>2. DOMAIN Front(tops) = {}
        BY <2>3, <3>1
      <3> QED BY <2>1, <3>1, <3>2, OneTop
    <2> QED BY <1>1, <1>2, <2>4, <2>5, FineIdle
  <1>7. CASE \E x \in Objects : do_set_halt(x)
    <2>1. PICK x \in Objects : do_set_halt(x)
      BY <1>7
    <2>2. /\ halted' \subseteq Objects
          /\ UNCHANGED <<owner, going, gone, control_flags, tops, now, added>>
      BY <2>1 DEF do_set_halt, WorldOK
    <2>3. WorldOK' /\ LoopOK'
      BY <2>2 DEF WorldOK, LoopOK
    <2>4. Looped => Looped'
      BY <1>1, <2>2, SameTops
    <2> QED BY <1>1, <1>2, <2>3, <2>4, FineIdle
  <1>8. CASE \E t \in Things : do_destroy(t)
    <2>1. PICK t \in Things : do_destroy(t)
      BY <1>8
    <2>2. /\ going' \subseteq Things
          /\ UNCHANGED <<owner, halted, gone, control_flags, tops, now, added>>
      BY <2>1 DEF do_destroy, WorldOK
    <2>3. WorldOK' /\ LoopOK'
      BY <2>2 DEF WorldOK, LoopOK
    <2>4. Looped => Looped'
      BY <1>1, <2>2, SameTops
    <2> QED BY <1>1, <1>2, <2>3, <2>4, FineIdle
  <1>9. CASE \E flag \in {"CF_INTERP", "CF_DEQUEUE"} : do_global(flag)
    <2>1. PICK flag \in {"CF_INTERP", "CF_DEQUEUE"} : do_global(flag)
      BY <1>9
    <2>2. /\ control_flags' \subseteq {"CF_INTERP", "CF_DEQUEUE"}
          /\ UNCHANGED <<owner, halted, going, gone, tops, now, added>>
      BY <2>1 DEF do_global, WorldOK
    <2>3. WorldOK' /\ LoopOK'
      BY <2>2 DEF WorldOK, LoopOK
    <2>4. Looped => Looped'
      BY <1>1, <2>2, SameTops
    <2> QED BY <1>1, <1>2, <2>3, <2>4, FineIdle
  <1> QED BY <1>4, <1>5, <1>6, <1>7, <1>8, <1>9 DEF IdleNext

(* The disjuncts of Next, in the groups they are treated in.                *)
LEMMA NextCases ==
    ASSUME Next
    PROVE  \/ (\E x \in Objects : do_halt(x)) \/ do_halt_all
           \/ \E t \in Things, p \in Players : do_chown(t, p)
           \/ \E x \in Actors, c \in Causes, secs \in 0..MaxWait :
                do_wait_seconds(x, c, secs)
           \/ \E x \in Actors, c \in Causes, t \in Things, a \in Attrs, secs \in -1..MaxWait :
                do_wait_semaphore(x, c, t, a, secs)
           \/ \E t \in Things, a \in Attrs, key \in {"first", "all", "drain"}, n \in 1..2 :
                do_notify(t, a, key, n)
           \/ dispatch \/ \E secs \in {-1, 1} : do_queue_warp(secs)
           \/ TopStart \/ TopEnd
           \/ \E t \in Things : destroy_obj(t)
           \/ IdleNext
PROOF
  <1>1. \A k \in Semaphores : k[1] \in Things /\ k[2] \in Attrs
    BY DEF Semaphores
  <1>2. ASSUME NEW x \in Actors, NEW c \in Causes, NEW k \in Semaphores,
               NEW secs \in -1..MaxWait, do_wait_semaphore(x, c, k[1], k[2], secs)
        PROVE  \E t \in Things, a \in Attrs : do_wait_semaphore(x, c, t, a, secs)
    BY <1>1, <1>2
  <1>3. ASSUME NEW k \in Semaphores, NEW key \in {"first", "all", "drain"}, NEW n \in 1..2,
               do_notify(k[1], k[2], key, n)
        PROVE  \E t \in Things, a \in Attrs : do_notify(t, a, key, n)
    BY <1>1, <1>3
  <1>4. CASE \E x \in Actors, c \in Causes, k \in Semaphores, secs \in -1..MaxWait :
                do_wait_semaphore(x, c, k[1], k[2], secs)
    BY <1>2, <1>4, Zenon
  <1>5. CASE \E k \in Semaphores, key \in {"first", "all", "drain"}, n \in 1..2 :
                do_notify(k[1], k[2], key, n)
    BY <1>3, <1>5, Zenon
  <1>6. CASE ~(\E x \in Actors, c \in Causes, k \in Semaphores, secs \in -1..MaxWait :
                 do_wait_semaphore(x, c, k[1], k[2], secs))
             /\ ~(\E k \in Semaphores, key \in {"first", "all", "drain"}, n \in 1..2 :
                    do_notify(k[1], k[2], key, n))
    BY <1>6, Zenon DEF Next, IdleNext
  <1> QED BY <1>4, <1>5, <1>6

LEMMA EveryStep ==
    ASSUME ObjectsAssumption, CostAssumption, ListsOK, NumbersOK, WorldOK, LoopOK, Next
    PROVE  Fine
PROOF
  <1>1. CASE (\E x \in Objects : do_halt(x)) \/ do_halt_all
             \/ \E t \in Things, p \in Players : do_chown(t, p)
    BY <1>1, HaltStep
  <1>2. CASE \E x \in Actors, c \in Causes, secs \in 0..MaxWait : do_wait_seconds(x, c, secs)
    BY <1>2, SecondsStep
  <1>3. CASE \E x \in Actors, c \in Causes, t \in Things, a \in Attrs, secs \in -1..MaxWait :
               do_wait_semaphore(x, c, t, a, secs)
    BY <1>3, SemaphoreStep
  <1>4. CASE \E t \in Things, a \in Attrs, key \in {"first", "all", "drain"}, n \in 1..2 :
               do_notify(t, a, key, n)
    BY <1>4, NotifyStep
  <1>5. CASE dispatch \/ \E secs \in {-1, 1} : do_queue_warp(secs)
    BY <1>5, ClockStep
  <1>6. CASE TopStart \/ TopEnd
    BY <1>6, TopStep
  <1>7. CASE \E t \in Things : destroy_obj(t)
    BY <1>7, DestroyKeeps, FineSteady
  <1>8. CASE IdleNext
    BY <1>8, IdleStep
  <1> QED BY <1>1, <1>2, <1>3, <1>4, <1>5, <1>6, <1>7, <1>8, NextCases

LEMMA FineStutter ==
    ASSUME ListsOK, NumbersOK, WorldOK, LoopOK, UNCHANGED vars
    PROVE  Fine /\ \A p \in Mortals : Settled(p)
PROOF
  <1>1. UNCHANGED <<lists, semaphore, accounts, owner>> /\ UNCHANGED <<world, tops, now, added>>
    BY DEF vars, world
  <1>2. WorldOK' /\ LoopOK'
    BY <1>1 DEF world, WorldOK, LoopOK
  <1>3. Looped => Looped'
    BY <1>1, SameTops
  <1> QED BY <1>1, <1>2, <1>3, FineIdle, SettledSame

LEMMA AtStart ==
    ASSUME ObjectsAssumption, CostAssumption, Init
    PROVE  /\ ListsOK /\ NumbersOK /\ WorldOK /\ LoopOK
           /\ Sorted(qwait) /\ Covered(qsemfirst, semaphore) /\ Looped
PROOF
  <1>1. ListsOK
    BY DEF Init, ListsOK
  <1>2. NumbersOK
    BY CostAssumption DEF Init, NumbersOK
  <1>3. WorldOK
    BY DEF Init, WorldOK
  <1>4. LoopOK
    BY CostAssumption DEF Init, LoopOK
  <1>5. Sorted(qwait)
    BY DEF Init, Sorted
  <1>6. \A T : Count(<<>>, T) = 0
    BY CountEmpty
  <1>7. Covered(qsemfirst, semaphore)
    BY <1>6 DEF Init, Covered
  <1>8. Looped
    BY DEF Init, Looped, RunningAtHead
  <1> QED BY <1>1, <1>2, <1>3, <1>4, <1>5, <1>7, <1>8

-----------------------------------------------------------------------------
Sound == ListsOK /\ NumbersOK /\ WorldOK /\ LoopOK

LEMMA SoundInvariant == Spec => []Sound
PROOF
  <1>1. Init => Sound
    BY AtStart, ObjectsAssumption, CostAssumption DEF Sound
  <1>2. Sound /\ [Next]_vars => Sound'
    BY EveryStep, FineStutter, ObjectsAssumption, CostAssumption DEF Sound, Fine
  <1> QED BY <1>1, <1>2, PTL DEF Spec

(* Type correctness: the two queues that are executed hold blocks without a *)
(* time, the wait queue timed blocks, the semaphore queue blocks with a     *)
(* semaphore, whatever @halt, @notify, @timewarp, @chown and destruction do *)
(* to them, for any players, quota and deposit (cque.c).                    *)
THEOREM TypeCorrect == Spec => []TypeOK
PROOF
  <1>1. Sound => TypeOK
    BY TypeParts DEF Sound
  <1> QED BY <1>1, SoundInvariant, PTL

(* The wait queue is always sorted, so do_second may look at its head only, *)
(* even after @timewarp has overwritten its times (cque.c:525, cque.c:733). *)
THEOREM WaitQueueSorted == Spec => []WaitSorted
PROOF
  <1>1. Init => Sorted(qwait)
    BY AtStart, ObjectsAssumption, CostAssumption
  <1>2. Sound /\ Sorted(qwait) /\ [Next]_vars => Sorted(qwait)'
    <2> SUFFICES ASSUME Sound, Sorted(qwait), [Next]_vars PROVE Sorted(qwait')
      BY DEF Sorted
    <2>1. Fine
      BY EveryStep, FineStutter, ObjectsAssumption, CostAssumption DEF Sound
    <2> QED BY <2>1 DEF Fine
  <1>3. Sorted(qwait) => WaitSorted
    BY DEF Sorted, WaitSorted
  <1> QED BY <1>1, <1>2, <1>3, SoundInvariant, PTL DEF Spec

(* Every command waiting on a semaphore is counted in it, so nfy_que, which *)
(* wakes nobody when the count is not positive (cque.c:260), can always     *)
(* reach it.                                                                *)
THEOREM WaitersCounted == Spec => []SemaphoreCovers
PROOF
  <1>1. Init => Covered(qsemfirst, semaphore)
    BY AtStart, ObjectsAssumption, CostAssumption
  <1>2. Sound /\ Covered(qsemfirst, semaphore) /\ [Next]_vars => Covered(qsemfirst, semaphore)'
    <2> SUFFICES ASSUME Sound, Covered(qsemfirst, semaphore), [Next]_vars
                 PROVE  Covered(qsemfirst', semaphore')
      BY DEF Covered, WaitsOn, Blocks4, Block, Count
    <2>1. Fine
      BY EveryStep, FineStutter, ObjectsAssumption, CostAssumption DEF Sound
    <2> QED BY <2>1 DEF Fine
  <1>3. Sound /\ Covered(qsemfirst, semaphore) => SemaphoreCovers
    BY CoversCovered DEF Sound
  <1> QED BY <1>1, <1>2, <1>3, SoundInvariant, PTL DEF Spec

(* While do_top executes a command its block is the head of the player      *)
(* queue, whatever the command itself does to the queues, so the block that *)
(* cque.c:850 frees is its own.  Without @kick: a kicked do_top frees the   *)
(* head from under the command that called it.                              *)
THEOREM RunningCommandKept ==
    ASSUME "kick" \notin Happens
    PROVE  Spec => []RunningAtHead
PROOF
  <1>1. Init => Looped
    BY AtStart, ObjectsAssumption, CostAssumption
  <1>2. Sound /\ Looped /\ [Next]_vars => Looped'
    <2> SUFFICES ASSUME Sound, Looped, [Next]_vars PROVE Looped'
      OBVIOUS
    <2>1. Fine
      BY EveryStep, FineStutter, ObjectsAssumption, CostAssumption DEF Sound
    <2> QED BY <2>1 DEF Fine
  <1>3. Looped => RunningAtHead
    BY DEF Looped
  <1> QED BY <1>1, <1>2, <1>3, SoundInvariant, PTL DEF Spec

-----------------------------------------------------------------------------
(* que_next.                                                                *)
LEMMA SleepShort ==
    ASSUME NEW timers \in SUBSET Int, NEW t \in timers
    PROVE  Sleep(timers) <= 1 \/ Sleep(timers) < t
PROOF
  <1>1. CASE \E u \in timers : u <= 2
    BY <1>1 DEF Sleep
  <1>2. CASE ~\E u \in timers : u <= 2
    <2> DEFINE S == timers \cup {1000}
    <2>1. S \subseteq Nat /\ S # {} /\ t \in S
      BY <1>2
    <2>2. Sleep(timers) = Min(S) - 1
      BY <1>2 DEF Sleep, MaxSleep
    <2> HIDE DEF S
    <2>3. \E x \in S : \A y \in S : x <= y
      BY <2>1, Least
    <2>4. Min(S) \in S /\ Min(S) <= t
      BY <2>1, <2>3 DEF Min
    <2>5. Min(S) \in Nat /\ t \in Nat
      BY <2>1, <2>4
    <2> QED BY <2>2, <2>4, <2>5
  <1> QED BY <1>1, <1>2

(* The main loop never sleeps past the second a timed command is due in:    *)
(* que_next bounds the select of bsd.c:367 by every timer of the wait and   *)
(* the semaphore queue.                                                     *)
THEOREM NeverOverslept == Spec => []NoOversleep
PROOF
  <1>1. ASSUME Sound PROVE NoOversleep
    <2>1. qfirst \in Seq(QBlocks) /\ qlfirst \in Seq(QBlocks) /\ qwait \in Seq(WBlocks)
          /\ qsemfirst \in Seq(SBlocks) /\ now \in Nat
      BY <1>1 DEF Sound, ListsOK, LoopOK
    <2>2. \A i \in DOMAIN qwait : qwait[i] \in WBlocks
      BY <2>1
    <2>3. \A i \in DOMAIN qsemfirst : qsemfirst[i] \in SBlocks
      BY <2>1
    <2>4. \A e \in WBlocks : e.waittime - now \in Int
      BY <2>1 DEF WBlocks, Block
    <2>5. \A e \in SBlocks : e.waittime - now \in Int
      BY <2>1 DEF SBlocks, Block
    <2>6. Timers \in SUBSET Int
      BY <2>2, <2>3, <2>4, <2>5 DEF Timers
    <2>7. ASSUME qfirst \o qlfirst # <<>> PROVE que_next <= 1
      <3>1. qfirst # <<>> \/ qlfirst # <<>>
        BY <2>1, <2>7
      <3> QED BY <3>1 DEF que_next
    <2>8. ASSUME NEW t \in Timers PROVE que_next <= 1 \/ que_next < t
      <3>1. Sleep(Timers) <= 1 \/ Sleep(Timers) < t
        BY <2>6, SleepShort
      <3> QED BY <3>1 DEF que_next
    <2> QED BY <2>7, <2>8 DEF NoOversleep
  <1> QED BY <1>1, SoundInvariant, PTL

-----------------------------------------------------------------------------
(* The accounts of a player: every pending command is counted, no more are  *)
(* pending than the quota, and the money and the deposits are the player's. *)
Fair(p) ==
    /\ Pend(p) <= queue[p] /\ Pend(p) <= QueueQuota
    /\ pennies[p] + WaitCost * queue[p] <= Purse

LEMMA Deposits ==
    ASSUME NEW w \in Nat, NEW a \in Int, NEW b \in Int, a <= b
    PROVE  w * a <= w * b
PROOF
  <1>1. PICK d \in Nat : d = b - a
    OBVIOUS
  <1>2. w * b = w * a + w * d /\ w * d \in Nat /\ w * a \in Int
    BY <1>1
  <1> QED BY <1>2

LEMMA PendNextType ==
    ASSUME ListsOK', NEW p
    PROVE  Pend(p)' \in Nat
PROOF
  <1>1. PICK T : T = Of(p)'
    OBVIOUS
  <1>2. /\ qfirst' \in Seq(QBlocks) /\ qlfirst' \in Seq(QBlocks)
        /\ qwait' \in Seq(WBlocks) /\ qsemfirst' \in Seq(SBlocks)
    BY DEF ListsOK
  <1>3. /\ Count(qfirst', T) \in Nat /\ Count(qlfirst', T) \in Nat
        /\ Count(qwait', T) \in Nat /\ Count(qsemfirst', T) \in Nat
    BY <1>2, CountType
  <1>4. Pend(p)' = Count(qfirst', T) + Count(qlfirst', T) + Count(qwait', T) + Count(qsemfirst', T)
    BY <1>1 DEF Pend, Total
  <1> QED BY <1>3, <1>4

LEMMA SettledFair ==
    ASSUME CostAssumption, ListsOK, NumbersOK, ListsOK', NEW p \in Mortals, Settled(p), Fair(p)
    PROVE  Fair(p)'
PROOF
  <1>1. PICK n \in Nat : /\ Pend(p)' + n <= Pend(p)
                         /\ queue'[p] = queue[p] - n
                         /\ pennies'[p] = pennies[p] + WaitCost * n
    BY DEF Settled
  <1>2. Pend(p) \in Nat /\ Pend(p)' \in Nat
    BY PendType, PendNextType
  <1>3. queue[p] \in Int /\ pennies[p] \in Int /\ WaitCost \in Nat /\ QueueQuota \in Nat
    BY CostAssumption DEF NumbersOK, Players
  <1>4. WaitCost * (queue[p] - n) = WaitCost * queue[p] - WaitCost * n
    BY <1>3
  <1>5. WaitCost * queue[p] \in Int /\ WaitCost * n \in Int /\ Purse \in Nat
    BY <1>3, CostAssumption
  <1>6. pennies[p] + WaitCost * queue[p] <= Purse
    BY DEF Fair
  <1>7. pennies'[p] + WaitCost * queue'[p] <= Purse
    BY <1>1, <1>3, <1>4, <1>5, <1>6
  <1>8. Pend(p)' <= queue'[p] /\ Pend(p)' <= QueueQuota
    BY <1>1, <1>2, <1>3 DEF Fair
  <1> QED BY <1>7, <1>8 DEF Fair

(* What halting leaves pending.                                             *)
LEMMA HaltPend ==
    ASSUME ObjectsAssumption, ListsOK, NEW player, NEW object, NEW payee \in Players,
           NEW counts \in [Semaphores -> Int], NEW queues \in [Players -> Int],
           NEW purses \in [Mortals -> Int],
           halt_que(player, object, payee, counts, queues, purses),
           owner' = owner, NEW p \in Mortals, NEW m,
           m = Total(qfirst, qlfirst, qwait, qsemfirst, Of(p) \cap Wanted(player, object))
    PROVE  Pend(p)' + m = Pend(p) /\ Pend(p)' \in Nat /\ m \in Nat
PROOF
  <1> DEFINE T == Of(p)
             W == Wanted(player, object)
             L == Left(player, object, T)
  <1>1. PICK n : n = Total(qfirst, qlfirst, qwait, qsemfirst, Wanted(player, object))
    OBVIOUS
  <1>2. T \in SUBSET Blocks4 /\ \A e \in T : e.player # NOTHING
    BY OfOwned, KindTypes
  <1>3. /\ \A V : Count(qwait', V) = Count(qwait, Left(player, object, V))
        /\ \A V : Count(qsemfirst', V) = Count(qsemfirst, Left(player, object, V))
        /\ \A V : (\A e \in V : e.player # NOTHING) =>
                /\ Count(qfirst', V) = Count(qfirst, Left(player, object, V))
                /\ Count(qlfirst', V) = Count(qlfirst, Left(player, object, V))
    BY <1>1, HaltFacts
  <1>4. /\ Count(qwait', T) = Count(qwait, L) /\ Count(qsemfirst', T) = Count(qsemfirst, L)
        /\ Count(qfirst', T) = Count(qfirst, L) /\ Count(qlfirst', T) = Count(qlfirst, L)
    BY <1>2, <1>3
  <1>5. /\ qfirst \in Seq(Blocks4) /\ qlfirst \in Seq(Blocks4)
        /\ qwait \in Seq(Blocks4) /\ qsemfirst \in Seq(Blocks4)
    BY AllBlocks4
  <1>6. /\ Count(qfirst, T) = Count(qfirst, T \cap W) + Count(qfirst, L)
        /\ Count(qfirst, T \cap W) \in Nat /\ Count(qfirst, L) \in Nat
    BY <1>2, <1>5, LeftSplit
  <1>7. /\ Count(qlfirst, T) = Count(qlfirst, T \cap W) + Count(qlfirst, L)
        /\ Count(qlfirst, T \cap W) \in Nat /\ Count(qlfirst, L) \in Nat
    BY <1>2, <1>5, LeftSplit
  <1>8. /\ Count(qwait, T) = Count(qwait, T \cap W) + Count(qwait, L)
        /\ Count(qwait, T \cap W) \in Nat /\ Count(qwait, L) \in Nat
    BY <1>2, <1>5, LeftSplit
  <1>9. /\ Count(qsemfirst, T) = Count(qsemfirst, T \cap W) + Count(qsemfirst, L)
        /\ Count(qsemfirst, T \cap W) \in Nat /\ Count(qsemfirst, L) \in Nat
    BY <1>2, <1>5, LeftSplit
  <1>10. Pend(p)' = Count(qfirst, L) + Count(qlfirst, L) + Count(qwait, L) + Count(qsemfirst, L)
    BY <1>4, PendNext DEF Total
  <1>11. Pend(p) = Count(qfirst, T) + Count(qlfirst, T) + Count(qwait, T) + Count(qsemfirst, T)
    BY DEF Pend, Total
  <1>12. m = Count(qfirst, T \cap W) + Count(qlfirst, T \cap W)
               + Count(qwait, T \cap W) + Count(qsemfirst, T \cap W)
    BY DEF Total
  <1> DEFINE f1 == Count(qfirst, T \cap W)
             f2 == Count(qlfirst, T \cap W)
             f3 == Count(qwait, T \cap W)
             f4 == Count(qsemfirst, T \cap W)
             l1 == Count(qfirst, L)
             l2 == Count(qlfirst, L)
             l3 == Count(qwait, L)
             l4 == Count(qsemfirst, L)
  <1>13. /\ f1 \in Nat /\ f2 \in Nat /\ f3 \in Nat /\ f4 \in Nat
         /\ l1 \in Nat /\ l2 \in Nat /\ l3 \in Nat /\ l4 \in Nat
    BY <1>6, <1>7, <1>8, <1>9
  <1>14. Pend(p) = (f1 + l1) + (f2 + l2) + (f3 + l3) + (f4 + l4)
    BY <1>6, <1>7, <1>8, <1>9, <1>11
  <1>15. Pend(p)' = l1 + l2 + l3 + l4 /\ m = f1 + f2 + f3 + f4
    BY <1>10, <1>12
  <1> HIDE DEF f1, f2, f3, f4, l1, l2, l3, l4
  <1> QED BY <1>13, <1>14, <1>15

(* Halting everything of a player resets its count and pays every deposit.  *)
LEMMA HaltPlayer ==
    ASSUME ObjectsAssumption, CostAssumption, ListsOK, NEW who \in Players,
           NEW counts \in [Semaphores -> Int], NEW queues \in [Players -> Int],
           NEW purses \in [Mortals -> Int],
           halt_que(who, NOTHING, who, counts, queues, purses),
           owner' = owner, NEW p \in Mortals
    PROVE  /\ Pend(p)' \in Nat /\ Pend(p)' <= Pend(p)
           /\ p = who => /\ Pend(p)' = 0 /\ queue'[p] = 0
                         /\ pennies'[p] = purses[p] + WaitCost * Pend(p)
           /\ p # who => queue'[p] = queues[p] /\ pennies'[p] = purses[p]
PROOF
  <1> DEFINE W == Wanted(who, NOTHING)
  <1>1. W = Of(who)
    <2>1. who # NOTHING
      BY DEF ObjectsAssumption, Objects
    <2> QED BY <2>1 DEF Wanted, Of, que_want
  <1>2. PICK n : n = Total(qfirst, qlfirst, qwait, qsemfirst, Wanted(who, NOTHING))
    OBVIOUS
  <1>3. PICK m : m = Total(qfirst, qlfirst, qwait, qsemfirst, Of(p) \cap Wanted(who, NOTHING))
    OBVIOUS
  <1>4. Pend(p)' + m = Pend(p) /\ Pend(p)' \in Nat /\ m \in Nat
    BY <1>3, HaltPend
  <1>5. /\ pennies' = Give(purses, who, WaitCost * n)
        /\ queue' = [queues EXCEPT ![who] = LeftCounted(NOTHING, @, n)]
    BY <1>2, HaltFacts
  <1>6. p \in Players /\ p # GOD
    BY DEF Players, ObjectsAssumption
  <1>7. Pend(p)' <= Pend(p)
    BY <1>4
  <1>8. ASSUME p = who
        PROVE  /\ Pend(p)' = 0 /\ queue'[p] = 0
               /\ pennies'[p] = purses[p] + WaitCost * Pend(p)
    <2>1. n = Pend(p)
      BY <1>1, <1>2, <1>8 DEF Pend
    <2>2. Of(p) \cap Wanted(who, NOTHING) = Of(p)
      BY <1>1, <1>8
    <2>3. m = Pend(p)
      BY <1>3, <2>2 DEF Pend
    <2>4. Pend(p)' = 0
      BY <1>4, <2>3
    <2>5. queue'[p] = 0
      BY <1>5, <1>6, <1>8 DEF LeftCounted
    <2>6. pennies'[p] = purses[p] + WaitCost * n
      BY <1>5, <1>6, <1>8 DEF Give
    <2> QED BY <2>1, <2>4, <2>5, <2>6
  <1>9. ASSUME p # who PROVE queue'[p] = queues[p] /\ pennies'[p] = purses[p]
    BY <1>5, <1>6, <1>9 DEF Give
  <1> QED BY <1>4, <1>7, <1>8, <1>9

LEMMA HaltPlayerFair ==
    ASSUME ObjectsAssumption, CostAssumption, ListsOK, NumbersOK, ListsOK',
           NEW who \in Players, halt_que(who, NOTHING, who, semaphore, queue, pennies),
           owner' = owner, NEW p \in Mortals, Fair(p)
    PROVE  Fair(p)'
PROOF
  <1>1. /\ Pend(p)' \in Nat /\ Pend(p)' <= Pend(p)
        /\ p = who => /\ Pend(p)' = 0 /\ queue'[p] = 0
                      /\ pennies'[p] = pennies[p] + WaitCost * Pend(p)
        /\ p # who => queue'[p] = queue[p] /\ pennies'[p] = pennies[p]
    BY HaltPlayer DEF NumbersOK
  <1>2. CASE p # who
    BY <1>1, <1>2, SettledZero, SettledFair
  <1>3. CASE p = who
    <2>1. Pend(p) \in Nat /\ queue[p] \in Int /\ pennies[p] \in Int /\ WaitCost \in Nat
          /\ Purse \in Nat /\ QueueQuota \in Nat
      BY PendType, CostAssumption DEF NumbersOK, Players
    <2>2. WaitCost * Pend(p) <= WaitCost * queue[p]
      BY <2>1, Deposits DEF Fair
    <2>3. WaitCost * Pend(p) \in Int /\ WaitCost * queue[p] \in Int /\ WaitCost * 0 = 0
      BY <2>1
    <2>4. pennies'[p] + WaitCost * queue'[p] <= Purse
      <3>1. pennies'[p] + WaitCost * queue'[p] = pennies[p] + WaitCost * Pend(p)
        BY <1>1, <1>3, <2>1, <2>3
      <3>2. pennies[p] + WaitCost * queue[p] <= Purse
        BY DEF Fair
      <3> QED BY <2>1, <2>2, <2>3, <3>1, <3>2
    <2>5. Pend(p)' <= queue'[p] /\ Pend(p)' <= QueueQuota
      BY <1>1, <1>3, <2>1
    <2> QED BY <2>4, <2>5 DEF Fair
  <1> QED BY <1>2, <1>3

(* Halting one thing settles with its owner for exactly its commands.       *)
LEMMA HaltSettled ==
    ASSUME ObjectsAssumption, CostAssumption, ListsOK, NumbersOK,
           NEW player, NEW object, object # NOTHING, NEW who \in Players,
           Wanted(player, object) \in SUBSET Of(who),
           halt_que(player, object, who, semaphore, queue, pennies),
           owner' = owner, NEW p \in Mortals
    PROVE  Settled(p)
PROOF
  <1>3. PICK n : n = Total(qfirst, qlfirst, qwait, qsemfirst, Wanted(player, object))
    OBVIOUS
  <1>4. PICK m : m = Total(qfirst, qlfirst, qwait, qsemfirst, Of(p) \cap Wanted(player, object))
    OBVIOUS
  <1>9. /\ semaphore \in [Semaphores -> Int] /\ queue \in [Players -> Int]
        /\ pennies \in [Mortals -> Int]
    BY DEF NumbersOK
  <1>5. Pend(p)' + m = Pend(p) /\ Pend(p)' \in Nat /\ m \in Nat
    BY <1>4, <1>9, HaltPend
  <1>6. /\ pennies' = Give(pennies, who, WaitCost * n) /\ n \in Nat
        /\ queue' = [queue EXCEPT ![who] = LeftCounted(object, @, n)]
    BY <1>3, <1>9, HaltFacts
  <1>7. p \in Players /\ p # GOD /\ queue[p] \in Int /\ pennies[p] \in Int
    BY <1>9 DEF Players, ObjectsAssumption
  <1>8. CASE p = who
    <2>2. Of(p) \cap Wanted(player, object) = Wanted(player, object)
      BY <1>8
    <2>3. m = n
      BY <1>3, <1>4, <2>2
    <2>4. queue'[p] = queue[p] - n
      BY <1>6, <1>7, <1>8, <1>9 DEF LeftCounted
    <2>5. pennies'[p] = pennies[p] + WaitCost * n
      BY <1>6, <1>7, <1>8, <1>9 DEF Give
    <2>6. Pend(p)' + n <= Pend(p)
      <3>1. Pend(p) \in Nat
        BY PendType
      <3> QED BY <1>5, <2>3, <3>1
    <2> QED BY <1>6, <2>4, <2>5, <2>6 DEF Settled
  <1>10. CASE p # who
    <2>1. queue'[p] = queue[p] /\ pennies'[p] = pennies[p]
      BY <1>6, <1>7, <1>9, <1>10 DEF Give
    <2>2. Pend(p)' <= Pend(p)
      BY <1>5
    <2> QED BY <1>5, <2>1, <2>2, SettledZero
  <1> QED BY <1>8, <1>10

LEMMA HaltThingSettled ==
    ASSUME ObjectsAssumption, CostAssumption, ListsOK, NumbersOK, WorldOK,
           NEW t \in Things, NEW ptarg, ptarg = NOTHING \/ ptarg = Owner(t),
           halt_que(ptarg, t, Owner(t), semaphore, queue, pennies),
           owner' = owner, NEW p \in Mortals
    PROVE  Settled(p)
PROOF
  <1>1. t # NOTHING /\ Owner(t) \in Players
    BY OwnerType DEF ObjectsAssumption, Objects
  <1>2. Wanted(ptarg, t) \in SUBSET Of(Owner(t))
    BY <1>1 DEF Wanted, que_want, Of
  <1> DEFINE who == Owner(t)
  <1>3. /\ who \in Players /\ Wanted(ptarg, t) \in SUBSET Of(who)
        /\ halt_que(ptarg, t, who, semaphore, queue, pennies)
    BY <1>1, <1>2
  <1> HIDE DEF who
  <1> QED BY <1>1, <1>3, HaltSettled

LEMMA HaltAllSettled ==
    ASSUME ObjectsAssumption, CostAssumption, ListsOK, NumbersOK,
           halt_que(NOTHING, NOTHING, GOD, semaphore, queue, pennies),
           owner' = owner, NEW p \in Mortals
    PROVE  Settled(p)
PROOF
  <1>1. PICK n : n = Total(qfirst, qlfirst, qwait, qsemfirst, Wanted(NOTHING, NOTHING))
    OBVIOUS
  <1>2. PICK m : m = Total(qfirst, qlfirst, qwait, qsemfirst, Of(p) \cap Wanted(NOTHING, NOTHING))
    OBVIOUS
  <1>3. /\ semaphore \in [Semaphores -> Int] /\ queue \in [Players -> Int]
        /\ pennies \in [Mortals -> Int] /\ GOD \in Players
    BY DEF NumbersOK, Players
  <1>4. Pend(p)' + m = Pend(p) /\ Pend(p)' \in Nat /\ m \in Nat
    BY <1>2, <1>3, HaltPend
  <1>5. /\ pennies' = Give(pennies, GOD, WaitCost * n)
        /\ queue' = [queue EXCEPT ![GOD] = LeftCounted(NOTHING, @, n)]
    BY <1>1, <1>3, HaltFacts
  <1>6. p \in Players /\ p # GOD
    BY DEF Players, ObjectsAssumption
  <1>7. queue'[p] = queue[p] /\ pennies'[p] = pennies[p]
    BY <1>3, <1>5, <1>6 DEF Give
  <1>8. Pend(p)' <= Pend(p)
    BY <1>4
  <1> QED BY <1>4, <1>7, <1>8, SettledZero

LEMMA WaitFair ==
    ASSUME ObjectsAssumption, CostAssumption, ListsOK, NumbersOK, WorldOK, LoopOK, ListsOK',
           NEW player \in Objects, NEW cause \in Objects, NEW wait \in Int,
           NEW sem \in Things \cup {NOTHING}, NEW attr \in Attrs \cup {0},
           NEW counts \in [Semaphores -> Int],
           wait_que(player, cause, wait, sem, attr, counts),
           NEW p \in Mortals, Fair(p)
    PROVE  Fair(p)'
PROOF
  <1> DEFINE e       == Entry(player, cause, wait, sem, attr)
             who     == Owner(player)
             counted == [queue EXCEPT ![who] = @ + 1]
             paid(x) == Give(pennies, who, -(WaitCost + x))
  <1>1. PICK extra \in Surcharges :
          /\ UNCHANGED <<owner, going, gone, control_flags, tops, now>>
          /\ \/ /\ semaphore' = counts
                /\ UNCHANGED <<lists, accounts, halted, added>>
             \/ /\ halt_que(who, NOTHING, who, counts, counted, paid(extra))
                /\ halted' = halted \cup {player}
                /\ added' = added + 1
             \/ /\ ~OverQuota(who, counted)
                /\ queue' = counted /\ pennies' = paid(extra)
                /\ semaphore' = counts
                /\ added' = added + 1
                /\ Placed(e, wait, sem)
                /\ UNCHANGED halted
    BY WaitCases
  <1>2. who \in Players
    BY OwnerType
  <1>3. /\ e \in Live /\ e.sem = sem /\ e.player = player
    BY DEF Entry, Live, Block, LoopOK
  <1>4. e \in Of(p) <=> who = p
    <2>1. e \in Blocks4
      BY <1>3, BlockKinds
    <2> QED BY <1>3, <2>1 DEF Of
  <1> HIDE DEF e, who
  <1>5. /\ queue \in [Players -> Int] /\ pennies \in [Mortals -> Int]
        /\ p \in Players /\ p # GOD
    BY DEF NumbersOK, Players, ObjectsAssumption
  <1>6. extra \in Nat /\ WaitCost \in Nat /\ Purse \in Nat /\ QueueQuota \in Nat
    BY CostAssumption
  <1>7. -(WaitCost + extra) \in Int
    BY <1>6
  <1>8. paid(extra) \in [Mortals -> Int] /\ counted \in [Players -> Int]
    BY <1>2, <1>5, <1>7, GiveType
  <1>9. /\ p = who => counted[p] = queue[p] + 1 /\ paid(extra)[p] = pennies[p] + -(WaitCost + extra)
        /\ p # who => counted[p] = queue[p] /\ paid(extra)[p] = pennies[p]
    BY <1>2, <1>5 DEF Give
  <1> HIDE DEF counted, paid
  <1>10. Pend(p) \in Nat /\ queue[p] \in Int /\ pennies[p] \in Int /\ owner' = owner
    BY <1>1, <1>5, PendType
  <1>11. WaitCost * queue[p] \in Int /\ WaitCost * Pend(p) \in Int
    BY <1>6, <1>10
  <1>12. pennies[p] + WaitCost * queue[p] <= Purse /\ Pend(p) <= queue[p]
    BY DEF Fair
  <1>13. CASE UNCHANGED <<lists, accounts, halted, added>>
    <2>1. UNCHANGED <<lists, accounts, owner>>
      BY <1>10, <1>13
    <2> QED BY <2>1, SettledSame, SettledFair
  <1>14. CASE halt_que(who, NOTHING, who, counts, counted, paid(extra))
    <2> DEFINE cnt == counted
               pd == paid(extra)
    <2>3. halt_que(who, NOTHING, who, counts, cnt, pd) /\ cnt \in [Players -> Int] /\ pd \in [Mortals -> Int]
      BY <1>8, <1>14
    <2>4. /\ p = who => cnt[p] = queue[p] + 1 /\ pd[p] = pennies[p] + -(WaitCost + extra)
          /\ p # who => cnt[p] = queue[p] /\ pd[p] = pennies[p]
      BY <1>9
    <2> HIDE DEF cnt, pd
    <2>1. /\ Pend(p)' \in Nat /\ Pend(p)' <= Pend(p)
          /\ p = who => /\ Pend(p)' = 0 /\ queue'[p] = 0
                        /\ pennies'[p] = pd[p] + WaitCost * Pend(p)
          /\ p # who => queue'[p] = cnt[p] /\ pennies'[p] = pd[p]
      BY <1>2, <1>10, <2>3, HaltPlayer
    <2>2. CASE p # who
      <3>1. queue'[p] = queue[p] /\ pennies'[p] = pennies[p]
        BY <2>1, <2>2, <2>4
      <3> QED BY <2>1, <3>1, SettledZero, SettledFair
    <2>5. CASE p = who
      <3>1. queue'[p] = 0 /\ Pend(p)' = 0
            /\ pennies'[p] = pennies[p] + -(WaitCost + extra) + WaitCost * Pend(p)
        BY <2>1, <2>4, <2>5
      <3>2. WaitCost * Pend(p) <= WaitCost * queue[p]
        BY <1>6, <1>10, <1>12, Deposits
      <3>3. WaitCost * 0 = 0
        BY <1>6
      <3>4. pennies'[p] + WaitCost * queue'[p] <= Purse
        BY <1>6, <1>10, <1>11, <1>12, <3>1, <3>2, <3>3
      <3>5. Pend(p)' <= queue'[p] /\ Pend(p)' <= QueueQuota
        BY <1>6, <3>1
      <3> QED BY <3>4, <3>5 DEF Fair
    <2> QED BY <2>2, <2>5
  <1>15. CASE /\ ~OverQuota(who, counted)
              /\ queue' = counted /\ pennies' = paid(extra)
              /\ Placed(e, wait, sem)
    <2>1. Total(qfirst', qlfirst', qwait', qsemfirst', Of(p))
            = Total(qfirst, qlfirst, qwait, qsemfirst, Of(p))
                    + (IF e \in Of(p) THEN 1 ELSE 0)
      BY <1>3, <1>15, OfStable, PlacedFacts
    <2>2. Pend(p)' = Pend(p) + (IF who = p THEN 1 ELSE 0)
      BY <1>4, <1>10, <2>1, PendNext DEF Pend
    <2>3. CASE p # who
      <3>1. queue'[p] = queue[p] /\ pennies'[p] = pennies[p]
        BY <1>9, <1>15, <2>3
      <3>2. Pend(p)' = Pend(p)
        BY <1>10, <2>2, <2>3
      <3> QED BY <1>10, <3>1, <3>2, SettledZero, SettledFair
    <2>4. CASE p = who
      <3>1. queue'[p] = queue[p] + 1 /\ pennies'[p] = pennies[p] + -(WaitCost + extra)
        BY <1>9, <1>15, <2>4
      <3>2. queue[p] + 1 <= QueueQuota
        <4>1. ~(counted[p] > QueueMax(p)) /\ counted[p] = queue[p] + 1
          BY <1>9, <1>15, <2>4 DEF OverQuota
        <4>2. QueueMax(p) = QueueQuota
          BY <1>5 DEF QueueMax
        <4> QED BY <1>6, <1>10, <4>1, <4>2
      <3>3. Pend(p)' = Pend(p) + 1
        BY <2>2, <2>4
      <3>4. WaitCost * (queue[p] + 1) = WaitCost * queue[p] + WaitCost
        BY <1>6, <1>10
      <3>5. pennies'[p] + WaitCost * queue'[p] <= Purse
        BY <1>6, <1>10, <1>11, <1>12, <3>1, <3>4
      <3>6. Pend(p)' <= queue'[p] /\ Pend(p)' <= QueueQuota
        BY <1>6, <1>10, <1>12, <3>1, <3>2, <3>3
      <3> QED BY <3>5, <3>6 DEF Fair
    <2> QED BY <2>3, <2>4
  <1> QED BY <1>1, <1>13, <1>14, <1>15

LEMMA FairStep ==
    ASSUME ObjectsAssumption, CostAssumption, "chown" \notin Happens,
           ListsOK, NumbersOK, WorldOK, LoopOK, Next, NEW p \in Mortals, Fair(p)
    PROVE  Fair(p)'
PROOF
  <1>1. ListsOK'
    BY EveryStep DEF Fine
  <1>2. Settled(p) => Fair(p)'
    BY <1>1, SettledFair
  <1>3. ASSUME NEW x \in Objects, do_halt(x) PROVE Fair(p)'
    <2>1. owner' = owner
      BY <1>3 DEF do_halt, world
    <2>2. CASE x \in Players
      <3>1. halt_que(x, NOTHING, x, semaphore, queue, pennies)
        BY <1>3, <2>2 DEF do_halt
      <3> QED BY <1>1, <2>1, <2>2, <3>1, HaltPlayerFair
    <2>3. CASE x \notin Players
      <3>1. PICK ptarg \in {NOTHING, Owner(x)} :
              halt_que(ptarg, x, Payee(ptarg, x), semaphore, queue, pennies)
        BY <1>3, <2>3 DEF do_halt
      <3>2. Payee(ptarg, x) = Owner(x)
        BY PayeeType
      <3>3. x \in Things /\ (ptarg = NOTHING \/ ptarg = Owner(x))
        BY <2>3 DEF Objects
      <3>4. halt_que(ptarg, x, Owner(x), semaphore, queue, pennies)
        BY <3>1, <3>2
      <3>5. Settled(p)
        BY <2>1, <3>3, <3>4, HaltThingSettled
      <3> QED BY <1>2, <3>5
    <2> QED BY <2>2, <2>3
  <1>4. ASSUME do_halt_all PROVE Fair(p)'
    <2>1. owner' = owner
      BY <1>4 DEF do_halt_all, world
    <2>2. halt_que(NOTHING, NOTHING, GOD, semaphore, queue, pennies)
      BY <1>4, GodPaid DEF do_halt_all
    <2> QED BY <1>2, <2>1, <2>2, HaltAllSettled
  <1>5. ASSUME NEW x \in Actors, NEW c \in Causes, NEW secs \in 0..MaxWait,
               do_wait_seconds(x, c, secs)
        PROVE  Fair(p)'
    <2>1. x \in Objects /\ c \in Objects /\ secs \in Int /\ 0 \in Attrs \cup {0}
          /\ NOTHING \in Things \cup {NOTHING} /\ semaphore \in [Semaphores -> Int]
      BY CostAssumption DEF ObjectsAssumption, NumbersOK
    <2>2. wait_que(x, c, secs, NOTHING, 0, semaphore)
      BY <1>5 DEF do_wait_seconds
    <2> QED BY <1>1, <2>1, <2>2, WaitFair
  <1>6. ASSUME NEW x \in Actors, NEW c \in Causes, NEW t \in Things, NEW a \in Attrs,
               NEW secs \in -1..MaxWait, do_wait_semaphore(x, c, t, a, secs)
        PROVE  Fair(p)'
    <2> DEFINE k == <<t, a>>
               counts == [semaphore EXCEPT ![k] = @ + 1]
               blocks == Blocks(counts[k])
               wait == IF blocks THEN secs ELSE 0
               sem == IF blocks THEN t ELSE NOTHING
    <2>1. x \in Objects /\ c \in Objects /\ a \in Attrs \cup {0} /\ secs \in Int
      BY CostAssumption DEF ObjectsAssumption
    <2>2. wait_que(x, c, wait, sem, a, counts)
      BY <1>6 DEF do_wait_semaphore
    <2>3. counts \in [Semaphores -> Int]
      BY DEF NumbersOK, Semaphores
    <2>4. wait \in Int /\ sem \in Things \cup {NOTHING}
      BY <2>1
    <2> HIDE DEF counts, wait, sem
    <2> QED BY <1>1, <2>1, <2>2, <2>3, <2>4, WaitFair
  <1>7. ASSUME NEW t \in Things, NEW a \in Attrs, NEW key, NEW n \in 1..2,
               do_notify(t, a, key, n)
        PROVE  Fair(p)'
    BY <1>2, <1>7, NotifyStep
  <1>8. CASE dispatch \/ \E secs \in {-1, 1} : do_queue_warp(secs)
    BY <1>2, <1>8, ClockStep
  <1>9. CASE TopStart \/ TopEnd
    BY <1>2, <1>9, TopStartNumbers, TopEndSettled
  <1>10. ASSUME NEW t \in Things, destroy_obj(t) PROVE Fair(p)'
    BY <1>2, <1>10, DestroyKeeps
  <1>11. CASE IdleNext
    BY <1>2, <1>11, IdleStep
  <1>12. ~\E t \in Things, q \in Players : do_chown(t, q)
    BY DEF do_chown
  <1>13. CASE (\E x \in Objects : do_halt(x)) \/ do_halt_all
              \/ \E t \in Things, q \in Players : do_chown(t, q)
    BY <1>3, <1>4, <1>12, <1>13
  <1>14. CASE \E x \in Actors, c \in Causes, secs \in 0..MaxWait : do_wait_seconds(x, c, secs)
    BY <1>5, <1>14
  <1>15. CASE \E x \in Actors, c \in Causes, t \in Things, a \in Attrs, secs \in -1..MaxWait :
                do_wait_semaphore(x, c, t, a, secs)
    BY <1>6, <1>15
  <1>16. CASE \E t \in Things, a \in Attrs, key \in {"first", "all", "drain"}, n \in 1..2 :
                do_notify(t, a, key, n)
    BY <1>7, <1>16
  <1>17. CASE \E t \in Things : destroy_obj(t)
    BY <1>10, <1>17
  <1> QED BY <1>8, <1>9, <1>11, <1>13, <1>14, <1>15, <1>16, <1>17, NextCases

AllFair == \A p \in Mortals : Fair(p)

LEMMA FairInvariant ==
    ASSUME "chown" \notin Happens
    PROVE  Spec => [](Sound /\ AllFair)
PROOF
  <1>1. Init => AllFair
    <2> SUFFICES ASSUME Init, NEW p \in Mortals PROVE Fair(p)
      BY DEF AllFair
    <2>1. Count(<<>>, Of(p)) = 0
      BY CountEmpty
    <2>2. Pend(p) = 0
      BY <2>1 DEF Pend, Total, Init
    <2>3. queue[p] = 0 /\ pennies[p] = Purse
      BY DEF Init, Players
    <2>4. WaitCost * 0 = 0 /\ Purse \in Nat /\ QueueQuota \in Nat
      BY CostAssumption
    <2> QED BY <2>2, <2>3, <2>4 DEF Fair
  <1>2. Sound /\ AllFair /\ [Next]_vars => AllFair'
    <2> SUFFICES ASSUME Sound, AllFair, [Next]_vars, NEW p \in Mortals PROVE Fair(p)'
      BY DEF AllFair
    <2>1. Fair(p) /\ ListsOK /\ NumbersOK /\ WorldOK /\ LoopOK
      BY DEF AllFair, Sound
    <2>2. CASE Next
      BY <2>1, <2>2, FairStep, ObjectsAssumption, CostAssumption
    <2>3. CASE UNCHANGED vars
      <3>1. ListsOK' /\ Settled(p)
        BY <2>1, <2>3, FineStutter DEF Fine
      <3> QED BY <2>1, <3>1, SettledFair, CostAssumption
    <2> QED BY <2>2, <2>3
  <1> QED BY <1>1, <1>2, SoundInvariant, PTL DEF Spec

(* The quota: every command a player has pending is counted against it and  *)
(* there are never more than player_queue_limit, through @halt, @drain,     *)
(* time-outs, destruction and the quota's own halt (cque.c:404).  Without   *)
(* @chown, which gives pending commands to an owner who is not charged.     *)
THEOREM QuotaKept ==
    ASSUME "chown" \notin Happens
    PROVE  Spec => []QuotaRespected
PROOF
  <1>1. Sound /\ AllFair => QuotaRespected
    <2> SUFFICES ASSUME Sound, AllFair, NEW p \in Mortals
                 PROVE  Pending(p) <= queue[p] /\ Pending(p) <= QueueQuota
      BY DEF QuotaRespected
    <2>1. Pending(p) = Pend(p)
      BY PendType DEF Sound
    <2> QED BY <2>1 DEF AllFair, Fair
  <1> QED BY <1>1, FairInvariant, PTL

(* No deposit is returned twice: a player's money and the deposits of the   *)
(* commands counted against it never exceed what it started with, whatever  *)
(* is halted, drained, timed out or destroyed.  Without @chown, which       *)
(* refunds to the new owner what the old one paid.                          *)
THEOREM MoneyKept ==
    ASSUME "chown" \notin Happens
    PROVE  Spec => []NoFreeMoney
PROOF
  <1>1. Sound /\ AllFair => NoFreeMoney
    BY DEF AllFair, Fair, NoFreeMoney
  <1> QED BY <1>1, FairInvariant, PTL
=============================================================================
