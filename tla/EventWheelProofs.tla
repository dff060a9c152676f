-------------------------- MODULE EventWheelProofs --------------------------
(***************************************************************************)
(* Proofs about the event library for every number of blocks, wheel size,   *)
(* set of types and bound.  The first part is about the lists: what linking *)
(* a block at the head and unlinking one does to the blocks a list holds,   *)
(* to the link a loop follows and to the blocks it has still to visit.  The *)
(* second part uses only those facts.                                       *)
(***************************************************************************)
EXTENDS EventWheel, ListSelectionProofs, TLAPS

(* A block of a list has a position in it, and only one. *)
LEMMA AtPosition ==
    ASSUME NEW list \in Seq(Events), NEW e \in ToSet(list)
    PROVE  /\ At(list, e) \in 1..Len(list)
           /\ list[At(list, e)] = e
<1>1. PICK i \in DOMAIN list : list[i] = e
  BY DEF ToSet
<1>2. /\ At(list, e) \in DOMAIN list
      /\ list[At(list, e)] = e
  BY <1>1 DEF At
<1> QED
  BY <1>2

LEMMA AtUnique ==
    ASSUME NEW list \in Seq(Events), NoDuplicates(list),
           NEW i \in 1..Len(list)
    PROVE  At(list, list[i]) = i
<1>1. list[i] \in ToSet(list)
  BY DEF ToSet
<1> QED
  BY <1>1, AtPosition DEF NoDuplicates

(* ADD_TO_LIST_HEAD. *)
LEMMA LinkElements ==
    ASSUME NEW list \in Seq(Events), NEW x \in Events
    PROVE  /\ Link(list, x) \in Seq(Events)
           /\ Len(Link(list, x)) = Len(list) + 1
           /\ Link(list, x)[1] = x
           /\ \A i \in 1..Len(list) : Link(list, x)[i + 1] = list[i]
           /\ \A i \in 2..(Len(list) + 1) : Link(list, x)[i] = list[i - 1]
  BY DEF Link

LEMMA LinkSet ==
    ASSUME NEW list \in Seq(Events), NEW x \in Events
    PROVE  ToSet(Link(list, x)) = ToSet(list) \cup {x}
<1> DEFINE new == Link(list, x)
<1>1. /\ new \in Seq(Events)
      /\ Len(new) = Len(list) + 1
      /\ new[1] = x
      /\ \A i \in 1..Len(list) : new[i + 1] = list[i]
      /\ \A i \in 2..(Len(list) + 1) : new[i] = list[i - 1]
  BY LinkElements
<1> HIDE DEF new
<1>2. ASSUME NEW y \in ToSet(new) PROVE y \in ToSet(list) \cup {x}
  <2>1. PICK i \in 1..(Len(list) + 1) : new[i] = y
    BY <1>1, <1>2 DEF ToSet
  <2>2. CASE i = 1
    BY <1>1, <2>1, <2>2
  <2>3. CASE i \in 2..(Len(list) + 1)
    <3>1. i - 1 \in DOMAIN list /\ list[i - 1] = y
      BY <1>1, <2>1, <2>3
    <3> QED
      BY <3>1 DEF ToSet
  <2> QED
    BY <2>1, <2>2, <2>3
<1>3. ASSUME NEW y \in ToSet(list) PROVE y \in ToSet(new)
  <2>1. PICK i \in 1..Len(list) : list[i] = y
    BY <1>3 DEF ToSet
  <2>2. i + 1 \in DOMAIN new /\ new[i + 1] = y
    BY <1>1, <2>1
  <2> QED
    BY <2>2 DEF ToSet
<1>4. x \in ToSet(new)
  <2>1. 1 \in DOMAIN new
    BY <1>1
  <2> QED
    BY <1>1, <2>1 DEF ToSet
<1>5. ToSet(new) = ToSet(list) \cup {x}
  BY <1>2, <1>3, <1>4
<1> QED
  BY <1>5 DEF new

LEMMA LinkDistinct ==
    ASSUME NEW list \in Seq(Events), NoDuplicates(list),
           NEW x \in Events \ ToSet(list)
    PROVE  NoDuplicates(Link(list, x))
<1> DEFINE new == Link(list, x)
<1>1. /\ new \in Seq(Events)
      /\ Len(new) = Len(list) + 1
      /\ new[1] = x
      /\ \A i \in 2..(Len(list) + 1) : new[i] = list[i - 1]
  BY LinkElements
<1> HIDE DEF new
<1>2. \A i \in 1..Len(list) : list[i] # x
  BY DEF ToSet
<1>3. NoDuplicates(new)
  BY <1>1, <1>2, SMTT(40), ZenonT(40) DEF NoDuplicates
<1> QED
  BY <1>3 DEF new

(* A block linked at the head changes neither the link a loop standing      *)
(* elsewhere follows nor the blocks that loop has still to visit.           *)
LEMMA LinkKeepsCursor ==
    ASSUME NEW list \in Seq(Events), NoDuplicates(list),
           NEW x \in Events \ ToSet(list),
           NEW c \in ToSet(list)
    PROVE  /\ NextIn(Link(list, x), c) = NextIn(list, c)
           /\ Ahead(Link(list, x), c) = Ahead(list, c)
<1> DEFINE new == Link(list, x)
           k == At(list, c)
<1>1. /\ new \in Seq(Events)
      /\ Len(new) = Len(list) + 1
      /\ new[1] = x
      /\ \A i \in 1..Len(list) : new[i + 1] = list[i]
      /\ \A i \in 2..(Len(list) + 1) : new[i] = list[i - 1]
  BY LinkElements
<1>2. NoDuplicates(new)
  BY LinkDistinct
<1>3. k \in 1..Len(list) /\ list[k] = c
  BY AtPosition
<1> HIDE DEF new, k
<1>4. At(new, c) = k + 1
  <2>1. k + 1 \in 1..Len(new) /\ new[k + 1] = c
    BY <1>1, <1>3
  <2> QED
    BY <1>1, <1>2, <2>1, AtUnique
<1>5. NextIn(new, c) = NextIn(list, c)
  BY <1>1, <1>3, <1>4 DEF NextIn, k
<1>6. Ahead(new, c) = Ahead(list, c)
  <2> c \in Events /\ c # NULL
    BY <1>3, EventsAssumption
  <2>1. \A j \in DOMAIN list : j >= k => j + 1 \in DOMAIN new /\ j + 1 >= k + 1 /\ new[j + 1] = list[j]
    BY <1>1, <1>3
  <2>2. \A j \in DOMAIN new : j >= k + 1 => j - 1 \in DOMAIN list /\ j - 1 >= k /\ list[j - 1] = new[j]
    BY <1>1, <1>3
  <2>3. Ahead(new, c) = {new[i] : i \in {j \in DOMAIN new : j >= k + 1}}
    BY <1>4 DEF Ahead
  <2>4. Ahead(list, c) = {list[i] : i \in {j \in DOMAIN list : j >= k}}
    BY DEF Ahead, k
  <2> QED
    BY <2>1, <2>2, <2>3, <2>4
<1> QED
  BY <1>5, <1>6 DEF new

(* REMOVE_FROM_LIST. *)
LEMMA UnlinkElements ==
    ASSUME NEW list \in Seq(Events), NEW e \in ToSet(list)
    PROVE  /\ Unlink(list, e) \in Seq(Events)
           /\ Len(Unlink(list, e)) = Len(list) - 1
           /\ \A i \in 1..(Len(list) - 1) :
                 Unlink(list, e)[i] =
                     IF i < At(list, e) THEN list[i] ELSE list[i + 1]
<1> DEFINE k == At(list, e)
           before == SubSeq(list, 1, k - 1)
           after == SubSeq(list, k + 1, Len(list))
<1>1. k \in 1..Len(list)
  BY AtPosition
<1>2. Unlink(list, e) = before \o after
  BY DEF Unlink, RemoveAt
<1> HIDE DEF k
<1>3. /\ before \in Seq(Events)
      /\ Len(before) = k - 1
      /\ \A i \in 1..(k - 1) : before[i] = list[i]
  BY <1>1
<1>4. /\ after \in Seq(Events)
      /\ Len(after) = Len(list) - k
      /\ \A i \in 1..(Len(list) - k) : after[i] = list[i + k]
  BY <1>1
<1> HIDE DEF before, after
<1>5. /\ before \o after \in Seq(Events)
      /\ Len(before \o after) = Len(list) - 1
  BY <1>1, <1>3, <1>4
<1>6. \A i \in 1..(Len(list) - 1) :
         (before \o after)[i] = IF i < k THEN list[i] ELSE list[i + 1]
  <2> SUFFICES ASSUME NEW i \in 1..(Len(list) - 1)
               PROVE  (before \o after)[i] =
                        IF i < k THEN list[i] ELSE list[i + 1]
    OBVIOUS
  <2>1. CASE i < k
    <3>1. (before \o after)[i] = before[i]
      BY <1>1, <1>3, <1>4, <2>1
    <3> QED
      BY <1>1, <1>3, <2>1, <3>1
  <2>2. CASE ~(i < k)
    <3>1. i - (k - 1) \in 1..(Len(list) - k)
      BY <1>1, <2>2
    <3>2. (before \o after)[i] = after[i - (k - 1)]
      BY <1>1, <1>3, <1>4, <2>2
    <3>3. after[i - (k - 1)] = list[(i - (k - 1)) + k]
      BY <1>4, <3>1
    <3>4. (i - (k - 1)) + k = i + 1
      BY <1>1
    <3> QED
      BY <2>2, <3>2, <3>3, <3>4
  <2> QED
    BY <2>1, <2>2
<1> QED
  BY <1>2, <1>5, <1>6 DEF k

LEMMA UnlinkSet ==
    ASSUME NEW list \in Seq(Events), NoDuplicates(list),
           NEW e \in ToSet(list)
    PROVE  /\ ToSet(Unlink(list, e)) = ToSet(list) \ {e}
           /\ NoDuplicates(Unlink(list, e))
<1> DEFINE new == Unlink(list, e)
           k == At(list, e)
<1>1. /\ new \in Seq(Events)
      /\ Len(new) = Len(list) - 1
      /\ \A i \in 1..(Len(list) - 1) :
            new[i] = IF i < k THEN list[i] ELSE list[i + 1]
  BY UnlinkElements
<1>2. k \in 1..Len(list) /\ list[k] = e
  BY AtPosition
<1> HIDE DEF new, k
<1>3. \A i \in DOMAIN new : \E j \in DOMAIN list : new[i] = list[j] /\ list[j] # e
  <2> SUFFICES ASSUME NEW i \in DOMAIN new
               PROVE  \E j \in DOMAIN list : new[i] = list[j] /\ list[j] # e
    OBVIOUS
  <2>1. CASE i < k
    <3>1. i \in DOMAIN list /\ new[i] = list[i] /\ i # k
      BY <1>1, <1>2, <2>1
    <3> QED
      BY <1>2, <3>1 DEF NoDuplicates
  <2>2. CASE ~(i < k)
    <3>1. i + 1 \in DOMAIN list /\ new[i] = list[i + 1] /\ i + 1 # k
      BY <1>1, <1>2, <2>2
    <3> QED
      BY <1>2, <3>1 DEF NoDuplicates
  <2> QED
    BY <2>1, <2>2
<1>4. \A j \in DOMAIN list : list[j] # e => \E i \in DOMAIN new : new[i] = list[j]
  <2> SUFFICES ASSUME NEW j \in DOMAIN list, list[j] # e
               PROVE  \E i \in DOMAIN new : new[i] = list[j]
    OBVIOUS
  <2>1. CASE j < k
    <3>1. j \in DOMAIN new /\ new[j] = list[j]
      BY <1>1, <1>2, <2>1
    <3> QED
      BY <3>1
  <2>2. CASE j > k
    <3>1. j - 1 \in DOMAIN new /\ new[j - 1] = list[j]
      BY <1>1, <1>2, <2>2
    <3> QED
      BY <3>1
  <2> QED
    BY <1>2, <2>1, <2>2
<1>5. ToSet(new) = ToSet(list) \ {e}
  BY <1>3, <1>4 DEF ToSet
<1>6. NoDuplicates(new)
  <2> DEFINE from(i) == IF i < k THEN i ELSE i + 1
  <2>1. \A i \in DOMAIN new : from(i) \in DOMAIN list /\ new[i] = list[from(i)]
    BY <1>1, <1>2
  <2>2. \A i, j \in DOMAIN new : i # j => from(i) # from(j)
    BY <1>1, <1>2
  <2> HIDE DEF from
  <2> QED
    BY <2>1, <2>2 DEF NoDuplicates
<1> QED
  BY <1>5, <1>6 DEF new

(* The link a loop follows leads to another block of the list, or out. *)
LEMMA NextInList ==
    ASSUME NEW list \in Seq(Events), NoDuplicates(list),
           NEW e \in ToSet(list)
    PROVE  NextIn(list, e) \in (ToSet(list) \ {e}) \cup {NULL}
<1> DEFINE k == At(list, e)
<1>1. k \in 1..Len(list) /\ list[k] = e
  BY AtPosition
<1> HIDE DEF k
<1>2. CASE k < Len(list)
  <2>1. k + 1 \in DOMAIN list /\ NextIn(list, e) = list[k + 1]
    BY <1>1, <1>2 DEF NextIn, k
  <2>2. list[k + 1] # e
    BY <1>1, <1>2, <2>1 DEF NoDuplicates
  <2> QED
    BY <2>1, <2>2 DEF ToSet
<1>3. CASE ~(k < Len(list))
  BY <1>3 DEF NextIn, k
<1> QED
  BY <1>2, <1>3

(* Going on to the next block leaves the rest ahead, and unlinking the      *)
(* block just visited does not lose any of it.                              *)
LEMMA AheadNext ==
    ASSUME NEW list \in Seq(Events), NoDuplicates(list),
           NEW e \in ToSet(list)
    PROVE  Ahead(list, NextIn(list, e)) = Ahead(list, e) \ {e}
<1> DEFINE k == At(list, e)
<1>1. k \in 1..Len(list) /\ list[k] = e
  BY AtPosition
<1>2. e # NULL
  BY <1>1, EventsAssumption
<1>3. Ahead(list, e) = {list[i] : i \in {j \in DOMAIN list : j >= k}}
  BY <1>2 DEF Ahead
<1> HIDE DEF k
<1>4. Ahead(list, e) \ {e} = {list[i] : i \in {j \in DOMAIN list : j >= k + 1}}
  BY <1>1, <1>3 DEF NoDuplicates
<1>5. CASE k < Len(list)
  <2>1. /\ k + 1 \in 1..Len(list)
        /\ NextIn(list, e) = list[k + 1]
    BY <1>1, <1>5 DEF NextIn, k
  <2>2. At(list, NextIn(list, e)) = k + 1
    BY <2>1, AtUnique
  <2>3. NextIn(list, e) # NULL
    BY <2>1, EventsAssumption
  <2> QED
    BY <1>4, <2>2, <2>3 DEF Ahead
<1>6. CASE ~(k < Len(list))
  <2>1. NextIn(list, e) = NULL
    BY <1>6 DEF NextIn, k
  <2>2. {j \in DOMAIN list : j >= k + 1} = {}
    BY <1>1, <1>6
  <2> QED
    BY <1>4, <2>1, <2>2 DEF Ahead
<1> QED
  BY <1>5, <1>6

LEMMA AheadUnlink ==
    ASSUME NEW list \in Seq(Events), NoDuplicates(list),
           NEW e \in ToSet(list)
    PROVE  Ahead(Unlink(list, e), NextIn(list, e)) = Ahead(list, e) \ {e}
<1> DEFINE k == At(list, e)
           new == Unlink(list, e)
<1>1. k \in 1..Len(list) /\ list[k] = e
  BY AtPosition
<1>2. /\ new \in Seq(Events)
      /\ Len(new) = Len(list) - 1
      /\ \A i \in 1..(Len(list) - 1) :
            new[i] = IF i < k THEN list[i] ELSE list[i + 1]
      /\ NoDuplicates(new)
  BY UnlinkElements, UnlinkSet
<1>3. e # NULL
  BY <1>1, EventsAssumption
<1>4. Ahead(list, e) = {list[i] : i \in {j \in DOMAIN list : j >= k}}
  BY <1>3 DEF Ahead
<1> HIDE DEF k, new
<1>5. Ahead(list, e) \ {e} = {list[i] : i \in {j \in DOMAIN list : j >= k + 1}}
  BY <1>1, <1>4 DEF NoDuplicates
<1>6. CASE k < Len(list)
  <2>1. /\ k \in 1..Len(new)
        /\ new[k] = list[k + 1]
        /\ NextIn(list, e) = list[k + 1]
    BY <1>1, <1>2, <1>6 DEF NextIn, k
  <2>2. At(new, NextIn(list, e)) = k
    BY <1>2, <2>1, AtUnique
  <2>3. NextIn(list, e) # NULL
    BY <1>2, <2>1, EventsAssumption
  <2>4. Ahead(new, NextIn(list, e)) = {new[i] : i \in {j \in DOMAIN new : j >= k}}
    BY <2>2, <2>3 DEF Ahead
  <2>5. \A j \in DOMAIN list : j >= k + 1 => j - 1 \in DOMAIN new /\ j - 1 >= k /\ new[j - 1] = list[j]
    BY <1>1, <1>2
  <2>6. \A j \in DOMAIN new : j >= k => j + 1 \in DOMAIN list /\ j + 1 >= k + 1 /\ list[j + 1] = new[j]
    BY <1>1, <1>2
  <2> QED
    BY <1>5, <2>4, <2>5, <2>6 DEF new
<1>7. CASE ~(k < Len(list))
  <2>1. NextIn(list, e) = NULL
    BY <1>7 DEF NextIn, k
  <2>2. {j \in DOMAIN list : j >= k + 1} = {}
    BY <1>1, <1>7
  <2> QED
    BY <1>5, <2>1, <2>2 DEF Ahead
<1> QED
  BY <1>6, <1>7

(* A loop starts with the whole list ahead of it. *)
LEMMA AheadFirst ==
    ASSUME NEW list \in Seq(Events), NoDuplicates(list)
    PROVE  /\ FirstOf(list) \in ToSet(list) \cup {NULL}
           /\ Ahead(list, FirstOf(list)) = ToSet(list)
<1>1. CASE list = <<>>
  BY <1>1 DEF FirstOf, ToSet, Ahead
<1>2. CASE list # <<>>
  <2>1. 1 \in 1..Len(list) /\ FirstOf(list) = list[1]
    BY <1>2 DEF FirstOf
  <2>2. At(list, FirstOf(list)) = 1
    BY <2>1, AtUnique
  <2>3. FirstOf(list) # NULL
    BY <2>1, EventsAssumption
  <2>4. \A j \in DOMAIN list : j >= 1
    OBVIOUS
  <2> QED
    BY <2>1, <2>2, <2>3, <2>4 DEF Ahead, ToSet
<1> QED
  BY <1>1, <1>2

(* Taking a block off the free list. *)
LEMMA TailSet ==
    ASSUME NEW list \in Seq(Events), NoDuplicates(list), list # <<>>
    PROVE  /\ Tail(list) \in Seq(Events)
           /\ Head(list) \in ToSet(list)
           /\ ToSet(Tail(list)) = ToSet(list) \ {Head(list)}
           /\ NoDuplicates(Tail(list))
<1> DEFINE new == Tail(list)
<1>1. /\ new \in Seq(Events)
      /\ Len(new) = Len(list) - 1
      /\ \A i \in 1..(Len(list) - 1) : new[i] = list[i + 1]
      /\ 1 \in DOMAIN list
      /\ Head(list) = list[1]
  OBVIOUS
<1> HIDE DEF new
<1>2. \A i \in DOMAIN new : i + 1 \in DOMAIN list /\ i + 1 # 1 /\ new[i] = list[i + 1]
  BY <1>1
<1>3. \A j \in DOMAIN list : j # 1 => j - 1 \in DOMAIN new /\ new[j - 1] = list[j]
  BY <1>1
<1>4. ToSet(new) = ToSet(list) \ {list[1]}
  <2>1. \A j \in DOMAIN list : j # 1 => list[j] # list[1]
    BY <1>1 DEF NoDuplicates
  <2>2. \A y \in ToSet(new) : y \in ToSet(list) /\ y # list[1]
    BY <1>2, <2>1 DEF ToSet
  <2>3. \A y \in ToSet(list) : y # list[1] => y \in ToSet(new)
    BY <1>3 DEF ToSet
  <2> QED
    BY <2>2, <2>3
<1>5. NoDuplicates(new)
  BY <1>1, <1>2 DEF NoDuplicates
<1>6. list[1] \in ToSet(list)
  BY <1>1 DEF ToSet
<1> QED
  BY <1>1, <1>4, <1>5, <1>6 DEF new

LEMMA SetOfEvents ==
    ASSUME NEW list \in Seq(Events)
    PROVE  ToSet(list) \subseteq Events
  BY DEF ToSet

LEMMA SlotInWheel == \A n \in Nat : Slot(n) \in Slots
  BY SizeAssumption DEF Slot, Slots
-----------------------------------------------------------------------------
(* event_delete keeps the lists in agreement.  Its callers hold e in the    *)
(* slot they pass.                                                          *)
LEMMA DeleteKeepsLists ==
    ASSUME TypeOK, ListsAgree,
           NEW fp \in Slots, NEW e \in ToSet(event_stack[fp]),
           event_delete(e, fp)
    PROVE  /\ ListsAgree'
           /\ event_list' \in Seq(Events)
           /\ Len(event_list') = Len(event_list) - 1
           /\ event_stack' \in [Slots -> Seq(Events)]
           /\ event_first_in_type' \in [0..last_event_type -> Seq(Events)]
           /\ event_free_list' \in Seq(Events)
           /\ Scheduled' = Scheduled \ {e}
           /\ event_stack'[fp] = Unlink(event_stack[fp], e)
<1>1. /\ event_list \in Seq(Events)
      /\ event_stack \in [Slots -> Seq(Events)]
      /\ last_event_type \in Int
      /\ event_first_in_type \in [0..last_event_type -> Seq(Events)]
      /\ event_free_list \in Seq(Events)
      /\ \A x \in Events : block[x].type \in Nat
  BY BoundsAssumption DEF TypeOK, Types
<1>2. e \in Scheduled /\ Slot(block[e].tick) = fp
  BY DEF ListsAgree, SlotsAgree
<1>3. Scheduled \subseteq Events
  BY <1>1, SetOfEvents DEF Scheduled
<1> DEFINE t == block[e].type
<1>4. t \in 0..last_event_type /\ e \in ToSet(event_first_in_type[t])
  BY <1>1, <1>2, <1>3 DEF ListsAgree, TypesAgree
<1>5. /\ event_list' \in Seq(Events)
      /\ Len(event_list') = Len(event_list) - 1
      /\ Scheduled' = Scheduled \ {e}
      /\ NoDuplicates(event_list')
  BY <1>1, <1>2, UnlinkElements, UnlinkSet
  DEF event_delete, Scheduled, ListsAgree, MainAgrees
<1>6. /\ event_free_list' \in Seq(Events)
      /\ NoDuplicates(event_free_list')
      /\ ToSet(event_free_list') = ToSet(event_free_list) \cup {e}
  BY <1>1, <1>2, <1>3, LinkElements, LinkSet, LinkDistinct
  DEF event_delete, ListsAgree, MainAgrees
<1>7. MainAgrees'
  BY <1>5, <1>6 DEF MainAgrees, ListsAgree
<1>8. /\ event_stack'[fp] = Unlink(event_stack[fp], e)
      /\ \A s \in Slots \ {fp} : event_stack'[s] = event_stack[s]
      /\ event_stack' \in [Slots -> Seq(Events)]
  BY <1>1, UnlinkElements DEF event_delete
<1>9. SlotsAgree'
  <2> SUFFICES ASSUME NEW s \in Slots
               PROVE  /\ NoDuplicates(event_stack'[s])
                      /\ ToSet(event_stack'[s]) =
                           {x \in Scheduled' : Slot(block'[x].tick) = s}
    BY DEF SlotsAgree, Slot
  <2>1. block' = block
    BY DEF event_delete
  <2>2. CASE s = fp
    BY <1>1, <1>5, <1>8, <2>1, <2>2, UnlinkSet DEF ListsAgree, SlotsAgree
  <2>3. CASE s # fp
    BY <1>2, <1>5, <1>8, <2>1, <2>3 DEF ListsAgree, SlotsAgree
  <2> QED
    BY <2>2, <2>3
<1>10. /\ event_first_in_type'[t] = Unlink(event_first_in_type[t], e)
       /\ \A u \in 0..last_event_type :
             u # t => event_first_in_type'[u] = event_first_in_type[u]
       /\ event_first_in_type' \in [0..last_event_type -> Seq(Events)]
  BY <1>1, <1>4, UnlinkElements DEF event_delete
<1>11. TypesAgree'
  <2>1. block' = block /\ last_event_type' = last_event_type
    BY DEF event_delete
  <2>2. ASSUME NEW u \in 0..last_event_type
        PROVE  /\ NoDuplicates(event_first_in_type'[u])
               /\ ToSet(event_first_in_type'[u]) =
                    {x \in Scheduled' : block[x].type = u}
    <3>1. CASE u = t
      BY <1>1, <1>4, <1>5, <1>10, <3>1, UnlinkSet DEF ListsAgree, TypesAgree
    <3>2. CASE u # t
      BY <1>2, <1>5, <1>10, <3>2 DEF ListsAgree, TypesAgree
    <3> QED
      BY <3>1, <3>2
  <2> QED
    BY <1>5, <2>1, <2>2 DEF ListsAgree, TypesAgree
<1> QED
  BY <1>5, <1>6, <1>7, <1>8, <1>9, <1>10, <1>11 DEF ListsAgree
-----------------------------------------------------------------------------
(* What is inductive: the cursors are safe because the lists agree, the     *)
(* lists agree because the loops delete only blocks their cursors hold, and *)
(* no event is overlooked because of both.                                  *)
IInv == TypeOK /\ ListsAgree /\ CursorsLinked /\ NeverLate /\ NoEventLost

LEMMA InitEstablishes == Init => IInv
<1> SUFFICES ASSUME Init PROVE IInv
  OBVIOUS
<1> USE DEF Init
<1>1. TypeOK
  <2>1. block \in [Events -> [zombie : BOOLEAN, type : Types,
                             data : Data \cup {NULL},
                             data2 : Data2 \cup {NULL}, tick : 0..MaxTick]]
    BY BoundsAssumption DEF Types
  <2>2. event_first_in_type \in [0..last_event_type -> Seq(Events)]
    <3>1. 0..(-1) = {}
      OBVIOUS
    <3> QED
      BY <3>1
  <2>3. event_stack \in [Slots -> Seq(Events)]
    OBVIOUS
  <2>4. run \in [pc : {"idle", "scan", "call", "typescan", "typecall"},
                 e : Events \cup {NULL}, e2 : Events \cup {NULL}]
    OBVIOUS
  <2> QED
    BY <2>1, <2>2, <2>3, <2>4, BoundsAssumption DEF TypeOK
<1>2. ToSet(<<>>) = {} /\ NoDuplicates(<<>>)
  BY DEF ToSet, NoDuplicates
<1>3. Scheduled = {}
  BY <1>2 DEF Scheduled
<1>4. ListsAgree
  BY <1>2, <1>3 DEF ListsAgree, MainAgrees, SlotsAgree, TypesAgree
<1>5. CursorsLinked
  BY DEF CursorsLinked
<1>6. NeverLate
  BY <1>3 DEF NeverLate, Live
<1>7. NoEventLost
  BY DEF NoEventLost
<1> QED
  BY <1>1, <1>4, <1>5, <1>6, <1>7 DEF IInv

LEMMA AddPreserves ==
    ASSUME IInv,
           NEW time \in Nat, NEW type \in Types, NEW d \in Data,
           NEW d2 \in Data2,
           event_add(time, type, d, d2)
    PROVE  IInv'
<1> DEFINE tick == event_tick + Delay(time)
           grown == GrowTypes(type)
           slot == Slot(tick)
<1>1. /\ TypeOK /\ MainAgrees /\ SlotsAgree /\ TypesAgree
      /\ CursorsLinked /\ NeverLate /\ NoEventLost
  BY DEF IInv, ListsAgree
<1>2. PICK e \in Events :
        /\ IF event_free_list # <<>>
             THEN /\ e = Head(event_free_list)
                  /\ event_free_list' = Tail(event_free_list)
             ELSE /\ e \in Fresh
                  /\ UNCHANGED event_free_list
        /\ block' = [block EXCEPT ![e] =
             [zombie |-> FALSE, type |-> type, data |-> d,
              data2 |-> d2, tick |-> tick]]
        /\ event_list' = Link(event_list, e)
        /\ event_first_in_type' = [grown EXCEPT ![type] = Link(@, e)]
        /\ event_stack' = [event_stack EXCEPT ![slot] = Link(@, e)]
  BY DEF event_add
<1>3. /\ Idle \/ InCallback
      /\ events_scheduled < MaxScheduled
      /\ tick <= MaxTick
      /\ events_scheduled' = events_scheduled + 1
      /\ last_event_type' =
           IF type > last_event_type THEN type ELSE last_event_type
      /\ UNCHANGED <<event_tick, events_executed, events_zombies, run>>
  BY DEF event_add
<1>4. /\ event_list \in Seq(Events)
      /\ event_free_list \in Seq(Events)
      /\ event_stack \in [Slots -> Seq(Events)]
      /\ event_first_in_type \in [0..last_event_type -> Seq(Events)]
      /\ last_event_type \in -1..MaxType
      /\ event_tick \in Nat
      /\ type \in Nat /\ type <= MaxType
  BY <1>1, BoundsAssumption DEF TypeOK, Types
<1>5. tick \in 0..MaxTick /\ tick > event_tick
  BY <1>3, <1>4, BoundsAssumption DEF Delay
<1>6. slot \in Slots
  BY <1>5, SlotInWheel, BoundsAssumption
<1> HIDE DEF tick, grown, slot
<1>7. /\ event_free_list' \in Seq(Events)
      /\ NoDuplicates(event_free_list')
      /\ ToSet(event_free_list') \subseteq ToSet(event_free_list)
      /\ e \notin ToSet(event_free_list')
      /\ e \notin Scheduled
  <2>1. CASE event_free_list # <<>>
    BY <1>1, <1>2, <1>4, <2>1, TailSet DEF MainAgrees
  <2>2. CASE event_free_list = <<>>
    BY <1>1, <1>2, <1>4, <2>2 DEF MainAgrees, Fresh
  <2> QED
    BY <2>1, <2>2
<1>8. /\ block'[e] = [zombie |-> FALSE, type |-> type, data |-> d,
                       data2 |-> d2, tick |-> tick]
      /\ \A x \in Events \ {e} : block'[x] = block[x]
  BY <1>1, <1>2 DEF TypeOK
<1>9. /\ event_list' \in Seq(Events)
      /\ Len(event_list') = Len(event_list) + 1
      /\ Scheduled' = Scheduled \cup {e}
      /\ NoDuplicates(event_list')
  BY <1>1, <1>2, <1>4, <1>7, LinkElements, LinkSet, LinkDistinct
  DEF Scheduled, MainAgrees
<1>10. Scheduled \subseteq Events
  BY <1>4, SetOfEvents DEF Scheduled
<1>11. MainAgrees'
  BY <1>1, <1>7, <1>9 DEF MainAgrees
<1>fields. /\ block'[e].type = type
           /\ block'[e].tick = tick
           /\ ~block'[e].zombie
           /\ \A x \in Scheduled : x # e /\ block'[x] = block[x]
  BY <1>7, <1>8, <1>10
<1>12. /\ event_stack'[slot] = Link(event_stack[slot], e)
       /\ \A s \in Slots : s # slot => event_stack'[s] = event_stack[s]
       /\ event_stack' \in [Slots -> Seq(Events)]
       /\ \A s \in Slots : e \notin ToSet(event_stack[s])
  BY <1>1, <1>2, <1>4, <1>6, <1>7, LinkElements DEF SlotsAgree
<1>13. SlotsAgree'
  <2> SUFFICES ASSUME NEW s \in Slots
               PROVE  /\ NoDuplicates(event_stack'[s])
                      /\ ToSet(event_stack'[s]) =
                           {x \in Scheduled' : Slot(block'[x].tick) = s}
    BY DEF SlotsAgree, Slot
  <2>1. /\ NoDuplicates(event_stack[s])
        /\ ToSet(event_stack[s]) = {x \in Scheduled : Slot(block[x].tick) = s}
    BY <1>1 DEF SlotsAgree
  <2>2. Slot(block'[e].tick) = slot
    BY <1>fields DEF slot
  <2>3. CASE s = slot
    <3>1. ToSet(event_stack'[s]) = ToSet(event_stack[s]) \cup {e}
      BY <1>4, <1>12, <2>3, LinkSet
    <3>2. NoDuplicates(event_stack'[s])
      BY <1>4, <1>12, <2>1, <2>3, LinkDistinct
    <3> QED
      BY <1>9, <1>fields, <2>1, <2>2, <2>3, <3>1, <3>2
  <2>4. CASE s # slot
    <3>1. event_stack'[s] = event_stack[s]
      BY <1>12, <2>4
    <3> QED
      BY <1>9, <1>fields, <2>1, <2>2, <2>4, <3>1
  <2> QED
    BY <2>3, <2>4
<1>14. /\ last_event_type' \in -1..MaxType
       /\ last_event_type <= last_event_type'
       /\ type \in 0..last_event_type'
       /\ grown \in [0..last_event_type' -> Seq(Events)]
       /\ \A t \in 0..last_event_type' :
            grown[t] = IF t <= last_event_type THEN event_first_in_type[t]
                                              ELSE <<>>
  BY <1>3, <1>4 DEF grown, GrowTypes
<1>15. /\ event_first_in_type'[type] = Link(grown[type], e)
       /\ \A t \in 0..last_event_type' :
             t # type => event_first_in_type'[t] = grown[t]
       /\ event_first_in_type' \in [0..last_event_type' -> Seq(Events)]
  BY <1>2, <1>14, LinkElements
<1>16. \A t \in 0..last_event_type' :
         /\ NoDuplicates(grown[t])
         /\ ToSet(grown[t]) = {x \in Scheduled : block[x].type = t}
  <2> SUFFICES ASSUME NEW t \in 0..last_event_type'
               PROVE  /\ NoDuplicates(grown[t])
                      /\ ToSet(grown[t]) = {x \in Scheduled : block[x].type = t}
    OBVIOUS
  <2>1. CASE t <= last_event_type
    BY <1>1, <1>4, <1>14, <2>1 DEF TypesAgree
  <2>2. CASE ~(t <= last_event_type)
    <3>1. \A x \in Scheduled : block[x].type # t
      BY <1>1, <2>2 DEF TypesAgree
    <3>2. NoDuplicates(<<>>) /\ ToSet(<<>>) = {}
      BY DEF NoDuplicates, ToSet
    <3> QED
      BY <1>14, <2>2, <3>1, <3>2
  <2> QED
    BY <2>1, <2>2
<1>17. TypesAgree'
  <2>1. ASSUME NEW t \in 0..last_event_type'
        PROVE  /\ NoDuplicates(event_first_in_type'[t])
               /\ ToSet(event_first_in_type'[t]) =
                    {x \in Scheduled' : block'[x].type = t}
    <3>1. CASE t = type
      <4>1. e \notin ToSet(grown[t]) /\ grown[t] \in Seq(Events)
        BY <1>7, <1>14, <1>16
      <4>2. /\ ToSet(event_first_in_type'[t]) = ToSet(grown[t]) \cup {e}
            /\ NoDuplicates(event_first_in_type'[t])
        BY <1>15, <1>16, <3>1, <4>1, LinkSet, LinkDistinct
      <4> QED
        BY <1>9, <1>fields, <1>16, <3>1, <4>2
    <3>2. CASE t # type
      <4>1. event_first_in_type'[t] = grown[t]
        BY <1>15, <3>2
      <4>2. {x \in Scheduled' : block'[x].type = t} =
              {x \in Scheduled : block[x].type = t}
        BY <1>9, <1>fields, <3>2
      <4> QED
        BY <1>16, <4>1, <4>2
    <3> QED
      BY <3>1, <3>2
  <2>2. \A x \in Scheduled' : block'[x].type <= last_event_type'
    <3>1. \A x \in Scheduled : block[x].type \in Nat /\ block[x].type <= last_event_type
      BY <1>1, <1>10 DEF TypesAgree, TypeOK, Types
    <3>2. \A x \in Scheduled : block'[x].type <= last_event_type'
      <4>1. /\ last_event_type \in Int /\ last_event_type' \in Int
            /\ last_event_type <= last_event_type'
        BY <1>4, <1>14
      <4>2. \A n \in Nat : n <= last_event_type => n <= last_event_type'
        BY <4>1
      <4>3. \A x \in Scheduled : block'[x] = block[x]
        BY <1>fields
      <4> QED
        BY <3>1, <4>2, <4>3
    <3>3. block'[e].type <= last_event_type'
      BY <1>14, <1>fields
    <3> QED
      BY <1>9, <3>2, <3>3
  <2> QED
    BY <2>1, <2>2 DEF TypesAgree
<1>18. TypeOK'
  <2>1. [zombie |-> FALSE, type |-> type, data |-> d, data2 |-> d2,
         tick |-> tick] \in
           [zombie : BOOLEAN, type : Types, data : Data \cup {NULL},
            data2 : Data2 \cup {NULL}, tick : 0..MaxTick]
    BY <1>5
  <2>2. block' \in [Events -> [zombie : BOOLEAN, type : Types,
                              data : Data \cup {NULL},
                              data2 : Data2 \cup {NULL}, tick : 0..MaxTick]]
    BY <1>1, <1>2, <2>1 DEF TypeOK
  <2>3. /\ event_tick' \in 0..MaxTick
        /\ events_scheduled' \in 0..MaxScheduled
        /\ events_executed' \in Nat
        /\ events_zombies' \in Nat
    BY <1>1, <1>3, BoundsAssumption DEF TypeOK
  <2>4. run' \in [pc : {"idle", "scan", "call", "typescan", "typecall"},
                  e : Events \cup {NULL}, e2 : Events \cup {NULL}]
    BY <1>1, <1>3 DEF TypeOK
  <2> QED
    BY <1>7, <1>9, <1>12, <1>14, <1>15, <2>2, <2>3, <2>4 DEF TypeOK
<1>19. /\ run' = run /\ event_tick' = event_tick
       /\ Slot(event_tick) \in Slots
  BY <1>3, <1>4, SlotInWheel
<1> DEFINE here == Slot(event_tick)
<1>20. \A c \in ToSet(event_stack[here]) :
         /\ c \in ToSet(event_stack'[here])
         /\ NextIn(event_stack'[here], c) = NextIn(event_stack[here], c)
         /\ Ahead(event_stack'[here], c) = Ahead(event_stack[here], c)
  <2>1. CASE here = slot
    BY <1>1, <1>4, <1>12, <1>19, <2>1, LinkSet, LinkKeepsCursor
    DEF SlotsAgree
  <2>2. CASE here # slot
    BY <1>12, <1>19, <2>2
  <2> QED
    BY <2>1, <2>2
<1>21. CursorsLinked'
  BY <1>1, <1>9, <1>19, <1>20 DEF CursorsLinked, Slot
<1>22. NeverLate'
  <2> SUFFICES ASSUME NEW x \in Events, Live(x)'
               PROVE  \/ block'[x].tick > event_tick
                      \/ /\ block'[x].tick = event_tick
                         /\ run.pc \in {"scan", "call"}
                         /\ x \in Ahead(event_stack'[here], run.e)
    BY <1>19 DEF NeverLate, Slot
  <2>1. CASE x = e
    BY <1>5, <1>fields, <2>1
  <2>2. CASE x # e
    <3>1. Live(x) /\ block'[x] = block[x]
      BY <1>8, <1>9, <2>2 DEF Live, Zombie
    <3>2. run.pc \in {"scan", "call"} =>
            Ahead(event_stack'[here], run.e) = Ahead(event_stack[here], run.e)
      BY <1>1, <1>3, <1>20 DEF CursorsLinked, Idle, InCallback
    <3> QED
      BY <1>1, <3>1, <3>2 DEF NeverLate
  <2> QED
    BY <2>1, <2>2
<1>23. NoEventLost'
  BY <1>1, <1>3, <1>4, <1>9 DEF NoEventLost, TypeOK
<1> QED
  BY <1>11, <1>13, <1>17, <1>18, <1>21, <1>22, <1>23 DEF IInv, ListsAgree

(* Marking blocks as zombies turns no event live and moves none. *)
LEMMA MarkStep ==
    ASSUME IInv, NEW doomed,
           block' = [e \in Events |-> IF e \in doomed
                                       THEN [block[e] EXCEPT !.zombie = TRUE]
                                       ELSE block[e]],
           UNCHANGED <<event_tick, lists, events_scheduled, events_executed,
                       events_zombies>>,
           run' \in [pc : {"idle", "scan", "call", "typescan", "typecall"},
                     e : Events \cup {NULL}, e2 : Events \cup {NULL}],
           CursorsLinked',
           run' = run \/ run.pc \notin {"scan", "call"}
    PROVE  IInv'
<1>1. /\ TypeOK /\ MainAgrees /\ SlotsAgree /\ TypesAgree
      /\ CursorsLinked /\ NeverLate /\ NoEventLost
  BY DEF IInv, ListsAgree
<1>2. /\ UNCHANGED <<event_tick, event_stack, event_list,
                     event_first_in_type, last_event_type, event_free_list,
                     events_scheduled, events_executed, events_zombies>>
      /\ block' = [e \in Events |-> IF e \in doomed
                                     THEN [block[e] EXCEPT !.zombie = TRUE]
                                     ELSE block[e]]
  BY DEF lists
<1>3. \A e \in Events :
        /\ block'[e].tick = block[e].tick
        /\ block'[e].type = block[e].type
        /\ block'[e] \in [zombie : BOOLEAN, type : Types,
                          data : Data \cup {NULL},
                          data2 : Data2 \cup {NULL}, tick : 0..MaxTick]
  <2> SUFFICES ASSUME NEW e \in Events
               PROVE  /\ block'[e].tick = block[e].tick
                      /\ block'[e].type = block[e].type
                      /\ block'[e] \in [zombie : BOOLEAN, type : Types,
                                        data : Data \cup {NULL},
                                        data2 : Data2 \cup {NULL},
                                        tick : 0..MaxTick]
    OBVIOUS
  <2>1. block[e] \in [zombie : BOOLEAN, type : Types,
                      data : Data \cup {NULL},
                      data2 : Data2 \cup {NULL}, tick : 0..MaxTick]
    BY <1>1 DEF TypeOK
  <2>2. CASE e \in doomed
    <3>1. block'[e] = [block[e] EXCEPT !.zombie = TRUE]
      BY <1>2, <2>2
    <3> QED
      BY <2>1, <3>1
  <2>3. CASE e \notin doomed
    <3>1. block'[e] = block[e]
      BY <1>2, <2>3
    <3> QED
      BY <2>1, <3>1
  <2> QED
    BY <2>2, <2>3
<1>4. \A e \in Events : block[e].zombie => block'[e].zombie
  BY <1>1, <1>2 DEF TypeOK
<1>5. Scheduled' = Scheduled /\ Scheduled \subseteq Events
  BY <1>1, <1>2, SetOfEvents DEF Scheduled, TypeOK
<1>6. TypeOK'
  <2>1. block' \in [Events -> [zombie : BOOLEAN, type : Types,
                              data : Data \cup {NULL},
                              data2 : Data2 \cup {NULL}, tick : 0..MaxTick]]
    BY <1>2, <1>3
  <2> QED
    BY <1>1, <1>2, <2>1 DEF TypeOK
<1>7. MainAgrees' /\ NoEventLost'
  BY <1>1, <1>2, <1>5 DEF MainAgrees, NoEventLost
<1>8. SlotsAgree'
  <2>1. \A s \in Slots : {e \in Scheduled' : Slot(block'[e].tick) = s} =
                         {e \in Scheduled : Slot(block[e].tick) = s}
    BY <1>3, <1>5
  <2> QED
    BY <1>1, <1>2, <2>1 DEF SlotsAgree, Slot
<1>9. TypesAgree'
  <2>1. \A t \in 0..last_event_type : {e \in Scheduled' : block'[e].type = t} =
                                      {e \in Scheduled : block[e].type = t}
    BY <1>3, <1>5
  <2> QED
    BY <1>1, <1>2, <1>3, <1>5, <2>1 DEF TypesAgree
<1>10. NeverLate'
  <2>1. \A e \in Events : Live(e)' => Live(e)
    BY <1>4, <1>5 DEF Live, Zombie
  <2> QED
    BY <1>1, <1>2, <1>3, <2>1 DEF NeverLate, Slot
<1> QED
  BY <1>6, <1>7, <1>8, <1>9, <1>10 DEF IInv, ListsAgree

LEMMA MarkPreserves ==
    ASSUME IInv, NEW doomed, MarkZombies(doomed)
    PROVE  IInv'
<1>1. CursorsLinked'
  BY DEF IInv, CursorsLinked, MarkZombies, lists, Slot, Scheduled
<1>2. run' \in [pc : {"idle", "scan", "call", "typescan", "typecall"},
                e : Events \cup {NULL}, e2 : Events \cup {NULL}]
  BY DEF IInv, TypeOK, MarkZombies
<1> QED
  BY <1>1, <1>2, MarkStep DEF MarkZombies

(* Steps that leave the blocks and the lists alone keep what is said of     *)
(* them.                                                                    *)
LEMMA CursorStep ==
    ASSUME IInv, UNCHANGED <<block, lists, events_scheduled,
                             events_executed, events_zombies>>,
           event_tick' \in 0..MaxTick,
           run' \in [pc : {"idle", "scan", "call", "typescan", "typecall"},
                     e : Events \cup {NULL}, e2 : Events \cup {NULL}],
           CursorsLinked', NeverLate'
    PROVE  IInv'
<1>1. UNCHANGED <<block, event_stack, event_list, event_first_in_type,
                  last_event_type, event_free_list, events_scheduled,
                  events_executed, events_zombies>>
  BY DEF lists
<1>2. TypeOK'
  BY <1>1 DEF IInv, TypeOK
<1>3. Scheduled' = Scheduled
  BY <1>1 DEF Scheduled
<1>4. MainAgrees' /\ SlotsAgree' /\ TypesAgree' /\ NoEventLost'
  BY <1>1, <1>3 DEF IInv, ListsAgree, MainAgrees, SlotsAgree, TypesAgree,
                    NoEventLost, Slot
<1> QED
  BY <1>2, <1>4 DEF IInv, ListsAgree

LEMMA RunPreserves ==
    ASSUME IInv, event_run
    PROVE  IInv'
<1> DEFINE list == event_stack[Slot(event_tick + 1)]
<1>1. /\ TypeOK /\ SlotsAgree /\ NeverLate
  BY DEF IInv, ListsAgree
<1>2. /\ Idle
      /\ event_tick' = event_tick + 1
      /\ event_tick' \in 0..MaxTick
      /\ event_stack' = event_stack
      /\ event_list' = event_list
      /\ block' = block
      /\ run' = [run EXCEPT !.pc = "scan", !.e = FirstOf(list)]
      /\ UNCHANGED <<block, lists, events_scheduled, events_executed,
                     events_zombies>>
  BY <1>1, BoundsAssumption, SMTT(40), ZenonT(40) DEF event_run, lists, TypeOK
<1>3. Slot(event_tick + 1) \in Slots /\ event_tick \in Nat
  BY <1>1, SlotInWheel DEF TypeOK
<1>4. /\ list \in Seq(Events)
      /\ NoDuplicates(list)
      /\ ToSet(list) = {e \in Scheduled : Slot(block[e].tick) = Slot(event_tick + 1)}
  BY <1>1, <1>3 DEF TypeOK, SlotsAgree
<1>5. /\ FirstOf(list) \in ToSet(list) \cup {NULL}
      /\ Ahead(list, FirstOf(list)) = ToSet(list)
      /\ ToSet(list) \subseteq Events
  BY <1>4, AheadFirst, SetOfEvents
<1>6. /\ run'.pc = "scan" /\ run'.e = FirstOf(list)
      /\ run' \in [pc : {"idle", "scan", "call", "typescan", "typecall"},
                    e : Events \cup {NULL}, e2 : Events \cup {NULL}]
  BY <1>1, <1>2, <1>5 DEF TypeOK
<1>7. Slot(event_tick)' = Slot(event_tick + 1)
  BY <1>2 DEF Slot
<1>8. CursorsLinked'
  BY <1>2, <1>5, <1>6, <1>7 DEF CursorsLinked
<1>9. NeverLate'
  <2> SUFFICES ASSUME NEW e \in Events, Live(e)'
               PROVE  \/ block[e].tick > event_tick + 1
                      \/ /\ block[e].tick = event_tick + 1
                         /\ e \in Ahead(list, FirstOf(list))
    BY <1>2, <1>6, <1>7 DEF NeverLate
  <2>1. Live(e) /\ e \in Scheduled
    BY <1>2 DEF Live, Scheduled, Zombie
  <2>2. block[e].tick > event_tick /\ block[e].tick \in Nat
    BY <1>1, <1>2, <2>1 DEF NeverLate, Idle, TypeOK
  <2>3. CASE block[e].tick = event_tick + 1
    BY <1>4, <1>5, <2>1, <2>3
  <2>4. CASE block[e].tick # event_tick + 1
    BY <1>3, <2>2, <2>4
  <2> QED
    BY <2>3, <2>4
<1> QED
  BY <1>2, <1>6, <1>8, <1>9, CursorStep

(* Where a loop of event_run stands: facts every iteration uses. *)
LEMMA CursorFacts ==
    ASSUME IInv, run.pc \in {"scan", "call"}, run.e # NULL
    PROVE  /\ Slot(event_tick) \in Slots
           /\ event_stack[Slot(event_tick)] \in Seq(Events)
           /\ NoDuplicates(event_stack[Slot(event_tick)])
           /\ run.e \in ToSet(event_stack[Slot(event_tick)])
           /\ run.e \in Events
           /\ NextIn(event_stack[Slot(event_tick)], run.e)
                \in (ToSet(event_stack[Slot(event_tick)]) \ {run.e}) \cup {NULL}
           /\ NextIn(event_stack[Slot(event_tick)], run.e) \in Events \cup {NULL}
<1> DEFINE list == event_stack[Slot(event_tick)]
<1>1. Slot(event_tick) \in Slots
  BY SlotInWheel DEF IInv, TypeOK
<1>2. list \in Seq(Events) /\ NoDuplicates(list)
  BY <1>1 DEF IInv, TypeOK, ListsAgree, SlotsAgree
<1>3. run.e \in ToSet(list)
  BY DEF IInv, CursorsLinked
<1>4. ToSet(list) \subseteq Events
  BY <1>2, SetOfEvents
<1>5. NextIn(list, run.e) \in (ToSet(list) \ {run.e}) \cup {NULL}
  BY <1>2, <1>3, NextInList
<1> QED
  BY <1>1, <1>2, <1>3, <1>4, <1>5

(* Deleting the block the loop stands at and going on from the link read    *)
(* before.                                                                  *)
LEMMA DeleteAtCursor ==
    ASSUME IInv, run.pc \in {"scan", "call"}, run.e # NULL,
           event_delete(run.e, Slot(event_tick)),
           run' \in [pc : {"idle", "scan", "call", "typescan", "typecall"},
                     e : Events \cup {NULL}, e2 : Events \cup {NULL}],
           run'.pc = "scan",
           run'.e = NextIn(event_stack[Slot(event_tick)], run.e),
           UNCHANGED <<event_tick, events_scheduled>>,
           \/ /\ events_executed' = events_executed + 1
              /\ events_zombies' = events_zombies
           \/ /\ events_executed' = events_executed
              /\ events_zombies' = events_zombies + 1
    PROVE  IInv'
<1> DEFINE here == Slot(event_tick)
           list == event_stack[here]
           e == run.e
           e2 == NextIn(list, e)
<1>1. /\ here \in Slots
      /\ list \in Seq(Events)
      /\ NoDuplicates(list)
      /\ e \in ToSet(list)
      /\ e \in Events
      /\ e2 \in (ToSet(list) \ {e}) \cup {NULL}
      /\ e2 \in Events \cup {NULL}
  BY CursorFacts
<1>2. /\ ListsAgree'
      /\ event_list' \in Seq(Events)
      /\ Len(event_list') = Len(event_list) - 1
      /\ event_stack' \in [Slots -> Seq(Events)]
      /\ event_first_in_type' \in [0..last_event_type -> Seq(Events)]
      /\ event_free_list' \in Seq(Events)
      /\ Scheduled' = Scheduled \ {e}
      /\ event_stack'[here] = Unlink(list, e)
  BY <1>1, DeleteKeepsLists DEF IInv
<1>3. block' = block /\ last_event_type' = last_event_type
  BY DEF event_delete
<1>4. run'.pc = "scan" /\ run'.e = e2
  OBVIOUS
<1>5. Slot(event_tick)' = here
  BY DEF Slot
<1>6. TypeOK'
  <2>1. events_executed' \in Nat /\ events_zombies' \in Nat
    BY SMTT(40), ZenonT(40) DEF IInv, TypeOK
  <2> QED
    BY <1>1, <1>2, <1>3, <2>1 DEF IInv, TypeOK
<1>7. /\ ToSet(event_stack'[here]) = ToSet(list) \ {e}
      /\ Ahead(event_stack'[here], e2) = Ahead(list, e) \ {e}
  BY <1>1, <1>2, UnlinkSet, AheadUnlink
<1>8. CursorsLinked'
  BY <1>1, <1>4, <1>5, <1>7 DEF CursorsLinked
<1>9. NeverLate'
  <2> SUFFICES ASSUME NEW x \in Events, Live(x)'
               PROVE  \/ block[x].tick > event_tick
                      \/ /\ block[x].tick = event_tick
                         /\ x \in Ahead(event_stack'[here], e2)
    BY <1>3, <1>4, <1>5 DEF NeverLate
  <2>1. Live(x) /\ x # e
    BY <1>2, <1>3 DEF Live, Zombie
  <2> QED
    BY <1>7, <2>1 DEF IInv, NeverLate
<1>10. NoEventLost'
  <2>1. /\ Len(event_list) \in Nat
        /\ events_executed \in Nat /\ events_zombies \in Nat
        /\ events_scheduled = Len(event_list) + events_executed + events_zombies
    BY DEF IInv, NoEventLost, TypeOK
  <2>2. events_scheduled' = events_scheduled
    OBVIOUS
  <2>3. Len(event_list') = Len(event_list) - 1
    BY <1>2
  <2>4. events_scheduled' = Len(event_list') + events_executed' + events_zombies'
    <3>1. CASE /\ events_executed' = events_executed + 1
               /\ events_zombies' = events_zombies
      BY <2>1, <2>2, <2>3, <3>1
    <3>2. CASE /\ events_executed' = events_executed
               /\ events_zombies' = events_zombies + 1
      BY <2>1, <2>2, <2>3, <3>2
    <3> QED
      BY <3>1, <3>2
  <2> QED
    BY <2>4 DEF NoEventLost
<1> QED
  BY <1>2, <1>6, <1>8, <1>9, <1>10 DEF IInv

LEMMA RunVisitPreserves ==
    ASSUME IInv, RunVisit
    PROVE  IInv'
<1> DEFINE list == event_stack[Slot(event_tick)]
           e == run.e
           e2 == NextIn(list, e)
<1>1. run.pc = "scan" /\ run.e # NULL
  BY DEF RunVisit
<1>2. /\ list \in Seq(Events)
      /\ NoDuplicates(list)
      /\ e \in ToSet(list)
      /\ e \in Events
      /\ e2 \in (ToSet(list) \ {e}) \cup {NULL}
      /\ e2 \in Events \cup {NULL}
  BY <1>1, CursorFacts
<1>3. event_tick' = event_tick /\ event_tick \in 0..MaxTick
  BY DEF RunVisit, IInv, TypeOK
<1>4. CASE /\ block[e].tick > event_tick
           /\ run' = [run EXCEPT !.e = e2]
           /\ UNCHANGED <<block, lists, events_zombies, events_scheduled,
                          events_executed>>
  <2>1. /\ run'.pc = "scan" /\ run'.e = e2
        /\ run' \in [pc : {"idle", "scan", "call", "typescan", "typecall"},
                      e : Events \cup {NULL}, e2 : Events \cup {NULL}]
    BY <1>1, <1>2, <1>4 DEF IInv, TypeOK
  <2>2. UNCHANGED <<block, event_stack, event_list>>
    BY <1>4 DEF lists
  <2>3. Slot(event_tick)' = Slot(event_tick)
    BY <1>3 DEF Slot
  <2>4. CursorsLinked'
    BY <1>2, <2>1, <2>2, <2>3 DEF CursorsLinked
  <2>5. Ahead(list, e2) = Ahead(list, e) \ {e}
    BY <1>2, AheadNext
  <2>6. NeverLate'
    <3> SUFFICES ASSUME NEW x \in Events, Live(x)'
                 PROVE  \/ block[x].tick > event_tick
                        \/ /\ block[x].tick = event_tick
                           /\ x \in Ahead(list, e2)
      BY <1>3, <2>1, <2>2, <2>3 DEF NeverLate
    <3>1. Live(x)
      BY <2>2 DEF Live, Scheduled, Zombie
    <3> QED
      BY <1>4, <2>5, <3>1 DEF IInv, NeverLate
  <2> QED
    BY <1>3, <1>4, <2>1, <2>4, <2>6, CursorStep
<1>5. CASE /\ run' = [run EXCEPT !.pc = "call", !.e2 = e2]
           /\ UNCHANGED <<block, lists, events_zombies, events_scheduled,
                          events_executed>>
  <2>1. /\ run'.pc = "call" /\ run'.e = e /\ run'.e2 = e2
        /\ run' \in [pc : {"idle", "scan", "call", "typescan", "typecall"},
                      e : Events \cup {NULL}, e2 : Events \cup {NULL}]
    BY <1>1, <1>2, <1>5 DEF IInv, TypeOK
  <2>2. UNCHANGED <<block, event_stack, event_list>>
    BY <1>5 DEF lists
  <2>3. Slot(event_tick)' = Slot(event_tick)
    BY <1>3 DEF Slot
  <2>4. CursorsLinked'
    BY <1>1, <1>2, <2>1, <2>2, <2>3 DEF CursorsLinked
  <2>5. NeverLate'
    <3> SUFFICES ASSUME NEW x \in Events, Live(x)'
                 PROVE  \/ block[x].tick > event_tick
                        \/ /\ block[x].tick = event_tick
                           /\ x \in Ahead(list, e)
      BY <1>3, <2>1, <2>2, <2>3 DEF NeverLate
    <3>1. Live(x)
      BY <2>2 DEF Live, Scheduled, Zombie
    <3> QED
      BY <3>1 DEF IInv, NeverLate
  <2> QED
    BY <1>3, <1>5, <2>1, <2>4, <2>5, CursorStep
<1>6. CASE /\ events_zombies' = events_zombies + 1
           /\ event_delete(e, Slot(event_tick))
           /\ run' = [run EXCEPT !.e = e2]
           /\ UNCHANGED <<event_tick, events_scheduled, events_executed>>
  <2>2. /\ run'.pc = "scan" /\ run'.e = e2
        /\ run' \in [pc : {"idle", "scan", "call", "typescan", "typecall"},
                      e : Events \cup {NULL}, e2 : Events \cup {NULL}]
    BY <1>1, <1>2, <1>6 DEF IInv, TypeOK
  <2> QED
    BY <1>1, <1>6, <2>2, DeleteAtCursor
<1> QED
  BY <1>4, <1>5, <1>6 DEF RunVisit

LEMMA RunReturnPreserves ==
    ASSUME IInv, RunReturn
    PROVE  IInv'
<1>1. /\ run.pc = "call" /\ run.e # NULL
      /\ run.e2 = NextIn(event_stack[Slot(event_tick)], run.e)
  BY DEF RunReturn, IInv, CursorsLinked
<1>2. /\ run'.pc = "scan" /\ run'.e = run.e2
      /\ run' \in [pc : {"idle", "scan", "call", "typescan", "typecall"},
                    e : Events \cup {NULL}, e2 : Events \cup {NULL}]
  BY DEF RunReturn, IInv, TypeOK
<1> QED
  BY <1>1, <1>2, DeleteAtCursor DEF RunReturn

(* Leaving a loop: nothing is ahead of a cursor that is NULL. *)
LEMMA DonePreserves ==
    ASSUME IInv, RunDone \/ TypeDone
    PROVE  IInv'
<1>1. /\ run.e = NULL
      /\ run'.pc = "idle"
      /\ run' \in [pc : {"idle", "scan", "call", "typescan", "typecall"},
                    e : Events \cup {NULL}, e2 : Events \cup {NULL}]
      /\ UNCHANGED <<event_tick, block, event_list, event_stack>>
      /\ UNCHANGED <<block, lists, events_scheduled, events_executed,
                     events_zombies>>
      /\ event_tick' \in 0..MaxTick
  BY DEF IInv, TypeOK, RunDone, TypeDone, lists
<1>2. CursorsLinked'
  BY <1>1 DEF CursorsLinked
<1>3. NeverLate'
  <2> SUFFICES ASSUME NEW e \in Events, Live(e)'
               PROVE  block[e].tick > event_tick
    BY <1>1 DEF NeverLate
  <2>1. Live(e)
    BY <1>1 DEF Live, Scheduled, Zombie
  <2>2. Ahead(event_stack[Slot(event_tick)], run.e) = {}
    BY <1>1 DEF Ahead
  <2> QED
    BY <2>1, <2>2 DEF IInv, NeverLate
<1> QED
  BY <1>1, <1>2, <1>3, CursorStep

(* The links of a type list stay among the scheduled blocks. *)
LEMMA NextInTypeScheduled ==
    ASSUME IInv, NEW e \in Scheduled
    PROVE  /\ e \in Events
           /\ NextInType(e) \in Scheduled \cup {NULL}
           /\ Scheduled \subseteq Events
<1>1. Scheduled \subseteq Events
  BY SetOfEvents DEF IInv, TypeOK, Scheduled
<1> DEFINE t == block[e].type
           list == event_first_in_type[t]
<1>2. t \in 0..last_event_type
  BY <1>1, BoundsAssumption DEF IInv, TypeOK, Types, ListsAgree, TypesAgree
<1>3. /\ list \in Seq(Events)
      /\ NoDuplicates(list)
      /\ ToSet(list) = {x \in Scheduled : block[x].type = t}
  BY <1>2 DEF IInv, TypeOK, ListsAgree, TypesAgree
<1>4. NextIn(list, e) \in (ToSet(list) \ {e}) \cup {NULL}
  BY <1>3, NextInList
<1> QED
  BY <1>1, <1>3, <1>4 DEF NextInType

LEMMA RunByTypePreserves ==
    ASSUME IInv, NEW type \in Types, event_run_by_type(type)
    PROVE  IInv'
<1> DEFINE list == event_first_in_type[type]
<1>1. type \in 0..last_event_type
  BY BoundsAssumption DEF IInv, TypeOK, Types, event_run_by_type
<1>2. /\ list \in Seq(Events)
      /\ NoDuplicates(list)
      /\ ToSet(list) \subseteq Scheduled
  BY <1>1 DEF IInv, TypeOK, ListsAgree, TypesAgree
<1>3. Scheduled \subseteq Events
  BY SetOfEvents DEF IInv, TypeOK, Scheduled
<1>4. FirstOf(list) \in Scheduled \cup {NULL}
  BY <1>2, AheadFirst
<1>5. /\ run.pc = "idle"
      /\ run'.pc = "typescan" /\ run'.e = FirstOf(list)
      /\ run' \in [pc : {"idle", "scan", "call", "typescan", "typecall"},
                    e : Events \cup {NULL}, e2 : Events \cup {NULL}]
      /\ UNCHANGED <<event_tick, block, event_list, event_stack>>
      /\ UNCHANGED <<block, lists, events_scheduled, events_executed,
                     events_zombies>>
      /\ event_tick' \in 0..MaxTick
  BY <1>3, <1>4 DEF event_run_by_type, IInv, TypeOK, lists, Idle
<1>6. CursorsLinked' /\ NeverLate'
  BY <1>4, <1>5 DEF IInv, CursorsLinked, NeverLate, Live, Scheduled, Zombie
<1> QED
  BY <1>5, <1>6, CursorStep

LEMMA TypeVisitPreserves ==
    ASSUME IInv, TypeVisit
    PROVE  IInv'
<1>1. run.pc = "typescan" /\ run.e \in Scheduled
  BY DEF TypeVisit, IInv, CursorsLinked
<1>2. /\ run.e \in Events
      /\ NextInType(run.e) \in Scheduled \cup {NULL}
      /\ Scheduled \subseteq Events
  BY <1>1, NextInTypeScheduled
<1>3. /\ run'.pc \in {"typescan", "typecall"}
      /\ run'.e \in Scheduled \cup {NULL}
      /\ run' \in [pc : {"idle", "scan", "call", "typescan", "typecall"},
                    e : Events \cup {NULL}, e2 : Events \cup {NULL}]
  BY <1>1, <1>2 DEF TypeVisit, IInv, TypeOK
<1>4. /\ UNCHANGED <<event_tick, block, event_list, event_stack>>
      /\ UNCHANGED <<block, lists, events_scheduled, events_executed,
                     events_zombies>>
      /\ event_tick' \in 0..MaxTick
  BY DEF TypeVisit, IInv, TypeOK, lists
<1>5. run'.pc = "typecall" => run'.e = run.e
  BY DEF TypeVisit, IInv, TypeOK
<1>6. CursorsLinked'
  BY <1>1, <1>3, <1>4, <1>5 DEF CursorsLinked, Scheduled
<1>7. NeverLate'
  BY <1>1, <1>4 DEF IInv, NeverLate, Live, Scheduled, Zombie
<1> QED
  BY <1>3, <1>4, <1>6, <1>7, CursorStep

LEMMA TypeReturnPreserves ==
    ASSUME IInv, TypeReturn
    PROVE  IInv'
<1>1. run.pc = "typecall" /\ run.e \in Scheduled
  BY DEF TypeReturn, IInv, CursorsLinked
<1>2. /\ run.e \in Events
      /\ NextInType(run.e) \in Scheduled \cup {NULL}
      /\ Scheduled \subseteq Events
  BY <1>1, NextInTypeScheduled
<1>3. /\ run'.pc = "typescan"
      /\ run'.e \in Scheduled \cup {NULL}
      /\ run' \in [pc : {"idle", "scan", "call", "typescan", "typecall"},
                    e : Events \cup {NULL}, e2 : Events \cup {NULL}]
  BY <1>1, <1>2 DEF TypeReturn, IInv, TypeOK
<1>4. Scheduled' = Scheduled
  BY DEF TypeReturn, lists, Scheduled
<1>5. CursorsLinked'
  BY <1>3, <1>4 DEF CursorsLinked
<1>6. block' = [e \in Events |-> IF e \in {run.e}
                                 THEN [block[e] EXCEPT !.zombie = TRUE]
                                 ELSE block[e]]
  BY <1>2 DEF TypeReturn, IInv, TypeOK
<1> QED
  BY <1>1, <1>3, <1>5, <1>6, MarkStep DEF TypeReturn

LEMMA NextPreserves == IInv /\ [Next]_vars => IInv'
<1> SUFFICES ASSUME IInv, [Next]_vars PROVE IInv'
  OBVIOUS
<1>1. CASE Add
  BY <1>1, AddPreserves, BoundsAssumption DEF Add
<1>2. CASE Cancel
  BY <1>2, MarkPreserves
  DEF Cancel, event_remove_data, event_remove_type_data,
      event_remove_type_data2, event_remove_type_data_data
<1>3. CASE event_run
  BY <1>3, RunPreserves
<1>4. CASE Loop
  BY <1>4, RunVisitPreserves, RunReturnPreserves, DonePreserves DEF Loop
<1>5. CASE \E t \in Types : event_run_by_type(t)
  BY <1>5, RunByTypePreserves
<1>6. CASE TypeLoop
  BY <1>6, TypeVisitPreserves, TypeReturnPreserves, DonePreserves DEF TypeLoop
<1>7. CASE UNCHANGED vars
  <2>1. UNCHANGED <<event_tick, block, event_stack, event_list,
                    event_first_in_type, last_event_type, event_free_list,
                    events_scheduled, events_executed, events_zombies, run>>
    BY <1>7 DEF vars, lists
  <2> QED
    BY <2>1 DEF IInv, TypeOK, ListsAgree, MainAgrees, SlotsAgree, TypesAgree,
                CursorsLinked, NeverLate, NoEventLost, Live, Zombie,
                Scheduled, Slot
<1> QED
  BY <1>1, <1>2, <1>3, <1>4, <1>5, <1>6, <1>7 DEF Next

LEMMA Inductive == Spec => []IInv
<1> QED
  BY InitEstablishes, NextPreserves, PTL DEF Spec

(* The fields and lists of event.c always have their types: no link is ever *)
(* read from outside a list, whatever callbacks schedule and cancel.        *)
THEOREM TypeCorrect == Spec => []TypeOK
<1>1. IInv => TypeOK
  BY DEF IInv
<1> QED
  BY <1>1, Inductive, PTL

(* The main list, the type lists and the wheel of event.c agree at every    *)
(* step, for any number of blocks, types and slots.                         *)
THEOREM ListsAlwaysAgree == Spec => []ListsAgree
<1>1. IInv => ListsAgree
  BY DEF IInv
<1> QED
  BY <1>1, Inductive, PTL

(* The two pointers event_run keeps across a callback never dangle.         *)
THEOREM CursorsNeverDangle == Spec => []CursorsLinked
<1>1. IInv => CursorsLinked
  BY DEF IInv
<1> QED
  BY <1>1, Inductive, PTL

(* event_run never overlooks an event that is due and not cancelled.        *)
THEOREM NothingOverlooked == Spec => []NeverLate
<1>1. IInv => NeverLate
  BY DEF IInv
<1> QED
  BY <1>1, Inductive, PTL

(* Every event_add is linked, executed or reaped.                           *)
THEOREM NothingLost == Spec => []NoEventLost
<1>1. IInv => NoEventLost
  BY DEF IInv
<1> QED
  BY <1>1, Inductive, PTL
-----------------------------------------------------------------------------
(* The queries.  Places are where the loop over a type's list finds what it *)
(* is asked about, Left(type, i) is how far ahead the i-th block of it is.  *)
Places(type, data) ==
    {i \in DOMAIN TypeList(type) : Asked(TypeList(type), i, data)}
Left(type, i) == block[TypeList(type)[i]].tick - event_tick
Wanted(type, data) ==
    {e \in Events : Live(e) /\ block[e].type = type /\ block[e].data = data}

LEMMA ListOfType ==
    ASSUME IInv, NEW type \in Types
    PROVE  /\ TypeList(type) \in Seq(Events)
           /\ NoDuplicates(TypeList(type))
           /\ ToSet(TypeList(type)) = {e \in Scheduled : block[e].type = type}
           /\ \A i \in DOMAIN TypeList(type) : Left(type, i) \in Int
PROOF
  <1>0. /\ last_event_type \in -1..MaxType /\ MaxType \in Nat /\ type \in Nat
        /\ event_first_in_type \in [0..last_event_type -> Seq(Events)]
        /\ \A e \in Events : block[e].tick \in Int
        /\ event_tick \in Int
    BY BoundsAssumption DEF IInv, TypeOK, Types
  <1>1. CASE type > last_event_type
    <2>1. TypeList(type) = <<>>
      BY <1>1 DEF TypeList
    <2>2. \A e \in Scheduled : block[e].type <= last_event_type
      BY DEF IInv, ListsAgree, TypesAgree
    <2>3. {e \in Scheduled : block[e].type = type} = {}
      BY <1>0, <1>1, <2>2
    <2> QED BY <2>1, <2>3 DEF NoDuplicates, ToSet
  <1>2. CASE ~(type > last_event_type)
    <2>1. type \in 0..last_event_type /\ TypeList(type) = event_first_in_type[type]
      BY <1>0, <1>2 DEF TypeList
    <2>2. TypeList(type) \in Seq(Events)
      BY <1>0, <2>1
    <2>3. /\ NoDuplicates(TypeList(type))
          /\ ToSet(TypeList(type)) = {e \in Scheduled : block[e].type = type}
      BY <2>1 DEF IInv, ListsAgree, TypesAgree
    <2>4. \A i \in DOMAIN TypeList(type) : TypeList(type)[i] \in Events
      BY <2>2
    <2> QED BY <1>0, <2>2, <2>3, <2>4 DEF Left
  <1> QED BY <1>1, <1>2

(* The loop meets each block asked about in one place.                      *)
LEMMA PlacesFacts ==
    ASSUME IInv, NEW type \in Types, NEW data \in Data
    PROVE  /\ Cardinality(Places(type, data)) = Cardinality(Wanted(type, data))
           /\ {block[e].tick - event_tick : e \in Wanted(type, data)} =
                {Left(type, i) : i \in Places(type, data)}
PROOF
  <1> DEFINE L == TypeList(type)
             P == Places(type, data)
             W == Wanted(type, data)
             f == [i \in P |-> L[i]]
  <1>1. /\ L \in Seq(Events) /\ NoDuplicates(L)
        /\ ToSet(L) = {e \in Scheduled : block[e].type = type}
    BY ListOfType
  <1>2. Len(L) \in Nat /\ DOMAIN L = 1..Len(L) /\ P \in SUBSET (1..Len(L))
    <2>1. Len(L) \in Nat /\ DOMAIN L = 1..Len(L)
      BY <1>1
    <2> QED BY <2>1 DEF Places
  <1>3. IsFiniteSet(P)
    BY <1>2, FinitePositions
  <1>4. \A i \in P : L[i] \in W
    <2> TAKE i \in P
    <2>1. i \in DOMAIN L /\ ~Zombie(L[i]) /\ block[L[i]].data = data
      BY DEF Places, Asked
    <2>2. L[i] \in ToSet(L) /\ L[i] \in Events
      BY <1>1, <2>1 DEF ToSet
    <2> QED BY <1>1, <2>1, <2>2 DEF Wanted, Live
  <1>5. \A e \in W : \E i \in P : L[i] = e
    <2> TAKE e \in W
    <2>1. e \in Scheduled /\ ~Zombie(e) /\ block[e].type = type /\ block[e].data = data
      BY DEF Wanted, Live
    <2>2. PICK i \in DOMAIN L : L[i] = e
      BY <1>1, <2>1 DEF ToSet
    <2> QED BY <2>1, <2>2 DEF Places, Asked
  <1>6. \A i, j \in P : L[i] = L[j] => i = j
    BY <1>1, <1>2 DEF NoDuplicates
  <1>7. Cardinality(W) = Cardinality(P)
    <2>1. f \in [P -> W] /\ \A i \in P : f[i] = L[i]
      BY <1>4
    <2> HIDE DEF f, P, W
    <2>2. /\ \A a, b \in P : f[a] = f[b] => a = b
          /\ \A t \in W : \E a \in P : f[a] = t
      BY <1>5, <1>6, <2>1
    <2> QED BY <1>3, <2>1, <2>2, Matched
  <1>8. \A i \in P : Left(type, i) = block[L[i]].tick - event_tick
    BY DEF Left
  <1> HIDE DEF P, W, L
  <1>9. {block[e].tick - event_tick : e \in W} = {Left(type, i) : i \in P}
    BY <1>4, <1>5, <1>8
  <1> QED BY <1>7, <1>9 DEF P, W

(* A loop over N places that keeps the furthest of the t[i] it is asked     *)
(* about, A, from 0 up.                                                     *)
LEMMA FurthestFound ==
    ASSUME NEW N \in Nat, NEW A \in SUBSET (1..N), NEW t \in [1..N -> Int],
           NEW f, f[0] = 0,
           \A i \in 1..N : f[i] = IF i \in A /\ t[i] > f[i - 1] THEN t[i] ELSE f[i - 1]
    PROVE  f[N] = Max({t[i] : i \in A} \cup {0})
PROOF
  <1> DEFINE M(i) == {t[j] : j \in A \cap (1..i)} \cup {0}
             D == [i \in 0..N |-> {y \in M(i) : \A z \in M(i) : y >= z}]
  <1>1. \A i \in 0..N : M(i) \subseteq Int
    OBVIOUS
  <1>2. f[0] \in D[0]
    <2>1. M(0) = {0}
      OBVIOUS
    <2> QED BY <2>1
  <1>3. ASSUME NEW i \in 1..N, f[i - 1] \in D[i - 1] PROVE f[i] \in D[i]
    <2>1. /\ i \in 0..N /\ i - 1 \in 0..N
          /\ \A j \in 1..i : j = i \/ j \in 1..(i - 1)
          /\ \A j \in 1..(i - 1) : j \in 1..i
      OBVIOUS
    <2>2. f[i - 1] \in M(i - 1) /\ \A z \in M(i - 1) : f[i - 1] >= z
      BY <1>3, <2>1
    <2>3. t[i] \in Int /\ f[i - 1] \in Int
      BY <1>1, <2>1, <2>2
    <2>4. f[i] = IF i \in A /\ t[i] > f[i - 1] THEN t[i] ELSE f[i - 1]
      OBVIOUS
    <2>5. M(i) = IF i \in A THEN M(i - 1) \cup {t[i]} ELSE M(i - 1)
      BY <2>1
    <2> HIDE DEF M
    <2>6. f[i] \in M(i) /\ \A z \in M(i) : f[i] >= z
      <3>1. M(i - 1) \subseteq Int
        BY <1>1, <2>1
      <3> QED BY <2>2, <2>3, <2>4, <2>5, <3>1
    <2> QED BY <2>1, <2>6
  <1>4. f[N] \in D[N]
    <2> HIDE DEF D
    <2> QED BY ONLY <1>2, <1>3, LoopKeeps, N \in Nat
  <1>5. f[N] \in M(N) /\ \A z \in M(N) : f[N] >= z
    BY <1>4
  <1>6. M(N) = {t[i] : i \in A} \cup {0} /\ M(N) \subseteq Int
    BY <1>1
  <1> HIDE DEF M
  <1>7. \A y \in M(N) : (\A z \in M(N) : y >= z) => y = f[N]
    <2>1. \A y \in M(N) : y \in Int
      BY <1>6
    <2> TAKE y \in M(N)
    <2> HAVE \A z \in M(N) : y >= z
    <2>2. y >= f[N] /\ f[N] >= y /\ y \in Int /\ f[N] \in Int
      BY <1>5, <2>1
    <2> QED BY ONLY <2>2
  <1>8. Max(M(N)) = f[N]
    BY <1>5, <1>7 DEF Max
  <1> QED BY <1>6, <1>8

(* One that keeps the nearest of those greater than zero, or -1.            *)
LEMMA NearestFound ==
    ASSUME NEW N \in Nat, NEW A \in SUBSET (1..N), NEW t \in [1..N -> Int],
           NEW f, f[0] = -1,
           \A i \in 1..N :
              f[i] = IF i \in A /\ (t[i] < f[i - 1] \/ f[i - 1] < 0) /\ t[i] > 0
                     THEN t[i] ELSE f[i - 1]
    PROVE  f[N] = IF {t[i] : i \in {j \in A : t[j] > 0}} = {} THEN -1
                  ELSE Min({t[i] : i \in {j \in A : t[j] > 0}})
PROOF
  <1> DEFINE M(i) == {t[j] : j \in {k \in A \cap (1..i) : t[k] > 0}}
             R(i, y) == \/ M(i) = {} /\ y = -1
                        \/ y \in M(i) /\ \A z \in M(i) : y <= z
             D == [i \in 0..N |-> {y \in Int : R(i, y)}]
  <1>1. \A i \in 0..N : M(i) \subseteq Nat \ {0}
    OBVIOUS
  <1>2. f[0] \in D[0]
    <2>1. M(0) = {}
      OBVIOUS
    <2> QED BY <2>1
  <1>3. ASSUME NEW i \in 1..N, f[i - 1] \in D[i - 1] PROVE f[i] \in D[i]
    <2>1. /\ i \in 0..N /\ i - 1 \in 0..N
          /\ \A j \in 1..i : j = i \/ j \in 1..(i - 1)
          /\ \A j \in 1..(i - 1) : j \in 1..i
      OBVIOUS
    <2>2. R(i - 1, f[i - 1]) /\ f[i - 1] \in Int /\ t[i] \in Int
      <3>1. f[i - 1] \in D[i - 1]
        BY <1>3
      <3>2. D[i - 1] = {y \in Int : R(i - 1, y)}
        BY <2>1
      <3> QED BY <3>1, <3>2
    <2>3. f[i] = IF i \in A /\ (t[i] < f[i - 1] \/ f[i - 1] < 0) /\ t[i] > 0
                 THEN t[i] ELSE f[i - 1]
      OBVIOUS
    <2>4. M(i) = IF i \in A /\ t[i] > 0 THEN M(i - 1) \cup {t[i]} ELSE M(i - 1)
      BY <2>1
    <2>5. M(i - 1) \subseteq Nat \ {0}
      BY <1>1, <2>1
    <2>6. \/ M(i - 1) = {} /\ f[i - 1] = -1
          \/ f[i - 1] \in M(i - 1) /\ \A z \in M(i - 1) : f[i - 1] <= z
      BY <2>2
    <2> HIDE DEF M
    <2>7. f[i] \in Int /\ R(i, f[i])
      <3>1. CASE i \in A /\ t[i] > 0
        BY <2>2, <2>3, <2>4, <2>5, <2>6, <3>1
      <3>2. CASE ~(i \in A /\ t[i] > 0)
        BY <2>2, <2>3, <2>4, <2>5, <2>6, <3>2
      <3> QED BY <3>1, <3>2
    <2> HIDE DEF R
    <2> QED BY <2>1, <2>7
  <1>4. f[N] \in D[N]
    <2> HIDE DEF D
    <2> QED BY ONLY <1>2, <1>3, LoopKeeps, N \in Nat
  <1>5. \/ M(N) = {} /\ f[N] = -1
        \/ f[N] \in M(N) /\ \A z \in M(N) : f[N] <= z
    <2>1. N \in 0..N
      OBVIOUS
    <2> HIDE DEF M
    <2>2. D[N] = {y \in Int : R(N, y)}
      BY <2>1
    <2> QED BY <1>4, <2>2
  <1>6. M(N) = {t[i] : i \in {j \in A : t[j] > 0}} /\ M(N) \subseteq Nat
    <2>1. {k \in A \cap (1..N) : t[k] > 0} = {j \in A : t[j] > 0}
      OBVIOUS
    <2> QED BY <1>1, <2>1
  <1> HIDE DEF M
  <1>7. CASE M(N) # {}
    <2>1. f[N] \in M(N) /\ \A z \in M(N) : f[N] <= z
      BY <1>5, <1>7
    <2>2. \A y \in M(N) : (\A z \in M(N) : y <= z) => y = f[N]
      <3>1. \A y \in M(N) : y \in Int
        BY <1>6
      <3> TAKE y \in M(N)
      <3> HAVE \A z \in M(N) : y <= z
      <3>2. y <= f[N] /\ f[N] <= y /\ y \in Int /\ f[N] \in Int
        BY <2>1, <3>1
      <3> QED BY ONLY <3>2
    <2>3. Min(M(N)) = f[N]
      BY <2>1, <2>2 DEF Min
    <2> QED BY <1>6, <1>7, <2>3
  <1>8. CASE M(N) = {}
    BY <1>5, <1>6, <1>8
  <1> QED BY <1>7, <1>8

LEMMA LastExact ==
    ASSUME IInv, NEW type \in Types, NEW data \in Data
    PROVE  event_last_type_data(type, data) =
             Max({block[e].tick - event_tick : e \in Wanted(type, data)} \cup {0})
PROOF
  <1> DEFINE L == TypeList(type)
             N == Len(L)
             A == Places(type, data)
             t == [i \in 1..N |-> Left(type, i)]
             S(i, y) == LET u == block[L[i]].tick - event_tick
                        IN  IF Asked(L, i, data) /\ u > y THEN u ELSE y
             P(f) == f = [i \in 0..N |-> IF i = 0 THEN 0 ELSE S(i, f[i - 1])]
             h == CHOOSE f : P(f)
             D == [i \in 0..N |-> Int]
             g == [p \in (1..N) \X Int |-> S(p[1], p[2])]
  <1>1. /\ N \in Nat /\ DOMAIN L = 1..N
        /\ t \in [1..N -> Int] /\ \A i \in 1..N : t[i] = Left(type, i)
        /\ A \in SUBSET (1..N)
    BY ListOfType DEF Places
  <1>2. \A i \in 1..N : \A y \in Int : S(i, y) = IF i \in A /\ t[i] > y THEN t[i] ELSE y
    BY <1>1 DEF Places, Left
  <1>3. event_last_type_data(type, data) = h[N]
    BY DEF event_last_type_data
  <1> HIDE DEF S, t
  <1>4. \A i \in 1..N : \A y \in Int : S(i, y) \in Int
    BY <1>1, <1>2
  <1>5. \E f : P(f)
    <2>1. 0 \in D[0] /\ \A i \in 0..N : D[i] = Int
      BY <1>1
    <2>2. \A i \in 1..N : i - 1 \in 0..N /\ i \in 0..N
      BY <1>1
    <2>3. \A i \in 1..N : \A y \in D[i - 1] : g[<<i, y>>] = S(i, y) /\ g[<<i, y>>] \in D[i]
      BY <1>4, <2>1, <2>2
    <2> HIDE DEF D, g
    <2>4. \E f : Turns(f, N, 0, D, g)
      BY ONLY <1>1, <2>1, <2>3, LoopExists
    <2>5. PICK f : /\ f = [i \in 0..N |-> f[i]] /\ f[0] = 0
                   /\ \A i \in 1..N : f[i - 1] \in D[i - 1] /\ f[i] = g[<<i, f[i - 1]>>]
      BY <2>4 DEF Turns
    <2>6. \A i \in 0..N : f[i] = IF i = 0 THEN 0 ELSE S(i, f[i - 1])
      <3>1. \A i \in 0..N : i # 0 => i \in 1..N
        BY <1>1
      <3> QED BY <2>3, <2>5, <3>1
    <2>7. P(f)
      BY <2>5, <2>6
    <2> QED BY <2>7
  <1>6. P(h)
    <2> HIDE DEF P
    <2> QED BY <1>5
  <1> HIDE DEF h
  <1>7. h[0] = 0 /\ \A i \in 1..N : h[i] = S(i, h[i - 1])
    <2>1. \A i \in 0..N : h[i] = IF i = 0 THEN 0 ELSE S(i, h[i - 1])
      BY <1>6
    <2>2. 0 \in 0..N /\ \A i \in 1..N : i \in 0..N /\ i # 0
      BY <1>1
    <2> QED BY <2>1, <2>2
  <1>8. \A i \in 0..N : h[i] \in Int
    <2> DEFINE T == {i \in 0..N : h[i] \in Int}
    <2>1. 0 \in T
      BY <1>1, <1>7
    <2>2. ASSUME NEW i \in 1..N, i - 1 \in T PROVE i \in T
      <3>1. h[i - 1] \in Int
        BY <2>2
      <3>2. h[i] = S(i, h[i - 1])
        BY <1>7
      <3>3. S(i, h[i - 1]) \in Int
        BY <1>4, <3>1
      <3>4. i \in 0..N
        BY <1>1
      <3> QED BY <3>2, <3>3, <3>4
    <2>3. 0..N \subseteq T
      <3> HIDE DEF T
      <3> QED BY ONLY <1>1, <2>1, <2>2, Induct
    <2> QED BY <2>3
  <1>9. \A i \in 1..N : h[i] = IF i \in A /\ t[i] > h[i - 1] THEN t[i] ELSE h[i - 1]
    <2> TAKE i \in 1..N
    <2>1. h[i - 1] \in Int
      BY <1>1, <1>8
    <2> QED BY <1>2, <1>7, <2>1
  <1>10. h[N] = Max({t[i] : i \in A} \cup {0})
    <2> HIDE DEF L, N, A
    <2> QED BY ONLY <1>1, <1>7, <1>9, FurthestFound
  <1>11. {t[i] : i \in A} = {Left(type, i) : i \in A}
    BY <1>1
  <1> QED BY <1>3, <1>10, <1>11, PlacesFacts

LEMMA FirstExact ==
    ASSUME IInv, NEW type \in Types, NEW data \in Data,
           NEW ahead, ahead = {u \in {block[e].tick - event_tick : e \in Wanted(type, data)} :
                                 u > 0}
    PROVE  event_first_type_data(type, data) = IF ahead = {} THEN -1 ELSE Min(ahead)
PROOF
  <1> DEFINE L == TypeList(type)
             N == Len(L)
             A == Places(type, data)
             t == [i \in 1..N |-> Left(type, i)]
             S(i, y) == LET u == block[L[i]].tick - event_tick
                        IN  IF Asked(L, i, data) /\ (u < y \/ y < 0) /\ u > 0 THEN u ELSE y
             P(f) == f = [i \in 0..N |-> IF i = 0 THEN -1 ELSE S(i, f[i - 1])]
             h == CHOOSE f : P(f)
             D == [i \in 0..N |-> Int]
             g == [p \in (1..N) \X Int |-> S(p[1], p[2])]
  <1>1. /\ N \in Nat /\ DOMAIN L = 1..N
        /\ t \in [1..N -> Int] /\ \A i \in 1..N : t[i] = Left(type, i)
        /\ A \in SUBSET (1..N)
    BY ListOfType DEF Places
  <1>2. \A i \in 1..N : \A y \in Int :
           S(i, y) = IF i \in A /\ (t[i] < y \/ y < 0) /\ t[i] > 0 THEN t[i] ELSE y
    BY <1>1 DEF Places, Left
  <1>3. event_first_type_data(type, data) = h[N]
    BY DEF event_first_type_data
  <1> HIDE DEF S, t
  <1>4. \A i \in 1..N : \A y \in Int : S(i, y) \in Int
    BY <1>1, <1>2
  <1>5. \E f : P(f)
    <2>1. -1 \in D[0] /\ \A i \in 0..N : D[i] = Int
      BY <1>1
    <2>2. \A i \in 1..N : i - 1 \in 0..N /\ i \in 0..N
      BY <1>1
    <2>3. \A i \in 1..N : \A y \in D[i - 1] : g[<<i, y>>] = S(i, y) /\ g[<<i, y>>] \in D[i]
      BY <1>4, <2>1, <2>2
    <2> HIDE DEF D, g
    <2>4. \E f : Turns(f, N, -1, D, g)
      BY ONLY <1>1, <2>1, <2>3, LoopExists
    <2>5. PICK f : /\ f = [i \in 0..N |-> f[i]] /\ f[0] = -1
                   /\ \A i \in 1..N : f[i - 1] \in D[i - 1] /\ f[i] = g[<<i, f[i - 1]>>]
      BY <2>4 DEF Turns
    <2>6. \A i \in 0..N : f[i] = IF i = 0 THEN -1 ELSE S(i, f[i - 1])
      <3>1. \A i \in 0..N : i # 0 => i \in 1..N
        BY <1>1
      <3> QED BY <2>3, <2>5, <3>1
    <2>7. P(f)
      BY <2>5, <2>6
    <2> QED BY <2>7
  <1>6. P(h)
    <2> HIDE DEF P
    <2> QED BY <1>5
  <1> HIDE DEF h
  <1>7. h[0] = -1 /\ \A i \in 1..N : h[i] = S(i, h[i - 1])
    <2>1. \A i \in 0..N : h[i] = IF i = 0 THEN -1 ELSE S(i, h[i - 1])
      BY <1>6
    <2>2. 0 \in 0..N /\ \A i \in 1..N : i \in 0..N /\ i # 0
      BY <1>1
    <2> QED BY <2>1, <2>2
  <1>8. \A i \in 0..N : h[i] \in Int
    <2> DEFINE T == {i \in 0..N : h[i] \in Int}
    <2>1. 0 \in T
      BY <1>1, <1>7
    <2>2. ASSUME NEW i \in 1..N, i - 1 \in T PROVE i \in T
      <3>1. h[i - 1] \in Int
        BY <2>2
      <3>2. h[i] = S(i, h[i - 1])
        BY <1>7
      <3>3. S(i, h[i - 1]) \in Int
        BY <1>4, <3>1
      <3>4. i \in 0..N
        BY <1>1
      <3> QED BY <3>2, <3>3, <3>4
    <2>3. 0..N \subseteq T
      <3> HIDE DEF T
      <3> QED BY ONLY <1>1, <2>1, <2>2, Induct
    <2> QED BY <2>3
  <1>9. \A i \in 1..N :
           h[i] = IF i \in A /\ (t[i] < h[i - 1] \/ h[i - 1] < 0) /\ t[i] > 0
                  THEN t[i] ELSE h[i - 1]
    <2> TAKE i \in 1..N
    <2>1. h[i - 1] \in Int
      BY <1>1, <1>8
    <2> QED BY <1>2, <1>7, <2>1
  <1> DEFINE near == {t[i] : i \in {j \in A : t[j] > 0}}
  <1>10. h[N] = IF near = {} THEN -1 ELSE Min(near)
    <2> HIDE DEF L, N, A
    <2> QED BY ONLY <1>1, <1>7, <1>9, NearestFound, SMTT(40), ZenonT(40)
  <1>11. near = {u \in {Left(type, i) : i \in A} : u > 0}
    BY <1>1
  <1>12. near = ahead
    BY <1>11, PlacesFacts
  <1> HIDE DEF near
  <1> QED BY <1>3, <1>10, <1>12

LEMMA QueriesFollow == IInv => QueriesExact
PROOF
  <1> SUFFICES ASSUME IInv, NEW type \in Types, NEW data \in Data
               PROVE  LET asked == Wanted(type, data)
                          left  == {block[e].tick - event_tick : e \in asked}
                          ahead == {t \in left : t > 0}
                      IN  /\ event_count_type_data(type, data) = Cardinality(asked)
                          /\ event_first_type_data(type, data) =
                                IF ahead = {} THEN -1 ELSE Min(ahead)
                          /\ event_last_type_data(type, data) = Max(left \cup {0})
    BY DEF QueriesExact, Wanted
  <1> DEFINE left == {block[e].tick - event_tick : e \in Wanted(type, data)}
             ahead == {t \in left : t > 0}
  <1>1. event_count_type_data(type, data) = Cardinality(Wanted(type, data))
    BY PlacesFacts DEF event_count_type_data, Places
  <1>2. event_last_type_data(type, data) = Max(left \cup {0})
    BY LastExact
  <1>3. event_first_type_data(type, data) = IF ahead = {} THEN -1 ELSE Min(ahead)
    BY FirstExact
  <1> QED BY <1>1, <1>2, <1>3

(* What the guards and recycle clocks of the game are told about pending    *)
(* events is exact at every step, inside callbacks too.                     *)
THEOREM QueriesAlwaysExact == Spec => []QueriesExact
PROOF
  <1> QED BY QueriesFollow, Inductive, PTL
-----------------------------------------------------------------------------
(* The refinement of TimerService: what each step of the library does to    *)
(* the events that wait and to the one being called back.                   *)

(* The events that are neither cancelled nor being called back. *)
Waiting == {e \in Events : Live(e) /\ ~(InCallback /\ run.e = e)}

LEMMA DueOfWaiting ==
    /\ AbstractDue = [e \in Waiting |-> block[e].tick]
    /\ DOMAIN AbstractDue = Waiting
  BY DEF AbstractDue, Waiting

(* The same after a step. *)
LEMMA DueAfter ==
    AbstractDue' = [e \in Waiting' |-> block'[e].tick]
  BY DEF AbstractDue, Waiting, InCallback, Live, Zombie, Scheduled

LEMMA RunningBy ==
    /\ run.pc = "call" => AbstractRunning = [by |-> "tick", e |-> run.e]
    /\ run.pc = "typecall" => AbstractRunning = [by |-> "type", e |-> run.e]
    /\ run.pc \notin {"call", "typecall"} => AbstractRunning = Service!Nobody
  BY DEF AbstractRunning, Service!Nobody

LEMMA RunningAfter ==
    /\ run'.pc = "call" => AbstractRunning' = [by |-> "tick", e |-> run'.e]
    /\ run'.pc = "typecall" => AbstractRunning' = [by |-> "type", e |-> run'.e]
    /\ run'.pc \notin {"call", "typecall"} => AbstractRunning' = Service!Nobody
  BY DEF AbstractRunning, Service!Nobody

(* A callback runs for a scheduled block, and so never for a new one. *)
LEMMA RunningScheduled ==
    ASSUME IInv, InCallback
    PROVE  run.e \in Scheduled
<1>1. CASE run.pc = "call"
  <2>1. run.e \in ToSet(event_stack[Slot(event_tick)])
    BY <1>1, CursorFacts DEF IInv, CursorsLinked
  <2>2. Slot(event_tick) \in Slots
    BY SlotInWheel, BoundsAssumption DEF IInv, TypeOK
  <2> QED
    BY <2>1, <2>2 DEF IInv, ListsAgree, SlotsAgree
<1>2. CASE run.pc = "typecall"
  BY <1>2 DEF IInv, CursorsLinked
<1> QED
  BY <1>1, <1>2 DEF InCallback

(* A step of which the users of the library notice nothing. *)
LEMMA Stutter ==
    ASSUME Waiting' = Waiting,
           \A e \in Waiting : block'[e].tick = block[e].tick,
           event_tick' = event_tick,
           run.pc \notin {"call", "typecall"},
           run'.pc \notin {"call", "typecall"}
    PROVE  UNCHANGED Service!svars
<1>1. AbstractDue' = AbstractDue
  BY DueOfWaiting, DueAfter
<1>2. AbstractRunning' = AbstractRunning
  BY RunningBy, RunningAfter
<1> QED
  BY <1>1, <1>2 DEF Service!svars

LEMMA AddSchedules ==
    ASSUME IInv, NEW time \in 0..MaxDelay, NEW type \in Types,
           NEW d \in Data, NEW d2 \in Data2,
           event_add(time, type, d, d2)
    PROVE  Service!SNext
<1> DEFINE tick == event_tick + Delay(time)
<1>1. PICK e \in Events :
        /\ IF event_free_list # <<>>
             THEN /\ e = Head(event_free_list)
                  /\ event_free_list' = Tail(event_free_list)
             ELSE /\ e \in Fresh
                  /\ UNCHANGED event_free_list
        /\ block' = [block EXCEPT ![e] =
             [zombie |-> FALSE, type |-> type, data |-> d,
              data2 |-> d2, tick |-> tick]]
        /\ event_list' = Link(event_list, e)
  BY DEF event_add
<1>2. UNCHANGED <<event_tick, run>> /\ (Idle \/ InCallback)
  BY DEF event_add
<1>3. tick \in (event_tick + 1)..(event_tick + (MaxDelay + 1))
  BY BoundsAssumption DEF Delay, IInv, TypeOK
<1> HIDE DEF tick
<1>4. e \notin Scheduled /\ Scheduled' = Scheduled \cup {e}
  <2>1. /\ event_list \in Seq(Events)
        /\ event_free_list \in Seq(Events)
        /\ NoDuplicates(event_free_list)
        /\ Scheduled \cap ToSet(event_free_list) = {}
    BY DEF IInv, TypeOK, ListsAgree, MainAgrees
  <2>2. e \notin Scheduled
    BY <1>1, <2>1, TailSet DEF Fresh
  <2>3. Scheduled' = Scheduled \cup {e}
    BY <1>1, <2>1, LinkSet DEF Scheduled
  <2> QED
    BY <2>2, <2>3
<1>5. /\ block'[e].tick = tick /\ ~block'[e].zombie
      /\ \A x \in Events \ {e} : block'[x] = block[x]
  BY <1>1 DEF IInv, TypeOK
<1>6. InCallback => run.e # e
  BY <1>4, RunningScheduled
<1>7. e \notin Waiting /\ Waiting' = Waiting \cup {e}
  <2>1. InCallback' = InCallback
    BY <1>2 DEF InCallback
  <2>2. \A x \in Events : Live(x)' <=> (Live(x) \/ x = e)
    BY <1>4, <1>5 DEF Live, Zombie
  <2> QED
    BY <1>2, <1>4, <1>6, <2>1, <2>2 DEF Waiting, Live
<1>8. AbstractDue' = [x \in Waiting \cup {e} |-> IF x = e THEN tick ELSE AbstractDue[x]]
  <2>1. \A x \in Waiting' : block'[x].tick = IF x = e THEN tick ELSE AbstractDue[x]
    BY <1>5, <1>7, DueOfWaiting DEF Waiting
  <2> QED
    BY <1>7, <2>1, DueAfter
<1>9. AbstractRunning' = AbstractRunning
  BY <1>2, RunningBy, RunningAfter
<1>10. e # AbstractRunning.e
  <2>1. CASE InCallback
    BY <1>6, <2>1, RunningBy DEF InCallback
  <2>2. CASE ~InCallback
    BY <2>2, RunningBy, EventsAssumption DEF InCallback, Service!Nobody
  <2> QED
    BY <2>1, <2>2
<1>11. Service!Schedule(e, tick)
  BY <1>2, <1>7, <1>8, <1>9, <1>10, DueOfWaiting DEF Service!Schedule, Service!Pending
<1> QED
  BY <1>3, <1>11 DEF Service!SNext

(* What is marked as a zombie does not wait any more. *)
LEMMA MarkCancels ==
    ASSUME IInv, NEW doomed, MarkZombies(doomed)
    PROVE  Service!SNext
<1> DEFINE S == Waiting \cap doomed
<1>1. UNCHANGED <<event_tick, run, event_list>>
  BY DEF MarkZombies, lists
<1>2. \A x \in Events : /\ block'[x].tick = block[x].tick
                        /\ block'[x].zombie <=> (block[x].zombie \/ x \in doomed)
  BY DEF MarkZombies, IInv, TypeOK
<1>3. Waiting' = Waiting \ S
  <2>1. \A x \in Events : Live(x)' <=> (Live(x) /\ x \notin doomed)
    BY <1>1, <1>2 DEF Live, Zombie, Scheduled
  <2>2. InCallback' = InCallback /\ run' = run
    BY <1>1 DEF InCallback
  <2> QED
    BY <2>1, <2>2 DEF Waiting
<1>4. AbstractDue' = [x \in Waiting \ S |-> AbstractDue[x]]
  <2>1. \A x \in Waiting' : block'[x].tick = AbstractDue[x]
    BY <1>2, <1>3, DueOfWaiting DEF Waiting
  <2> QED
    BY <1>3, <2>1, DueAfter
<1>5. AbstractRunning' = AbstractRunning
  BY <1>1, RunningBy, RunningAfter
<1>6. Service!CancelSome(S) /\ S \in SUBSET Service!Pending
  BY <1>1, <1>4, <1>5, DueOfWaiting DEF Service!CancelSome, Service!Without, Service!Pending
<1> QED
  BY <1>6 DEF Service!SNext

LEMMA RunAdvances ==
    ASSUME IInv, event_run
    PROVE  Service!SNext
<1>1. /\ run.pc = "idle" /\ run'.pc = "scan"
      /\ event_tick' = event_tick + 1
      /\ UNCHANGED <<block, event_list>>
  BY DEF event_run, Idle, lists, IInv, TypeOK
<1>2. Waiting' = Waiting
  BY <1>1 DEF Waiting, InCallback, Live, Zombie, Scheduled
<1>3. AbstractDue' = AbstractDue
  BY <1>1, <1>2, DueOfWaiting, DueAfter
<1>4. AbstractRunning = Service!Nobody /\ AbstractRunning' = Service!Nobody
  BY <1>1, RunningBy, RunningAfter
<1>5. \A e \in Waiting : AbstractDue[e] > event_tick
  BY <1>1, DueOfWaiting DEF Waiting, IInv, NeverLate
<1>6. Service!Advance
  BY <1>1, <1>3, <1>4, <1>5, DueOfWaiting DEF Service!Advance, Service!Pending
<1> QED
  BY <1>6 DEF Service!SNext

(* The block the loop deletes leaves the scheduled blocks, and no other. *)
LEMMA DeleteSchedules ==
    ASSUME IInv, run.pc \in {"scan", "call"}, run.e # NULL,
           event_delete(run.e, Slot(event_tick))
    PROVE  /\ run.e \in Scheduled
           /\ Scheduled' = Scheduled \ {run.e}
           /\ block' = block
<1>1. /\ Slot(event_tick) \in Slots
      /\ run.e \in ToSet(event_stack[Slot(event_tick)])
  BY CursorFacts
<1>2. run.e \in Scheduled
  BY <1>1 DEF IInv, ListsAgree, SlotsAgree
<1>3. Scheduled' = Scheduled \ {run.e}
  BY <1>1, DeleteKeepsLists DEF IInv
<1> QED
  BY <1>2, <1>3 DEF event_delete

(* An event starts to be called back. *)
LEMMA CallStep ==
    ASSUME IInv, run.pc \notin {"call", "typecall"},
           NEW by \in {"tick", "type"},
           run'.pc = IF by = "tick" THEN "call" ELSE "typecall",
           run'.e = run.e, run.e \in Events, Live(run.e),
           by = "tick" => block[run.e].tick = event_tick,
           UNCHANGED <<event_tick, block, event_list>>
    PROVE  Service!SNext
<1>1. run.e \in Waiting /\ Waiting' = Waiting \ {run.e}
  BY DEF Waiting, InCallback, Live, Zombie, Scheduled
<1>2. AbstractDue' = [x \in Waiting \ {run.e} |-> AbstractDue[x]]
  BY <1>1, DueOfWaiting, DueAfter
<1>3. /\ AbstractRunning = Service!Nobody
      /\ AbstractRunning' = [by |-> by, e |-> run.e]
  BY RunningBy, RunningAfter
<1>4. Service!CallBack(run.e, by)
  BY <1>1, <1>2, <1>3, DueOfWaiting
  DEF Service!CallBack, Service!Without, Service!Pending
<1> QED
  BY <1>4 DEF Service!SNext

(* A callback returns: its event was not waiting, and the others still are. *)
LEMMA ReturnStep ==
    ASSUME run.pc \in {"call", "typecall"}, run'.pc \notin {"call", "typecall"},
           \A x \in Events : Live(x)' <=> (Live(x) /\ x # run.e),
           \A x \in Events \ {run.e} : block'[x].tick = block[x].tick,
           run.e \in Events, event_tick' = event_tick
    PROVE  Service!SNext
<1>1. Waiting' = Waiting /\ run.e \notin Waiting
  BY DEF Waiting, InCallback
<1>2. AbstractDue' = AbstractDue
  BY <1>1, DueOfWaiting, DueAfter DEF Waiting
<1>3. /\ AbstractRunning # Service!Nobody
      /\ AbstractRunning' = Service!Nobody
  BY RunningBy, RunningAfter, EventsAssumption DEF Service!Nobody
<1>4. Service!Return
  BY <1>2, <1>3 DEF Service!Return
<1> QED
  BY <1>4 DEF Service!SNext

LEMMA RunVisitImplements ==
    ASSUME IInv, RunVisit
    PROVE  [Service!SNext]_(Service!svars)
<1>1. /\ run.pc = "scan" /\ run.e # NULL /\ event_tick' = event_tick
      /\ run.e \in Events
      /\ run.e \in Scheduled
  <2>1. run.pc = "scan" /\ run.e # NULL
    BY DEF RunVisit
  <2> QED
    BY <2>1, CursorFacts DEF RunVisit, IInv, ListsAgree, SlotsAgree
<1>2. CASE /\ block[run.e].tick > event_tick
           /\ run' = [run EXCEPT !.e = NextIn(event_stack[Slot(event_tick)], run.e)]
           /\ UNCHANGED <<block, lists>>
  <2>1. run'.pc = "scan" /\ UNCHANGED <<block, event_list>>
    BY <1>1, <1>2 DEF lists, IInv, TypeOK
  <2>2. Waiting' = Waiting
    BY <1>1, <2>1 DEF Waiting, InCallback, Live, Zombie, Scheduled
  <2> QED
    BY <1>1, <2>1, <2>2, Stutter
<1>3. CASE /\ block[run.e].tick <= event_tick
           /\ ~Zombie(run.e)
           /\ run' = [run EXCEPT !.pc = "call",
                                 !.e2 = NextIn(event_stack[Slot(event_tick)], run.e)]
           /\ UNCHANGED <<block, lists>>
  <2>1. /\ run'.pc = "call" /\ run'.e = run.e
        /\ UNCHANGED <<block, event_list>>
    BY <1>3 DEF lists, IInv, TypeOK
  <2>2. Live(run.e)
    BY <1>1, <1>3 DEF Live
  <2>3. block[run.e].tick \in Nat /\ event_tick \in Nat
    BY <1>1, BoundsAssumption DEF IInv, TypeOK
  <2>4. block[run.e].tick = event_tick
    BY <1>1, <1>3, <2>2, <2>3 DEF IInv, NeverLate
  <2> QED
    BY <1>1, <2>1, <2>2, <2>4, CallStep
<1>4. CASE /\ Zombie(run.e)
           /\ event_delete(run.e, Slot(event_tick))
           /\ run' = [run EXCEPT !.e = NextIn(event_stack[Slot(event_tick)], run.e)]
  <2>1. Scheduled' = Scheduled \ {run.e} /\ block' = block
    BY <1>1, <1>4, DeleteSchedules
  <2>2. run'.pc = "scan"
    BY <1>1, <1>4 DEF IInv, TypeOK
  <2>3. Waiting' = Waiting
    BY <1>1, <1>4, <2>1, <2>2 DEF Waiting, InCallback, Live, Zombie
  <2> QED
    BY <1>1, <2>1, <2>2, <2>3, Stutter
<1> QED
  BY <1>2, <1>3, <1>4 DEF RunVisit

LEMMA ReturnImplements ==
    ASSUME IInv, RunReturn \/ TypeReturn
    PROVE  Service!SNext
<1>1. run.e \in Scheduled /\ run.e \in Events
  BY RunningScheduled, SetOfEvents
  DEF RunReturn, TypeReturn, InCallback, IInv, TypeOK, Scheduled
<1>2. CASE RunReturn
  <2>1. /\ run.pc = "call" /\ run'.pc = "scan" /\ event_tick' = event_tick
        /\ event_delete(run.e, Slot(event_tick))
    BY <1>2 DEF RunReturn, IInv, TypeOK
  <2>2. Scheduled' = Scheduled \ {run.e} /\ block' = block
    BY <1>1, <2>1, DeleteSchedules, EventsAssumption
  <2>3. \A x \in Events : Live(x)' <=> (Live(x) /\ x # run.e)
    BY <2>2 DEF Live, Zombie
  <2> QED
    BY <1>1, <2>1, <2>2, <2>3, ReturnStep
<1>3. CASE TypeReturn
  <2>1. /\ run.pc = "typecall" /\ run'.pc = "typescan"
        /\ event_tick' = event_tick /\ event_list' = event_list
    BY <1>3 DEF TypeReturn, lists, IInv, TypeOK
  <2>2. \A x \in Events : /\ block'[x].tick = block[x].tick
                          /\ block'[x].zombie <=> (block[x].zombie \/ x = run.e)
    BY <1>1, <1>3 DEF TypeReturn, IInv, TypeOK
  <2>3. \A x \in Events : Live(x)' <=> (Live(x) /\ x # run.e)
    BY <2>1, <2>2 DEF Live, Zombie, Scheduled
  <2> QED
    BY <1>1, <2>1, <2>2, <2>3, ReturnStep
<1> QED
  BY <1>2, <1>3

LEMMA TypeVisitImplements ==
    ASSUME IInv, TypeVisit
    PROVE  [Service!SNext]_(Service!svars)
<1>1. /\ run.pc = "typescan" /\ run.e \in Scheduled /\ run.e \in Events
      /\ UNCHANGED <<event_tick, block, event_list>>
  BY EventsAssumption DEF TypeVisit, lists, IInv, CursorsLinked, TypeOK
<1>2. CASE Zombie(run.e)
  <2>1. run'.pc = "typescan"
    BY <1>1, <1>2 DEF TypeVisit, IInv, TypeOK
  <2>2. Waiting' = Waiting
    BY <1>1, <2>1 DEF Waiting, InCallback, Live, Zombie, Scheduled
  <2> QED
    BY <1>1, <2>1, <2>2, Stutter
<1>3. CASE ~Zombie(run.e)
  <2>1. run'.pc = "typecall" /\ run'.e = run.e
    BY <1>1, <1>3 DEF TypeVisit, IInv, TypeOK
  <2>2. Live(run.e)
    BY <1>1, <1>3 DEF Live
  <2> QED
    BY <1>1, <2>1, <2>2, CallStep
<1> QED
  BY <1>2, <1>3

(* Entering and leaving a loop is not noticed. *)
LEMMA LoopEndsImplement ==
    ASSUME IInv,
           \/ RunDone \/ TypeDone
           \/ \E t \in Types : event_run_by_type(t)
    PROVE  UNCHANGED Service!svars
<1>1. /\ run.pc \notin {"call", "typecall"}
      /\ run'.pc \notin {"call", "typecall"}
      /\ UNCHANGED <<event_tick, block, event_list>>
  BY DEF RunDone, TypeDone, event_run_by_type, Idle, lists, IInv, TypeOK
<1>2. Waiting' = Waiting
  BY <1>1 DEF Waiting, InCallback, Live, Zombie, Scheduled
<1> QED
  BY <1>1, <1>2, Stutter

LEMMA InitImplements == Init => Service!SInit
<1> SUFFICES ASSUME Init PROVE Service!SInit
  OBVIOUS
<1>1. Waiting = {}
  BY DEF Init, Waiting, Live, Scheduled, ToSet
<1>2. AbstractDue = [e \in {} |-> 0]
  BY <1>1, DueOfWaiting
<1>3. AbstractRunning = Service!Nobody
  BY RunningBy DEF Init
<1> QED
  BY <1>2, <1>3 DEF Init, Service!SInit

LEMMA NextImplements == IInv /\ [Next]_vars => [Service!SNext]_(Service!svars)
<1> SUFFICES ASSUME IInv, [Next]_vars PROVE [Service!SNext]_(Service!svars)
  OBVIOUS
<1>1. CASE Add
  BY <1>1, AddSchedules DEF Add
<1>2. CASE Cancel
  BY <1>2, MarkCancels
  DEF Cancel, event_remove_data, event_remove_type_data,
      event_remove_type_data2, event_remove_type_data_data
<1>3. CASE event_run
  BY <1>3, RunAdvances
<1>4. CASE Loop
  BY <1>4, RunVisitImplements, ReturnImplements, LoopEndsImplement DEF Loop
<1>5. CASE \E t \in Types : event_run_by_type(t)
  BY <1>5, LoopEndsImplement
<1>6. CASE TypeLoop
  BY <1>6, TypeVisitImplements, ReturnImplements, LoopEndsImplement DEF TypeLoop
<1>7. CASE UNCHANGED vars
  <2>1. UNCHANGED <<event_tick, block, event_list, run>>
    BY <1>7 DEF vars, lists
  <2> QED
    BY <2>1 DEF Service!svars, AbstractDue, AbstractRunning, InCallback, Live,
                Zombie, Scheduled
<1> QED
  BY <1>1, <1>2, <1>3, <1>4, <1>5, <1>6, <1>7 DEF Next

(* The library of event.c implements the timer service that its users rely  *)
(* on: whatever callbacks and commands schedule and cancel, an event is     *)
(* called back at its tick, once, and never after it was cancelled.         *)
THEOREM TimerImplemented == Spec => ImplementsTimer
<1>1. Init => Service!SInit
  BY InitImplements
<1>2. IInv /\ [Next]_vars => [Service!SNext]_(Service!svars)
  BY NextImplements
<1> QED
  BY <1>1, <1>2, Inductive, PTL DEF Spec, ImplementsTimer, Service!SSpec
=============================================================================
