--------------------------- MODULE ListSelection ---------------------------
(***************************************************************************)
(* What a C loop meets that follows the links of a list, and parts of a    *)
(* list by position: what is left when some elements are unlinked, and how *)
(* many there are.  (SelectSeq says the same of an operator; of these one  *)
(* can prove things.  The lemmas are in ListSelectionProofs.)              *)
(***************************************************************************)
EXTENDS Integers, Sequences, FiniteSets

(* The blocks met from first along link, in order.  A pointer that is not  *)
(* in the domain of link is the null pointer. *)
Path(link, first) ==
    LET path[k \in 0..Cardinality(DOMAIN link)] ==
          IF k = 0 THEN IF first \in DOMAIN link THEN <<first>> ELSE <<>>
          ELSE LET s == path[k - 1]
               IN IF s = <<>> \/ link[s[Len(s)]] \notin DOMAIN link THEN s
                  ELSE Append(s, link[s[Len(s)]])
    IN path[Cardinality(DOMAIN link)]

Set(s) == {s[i] : i \in DOMAIN s}

Positions(list, Test(_)) == {i \in DOMAIN list : Test(list[i])}

(* The place of x among the numbers in S. *)
Rank(S, x) == Cardinality({j \in S : j <= x})

(* The elements at the positions S, in their order. *)
Pick(list, S) ==
    [i \in 1..Cardinality(S) |-> list[CHOOSE x \in S : Rank(S, x) = i]]

Select(list, Test(_)) == Pick(list, Positions(list, Test))

Delete(list, Test(_)) == Pick(list, DOMAIN list \ Positions(list, Test))

(* s without its i-th element. *)
Without(s, i) == [j \in 1..(Len(s) - 1) |-> IF j < i THEN s[j] ELSE s[j + 1]]

HowMany(list, Test(_)) == Cardinality(Positions(list, Test))
=============================================================================
