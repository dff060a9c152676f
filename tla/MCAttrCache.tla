----------------------------- MODULE MCAttrCache -----------------------------
(* Instances of AttrCache for TLC. *)
EXTENDS AttrCache, TLC

LOCAL INSTANCE SequencesExt

OneEach == {<<o, 1>> : o \in Objects}

Symmetry == Permutations(Blocks)

(* The binary searches of get_attrib, set_attrib and del_attrib on every   *)
(* array of up to four attributes: sorted arrays stay sorted, and read as  *)
(* the function they stand for. *)
Numbers == 1..4
Arrays == {[i \in 1..Cardinality(s) |->
              [attrnum |-> SetToSortSeq(s, <)[i], data |-> "old"]] :
                 s \in SUBSET Numbers}
AsFunction(a) ==
    [k \in Numbers |-> IF \E i \in DOMAIN a : a[i].attrnum = k
                      THEN a[CHOOSE i \in DOMAIN a : a[i].attrnum = k].data
                      ELSE none]
Sorted(a) == \A i, j \in DOMAIN a : i < j => a[i].attrnum < a[j].attrnum

ASSUME SearchExact ==
    \A a \in Arrays, k \in Numbers :
        LET f == AsFunction(a)
            set == set_attrib(a, k, "new")
            del == del_attrib(a, k)
        IN /\ get_attrib(a, k) = f[k]
           /\ Sorted(set) /\ AsFunction(set) = [f EXCEPT ![k] = "new"]
           /\ Sorted(del) /\ AsFunction(del) = [f EXCEPT ![k] = none]
=============================================================================
