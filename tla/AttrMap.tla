------------------------------- MODULE AttrMap -------------------------------
(***************************************************************************)
(* What the attribute store promises to db.c: a map from attribute names   *)
(* to values that answers with what was last put, and an older copy of it  *)
(* on disk that may catch up object by object at any time, does so         *)
(* completely when SYNC succeeds, and is what a crash leaves.  When the    *)
(* database refuses a write, the operation that needed it fails: a STORE   *)
(* or DELETE does nothing, a FETCH answers with nothing whatever there is, *)
(* and the object being written has again what the disk holds for it.      *)
(***************************************************************************)
CONSTANTS Objects, Anames, Values,
          none      \* no value

VARIABLES map,      \* what FETCH answers: [Anames -> Values \cup {none}]
          stored,   \* the same on disk
          done,     \* what the last operation did; "refused" is gdbm's doing
          answer    \* an attribute and what FETCH answered for it, or none

OfObject(o) == {x \in Anames : x[1] = o}

(* The disk catches up for some of the objects. *)
Flushes ==
    \A o \in Objects : \/ \A x \in OfObject(o) : stored'[x] = stored[x]
                       \/ \A x \in OfObject(o) : stored'[x] = map[x]

Unchanged(xs) == \A x \in xs : map'[x] = map[x]

Fetch == \E x \in Anames :
            /\ Unchanged(Anames) /\ Flushes
            /\ done' = "fetched" /\ answer' = <<x, map[x]>>

(* cache_reset, a SYNC that fails, or a DELETE with nothing to delete. *)
Idle == Unchanged(Anames) /\ Flushes /\ done' = "none" /\ answer' = none

Change(x) == Unchanged(Anames \ {x}) /\ Flushes /\ answer' = none

Store == \E x \in Anames :
            Change(x) /\ map'[x] \in Values /\ done' = "stored"

Delete == \E x \in Anames :
            Change(x) /\ map'[x] = none /\ done' = "deleted"

(* FETCH, STORE or DELETE, when the database refuses a write. *)
Lose == /\ \E o \in Objects : /\ \A x \in OfObject(o) : map'[x] = stored[x]
                               /\ Unchanged(Anames \ OfObject(o))
        /\ UNCHANGED stored
        /\ done' = "refused" /\ answer' \in {none} \cup (Anames \X {none})

Sync == /\ \A x \in Anames : stored'[x] = map[x]
        /\ Unchanged(Anames)
        /\ done' = "synced" /\ answer' = none

Crash == Flushes /\ map' = stored' /\ done' = "none" /\ answer' = none

Init == map = stored /\ done = "none" /\ answer = none
Next == Fetch \/ Idle \/ Store \/ Delete \/ Lose \/ Sync \/ Crash
Spec == Init /\ [][Next]_<<map, stored, done, answer>>
=============================================================================
