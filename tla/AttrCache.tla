------------------------------ MODULE AttrCache ------------------------------
(***************************************************************************)
(* The attribute store of src/udb_ocache.c: objects, each with all of its  *)
(* attributes, cached in front of a gdbm file (src/udb_ochunk.c).  Every   *)
(* bucket has four chains of cache entries: active and mactive (modified)  *)
(* for those used since the last cache_reset, old and mold for the others. *)
(* Only entries of the last two are given up for other objects, so that    *)
(* the pointers into an object that FETCH returns stay good until the next *)
(* cache_reset.                                                            *)
(*                                                                         *)
(* Modelled link by link.  Left out: statistics, allocation failure,       *)
(* cache_busy and cache_frozen, which nothing sets, and the encoding of an *)
(* object on disk; gdbm stores or deletes one record or fails.             *)
(***************************************************************************)
EXTENDS Integers, Sequences, FiniteSets, ListSelection

CONSTANTS
    Objects,     \* dbrefs
    Anames,      \* the attributes in use: pairs of a dbref and a number
    Values,
    none,
    Blocks,      \* Cache blocks
    CNULL,
    cwidth, cdepth,
    cache_trim_on,   \* mudconf.cache_trim
    DBFails          \* gdbm may refuse to write

ASSUME NamesAssumption ==
    /\ Objects \subseteq Nat /\ IsFiniteSet(Objects)
    /\ Anames \subseteq Objects \X Nat
    /\ none \notin Values /\ CNULL \notin Blocks \cup Objects
ASSUME SizesAssumption ==
    /\ cwidth \in Nat \ {0} /\ cdepth \in Nat
    /\ IsFiniteSet(Blocks) /\ cwidth * cdepth <= Cardinality(Blocks)
    /\ cache_trim_on \in BOOLEAN /\ DBFails \in BOOLEAN

VARIABLES
    sys_c,    \* the cache, see NoCache
    disk,     \* object -> array of attributes, empty if it has no record
    held,     \* history: objects FETCH found since the last cache_reset
    done,     \* what the last operation did, as it or gdbm reported it
    answer,   \* an attribute and what cache_get just returned for it, or none
    shown     \* sys_c and disk as AttrMap sees them

vars == <<sys_c, disk, held, done, answer, shown>>

Kinds == {"active", "mactive", "old", "mold"}
Buckets == 0..(cwidth - 1)
Ptr == Blocks \cup {CNULL}
Bucket(o) == o % cwidth

(* Objects *)

(* The binary search of the three functions below: where attribute k is,   *)
(* or where it has to be inserted.  at[i] is lo and hi after i turns of    *)
(* its loop, at most. *)
Mid(s) == ((s.hi - s.lo) \div 2) + s.lo

Search(a, k) ==
    LET turn(s) ==
          IF s.lo > s.hi \/ a[Mid(s)].attrnum = k THEN s
          ELSE IF a[Mid(s)].attrnum > k THEN [s EXCEPT !.hi = Mid(s) - 1]
          ELSE [s EXCEPT !.lo = Mid(s) + 1]
        at[i \in 0..Len(a)] ==
          IF i = 0 THEN [lo |-> 1, hi |-> Len(a)] ELSE turn(at[i - 1])
        last == at[Len(a)]
        found == last.lo <= last.hi
    IN [found |-> found, at |-> IF found THEN Mid(last) ELSE last.lo]

get_attrib(a, k) ==
    LET s == Search(a, k) IN IF s.found THEN a[s.at].data ELSE none

(* a with e moved in at place i. *)
With(a, i, e) == [j \in 1..(Len(a) + 1) |->
                    IF j < i THEN a[j] ELSE IF j = i THEN e ELSE a[j - 1]]

set_attrib(a, k, v) ==
    LET s == Search(a, k)
        e == [attrnum |-> k, data |-> v]
    IN IF s.found THEN [a EXCEPT ![s.at] = e] ELSE With(a, s.at, e)

del_attrib(a, k) ==
    LET s == Search(a, k) IN IF s.found THEN Without(a, s.at) ELSE a

(* Chains.  The cache is a record n: links of the entries, head and tail   *)
(* of every chain, the object in an entry, and the count of each bucket.   *)

Chains == Buckets \X Kinds
NoOp == [name |-> CNULL, atrs |-> <<>>]         \* op == 0

NoCache ==
    [nxt |-> [e \in Blocks |-> CNULL], prv |-> [e \in Blocks |-> CNULL],
     head |-> [q \in Chains |-> CNULL], tail |-> [q \in Chains |-> CNULL],
     op |-> [e \in Blocks |-> NoOp],
     count |-> [b \in Buckets |-> 0], used |-> {}]

Entries(n, q) == Path(n.nxt, n.head[q])

DEQUEUE(n, q, e) ==
    LET nx == n.nxt[e]
        pv == n.prv[e]
        m == IF nx = CNULL THEN [n EXCEPT !.tail[q] = pv]
                           ELSE [n EXCEPT !.prv[nx] = pv]
    IN IF pv = CNULL THEN [m EXCEPT !.head[q] = nx] ELSE [m EXCEPT !.nxt[pv] = nx]

INSHEAD(n, q, e) ==
    LET h == n.head[q]
        m == IF h = CNULL THEN [n EXCEPT !.tail[q] = e] ELSE [n EXCEPT !.prv[h] = e]
    IN [m EXCEPT !.nxt[e] = h, !.head[q] = e, !.prv[e] = CNULL]

Move(n, from, to, e) == INSHEAD(DEQUEUE(n, from, e), to, e)

(* The tail of chain q is taken off it, and its object freed.  Its links   *)
(* are not read before it is linked again. *)
TakeTail(n, q) ==
    LET cp == n.tail[q]
        pv == n.prv[cp]
        m == [n EXCEPT !.op[cp] = NoOp, !.nxt[cp] = CNULL, !.prv[cp] = CNULL]
    IN IF pv = CNULL THEN [m EXCEPT !.head[q] = CNULL, !.tail[q] = CNULL]
       ELSE [m EXCEPT !.tail[q] = pv, !.nxt[pv] = n.nxt[cp]]

(* NAMECMP along a chain; CNULL if the object is not on it. *)
Find(n, q, o) ==
    LET es == Entries(n, q)
        hits == {i \in DOMAIN es : n.op[es[i]].name = o}
    IN IF hits = {} THEN CNULL ELSE es[CHOOSE i \in hits : \A j \in hits : i <= j]

(* The first of the chains ks of its bucket that has object o. *)
FirstOf(n, o, ks) ==
    LET hits == {i \in DOMAIN ks : Find(n, <<Bucket(o), ks[i]>>, o) # CNULL}
    IN IF hits = {} THEN "none" ELSE ks[CHOOSE i \in hits : \A j \in hits : i <= j]

(* Mutant: the mold chain is not searched. *)
FoundInThree(n, o) == FirstOf(n, o, <<"active", "mactive", "old">>)

SearchOrder == <<"active", "mactive", "old", "mold">>

FoundIn(n, o) == FirstOf(n, o, SearchOrder)
-----------------------------------------------------------------------------
(* Entries for objects that are not cached *)

(* DB_PUT, or DB_DEL of an object that has no attributes left. *)
Written(d, op) == [d EXCEPT ![op.name] = op.atrs]

(* Where malloc may put a new entry, if one is needed. *)
Spare(n, b) ==
    IF n.tail[<<b, "old">>] = CNULL /\ n.tail[<<b, "mold">>] = CNULL
    THEN Blocks \ n.used ELSE {CNULL}

(* Mutant: a modified entry is used again without being written. *)
get_free_entry_Unwritten(n, d, b, ok, new) ==
    LET q == IF n.tail[<<b, "old">>] # CNULL THEN <<b, "old">> ELSE <<b, "mold">>
        e == n.tail[q]
    IN IF e # CNULL
       THEN [n |-> TakeTail(n, q), d |-> d, cp |-> e]
       ELSE [n |-> [n EXCEPT !.used = @ \cup {new}, !.count[b] = @ + 1],
             d |-> d, cp |-> new]

(* The old chain's tail; or the mold chain's, written to disk first; or a  *)
(* new entry.  cp is CNULL if the write fails, when the entry is lost. *)
get_free_entry(n, d, b, ok, new) ==
    LET q == IF n.tail[<<b, "old">>] # CNULL THEN <<b, "old">> ELSE <<b, "mold">>
        e == n.tail[q]
    IN IF e # CNULL
       THEN [n |-> TakeTail(n, q),
             d |-> IF q[2] = "mold" /\ ok THEN Written(d, n.op[e]) ELSE d,
             cp |-> IF q[2] = "mold" /\ ~ok THEN CNULL ELSE e]
       ELSE [n |-> [n EXCEPT !.used = @ \cup {new}, !.count[b] = @ + 1],
             d |-> d, cp |-> new]

(* Object o with attributes a is put in a free entry on a chain. *)
Load(o, a, kind, ok, new) ==
    LET b == Bucket(o)
        r == get_free_entry(sys_c, disk, b, ok, new)
        m == [r.n EXCEPT !.op[r.cp] = [name |-> o, atrs |-> a]]
    IN IF r.cp = CNULL THEN r ELSE [r EXCEPT !.n = INSHEAD(m, <<b, kind>>, r.cp)]

(* What gdbm may answer, where get_free_entry asks it. *)
DBAnswers(n, b) ==
    IF DBFails /\ n.tail[<<b, "old">>] = CNULL /\ n.tail[<<b, "mold">>] # CNULL
    THEN BOOLEAN ELSE {TRUE}

Effect(n, d, got, what, told) ==
    /\ sys_c' = n /\ disk' = d
    /\ held' = held \cup got
    /\ done' = what /\ answer' = told
-----------------------------------------------------------------------------
(* FETCH, STORE and DELETE *)

(* Mutant: an entry found on the old chain stays there. *)
TouchedNot(kind) == kind

Touched(kind) == CASE kind = "old" -> "active"
                   [] kind = "mold" -> "mactive"
                   [] OTHER -> kind

Rechain(n, o, from, to) ==
    LET b == Bucket(o)
        e == Find(n, <<b, from>>, o)
    IN IF from = to THEN n ELSE Move(n, <<b, from>>, <<b, to>>, e)

(* What get_attrib finds for x in its object's attributes a. *)
Answer(x, a) == <<x, get_attrib(a, x[2])>>

cache_get(x) ==
    LET o == x[1]
        from == FoundIn(sys_c, o)
        e == Find(sys_c, <<Bucket(o), from>>, o)
    IN \/ /\ from # "none"
          /\ Effect(Rechain(sys_c, o, from, Touched(from)), disk, {o},
                    "fetched", Answer(x, sys_c.op[e].atrs))
       \/ /\ from = "none" /\ disk[o] = <<>>
          /\ Effect(sys_c, disk, {}, "fetched", <<x, none>>)
       \/ /\ from = "none" /\ disk[o] # <<>>
          /\ \E ok \in DBAnswers(sys_c, Bucket(o)), new \in Spare(sys_c, Bucket(o)) :
               LET r == Load(o, disk[o], "active", ok, new)
               IN IF r.cp = CNULL
                  THEN Effect(r.n, r.d, {}, "refused", <<x, none>>)
                  ELSE Effect(r.n, r.d, {o}, "fetched", Answer(x, disk[o]))

(* Object o gets the attributes a and is modified from now on. *)
Modify(o, a, what) ==
    LET from == FoundIn(sys_c, o)
        e == Find(sys_c, <<Bucket(o), from>>, o)
    IN \/ /\ from # "none"
          /\ Effect(Rechain([sys_c EXCEPT !.op[e].atrs = a], o, from, "mactive"),
                    disk, {}, what, none)
       \/ /\ from = "none"
          /\ \E ok \in DBAnswers(sys_c, Bucket(o)), new \in Spare(sys_c, Bucket(o)) :
               LET r == Load(o, a, "mactive", ok, new)
               IN Effect(r.n, r.d, {}, IF r.cp = CNULL THEN "refused" ELSE what, none)

(* Object o as a search of the chains finds it, or as it is on disk. *)
Attributes(n, d, o) ==
    LET from == FirstOf(n, o, SearchOrder)
    IN IF from = "none" THEN d[o]
       ELSE n.op[Find(n, <<Bucket(o), from>>, o)].atrs

Now(o) == Attributes(sys_c, disk, o)

cache_put(x, v) == Modify(x[1], set_attrib(Now(x[1]), x[2], v), "stored")

cache_del(x) ==
    LET o == x[1]
    IN \/ /\ FoundIn(sys_c, o) = "none" /\ disk[o] = <<>>
          /\ Effect(sys_c, disk, {}, "none", none)
       \/ /\ FoundIn(sys_c, o) # "none" \/ disk[o] # <<>>
          /\ Modify(o, del_attrib(Now(o), x[2]), "deleted")
-----------------------------------------------------------------------------
(* Reset, trim and SYNC *)

(* Chain from is put before chain to.  The code leaves the tail of from as *)
(* it is: that of an empty active chain is not read. *)
Prepend(n, from, to) ==
    LET first == n.head[to]
        last == n.tail[from]
        end == IF n.tail[to] = CNULL THEN last ELSE n.tail[to]
    IN IF n.head[from] = CNULL THEN n
       ELSE [n EXCEPT !.nxt = [n.nxt EXCEPT ![last] = first],
                      !.prv = IF first = CNULL THEN n.prv ELSE [n.prv EXCEPT ![first] = last],
                      !.head = [n.head EXCEPT ![to] = n.head[from], ![from] = CNULL],
                      !.tail = [n.tail EXCEPT ![to] = end, ![from] = CNULL]]

(* Chain from is put behind chain to. *)
Put(n, from, to) ==
    LET h == n.head[from]
        m == IF n.head[to] = CNULL THEN [n EXCEPT !.head[to] = h]
             ELSE [n EXCEPT !.nxt[n.tail[to]] = h, !.prv[h] = n.tail[to]]
    IN IF h = CNULL THEN n
       ELSE [m EXCEPT !.tail[to] = n.tail[from],
                      !.head[from] = CNULL, !.tail[from] = CNULL]

(* Free old entries while the bucket has more than cdepth. *)
TrimOne(n, b) ==
    LET q == <<b, "old">>
        e == n.tail[q]
    IN IF n.count[b] <= cdepth \/ e = CNULL THEN n
       ELSE [TakeTail(n, q) EXCEPT !.count[b] = @ - 1, !.used = @ \ {e}]

cache_trim(n, b) ==
    LET after[i \in 0..Cardinality(Blocks)] ==
          IF i = 0 THEN n ELSE TrimOne(after[i - 1], b)
    IN after[Cardinality(Blocks)]

Trimmed(n, b) == IF cache_trim_on THEN cache_trim(n, b) ELSE n

ResetBucket(n, b, trim) ==
    LET m == Prepend(Prepend(n, <<b, "active">>, <<b, "old">>),
                     <<b, "mactive">>, <<b, "mold">>)
    IN IF trim THEN Trimmed(m, b) ELSE m

Reset(n, trim) ==
    LET after[i \in 0..cwidth] ==
          IF i = 0 THEN n ELSE ResetBucket(after[i - 1], i - 1, trim)
    IN after[cwidth]

cache_reset ==
    /\ \E trim \in BOOLEAN : sys_c' = Reset(sys_c, trim)
    /\ held' = {} /\ done' = "none" /\ answer' = none
    /\ UNCHANGED disk

(* The first k of the entries es are written. *)
Writes(d, op, es, k) ==
    LET after[i \in 0..k] == IF i = 0 THEN d ELSE Written(after[i - 1], op[es[i]])
    IN after[k]

Clean(n, b) ==
    Trimmed(Put(Put(n, <<b, "mold">>, <<b, "old">>),
                <<b, "mactive">>, <<b, "active">>), b)

(* cache_write, cache_clean and cache_trim of one bucket: r.left writes    *)
(* succeed before one fails. *)
SyncBucket(r, b) ==
    LET es == Entries(r.n, <<b, "mold">>) \o Entries(r.n, <<b, "mactive">>)
        all == Len(es) <= r.left
        k == IF all THEN Len(es) ELSE r.left
    IN IF ~r.ok THEN r
       ELSE [n |-> IF all THEN Clean(r.n, b) ELSE r.n,
             d |-> Writes(r.d, r.n.op, es, k),
             left |-> r.left - k, ok |-> all]

(* SYNC whose write number left + 1 fails. *)
SyncUpTo(left) ==
    LET after[i \in 0..cwidth] ==
          IF i = 0 THEN [n |-> Reset(sys_c, FALSE), d |-> disk, left |-> left,
                         ok |-> TRUE]
          ELSE SyncBucket(after[i - 1], i - 1)
    IN after[cwidth]

Modified == {e \in Blocks : \E q \in Chains : q[2] \in {"mactive", "mold"}
                             /\ e \in Set(Entries(sys_c, q))}

cache_sync ==
    \E left \in (IF DBFails THEN 0 ELSE Cardinality(Modified))..Cardinality(Modified) :
       LET r == SyncUpTo(left)
       IN /\ sys_c' = r.n /\ disk' = r.d
          /\ held' = {} /\ answer' = none
          /\ done' = IF r.ok THEN "synced" ELSE "none"
-----------------------------------------------------------------------------
(* A preallocated entry goes on bucket b's old chain. *)
Prealloc(n, b) ==
    LET new == CHOOSE e \in Blocks : e \notin n.used
    IN [INSHEAD(n, <<b, "old">>, new) EXCEPT !.used = @ \cup {new}]

InitBucket(n, b) ==
    LET after[y \in 0..cdepth] ==
          IF y = 0 THEN [n EXCEPT !.count[b] = cdepth]
          ELSE Prealloc(after[y - 1], b)
    IN after[cdepth]

(* cdepth empty entries on the old chain of every bucket. *)
cache_init ==
    LET after[i \in 0..cwidth] ==
          IF i = 0 THEN NoCache ELSE InitBucket(after[i - 1], i - 1)
    IN after[cwidth]

(* The server dies, perhaps in the middle of a SYNC, and starts again. *)
Crash ==
    /\ \E left \in 0..Cardinality(Modified) : disk' = SyncUpTo(left).d
    /\ sys_c' = cache_init
    /\ held' = {} /\ done' = "none" /\ answer' = none

(* What cache_get finds for x, when it needs no entry or gets one. *)
FETCH(n, d, x) == get_attrib(Attributes(n, d, x[1]), x[2])

Shown(n, d) ==
    [map |-> [x \in Anames |-> FETCH(n, d, x)],
     stored |-> [x \in Anames |-> get_attrib(d[x[1]], x[2])]]

Init ==
    /\ sys_c = cache_init
    /\ disk = [o \in Objects |-> <<>>]
    /\ held = {} /\ done = "none" /\ answer = none
    /\ shown = Shown(sys_c, disk)

Step ==
    \/ \E x \in Anames : cache_get(x) \/ cache_del(x)
    \/ \E x \in Anames, v \in Values : cache_put(x, v)
    \/ cache_reset \/ cache_sync \/ Crash

Next == Step /\ shown' = Shown(sys_c', disk')

Spec == Init /\ [][Next]_vars
-----------------------------------------------------------------------------
(* Properties *)

OnChains(b) == UNION {Set(Entries(sys_c, <<b, k>>)) : k \in Kinds}

(* Links, heads, tails and counts are of the types udb_ocache.c declares,  *)
(* and every object is an array of attributes. *)
TypeOK ==
    /\ sys_c.nxt \in [Blocks -> Ptr] /\ sys_c.prv \in [Blocks -> Ptr]
    /\ sys_c.head \in [Chains -> Ptr] /\ sys_c.tail \in [Chains -> Ptr]
    /\ sys_c.used \subseteq Blocks
    /\ \A b \in Buckets : sys_c.count[b] \in 0..Cardinality(Blocks)
    /\ held \subseteq Objects
    /\ \A o \in Objects : \A i \in DOMAIN disk[o] : disk[o][i].data \in Values

(* After any mixture of moves, splices, evictions and trims the four       *)
(* chains of a bucket are well-formed lists, linked both ways, ending at   *)
(* the tail, sharing no entry, each entry on a chain of its object's       *)
(* bucket; and a chain that get_free_entry takes from has no tail when it  *)
(* is empty (udb_ocache.c:77-113, 309-330, 759, 797). *)
ChainsLinked ==
    LET es == [q \in Chains |-> Entries(sys_c, q)]
    IN /\ \A q \in Chains :
            /\ \A i \in DOMAIN es[q] :
                 LET e == es[q][i]
                 IN /\ sys_c.prv[e] = IF i = 1 THEN CNULL ELSE es[q][i - 1]
                    /\ sys_c.op[e] # NoOp => Bucket(sys_c.op[e].name) = q[1]
            /\ es[q] # <<>> => /\ sys_c.tail[q] = es[q][Len(es[q])]
                              /\ sys_c.nxt[es[q][Len(es[q])]] = CNULL
            /\ es[q] = <<>> /\ q[2] \in {"old", "mold"} => sys_c.tail[q] = CNULL
       /\ \A q, r \in Chains : q # r => Set(es[q]) \cap Set(es[r]) = {}

(* An object is cached at most once: a second copy would be found first,   *)
(* or written over the newer one (udb_ocache.c:705). *)
CachedOnce ==
    \A b \in Buckets :
        LET es == OnChains(b)
        IN \A e, f \in es :
             e # f /\ sys_c.op[e] # NoOp => sys_c.op[e].name # sys_c.op[f].name

(* What may be dropped without being written, an entry of the active or    *)
(* the old chain, is what the disk has. *)
CleanIsStored ==
    \A b \in Buckets, k \in {"active", "old"} :
        \A e \in Set(Entries(sys_c, <<b, k>>)) :
            sys_c.op[e] # NoOp => sys_c.op[e].atrs = disk[sys_c.op[e].name]

(* The chains are well-formed, hold each object once, and hold nothing     *)
(* unwritten where nothing is written before it is dropped; and the        *)
(* bucket's count, by which cache_trim goes, misses no entry. *)
CacheSound ==
    /\ TypeOK /\ ChainsLinked /\ CachedOnce /\ CleanIsStored
    /\ \A b \in Buckets : Cardinality(OnChains(b)) <= sys_c.count[b]

(* The pointers FETCH has given out since the last cache_reset are into    *)
(* objects that are still cached, and not where an entry is taken from     *)
(* (db.c:2145; udb_ocache.c:754). *)
HeldStays == \A o \in held : FoundIn(sys_c, o) \in {"active", "mactive"}

(* The cache and the gdbm file together are the map of AttrMap: whatever   *)
(* is cached, evicted, trimmed or synced, FETCH answers with what STORE or *)
(* DELETE did last, and with nothing only where there is nothing or gdbm   *)
(* refused the write that makes room (udb_ocache.c:491-492); a crash       *)
(* leaves whole objects, and everything that was there when SYNC last      *)
(* returned 0. *)
Map == INSTANCE AttrMap WITH map <- shown.map, stored <- shown.stored
ImplementsMap == Map!Spec
=============================================================================
