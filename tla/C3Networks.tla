----------------------------- MODULE C3Networks -----------------------------
(***************************************************************************)
(* The C3 and C3i targeting networks (mech.c3.c, mech.c3i.c,               *)
(* mech.c3.misc.c).  There is no network object: every unit keeps an array *)
(* of its own with the other units of its network, and the commands copy   *)
(* and prune these arrays one by one.  What disqualifies a unit - damage,  *)
(* another team, another map - happens elsewhere, is told to nobody, and   *)
(* is noticed only when somebody's array is next validated.                *)
(*                                                                         *)
(* Validating an array reads nothing but the array and the units' own      *)
(* attributes, never another array, so the loops over the members of a     *)
(* network are written as one simultaneous change of their arrays.         *)
(*                                                                         *)
(* Left out: started, unconscious and jammed units, which only refuse      *)
(* commands and mute messages; sensors, ranges and all output.             *)
(***************************************************************************)
EXTENDS Integers, Sequences, FiniteSets, ListSelection

CONSTANTS
    Units,              \* dbrefs of the units
    Fleets,             \* the equipments of the units, one of which is given
    Maps, Teams,
    C3I_NETWORK_SIZE,   \* 5 in mech.h
    C3_NETWORK_SIZE,    \* 11 in mech.h
    MaxSteps            \* bound on the number of commands and events

None == 0               \* an empty slot of an array, or no map; -1 in the code

\* The equipment of a unit: a C3i computer, a C3 slave, or a number of C3 masters.
C3I == -1
SLAVE == 0

ASSUME C3Assumption ==
    /\ None \notin Units \cup Maps /\ Maps # {} /\ Teams # {}
    /\ C3I_NETWORK_SIZE \in Nat \ {0} /\ C3_NETWORK_SIZE \in Nat \ {0} /\ MaxSteps \in Nat
    /\ \A f \in Fleets : f \in [Units -> Nat \cup {C3I}]

VARIABLES
    fleet,      \* fleet[u]: the equipment of u
    net,        \* net[u]: the network array of u and its size field
    team, mapindex,
    dead,       \* DESTROYED
    broken,     \* C3_DESTROYED, C3I_DESTROYED
    masters,    \* MechWorkingC3Masters
    overrun,    \* history: an array was written past its end
    settled,    \* history: no unit became eligible again for an array that still
                \* named it or was put back where it was used, and no C3 network
                \* has lost a master
    left        \* steps left

vars == <<fleet, net, team, mapindex, dead, broken, masters, overrun, settled, left>>

HasC3i(u) == fleet[u] = C3I
HasC3(u)  == fleet[u] # C3I
SameKind(u, v) == HasC3i(u) = HasC3i(v)
Slots(u)  == IF HasC3i(u) THEN C3I_NETWORK_SIZE ELSE C3_NETWORK_SIZE

TypeOK ==
    /\ fleet \in Fleets
    /\ \A u \in Units :
        /\ net[u].size \in -1..Slots(u)
        /\ net[u].elem \in [1..Slots(u) -> Units \cup {None}]
    /\ team \in [Units -> Teams] /\ mapindex \in [Units -> Maps \cup {None}]
    /\ dead \in [Units -> BOOLEAN] /\ broken \in [Units -> BOOLEAN]
    /\ masters \in [Units -> Nat]
    /\ overrun \in BOOLEAN /\ settled \in BOOLEAN
    /\ left \in 0..MaxSteps

-----------------------------------------------------------------------------
\* What one unit's array says.

\* The array with list in its first slots, and the size field set accordingly.
Filled(u, list) ==
    [elem |-> [i \in 1..Slots(u) |-> IF i <= Len(list) THEN list[i] ELSE None],
     size |-> Len(list)]

Empty(u) == Filled(u, << >>)

\* getOtherMechInNetwork without the checks for ECM, power and pilot: may v be
\* used from u's array?
Linked(u, v) ==
    /\ team[v] = team[u]
    /\ mapindex[v] = mapindex[u]
    /\ ~dead[v]
    /\ SameKind(u, v)
    /\ ~broken[v]

\* The members that getOtherMechInNetwork yields for the indices below size.
Others(n, u) ==
    Pick(n.elem, {i \in 1..n.size : n.elem[i] # None /\ Linked(u, n.elem[i])})

\* The units that these are.
OthersOf(n, u) == {n.elem[i] : i \in 1..n.size} \cap {v \in Units : Linked(u, v)}

\* The working masters of the units in list.
SumOf(list) == Cardinality(UNION {{i} \X (1..masters[list[i]]) : i \in DOMAIN list})

AtMost(a, b) == IF a < b THEN a ELSE b

\* How many others a network of u, those in list and (for a join) those in more
\* may have: three for every working master.
countMaxC3Units(u, list, more) ==
    AtMost(3 * (SumOf(list) + masters[u] + SumOf(more)), C3_NETWORK_SIZE)

\* trimC3Network: the masters first, then slaves while there is room.
trimC3Network(u, list) ==
    LET max == countMaxC3Units(u, list, << >>)
        Ms == Pick(list, {i \in DOMAIN list : masters[list[i]] > 0})
        Ss == Pick(list, {i \in DOMAIN list : masters[list[i]] = 0})
    IN  IF max >= Len(list) THEN list
        ELSE Ms \o SubSeq(Ss, 1, AtMost(Len(Ss), max - Len(Ms)))

\* The array that remains when u keeps the members it may still use.
Kept(n, u) ==
    Filled(u, IF HasC3(u) THEN trimC3Network(u, Others(n, u)) ELSE Others(n, u))

-----------------------------------------------------------------------------
\* The operations on all arrays ns.

\* clearMechFromC3Network(u, v) and the validation of v's array that ends it.  v
\* is eligible, or it would not have been found, so validating keeps or, after a
\* restart, empties its array.
clearMechFromC3Network(ns, u, v) ==
    LET n == ns[v]
        Cut == [n EXCEPT !.elem = [i \in 1..Slots(v) |-> IF n.elem[i] = u THEN None ELSE n.elem[i]]]
    IN  IF n.size = 0 THEN n
        ELSE IF n.size < 0 THEN Empty(v)
        ELSE Kept(Cut, v)

clearC3Network(ns, u, others) ==
    [v \in Units |->
        IF v = u THEN Empty(u)
        ELSE IF others /\ v \in OthersOf(ns[u], u) THEN clearMechFromC3Network(ns, u, v)
        ELSE ns[v]]

validateC3Network(ns, u) ==
    IF dead[u] \/ broken[u] \/ ns[u].size < 0
    THEN clearC3Network(ns, u, TRUE)
    ELSE [ns EXCEPT ![u] = Kept(@, u)]

Replica_All(ns, src, dest) == <<src>> \o ns[src].elem

\* The entries replicateC3Network writes into the array of dest: src, and every
\* slot of src's array, empty or not, that is not dest.
Replica(ns, src, dest) == <<src>> \o Pick(ns[src].elem, {i \in DOMAIN ns[src].elem : ns[src].elem[i] # dest})

replicateC3Network(ns, src, dest) ==
    LET list == Replica(ns, src, dest)
        Cut  == SubSeq(list, 1, AtMost(Len(list), Slots(dest)))
    IN  Kept(Filled(dest, Cut), dest)

\* getFreeC3NetworkPos on a validated array: the first empty slot, or none if u
\* is already named before it or there is no room.
FreePos(n, u) ==
    {i \in DOMAIN n.elem : /\ n.elem[i] = None
                           /\ \A j \in 1..(i - 1) : n.elem[j] \notin {None, u}}

\* addMechToC3Network: u enters t's array, which is then copied to all its members.
Entered(ns, t, u, i) ==
    [ns EXCEPT ![t] =
        [elem |-> [j \in 1..Slots(t) |-> IF j = i THEN u ELSE ns[t].elem[j]],
         size |-> ns[t].size + 1]]

addMechToC3Network_NewOnly(ns, t, u) ==
    LET valid == validateC3Network(ns, t)
        Pos   == FreePos(valid[t], u)
    IN  IF Pos = {} THEN valid
        ELSE LET new == Entered(valid, t, u, CHOOSE i \in Pos : TRUE)
             IN  validateC3Network([new EXCEPT ![u] = replicateC3Network(new, t, u)], t)

addMechToC3Network(ns, t, u) ==
    LET valid == validateC3Network(ns, t)
        Pos   == FreePos(valid[t], u)
    IN  IF Pos = {} THEN valid
        ELSE LET new == Entered(valid, t, u, CHOOSE i \in Pos : TRUE)
             IN  validateC3Network([v \in Units |->
                        IF v \in OthersOf(new[t], t)
                        THEN replicateC3Network(new, t, v) ELSE new[v]], t)

\* The copies of that join that would not fit.
Overruns(ns, t, u) ==
    LET valid == validateC3Network(ns, t)
        Pos   == FreePos(valid[t], u)
        new   == Entered(valid, t, u, CHOOSE i \in Pos : TRUE)
    IN  Pos # {} /\ \E v \in OthersOf(new[t], t) : Len(Replica(new, t, v)) > Slots(v)

-----------------------------------------------------------------------------
\* Commands of u's pilot.

\* cch(MECH_USUALO) and the checks of every command of the network.
Able(u) == mapindex[u] # None /\ ~dead[u] /\ ~broken[u]

\* The command with "-": leave the network.
mech_c3_leave(u) ==
    LET valid == validateC3Network(net, u)
    IN  /\ Able(u)
        /\ net' = IF valid[u].size <= 0 THEN valid ELSE clearC3Network(valid, u, TRUE)
        /\ UNCHANGED <<fleet, team, mapindex, dead, broken, masters, overrun>>

\* Is there room for u in t's network?
HasRoom(ns, u, t) ==
    IF HasC3i(t) THEN ns[t].size < C3I_NETWORK_SIZE
    ELSE countMaxC3Units(u, SubSeq(ns[t].elem, 1, ns[t].size), <<t>>) >= ns[t].size + 1

\* The command with a target.
mech_c3_join(u, t) ==
    LET mine  == validateC3Network(net, u)
        valid == validateC3Network(mine, t)
    IN  /\ Able(u) /\ u # t
        /\ mine[u].size <= 0
        /\ mapindex[t] = mapindex[u] /\ team[t] = team[u]
        /\ ~dead[t] /\ SameKind(u, t)
        /\ LET fits == HasRoom(valid, u, t)
           IN  /\ net' = IF fits THEN addMechToC3Network(valid, t, u) ELSE valid
               /\ overrun' = (overrun \/ (fits /\ Overruns(valid, t, u)))
        /\ UNCHANGED <<fleet, team, mapindex, dead, broken, masters>>

\* Every other use (a message, the target list, the network's status), and a join
\* that is refused: the array is validated.
mech_c3_network(u) ==
    /\ Able(u)
    /\ net' = validateC3Network(net, u)
    /\ UNCHANGED <<fleet, team, mapindex, dead, broken, masters, overrun>>

-----------------------------------------------------------------------------
\* What happens to a unit.

\* The unit leaves its map, or enters another or the same again.  It is off the map
\* when its network is cleared, so no member is found to be told, and only its own
\* array is emptied.
mech_Rsetmapindex(u, m) ==
    /\ mapindex' = [mapindex EXCEPT ![u] = m]
    /\ net' = IF mapindex[u] # None THEN [net EXCEPT ![u] = Empty(u)] ELSE net
    /\ UNCHANGED <<fleet, team, dead, broken, masters, overrun>>

mech_Rsetteam(u, t) ==
    /\ mapindex[u] # None
    /\ t # team[u]
    /\ team' = [team EXCEPT ![u] = t]
    /\ UNCHANGED <<fleet, net, mapindex, dead, broken, masters, overrun>>

DestroyMech(u) ==
    /\ ~dead[u]
    /\ dead' = [dead EXCEPT ![u] = TRUE]
    /\ UNCHANGED <<fleet, net, team, mapindex, broken, masters, overrun>>

\* A critical hit on the C3i computer, on a C3 slave, or on a C3 master: only the
\* first tells the network.
HandleCrit(u) ==
    /\ ~dead[u] /\ ~broken[u]
    /\ IF fleet[u] \in {C3I, SLAVE}
       THEN broken' = [broken EXCEPT ![u] = TRUE] /\ UNCHANGED masters
       ELSE \E n \in 0..(masters[u] - 1) :
                /\ masters' = [masters EXCEPT ![u] = n]
                /\ broken' = [broken EXCEPT ![u] = (n = 0)]
    /\ net' = IF HasC3i(u) THEN clearC3Network(net, u, TRUE) ELSE net
    /\ UNCHANGED <<fleet, team, mapindex, dead, overrun>>

MastersOf(f) == [u \in Units |-> IF f[u] = C3I THEN 0 ELSE f[u]]

\* A full repair: the destroyed bits are taken from an undamaged copy.
do_magic(u) ==
    /\ dead[u] \/ broken[u] \/ masters[u] < MastersOf(fleet)[u]
    /\ dead' = [dead EXCEPT ![u] = FALSE]
    /\ broken' = [broken EXCEPT ![u] = FALSE]
    /\ masters' = [masters EXCEPT ![u] = MastersOf(fleet)[u]]
    /\ UNCHANGED <<fleet, net, team, mapindex, overrun>>

\* The units are read back after a restart: the C3i sizes become -1.
Restart ==
    /\ \E u \in Units : HasC3i(u) /\ net[u].size >= 0
    /\ net' = [u \in Units |-> IF HasC3i(u) THEN [net[u] EXCEPT !.size = -1] ELSE net[u]]
    /\ UNCHANGED <<fleet, team, mapindex, dead, broken, masters, overrun>>

Init ==
    /\ fleet \in Fleets
    /\ net = [u \in Units |-> Empty(u)]
    /\ team = [u \in Units |-> CHOOSE t \in Teams : TRUE]
    /\ mapindex = [u \in Units |-> CHOOSE m \in Maps : TRUE]
    /\ dead = [u \in Units |-> FALSE]
    /\ broken = [u \in Units |-> FALSE]
    /\ masters = MastersOf(fleet)
    /\ overrun = FALSE
    /\ settled = TRUE
    /\ left = MaxSteps

-----------------------------------------------------------------------------
\* The units u's array names.
Named(u) == {net[u].elem[i] : i \in 1..net[u].size}

\* The members u can really use: those of its array that are eligible, if u is.
InUse(u) == IF dead[u] \/ broken[u] THEN {} ELSE {v \in Named(u) : Linked(u, v)}

\* An array comes to life again: u can use a unit that its array named before, but
\* that it could not use.
Returned == \E u \in Units : Named(u) \cap (InUse(u)' \ InUse(u)) # {}

\* A working master left the array of some unit, or cannot be used from it any more.
LostMaster ==
    \/ \E u \in Units : masters[u]' < masters[u]
    \/ \E u \in Units : \E v \in InUse(u) \ InUse(u)' : masters[v] > 0

\* u is set to the map it is on, where somebody uses it and goes on to do so.
PutBack(u, m) == m # None /\ m = mapindex[u] /\ \E v \in Units : u \in InUse(v)

\* History: see settled.
Track(back) == settled' = (settled /\ ~Returned /\ ~LostMaster /\ ~back)

Next ==
    /\ left > 0
    /\ left' = left - 1
    /\ \/ /\ \/ \E u \in Units : \/ mech_c3_leave(u)
                                 \/ mech_c3_network(u)
                                 \/ DestroyMech(u)
                                 \/ HandleCrit(u)
                                 \/ do_magic(u)
             \/ \E u, t \in Units : mech_c3_join(u, t)
             \/ \E u \in Units, t \in Teams : mech_Rsetteam(u, t)
             \/ Restart
          /\ Track(FALSE)
       \/ \E u \in Units, m \in Maps \cup {None} :
             mech_Rsetmapindex(u, m) /\ Track(PutBack(u, m))

Spec == Init /\ [][Next]_vars

-----------------------------------------------------------------------------
\* Properties.

\* Every array in use is packed, without repetition and without its own unit: the
\* members are in the slots below the size field and nothing is in the others, which
\* getFreeC3NetworkPos and replicateC3Network rely on (mech.c3i.c:26, :46).  And no
\* copy has gone past an array's end: replicateC3Network copies the source and all
\* slots of its array, empty ones too, and stays inside only because the destination
\* is always named in the source's array (mech.c3i.c:59, mech.c3.c:318).
ArraysSound ==
    /\ TypeOK /\ ~overrun
    /\ \A u \in Units : net[u].size >= 0 =>
        LET n == net[u]
        IN  /\ \A i \in DOMAIN n.elem : (n.elem[i] # None) = (i <= n.size)
            /\ Cardinality(Named(u)) = n.size
            /\ u \notin Named(u)

\* "So that everyone has the same network settings" (mech.c3i.c:98): of two units one
\* of which uses the other, both use each other and the same third units - for as long
\* as no unit comes back (from another map or team, from repair, or from being set to
\* the map it is on, mech.restrict.c:136-145) while an array still names it, and no C3
\* network loses a master.
NetworksAgree ==
    settled => \A u \in Units : \A v \in InUse(u) :
        InUse(u) \cup {u} = InUse(v) \cup {v}

\* "can't be in two at the same time" (mech.c3i.c:255): two units that both use a
\* third are in one network, so they use each other.  The code does not keep this.
OneNetwork ==
    \A u, v \in Units : u # v /\ InUse(u) \cap InUse(v) # {} => v \in InUse(u)
=============================================================================
