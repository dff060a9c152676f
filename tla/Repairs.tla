------------------------------ MODULE Repairs ------------------------------
(* The repair of one 'Mech by any number of technicians (mech.tech*.c).    *)
(* A command pays for its materials, rolls, and schedules a tech event;    *)
(* the events of one unit end in any order, because each technician has a  *)
(* time of his own.  What keeps them apart is only what each command asks  *)
(* of the events under way.  A failed job is scheduled as very_fake_func,  *)
(* which does nothing, so that the time passes.  Saverepairs and           *)
(* loadrepairs carry the events across a restart.                          *)
(* Rolls are free choices.  Of a gun its first crit is kept, whether the   *)
(* remaining ones are lost, and which of them a hit has damaged; brands,   *)
(* ammo modes and times are not.                                           *)
EXTENDS Integers, FiniteSets, FiniteSetsExt, Functions

CONSTANTS
    Hull,       \* section -> [armor, rear, int], the values of an unhurt unit
    Fit,        \* part -> [loc, kind]: "gun", "big" (five crits or more), "part", "ammo"
    Scenarios   \* what a behaviour starts from: [sect, part, store, ops, steps]

Sections == DOMAIN Hull
Parts == DOMAIN Fit
Goods == {"armor", "internal", "electronic", "gun", "big", "part", "ammo"}
FULL == 2       \* rounds of a full ammo bin
LAST == 2       \* the crits of a gun after its first are counted to here

SectStates == [armor : Nat, rear : Nat, int : Nat, flooded : BOOLEAN]
PartStates == [mode : SUBSET {"destroyed", "disabled", "damaged"},
               rest : {"ok", "broken", "gone"}, worn : SUBSET (1..LAST),
               nuke : BOOLEAN, data : 0..FULL]
UnitStates == [sect : [Sections -> SectStates], part : [Parts -> PartStates],
               store : [Goods -> Nat]]

ASSUME HullAssumption ==
    /\ {"CTORSO", "LTORSO", "LARM"} \subseteq Sections
    /\ Hull \in [Sections -> [armor : Nat, rear : Nat, int : Nat]]
    /\ Fit \in [Parts -> [loc : Sections, kind : {"gun", "big", "part", "ammo"}]]
    /\ IsFiniteSet(Parts)

ASSUME ScenariosAssumption ==
    \A s \in Scenarios :
        /\ [sect |-> s.sect, part |-> s.part, store |-> s.store] \in UnitStates
        /\ \A l \in Sections : /\ s.sect[l].armor <= Hull[l].armor
                              /\ s.sect[l].rear <= Hull[l].rear
                              /\ s.sect[l].int <= Hull[l].int

\* What the list of damages takes for granted of a unit in service: arms have no armor at
\* the rear, every section has internals, the centre torso is there, parts are disabled by
\* water only, guns alone jam or take damage without being lost, and only ammo bins hold data.
Serviceable(u) ==
    /\ u.sect["CTORSO"].armor + u.sect["CTORSO"].int > 0
    /\ \A p \in Parts :
        LET c == u.part[p]
            s == u.sect[Fit[p].loc]
        IN  /\ "disabled" \in c.mode => s.flooded /\ s.armor + s.int > 0
            /\ "damaged" \in c.mode \/ c.worn # {} \/ c.nuke => Fit[p].kind \in {"gun", "big"}
            /\ Fit[p].kind # "ammo" => c.data = 0

ASSUME ServiceAssumption ==
    /\ Sections = {"CTORSO", "LTORSO", "LARM"} /\ Hull["LARM"].rear = 0
    /\ \A l \in Sections : Hull[l].int > 0
    /\ \A s \in Scenarios : Serviceable([sect |-> s.sect, part |-> s.part, store |-> s.store])
    /\ \A s \in Scenarios : \A p \in Parts :      \* DestroyWeapon takes damaged crits along
          "destroyed" \in s.part[p].mode => s.part[p].worn = {}

VARIABLES
    unit,       \* [sect, part, store]: the 'Mech and the materials at hand
    jobs,       \* the tech events under way
    power,      \* "off", "starting", "on"
    scenario, left

vars == <<unit, jobs, power, scenario, left>>

ops == scenario.ops
sect == unit.sect
part == unit.part
store == unit.store

Front(l) == <<l, 0>>
Rear(l) == <<l, 8>>
None == "none"

Loc(p) == Fit[p].loc
Kind(p) == Fit[p].kind
IsWeapon(p) == Kind(p) \in {"gun", "big"}
IsAmmo(p) == Kind(p) = "ammo"

-----------------------------------------------------------------------------
\* The unit.

SectIsDestroyed(u, l) == u.sect[l].armor = 0 /\ u.sect[l].int = 0
Destroyed(l) == SectIsDestroyed(unit, l)
Flooded(l) == sect[l].flooded

PartIsDestroyed(p) == "destroyed" \in part[p].mode
PartIsDisabled(p) == "disabled" \in part[p].mode
PartIsDamaged(p) == "damaged" \in part[p].mode
CritIsDamaged(p, n) == IF n = 0 THEN PartIsDamaged(p) ELSE n \in part[p].worn
PartIsNonfunctional(p) == PartIsDestroyed(p) \/ PartIsDisabled(p)

DestroyPart(c) == [c EXCEPT !.mode = {"destroyed"}, !.nuke = FALSE]
DestroyGun(c) == [DestroyPart(c) EXCEPT !.rest = "gone", !.worn = {}]
Wreck(p, c) == IF IsWeapon(p) THEN DestroyGun(c) ELSE DestroyPart(c)
mech_RepairPart(c) == [c EXCEPT !.mode = {}, !.nuke = FALSE, !.data = 0]
RepairGun(c) == [mech_RepairPart(c) EXCEPT !.rest = "ok", !.worn = {}]

\* The damage goes from the crit n that was hit, the jam from the first.
RepairEnhCrit(c, n) ==
    IF n = 0 THEN [c EXCEPT !.mode = @ \ {"damaged"}, !.nuke = FALSE]
             ELSE [c EXCEPT !.worn = @ \ {n}, !.nuke = FALSE]

Add(u, goods, n) == [u EXCEPT !.store[goods] = @ + n]

Razed(u, l) ==
    [u EXCEPT !.sect[l] = [@ EXCEPT !.armor = 0, !.rear = 0, !.int = 0],
              !.part = [p \in Parts |-> IF Loc(p) = l THEN Wreck(p, @[p]) ELSE @[p]]]

\* A section that is gone already is left alone, and a torso takes its arm along.
DestroySection(u, l) ==
    LET hurt(v, m) == IF SectIsDestroyed(v, m) THEN v ELSE Razed(v, m)
    IN  IF l = "LTORSO" /\ ~SectIsDestroyed(u, l) THEN hurt(hurt(u, l), "LARM") ELSE hurt(u, l)

mech_ReAttach(u, l) ==
    IF SectIsDestroyed(u, l)
    THEN [u EXCEPT !.sect[l] = [@ EXCEPT !.flooded = FALSE, !.int = Hull[l].int]]
    ELSE u

Dried(c) ==
    IF "disabled" \notin c.mode THEN c
    ELSE IF c.mode \cap {"destroyed", "damaged"} = {} THEN mech_RepairPart(c)
    ELSE [c EXCEPT !.mode = @ \ {"disabled"}]

mech_ReSeal(u, l) ==
    IF SectIsDestroyed(u, l) \/ ~u.sect[l].flooded THEN u
    ELSE [u EXCEPT !.sect[l].flooded = FALSE,
                   !.part = [p \in Parts |-> IF Loc(p) = l THEN Dried(@[p]) ELSE @[p]]]

-----------------------------------------------------------------------------
\* The tech events, and what the commands ask of them.

\* pos and crit name the slot: the part, and for a gun the offset from its first crit.
Job(type, fn, loc, pos, extra) ==
    [type |-> type, fn |-> fn, loc |-> loc, pos |-> pos, crit |-> 0, extra |-> extra]
PartJob(type, fn, p, extra) == Job(type, fn, Front(Loc(p)), p, extra)
SectJob(type, fn, l, extra) == Job(type, fn, Front(l), None, extra)
CritJob(type, fn, p, n) == [PartJob(type, fn, p, 0) EXCEPT !.crit = n]
Fake(j) == [j EXCEPT !.fn = "very_fake_func"]

\* The slot alone is compared: what is done to another crit of the same gun is not seen.
AtCrit(types, p, n) == \E j \in jobs : j.type \in types /\ j.pos = p /\ j.crit = n
AtPart(types, p) == AtCrit(types, p, 0)
AtLoc(types, loc) == \E j \in jobs : j.type \in types /\ j.loc = loc

Mending == {"RELO", "REPL", "REPLG", "REPAP", "REPENHCRIT"}
Scrapping == {"SCRP", "SCRG"}
SomeoneRepairing(p) == AtPart(Mending, p)
SomeoneScrappingPart(p) == AtPart(Scrapping, p)
SomeoneFixingA(loc) == AtLoc({"FIX"}, loc)
SomeoneFixingI(loc) == AtLoc({"FIXI"}, loc)
SomeoneFixing(loc) == SomeoneFixingA(loc) \/ SomeoneFixingI(loc)
SomeoneAttaching(l) == AtLoc({"REAT"}, Front(l))
SomeoneResealing(l) == AtLoc({"RESE"}, Front(l))
SomeoneScrappingLoc(loc) == AtLoc({"SCRL"}, loc)
CanScrapPart(p) == ~SomeoneRepairing(p)

\* Mutant: armor and internals under repair do not keep a section.
CanScrapLocFixing(l) == ~AtLoc({"REPL", "RELO"}, Front(l))
CanScrapLoc(l) == ~AtLoc({"REPL", "RELO"}, Front(l)) /\ ~SomeoneFixing(Front(l))

\* The section is there, dry, and not being taken off.
Sound(p) == ~Destroyed(Loc(p)) /\ ~Flooded(Loc(p)) /\ ~SomeoneScrappingLoc(Front(Loc(p)))

MayRemove(p) ==
    /\ ~Destroyed(Loc(p)) /\ ~PartIsDestroyed(p)
    /\ ~SomeoneScrappingPart(p) /\ CanScrapPart(p) /\ ~SomeoneScrappingLoc(Front(Loc(p)))

\* An arm goes before its torso; of the centre torso head and legs are never off here.
Invalid_Scrap_Path(l) == l = "CTORSO" \/ (l = "LTORSO" /\ ~Destroyed("LARM"))

MayRemoveSection(l) ==
    /\ ~Destroyed(l) /\ ~Invalid_Scrap_Path(l)
    /\ ~SomeoneScrappingLoc(Front(l)) /\ CanScrapLoc(l)

MayReplaceGun(p) ==
    /\ IsWeapon(p) /\ Sound(p) /\ ~SomeoneRepairing(p) /\ PartIsNonfunctional(p)

\* The gun can be mended: its first crit alone is lost, and it is a big one, or it is jammed.
Mendable(p) ==
    IF PartIsDestroyed(p) THEN Kind(p) = "big" /\ part[p].rest # "gone" ELSE part[p].nuke

\* Mutant: a gun that is being removed may be repaired.
MayRepairGunScrapped(p) ==
    /\ IsWeapon(p) /\ Sound(p) /\ ~SomeoneRepairing(p) /\ ~PartIsDisabled(p) /\ Mendable(p)

MayRepairGun(p) ==
    /\ IsWeapon(p) /\ Sound(p) /\ ~SomeoneRepairing(p) /\ ~SomeoneScrappingPart(p)
    /\ ~PartIsDisabled(p) /\ Mendable(p)

\* Any crit of the gun will do, and another of them may be under repair or the gun removed.
MayFixEnhCrit(p, n) ==
    /\ IsWeapon(p) /\ Sound(p) /\ ~AtCrit(Mending, p, n) /\ ~AtCrit(Scrapping, p, n)
    /\ ~PartIsDisabled(p) /\ CritIsDamaged(p, n)

MayReplacePart(p) ==
    /\ ~IsWeapon(p) /\ Sound(p) /\ ~SomeoneRepairing(p) /\ PartIsNonfunctional(p)

MayHandleAmmo(p) ==
    /\ IsAmmo(p) /\ Sound(p) /\ ~SomeoneRepairing(p) /\ ~PartIsNonfunctional(p)

MayReload(p) == MayHandleAmmo(p) /\ part[p].data # FULL
MayUnload(p) == MayHandleAmmo(p) /\ part[p].data # 0

ArmorLack(loc) ==
    LET l == loc[1] IN IF loc[2] = 8 THEN Hull[l].rear - sect[l].rear
                                     ELSE Hull[l].armor - sect[l].armor
IntLack(l) == Hull[l].int - sect[l].int

\* loc is a section's front or rear; no event that takes a section off is of its rear.
MayFixArmor(loc) ==
    LET l == loc[1]
    IN  /\ ~Destroyed(l) /\ ~Flooded(l)
        /\ ~SomeoneFixingA(loc) /\ ~SomeoneFixingI(Front(l))
        /\ IntLack(l) = 0
        /\ ~SomeoneScrappingLoc(loc)
        /\ ArmorLack(loc) > 0

MayFixInternal(l) ==
    /\ IntLack(l) # 0 /\ ~Destroyed(l) /\ ~Flooded(l)
    /\ ~SomeoneFixing(Front(l)) /\ ~SomeoneScrappingLoc(Front(l))

Invalid_Repair_Path(l) ==
    \/ l = "LTORSO" /\ Destroyed("CTORSO")
    \/ l = "LARM" /\ Destroyed("LTORSO")

unit_is_fixable == ~Destroyed("CTORSO")

MayReattach(l) ==
    /\ Destroyed(l) /\ ~Invalid_Repair_Path(l) /\ ~SomeoneAttaching(l) /\ unit_is_fixable

MayReseal(l) ==
    /\ ~Destroyed(l) /\ Flooded(l) /\ ~Invalid_Repair_Path(l) /\ ~SomeoneResealing(l)

-----------------------------------------------------------------------------
\* The commands of the technicians: a cost gives the amounts of some goods.

Affords(cost) == \A g \in DOMAIN cost : store[g] >= cost[g]
Paid(cost) ==
    [unit EXCEPT !.store = [g \in Goods |-> IF g \in DOMAIN cost THEN @[g] - cost[g] ELSE @[g]]]

\* STARTREPAIR and FAKEREPAIR: the materials are settled, the event is under way.
Start(settled, job) ==
    /\ unit' = settled /\ jobs' = jobs \cup {job} /\ UNCHANGED power

tech_removegun(p) ==
    /\ IsWeapon(p) /\ MayRemove(p)
    /\ LET job == PartJob("SCRG", "removegun", p, 2)
       IN  Start(unit, job) \/ Start(unit, Fake(job))

tech_removepart(p) ==
    /\ ~IsWeapon(p) /\ MayRemove(p)
    /\ LET job(mod) == PartJob("SCRP", "removepart", p, mod)
       IN  Start(unit, job(2)) \/ Start(unit, Fake(job(3)))

tech_removesection(l) ==
    /\ MayRemoveSection(l)
    /\ \E mod \in {2, 3} : Start(unit, SectJob("SCRL", "removesection", l, mod))

\* A botched replacement may save the gun; either way nothing is mounted.
tech_replacegun(p) ==
    LET cost == [g \in {Kind(p)} |-> 1]
        job == PartJob("REPLG", "replacegun", p, 0)
    IN  /\ MayReplaceGun(p) /\ Affords(cost)
        /\ \/ Start(Paid(cost), job)
           \/ \E saved \in 0..1 : Start(Add(Paid(cost), Kind(p), saved), Fake(job))

\* Botching the repair of a big gun's first crit loses the next one too.
tech_repairgun(p) ==
    LET n == IF PartIsDestroyed(p) THEN 3 ELSE 1
        cost == [electronic |-> n, internal |-> n]
        job == PartJob("REPAP", "repairgun", p, 0)
    IN  /\ MayRepairGun(p) /\ Affords(cost)
        /\ \/ Start(Paid(cost), job)
           \/ Start([Paid(cost) EXCEPT !.part[p].rest = IF PartIsDestroyed(p) THEN "gone" ELSE @],
                    Fake(job))

tech_fixenhcrit(p, n) ==
    LET cost == [electronic |-> 1]
        job == CritJob("REPENHCRIT", "repairenhcrit", p, n)
    IN  /\ MayFixEnhCrit(p, n) /\ Affords(cost)
        /\ Start(Paid(cost), job) \/ Start(Paid(cost), Fake(job))

\* An ammo bin costs nothing to replace.
tech_replacepart(p) ==
    LET cost == [g \in {"part"} \ (IF IsAmmo(p) THEN {"part"} ELSE {}) |-> 1]
        job == PartJob("REPL", "repairpart", p, 0)
    IN  /\ MayReplacePart(p) /\ Affords(cost)
        /\ Start(Paid(cost), job) \/ Start(Paid(cost), Fake(job))

\* Naming an ammo type empties the bin before the ton of ammo is looked for.
tech_reload(p) ==
    LET cost == [ammo |-> 1]
        job == PartJob("RELO", "reload", p, 0)
    IN  /\ MayReload(p)
        /\ \E typed \in BOOLEAN :
             LET emptied(u) == [u EXCEPT !.part[p].data = IF typed THEN 0 ELSE @]
             IN  \/ /\ Affords(cost)
                    /\ Start(emptied(Paid(cost)), job) \/ Start(emptied(Paid(cost)), Fake(job))
                 \/ /\ ~Affords(cost) /\ typed
                    /\ unit' = emptied(unit) /\ UNCHANGED <<jobs, power>>

tech_unload(p) ==
    /\ MayUnload(p)
    /\ Start(unit, PartJob("RELO", "reload", p, IF part[p].data = FULL THEN 2 ELSE 1))

\* What a failure leaves of n points: a percentage, but at least one and not all.
Portion(percents, n) ==
    {LET t == (pc * n) \div 100
         m == IF t = 0 THEN 1 ELSE t
     IN  IF m = n THEN n - 1 ELSE m : pc \in percents}

Patched(n) == {n} \cup Portion(5..44 \cup 55..94, n)

tech_fixarmor(loc) ==
    LET cost == [armor |-> ArmorLack(loc)]
    IN  /\ MayFixArmor(loc) /\ Affords(cost)
        /\ \E change \in Patched(ArmorLack(loc)) :
             Start(Paid(cost), Job("FIX", "repairarmor", loc, None, change))

tech_fixinternal(l) ==
    LET cost == [internal |-> IntLack(l)]
    IN  /\ MayFixInternal(l) /\ Affords(cost)
        /\ \E change \in Patched(IntLack(l)) :
             Start(Paid(cost), SectJob("FIXI", "repairinternal", l, change))

\* Reattaching and resealing: a second failure returns part of the materials.
Rebuild(job, l) ==
    LET n == Hull[l].int
        cost == [internal |-> n, electronic |-> n]
    IN  /\ Affords(cost)
        /\ \/ Start(Paid(cost), job)
           \/ \E tot \in Portion(5..94, n) :
                Start(Add(Add(Paid(cost), "electronic", tot), "internal", tot), Fake(job))

tech_reattach(l) == MayReattach(l) /\ Rebuild(SectJob("REAT", "reattach", l, 0), l)
tech_reseal(l) == MayReseal(l) /\ Rebuild(SectJob("RESE", "reseal", l, 0), l)

-----------------------------------------------------------------------------
\* The ends of the tech events.

event_mech_removesection(u, l, extra) ==
    LET s == u.sect[l]
        salvaged == Add(Add(Add(u, "internal", (2 * s.int) \div extra),
                            "armor", (2 * s.armor) \div extra),
                        "electronic", s.int \div extra)
    IN  DestroySection(salvaged, l)

event_mech_removed(u, p, extra) ==
    Add([u EXCEPT !.part[p] = Wreck(p, @)],
        Kind(p), IF extra = 2 THEN 1 ELSE 0)

event_mech_repairarmor(u, loc) ==
    LET l == loc[1]
    IN  IF loc[2] = 8 THEN [u EXCEPT !.sect[l].rear = Min({@ + 1, Hull[l].rear})]
                      ELSE [u EXCEPT !.sect[l].armor = Min({@ + 1, Hull[l].armor})]

event_mech_reload(u, p, extra) ==
    CASE extra = 0 -> [u EXCEPT !.part[p].data = FULL]
      [] extra = 1 -> [u EXCEPT !.part[p].data = 0]
      [] OTHER -> Add([u EXCEPT !.part[p].data = 0], "ammo", 1)

\* The unit after the event j.
Outcome(u, j) ==
    LET l == j.loc[1]
    IN  CASE j.fn = "removesection" -> event_mech_removesection(u, l, j.extra)
          [] j.fn \in {"removegun", "removepart"} -> event_mech_removed(u, j.pos, j.extra)
          [] j.fn = "repairarmor" -> event_mech_repairarmor(u, j.loc)
          [] j.fn = "repairinternal" -> [u EXCEPT !.sect[l].int = Min({@ + 1, Hull[l].int})]
          [] j.fn = "reattach" -> mech_ReAttach(u, l)
          [] j.fn = "reseal" -> mech_ReSeal(u, l)
          [] j.fn \in {"replacegun", "repairgun"} -> [u EXCEPT !.part[j.pos] = RepairGun(@)]
          [] j.fn = "repairenhcrit" -> [u EXCEPT !.part[j.pos] = RepairEnhCrit(@, j.crit)]
          [] j.fn = "repairpart" -> [u EXCEPT !.part[j.pos] = mech_RepairPart(@)]
          [] j.fn = "reload" -> event_mech_reload(u, j.pos, j.extra)
          [] j.fn = "very_fake_func" -> u

\* Armor and internals are mended a point at a time, each by an event of its own.
Sequel(j) ==
    {[j EXCEPT !.extra = n] : n \in {m \in {j.extra - 1} :
        m > 0 /\ j.fn \in {"repairarmor", "repairinternal"}}}

TechEvent(j) ==
    /\ unit' = Outcome(unit, j)
    /\ jobs' = (jobs \ {j}) \cup Sequel(j)
    /\ UNCHANGED power

-----------------------------------------------------------------------------
\* The pilot, and the restart of the game.

mech_startup ==
    /\ power = "off" /\ jobs = {}
    /\ power' = "starting" /\ UNCHANGED <<unit, jobs>>

mech_startup_event == power = "starting" /\ power' = "on" /\ UNCHANGED <<unit, jobs>>
mech_shutdown == power # "off" /\ power' = "off" /\ UNCHANGED <<unit, jobs>>

Restored(type) ==
    [REPL |-> "repairpart", REPLG |-> "replacegun", REPAP |-> "repairpart",
     REPENHCRIT |-> "repairenhcrit", REAT |-> "reattach", RELO |-> "reload",
     FIX |-> "repairarmor", FIXI |-> "repairinternal", SCRL |-> "removesection",
     SCRG |-> "removegun", SCRP |-> "removepart"][type]

\* Mutant: the sign that marks a failed job is not looked at.
LoadedUnsigned(js) ==
    {[j EXCEPT !.fn = Restored(j.type)] : j \in {k \in js : k.type # "RESE"}}

\* loadrepairs chooses the function by the event's type; for RESE it has none.
Loaded(js) ==
    {j \in js : j.fn = "very_fake_func"}
    \cup {[j EXCEPT !.fn = Restored(j.type)] :
            j \in {k \in js : k.fn # "very_fake_func" /\ k.type # "RESE"}}

Restart ==
    /\ jobs' = Loaded(jobs)
    /\ power' = IF power = "starting" THEN "off" ELSE power
    /\ UNCHANGED unit

-----------------------------------------------------------------------------
Init ==
    /\ scenario \in Scenarios
    /\ unit = [sect |-> scenario.sect, part |-> scenario.part, store |-> scenario.store]
    /\ jobs = {} /\ power = "off"
    /\ left = scenario.steps

OnPart(p) ==
    \/ "scrap" \in ops /\ (tech_removegun(p) \/ tech_removepart(p))
    \/ tech_replacegun(p) \/ tech_repairgun(p) \/ tech_replacepart(p) \/ tech_reload(p)
    \/ \E n \in 0..LAST : tech_fixenhcrit(p, n)
    \/ "scrap" \in ops /\ tech_unload(p)

OnSection(l) ==
    \/ "scrap" \in ops /\ tech_removesection(l)
    \/ tech_fixarmor(Front(l)) \/ tech_fixarmor(Rear(l)) \/ tech_fixinternal(l)
    \/ tech_reattach(l) \/ tech_reseal(l)

\* A command of a technician: the unit is shut down and its startup not under way.
Tech ==
    /\ power = "off"
    /\ \/ \E p \in Parts : OnPart(p)
       \/ \E l \in Sections : OnSection(l)

Next ==
    /\ left > 0 /\ left' = left - 1 /\ UNCHANGED scenario
    /\ \/ Tech
       \/ \E j \in jobs : TechEvent(j)
       \/ "power" \in ops /\ (mech_startup \/ mech_startup_event \/ mech_shutdown)
       \/ "restart" \in ops /\ Restart

Spec == Init /\ [][Next]_vars

-----------------------------------------------------------------------------
\* The list of damages, from which `fix' starts the jobs.

Entry(what, loc, pos) == [what |-> what, loc |-> loc, pos |-> pos, crit |-> 0]

\* A gun whose first crit works and whose others do not is listed by one of the others, of
\* which `fix' mends only a damaged one.  (The line of a later crit can hide those of the
\* next slots, and of several damaged crits the first alone is listed; here all are.)
Hurt(p) == PartIsNonfunctional(p) \/ part[p].nuke \/ PartIsDamaged(p)

PartDamages(p) ==
    LET entry(what) == {Entry(what, Front(Loc(p)), p)}
    IN  (IF IsAmmo(p) /\ ~PartIsDestroyed(p) /\ part[p].data # FULL THEN entry("RELOAD") ELSE {})
        \cup (CASE ~Hurt(p) /\ part[p].rest # "ok" -> entry("MIDDLE")
                [] ~Hurt(p) /\ part[p].rest = "ok" ->
                      {[Entry("ENHCRIT", Front(Loc(p)), p) EXCEPT !.crit = n] : n \in part[p].worn}
                [] PartIsDamaged(p) -> entry("ENHCRIT")
                [] Hurt(p) /\ ~PartIsDamaged(p) /\ Kind(p) = "big" /\ part[p].rest # "gone" ->
                      entry("REPAIRP_T")
                [] OTHER -> entry(IF IsWeapon(p) THEN "REPAIRG" ELSE "REPAIRP"))

HullDamages(l) ==
    IF IntLack(l) # 0 THEN {Entry("FIXINTERNAL", Front(l), None)}
    ELSE {Entry("FIXARMOR", loc, None) : loc \in {k \in {Front(l), Rear(l)} : ArmorLack(k) # 0}}

check_for_damage(l) ==
    IF Destroyed(l) THEN {Entry("REATTACH", Front(l), None)}
    ELSE IF Flooded(l) THEN {Entry("RESEAL", Front(l), None)}
    ELSE HullDamages(l) \cup UNION {PartDamages(p) : p \in {q \in Parts : Loc(q) = l}}

Whole(l) == ~Destroyed(l) /\ ~Flooded(l)

make_damage_table ==
    UNION {check_for_damage(l) : l \in {"CTORSO"}
        \cup (IF Whole("CTORSO") THEN {"LTORSO"} ELSE {})
        \cup (IF Whole("CTORSO") /\ Whole("LTORSO") THEN {"LARM"} ELSE {})}

\* Mutant: repairs of rear armor are looked for at the front.
is_under_repair_Front(e) ==
    CASE e.what = "REATTACH" -> SomeoneAttaching(e.loc[1])
      [] e.what = "RESEAL" -> SomeoneResealing(e.loc[1])
      [] e.what \in {"FIXARMOR", "FIXINTERNAL"} -> SomeoneFixing(Front(e.loc[1]))
      [] OTHER -> AtCrit(Mending, e.pos, e.crit)

is_under_repair(e) ==
    CASE e.what = "REATTACH" -> SomeoneAttaching(e.loc[1])
      [] e.what = "RESEAL" -> SomeoneResealing(e.loc[1])
      [] e.what \in {"FIXARMOR", "FIXINTERNAL"} -> SomeoneFixing(e.loc)
      [] OTHER -> AtCrit(Mending, e.pos, e.crit)

\* The command that the entry stands for is accepted.
fix_entry(e) ==
    CASE e.what = "REPAIRP_T" -> MayRepairGun(e.pos)
      [] e.what = "ENHCRIT" -> MayFixEnhCrit(e.pos, e.crit)
      [] e.what = "REPAIRG" -> MayReplaceGun(e.pos)
      [] e.what = "REPAIRP" -> MayReplacePart(e.pos)
      [] e.what = "RELOAD" -> MayReload(e.pos)
      [] e.what = "REATTACH" -> MayReattach(e.loc[1])
      [] e.what = "RESEAL" -> MayReseal(e.loc[1])
      [] e.what = "FIXARMOR" -> MayFixArmor(e.loc)
      [] e.what = "FIXINTERNAL" -> MayFixInternal(e.loc[1])
      [] e.what = "MIDDLE" -> FALSE

-----------------------------------------------------------------------------
\* Properties.

TypeOK == unit \in UnitStates /\ power \in {"off", "starting", "on"}

Once(types, loc) == Cardinality({j \in jobs : j.type \in types /\ j.loc = loc}) <= 1

\* While jobs are under way the unit stays shut down; no two jobs mend the same crit, or take
\* off the same part or side of a section; the first crit of a gun is not mended while the gun
\* is removed, and a section is not taken off while its front, its internals or its parts are
\* being made good.  (Of a gun under removal a later crit that was hit may be mended, in either
\* order, and so may two crits of one gun: the commands compare single slots.)
JobsExclusive ==
    /\ TypeOK
    /\ jobs # {} => power = "off"
    /\ \A p \in Parts :
         /\ \A n \in 0..LAST :
               Cardinality({j \in jobs : j.pos = p /\ j.crit = n /\ j.type \in Mending}) <= 1
         /\ Cardinality({j \in jobs : j.pos = p /\ j.type \in Scrapping}) <= 1
         /\ ~(AtPart({"REPAP", "REPENHCRIT"}, p) /\ SomeoneScrappingPart(p))
    /\ \A l \in Sections :
         /\ Once({"FIX", "FIXI", "SCRL"}, Front(l)) /\ Once({"FIX"}, Rear(l))
         /\ Once({"REAT"}, Front(l)) /\ Once({"RESE"}, Front(l))
         /\ ~(SomeoneScrappingLoc(Front(l)) /\ AtLoc({"REPL", "RELO"}, Front(l)))

Real(type) == {j \in jobs : j.type = type /\ j.fn # "very_fake_func"}

\* The gun or part in its place, or what can be made one again.
Present(c, kind) == "destroyed" \notin c.mode \/ (kind = "big" /\ c.rest # "gone")

Fitted(u, kind) ==
    u.store[kind] + Cardinality({p \in Parts : Kind(p) = kind /\ Present(u.part[p], kind)})
ArmorOf(u) ==
    u.store["armor"] + SumFunction([l \in Sections |-> u.sect[l].armor + u.sect[l].rear])
IntOf(u) == u.store["internal"] + SumFunction([l \in Sections |-> u.sect[l].int])
Points(js) == SumFunction([j \in js |-> Max({1, j.extra})])
Internals(js) == SumFunction([j \in js |-> Hull[j.loc[1]].int])

\* No order of the technicians' jobs, and no restart, makes guns, parts, armor or internals
\* out of nothing: what is stored, mounted and paid for never exceeds what there was.
\* (Ammo is left out: the code gives a ton for any bin, and a new bin for nothing.)
MaterialsConserved ==
    LET first == [sect |-> scenario.sect, part |-> scenario.part, store |-> scenario.store]
        pending(kind) ==
            Cardinality({j \in Real("REPLG") \cup Real("REPL") : Kind(j.pos) = kind})
    IN  /\ \A kind \in {"gun", "big", "part"} : Fitted(unit, kind) + pending(kind) <= Fitted(first, kind)
        /\ ArmorOf(unit) + Points(Real("FIX")) <= ArmorOf(first)
        /\ IntOf(unit) + Points(Real("FIXI")) + Internals(Real("REAT")) <= IntOf(first)

\* What keeps a job of the list from being started though nobody works on it: it is being
\* taken off, or, a weakness of the list, it is a small gun that is only jammed (replacegun
\* finds it in order), or the second half of a gun whose repair a restart cut short.
Deferred(e) ==
    \/ SomeoneScrappingLoc(Front(e.loc[1]))
    \/ AtCrit(Scrapping, e.pos, e.crit)
    \/ e.what = "REPAIRG" /\ ~PartIsNonfunctional(e.pos)
    \/ e.what = "MIDDLE"

Pristine ==
    /\ \A l \in Sections : sect[l] = [armor |-> Hull[l].armor, rear |-> Hull[l].rear,
                                      int |-> Hull[l].int, flooded |-> FALSE]
    /\ \A p \in Parts : part[p] = [mode |-> {}, rest |-> "ok", worn |-> {}, nuke |-> FALSE,
                                   data |-> IF IsAmmo(p) THEN FULL ELSE 0]

\* Every line that the list of damages shows as still to be done is one that `fix' can start,
\* whatever else is under way, and a unit with an empty list is as good as new.
TableExact ==
    power = "off" =>
        /\ \A e \in make_damage_table : is_under_repair(e) \/ fix_entry(e) \/ Deferred(e)
        /\ make_damage_table = {} => Pristine

RestOK(p) == part[p].rest = "ok" /\ part[p].worn = {}

Same(j, k) == Outcome(unit, k) = Outcome(unit, j) /\ [k EXCEPT !.fn = j.fn] = j

\* A restart keeps every job, and a failed one stays failed, except that a job of resealing
\* is lost and the repair of a gun mends its first crit only, not the others that need it.
RestartKeeps ==
    /\ \A j \in jobs :
         \/ \E k \in Loaded(jobs) : Same(j, k)
         \/ j.type = "RESE" \/ (j.type = "REPAP" /\ ~RestOK(j.pos))
    /\ \A k \in Loaded(jobs) : \E j \in jobs : [k EXCEPT !.fn = j.fn] = j

\* What glue.c says of the repairs that a restart used to finish at once: there is no longer
\* any need, because saverepairs and loadrepairs bring each of them back.
RepairsSaved == \A j \in jobs : \E k \in Loaded(jobs) : Same(j, k)
=============================================================================
