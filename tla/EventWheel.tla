----------------------------- MODULE EventWheel -----------------------------
(***************************************************************************)
(* The timed-event library, event/event.c.  Every unit, map, autopilot and  *)
(* repair of the game is driven by it: once a second UpdateSpecialObjects   *)
(* calls event_run, which advances event_tick and calls back every event    *)
(* that is due.                                                             *)
(*                                                                          *)
(* An EVENT block is linked into three lists at once: the main list, the    *)
(* list of its type and one slot of a wheel of LOOKAHEAD_STACK_SIZE slots;  *)
(* a cancelled event is only marked (FLAG_ZOMBIE) and unlinked when the     *)
(* wheel next passes its slot; an unlinked block goes to a free list and is *)
(* reused.  While event_run is inside a callback the callback may schedule  *)
(* and cancel events, including the ones the loop has not reached yet.  One *)
(* step of the model is one iteration of the loop, one callback's return or *)
(* one call of the library.                                                 *)
(*                                                                          *)
(* Every caller in the tree passes flags = 0 to event_add, so the branches  *)
(* of event_delete that free the data pointers are not modelled and the     *)
(* flags of a block are its zombie bit.                                     *)
(***************************************************************************)
EXTENDS Integers, Sequences, FiniteSets, SequencesExt

CONSTANTS
    Events,                \* the EVENT blocks malloc can hand out
    NULL,                  \* the null pointer
    Data, Data2,           \* what e->data and e->data2 may point to
    MaxType,               \* event types are 0..MaxType
    LOOKAHEAD_STACK_SIZE,  \* slots of the wheel (70 in event.h)
    MaxDelay,              \* bound: largest delay asked for
    MaxTick,               \* bound: the run stops at this tick
    MaxScheduled           \* bound: number of event_add calls

ASSUME EventsAssumption == NULL \notin Events
ASSUME SizeAssumption == LOOKAHEAD_STACK_SIZE \in Nat \ {0}
ASSUME BoundsAssumption ==
    /\ MaxType \in Nat
    /\ MaxDelay \in Nat
    /\ MaxTick \in Nat
    /\ MaxScheduled \in Nat

VARIABLES
    event_tick,           \* present time
    block,                \* the fields of every EVENT block
    event_stack,          \* the wheel: a list of events for each slot
    event_list,           \* main list
    event_first_in_type,  \* a list for each type up to last_event_type
    last_event_type,
    event_free_list,
    events_scheduled, events_executed, events_zombies,
    run                   \* where event_run or event_run_by_type stands

lists == <<event_stack, event_list, event_first_in_type, last_event_type,
           event_free_list>>
vars == <<event_tick, block, lists, events_scheduled, events_executed,
          events_zombies, run>>

Types == 0..MaxType
Slots == 0..(LOOKAHEAD_STACK_SIZE - 1)

(* The scheduled blocks are the ones on the main list. *)
Scheduled == ToSet(event_list)

Zombie(e) == block[e].zombie

(* LoopType and LoopEvent skip the zombies. *)
Live(e) == e \in Scheduled /\ ~Zombie(e)

(* event_counter: the slot that event_run works on. *)
Slot(tick) == tick % LOOKAHEAD_STACK_SIZE

(* The lists as sequences: where a block is, the block its link points to,  *)
(* ADD_TO_LIST_HEAD and ADD_TO_BIDIR_LIST_HEAD, REMOVE_FROM_LIST and        *)
(* REMOVE_FROM_BIDIR_LIST, and the pointer to the first block.              *)
At(list, e) == CHOOSE i \in DOMAIN list : list[i] = e
NextIn(list, e) ==
    IF At(list, e) < Len(list) THEN list[At(list, e) + 1] ELSE NULL
Link(list, e) == <<e>> \o list
Unlink(list, e) == RemoveAt(list, At(list, e))
FirstOf(list) == IF list = <<>> THEN NULL ELSE Head(list)

(* The blocks a loop standing at e has still to visit, e included. *)
Ahead(list, e) ==
    {list[i] : i \in {j \in DOMAIN list : e # NULL /\ j >= At(list, e)}}

Idle == run.pc = "idle"
InCallback == run.pc \in {"call", "typecall"}
-----------------------------------------------------------------------------
(* A block malloc has not handed out yet. *)
Fresh == Events \ (Scheduled \cup ToSet(event_free_list))

(* The realloc of event_first_in_type when a larger type is seen. *)
GrowTypes(type) ==
    [t \in 0..(IF type > last_event_type THEN type ELSE last_event_type) |->
        IF t <= last_event_type THEN event_first_in_type[t] ELSE <<>>]

(* Mutant: a delay of zero is taken as it is. *)
DelayUnclamped(time) == time

(* An event cannot be asked for sooner than the next tick. *)
Delay(time) == IF time < 1 THEN 1 ELSE time

event_add(time, type, data, data2) ==
    LET tick  == event_tick + Delay(time)
        grown == GrowTypes(type)
    IN  /\ Idle \/ InCallback
        /\ events_scheduled < MaxScheduled
        /\ tick <= MaxTick
        /\ events_scheduled' = events_scheduled + 1
        /\ last_event_type' =
             IF type > last_event_type THEN type ELSE last_event_type
        /\ \E e \in Events :
             /\ IF event_free_list # <<>>
                  THEN /\ e = Head(event_free_list)
                       /\ event_free_list' = Tail(event_free_list)
                  ELSE /\ e \in Fresh
                       /\ UNCHANGED event_free_list
             /\ block' = [block EXCEPT ![e] =
                  [zombie |-> FALSE, type |-> type, data |-> data,
                   data2 |-> data2, tick |-> tick]]
             /\ event_list' = Link(event_list, e)
             /\ event_first_in_type' = [grown EXCEPT ![type] = Link(@, e)]
             /\ event_stack' = [event_stack EXCEPT ![Slot(tick)] = Link(@, e)]
        /\ UNCHANGED <<event_tick, events_executed, events_zombies, run>>

(* Mutant: the block stays on the list of its type. *)
event_delete_TypeKept(e, fp) ==
    /\ event_list' = Unlink(event_list, e)
    /\ event_stack' = [event_stack EXCEPT ![fp] = Unlink(@, e)]
    /\ event_free_list' = Link(event_free_list, e)
    /\ UNCHANGED <<block, event_first_in_type, last_event_type>>

(* event_delete: unlink a block everywhere and recycle it. *)
event_delete(e, fp) ==
    /\ event_list' = Unlink(event_list, e)
    /\ event_first_in_type' =
         [event_first_in_type EXCEPT ![block[e].type] = Unlink(@, e)]
    /\ event_stack' = [event_stack EXCEPT ![fp] = Unlink(@, e)]
    /\ event_free_list' = Link(event_free_list, e)
    /\ UNCHANGED <<block, last_event_type>>

(* Mutant: cancelling an event unlinks and recycles its block at once. *)
CancelNow(doomed) ==
    /\ Idle \/ InCallback
    /\ \E e \in doomed : event_delete(e, Slot(block[e].tick))
    /\ events_zombies' = events_zombies + 1
    /\ UNCHANGED <<event_tick, events_scheduled, events_executed, run>>

(* Cancellation only marks the blocks. *)
MarkZombies(doomed) ==
    /\ Idle \/ InCallback
    /\ block' = [e \in Events |-> IF e \in doomed
                                   THEN [block[e] EXCEPT !.zombie = TRUE]
                                   ELSE block[e]]
    /\ UNCHANGED <<event_tick, lists, events_scheduled, events_executed,
                   events_zombies, run>>

event_remove_data(data) ==
    MarkZombies({e \in Scheduled : block[e].data = data})

(* The three removals by type walk the list of the type, if there is one. *)
OfType(type) ==
    IF type > last_event_type THEN {} ELSE ToSet(event_first_in_type[type])

event_remove_type_data(type, data) ==
    MarkZombies({e \in OfType(type) : block[e].data = data})

event_remove_type_data2(type, data2) ==
    MarkZombies({e \in OfType(type) : block[e].data2 = data2})

event_remove_type_data_data(type, data, data2) ==
    MarkZombies({e \in OfType(type) : /\ block[e].data = data
                                      /\ block[e].data2 = data2})
-----------------------------------------------------------------------------
(* event_run: advance the tick and start on the slot's list. *)
event_run ==
    /\ Idle
    /\ event_tick < MaxTick
    /\ event_tick' = event_tick + 1
    /\ run' = [run EXCEPT !.pc = "scan",
                          !.e = FirstOf(event_stack[Slot(event_tick + 1)])]
    /\ UNCHANGED <<block, lists, events_scheduled, events_executed,
                   events_zombies>>

(* Mutant: the zombie bit is not looked at. *)
RunVisitZombies ==
    LET e2 == NextIn(event_stack[Slot(event_tick)], run.e)
    IN  /\ run.pc = "scan"
        /\ run.e # NULL
        /\ run' = IF block[run.e].tick > event_tick
                    THEN [run EXCEPT !.e = e2]
                    ELSE [run EXCEPT !.pc = "call", !.e2 = e2]
        /\ UNCHANGED <<event_tick, block, lists, events_scheduled,
                       events_executed, events_zombies>>

(* One iteration of its loop: e2 is read before anything else happens.    *)
(* A live event of a later revolution is passed over, a due one is called *)
(* back, a zombie is deleted whatever its tick.                           *)
RunVisit ==
    LET e  == run.e
        e2 == NextIn(event_stack[Slot(event_tick)], e)
    IN  /\ run.pc = "scan"
        /\ e # NULL
        /\ UNCHANGED <<event_tick, events_scheduled, events_executed>>
        /\ \/ /\ block[e].tick > event_tick
              /\ ~Zombie(e)
              /\ run' = [run EXCEPT !.e = e2]
              /\ UNCHANGED <<block, lists, events_zombies>>
           \/ /\ block[e].tick <= event_tick
              /\ ~Zombie(e)
              /\ run' = [run EXCEPT !.pc = "call", !.e2 = e2]
              /\ UNCHANGED <<block, lists, events_zombies>>
           \/ /\ Zombie(e)
              /\ events_zombies' = events_zombies + 1
              /\ event_delete(e, Slot(event_tick))
              /\ run' = [run EXCEPT !.e = e2]

(* Mutant: an event that cancelled itself is not counted. *)
RunReturnUncounted ==
    /\ run.pc = "call"
    /\ event_delete(run.e, Slot(event_tick))
    /\ events_executed' = IF Zombie(run.e) THEN events_executed
                                          ELSE events_executed + 1
    /\ run' = [run EXCEPT !.pc = "scan", !.e = run.e2, !.e2 = NULL]
    /\ UNCHANGED <<event_tick, events_scheduled, events_zombies>>

(* e->function(e) returns: the block is deleted and the loop goes on from  *)
(* the e2 it read before the call.                                         *)
RunReturn ==
    /\ run.pc = "call"
    /\ events_executed' = events_executed + 1
    /\ event_delete(run.e, Slot(event_tick))
    /\ run' = [run EXCEPT !.pc = "scan", !.e = run.e2, !.e2 = NULL]
    /\ UNCHANGED <<event_tick, events_scheduled, events_zombies>>

RunDone ==
    /\ run.pc = "scan"
    /\ run.e = NULL
    /\ run' = [run EXCEPT !.pc = "idle"]
    /\ UNCHANGED <<event_tick, block, lists, events_scheduled,
                   events_executed, events_zombies>>
-----------------------------------------------------------------------------
(* event_run_by_type: call back every live event of a type at once, due or *)
(* not; an event that ran is left in place as a zombie.  Its callers       *)
(* (@shutdown, @restart) run outside event_run.                            *)
event_run_by_type(type) ==
    /\ Idle
    /\ type <= last_event_type
    /\ run' = [run EXCEPT !.pc = "typescan",
                          !.e = FirstOf(event_first_in_type[type])]
    /\ UNCHANGED <<event_tick, block, lists, events_scheduled,
                   events_executed, events_zombies>>

NextInType(e) == NextIn(event_first_in_type[block[e].type], e)

(* Mutant: the loop does not step past a zombie. *)
TypeVisitStuck ==
    /\ run.pc = "typescan"
    /\ run.e # NULL
    /\ run' = IF Zombie(run.e) THEN run ELSE [run EXCEPT !.pc = "typecall"]
    /\ UNCHANGED <<event_tick, block, lists, events_scheduled,
                   events_executed, events_zombies>>

TypeVisit ==
    /\ run.pc = "typescan"
    /\ run.e # NULL
    /\ run' = IF Zombie(run.e) THEN [run EXCEPT !.e = NextInType(run.e)]
                               ELSE [run EXCEPT !.pc = "typecall"]
    /\ UNCHANGED <<event_tick, block, lists, events_scheduled,
                   events_executed, events_zombies>>

TypeReturn ==
    /\ run.pc = "typecall"
    /\ block' = [block EXCEPT ![run.e].zombie = TRUE]
    /\ run' = [run EXCEPT !.pc = "typescan", !.e = NextInType(run.e)]
    /\ UNCHANGED <<event_tick, lists, events_scheduled, events_executed,
                   events_zombies>>

TypeDone ==
    /\ run.pc = "typescan"
    /\ run.e = NULL
    /\ run' = [run EXCEPT !.pc = "idle"]
    /\ UNCHANGED <<event_tick, block, lists, events_scheduled,
                   events_executed, events_zombies>>
-----------------------------------------------------------------------------
Init ==
    /\ event_tick = 0
    /\ block = [e \in Events |-> [zombie |-> FALSE, type |-> 0, data |-> NULL,
                                  data2 |-> NULL, tick |-> 0]]
    /\ event_stack = [s \in Slots |-> <<>>]
    /\ event_list = <<>>
    /\ event_first_in_type = [t \in {} |-> <<>>]
    /\ last_event_type = -1
    /\ event_free_list = <<>>
    /\ events_scheduled = 0
    /\ events_executed = 0
    /\ events_zombies = 0
    /\ run = [pc |-> "idle", e |-> NULL, e2 |-> NULL]

Add == \E time \in 0..MaxDelay, type \in Types, d \in Data, d2 \in Data2 :
          event_add(time, type, d, d2)
Cancel == \/ \E d \in Data : event_remove_data(d)
          \/ \E t \in Types, d \in Data : event_remove_type_data(t, d)
          \/ \E t \in Types, d2 \in Data2 : event_remove_type_data2(t, d2)
          \/ \E t \in Types, d \in Data, d2 \in Data2 :
                event_remove_type_data_data(t, d, d2)
Loop == RunVisit \/ RunReturn \/ RunDone
TypeLoop == TypeVisit \/ TypeReturn \/ TypeDone

Next == \/ Add
        \/ Cancel
        \/ event_run
        \/ Loop
        \/ \E t \in Types : event_run_by_type(t)
        \/ TypeLoop

Spec == Init /\ [][Next]_vars

(* alarm(1) is rearmed by every dispatch and callbacks return, so the loops *)
(* go on and the tick keeps advancing.                                      *)
FairSpec == /\ Spec
            /\ SF_vars(event_run)
            /\ WF_vars(Loop)
            /\ WF_vars(TypeLoop)
-----------------------------------------------------------------------------
(* The queries: LoopType goes through the list of a type, here Asked(list,  *)
(* i, data) is whether its i-th block is live and about data; last[i] is    *)
(* the loop's variable after i blocks.                                      *)
TypeList(type) ==
    IF type > last_event_type THEN <<>> ELSE event_first_in_type[type]

Asked(list, i, data) == ~Zombie(list[i]) /\ block[list[i]].data = data

event_count_type_data(type, data) ==
    Cardinality({i \in DOMAIN TypeList(type) : Asked(TypeList(type), i, data)})

event_last_type_data(type, data) ==
    LET list == TypeList(type)
        last[i \in 0..Len(list)] ==
          IF i = 0 THEN 0
          ELSE LET t == block[list[i]].tick - event_tick
               IN  IF Asked(list, i, data) /\ t > last[i - 1] THEN t ELSE last[i - 1]
    IN  last[Len(list)]

(* Mutant: a running event, whose tick is the present one, is not skipped. *)
event_first_type_data_NotAhead(type, data) ==
    LET list == TypeList(type)
        last[i \in 0..Len(list)] ==
          IF i = 0 THEN -1
          ELSE LET t == block[list[i]].tick - event_tick
               IN  IF Asked(list, i, data) /\ (t < last[i - 1] \/ last[i - 1] < 0)
                     THEN t ELSE last[i - 1]
    IN  last[Len(list)]

event_first_type_data(type, data) ==
    LET list == TypeList(type)
        last[i \in 0..Len(list)] ==
          IF i = 0 THEN -1
          ELSE LET t == block[list[i]].tick - event_tick
               IN  IF Asked(list, i, data) /\ (t < last[i - 1] \/ last[i - 1] < 0)
                      /\ t > 0
                     THEN t ELSE last[i - 1]
    IN  last[Len(list)]

(* event_count_type, summed over the types by debug_EventTypes. *)
LiveTotal == Cardinality({e \in Scheduled : ~Zombie(e)})
-----------------------------------------------------------------------------
(* Type correctness of the file-scope state of event.c; event_first_in_type *)
(* always reaches exactly to last_event_type (event.c:106).                 *)
TypeOK ==
    /\ event_tick \in 0..MaxTick
    /\ block \in [Events -> [zombie : BOOLEAN, type : Types,
                             data : Data \cup {NULL},
                             data2 : Data2 \cup {NULL}, tick : 0..MaxTick]]
    /\ event_stack \in [Slots -> Seq(Events)]
    /\ event_list \in Seq(Events)
    /\ last_event_type \in -1..MaxType
    /\ event_first_in_type \in [0..last_event_type -> Seq(Events)]
    /\ event_free_list \in Seq(Events)
    /\ events_scheduled \in 0..MaxScheduled
    /\ events_executed \in Nat
    /\ events_zombies \in Nat
    /\ run \in [pc : {"idle", "scan", "call", "typescan", "typecall"},
                e : Events \cup {NULL}, e2 : Events \cup {NULL}]

(* No list of the library holds a block twice. *)
NoDuplicates(list) ==
    \A i, j \in DOMAIN list : i # j => list[i] # list[j]

MainAgrees ==
    /\ NoDuplicates(event_list)
    /\ NoDuplicates(event_free_list)
    /\ Scheduled \cap ToSet(event_free_list) = {}
SlotsAgree ==
    \A s \in Slots :
        /\ NoDuplicates(event_stack[s])
        /\ ToSet(event_stack[s]) = {e \in Scheduled : Slot(block[e].tick) = s}
TypesAgree ==
    /\ \A t \in 0..last_event_type :
         /\ NoDuplicates(event_first_in_type[t])
         /\ ToSet(event_first_in_type[t]) =
              {e \in Scheduled : block[e].type = t}
    /\ \A e \in Scheduled : block[e].type <= last_event_type

(* The three lists of the library (event_add, event_delete) hold the same   *)
(* blocks, each once: a scheduled block is in the wheel slot of its tick    *)
(* and the list of its type and in no other, and no block of the free list  *)
(* is still linked, whatever callbacks schedule and cancel meanwhile.       *)
ListsAgree == MainAgrees /\ SlotsAgree /\ TypesAgree

(* The pointers event_run keeps across a callback (e, and the e2 it read    *)
(* before the call) are blocks still linked in the slot it walks, e2 right  *)
(* behind e: a callback cannot make the loop follow a recycled block.       *)
CursorsLinked ==
    /\ run.pc \in {"scan", "call"} =>
         run.e \in ToSet(event_stack[Slot(event_tick)]) \cup {NULL}
    /\ run.pc = "call" =>
         /\ run.e # NULL
         /\ run.e2 = NextIn(event_stack[Slot(event_tick)], run.e)
    /\ run.pc = "typescan" => run.e \in Scheduled \cup {NULL}
    /\ run.pc = "typecall" => run.e \in Scheduled

(* No live event is ever overlooked: its tick lies ahead, or it is the      *)
(* present tick, event_run is in progress and has not passed the event.     *)
NeverLate ==
    \A e \in Events : Live(e) =>
        \/ block[e].tick > event_tick
        \/ /\ block[e].tick = event_tick
           /\ run.pc \in {"scan", "call"}
           /\ e \in Ahead(event_stack[Slot(event_tick)], run.e)

(* Conservation: every event_add is accounted for by an event still linked  *)
(* (live or zombie), executed by event_run or reaped as a zombie.           *)
NoEventLost ==
    events_scheduled = Len(event_list) + events_executed + events_zombies

(* The guards of the game ("already standing up", "already repairing") and  *)
(* its recycle clocks read the lists of a type through event_count_type_    *)
(* data, event_first_type_data and event_last_type_data.  What these return *)
(* is exact at every moment, inside callbacks too: the number of the live   *)
(* events asked about, the nearest future tick (or -1), the furthest (or 0).*)
QueriesExact ==
    \A type \in Types, data \in Data :
        LET asked == {e \in Events : /\ Live(e)
                                     /\ block[e].type = type
                                     /\ block[e].data = data}
            left  == {block[e].tick - event_tick : e \in asked}
            ahead == {t \in left : t > 0}
        IN  /\ event_count_type_data(type, data) = Cardinality(asked)
            /\ event_first_type_data(type, data) =
                  IF ahead = {} THEN -1 ELSE Min(ahead)
            /\ event_last_type_data(type, data) = Max(left \cup {0})

(* The report of debug_EventTypes: "Events seem to have been executed       *)
(* perfectly." whenever scheduled = live + executed + zombies.              *)
ReportedPerfect ==
    Idle => events_scheduled = LiveTotal + events_executed + events_zombies

(* Every event scheduled is eventually called back or cancelled.            *)
EventuallySettled == \A e \in Events : Live(e) ~> ~Live(e)

(* The library implements the timer service its users rely on. *)
AbstractDue == [e \in {x \in Events : Live(x) /\ ~(InCallback /\ run.e = x)}
                 |-> block[e].tick]
AbstractRunning ==
    CASE run.pc = "call"     -> [by |-> "tick", e |-> run.e]
      [] run.pc = "typecall" -> [by |-> "type", e |-> run.e]
      [] OTHER               -> [by |-> "none", e |-> NULL]
Service == INSTANCE TimerService WITH now <- event_tick, due <- AbstractDue,
                                      running <- AbstractRunning,
                                      Horizon <- MaxDelay + 1

(* Refinement: scheduled events are called back exactly when due, once, and *)
(* never after they were cancelled.                                         *)
ImplementsTimer == Service!SSpec
=============================================================================
