------------------------------- MODULE World -------------------------------
(***************************************************************************)
(* The object database and the commands that shape it: create_obj and      *)
(* destroy_obj with the free list, the contents and exits chains that      *)
(* moving, building and destroying splice, and @dbck, which every ten      *)
(* minutes purges GOING objects and repairs chains (object.c, move.c,      *)
(* create.c, wiz.c, mguests.c).  Chains are the linked lists of the code:  *)
(* a place holds the head, the members their Next.                         *)
(*                                                                         *)
(* Left out: names, money, quotas, attributes, messages, zones (cleared    *)
(* wherever the parent is), locks (a lock that refuses leaves the state    *)
(* alone) and the flags that no condition below reads.                     *)
(***************************************************************************)
EXTENDS Integers, Sequences, FiniteSets

CONSTANTS MaxTop,      \* bound: slots of the object array
          Worlds,      \* databases the game may be loaded with, each with the
                       \* bound on the commands that follow: records [d, n]
          Actors,      \* the players who give commands
          Named        \* the numbers that commands name

VARIABLES db,       \* the object array
          top,      \* mudstate.db_top
          freelist, \* mudstate.freelist
          left,     \* commands still to come (the bound)
          checked   \* the last command was @dbck

vars == <<db, top, freelist, left, checked>>

NOTHING == -1
HOME == -3
GOD == 1
StartRoom == 0        \* start_room, default_home and start_home
Slots == 0 .. MaxTop - 1
Dbref == Slots \cup {NOTHING, HOME}
Flags == {"WIZARD", "DESTROY_OK", "STICKY", "KEY", "GUEST", "ENTER_OK"}

\* struct object: `loc' is the location of a thing or player, the
\* destination of an exit and the dropto of a room; `link' is the home of a
\* thing or player and the next slot of the free list.
Object == [type : {"room", "thing", "exit", "player", "garbage"}, going : BOOLEAN,
           loc : Dbref, contents : Dbref, exits : Dbref, next : Dbref, link : Dbref,
           owner : Slots, parent : Dbref, flags : SUBSET Flags, destroyer : Dbref]

\* What initialize_objects and destroy_obj leave in a slot.
Garbage == [type |-> "garbage", going |-> TRUE, loc |-> NOTHING, contents |-> NOTHING,
            exits |-> NOTHING, next |-> NOTHING, link |-> NOTHING, owner |-> GOD,
            parent |-> NOTHING, flags |-> {}, destroyer |-> NOTHING]

Good(x) == x \in Slots
Live(d, x) == Good(x) /\ d[x].type # "garbage"
Going(d, x) == Good(x) /\ d[x].going
Has_location(d, x) == d[x].type \in {"thing", "player", "garbage"}
Has_contents(d, x) == d[x].type # "exit"
Flag(d, x, f) == f \in d[x].flags

Wizard(d, p) == p = GOD \/ Flag(d, p, "WIZARD")
Controls(d, p, x) == /\ Good(x)
                     /\ x = GOD => p = GOD
                     /\ Wizard(d, p) \/ d[p].owner = d[x].owner

----------------------------------------------------------------------------
(* The chains. *)

RECURSIVE ChainFrom(_, _, _)
\* The members of a chain from x on, up to a member seen before.
ChainFrom(d, x, seen) ==
    IF x = NOTHING \/ x \in seen THEN <<>>
    ELSE <<x>> \o ChainFrom(d, d[x].next, seen \cup {x})

Chain(d, head) == ChainFrom(d, head, {})

RECURSIVE MembersFrom(_, _, _)
MembersFrom(d, x, seen) ==
    IF x = NOTHING \/ x \in seen THEN seen ELSE MembersFrom(d, d[x].next, seen \cup {x})

Members(d, head) == MembersFrom(d, head, {})

\* remove_first: the head is the caller's to store; the predecessor's Next
\* is written here.
remove_head(d, head, x) == IF head = x THEN d[x].next ELSE head

\* (mutant) only the head of the list is looked at
remove_next_Head(d, head, x) == d

remove_next(d, head, x) ==
    LET before == {p \in Members(d, head) : d[p].next = x}
    IN IF head = x \/ before = {} THEN d
       ELSE [d EXCEPT ![CHOOSE p \in before : TRUE].next = d[x].next]

\* s_Contents(p, remove_first(Contents(p), x)) and the same for exits.
TakeOut(d, p, x) ==
    [remove_next(d, d[p].contents, x) EXCEPT ![p].contents = remove_head(d, d[p].contents, x)]
TakeExit(d, p, x) ==
    [remove_next(d, d[p].exits, x) EXCEPT ![p].exits = remove_head(d, d[p].exits, x)]

\* s_Contents(p, insert_first(Contents(p), x)) and the same for exits.
PutIn(d, p, x) == [d EXCEPT ![x].next = d[p].contents, ![p].contents = x]
PutExit(d, p, x) == [d EXCEPT ![x].next = d[p].exits, ![p].exits = x]

ZapLoc(d, x) == [d EXCEPT ![x].loc = NOTHING, ![x].next = NOTHING]

move_object(d, x, dest) ==
    LET src == d[x].loc
        out == IF src = NOTHING THEN d ELSE TakeOut(d, src, x)
        to  == IF dest = HOME THEN d[x].link ELSE dest
        put == IF to = NOTHING THEN [out EXCEPT ![x].next = NOTHING] ELSE PutIn(out, to, x)
    IN [put EXCEPT ![x].loc = to]

\* The messages and triggers around the move only notify and queue commands.
move_via_generic(d, x, dest) == move_object(d, x, dest)

\* Next, where the slot read for NOTHING holds NOTHING (SIZE_HACK).
NextOf(d, x) == IF x = NOTHING THEN NOTHING ELSE d[x].next

RECURSIVE DivestFrom(_, _, _, _)
\* divest_object: SAFE_DOLIST over the contents, sending KEY objects home.
DivestFrom(d, x, curr, next) ==
    IF curr = NOTHING \/ d[curr].next = curr THEN d
    ELSE LET e == IF ~Controls(d, x, curr) /\ Flag(d, curr, "KEY")
                  THEN move_via_generic(d, curr, HOME) ELSE d
         IN DivestFrom(e, x, next, NextOf(e, next))

divest_object(d, x) == DivestFrom(d, x, d[x].contents, NextOf(d, d[x].contents))

RECURSIVE ReverseFrom(_, _, _)
\* reverse_list, as the database after it; the new head is the old tail.
ReverseFrom(d, list, new) ==
    IF list = NOTHING THEN d
    ELSE ReverseFrom([d EXCEPT ![list].next = new], d[list].next, list)

LastOf(d, head) == IF head = NOTHING THEN NOTHING
                   ELSE Chain(d, head)[Len(Chain(d, head))]

\* send_dropto: through the dropto of the room it is in, or home.
send_dropto(d, x) ==
    divest_object(move_via_generic(d, x, IF Flag(d, x, "STICKY") THEN HOME
                                         ELSE d[d[x].loc].loc), x)

RECURSIVE DropAll(_, _, _)
DropAll(d, x, next) ==
    IF x = NOTHING \/ d[x].next = x THEN d
    ELSE LET e == send_dropto(d, x) IN DropAll(e, next, NextOf(e, next))

\* process_sticky_dropto: a STICKY room that nobody listens in any more is
\* emptied through its dropto.  Players are the only hearers modelled.
process_sticky_dropto(d, loc) ==
    IF \/ ~Good(loc) \/ d[loc].type # "room" \/ ~Flag(d, loc, "STICKY")
       \/ d[loc].loc \in {NOTHING, loc}
       \/ \E x \in Members(d, d[loc].contents) : d[x].type = "player"
    THEN d
    ELSE LET head == LastOf(d, d[loc].contents)
             r == [ReverseFrom(d, d[loc].contents, NOTHING) EXCEPT ![loc].contents = head]
         IN DropAll(r, head, NextOf(r, head))

process_dropped_dropto(d, x) ==
    LET loc == d[x].loc
    IN IF Flag(d, x, "STICKY") THEN divest_object(move_via_generic(d, x, HOME), x)
       ELSE IF d[loc].type = "room" /\ d[loc].loc # NOTHING /\ ~Flag(d, loc, "STICKY")
       THEN send_dropto(d, x) ELSE d

----------------------------------------------------------------------------
(* Homes. *)

\* (mutant) a home that is being destroyed may be chosen again
can_set_home_Going(d, p, x, home) ==
    /\ Good(home) /\ x # home /\ d[home].type \in {"player", "room", "thing"}
    /\ Controls(d, p, home)

can_set_home(d, p, x, home) ==
    /\ Good(home) /\ x # home
    /\ d[home].type \in {"player", "room", "thing"} /\ ~d[home].going
    /\ Controls(d, p, home)

new_home(d, x) ==
    LET owner == d[x].owner
    IN IF can_set_home(d, owner, x, d[x].loc) THEN d[x].loc
       ELSE IF can_set_home(d, owner, x, d[owner].link) THEN d[owner].link
       ELSE StartRoom

clone_home(d, p, x) ==
    IF can_set_home(d, d[p].owner, x, d[x].link) THEN d[x].link ELSE new_home(d, p)

----------------------------------------------------------------------------
(* Creation and destruction. *)

IS_CLEAN(d, x) == /\ d[x].type = "garbage" /\ d[x].going
                  /\ d[x].loc = NOTHING /\ d[x].contents = NOTHING
                  /\ d[x].exits = NOTHING /\ d[x].next = NOTHING /\ d[x].owner = GOD

\* Of a world w = [d, top, fl]: the slot create_obj takes, and whether there
\* is one.  A free list whose first slot is not clean is discarded.
FromList(w) == w.fl # NOTHING /\ IS_CLEAN(w.d, w.fl)
NewSlot(w) == IF FromList(w) THEN w.fl ELSE w.top
CanCreate(w) == FromList(w) \/ w.top < MaxTop

create_obj(w, p, type, self) ==
    LET x == NewSlot(w)
        new == [Garbage EXCEPT !.type = type, !.going = FALSE,
                               !.owner = IF self THEN x ELSE w.d[p].owner]
    IN [d |-> [w.d EXCEPT ![x] = new],
        top |-> IF FromList(w) THEN w.top ELSE w.top + 1,
        fl |-> IF FromList(w) THEN w.d[x].link ELSE NOTHING]

destroy_obj(d, x) == [d EXCEPT ![x] = Garbage]

RECURSIVE EmptyContents(_, _, _, _)
\* The contents go home; the flush ends at an object that is elsewhere.
EmptyContents(d, obj, targ, next) ==
    IF targ = NOTHING \/ d[targ].next = targ \/ ~Has_location(d, targ) \/ d[targ].loc # obj
    THEN d
    ELSE LET z == ZapLoc(d, targ)
             h == IF z[targ].link = obj THEN [z EXCEPT ![targ].link = new_home(z, targ)] ELSE z
             e == divest_object(move_via_generic(h, targ, HOME), targ)
         IN EmptyContents(e, obj, next, NextOf(e, next))

RECURSIVE EmptyExits(_, _, _, _)
EmptyExits(d, obj, targ, next) ==
    IF targ = NOTHING \/ d[targ].next = targ \/ d[targ].type # "exit" \/ d[targ].exits # obj
    THEN d
    ELSE LET e == destroy_obj(d, targ) IN EmptyExits(e, obj, next, NextOf(e, next))

empty_obj(d, obj) ==
    LET e == EmptyContents(d, obj, d[obj].contents, NextOf(d, d[obj].contents))
    IN EmptyExits(e, obj, e[obj].exits, NextOf(e, e[obj].exits))

destroy_exit(d, x) == destroy_obj(TakeExit(d, d[x].exits, x), x)

destroy_thing(d, x) == destroy_obj(empty_obj(move_via_generic(d, x, NOTHING), x), x)

destroy_room(d, x) == destroy_obj(empty_obj(d, x), x)

\* Everything `from' owns goes to `to', or to the owner of what `to' is now.
chown_all(d, from, to) ==
    LET heir == IF d[to].type = "player" THEN to ELSE d[to].owner
    IN [i \in Slots |->
          IF d[i].owner # from \/ i = from THEN d[i]
          ELSE [d[i] EXCEPT !.owner = IF d[i].type = "player" THEN i ELSE heir]]

\* The player's contents and exits are not looked at.
destroy_player(d, v) ==
    destroy_obj(move_via_generic(chown_all(d, v, d[v].destroyer), v, NOTHING), v)

RECURSIVE destroy_guests(_, _)
destroy_guests(d, S) ==
    IF S = {} THEN d
    ELSE LET g == CHOOSE g \in S : TRUE
         IN destroy_guests(destroy_player([d EXCEPT ![g].destroyer = GOD], g), S \ {g})

----------------------------------------------------------------------------
(* @dbck. *)

RECURSIVE FreeFrom(_, _, _, _)
FreeFrom(d, i, n, fl) ==
    IF i = n THEN [d |-> d, fl |-> fl]
    ELSE IF IS_CLEAN(d, i) THEN FreeFrom([d EXCEPT ![i].link = fl], i + 1, n, i)
    ELSE FreeFrom(d, i + 1, n, fl)

make_freelist(d, n) == FreeFrom(d, 0, n, NOTHING)

\* (mutant) parents are not looked at
ClearParent_Not(d, i) == d

ClearParent(d, i) == IF Going(d, d[i].parent) THEN [d EXCEPT ![i].parent = NOTHING] ELSE d

NextSelf(d, i) == IF d[i].next = i THEN [d EXCEPT ![i].next = NOTHING] ELSE d

\* Homes are reset and objects that are nowhere moved home.
CheckPlaced(d, i) ==
    LET h == IF Going(d, d[i].link) THEN [d EXCEPT ![i].link = new_home(d, i)] ELSE d
        m == IF h[i].loc = NOTHING THEN move_object(ZapLoc(h, i), i, HOME) ELSE h
    IN NextSelf(m, i)

CheckDropto(d, i) == IF Going(d, d[i].loc) THEN [d EXCEPT ![i].loc = NOTHING] ELSE d

\* (mutant) an exit that leads nowhere goes as well
CheckExit_Unlinked(d, i) ==
    NextSelf(IF Going(d, d[i].loc) \/ d[i].loc = NOTHING THEN [d EXCEPT ![i].going = TRUE] ELSE d, i)

\* An exit to something GOING goes too; an unlinked exit stays, because the
\* slot read for NOTHING is garbage, a type that has contents.
CheckExit(d, i) ==
    NextSelf(IF Going(d, d[i].loc) THEN [d EXCEPT ![i].going = TRUE] ELSE d, i)

CheckRef(d, i) ==
    LET p == ClearParent(d, i)
    IN CASE p[i].type \in {"player", "thing"} -> IF p[i].going THEN p ELSE CheckPlaced(p, i)
         [] p[i].type = "room" -> CheckDropto(p, i)
         [] p[i].type = "exit" -> CheckExit(p, i)
         [] OTHER -> p

RECURSIVE RefsFrom(_, _, _)
RefsFrom(d, i, n) == IF i = n THEN d ELSE RefsFrom(CheckRef(d, i), i + 1, n)

check_dead_refs(d, n) == RefsFrom(d, 0, n)

\* The walks carry s = [d, m]: the database and the marked objects.
CutExits(s, loc, back) ==
    [s EXCEPT !.d = IF back = NOTHING THEN [@ EXCEPT ![loc].exits = NOTHING]
                    ELSE [@ EXCEPT ![back].next = NOTHING]]

RECURSIVE ExitWalk(_, _, _, _)
\* check_loc_exits; a marked place or a GOING one is not looked at.
check_loc_exits(s, loc) ==
    IF ~Good(loc) \/ s.d[loc].type = "exit" \/ s.d[loc].going \/ loc \in s.m THEN s
    ELSE ExitWalk([s EXCEPT !.m = @ \cup {loc}], loc, NOTHING, s.d[loc].exits)

ExitWalk(s, loc, back, x) ==
    IF x = NOTHING THEN s
    ELSE IF s.d[x].type # "exit" THEN CutExits(s, loc, back)
    ELSE IF s.d[x].going
    THEN LET nx == s.d[x].next
             e == IF back = NOTHING THEN [s.d EXCEPT ![loc].exits = nx]
                  ELSE [s.d EXCEPT ![back].next = nx]
         IN ExitWalk([s EXCEPT !.d = destroy_obj(e, x)], loc, back, nx)
    ELSE IF x \in s.m THEN CutExits(s, loc, back)
    ELSE LET o == IF s.d[x].exits = loc THEN s ELSE check_loc_exits(s, s.d[x].exits)
         IN IF x \in o.m THEN CutExits(o, loc, back)
            ELSE ExitWalk([d |-> [o.d EXCEPT ![x].exits = loc], m |-> o.m \cup {x}],
                          loc, x, o.d[x].next)

RECURSIVE ExitsFrom(_, _, _)
ExitsFrom(s, i, n) == IF i = n THEN s ELSE ExitsFrom(check_loc_exits(s, i), i + 1, n)

\* Exits that no live place lists are destroyed.
check_exit_chains(d, n) ==
    LET s == ExitsFrom([d |-> d, m |-> {}], 0, n)
    IN [i \in Slots |-> IF s.d[i].type = "exit" /\ i \notin s.m THEN Garbage ELSE s.d[i]]

CutContents(d, loc, back) ==
    IF back = NOTHING THEN [d EXCEPT ![loc].contents = NOTHING]
    ELSE [d EXCEPT ![back].next = NOTHING]

RECURSIVE ContentWalk(_, _, _, _)
check_loc_contents(s, loc) ==
    IF ~Good(loc) \/ s.d[loc].type = "exit" \/ s.d[loc].going THEN s
    ELSE ContentWalk(s, loc, NOTHING, s.d[loc].contents)

\* check_misplaced_obj: x is on the list of a place that is not its location.
\* The list cut is the one of x's own location, and what is reset is not the
\* location of x but its contents.
Misplaced(s, back, x) ==
    LET loc == s.d[x].loc
        o == check_loc_contents([s EXCEPT !.m = @ \ {x}], loc)
    IN IF x \in o.m THEN [s |-> [o EXCEPT !.d = CutContents(@, loc, back)], x |-> NOTHING]
       ELSE [s |-> [o EXCEPT !.d = [@ EXCEPT ![x].contents = loc]], x |-> x]

ContentWalk(s, loc, back, x) ==
    IF x = NOTHING THEN s
    ELSE IF ~Has_location(s.d, x) THEN [s EXCEPT !.d = CutContents(@, loc, back)]
    ELSE IF s.d[x].type = "garbage"
    THEN LET nx == s.d[x].next
             e == IF back = NOTHING THEN [s.d EXCEPT ![loc].contents = nx]
                  ELSE [s.d EXCEPT ![back].next = nx]
         IN ContentWalk([s EXCEPT !.d = destroy_obj(e, x)], loc, back, nx)
    ELSE LET r == IF s.d[x].loc # loc THEN Misplaced(s, back, x) ELSE [s |-> s, x |-> x]
         IN IF r.x = NOTHING THEN r.s
            ELSE ContentWalk([r.s EXCEPT !.m = @ \cup {x}], loc, x, r.s.d[x].next)

RECURSIVE ContentsFrom(_, _, _)
ContentsFrom(s, i, n) ==
    IF i = n THEN s ELSE ContentsFrom(check_loc_contents(s, i), i + 1, n)

RECURSIVE OrphansFrom(_, _, _, _)
\* Objects on no list of a live place are moved home.
OrphansFrom(d, m, i, n) ==
    IF i = n THEN d
    ELSE OrphansFrom(IF ~d[i].going /\ i \notin m /\ Has_location(d, i)
                     THEN move_via_generic(ZapLoc(d, i), i, HOME) ELSE d, m, i + 1, n)

check_contents_chains(d, n) ==
    LET s == ContentsFrom([d |-> d, m |-> {}], 0, n) IN OrphansFrom(s.d, s.m, 0, n)

Purge(d, i) ==
    IF ~d[i].going THEN d
    ELSE CASE d[i].type = "player" -> destroy_player(d, i)
           [] d[i].type = "room" -> destroy_room(d, i)
           [] d[i].type = "thing" -> destroy_thing(d, i)
           [] d[i].type = "exit" -> destroy_exit(d, i)
           [] OTHER -> d

RECURSIVE PurgeFrom(_, _, _)
PurgeFrom(d, i, n) == IF i = n THEN d ELSE PurgeFrom(Purge(d, i), i + 1, n)

purge_going(d, n) == PurgeFrom(d, 0, n)

----------------------------------------------------------------------------
(* The commands.  `p' is the player who gives one; a command that the code *)
(* refuses changes nothing and is no step.                                 *)

W == [d |-> db, top |-> top, fl |-> freelist]

Become(w) == /\ left > 0
             /\ left' = left - 1
             /\ checked' = FALSE
             /\ db' = w.d /\ top' = w.top /\ freelist' = w.fl

Change(d) == Become([W EXCEPT !.d = d])

Player(p) == p \in Actors /\ db[p].type = "player"
Known(x) == x \in Named /\ Live(db, x)
Slack(k) == top + k <= MaxTop \/ (k = 1 /\ CanCreate(W))   \* the bound on slots

Linkable(d, p, to) == to = HOME \/ (Live(d, to) /\ Has_contents(d, to) /\ Controls(d, p, to))

\* do_create: into the player's hands, with the player's new_home.
do_create(p) ==
    /\ Player(p) /\ Slack(1)
    /\ LET x == NewSlot(W)
           w == create_obj(W, p, "thing", FALSE)
           d == move_via_generic(w.d, x, p)
       IN Become([w EXCEPT !.d = [d EXCEPT ![x].link = new_home(d, p)]])

\* open_exit: the exit is put on the chain of loc and linked if it may be.
open_exit(w, p, loc, to) ==
    IF ~Good(loc) \/ ~Controls(w.d, p, loc) THEN w
    ELSE LET x == NewSlot(w)
             c == create_obj(w, p, "exit", FALSE)
             d == [PutExit(c.d, loc, x) EXCEPT ![x].exits = loc]
         IN [c EXCEPT !.d = IF to # NOTHING /\ Linkable(d, p, to)
                            THEN [d EXCEPT ![x].loc = to] ELSE d]

\* do_open, with a destination that may be linked to, and with the exit back
\* (nlinks = 2).
do_open(p, loc, to, back) ==
    /\ Player(p) /\ loc \in {p, db[p].loc} /\ Slack(IF back THEN 2 ELSE 1)
    /\ Good(loc) /\ Controls(db, p, loc)
    /\ IF to = NOTHING THEN ~back ELSE Linkable(db, p, to)
    /\ LET w == open_exit(W, p, loc, to)
       IN Become(IF back THEN open_exit(w, p, to, loc) ELSE w)

\* do_dig, with the exits there (n >= 1) and back (n = 2).
do_dig(p, n, tel) ==
    /\ Player(p) /\ Slack(n + 1)
    /\ LET x == NewSlot(W)
           r == create_obj(W, p, "room", FALSE)
           a == IF n >= 1 THEN open_exit(r, p, db[p].loc, x) ELSE r
           b == IF n = 2 THEN open_exit(a, p, x, db[p].loc) ELSE a
           src == db[p].loc
       IN Become([b EXCEPT !.d =
              IF tel THEN process_sticky_dropto(divest_object(move_object(@, p, x), p), src)
              ELSE @])

\* do_clone (word 1 of the flags is copied, the GOING bit with it).
do_clone(p, x, loc, parent) ==
    /\ Player(p) /\ Known(x) /\ Controls(db, p, x) /\ db[x].type # "player"
    /\ loc \in {p, db[p].loc} /\ Good(loc) /\ Slack(1)
    /\ db[x].type = "exit" => Controls(db, p, loc)
    /\ LET c == NewSlot(W)
           w == create_obj(W, p, db[x].type, FALSE)
           d == [w.d EXCEPT ![c].going = db[x].going,
                            ![c].flags = db[x].flags \ {"WIZARD", "KEY"},
                            ![c].parent = IF parent THEN x ELSE db[x].parent]
           to == IF Linkable(d, p, db[x].loc) THEN db[x].loc ELSE NOTHING
       IN Become([w EXCEPT !.d =
              CASE db[x].type = "thing" ->
                     move_via_generic([d EXCEPT ![c].link = clone_home(d, p, x)], c, loc)
                [] db[x].type = "room" -> [d EXCEPT ![c].loc = to]
                [] db[x].type = "exit" -> [PutExit(d, loc, c) EXCEPT ![c].exits = loc,
                                                                     ![c].loc = to]])

\* do_pcreate and create_guest: create_player, then the move.
NewPlayer(w, p, robot, at, flags) ==
    LET x == NewSlot(w)
        c == create_obj(w, p, "player", ~robot)
    IN [c EXCEPT !.d = move_object([@ EXCEPT ![x].link = StartRoom, ![x].flags = flags], x, at)]

do_pcreate(p, robot) ==
    /\ Player(p) /\ Wizard(db, p) /\ Slack(1)
    /\ Become(NewPlayer(W, p, robot, IF robot THEN db[p].loc ELSE StartRoom, {}))

\* make_guest at a guest's login: guests S, who are not connected, are
\* destroyed first; number_guests is 1.
make_guest(S) ==
    /\ \A g \in S : db[g].type = "player" /\ Flag(db, g, "GUEST")
    /\ LET w == [W EXCEPT !.d = destroy_guests(db, S)]
           busy == \E g \in Slots : w.d[g].type = "player" /\ Flag(w.d, g, "GUEST")
       IN /\ CanCreate(w)
          /\ busy => S # {}
          /\ Become(IF busy THEN w ELSE NewPlayer(w, GOD, FALSE, StartRoom, {"GUEST"}))

DestroyNow(d, x) ==
    CASE d[x].type = "exit" -> destroy_exit(d, x)
      [] d[x].type = "thing" -> destroy_thing(d, x)
      [] d[x].type = "player" -> destroy_player(d, x)
      [] d[x].type = "room" -> destroy_room(d, x)

MayDestroy(p, x) ==
    /\ \/ Controls(db, p, x)
       \/ db[x].type = "exit" /\ db[x].exits = db[p].loc /\ Controls(db, p, db[p].loc)
       \/ db[x].type = "thing" /\ db[x].loc = p /\ Flag(db, x, "DESTROY_OK")
    /\ x \notin {StartRoom, GOD}
    /\ db[x].type = "exit" => Wizard(db, p) \/ db[x].exits \in {p, db[p].loc}
    /\ db[x].type = "player" => Wizard(db, p) /\ ~Wizard(db, x)

\* do_destroy: at once if the object or its owner is DESTROY_OK (a player:
\* the object), else GOING is set and @dbck does the rest.  An exit is only
\* set GOING for someone who does not own it.
do_destroy(p, x) ==
    /\ Player(p) /\ Known(x) /\ MayDestroy(p, x) /\ ~db[x].going
    /\ LET d == IF db[x].type = "player" THEN [db EXCEPT ![x].destroyer = p] ELSE db
           now == \/ Flag(db, x, "DESTROY_OK")
                  \/ db[x].type # "player" /\ Flag(db, db[x].owner, "DESTROY_OK")
       IN IF now THEN Change(DestroyNow(d, x))
          ELSE /\ db[x].type = "exit" => db[x].owner # p
               /\ Change([d EXCEPT ![x].going = TRUE])

\* fh_going_bit: @set x=!GOING spares an object.
fh_going_bit(p, x) ==
    /\ Player(p) /\ Known(x) /\ Controls(db, p, x) /\ db[x].going
    /\ Change([db EXCEPT ![x].going = FALSE])

\* do_link: the destination of an exit (an unlinked exit of another player
\* changes hands), the home of a thing or player, the dropto of a room.
do_link(p, x, to) ==
    /\ Player(p) /\ Known(x)
    /\ CASE db[x].type = "exit" ->
              /\ Linkable(db, p, to)
              /\ db[x].loc # NOTHING => Controls(db, p, x)
              /\ Change([db EXCEPT ![x].loc = to, ![x].owner = db[p].owner])
         [] db[x].type \in {"player", "thing"} ->
              /\ Controls(db, p, x) /\ Known(to) /\ can_set_home(db, p, x, to)
              /\ Change([db EXCEPT ![x].link = to])
         [] db[x].type = "room" ->
              /\ Controls(db, p, x)
              /\ Linkable(db, p, to) /\ (Good(to) => db[to].type = "room")
              /\ Change([db EXCEPT ![x].loc = to])

do_unlink(p, x) ==
    /\ Player(p) /\ Known(x) /\ Controls(db, p, x)
    /\ db[x].type \in {"exit", "room"} /\ db[x].loc # NOTHING
    /\ Change([db EXCEPT ![x].loc = NOTHING])

RECURSIVE Ancestors(_, _, _)
Ancestors(d, x, seen) == IF ~Good(x) \/ x \in seen THEN seen
                         ELSE Ancestors(d, d[x].parent, seen \cup {x})

do_parent(p, x, q) ==
    /\ Player(p) /\ Known(x) /\ Controls(db, p, x)
    /\ q = NOTHING \/ (Known(q) /\ Controls(db, p, q) /\ x \notin Ancestors(db, q, {}))
    /\ Change([db EXCEPT ![x].parent = q])

\* move_exit: through an exit; one that leads to a GOING thing, to an exit or
\* nowhere refuses.  Into a room nothing is divested.
Through(d, p, x) ==
    LET to == IF d[x].loc = HOME THEN d[p].link ELSE d[x].loc
        src == d[p].loc
        m == process_sticky_dropto(move_object(d, p, to), src)
    IN IF ~Good(to) THEN d
       ELSE CASE d[to].type = "room" -> m
              [] d[to].type \in {"player", "thing"} /\ ~d[to].going -> divest_object(m, p)
              [] OTHER -> d

\* do_move with a direction: an exit of the room or of the player.
do_move(p, x) ==
    /\ Player(p) /\ Known(x) /\ db[x].type = "exit" /\ db[x].exits \in {p, db[p].loc}
    /\ Through(db, p, x) # db
    /\ Change(Through(db, p, x))

\* do_move with `home'.
go_home(p) ==
    /\ Player(p)
    /\ Change(process_sticky_dropto(divest_object(move_via_generic(db, p, HOME), p), db[p].loc))

\* do_get: something near, or anything for a wizard; an exit changes hands.
do_get(p, x) ==
    /\ Player(p) /\ Known(x)
    /\ CASE db[x].type \in {"player", "thing"} ->
              /\ db[x].loc # p /\ x # p
              /\ db[x].loc = db[p].loc \/ Wizard(db, p)
              /\ Change(move_via_generic(db, x, p))
         [] db[x].type = "exit" ->
              /\ db[x].exits # p
              /\ db[x].exits = db[p].loc \/ Wizard(db, p)
              /\ Controls(db, p, x) \/ Controls(db, p, db[p].loc)
              /\ Change([PutExit(TakeExit(db, db[x].exits, x), p, x) EXCEPT ![x].exits = p])
         [] OTHER -> FALSE

do_drop(p, x) ==
    /\ Player(p) /\ Known(x) /\ Good(db[p].loc)
    /\ CASE db[x].type \in {"player", "thing"} ->
              /\ db[x].loc = p
              /\ Change(process_dropped_dropto(move_via_generic(db, x, db[p].loc), x))
         [] db[x].type = "exit" ->
              /\ db[x].exits = p /\ Controls(db, p, db[p].loc)
              /\ Change([PutExit(TakeExit(db, p, x), db[p].loc, x) EXCEPT ![x].exits = db[p].loc])
         [] OTHER -> FALSE

do_enter(p, x) ==
    /\ Player(p) /\ Known(x) /\ db[x].type \in {"player", "thing"} /\ x # p
    /\ db[x].loc = db[p].loc \/ Wizard(db, p)
    /\ Flag(db, x, "ENTER_OK") \/ Controls(db, p, x)
    /\ Change(process_sticky_dropto(divest_object(move_via_generic(db, p, x), p), db[p].loc))

do_leave(p) ==
    LET loc == db[p].loc
    IN /\ Player(p) /\ Good(loc) /\ db[loc].type # "room" /\ ~db[loc].going
       /\ Change(move_via_generic(db, p, db[loc].loc))

\* do_teleport: victim and destination may be any slot, garbage too; a thing
\* may be sent into its own contents.
do_teleport(p, v, to) ==
    /\ Player(p) /\ v \in Named /\ v < top /\ v # to
    /\ Has_location(db, v) \/ db[v].type = "exit"
    /\ Controls(db, p, v) \/ Controls(db, p, db[v].loc)
    /\ to \in Named /\ to < top
    /\ IF Has_contents(db, to)
       THEN /\ Controls(db, p, to)
            /\ Change(IF db[v].type = "exit"
                      THEN [PutExit(TakeExit(db, db[v].exits, v), to, v) EXCEPT ![v].exits = to]
                      ELSE process_sticky_dropto(divest_object(move_object(db, v, to), v), db[v].loc))
       ELSE /\ db[to].exits = db[v].loc /\ db[v].type # "exit" /\ Through(db, v, to) # db
            /\ Change(Through(db, v, to))

\* do_dbck.  (/full differs in what it reports: the owner it says it resets
\* is set to itself.)
do_dbck ==
    LET f == make_freelist(db, top)
        d == purge_going(check_contents_chains(check_exit_chains(
                 check_dead_refs(f.d, top), top), top), top)
    IN /\ checked' = TRUE
       /\ db' = d /\ freelist' = f.fl
       /\ UNCHANGED <<top, left>>

Init == /\ \E w \in Worlds : db = w.d /\ left = w.n
        /\ top = Cardinality({x \in Slots : Live(db, x)})
        /\ freelist = NOTHING
        /\ checked = FALSE

Next == \/ do_dbck
        \/ \E S \in SUBSET {g \in Slots : left > 0 /\ Flag(db, g, "GUEST")} : make_guest(S)
        \/ \E p \in {q \in Actors : left > 0 /\ db[q].type = "player"} :
              \/ do_create(p) \/ go_home(p) \/ do_leave(p)
              \/ \E robot \in BOOLEAN : do_pcreate(p, robot)
              \/ \E n \in 0 .. 2, tel \in BOOLEAN : do_dig(p, n, tel)
              \/ \E loc \in Slots, to \in Named \cup {HOME, NOTHING}, back \in BOOLEAN :
                    do_open(p, loc, to, back)
              \/ \E x \in Named :
                    \/ do_destroy(p, x) \/ fh_going_bit(p, x) \/ do_unlink(p, x)
                    \/ do_move(p, x) \/ do_get(p, x) \/ do_drop(p, x) \/ do_enter(p, x)
                    \/ \E loc \in Slots, parent \in BOOLEAN : do_clone(p, x, loc, parent)
                    \/ \E to \in Named \cup {HOME} : do_link(p, x, to)
                    \/ \E q \in Named \cup {NOTHING} : do_parent(p, x, q)
                    \/ \E to \in Named : do_teleport(p, x, to)

Spec == Init /\ [][Next]_vars

----------------------------------------------------------------------------
(* Properties. *)

\* The object array has its type.
TypeOK == /\ db \in [Slots -> Object]
          /\ top \in 0 .. MaxTop /\ freelist \in Dbref
          /\ left \in Nat /\ checked \in BOOLEAN

Placed(d, x) == d[x].type \in {"thing", "player"}

\* What is on a chain, and how a chain must end for a walk to end.
EndsWell(d, head) == LET c == Chain(d, head) IN c = <<>> \/ d[c[Len(c)]].next = NOTHING

\* The contents chain of every place that exists ends, and holds exactly the
\* objects whose location it is; so for exits.  Moves, droptos, @destroy and
\* @dbck splice these chains through several commands.
ChainsExact ==
  /\ TypeOK
  /\ \A p \in Slots : Live(db, p) /\ db[p].type # "exit" =>
        /\ EndsWell(db, db[p].contents) /\ EndsWell(db, db[p].exits)
        /\ Members(db, db[p].contents) \ {x \in Slots : ~Live(db, x)}
             = {x \in Slots : Placed(db, x) /\ db[x].loc = p}
        /\ Members(db, db[p].exits) = {x \in Slots : db[x].type = "exit" /\ db[x].exits = p}

RECURSIVE FreeSlots(_, _)
FreeSlots(x, seen) == IF x = NOTHING \/ x \in seen THEN seen
                      ELSE FreeSlots(db[x].link, seen \cup {x})

\* The objects that x's fields lead to.
Refs(d, x) == {d[x].loc, d[x].link, d[x].parent, d[x].owner}
              \cup (IF d[x].type = "exit" THEN {d[x].exits} ELSE {})

\* Nothing in the game refers to a slot that create_obj may hand out: an
\* object that is destroyed at once, or purged, is only put on the free list
\* by a later @dbck, which clears what refers to it first.  (A slot that a
\* wizard put something into is not clean and is not handed out.)  And every
\* object of the game belongs to a player of the game, whoever was destroyed,
\* in whatever order @dbck purges owners and destroyers.
NoDangling ==
    /\ \A f \in FreeSlots(freelist, {}) :
         /\ ~Live(db, f)
         /\ IS_CLEAN(db, f) => \A x \in Slots : Live(db, x) => f \notin Refs(db, x)
    /\ \A x \in Slots : Live(db, x) =>
         Live(db, db[x].owner) /\ db[db[x].owner].type = "player"

\* After @dbck nothing is left inside an object that was destroyed, nothing
\* has its home there, no exit hangs from or leads to one.
DbckMends ==
    checked => \A x \in Slots :
        /\ Placed(db, x) => Live(db, db[x].loc) /\ Live(db, db[x].link)
        /\ db[x].type = "exit" => Live(db, db[x].exits) /\ (Good(db[x].loc) => Live(db, db[x].loc))

Doomed(d, x) == \/ d[x].going
                \/ d[x].type = "exit" /\ (Going(d, d[x].loc) \/ Going(d, d[x].exits))

\* @dbck destroys what is GOING, and the exits from and to it, and nothing
\* else; what is in a place that stays keeps its location.
DbckKeeps ==
    [][checked' => \A x \in Slots : Live(db, x) /\ ~Doomed(db, x) =>
          /\ db'[x].type = db[x].type
          /\ Placed(db, x) /\ Good(db[x].loc) /\ ~Going(db, db[x].loc) => db'[x].loc = db[x].loc
       ]_vars

\* check_loc_contents corrects "Location of member is not specified location
\* - reset it" (object.c:1303): after @dbck the members of a contents chain
\* are where the chain is.
LocationsReset ==
    checked => \A p \in Slots : Live(db, p) /\ db[p].type # "exit" /\ EndsWell(db, db[p].contents) =>
                  \A x \in Members(db, db[p].contents) : db[x].loc = p
============================================================================
