------------------------------- MODULE MCWorld -------------------------------
(* Small worlds for TLC: Limbo (0) with God (1), a player (2), a room (3),  *)
(* an exit (4) and a thing (5).                                             *)
EXTENDS World

Obj(type, loc, owner, link) ==
    [Garbage EXCEPT !.type = type, !.going = FALSE, !.loc = loc, !.owner = owner, !.link = link]

Array(list) == [x \in Slots |-> IF x + 1 \in DOMAIN list THEN list[x + 1] ELSE Garbage]

\* A DESTROY_OK player who holds his only thing; both live in the room, which
\* is STICKY and drops into Limbo, and an exit leads there.
Owned == Array(<<
    [Obj("room", NOTHING, 1, NOTHING) EXCEPT !.contents = 1, !.exits = 4],
    [Obj("player", 0, 1, 0) EXCEPT !.next = 2],
    [Obj("player", 0, 2, 3) EXCEPT !.contents = 5, !.flags = {"DESTROY_OK"}],
    [Obj("room", 0, 2, NOTHING) EXCEPT !.flags = {"STICKY"}],
    [Obj("exit", 3, 2, NOTHING) EXCEPT !.exits = 0],
    Obj("thing", 2, 2, 3)>>)

\* A guest inside the thing in a room that is GOING; the thing holds the
\* exit, and is a KEY whose home is the guest.
Doom == Array(<<
    [Obj("room", NOTHING, 1, NOTHING) EXCEPT !.contents = 1],
    Obj("player", 0, 1, 0),
    [Obj("player", 5, 2, 5) EXCEPT !.flags = {"GUEST"}],
    [Obj("room", NOTHING, 1, NOTHING) EXCEPT !.contents = 5, !.going = TRUE],
    [Obj("exit", HOME, 2, NOTHING) EXCEPT !.exits = 5],
    [Obj("thing", 3, 1, 2) EXCEPT !.contents = 2, !.exits = 4, !.flags = {"KEY", "ENTER_OK"}]>>)

\* The thing is on Limbo's list but says that it is in the room, which does
\* not list it.
Damaged == Array(<<
    [Obj("room", NOTHING, 1, NOTHING) EXCEPT !.contents = 1],
    [Obj("player", 0, 1, 0) EXCEPT !.next = 3],
    Obj("room", NOTHING, 1, NOTHING),
    Obj("thing", 2, 1, 0)>>)

MCDamaged == {[d |-> Damaged, n |-> 1]}

MCWorlds == {[d |-> Owned, n |-> 3], [d |-> Doom, n |-> 2]}
MCNamed == 2 .. MaxTop - 1
MCActors == {1, 2}
=============================================================================
