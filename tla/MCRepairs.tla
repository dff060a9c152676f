------------------------------ MODULE MCRepairs ------------------------------
(* The left side of a 'Mech: a jammed gun, a big gun, a part and an ammo bin. *)
EXTENDS Repairs

S(armor, rear, int, flooded) == [armor |-> armor, rear |-> rear, int |-> int, flooded |-> flooded]
P(mode, rest, nuke, data) ==
    [mode |-> mode, rest |-> rest, worn |-> {}, nuke |-> nuke, data |-> data]
Ok(data) == P({}, "ok", FALSE, data)
Lost == P({"destroyed"}, "ok", FALSE, 0)
LostGun == P({"destroyed"}, "gone", FALSE, 0)
Hit(c, n) == [c EXCEPT !.worn = @ \cup {n}]
Wet(c) == [c EXCEPT !.mode = @ \cup {"disabled"}]

MCHull == [l \in {"CTORSO", "LTORSO", "LARM"} |->
    [armor |-> IF l = "CTORSO" THEN 1 ELSE 2, rear |-> IF l = "LARM" THEN 0 ELSE 1,
     int |-> IF l = "LTORSO" THEN 3 ELSE 2]]

MCFit == [laser |-> [loc |-> "LARM", kind |-> "gun"], ac20 |-> [loc |-> "LTORSO", kind |-> "big"],
          hand |-> [loc |-> "LARM", kind |-> "part"], bin |-> [loc |-> "LTORSO", kind |-> "ammo"]]

Sound3 == [CTORSO |-> S(1, 1, 2, FALSE), LTORSO |-> S(2, 1, 3, FALSE), LARM |-> S(2, 0, 2, FALSE)]
Parts4 == [laser |-> Ok(0), ac20 |-> Ok(0), hand |-> Ok(0), bin |-> Ok(FULL)]
Stock(n) == [armor |-> n, internal |-> 2 * n, electronic |-> 2 * n, gun |-> 1, big |-> 1,
             part |-> 1, ammo |-> 1]

MCScenarios ==
    {\* jammed, critted and damaged guns that some mend and others take off; a later crit hit
     [sect |-> Sound3,
      part |-> [Parts4 EXCEPT !["laser"] = Hit(P({}, "ok", TRUE, 0), 1),
                              !["ac20"] = P({"destroyed"}, "broken", FALSE, 0)],
      store |-> Stock(3), ops |-> {"scrap", "restart"}, steps |-> 7],
     [sect |-> [Sound3 EXCEPT !["LARM"] = S(0, 0, 1, FALSE)],
      part |-> [Parts4 EXCEPT !["laser"] = P({"damaged"}, "ok", FALSE, 0), !["bin"] = Ok(1),
                              !["hand"] = Lost],
      store |-> Stock(2), ops |-> {"power", "restart"}, steps |-> 7],
     \* an arm that is off, and a torso that is taken off meanwhile
     [sect |-> [Sound3 EXCEPT !["LARM"] = S(0, 0, 0, FALSE), !["LTORSO"] = S(1, 0, 3, FALSE)],
      part |-> [Parts4 EXCEPT !["laser"] = LostGun, !["hand"] = Lost,
                              !["ac20"] = Hit(@, 2)],
      store |-> Stock(3), ops |-> {"scrap"}, steps |-> 6],
     \* little enough that all of it can be mended
     [sect |-> [Sound3 EXCEPT !["LTORSO"] = S(1, 0, 2, FALSE)], part |-> Parts4,
      store |-> Stock(2), ops |-> {"power", "restart"}, steps |-> 9],
     \* a flooded torso, no ammo in store
     [sect |-> [Sound3 EXCEPT !["LTORSO"] = S(2, 1, 2, TRUE)],
      part |-> [Parts4 EXCEPT !["ac20"] = Wet(P({"damaged"}, "ok", FALSE, 0)), !["bin"] = Wet(Ok(1))],
      store |-> [Stock(4) EXCEPT !["ammo"] = 0], ops |-> {"scrap", "restart"}, steps |-> 6]}
=============================================================================
