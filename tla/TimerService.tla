---------------------------- MODULE TimerService ----------------------------
(***************************************************************************)
(* What the users of the event library rely on (the interface comment at    *)
(* the head of event/event.c): an event that is scheduled for a tick and    *)
(* not cancelled is called back at exactly that tick, once; an event that   *)
(* is cancelled, even by another callback of the same tick, is never called *)
(* back; the clock does not pass a tick while an event is due.              *)
(* event_run_by_type may call an event back ahead of time.                  *)
(***************************************************************************)
EXTENDS Integers

CONSTANTS Events, NULL,
          Horizon     \* how far ahead an event may be scheduled

VARIABLES
    now,       \* the present tick
    due,       \* the pending events, each with the tick it is due at
    running    \* the event being called back, and why

svars == <<now, due, running>>

Pending == DOMAIN due
Nobody == [by |-> "none", e |-> NULL]

Without(S) == [e \in Pending \ S |-> due[e]]

Schedule(e, tick) ==
    /\ e \in Events \ Pending
    /\ e # running.e
    /\ due' = [x \in Pending \cup {e} |-> IF x = e THEN tick ELSE due[x]]
    /\ UNCHANGED <<now, running>>

CancelSome(S) ==
    /\ due' = Without(S)
    /\ UNCHANGED <<now, running>>

Advance ==
    /\ running = Nobody
    /\ \A e \in Pending : due[e] > now
    /\ now' = now + 1
    /\ UNCHANGED <<due, running>>

CallBack(e, by) ==
    /\ running = Nobody
    /\ e \in Pending
    /\ by = "tick" => due[e] = now
    /\ due' = Without({e})
    /\ running' = [by |-> by, e |-> e]
    /\ UNCHANGED now

Return ==
    /\ running # Nobody
    /\ running' = Nobody
    /\ UNCHANGED <<now, due>>

SInit ==
    /\ now = 0
    /\ due = [e \in {} |-> 0]
    /\ running = Nobody

SNext == \/ \E e \in Events, tick \in (now + 1)..(now + Horizon) :
                Schedule(e, tick)
         \/ \E S \in SUBSET Pending : CancelSome(S)
         \/ Advance
         \/ \E e \in Events, by \in {"tick", "type"} : CallBack(e, by)
         \/ Return

SSpec == SInit /\ [][SNext]_svars
=============================================================================
