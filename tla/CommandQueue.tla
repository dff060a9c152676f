---------------------------- MODULE CommandQueue ----------------------------
(***************************************************************************)
(* The command queue, src/cque.c: every softcode command that is not typed  *)
(* at the keyboard waits in one of four lists of BQUE blocks.  The player   *)
(* queue (qfirst) is executed by do_top, the object queue (qlfirst) is      *)
(* appended to it once a second, the wait queue (qwait) is sorted by time   *)
(* and the semaphore queue (qsemfirst) holds what @wait <object> delayed.   *)
(* Each command costs a deposit and counts against a quota of its owner.    *)
(*                                                                          *)
(* The server is one thread, but a command executed by do_top may call any  *)
(* operation of the queue while its own block is still at the head of it;   *)
(* @kick even calls do_top again.  One step is one operation, or one half   *)
(* of an iteration of do_top.                                               *)
(*                                                                          *)
(* Command texts, registers and argument lists are left out, and so is      *)
(* money that is not spent on commands (building, destruction).  GOD stands *)
(* for the owners who pay nothing and have no quota; db[NOTHING].owner is   *)
(* GOD (db_grow).  time(NULL) is mudstate.now: dispatch sets it each second.*)
(***************************************************************************)
EXTENDS Integers, Sequences, FiniteSets, SequencesExt, ListSelection

CONSTANTS
    Mortals, GOD,     \* players
    Things,           \* what players own
    NOTHING,
    A_SEMAPHORE,      \* the default semaphore attribute
    Attrs,            \* the attributes used as semaphores
    QueueQuota,       \* player_queue_limit
    WaitCost,         \* the deposit
    Surcharges,       \* machinecost: what a command may cost on top of it
    Purse,            \* a player's money at the start
    Actors, Causes,   \* whose commands are queued, and who causes them
    Happens,          \* which of the rarer operations happen: see Rare
    Start,            \* mudstate.now at the start
    MaxNow,           \* bound: the clock
    MaxWait,          \* bound: seconds a command asks to wait
    MaxAdded,         \* bound: number of commands queued
    MaxCredit         \* bound: notifications in excess, and waits refused

Players == Mortals \cup {GOD}
Objects == Players \cup Things
Semaphores == Things \X Attrs
Rare == {"chown", "haltall", "kick", "warp", "disable", "halt", "destroy"}
BOUNDLESS == MaxAdded + 1

ASSUME ObjectsAssumption ==
    /\ GOD \notin Mortals
    /\ NOTHING \notin Objects
    /\ Players \cap Things = {}
    /\ A_SEMAPHORE \in Attrs /\ 0 \notin Attrs
    /\ Actors \subseteq Objects /\ Causes \subseteq Objects
    /\ Happens \subseteq Rare
ASSUME CostAssumption ==
    /\ QueueQuota \in Nat /\ WaitCost \in Nat /\ Purse \in Nat
    /\ Surcharges \subseteq Nat
    /\ Start \in Nat /\ MaxWait \in Nat /\ MaxNow \in Nat /\ MaxAdded \in Nat

VARIABLES
    qfirst, qlfirst, qwait, qsemfirst,  \* the four lists, as sequences
    semaphore,      \* the number in each semaphore attribute
    queue,          \* pcache: commands counted against each player
    pennies,        \* money of the mortals
    owner,          \* of the things
    halted,         \* objects with the HALT flag
    going,          \* things with the GOING flag, until they are destroyed
    gone,           \* things destroyed
    control_flags,  \* CF_INTERP, CF_DEQUEUE
    tops,           \* the do_top calls in progress, outermost first
    now,
    added           \* commands queued so far

lists == <<qfirst, qlfirst, qwait, qsemfirst>>
accounts == <<queue, pennies>>
world == <<owner, halted, going, gone, control_flags>>
vars == <<lists, semaphore, accounts, world, tops, now, added>>

Owner(x) == IF x \in Things THEN owner[x] ELSE IF x = NOTHING THEN GOD ELSE x

(* Commands are carried out between the loops of the server or by the       *)
(* command do_top is executing.                                             *)
AtPrompt == tops # <<>> => Last(tops) = "running"
-----------------------------------------------------------------------------
(* payfor and giveto: the money of GOD and of what GOD owns is not counted. *)
CanPay(who, cost) == Owner(who) # GOD => pennies[Owner(who)] >= cost

Give(purses, who, amount) ==
    IF who = GOD THEN purses ELSE [purses EXCEPT ![who] = @ + amount]

QueueMax(player) == IF player = GOD THEN BOUNDLESS ELSE QueueQuota

(* give_que, for a list of blocks: those a player caused go to the player   *)
(* queue, the others to the object queue.                                   *)
ByPlayer(e) == e.cause \in Players
Given(list) == [i \in DOMAIN list |-> [list[i] EXCEPT !.waittime = 0]]
GivenFirst(list) == Select(Given(list), ByPlayer)
GivenLow(list) == Delete(Given(list), ByPlayer)

(* Mutant: commands halted before are wanted, and refunded, again. *)
que_want_Again(e, ptarg, otarg) ==
    /\ ptarg # NOTHING => ptarg = Owner(e.player) \/ e.player = NOTHING
    /\ otarg # NOTHING => otarg = e.player

que_want(e, ptarg, otarg) ==
    /\ ptarg # NOTHING => ptarg = Owner(e.player)
    /\ otarg # NOTHING => otarg = e.player

(* The semaphores of the blocks in a list, counted down by add_to. *)
CountDown(counts, list) ==
    [k \in DOMAIN counts |->
        counts[k] - HowMany(list, LAMBDA e : <<e.sem, e.attr>> = k)]

(* The owners of the blocks in a list are refunded, the blocks uncounted. *)
OwnedBy(p, list) == HowMany(list, LAMBDA e : Owner(e.player) = p)
Refund(purses, list) ==
    [p \in Mortals |-> purses[p] + WaitCost * OwnedBy(p, list)]
Uncount(queues, list) == [p \in Players |-> queues[p] - OwnedBy(p, list)]

(* Mutant: halted commands are unlinked even from the player queue. *)
MarkUnlinked(list, player, object) ==
    Delete(list, LAMBDA e : que_want(e, player, object))

(* Blocks of the player and object queues are only marked as halted. *)
Mark(list, player, object) ==
    [i \in DOMAIN list |->
        IF que_want(list[i], player, object)
          THEN [list[i] EXCEPT !.player = NOTHING] ELSE list[i]]

(* Mutant: halting one object forgets the commands of its owner's others. *)
LeftCountedNone(object, count, numhalted) == 0

(* The count of the player who is refunded: reset unless one object was named. *)
LeftCounted(object, count, numhalted) ==
    IF object = NOTHING THEN 0 ELSE count - numhalted

(* halt_que: commands of the player and object queues are marked, the       *)
(* others freed.  The counts and purses given are those at the call.        *)
halt_que(player, object, payee, counts, queues, purses) ==
    LET Want(e) == que_want(e, player, object)
        numhalted == HowMany(qfirst \o qlfirst \o qwait \o qsemfirst, Want)
    IN  /\ qfirst' = Mark(qfirst, player, object)
        /\ qlfirst' = Mark(qlfirst, player, object)
        /\ qwait' = Delete(qwait, Want)
        /\ qsemfirst' = Delete(qsemfirst, Want)
        /\ semaphore' = CountDown(counts, Select(qsemfirst, Want))
        /\ pennies' = Give(purses, payee, WaitCost * numhalted)
        /\ queue' = [queues EXCEPT ![payee] =
                       LeftCounted(object, @, numhalted)]

Payee(player, object) == IF player = NOTHING THEN Owner(object) ELSE player

(* do_halt.  A player halts everything it owns, a thing only itself. *)
do_halt(target) ==
    /\ AtPrompt
    /\ target \notin gone
    /\ IF target \in Players
         THEN halt_que(target, NOTHING, target, semaphore, queue, pennies)
         ELSE \E ptarg \in {NOTHING, Owner(target)} :
                halt_que(ptarg, target, Payee(ptarg, target),
                         semaphore, queue, pennies)
    /\ UNCHANGED <<world, tops, now, added>>

do_halt_all ==
    /\ "haltall" \in Happens
    /\ AtPrompt
    /\ halt_que(NOTHING, NOTHING, Payee(NOTHING, NOTHING),
                semaphore, queue, pennies)
    /\ UNCHANGED <<world, tops, now, added>>
-----------------------------------------------------------------------------
(* wait_que, with setup_que: the block is refused if commands are disabled, *)
(* the player halted or poor; if the quota is exceeded everything of the    *)
(* owner is halted and the player with it.  Sorted insertion goes behind    *)
(* the blocks of the same time.                                             *)
InsertLast(list, e) == Append(list, e)   \* mutant: not sorted

Insert(list, e) ==
    Select(list, LAMBDA x : x.waittime <= e.waittime) \o <<e>>
      \o Select(list, LAMBDA x : x.waittime > e.waittime)

OverQuota(player, queues) == queues[player] > QueueMax(player)

MayQueue(player, cost) ==
    "CF_INTERP" \in control_flags /\ player \notin halted /\ CanPay(player, cost)

wait_que(player, cause, wait, sem, attr, counts) ==
    LET e == [player |-> player, cause |-> cause, sem |-> sem, attr |-> attr,
              waittime |-> IF wait = 0 THEN 0 ELSE now + wait]
        who == Owner(player)
    IN  \E extra \in Surcharges :
          LET cost    == WaitCost + extra
              counted == [queue EXCEPT ![who] = @ + 1]
              paid    == Give(pennies, who, -cost)
          IN  /\ added < MaxAdded /\ e.waittime <= MaxNow
              /\ \/ /\ ~MayQueue(player, cost)
                    /\ semaphore' = counts
                    /\ UNCHANGED <<lists, accounts, halted, added>>
                 \/ /\ MayQueue(player, cost)
                    /\ OverQuota(who, counted)
                    /\ halt_que(who, NOTHING, who, counts, counted, paid)
                    /\ halted' = halted \cup {player}
                    /\ added' = added + 1
                 \/ /\ MayQueue(player, cost)
                    /\ ~OverQuota(who, counted)
                    /\ queue' = counted
                    /\ pennies' = paid
                    /\ semaphore' = counts
                    /\ added' = added + 1
                    /\ \/ /\ sem = NOTHING /\ wait <= 0
                          /\ qfirst' = qfirst \o GivenFirst(<<e>>)
                          /\ qlfirst' = qlfirst \o GivenLow(<<e>>)
                          /\ UNCHANGED <<qwait, qsemfirst>>
                       \/ /\ sem = NOTHING /\ wait > 0
                          /\ qwait' = Insert(qwait, e)
                          /\ UNCHANGED <<qfirst, qlfirst, qsemfirst>>
                       \/ /\ sem # NOTHING
                          /\ qsemfirst' = Append(qsemfirst, e)
                          /\ UNCHANGED <<qfirst, qlfirst, qwait>>
                    /\ UNCHANGED halted
              /\ UNCHANGED <<owner, going, gone, control_flags, tops, now>>

Waits(e, sem, attr) == <<e.sem, e.attr>> = <<sem, attr>>

Waiters(sem, attr) == HowMany(qsemfirst, LAMBDA e : Waits(e, sem, attr))

(* A command queued at once (a trigger, a @force) or after some seconds. *)
do_wait_seconds(player, cause, howlong) ==
    /\ AtPrompt
    /\ player \notin gone
    /\ wait_que(player, cause, howlong, NOTHING, 0, semaphore)

(* Mutant: a wait that uses up the last notification blocks. *)
BlocksAtZero(num) == num >= 0

(* A negative count stands for waits that will not block. *)
Blocks(num) == num > 0

(* @wait on a semaphore, with a timeout only on the default attribute.  The *)
(* semaphore is counted up first; if notifications are left the command is  *)
(* run at once.                                                             *)
do_wait_semaphore(player, cause, thing, attr, howlong) ==
    LET counts == [semaphore EXCEPT ![<<thing, attr>>] = @ + 1]
        blocks == Blocks(counts[<<thing, attr>>])
    IN  /\ AtPrompt
        /\ player \notin gone /\ thing \notin gone
        /\ attr # A_SEMAPHORE => howlong = 0
        /\ counts[<<thing, attr>>] <= Waiters(thing, attr) + MaxCredit
        /\ wait_que(player, cause, IF blocks THEN howlong ELSE 0,
                    IF blocks THEN thing ELSE NOTHING, attr, counts)
-----------------------------------------------------------------------------
(* nfy_que: the first count waiters (all of them for "all" and "drain") are *)
(* given to the queues or discarded, unless the count is not positive.      *)
Notified(sem, attr, key, count) ==
    LET P == Positions(qsemfirst, LAMBDA e : Waits(e, sem, attr))
    IN  {i \in P : key = "first" => Rank(P, i) <= count}

nfy_que(sem, attr, key, count) ==
    LET chosen == IF semaphore[<<sem, attr>>] > 0
                    THEN Notified(sem, attr, key, count) ELSE {}
        picked == Pick(qsemfirst, chosen)
    IN  /\ qsemfirst' = Pick(qsemfirst, DOMAIN qsemfirst \ chosen)
        /\ IF key = "drain"
             THEN /\ pennies' = Refund(pennies, picked)
                  /\ queue' = Uncount(queue, picked)
                  /\ UNCHANGED <<qfirst, qlfirst>>
             ELSE /\ qfirst' = qfirst \o GivenFirst(picked)
                  /\ qlfirst' = qlfirst \o GivenLow(picked)
                  /\ UNCHANGED accounts
        /\ semaphore' = [semaphore EXCEPT ![<<sem, attr>>] =
                           IF key = "first" THEN @ - count ELSE 0]
        /\ UNCHANGED qwait

do_notify(thing, attr, key, count) ==
    /\ AtPrompt
    /\ thing \notin gone
    /\ semaphore[<<thing, attr>>] - count >= -MaxCredit
    /\ nfy_que(thing, attr, key, count)
    /\ UNCHANGED <<world, tops, now, added>>
-----------------------------------------------------------------------------
ExpiredRelative(e) == e.waittime # 0 /\ e.waittime <= 0   \* mutant: as if counted down

(* do_second: the object queue is appended to the player queue; the loop    *)
(* over the wait queue goes on through the link give_que has just cleared,  *)
(* so at most one block leaves it; every expired timed wait leaves the      *)
(* semaphore queue.                                                         *)
Expired(e) == e.waittime # 0 /\ e.waittime <= now'

ReleasedWaits(wait) ==
    IF wait # <<>> /\ Head(wait).waittime <= now' THEN <<Head(wait)>> ELSE <<>>

do_second(wait, sem) ==
    LET waited == ReleasedWaits(wait)
        timed  == Select(sem, Expired)
        freed  == [i \in DOMAIN timed |-> [timed[i] EXCEPT !.sem = NOTHING]]
    IN  /\ qfirst' = qfirst \o qlfirst \o GivenFirst(waited \o freed)
        /\ qlfirst' = GivenLow(waited \o freed)
        /\ qwait' = IF waited = <<>> THEN wait ELSE Tail(wait)
        /\ qsemfirst' = Delete(sem, Expired)
        /\ semaphore' = CountDown(semaphore, timed)

(* Once a second dispatch sets the clock and calls do_second, which returns *)
(* at once if dequeueing is disabled.                                       *)
dispatch ==
    /\ tops = <<>>
    /\ now' = IF now < MaxNow THEN now + 1 ELSE now
    /\ IF "CF_DEQUEUE" \in control_flags THEN do_second(qwait, qsemfirst)
                                         ELSE UNCHANGED <<lists, semaphore>>
    /\ UNCHANGED <<accounts, world, tops, added>>

(* que_next: how long the main loop may sleep. *)
MaxSleep == 999

Timers == {qwait[i].waittime - now : i \in DOMAIN qwait}
    \cup {qsemfirst[i].waittime - now :
            i \in {j \in DOMAIN qsemfirst : qsemfirst[j].waittime # 0}}

(* Mutant: the pause of a second is forgotten. *)
SleepPast(timers) == Min(timers \cup {MaxSleep + 1})

Sleep(timers) ==
    IF \E t \in timers : t <= 2 THEN 1 ELSE Min(timers \cup {MaxSleep + 1}) - 1

que_next ==
    IF qfirst # <<>> THEN 0 ELSE IF qlfirst # <<>> THEN 1 ELSE Sleep(Timers)

(* @timewarp/queue: do_queue with QUEUE_WARP.  The timers of the wait queue *)
(* are overwritten, those of the semaphore queue reduced.                   *)
Warped(e, secs) ==
    IF e.waittime <= 0 THEN e
    ELSE [e EXCEPT !.waittime = IF @ - secs <= 0 THEN -1 ELSE @ - secs]

do_queue_warp(secs) ==
    /\ "warp" \in Happens
    /\ AtPrompt
    /\ \A i \in DOMAIN qsemfirst : qsemfirst[i].waittime - secs <= MaxNow
    /\ UNCHANGED now
    /\ do_second([i \in DOMAIN qwait |-> [qwait[i] EXCEPT !.waittime = -secs]],
                 [i \in DOMAIN qsemfirst |-> Warped(qsemfirst[i], secs)])
    /\ UNCHANGED <<accounts, world, tops, added>>
-----------------------------------------------------------------------------
(* do_top is called by the main loop, and by @kick from within a command.   *)
do_top ==
    /\ tops = <<>>
    /\ "CF_DEQUEUE" \in control_flags
    /\ qfirst # <<>>
    /\ tops' = <<"called">>
    /\ UNCHANGED <<lists, semaphore, accounts, world, now, added>>

(* do_queue with QUEUE_KICK, typed or within a command; a kick within a     *)
(* kicked command is left out.  Dequeueing is enabled meanwhile.            *)
do_queue_kick ==
    /\ "kick" \in Happens
    /\ AtPrompt /\ Len(tops) < 2
    /\ tops' = Append(tops, "called")
    /\ UNCHANGED <<lists, semaphore, accounts, world, now, added>>

Started(list) == [list EXCEPT ![1].player = NOTHING]

Dropped(list) == Tail(list)

Looping == tops # <<>> /\ Last(tops) \in {"called", "between"}

(* The first half of an iteration: the deposit of a live command is         *)
(* returned, the command uncounted and its block marked; it is executed     *)
(* unless its player is halted.  A block without a player, or whose player  *)
(* is being destroyed, is only dropped.                                     *)
TopStart ==
    LET player == Head(qfirst).player
        live   == player # NOTHING /\ player \notin going
    IN  /\ Looping
        /\ qfirst # <<>>
        /\ IF live
             THEN /\ pennies' = Give(pennies, Owner(player), WaitCost)
                  /\ queue' = [queue EXCEPT ![Owner(player)] = @ - 1]
             ELSE UNCHANGED accounts
        /\ IF live /\ player \notin halted
             THEN /\ qfirst' = Started(qfirst)
                  /\ tops' = Front(tops) \o <<"running">>
             ELSE /\ qfirst' = Dropped(qfirst)
                  /\ tops' = Front(tops) \o <<"between">>
        /\ UNCHANGED <<qlfirst, qwait, qsemfirst, semaphore, world, now,
                       added>>

(* The second half, after process_command: the head of the queue is freed.  *)
(* (With an empty queue the server would crash here.)                       *)
TopEnd ==
    /\ tops # <<>> /\ Last(tops) = "running"
    /\ qfirst # <<>>
    /\ qfirst' = Tail(qfirst)
    /\ tops' = Front(tops) \o <<"between">>
    /\ UNCHANGED <<qlfirst, qwait, qsemfirst, semaphore, accounts, world, now,
                   added>>

(* The loop ends when the queue is empty or its count is used up; the main  *)
(* loop asks for at least one command (queue_chunk).                        *)
TopReturn ==
    /\ Looping
    /\ qfirst # <<>> => Last(tops) = "between"
    /\ tops' = Front(tops)
    /\ UNCHANGED <<lists, semaphore, accounts, world, now, added>>
-----------------------------------------------------------------------------
(* @chown changes the owner first and halts the thing afterwards. *)
do_chown(thing, newowner) ==
    /\ "chown" \in Happens
    /\ AtPrompt
    /\ thing \notin gone
    /\ owner' = [owner EXCEPT ![thing] = newowner]
    /\ halted' = halted \cup {thing}
    /\ halt_que(NOTHING, thing, newowner, semaphore, queue, pennies)
    /\ UNCHANGED <<going, gone, control_flags, tops, now, added>>

(* @destroy sets GOING, a later purge destroys. *)
do_destroy(thing) ==
    /\ "destroy" \in Happens
    /\ AtPrompt
    /\ thing \notin going \cup gone
    /\ going' = going \cup {thing}
    /\ UNCHANGED <<lists, semaphore, accounts, owner, halted, gone,
                   control_flags, tops, now, added>>

(* destroy_obj halts the thing, drains every semaphore on it, and frees its *)
(* attributes; the garbage belongs to GOD.                                  *)
destroy_obj(thing) ==
    LET Mine(e)    == que_want(e, NOTHING, thing)
        Unneeded(e) == Mine(e) \/ e.sem = thing
        freed == Select(qfirst \o qlfirst \o qwait, Mine)
                   \o Select(qsemfirst, Unneeded)
    IN  /\ AtPrompt
        /\ thing \in going
        /\ qfirst' = Mark(qfirst, NOTHING, thing)
        /\ qlfirst' = Mark(qlfirst, NOTHING, thing)
        /\ qwait' = Delete(qwait, Mine)
        /\ qsemfirst' = Delete(qsemfirst, Unneeded)
        /\ pennies' = Refund(pennies, freed)
        /\ queue' = Uncount(queue, freed)
        /\ semaphore' = [k \in Semaphores |->
             IF k[1] = thing THEN 0
             ELSE CountDown(semaphore, Select(qsemfirst, Mine))[k]]
        /\ going' = going \ {thing}
        /\ gone' = gone \cup {thing}
        /\ halted' = halted \ {thing}
        /\ owner' = [owner EXCEPT ![thing] = GOD]
        /\ UNCHANGED <<control_flags, tops, now, added>>

(* The HALT flag set or reset by hand: @set <object> = [!]halt. *)
do_set_halt(x) ==
    /\ "halt" \in Happens
    /\ AtPrompt
    /\ x \notin gone
    /\ halted' = IF x \in halted THEN halted \ {x} ELSE halted \cup {x}
    /\ UNCHANGED <<lists, semaphore, accounts, owner, going, gone,
                   control_flags, tops, now, added>>

(* @enable and @disable. *)
do_global(flag) ==
    /\ "disable" \in Happens
    /\ AtPrompt
    /\ control_flags' = IF flag \in control_flags THEN control_flags \ {flag}
                                                  ELSE control_flags \cup {flag}
    /\ UNCHANGED <<lists, semaphore, accounts, owner, halted, going, gone,
                   tops, now, added>>
-----------------------------------------------------------------------------
Init ==
    /\ qfirst = <<>> /\ qlfirst = <<>> /\ qwait = <<>> /\ qsemfirst = <<>>
    /\ semaphore = [k \in Semaphores |-> 0]
    /\ queue = [p \in Players |-> 0]
    /\ pennies = [p \in Mortals |-> Purse]
    /\ owner \in [Things -> Players]
    /\ halted = {} /\ going = {} /\ gone = {}
    /\ control_flags = {"CF_INTERP", "CF_DEQUEUE"}
    /\ tops = <<>>
    /\ now = Start
    /\ added = 0

Next ==
    \/ \E x \in Objects : do_halt(x) \/ do_set_halt(x)
    \/ do_halt_all
    \/ \E x \in Actors, c \in Causes, secs \in 0..MaxWait :
          do_wait_seconds(x, c, secs)
    \/ \E x \in Actors, c \in Causes, k \in Semaphores, secs \in -1..MaxWait :
          do_wait_semaphore(x, c, k[1], k[2], secs)
    \/ \E k \in Semaphores, key \in {"first", "all", "drain"}, n \in 1..2 :
          do_notify(k[1], k[2], key, n)
    \/ dispatch
    \/ \E secs \in {-1, 1} : do_queue_warp(secs)
    \/ do_top \/ do_queue_kick
    \/ TopStart \/ TopEnd \/ TopReturn
    \/ \E t \in Things, p \in Players : do_chown(t, p)
    \/ \E t \in Things : do_destroy(t) \/ destroy_obj(t)
    \/ \E flag \in {"CF_INTERP", "CF_DEQUEUE"} : do_global(flag)

Spec == Init /\ [][Next]_vars

(* The timer goes off every second and the main loop comes round with no    *)
(* input to read; a command and the loop of do_top always end.              *)
FairSpec == Spec /\ WF_vars(dispatch) /\ WF_vars(do_top)
                 /\ WF_vars(TopStart) /\ WF_vars(TopEnd) /\ WF_vars(TopReturn)
-----------------------------------------------------------------------------
Block(players, sems, Times) ==
    [player : players, cause : Objects, sem : sems, attr : Attrs \cup {0},
     waittime : Times]

(* Type correctness: the queues that are executed hold blocks without a     *)
(* time, the wait queue timed blocks without a semaphore, the semaphore     *)
(* queue blocks with one; only the first two hold halted blocks.            *)
TypeOK ==
    /\ \A list \in {qfirst, qlfirst} :
          list \in Seq(Block(Objects \cup {NOTHING}, Things \cup {NOTHING}, {0}))
    /\ qwait \in Seq(Block(Objects, {NOTHING}, Int))
    /\ qsemfirst \in Seq(Block(Objects, Things, Int))
    /\ semaphore \in [Semaphores -> Int]
    /\ queue \in [Players -> Int]
    /\ pennies \in [Mortals -> Int]
    /\ owner \in [Things -> Players]
    /\ halted \subseteq Objects /\ going \subseteq Things /\ gone \subseteq Things
    /\ control_flags \subseteq {"CF_INTERP", "CF_DEQUEUE"}
    /\ tops \in Seq({"called", "running", "between"})
    /\ now \in Nat /\ added \in 0..MaxAdded

(* The wait queue is sorted: do_second looks at its head only, so a block   *)
(* out of order would hold up those behind it (cque.c:525, cque.c:733).     *)
WaitSorted ==
    \A i, j \in DOMAIN qwait : i < j => qwait[i].waittime <= qwait[j].waittime

(* Every command that waits on a semaphore is counted in it: nfy_que wakes  *)
(* nobody when the count is not positive (cque.c:260), so a waiter that is  *)
(* not counted would never be notified.                                     *)
SemaphoreCovers ==
    \A k \in Semaphores :
      Waiters(k[1], k[2]) > 0 => semaphore[k] >= Waiters(k[1], k[2])

(* What help SEMAPHORES says: a positive count is the number of waiters.    *)
SemaphoreExact ==
    \A k \in Semaphores : semaphore[k] > 0 => semaphore[k] = Waiters(k[1], k[2])

Pending(p) == OwnedBy(p, qfirst \o qlfirst \o qwait \o qsemfirst)

(* Each pending command is counted against its owner (player_c.c a_Queue),  *)
(* through @halt, @drain, timeouts, destruction and the quota's own halt,   *)
(* so that a player never has more commands pending than the quota          *)
(* (cque.c:404).                                                            *)
QuotaRespected ==
    \A p \in Mortals : Pending(p) <= queue[p] /\ Pending(p) <= QueueQuota

(* Deposits are returned at most once: money and the deposits of the        *)
(* commands counted never exceed what a player started with.                *)
NoFreeMoney == \A p \in Mortals : pennies[p] + WaitCost * queue[p] <= Purse

(* While do_top executes a command its block is the head of the player      *)
(* queue, marked so that @halt and do_top pass it over: cque.c:850 frees    *)
(* the head, whatever the command did to the queues meanwhile.              *)
RunningAtHead ==
    \A i \in DOMAIN tops :
      tops[i] = "running" => qfirst # <<>> /\ Head(qfirst).player = NOTHING

(* The main loop never sleeps past the second a timed command is due in:    *)
(* que_next bounds the select of bsd.c:367.                                 *)
NoOversleep ==
    /\ qfirst \o qlfirst # <<>> => que_next <= 1
    /\ \A t \in Timers : que_next <= 1 \/ que_next < t

(* What help @wait says: a command is executed after its seconds.  Nothing  *)
(* due stays in the wait queue once dispatch has run in that second.        *)
NothingOverdue == \A i \in DOMAIN qwait : qwait[i].waittime > now

(* What help @halt says: the deposit of a command removed is refunded.  No  *)
(* player is charged for commands that are no longer there.                 *)
DepositsBacked ==
    going = {} => \A p \in Mortals : queue[p] = Pending(p)

(* What wizhelp @timewarp says: <secs> is subtracted from the timers.       *)
(* A block that stays in the wait queue is due secs earlier.                *)
WarpShifts ==
    [][\A secs \in {-1, 1} : do_queue_warp(secs) =>
         \A i \in DOMAIN qwait' : \E j \in DOMAIN qwait :
            qwait'[i] = [qwait[j] EXCEPT !.waittime = @ - secs]]_vars

(* Every command that needs no notification is eventually executed or       *)
(* dropped: the executable queues, the wait queue and the timed semaphore   *)
(* waits drain once nothing is queued any more.                             *)
EventuallyDrained ==
    <>[](/\ qfirst = <<>> /\ qlfirst = <<>> /\ qwait = <<>>
         /\ \A i \in DOMAIN qsemfirst : qsemfirst[i].waittime = 0)
=============================================================================
