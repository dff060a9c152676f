----------------------------- MODULE Connections -----------------------------
(***************************************************************************)
(* The connections of the game: the descriptor list of src/bsd.c, the      *)
(* hash chains of a player's descriptors in src/netcommon.c, login and     *)
(* logout, and the @program a player's descriptors share (predicates.c).   *)
(*                                                                         *)
(* What is hard here is that shutdownsock frees a descriptor while a loop  *)
(* stands in the list, on that descriptor, before it or behind it: a       *)
(* command run by process_commands may quit, log out or boot anyone.       *)
(* Freed descriptors go back to a pool (alloc.c) and keep their contents,  *)
(* so the model keeps the links of a descriptor when it is freed.          *)
(*                                                                         *)
(* Left out: texts, output queues, sites, idle times (a timeout may happen *)
(* at any pass of check_idle) and retry counts (a failed login may be the  *)
(* last).  CONCENTRATE is not defined by the build.                        *)
(***************************************************************************)
EXTENDS Integers, Sequences, FiniteSets, ListSelection

CONSTANTS
    Descs,          \* descriptor blocks
    NULL,
    Players, Wizards,
    NOBODY,         \* player 0 of a descriptor that is not logged in
    Programs,       \* PROG blocks
    max_players,    \* mudconf, negative for no limit
    cmd_quota_max,  \* mudconf
    MaxInput,       \* bound: lines waiting on a descriptor
    PipedLogout     \* somebody in an @program sends LOGOUT through with '|'

ASSUME NamesAssumption ==
    /\ NULL \notin Descs \cup Programs
    /\ NOBODY \notin Players
    /\ Wizards \subseteq Players
ASSUME BoundsAssumption ==
    /\ max_players \in Int
    /\ cmd_quota_max \in Nat /\ MaxInput \in Nat
    /\ IsFiniteSet(Descs) /\ PipedLogout \in BOOLEAN

VARIABLES
    net,     \* the descriptors, see below
    walk     \* the loop over descriptor_list in progress, if any

vars == <<net, walk>>

R_QUIT == 1
R_TIMEOUT == 2
R_BOOT == 3
R_SOCKDIED == 4
R_BADLOGIN == 6
R_GAMEDOWN == 7
R_LOGOUT == 8
R_GAMEFULL == 9
disc_messages == 0..8    \* the indices of that array

HEAD == NULL             \* d->prev of the first descriptor: &descriptor_list
Ptr == Descs \cup {NULL}

(* No connection.  A freed descriptor keeps its link next until the loop   *)
(* in progress has ended; the rest of it is not read again.                *)
NoNet ==
    [head |-> NULL, next |-> [d \in Descs |-> NULL],
     prev |-> [d \in Descs |-> HEAD],
     live |-> {},                                 \* allocated descriptors
     hash |-> [p \in Players \cup {NOBODY} |-> NULL],    \* mudstate.desc_htab
     hashnext |-> [d \in Descs |-> NULL],
     player |-> [d \in Descs |-> NOBODY],
     conn |-> {},                                 \* DS_CONNECTED
     online |-> {},                               \* players with CONNECTED
     made |-> Wizards,                            \* players that exist
     prog |-> [d \in Descs |-> NULL],             \* d->program_data
     heap |-> {},                                 \* allocated PROG blocks
     input |-> [d \in Descs |-> 0],               \* lines waiting
     quota |-> [d \in Descs |-> 0],
     recent |-> {},              \* descriptors whose last_time is mudstate.now
     untold |-> FALSE,           \* history: announce_disconnect was given a
                                 \* reason that disc_messages does not have
     fault |-> FALSE]            \* a null or freed PROG was used

List(n) == Path(n.next, n.head)
Chain(n, p) == Path(n.hashnext, n.hash[p])     \* DESC_ITER_PLAYER
-----------------------------------------------------------------------------
(* The descriptor list and the hash chains *)

Unlink(n, d) ==
    LET m == IF n.prev[d] = HEAD
             THEN [n EXCEPT !.head = n.next[d]]
             ELSE [n EXCEPT !.next[n.prev[d]] = n.next[d]]
    IN IF n.next[d] = NULL THEN m ELSE [m EXCEPT !.prev[n.next[d]] = n.prev[d]]

desc_addhash(n, d) ==
    LET p == n.player[d]
    IN [n EXCEPT !.hashnext[d] = n.hash[p], !.hash[p] = d]

(* Mutant: only the head of the chain is taken out. *)
desc_delhash_Head(n, d) ==
    LET p == n.player[d]
    IN [n EXCEPT !.hash[p] = IF n.hash[p] = d THEN n.hashnext[d] ELSE @,
                 !.hashnext[d] = NULL]

desc_delhash(n, d) ==
    LET p == n.player[d]
        c == Chain(n, p)
        at == {i \in DOMAIN c : c[i] = d}
        i == CHOOSE x \in at : \A y \in at : x <= y
        m == IF at = {} THEN n
             ELSE IF i = 1 THEN [n EXCEPT !.hash[p] = n.hashnext[d]]
             ELSE [n EXCEPT !.hashnext[c[i - 1]] = n.hashnext[d]]
    IN [m EXCEPT !.hashnext[d] = NULL]

announce_connect(n, d) ==
    LET m == desc_addhash(n, d)
    IN [m EXCEPT !.online = @ \cup {n.player[d]}]

(* Mutant: the count is taken as if d were no longer in the chain. *)
announce_disconnect_Less(n, d, reason) ==
    LET p == n.player[d]
    IN desc_delhash([n EXCEPT !.untold = @ \/ reason \notin disc_messages,
                       !.online = IF Len(Chain(n, p)) < 1 THEN @ \ {p} ELSE @],
                    d)

announce_disconnect(n, d, reason) ==
    LET p == n.player[d]
    IN desc_delhash([n EXCEPT !.untold = @ \/ reason \notin disc_messages,
                       !.online = IF Len(Chain(n, p)) < 2 THEN @ \ {p} ELSE @],
                    d)
-----------------------------------------------------------------------------
(* The end of a connection *)

(* The PROG block goes with the last of its player's descriptors. *)
FreeLastProgram(n, d) ==
    IF n.prog[d] # NULL /\ Chain(n, n.player[d]) = <<>>
    THEN [n EXCEPT !.heap = @ \ {n.prog[d]}] ELSE n

(* Forget what is not read any more. *)
Blank(n, d) ==
    [n EXCEPT !.live = @ \ {d}, !.conn = @ \ {d}, !.recent = @ \ {d},
              !.player[d] = NOBODY, !.prev[d] = HEAD, !.hashnext[d] = NULL,
              !.prog[d] = NULL, !.quota[d] = 0]

(* Mutant: the pool clears what it takes back. *)
free_desc_Cleared(n, d) == [Blank(n, d) EXCEPT !.next[d] = NULL]

free_desc(n, d) == Blank(n, d)

Drop(n, d) ==
    free_desc(FreeLastProgram(Unlink([n EXCEPT !.input[d] = 0], d), d), d)

StayLoggedOut(n, d) ==
    [n EXCEPT !.conn = @ \ {d}, !.player[d] = NOBODY, !.recent = @ \ {d},
              !.quota[d] = cmd_quota_max]

shutdownsock(n, d, reason) ==
    IF d \in n.conn
    THEN LET m == announce_disconnect(n, d, reason)
         IN IF reason = R_LOGOUT THEN StayLoggedOut(m, d) ELSE Drop(m, d)
    ELSE Drop(n, d)

ShutdownAll(n, ds, reason) ==
    LET after[i \in 0..Len(ds)] ==
          IF i = 0 THEN n ELSE shutdownsock(after[i - 1], ds[i], reason)
    IN after[Len(ds)]

boot_off(n, p) == ShutdownAll(n, Chain(n, p), R_BOOT)
boot_by_port(n, d) == shutdownsock(n, d, R_BOOT)

(* QUIT and LOGOUT of somebody logged in close the first of the player's   *)
(* descriptors that has given a command in this second.                    *)
logged_out(n, p, reason) ==
    LET now == Select(Chain(n, p), LAMBDA d : d \in n.recent)
    IN IF now = <<>> THEN n ELSE shutdownsock(n, Head(now), reason)
-----------------------------------------------------------------------------
(* @program *)

InProgram(n, p) == \E d \in Set(Chain(n, p)) : n.prog[d] # NULL

(* Free the program of the first descriptor in the chain, clear them all. *)
EndProgram(n, p) ==
    IF n.hash[p] = NULL \/ n.prog[n.hash[p]] \notin n.heap
    THEN [n EXCEPT !.fault = TRUE]
    ELSE LET all == Set(Chain(n, p))
         IN [n EXCEPT !.heap = @ \ {n.prog[n.hash[p]]},
                      !.prog = [d \in Descs |->
                                  IF d \in all THEN NULL ELSE n.prog[d]]]

(* A line typed into an @program. *)
handle_prog(n, d) ==
    IF n.prog[d] \in n.heap THEN EndProgram(n, n.player[d])
    ELSE [n EXCEPT !.fault = TRUE]

do_quitprog(n, p) ==
    IF p \in n.online /\ InProgram(n, p) THEN EndProgram(n, p) ELSE n

do_prog(n, p, program) ==
    IF p \notin n.online \/ InProgram(n, p) THEN n
    ELSE LET all == Set(Chain(n, p))
         IN [n EXCEPT !.heap = @ \cup {program},
                      !.prog = [d \in Descs |->
                                  IF d \in all THEN program ELSE n.prog[d]]]
-----------------------------------------------------------------------------
(* Login *)

(* Mutant: the new descriptor does not join the @program. *)
JoinProgramNot(n, d, p) == n

JoinProgram(n, d, p) ==
    LET others == Select(Chain(n, p), LAMBDA x : n.prog[x] # NULL)
    IN IF others = <<>> THEN n ELSE [n EXCEPT !.prog[d] = n.prog[Head(others)]]

LogIn(n, d, p) ==
    announce_connect(
        JoinProgram([n EXCEPT !.conn = @ \cup {d}, !.player[d] = p,
                              !.made = @ \cup {p}], d, p), d)

nplayers(n) == IF max_players < 0 THEN max_players - 1 ELSE Cardinality(n.conn)

failconn(n, d, reason) == shutdownsock(n, d, reason)

Connect(n, d, p) ==
    IF nplayers(n) < max_players \/ p \in Wizards THEN LogIn(n, d, p)
    ELSE failconn(n, d, R_GAMEFULL)

Create(n, d, p) ==
    IF nplayers(n) > max_players THEN failconn(n, d, R_GAMEFULL)
    ELSE LogIn(n, d, p)

(* The results of a line at the login screen: nothing, a failed or refused *)
(* login, a login, or QUIT. *)
check_connect(n, d) ==
    {n} \cup {shutdownsock(n, d, R_BADLOGIN), failconn(n, d, R_GAMEDOWN)}
        \cup {Connect(n, d, p) : p \in n.made}
        \cup {Create(n, d, p) : p \in Players \ n.made}
        \cup {shutdownsock(n, d, R_QUIT)}
-----------------------------------------------------------------------------
(* Commands *)

LogsOut(n, p) ==
    LET m == logged_out(n, p, R_LOGOUT)
    IN IF PipedLogout \/ ~InProgram(n, p) THEN {m} ELSE {}

(* The results of a command that player p gives or has queued. *)
process_command(n, p) ==
    {n, logged_out(n, p, R_QUIT)} \cup LogsOut(n, p)
      \cup {do_prog(n, q, g) : q \in Players, g \in Programs \ n.heap}
      \cup {do_quitprog(n, q) : q \in Players}
      \cup IF p \notin Wizards THEN {}
           ELSE {boot_off(n, q) : q \in Players \ {p}}
                  \cup {boot_by_port(n, d) : d \in n.live}

do_command(n, d) ==
    LET m == [n EXCEPT !.recent = @ \cup {d}]
    IN IF d \in n.conn THEN process_command(m, n.player[d])
                       ELSE check_connect(m, d)

Take(n, d) ==
    [n EXCEPT !.input[d] = @ - 1,
              !.quota[d] = IF n.player[d] \in Wizards THEN @ ELSE @ - 1]

Ready(n, d) == n.quota[d] > 0 /\ n.input[d] > 0

(* One round of the loop body of process_commands: d's first line.  In an  *)
(* @program a line goes there unless it starts with '|'. *)
OneLine(n, d) ==
    LET m == Take(n, d)
    IN do_command(m, d)
         \cup IF n.prog[d] = NULL THEN {} ELSE {handle_prog(m, d)}
-----------------------------------------------------------------------------
(* Walks over the list.  Those of process_commands, check_idle and         *)
(* shovechars fetch dnext before the body; eradicate_broken_fd reads       *)
(* d->next after it.  todo is history: what is still to be visited.        *)

NextOf(n, d) == IF d = NULL THEN NULL ELSE n.next[d]
NoWalk == [kind |-> "none", d |-> NULL, dnext |-> NULL, todo |-> {},
           nprocessed |-> FALSE]
Kinds == {"commands", "sockets", "idle", "broken"}

StartOf(kind) ==
    [kind |-> kind, d |-> net.head, dnext |-> NextOf(net, net.head),
     todo |-> net.live, nprocessed |-> FALSE]

Advance(w, n) ==
    IF w.kind = "broken" THEN [w EXCEPT !.d = NextOf(n, w.d)]
    ELSE [w EXCEPT !.d = w.dnext, !.dnext = NextOf(n, w.dnext)]

Visited(n) == [Advance(walk, n) EXCEPT !.todo = @ \ {walk.d}]

(* No loop will follow the links of freed descriptors any more. *)
Settled(n) ==
    [n EXCEPT !.next = [d \in Descs |-> IF d \in n.live THEN n.next[d] ELSE NULL]]

Idle == walk.kind = "none"
On(kind) == walk.kind = kind /\ walk.d # NULL

StartWalk(kind) ==
    /\ Idle
    /\ walk' = StartOf(kind)
    /\ UNCHANGED net

process_commands ==
    /\ On("commands")
    /\ LET d == walk.d
           ready == Ready(net, d)
       IN /\ net' \in IF ready THEN OneLine(net, d) ELSE {net}
          /\ walk' = [Visited(net') EXCEPT !.nprocessed = @ \/ ready]

(* Lines arrive, or the socket is dead.  Only descriptors with no lines    *)
(* waiting are read. *)
shovechars ==
    /\ On("sockets")
    /\ \/ UNCHANGED net
       \/ /\ net.input[walk.d] = 0
          /\ \E k \in 1..MaxInput : net' = [net EXCEPT !.input[walk.d] = k]
       \/ net' = shutdownsock(net, walk.d, R_SOCKDIED)
    /\ walk' = Visited(net')

check_idle ==
    /\ On("idle")
    /\ \/ UNCHANGED net
       \/ net' = shutdownsock(net, walk.d, R_TIMEOUT)
    /\ walk' = Visited(net')

eradicate_broken_fd ==
    /\ On("broken")
    /\ \/ UNCHANGED net
       \/ net' = shutdownsock(net, walk.d, R_SOCKDIED)
    /\ walk' = Visited(net')

(* The end of the list; process_commands goes round again after a pass in  *)
(* which it did something. *)
EndWalk ==
    /\ ~Idle /\ walk.d = NULL
    /\ walk' = IF walk.kind = "commands" /\ walk.nprocessed
               THEN StartOf("commands") ELSE NoWalk
    /\ net' = Settled(net)
-----------------------------------------------------------------------------
initializesock(n, d) ==
    LET m == IF n.head = NULL THEN n ELSE [n EXCEPT !.prev[n.head] = d]
    IN [m EXCEPT !.live = @ \cup {d}, !.conn = @ \ {d}, !.player[d] = NOBODY,
                 !.input[d] = 0, !.quota[d] = cmd_quota_max, !.prog[d] = NULL,
                 !.hashnext[d] = NULL, !.next[d] = n.head, !.prev[d] = HEAD,
                 !.head = d]

new_connection ==
    /\ Idle
    /\ \E d \in Descs \ net.live : net' = initializesock(net, d)
    /\ UNCHANGED walk

(* A command from the queue. *)
do_top ==
    /\ Idle
    /\ \E p \in Players :
         \E n \in process_command(net, p) : net' = Settled(n)
    /\ UNCHANGED walk

(* Time passes: dispatch sets mudstate.now, update_quotas fills the quotas. *)
NewSecond ==
    /\ Idle
    /\ net' = [net EXCEPT !.recent = {},
                 !.quota = [d \in Descs |->
                              IF d \in net.live THEN cmd_quota_max ELSE net.quota[d]]]
    /\ UNCHANGED walk

(* One descriptor read back from restart.db: appended to the list, and put *)
(* in a chain whether it is logged in or not. *)
Reload(n, d) ==
    LET l == List(n)
        at == IF l = <<>> THEN HEAD ELSE l[Len(l)]
        m == IF l = <<>> THEN [n EXCEPT !.head = d] ELSE [n EXCEPT !.next[at] = d]
        k == [m EXCEPT !.live = @ \cup {d}, !.prev[d] = at, !.next[d] = NULL,
                       !.player[d] = net.player[d],
                       !.conn = @ \cup (net.conn \cap {d}),
                       !.recent = @ \cup (net.recent \cap {d}),
                       !.quota[d] = cmd_quota_max]
    IN desc_addhash([k EXCEPT !.online = @ \cup ({net.player[d]} \cap Players)], d)

ReloadAll(ds) ==
    LET read[i \in 0..Len(ds)] ==
          IF i = 0 THEN NoNet ELSE Reload(read[i - 1], ds[i])
    IN read[Len(ds)]

(* @restart: the new process has the sockets and restart.db; lines waiting *)
(* and programs are gone. *)
do_restart ==
    /\ walk.kind \in {"none", "commands"}
    /\ net' = [ReloadAll(List(net)) EXCEPT !.made = net.made, !.untold = net.untold]
    /\ walk' = NoWalk

Init == net = NoNet /\ walk = NoWalk

Next ==
    \/ process_commands \/ shovechars \/ check_idle \/ eradicate_broken_fd
    \/ EndWalk
    \/ \E kind \in Kinds : StartWalk(kind)
    \/ new_connection \/ do_top \/ NewSecond \/ do_restart

Spec == Init /\ [][Next]_vars
-----------------------------------------------------------------------------
(* Properties *)

(* The links, chains and counters are what interface.h declares them to be. *)
TypeOK ==
    /\ net.head \in Ptr /\ net.next \in [Descs -> Ptr]
    /\ net.prev \in [Descs -> Ptr] /\ net.live \subseteq Descs
    /\ net.hash \in [Players \cup {NOBODY} -> Ptr]
    /\ net.hashnext \in [Descs -> Ptr]
    /\ net.player \in [Descs -> Players \cup {NOBODY}]
    /\ net.online \subseteq Players /\ net.heap \subseteq Programs
    /\ net.prog \in [Descs -> Programs \cup {NULL}]
    /\ net.input \in [Descs -> 0..MaxInput]
    /\ net.quota \in [Descs -> 0..cmd_quota_max]
    /\ walk.kind \in Kinds \cup {"none"}

Connected == net.conn \cap net.live

(* After any sequence of connections, logins, boots and restarts the list  *)
(* from descriptor_list has every open descriptor once and no freed one,   *)
(* linked both ways (bsd.c:723, 838); and the chain that output to a       *)
(* player follows has exactly the descriptors logged in as that player,    *)
(* each once: after a restart too, which puts descriptors in the chain of  *)
(* player 0 that leave it without being taken out (db.c:3349,              *)
(* netcommon.c:655). *)
ListsExact ==
    /\ TypeOK
    /\ LET l == List(net)
       IN /\ Set(l) = net.live /\ Len(l) = Cardinality(net.live)
          /\ \A i \in DOMAIN l :
                net.prev[l[i]] = IF i = 1 THEN HEAD ELSE l[i - 1]
    /\ \A p \in Players :
        LET c == Chain(net, p)
        IN /\ Set(c) = {d \in Connected : net.player[d] = p}
           /\ Len(c) = Cardinality(Set(c))

(* A player has the CONNECTED flag just while it has a descriptor, however *)
(* many come and go (netcommon.c:682, 860), and it goes for a reason that  *)
(* disc_messages has a text for: the array is shorter than the list of     *)
(* reasons (bsd.c:596, 671). *)
OnlineExact ==
    net.online = {net.player[d] : d \in Connected} /\ ~net.untold

(* Whatever a command does to the list, the loop it runs in still meets    *)
(* every open descriptor that it has not visited, and none again; a freed  *)
(* one that it steps on has no line waiting (interface.h:215). *)
WalkExact ==
    LET ahead == IF walk.d = NULL THEN {}
                 ELSE IF walk.kind = "broken" THEN Set(Path(net.next, walk.d))
                 ELSE {walk.d} \cup Set(Path(net.next, walk.dnext))
    IN /\ ahead \cap net.live = walk.todo \cap net.live
       /\ walk.d \notin net.live \cup {NULL} =>
             walk.kind = "commands" /\ net.input[walk.d] = 0

(* All descriptors of a player are in the same @program or in none, the    *)
(* program they share is allocated, and no other is: it is freed just once, *)
(* with its answer, with @quitprogram or with the last descriptor. *)
ProgramShared ==
    /\ \A d, e \in Connected :
          net.player[d] = net.player[e] => net.prog[d] = net.prog[e]
    /\ net.heap = {net.prog[d] : d \in Connected} \ {NULL}
    /\ ~net.fault
=============================================================================
