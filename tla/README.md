# Battletech-MUX: a verification development

TLA+ models of the parts of Battletech-MUX whose correctness depends on the
order in which things happen: the timed-event library that drives the whole
game, the command queue that runs all softcode, the dumping and reloading of
the database, the connections, the attribute cache, the object database with
its two-phase destruction, the mailer, and two parts of the battle system: the
C3 networks and the repair of 'Mechs. TLC checks them on small instances; TLAPS
proves for all instances that the event library implements its abstract service
and the attribute cache a map, and the invariants of both, of the queue, the
dumps, the connections, the C3 networks and the repairs.

`PROJECT.json` lists the components, the runs, the correspondence between
definitions and source lines, the hazards each property is aimed at, the
findings and the theorems. Paths below are relative to the repository.

## 1. The system

`netmux` is one single-threaded process. Its main loop (`shovechars`,
src/bsd.c) calls `dispatch` (src/timer.c), which does its work once per alarm
signal, that is once a second; sleeps in `select` for at most `que_next()`
seconds; runs some queued commands (`do_top`); and serves the connections.

| part | state | operations | talks to |
|---|---|---|---|
| event library (event/event.c) | blocks in a main list, a wheel of 70 slots, a list per type, a free list; tick and counters | event_add, event_remove_*, event_run, event_run_by_type, queries | called by every unit, map and repair; calls back into them |
| command queue (src/cque.c) | player, object, wait and semaphore lists; per-player counts; deposits | wait_que, do_wait, do_notify, do_halt, do_second, do_top, do_queue | attributes (semaphore counts), player cache, money, object destruction and @chown |
| dumps (src/game.c, src/hcode/glue.c, game/Startmux) | the files on disk, `mudstate.epoch`, `mudstate.dumping` | checkpoint by a child, @restart, @shutdown, panic and kill dumps, load, Startmux | signals, the slave, the operator |
| timer and main loop (src/timer.c, src/bsd.c) | `mudstate.now`, counters of periodic work | dispatch, shovechars | all of the above |
| connections (src/bsd.c, src/netcommon.c, src/predicates.c) | descriptor list, a hash chain of descriptors per player, CONNECTED flags, shared @programs | accept, login, commands under a quota, @boot, QUIT, LOGOUT, timeouts, @program, shutdownsock | commands, @restart, slave |
| objects (src/object.c, src/create.c, src/move.c, src/set.c, src/mguests.c) | db array, contents and exits chains, free list | create, destroy, move, link, parent, chown, @dbck | queue, attributes, channels, mail |
| attribute store (src/udb_*.c) | four chains of cache entries per bucket, GDBM file | get, put, delete, reset, trim, sync | db.c, dumps |
| mail (src/mail.c) | a chain of messages per player, counted texts, aliases | send, read, file, retract, purge, expire, @mail/debug | object destruction, dumps |
| channels, macros | per-player and per-channel lists | their commands | dumps |
| special objects (src/hcode) | a tree from dbref to unit or map | create, dispose, save, load, update | event library, btech |
| C3 networks (btech/mech.c3*.c) | in each unit an array of the others | join, leave, validate | damage, maps, teams, repairs, restart |
| repairs (btech/mech.tech*.c) | damages of a unit, jobs as events, materials | reload, mend, replace, scrap, reattach, reseal, fix | event library, startup, restart |
| btech (src/hcode/btech) | units, maps | movement, combat, damage, sensors, autopilot | events |
| softcode (command.c, eval.c, functions.c, ...) | registers, limits | interpretation | everything |

What makes the code hard to test:

* *Callbacks that re-enter their caller.* An event's callback schedules and
  cancels events while `event_run` stands in the middle of a list; a queued
  command halts, notifies and queues others while its own block is at the head
  of the queue; `@kick` calls `do_top` from within `do_top`.
* *Lists walked while their elements go away.* A loop over the descriptors
  executes commands that boot, log out or restart anybody; destroying a place
  moves its contents into other chains while it walks them; a purge relinks a
  mailbox under its own feet.
* *State kept twice.* Three lists of the same blocks; a semaphore count in an
  attribute beside the list of its waiters; a per-player command count beside
  the lists; a deposit per counted command; a location beside the chain that
  lists the object; a text with the number of its readers.
* *State copied.* A network is nothing but the arrays of its units, copied from
  one to another; the cache copies the GDBM file and writes back late, and a
  write may fail.
* *References that outlive their target.* Objects are put on a free list while
  locks, homes, exits, mail and drafts may name them, and their numbers are
  handed out again.
* *Several people at one thing.* Technicians work on one unit at a time, each with
  a time of his own, and each command asks only for some of the others' jobs.
* *Processes and crashes.* A forked child writes the database while the server
  goes on, restarts or faults; the machine may stop between any two file
  operations, and a shell script decides from the files that are left which of
  them is the database.
* *Time.* A wheel smaller than the longest delay; one pass a second; a main
  loop that sleeps as long as it dares.

For each part: the event library is correct if an event is called back exactly
when it is due, once, and never after it was cancelled; the queue, if each
command accepted is executed or refunded exactly once, counted until then and
never forgotten; the dumps, if no crash at any point loses what a completed dump
has saved, and no two processes write one file; the connections, if list, chains
and flags are exact and each loop meets each open descriptor once; the attribute
store, if it is a map; the objects, if each is on exactly the chain it should be
and nothing refers to a slot that may be reused; the mailer, if each reads what
was written to him, over restarts too; the networks, if their units agree; the
repairs, if jobs on one slot exclude each other and nothing comes of nothing.

## 2. Modules

| module | models |
|---|---|
| `EventWheel` | event/event.c |
| `TimerService` | the abstract service that users of the event library rely on |
| `EventWheelProofs` | theorems about `EventWheel`, its refinement of `TimerService` included |
| `ListSelection` | lists as C loops meet them: the elements along a chain of links (`Path`), those at given places, kept in order (`Pick`), a list less one element (`Without`) |
| `ListSelectionProofs` | lemmas about it: order, length, counts; what links that are cut, pushed or joined lead to; what a loop computes |
| `CommandQueue` | src/cque.c and its callers in timer.c, object.c, create.c, set.c, wiz.c, flags.c, player_c.c, predicates.c |
| `CommandQueueProofs` | theorems about `CommandQueue` |
| `DbDump` | dumping and loading: game.c, glue.c, predicates.c, bsd.c, game/Startmux |
| `DbDumpProofs` | theorems about `DbDump` |
| `Connections` | descriptors: bsd.c, netcommon.c, interface.h, @program in predicates.c |
| `ConnectionsProofs` | theorems about `Connections` |
| `AttrCache` | src/udb_ocache.c and its calls of udb_ochunk.c |
| `AttrMap` | the abstract map that `AttrCache` implements |
| `AttrCacheProofs` | theorems about `AttrCache`, its refinement of `AttrMap` included |
| `World` | the object array: object.c, create.c, move.c, set.c, wiz.c, mguests.c, db.c |
| `Mail` | src/mail.c |
| `C3Networks` | mech.c3.c, mech.c3i.c, mech.c3.misc.c and what changes eligibility |
| `C3NetworksProofs` | theorems about `C3Networks` |
| `Repairs` | mech.tech.commands.c, mech.tech.do.c, mech.tech.damages.c, mech.tech.events.c, mech.tech.saverepair.c, and the startup of mech.startup.c |
| `RepairsProofs` | theorems about `Repairs` |
| `MC...` | instances of each for TLC |

Definitions that end in a mutation's name and say "Mutant" in their comment are
deliberately wrong variants of the definition that follows them. No
specification uses them: each is the evidence that one property notices that
mistake (`PROJECT.json`, "mutants").

### EventWheel

The variables are the file-scope variables of event.c. A list linked through
`next`, `next_in_main` or `next_in_type` is a sequence of blocks, head first;
`Link` and `Unlink` are the list macros of event.h. `block` holds the fields of
every EVENT, which survive recycling. `run` is where `event_run` or
`event_run_by_type` stands: the local variables `e` and `e2` and whether a
callback is in progress.

One step is one call of the library, one iteration of a loop (`RunVisit`,
`TypeVisit`), or the return from a callback (`RunReturn`, `TypeReturn`). While
`run.pc` is `call` or `typecall` the callback may call `event_add` and the
`event_remove_*` functions any number of times, with any arguments. It does not
call `event_run`: only `UpdateSpecialObjects` does, and `event_run_by_type`'s
callers are @shutdown and @restart, outside of it.

All callers pass `flags = 0` to `event_add`, so the code that frees `data` and
`data2` is dead and left out. `prerun_event` and `postrun_event` keep statistics.

`TimerService` states the service abstractly: a set of pending events with their
due times, a clock that may not pass a due event, a callback that removes its
event first. The refinement mapping takes the live events except the one being
called back, each with its tick.

### CommandQueue

The four lists of BQUE blocks are sequences. A block is its player, cause,
semaphore and attribute, and time. `semaphore` holds the numbers in the
semaphore attributes, `queue` the counts of the player cache, `pennies` the
money of mortal players, of which only what is spent on commands is followed.
`GOD` stands for all owners who pay nothing and have no quota. `random() %
machinecost` is a choice from `Surcharges`.

`tops` is the stack of `do_top` calls. An iteration of its loop is two steps,
`TopStart` (refund, uncount, mark the block) and `TopEnd` (free the head of the
queue), and between them the command executed may be any operation of the model.
An operation is atomic: none of them calls back. `@kick` pushes another `do_top`
(one level deep).

`time(NULL)` is identified with `mudstate.now`: `dispatch` sets the latter every
second. `dispatch` calls `do_second`; `que_next` is an operator, since it only
bounds how long the loop sleeps.

Not modelled: which players may halt or notify what (any may), `@ps`, command
texts and registers.

### DbDump

The contents of a file are the version of the world it holds and whether it is
whole, cut short or written by two processes at once. A dump is the list of file
operations `dump_database_internal` would do, computed by an operator of the
same name; each process does its first remaining operation in one step, so
processes interleave at every file operation and `Crash` may come anywhere.
`at[p]` follows the file a process has open through renames and unlinks by
others, as an open file does. `reliable` is a history variable: the version
of the last dump that was completed, or loaded. Startmux's `cp` opens its target in
one step (`DoCheckpoint`) and has copied it in another (`DoCopy`), like any other
write; its `mv` is a rename. `torn` is a history variable too: a crash has cut
the input database short while @restart or that `cp` was overwriting it.

A behaviour follows one of `Scenarios`, chosen at the start: which disturbances
happen (machine crashes, signals, @restart, overlapping dumps, the slave's end,
failing forks), how many dumps come between two restarts, and how many versions
of the world there are.

Assumptions: file operations take effect in order and survive a crash (no loss of
buffered writes); the disk does not fill up; `compress_db` is off and `fork_dump`
on, as by default. `mail` stands for both mail_db and commac_db. The operator may
remove KILLED and CRASH databases, as Startmux demands, and changes nothing else.

### Connections

`net` is the descriptor list with its links both ways, the hash chain of each
player, who is connected, the quotas and waiting lines of the descriptors, and
the @program of each with the programs that are allocated. A descriptor that is
freed keeps its fields, as a block of the pool does, so a loop that has kept a
pointer to it still reads what was there. `walk` is the loop over the list in
progress: which of the four it is (`process_commands`, the input loop of
`shovechars`, `check_idle`, `eradicate_broken_fd`), the descriptor it is on, and
`dnext`, which it read before; `todo` is a history variable, what it had to
visit. A line taken in `process_commands` has any of the effects a command may
have: at the login screen a login, a creation, a refusal or QUIT, and otherwise
QUIT, LOGOUT, @boot by name or port, @program, @quitprogram and @restart. A
queued command (`do_top`) may do the same between two passes.

`PipedLogout` says whether somebody in an @program sends LOGOUT to the game with
a leading `|`. The runs have it off, since `ProgramShared` does not hold with it
(section 3).

Left out: output queues and telnet, texts, sites and passwords, idle times (a
timeout may come in any pass), the slave, WHO and doing.

### AttrCache and AttrMap

The cache is modelled link by link: `head`, `tail`, `nxt` and `prv` of the four
chains of each bucket, the entry that each block holds, the modified and the
clean ones, and the bucket's count. `cache_get`, `cache_put`, `cache_del`,
`get_free_entry`, `cache_reset` with `cache_trim`, and `cache_sync` move entries
between the chains as the code does, mistakes of the order of two splices
included. Writing a record may fail at any time, and a crash may come in the
middle of a SYNC; both leave what the code leaves. `answer` is what the last FETCH
answered, which is nothing when `get_free_entry` could not write what it had to
evict (udb_ocache.c:491), whatever the disk holds.

`AttrMap` is what db.c relies on: a map that answers with what was last put, and
a copy on disk that catches up object by object, is complete when SYNC succeeds,
and is what a crash leaves. If the database refuses a write, the operation that
needed it fails (`Lose`): the change that was being written is lost, a STORE or
DELETE does nothing, and a FETCH answers with nothing, for an attribute that is
there too. `shown` is the pair of both as the cache's state
defines it, kept as a variable only so that TLC computes it once per state.

The binary searches over an object's attributes (`get_attrib`, `set_attrib`,
`del_attrib`) are operators on sequences; `MCAttrCache` compares them with
functions on all arrays of up to four attributes by an assumption that TLC
evaluates, and section 4 proves it for arrays of any length.

### World

`db` is the object array with the fields that chains, ownership and destruction
use, `top` its size, `freelist` the head of the list linked through `link`. A
place holds the heads of its chains of contents and exits, each member its
`next`, and the operators (`insert_first`, `remove_first`, `reverse_list`, ...)
splice them as the macros and functions of the code do. Actions are commands of a
player: @create, @dig, @open, @clone, @pcreate, @link, @unlink, @parent,
@destroy and its immediate form, get, drop, enter, leave, going through exits and
home, @teleport; the guest login's purge; and @dbck with all of its passes, which
may come any number of times between commands.

What a command does is given by who may do it: `Controls` and the flags that
decide about it are modelled, a lock only refuses. Zones, money, quotas, names,
attributes and messages are left out. Excluded as inputs: @link and @parent to a
slot that holds no object, changing KEY and STICKY in play (the worlds of Init
have objects with and without), and setting GOING by hand on a slot that is
garbage. Chains are followed recursively, so the module is for TLC only.

### Mail

`post` holds the messages with both links, the hash table of heads, and
`mail_list`, whose slots hold a text and its count, with the guess at the next
free slot. A text is a number, the how-manieth text written it was; so a slot
that is handed to another text is noticed. `Junk` is no text of anybody: the buffer
of `load_mail` is too short for the line that ends the messages, and the rest of
it is read and stored as message 0, where it stays, with a count of 0, unless
slot 0 was in use (mail.c:1792). A behaviour follows one of
`Scenarios`: a group of commands, who gives them, and the lists of recipients
typed. The groups are plain mail with destroyed players, filing in folders,
aliases, drafts and replies, and the administration.

Where the code would follow a pointer to a freed message, the model stops
(`Dangling`), and `BoxesExact` says that this happens only after @mail/nuke or
@mail/debug. Each property names the groups of commands without which it holds:
`Addressed` says that no list of recipients can name somebody destroyed since.

Left out: tags, urgency, receipts, selections by age or sender (they only pick
messages), names of folders, displays, a message that says "clear".

### C3Networks

A unit's equipment is `C3I`, `SLAVE`, or a number of C3 masters; a fleet gives
each unit one. `net[u]` is the array of u and its size field, which is -1 in a
C3i unit after a restart. Every command and event that touches an array or what makes
a unit eligible is an action: joining and leaving, looking at the network,
destruction, the critical hit that takes the computer or a master, repair by
magic, changing team or map, and a restart. `mech_Rsetmapindex` may name the map the
unit is on: it takes the unit off, which empties its own array and tells nobody,
and puts it back. `settled` is a history variable: no unit came back to an array
that still named it, in this way (`PutBack`) or another, and no C3 network lost a
master.

Left out: units that are not started or unconscious, ECM, and the ranges and
displays computed from the arrays.

### Repairs

A unit is its sections (armor, rear armor, internals, flooded or not), its parts
(modes, nukes, ammunition) and the materials at hand; `jobs` is the set of tech
events, each with its type, function, place and extra data. Every command pays
or refuses, rolls, and adds an event; the events end in any order, since each
technician has his own time. Rolls are free choices, so a failed job is as likely
as a good one. `make_damage_table` is the list of damages and `fix_entry` what
`fix` would call for a line of it. The startup sequence is there because
repairs and startup refuse each other. `Restart` is `saverepairs` followed by
`loadrepairs`.

Of a weapon its first crit is kept, whether the remaining ones are there (`rest`),
and which of the first two of them a hit has damaged (`worn`). A job names the slot
it is on, part and offset (`crit`), and `AtCrit` compares slots as
`tech_check_locpart` does. Only `tech_fixenhcrit` takes a later slot;
`tech_removegun`, `tech_replacegun` and `tech_repairgun` refuse one (`ValidGunPos`).

The scenarios stand for the left side of a 'Mech: head and legs stay, so the centre
torso is never removed. Left out: battlesuits, dropships, brands, ammunition
modes, times, the exemptions of wizards, what can be scrapped of a cored unit,
`tech_repairpart` (nothing but a gun is ever jammed), `toggletype`, damage in
combat while a job is under way.

## 3. Runs

### What holds

| run | instance | shows |
|---|---|---|
| `wheel` | 2 blocks, 2 units, 2 types, 2 slots, delays to 3, 3 ticks, 3 events, fair | `ListsAgree`, `CursorsLinked`, `NeverLate`, `NoEventLost`, `QueriesExact`, `ImplementsTimer`, `EventuallySettled` |
| `queue` | a mortal and a thing, quota 1, 2 commands, halts and destruction, fair | `QuotaRespected`, `NoFreeMoney`, `RunningAtHead`, `EventuallyDrained` |
| `queue_admin` | waits to 3 seconds, quota 1, 2 commands, @chown, @halt/all, @kick, @timewarp, @disable | `SemaphoreCovers`, `WaitSorted`, `NoOversleep` |
| `dump` | two children, five combinations of faults, fair | `DatabaseSurvives`, `CheckpointKept`, `NeverMixed`, `HcodeIntact`, `DumpEnds` |
| `connections` | 3 descriptors, a wizard and a mortal, one place, one line and one command of quota | `ListsExact`, `OnlineExact`, `WalkExact`, `ProgramShared` |
| `attr_cache` | 3 objects, 3 blocks, one bucket, depth 1, failing writes, crashes | `CacheSound`, `HeldStays`, `ImplementsMap` |
| `world` | 7 slots; 3 commands in an intact world, 2 in one half destroyed | `ChainsExact`, `NoDangling`, `DbckMends`, `DbckKeeps` |
| `c3` | 4 units, three fleets, 2 teams, a map, 5 steps | `ArraysSound`, `NetworksAgree` |
| `mail` | 3 dbrefs, 2 folders, six scenarios of 5 or 6 steps | `BoxesExact`, `TextsExact`, `RestartKeeps`, `SafeKept` |
| `repairs` | 3 sections, 4 parts, five scenarios of 6 to 9 steps | `JobsExclusive`, `MaterialsConserved`, `TableExact`, `RestartKeeps` |

Why the bounds are enough.

* *Wheel*: with two slots and delays up to three, a slot holds events of this and
  of the next revolution; a third `event_add` makes a block be recycled during
  a callback.
* *Queue*: a quota of one is exceeded with two commands, so that the quota's own
  halt happens with another command pending; two commands are enough for one to be
  running while the other waits on a semaphore or for its time, or is halted by
  it; waits of three seconds tell the cases of `que_next` apart.
* *Dumps*: two or three temporary names give one or two dumps between restarts, so
  that one dump finds the previous one's files; two versions tell the newest
  completed dump from the one in memory. With `overlap` a second checkpoint, or a
  shutdown's dump, starts at any point of the first.
* *Connections*: three descriptors are one before, at and behind a loop's cursor,
  and two of one player beside one of another; more descriptors only make more of
  the same neighbours.
* *Attribute cache*: the bucket has one preallocated entry and three objects want
  it, so entries are made, evicted, trimmed and reused, and a modified chain has a
  middle.
* *World*: the first world has a player with a thing, a STICKY room with a dropto
  and an exit; the second a guest inside a thing inside a going room, the exit
  hanging from that thing, whose home is the guest. Three commands are enough to
  create, fill and destroy something, and @dbck is free between them.
* *C3*: a C3i array of two and a C3 array of three are full with three and four
  units; five steps form a network, take a unit out of it and bring it back, or
  set it to the map it is on and join it again.
* *Mail*: six steps send two messages, destroy a recipient, create another one
  and send to it again.
* *Repairs*: six steps start two jobs that touch the same place, let one of them
  fail, restart the server and end both; nine are needed to mend the scenario in
  which everything can be mended. In two scenarios a later crit of a gun is damaged, so
  that it is mended while the gun is removed, repaired or reloaded over a restart.

What section 4 proves does not depend on these bounds: there the runs only show
that the properties are not vacuous and that a mistake in the code would break
them.

Symmetry is used in `connections` (descriptors and programs) and `attr_cache`
(blocks), which check no liveness; in `attr_cache` neither the operations nor the
abstract map distinguish blocks. Deadlock is checked except in `world`, `c3`,
`mail`, `mail_gone`, `repairs` and `world_damage`, whose steps are counted and run
out.

Fairness. `wheel`: the loops go on (weak fairness: callbacks return) and
`event_run` is called again and again (strong fairness, since a user could start
`event_run_by_type` in between), because every `dispatch` rearms the alarm.
`queue`: `dispatch` likewise; `do_top` is called when `select` finds no input, so
the assumption is that the main loop is idle again and again (or `active_q_chunk`
positive); commands end, since the evaluator limits them. `dump`: a process's file
operations return. Nothing is assumed of players, crashes or signals. The bounds
do not make liveness vacuous: `dispatch` goes on when the clock stands at its
bound, and the ticks of the wheel end after the last event that the bound lets be
scheduled.

Each property is checked where the code means to keep it. `DatabaseSurvives` is
checked under all faults, until a crash has cut short the input database while
@restart or Startmux overwrites it; `CheckpointKept` the same, and without signals,
@restart and overlapping dumps, since the child of a faulted server goes on beside
the new server and can take away what that has just saved, and the older of two
dumps may end last; `NeverMixed` without signals and overlapping dumps,
`HcodeIntact` without the latter, and no instance has both the end of the slave
and @restart; the accounts of the queue without @chown, @halt/all and @kick;
`NetworksAgree` while `settled`; `TextsExact` while `Addressed`; what
`JobsExclusive` and `RestartKeeps` of `Repairs` except is named in them. The reasons
are below. Two hazards are covered by half or not at all: of the early stop of
`do_second` only that the list is sorted (`WaitSorted`), not the cleared link it
follows; and `DumpEnds` says that the dumping flag does not stay set, not that
nobody clears it too early, which the slave's end does.

How long the runs that were widest take on two cores, and what they reach:
`dump` 558,229 states in 100 seconds, `c3` 292,453 in 56, `mail` 287,163 in 90,
`repairs` 245,469 in 125, `attr_cache` 37,174 in 130.

### Where the code differs from what is said of it

Two runs check a property that a comment states, and TLC finds it violated;
`PROJECT.json` quotes the text.

| run | property | what happens |
|---|---|---|
| `world_damage` | `LocationsReset` | @dbck lists an object under a place it does not say it is in; `check_misplaced_obj` has overwritten the place it should reset it to, and stores that in the object's contents instead (object.c:1347) |
| `mail_gone` | `TextKept` | a recipient is destroyed before a draft is sent: `send_mail` takes back a reference that recipient never had, and those who did receive the message read another one later (mail.c:1151) |

The modules state further properties of this kind that no run checks, because
the code does not have them either. TLC shows each with the instance named.

| property | instance | what happens |
|---|---|---|
| `ReportedPerfect` | as `wheel` | the event report (hcode/events.c:169) says events are missing while a cancelled one waits to be reaped |
| `SemaphoreExact` | as `queue_admin`, `Happens = {}`, `Purse = 4` | do_wait counts a semaphore up before the command may be refused, and not down again (cque.c:619); help SEMAPHORES says the number is that of the waiters |
| `NothingOverdue` | as `queue_admin`, `Happens = {}` | of several commands due in one second only one is released: the loop of `do_second` follows a link `give_que` has just cleared (cque.c:733; help.txt:2490 has a command wait the time asked for) |
| `RunningAtHead` | as `queue_admin`, `Happens = {"kick"}` | `@kick` from a queued command frees the running block; its `do_top` then drops a command that was not run, or finds the queue empty (cque.c:850; wizhelp.txt:414) |
| `WarpShifts` | as `queue_admin`, `Happens = {"warp"}` | `@timewarp/queue` sets the times of the wait list to `-secs` (cque.c:1049) where wizhelp @timewarp says it subtracts |
| `DepositsBacked` | as `queue_admin`, `Happens = {"haltall"}` | `@halt/all` refunds and uncounts only `Owner(NOTHING)` (cque.c:168), against help @halt |
| `QuotaRespected` | as `queue_admin`, two mortals who act, `Happens = {"chown"}` | `@chown` uncounts a thing's commands from its new owner (set.c:698) |
| `CheckpointInPlace` | faults `{"overlap"}` | two checkpoints at once can leave no output database (game.c:1035) |
| `DatabaseSurvives`, its condition dropped | faults `{"crash"}` | the machine crashes in Startmux's `cp` of the saved database, and Startmux is run again: its `mv -f` puts the part that was copied over the saved one, and copies it back (Startmux:43, :56) |
| the same | faults `{"crash", "restart"}` | a crash while @restart writes the input database, then Startmux: the part is moved over the saved one, and without a checkpoint nothing whole is left (game.c:984, Startmux:43) |
| `JobsExclusive`, for any crit of the gun | as `repairs` | a later crit of a gun is mended while `removegun` takes the gun off, in either order: damage is on the crit that was hit (mech.enhanced.criticals.c:351), and the commands compare single slots (mech.tech.commands.c:60, :435) |
| `LoadsReliable` | faults `{"signal", "restart"}` | after a fault an older database than the last complete one may be loaded (bsd.c:1324), against wizhelp signal_action |
| `NeverMixed` | faults `{"slave", "restart"}` | the end of the slave clears the dumping flag (bsd.c:1247), and @restart and the dump child write the same files |
| `ProgramShared` | as `connections`, `PipedLogout = TRUE` | who logs out with `\|LOGOUT` from within an @program keeps it on the descriptor, and the program is still there when no player has it (netcommon.c:1921, predicates.c:911) |
| `OneNetwork` | as `c3` | a unit is taken off its map before its networks are cleared (mech.restrict.c:142), so the others keep naming it and it may join a second network, against mech.c3i.c:255 ("can't be in two at the same time") |
| `RepairsSaved` | as `repairs` | `loadrepairs` has no case for resealing, so the job and its materials are lost, and reloads the repair of a gun with several broken crits as one that mends the first only; glue.c:1297 calls ending repairs before a restart "no longer neccessary" |

Smaller things met while reading, which no property is about:

* @mail/nuke leaves the heads of all mailboxes in the hash table (mail.c:1230);
  @mail/debug fix enters a mailbox under the wizard's key (mail.c:1296);
  a destroyed player's mail is wiped in his current folder only (object.c:681).
* @destroy tells a player who destroys an exit of his own that it begins to
  crumble, but does not mark it as going: s_Going stands in the branch for other
  people's exits (create.c:848; help.txt:1189). @dbck/full reports an owner that
  is going as "Set to GOD" and stores the same owner again (object.c:1055).
* `fix` refuses a small gun that is only jammed (the list shows it, and the
  command says nothing is wrong with it); a failed removal says "Consider the
  part gone." and leaves it; unloading an empty bin yields a ton of ammunition
  and a new bin costs nothing; a failed patch of one point still fixes it; an arm
  can be reattached while its torso is being removed, and goes with it.
* `cache_trim` frees entries one by one that `cache_init` has allocated in one piece
  (udb_ocache.c:251, :282). A FETCH that finds no room because another
  object's write failed cannot be told from one of an attribute that is not set.
* In the list of damages the line of a later crit of a gun makes the loop skip the
  slots that follow, as if it were the first (mech.tech.damages.c:139).
* `mech_Rsetmapindex` from no map to no map reads an uninitialised pointer for its
  log (mech.restrict.c:150).
* `loadrepairs` skips a missing unit without reading the next one's number
  (mech.tech.saverepair.c:77); a technician's dbref of 32768 or more overflows the
  integer it is packed in (mech.tech.h:96); event types 53 to 55 have two
  names each (mech.events.h:102).
* The fault handler's exec leaves the old dump child running (bsd.c:1330); mail and
  channel databases are rewritten in place by every dump (game.c:1078), with no
  second copy; after a failed fork the dumping flag stays set (game.c:1186).
* While input arrives in every cycle of the main loop the queue is served with
  `active_q_chunk`, and with 0 never (bsd.c:431).

## 4. Proofs

Every theorem holds for all values of the constants that satisfy the named
assumptions. The models' bounds (`MaxAdded`, `MaxSteps`,
`MaxNow`, ...) are constants too, so that they bound nothing in a proof. TLC has
checked every property before, and evaluates the assumptions in the runs.

### The event library

`EventWheelProofs`, from `EventsAssumption` (the null pointer is not a block),
`SizeAssumption` (the wheel has a slot) and `BoundsAssumption`:

* `TypeCorrect`: `Spec => []TypeOK`
* `ListsAlwaysAgree`: `Spec => []ListsAgree`
* `CursorsNeverDangle`: `Spec => []CursorsLinked`
* `NothingOverlooked`: `Spec => []NeverLate`
* `NothingLost`: `Spec => []NoEventLost`
* `QueriesAlwaysExact`: `Spec => []QueriesExact`
* `TimerImplemented`: `Spec => ImplementsTimer`

None of the invariants is inductive alone, and the inductive invariant `IInv` is
their conjunction. `RunReturn` keeps `CursorsLinked` only because no list holds a
block twice (deleting `e` then leaves `e2` where it was) and because `e2` is
exactly the block behind `e`. It keeps `NeverLate` because what is ahead of `e2`
is what was ahead of `e`, less `e`. `event_add` keeps `NeverLate` because the
new tick is later than the present one, and `ListsAgree` because a free block is
in none of the lists. `NoEventLost` needs that deleting shortens the main list
by exactly one, that is, that the block is on it once.

The refinement takes the step of the wheel that begins a callback to the step of
`TimerService` that runs an event, `event_add` and the removals to its schedule
and cancel, the beginning of `event_run`, which counts the tick up, to a tick of
its clock, and all else to stuttering or the return. That the abstract clock may
tick needs `NeverLate`: when no `event_run` is under way the ticks of all live
events lie ahead.

The queries are loops over the list of a type. The nearest and the furthest tick
are functions of the turn, `last[i]` after the first i places, and induction over
the turns, as a fact about a set of numbers (`Induct` of `ListSelectionProofs`),
shows what they are in each. That places of the list are the same as events
asked about (`PlacesFacts`) needs that the list has each once.

The first part of the module is about sequences alone: what `Link` and `Unlink`
do to the elements, to the block behind another, and to the blocks a loop has
still to visit (`LinkSet`, `LinkKeepsCursor`, `UnlinkSet`, `AheadNext`,
`AheadUnlink`). The rest has one lemma per action, with one step per
conjunct of `IInv`; `DeleteAtCursor` is shared by the two actions that delete.

### The command queue

`CommandQueueProofs`, from `ObjectsAssumption` (who is a player, a thing, a
semaphore attribute) and `CostAssumption` (quota, deposits and bounds are natural
numbers):

* `TypeCorrect`: `Spec => []TypeOK`
* `WaitQueueSorted`: `Spec => []WaitSorted`
* `WaitersCounted`: `Spec => []SemaphoreCovers`
* `NeverOverslept`: `Spec => []NoOversleep`
* `RunningCommandKept`: without @kick, `Spec => []RunningAtHead`
* `QuotaKept`: without @chown, `Spec => []QuotaRespected`
* `MoneyKept`: without @chown, `Spec => []NoFreeMoney`

The two hypotheses are about the constant `Happens`, and they are needed: with
@kick or @chown TLC shows the property violated (section 3). @halt/all, @timewarp,
@disable and all else may happen in all seven.

`Sound` (each list holds blocks of its kind; counts, semaphores and money are
numbers; the stack of `do_top`s names executable blocks) is inductive by itself,
and each of the others is inductive with it: `Sorted` of the wait list; `Covered`,
the number of waiters of each semaphore against its count; `Looped`, the running
block at the head of the list and one `do_top` at most. Quota and money are
inductive only together (`Fair`): a refund is safe because the command it is for
was counted, and a command is counted because it was paid for. Every action of a
player is summed up by `Settled`: there is one number n such that n commands were
uncounted and n deposits returned, and at least n fewer are pending.

Halting and draining take some elements out of a list, which `ListSelection`
says with one operator, `Pick`. Its lemmas (a selection of a sorted list is
sorted; what a selection and its complement count is what the list counts) are
proved through the bijection between the places chosen and 1..n, so that no
induction over lists is needed.

### The dumps

`DbDumpProofs`, from `ProcsAssumption`, `TempsAssumption` (the temporary names are
different from each other and from the other files) and `ScenariosAssumption`:

* `TypeCorrect`: `Spec => []TypeOK`
* `HcodeSafe`: `Spec => [](Orderly => HcodeIntact)`
* `DatabaseSafe`: `Spec => [](Orderly => DatabaseSurvives)`
* `CheckpointSafe`: `Spec => [](Orderly => CheckpointKept)`
* `WritersApart`: `Spec => [](Orderly => NeverMixed)`

`Orderly` says that in the behaviour at hand checkpoints do not overlap, and that
@restart does not come together with signals or the end of the slave; crashes of
the machine, failing forks and any number of dumps may happen. Outside of it most of
the properties do not hold (section 3). `DatabaseSurvives` and `CheckpointKept` end
where a crash cuts short the input database that @restart or Startmux is overwriting
(`torn`): then the next Startmux may move the part over the only whole database.

What makes them inductive is `Sound`: what a process has still to do is a suffix
of one of the programs of game.c, glue.c or Startmux (`Program`, `Fits`), in
which, for instance, a file is renamed only after it was closed. `AtMostOne` says
that no two processes are about to save the hcode database, and without signals
only one is at work at all; `Apart`, that a file is written under the name it was
opened with and is whole when it is to be renamed. On top of these each theorem
has an invariant that says, from the operations to come, where the data is now: `HcodeKept`, `StartKept`, `NewestKept`, `Unmixed`.

### The connections

`ConnectionsProofs`, from `NamesAssumption` (the null pointers are nobody) and
`BoundsAssumption` (the descriptors are finitely many, the quotas are numbers):

* `TypeCorrect`: `Spec => []TypeOK`
* `ListsStayExact`: `Spec => []ListsExact`
* `OnlineStaysExact`: `Spec => []OnlineExact`
* `WalksStayExact`: `Spec => []WalkExact`
* `ProgramsStayShared`: without `PipedLogout`, `Spec => []ProgramShared`

The hypothesis of the last is about a constant, and needed (section 3).

The chains are what one reads along the links (`Path`), and the lemmas of
`ListSelectionProofs` say what writing a link does to them: cutting an element
out by its neighbours (`PathCut`, `BackCut`), pushing one in front (`PathPush`).
`IInv` is `Sound(net)` and `WalkOK(net, walk)`. `Sound` says that the list is
linked both ways and has the open descriptors, the chain of each player those of
the player, and that flags and programs agree with them. `WalkOK` says where the
loop in progress will get: following `next` from the pointer it has kept leads
along a list that has each open descriptor it has still to visit. `Keeps` is
what a command may do to such a list: some of its descriptors close, and the
links that lead past them are those of the others, since shutdownsock leaves the
links of what it frees as they are. Every effect of a command, several boots
included, is shown to be `Sound` and `Keeps` before the loops are considered.

### The attribute cache

`AttrCacheProofs`, from `NamesAssumption` and `SizesAssumption` (there is a
bucket, the entries are finitely many, and cache_init can allocate its own):

* `CacheStaysSound`: `Spec => []CacheSound`
* `HeldStaysCached`: `Spec => []HeldStays`
* `MapImplemented`: `Spec => ImplementsMap`

`IInv` says that there are lists for the chains (`Listed`: linked both ways, with
the tail where it should be, no entry in two), whose entries are what they should
be (`Contents`: in the bucket of their object, no object twice, on disk if they
may be dropped), and an owner for each entry in use so that the buckets' counts
are right (`Counted`); and that the objects held are in an active chain. Each
operation on links, the two splices of cache_reset included, is one on lists;
loops (initialisation, trimming, SYNC) are functions of the turn whose
states `LoopExists` provides and `LoopKeeps` bounds.

For the refinement each action is summed up by `Outcome`: what FETCH would answer
for each object, and which of the objects' records the disk has now. `Got` is
the outcome for one object, `Kept` and `Lost` are those of writing back, with the
object that is lost when gdbm refuses. `MapSteps` takes each outcome to an
action of `AttrMap`; a FETCH that was refused is a `Lose`. What STORE and DELETE do to one attribute and leave of the
others follows from the binary search: `SearchLocates` proves, from what the
bounds of the search enclose in each turn (`Narrowed`), that it finds the
attribute or its place.

### The C3 networks

`C3NetworksProofs`, from `C3Assumption` (the array sizes are positive, the
equipment of a unit is a C3i computer or a number of masters):

* `ArraysAlwaysSound`: `Spec => []ArraysSound`
* `NetworksAlwaysAgree`: `Spec => []NetworksAgree`

For the first, `IInv` says of each array what the property says, of one with a
size of -1 too, since it will be used again. Between two validations an array may
have gaps (`Draft`); `KeptOK` says that validating packs it. That a copy never
runs past the end of an array is `ReplicaFacts`: the destination is named in the
source's array, so that the copy, which has the source in its place, is not longer.

Agreement alone is not inductive: each array is trimmed to what its masters carry
without regard to the others, and if one were trimmed and another not, they would
differ. A unit that is set to the map it is on, while somebody uses it, ends
`settled`, since its own array is empty then and the others' are not; if nobody uses
it, nobody's network changes. The inductive invariant `AInv` adds `Carried`: a network with n units has
at least (n - 1) / 3 working masters, so that no trimming takes anybody away. A
join keeps it since `HasRoom` counts the masters of the network, of the unit
joined and of the one that joins; leaving keeps it, because losing a master ends
`settled`. The proof is about the set of units that each unit can use (`Use`):
`ValidateUse`, `LeaveUse`, `AddKeeps` say what each operation on arrays does to
those sets, and one lemma per action follows.

### The repairs

`RepairsProofs`, from `HullAssumption` (among others, that a unit has finitely many
parts), `ScenariosAssumption` (the unit is within its hull at the start) and, for
the last two, `ServiceAssumption` (the sections are those of a 'Mech's left side
and have internals, the arm has no rear armor, and damage at the start is such as
the game deals):

* `TypeCorrect`: `Spec => []TypeOK`
* `JobsApart`: `Spec => []JobsExclusive`
* `JobsSurvive`: `Spec => []RestartKeeps`
* `ListTruthful`: `Spec => []TableExact`
* `MaterialsKept`: `Spec => []MaterialsConserved`

`IInv` of this module is `Exclusive` (the jobs are well-formed, no two of them
clash and none undoes another, and the unit is shut down while there are any) and `Bounded` (no
section is better than new). `JobsExclusive` counts jobs of a slot; the invariant
says that two that clash are one, where a gun's repair clashes with another at the
same crit only. `ListTruthful` needs `TInv`: besides, the unit
stays `Serviceable`, and a job that mends internals has something to mend
(`Fixing`). The arm is excepted there, since an arm whose internals are being
mended may go with its torso meanwhile; the list is right even so.

`MaterialsConserved` is not inductive: it forgets what a job under way still
holds. A gun that is being taken off, or mended, may go with its section before the
job ends, and the job brings it back all the same. `Balanced` counts such parts too:
of each kind, what is stored, what is mounted or about to be saved (`Owned`) and
what is being mounted (`Coming`) is at most what there was at first, and likewise
for the points of armor and internals. Every step leaves each of these stocks as it
is or lowers it (`NoMore`): one lemma for each command (its payment covers what its
job promises, and a failure gives back less than was paid), one for each event
(`EventStock`), one for a restart (`RestartStock`, `loadrepairs` makes up no job). `MInv`
is `IInv` and `Balanced`. The jobs that exclude each other matter here: were a gun
repaired and removed at once, it would be counted, and come back, twice. (Mending the
damage of a later crit, which may go with it, makes no gun out of a lost one.) That every
section has internals matters as well: a failure to mend none would return a point.

Amounts are added up with `SumFunction` of the community modules, which is a
recursion on the set of arguments. Its unfolding (`SumUnfolds`) and the existence of
the function it chooses (`AddsExists`) give what the proof uses: a sum changes by what
one of its values changes (`SumChange`), and a new argument adds its value
(`SumInsert`).

### Only model-checked

* All liveness properties (`EventuallySettled`, `EventuallyDrained`, `DumpEnds`):
  the prover has no rules for fairness.
* `Mail` (with `SafeKept`): no proofs yet. The folds over a mailbox would have to
  become loops, as those of `EventWheel` and `AttrCache` have.
* `World` (with `DbckKeeps`), which follows its chains with recursive operators; the
  prover cannot take these at all. `Path` could replace them where chains are
  sound, but `World` is about chains that are not.

## 5. Plan

Done: `EventWheel` and `AttrCache` with their abstract specifications,
`CommandQueue`, `DbDump`, `Connections`, `C3Networks` and `Repairs`, modelled and
proved; `World` and `Mail`, modelled.

To be modelled next:

1. *Unit power and movement*: starting up, shutting down, standing, lowering and
   the events they guard each other with, among them the types 53 to 55 that two
   parts use for different things; as users of `TimerService`.
2. *Special objects*: creation, disposal and update, with who schedules events
   about a unit that another unit's data names; the balanced tree they are kept in
   against sets of keys.
3. *Carriers*: units in bays of others, over destruction and restart.
4. *Channels*: memberships in the player's and in the channel's table at once.
5. *Connections*: the output queue's limit and the slave's late answers.
6. *Damage transfer* between sections, as an operator against a reference.

Theorems planned, in this order:

1. `Mail`: type correctness and `BoxesExact`, then `TextsExact` with the numbers of
   readers;
2. `World`: `NoDangling`, after its chains are stated with `Path`.

## 6. Not modelled

The map from definitions to source lines covers about a twelfth of the code. Most
of the rest has no state that outlives a command, or none whose correctness
depends on the order of things:

* *Softcode* (functions.c, funceval.c, eval.c, command.c, match.c, regexp.c,
  boolexp.c): recursion over text. Its effects on the state are those of the
  commands modelled.
* *Display, help, logging, configuration, names*: formatting and parsing.
* *The files' format* (db_rw.c and the encoding of attribute records): `DbDump`
  has whole and cut files, `AttrCache` records that are written or not.
* *Combat, critical hits, weapons, movement, maps, line of sight, sensors,
  weather, autopilots*: floating-point geometry, dice and tables. What they do to
  networks is in `C3Networks`, to the event library in `EventWheel`.
* *Unit templates, status displays, character generation, economy*: data.
* *Channels, macros, the tree of special objects, carriers, power and movement
  events*: planned, above.
* *The slave, output queues, WHO*: they change nothing the modules keep.
* *Memory exhaustion and a full disk*: the code ends the process in most places.

`PROJECT.json` gives the reason for each component.
