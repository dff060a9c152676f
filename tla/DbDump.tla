------------------------------- MODULE DbDump -------------------------------
(***************************************************************************)
(* Saving and loading the database: dump_database_internal and its callers *)
(* in src/game.c, SaveSpecialObjects in src/hcode/glue.c, @restart, the    *)
(* signal handler of src/bsd.c, and game/Startmux.                         *)
(*                                                                         *)
(* A dump is a straight line of file operations, done by a forked child    *)
(* for a checkpoint and by the server itself otherwise.  Each process has  *)
(* the list of operations it still has to do; one step does the first, so  *)
(* the operations of all processes interleave and a machine crash may come *)
(* between any two.  The contents of a file are the version of the world   *)
(* it holds and whether it is whole.                                       *)
(*                                                                         *)
(* Modelled is the uncompressed database with fork_dump, the defaults, and *)
(* what is in the files netmux writes; operations done survive a crash.    *)
(* "mail" stands for mail_db and commac_db, rewritten one after the other. *)
(***************************************************************************)
EXTENDS Integers, Sequences, FiniteSets

CONSTANTS
    Server,        \* the netmux process
    Children,      \* processes fork_and_dump may fork
    TempNames,     \* the files outdb.#0#, outdb.#1#, ...
    Scenarios      \* [faults, dumps, versions]: hazards that happen, and bounds on
                   \* the dumps between two restarts and on the versions of the world

Procs == Children \cup {Server}
Hazards == {"crash", "signal", "restart", "overlap", "slave", "nofork"}

Temps == {TempNames[i] : i \in DOMAIN TempNames}
Databases == {"indb", "outdb", "prev", "save"} \cup Temps
Others == {"KILLED", "CRASH", "mail", "hcode", "hcode.tmp",
           "hcode.prev", "hcode.KILLED", "hcode.CRASHED"}
Files == Databases \cup Others
NoFile == "none"

ASSUME ProcsAssumption == Server \notin Children
ASSUME TempsAssumption ==
    /\ TempNames # <<>>
    /\ Temps \cap (Others \cup {"indb", "outdb", "prev", "save", NoFile}) = {}
    /\ TempNames \in Seq(Temps)
    /\ \A i, j \in DOMAIN TempNames : TempNames[i] = TempNames[j] => i = j
ASSUME ScenariosAssumption ==
    Scenarios \subseteq [faults : SUBSET Hazards, dumps : 0..Len(TempNames) - 1, versions : Nat \ {0}]

VARIABLES
    disk,       \* contents of each file
    todo,       \* operations each process still has to do
    at,         \* the file each process has open for writing
    snap,       \* the version of the world each process writes
    up,         \* the server has loaded a database and serves players
    version,    \* the version of the world in the server's memory
    stamp,      \* the newest version there has been
    epoch, dumping,    \* mudstate
    scenario,   \* the faults and bounds of this behaviour
    reliable,   \* history: the newest version that a dump has saved in full
                \* since the last load, or that load's
    torn        \* history: a crash has cut short the input database, which
                \* @restart and Startmux overwrite in place

happens == scenario.faults
procs == <<todo, at, snap>>
memory == <<up, version, stamp, epoch, dumping>>
vars == <<disk, procs, memory, scenario, reliable, torn>>
-----------------------------------------------------------------------------
Absent == [v |-> 0, state |-> "absent"]
Whole(v) == [v |-> v, state |-> "whole"]
Partial(v) == [v |-> v, state |-> "partial"]   \* cut short if it stays so
Mixed(v) == [v |-> v, state |-> "mixed"]       \* written by two at a time

Exists(f) == disk[f].state # "absent"
IsWhole(f) == disk[f].state = "whole"

Op(op, f, g) == <<[op |-> op, f |-> f, g |-> g]>>
Unlink(f) == Op("unlink", f, f)
Rename(f, g) == Op("rename", f, g)
Write(f) == Op("open", f, f) \o Op("close", f, f)
Finish(op) == Op(op, NoFile, NoFile)

Temp(e) == TempNames[e + 1]

(* Mutant: the old file is overwritten in place. *)
SaveSpecialObjectsInPlace(type) == Write("hcode")

SaveSpecialObjects(type) ==
    CASE type = "KILLED"  -> Write("hcode.KILLED")
      [] type = "CRASHED" -> Write("hcode.CRASHED")
      [] OTHER -> Write("hcode.tmp") \o Rename("hcode", "hcode.prev")
                                     \o Rename("hcode.tmp", "hcode")

(* Mutant: the predecessor is removed, not kept. *)
NormalDumpNoPrev(e) ==
    Unlink("outdb") \o Write(Temp(e)) \o Rename(Temp(e), "outdb")

(* The object database of a checkpoint or a shutdown. *)
NormalDump(e) ==
    (IF e > 0 THEN Unlink(Temp(e - 1)) ELSE <<>>)
      \o Write(Temp(e)) \o Rename("outdb", "prev") \o Rename(Temp(e), "outdb")

(* Mutant: every dump but a checkpoint overwrites the input database. *)
dump_database_internal_InPlace(type, e) ==
    (IF type = "NORMAL" THEN NormalDump(e) ELSE Write("indb"))
      \o Write("mail") \o SaveSpecialObjects(type)

dump_database_internal(type, e) ==
    (CASE type = "CRASHED" -> Unlink("CRASH") \o Write("CRASH")
       [] type = "RESTART" -> Write("indb")
       [] type = "KILLED"  -> Write("KILLED")
       [] type = "NORMAL"  -> NormalDump(e))
      \o Write("mail") \o SaveSpecialObjects(type)
-----------------------------------------------------------------------------
Begin(p, ops) ==
    /\ todo' = [todo EXCEPT ![p] = ops]
    /\ snap' = [snap EXCEPT ![p] = IF up THEN version ELSE @]
    /\ UNCHANGED <<at, disk, reliable>>

Idle(p) == todo[p] = <<>>
Serving == up /\ Idle(Server)
Dumping == \E c \in Children : ~Idle(c)

(* Play changes the world. *)
Play ==
    /\ Serving
    /\ stamp < scenario.versions
    /\ stamp' = stamp + 1
    /\ version' = stamp + 1
    /\ UNCHANGED <<disk, procs, up, epoch, dumping, reliable>>

(* A checkpoint, by the timer or @dump: nothing here looks at dumping.  If  *)
(* the fork fails dumping stays set.                                        *)
fork_and_dump ==
    /\ Serving
    /\ epoch < scenario.dumps
    /\ Dumping => "overlap" \in happens
    /\ epoch' = epoch + 1
    /\ dumping' = TRUE
    /\ \/ \E c \in Children :
            /\ Idle(c)
            /\ Begin(c, dump_database_internal("NORMAL", epoch + 1)
                          \o Finish("exit"))
       \/ /\ "nofork" \in happens
          /\ UNCHANGED <<disk, procs, reliable>>
    /\ UNCHANGED <<up, version, stamp>>

(* Mutant: @restart does not look at dumping. *)
MayRestartAlways == TRUE

MayRestart == ~dumping

(* @restart, or SIGUSR1. *)
do_restart ==
    /\ "restart" \in happens
    /\ Serving
    /\ MayRestart
    /\ Begin(Server, dump_database_internal("RESTART", epoch) \o Finish("exec"))
    /\ UNCHANGED memory

(* @shutdown: the main loop ends and dump_database is called. *)
dump_database ==
    /\ Serving
    /\ epoch < scenario.dumps
    /\ Dumping => "overlap" \in happens
    /\ epoch' = epoch + 1
    /\ dumping' = TRUE
    /\ Begin(Server, dump_database_internal("NORMAL", epoch + 1)
                       \o Finish("exit"))
    /\ UNCHANGED <<up, version, stamp>>

(* sighandler: SIGTERM, and the signals of a fault. *)
sighandler_term ==
    /\ "signal" \in happens
    /\ Serving
    /\ Begin(Server, dump_database_internal("KILLED", epoch) \o Finish("exit"))
    /\ UNCHANGED memory

sighandler_fault ==
    /\ "signal" \in happens
    /\ Serving
    /\ Begin(Server, dump_database_internal("CRASHED", epoch)
                       \o Rename("outdb", "indb") \o Finish("exec"))
    /\ UNCHANGED memory

(* Mutant: the handler reaps the child and forgets the flag. *)
sighandler_chld_Kept == UNCHANGED dumping

(* sighandler, SIGCHLD: whatever child has ended, the dump is over. *)
sighandler_chld == dumping' = (dumping /\ ~up)

(* The process that looks up host names ends, or @startslave replaces it. *)
SlaveDies ==
    /\ "slave" \in happens
    /\ up
    /\ sighandler_chld
    /\ UNCHANGED <<disk, procs, up, version, stamp, epoch, reliable>>
-----------------------------------------------------------------------------
(* The first operation of a process.                                        *)
Does(p, op) ==
    /\ ~Idle(p)
    /\ Head(todo[p]).op = op
    /\ todo' = [todo EXCEPT ![p] = Tail(@)]
    /\ UNCHANGED snap

DoUnlink(p) ==
    LET f == Head(todo[p]).f
    IN  /\ Does(p, "unlink")
        /\ disk' = [disk EXCEPT ![f] = Absent]
        /\ at' = [q \in Procs |-> IF at[q] = f THEN NoFile ELSE at[q]]
        /\ UNCHANGED <<memory, reliable>>

(* fopen(f, "w") truncates; a file another process is still writing is then *)
(* written by both.                                                         *)
DoOpen(p) ==
    LET f == Head(todo[p]).f
    IN  /\ Does(p, "open")
        /\ disk' = [disk EXCEPT ![f] = IF \E q \in Procs : at[q] = f
                                         THEN Mixed(snap[p])
                                         ELSE Partial(snap[p])]
        /\ at' = [at EXCEPT ![p] = f]
        /\ UNCHANGED <<memory, reliable>>

(* The database is written and the file closed; it may have got another     *)
(* name or none meanwhile.                                                  *)
DoClose(p) ==
    LET f == at[p]
    IN  /\ Does(p, "close")
        /\ disk' = IF f # NoFile /\ disk[f].state = "partial"
                     THEN [disk EXCEPT ![f] = Whole(snap[p])] ELSE disk
        /\ at' = [at EXCEPT ![p] = NoFile]
        /\ reliable' = IF f = "indb" /\ disk'[f] = Whole(snap[p])
                         THEN snap[p] ELSE reliable
        /\ UNCHANGED memory

(* rename fails without f, and is logged.                                   *)
DoRename(p) ==
    LET f == Head(todo[p]).f
        g == Head(todo[p]).g
    IN  /\ Does(p, "rename")
        /\ IF Exists(f)
             THEN /\ disk' = [disk EXCEPT ![g] = disk[f], ![f] = Absent]
                  /\ at' = [q \in Procs |-> IF at[q] = f THEN g
                                            ELSE IF at[q] = g THEN NoFile
                                            ELSE at[q]]
             ELSE UNCHANGED <<disk, at>>
        /\ reliable' = IF f \in Temps /\ IsWhole(f) /\ disk[f].v > reliable
                         THEN disk[f].v ELSE reliable
        /\ UNCHANGED memory

(* A dump child ends with SIGCHLD to the server; the server ends.           *)
DoExit(p) ==
    /\ Does(p, "exit")
    /\ IF p = Server THEN up' = FALSE /\ dumping' = FALSE
                     ELSE sighandler_chld /\ UNCHANGED up
    /\ UNCHANGED <<disk, at, version, stamp, epoch, reliable>>

(* exec of netmux: load_game reads indb or the server exits.                *)
load_game ==
    /\ up' = IsWhole("indb")
    /\ version' = disk["indb"].v
    /\ epoch' = 0
    /\ dumping' = FALSE
    /\ reliable' = IF up' THEN version' ELSE reliable
    /\ UNCHANGED <<disk, at, stamp>>

DoExec(p) == Does(p, "exec") /\ load_game
-----------------------------------------------------------------------------
(* @restart or Startmux, which go on to run netmux, write indb.             *)
Rewriting == at[Server] = "indb" /\ \E i \in DOMAIN todo[Server] : todo[Server][i].op = "exec"

(* The machine stops.                                                       *)
Crash ==
    /\ "crash" \in happens
    /\ todo' = [p \in Procs |-> <<>>]
    /\ at' = [p \in Procs |-> NoFile]
    /\ snap' = [p \in Procs |-> 1]
    /\ up' = FALSE /\ version' = 0 /\ epoch' = 0 /\ dumping' = FALSE
    /\ torn' = (torn \/ Rewriting)
    /\ UNCHANGED <<disk, stamp, reliable>>

(* Startmux: refuses if a KILLED or CRASH database is there; the input      *)
(* database becomes the saved one; the checkpoint becomes the input         *)
(* database, or else the saved one is copied back.                          *)
Startmux ==
    /\ ~up
    /\ \A p \in Procs : Idle(p)
    /\ ~Exists("KILLED") /\ ~Exists("CRASH")
    /\ Begin(Server, Rename("indb", "save") \o Finish("checkpoint")
                       \o Op("copy", "indb", "save") \o Finish("exec"))
    /\ UNCHANGED memory

(* mv of the checkpoint, or cp opens its target.                            *)
DoCheckpoint(p) ==
    /\ Does(p, "checkpoint")
    /\ disk' = IF Exists("outdb")
                 THEN [disk EXCEPT !["indb"] = disk["outdb"], !["outdb"] = Absent]
                 ELSE IF Exists("save")
                 THEN [disk EXCEPT !["indb"] = Partial(disk["save"].v)] ELSE disk
    /\ at' = IF ~Exists("outdb") /\ Exists("save")
                THEN [at EXCEPT ![p] = "indb"] ELSE at
    /\ UNCHANGED <<memory, reliable>>

(* cp, if there is one, has copied everything.                              *)
DoCopy(p) ==
    /\ Does(p, "copy")
    /\ disk' = IF at[p] = "indb" THEN [disk EXCEPT !["indb"] = disk["save"]] ELSE disk
    /\ at' = [at EXCEPT ![p] = NoFile]
    /\ UNCHANGED <<memory, reliable>>

(* The operator moves KILLED and CRASH databases away.                      *)
Salvage ==
    /\ ~up
    /\ \A p \in Procs : Idle(p)
    /\ Exists("KILLED") \/ Exists("CRASH")
    /\ disk' = [disk EXCEPT !["KILLED"] = Absent, !["CRASH"] = Absent]
    /\ UNCHANGED <<procs, memory, reliable>>
-----------------------------------------------------------------------------
(* The server was started with Startmux and has not dumped yet.             *)
Init ==
    /\ disk = [f \in Files |->
                 IF f \in {"indb", "save", "mail", "hcode"}
                   THEN Whole(1) ELSE Absent]
    /\ todo = [p \in Procs |-> <<>>]
    /\ at = [p \in Procs |-> NoFile]
    /\ snap = [p \in Procs |-> 1]
    /\ up = TRUE
    /\ version = 1 /\ stamp = 1
    /\ epoch = 0 /\ dumping = FALSE
    /\ scenario \in Scenarios
    /\ reliable = 1
    /\ torn = FALSE

Step(p) ==
    \/ DoUnlink(p) \/ DoOpen(p) \/ DoClose(p) \/ DoRename(p)
    \/ DoExit(p) \/ DoExec(p) \/ DoCheckpoint(p) \/ DoCopy(p)

Next ==
    /\ \/ /\ \/ Play \/ fork_and_dump \/ do_restart \/ dump_database
             \/ sighandler_term \/ sighandler_fault \/ SlaveDies
             \/ \E p \in Procs : Step(p)
             \/ Startmux \/ Salvage
          /\ UNCHANGED torn
       \/ Crash
    /\ UNCHANGED scenario

Spec == Init /\ [][Next]_vars

(* Every process runs on: the operating system schedules it and its file    *)
(* operations return.                                                       *)
FairSpec == Spec /\ \A p \in Procs : WF_vars(Step(p) /\ UNCHANGED <<scenario, torn>>)
-----------------------------------------------------------------------------
Contents == [v : 0..scenario.versions, state : {"absent", "whole", "partial", "mixed"}]

(* Type correctness; a process has a file open only while it is at work.    *)
TypeOK ==
    /\ disk \in [Files -> Contents]
    /\ at \in [Procs -> Files \cup {NoFile}]
    /\ \A p \in Procs : at[p] # NoFile => ~Idle(p)
    /\ snap \in [Procs -> 1..scenario.versions]
    /\ up \in BOOLEAN /\ dumping \in BOOLEAN
    /\ stamp \in 1..scenario.versions /\ version \in 0..stamp
    /\ epoch \in 0..scenario.dumps /\ reliable \in 1..stamp
    /\ scenario \in Scenarios /\ torn \in BOOLEAN

(* No crash, signal, restart or overlap of dumps leaves the game without a  *)
(* whole object database (game.c:1061, bsd.c:1324, Startmux), except where   *)
(* the input database is rewritten in place: once a crash has cut that      *)
(* short, the next Startmux moves the rest over the saved database.         *)
DatabaseSurvives == ~torn => \E f \in Databases : IsWhole(f)

(* What a completed dump has saved stays on the disk until a newer dump has *)
(* completed, under whatever name (game.c:1065).  Excepted are a fault,     *)
(* which makes the last checkpoint the input database, @restart, which      *)
(* rewrites that, a crash in the copy Startmux makes, and dumps at a time,  *)
(* of which the older may take the newer one's place.                       *)
CheckpointKept ==
    {"restart", "signal", "overlap"} \cap happens = {} /\ ~torn
        => \E f \in Databases : IsWhole(f) /\ disk[f].v >= reliable

(* No two processes ever write the same file: the child of a checkpoint and *)
(* a restarting server share mail_db, commac_db and hcode_db.tmp            *)
(* (predicates.c:1092, glue.c:538).  The signal handler looks at nothing,   *)
(* and a shutdown or a second checkpoint not at the first one.              *)
NeverMixed ==
    {"signal", "overlap"} \cap happens = {} => \A f \in Files : disk[f].state # "mixed"

(* The hcode database, while it exists, is whole, and one generation of it  *)
(* always is: a crash during SaveSpecialObjects cuts only hcode_db.tmp,     *)
(* unless two dumps at a time write that.                                   *)
HcodeIntact ==
    "overlap" \notin happens =>
        /\ Exists("hcode") => IsWhole("hcode")
        /\ \E f \in {"hcode", "hcode.tmp", "hcode.prev"} : IsWhole(f)

(* While the server serves and no dump is under way, the checkpoints it has *)
(* made are in outdb, whole, for Startmux and the fault handler to find; a  *)
(* failed fork counts as a checkpoint that was not made.                    *)
CheckpointInPlace ==
    "nofork" \notin happens =>
        (up /\ epoch > 0 /\ ~Dumping /\ Idle(Server) => IsWhole("outdb"))

(* What wizhelp signal_action says: the game is restarted with the last     *)
(* reliably saved database.                                                 *)
LoadsReliable == [][up /\ DoExec(Server) => version' >= reliable]_vars

(* mudstate.dumping does not refuse @restart for ever, unless a fork fails. *)
DumpEnds ==
    ("nofork" \notin happens /\ up /\ dumping) ~> ~(up /\ dumping)
=============================================================================
