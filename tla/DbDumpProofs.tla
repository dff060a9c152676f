---------------------------- MODULE DbDumpProofs ----------------------------
(***************************************************************************)
(* Theorems about DbDump, for any number of dump children, any temporary    *)
(* names and any combination of hazards that a theorem does not exclude.    *)
(***************************************************************************)
EXTENDS DbDump, TLAPS

(* ---- What a process has still to do.                                     *)

Kinds == {"unlink", "open", "close", "rename", "exit", "exec", "checkpoint", "copy"}
Operation == [op : Kinds, f : Files \cup {NoFile}, g : Files \cup {NoFile}]

Has(s, op, f) == \E i \in 1..Len(s) : s[i].op = op /\ s[i].f = f

(* Files that are written under one name and then get another. *)
Fresh == Temps \cup {"hcode.tmp"}

(* What checkpoints, shutdowns and restarts do and other programs do not.   *)
Saves(s) == Has(s, "rename", "hcode.tmp")

Written == Fresh \cup {"mail"}
    \cup (IF "restart" \in happens THEN {"indb"} ELSE {})
    \cup (IF "signal" \in happens
            THEN {"KILLED", "CRASH", "hcode.KILLED", "hcode.CRASHED"} ELSE {})

MayRename(f, g) ==
    \/ f = "outdb" /\ g = "prev"
    \/ f = "outdb" /\ g = "indb" /\ "signal" \in happens
    \/ f \in Temps /\ g = "outdb"
    \/ f = "indb" /\ g = "save"
    \/ f = "hcode" /\ g = "hcode.prev"
    \/ f = "hcode.tmp" /\ g = "hcode"

(* A program that goes on to run netmux. *)
Runs(s) == \E i \in 1..Len(s) : s[i].op = "exec"

(* What the i-th operation may be, given those around it. *)
Fits(p, s, i) ==
    /\ s[i].op = "unlink" => s[i].f \in Temps \cup {"CRASH"}
    /\ s[i].op = "open" => /\ i < Len(s)
                           /\ s[i + 1].op = "close" /\ s[i + 1].f = s[i].f
    /\ s[i].op \in {"open", "close"} => s[i].f \in Written
    /\ s[i].op = "close" /\ i > 1 => s[i - 1].op = "open"
    /\ s[i].op = "rename" => MayRename(s[i].f, s[i].g)
    /\ s[i].op \in {"rename", "unlink"} =>
           \A j \in (i + 1)..Len(s) : s[j].op = "rename" => s[j].f # s[i].f
    /\ s[i].op = "rename" =>
           \A j \in (i + 1)..Len(s) : s[j].op = "close" => s[j].f # s[i].f
    /\ s[i].op \in {"exit", "exec"} => i = Len(s)
    /\ s[i].op = "checkpoint" => p = Server
    /\ s[i].op = "checkpoint" /\ i > 1 =>
           s[i - 1].op = "rename" /\ s[i - 1].f = "indb"
    /\ s[i].op = "checkpoint" => /\ i < Len(s)
                                 /\ s[i + 1].op = "copy" /\ s[i + 1].f = "indb"
    /\ s[i].op = "copy" => s[i].f = "indb"
    /\ s[i].op = "copy" /\ i > 1 => s[i - 1].op = "checkpoint"
    /\ s[i].op = "exec" /\ i > 1 =>
           {"restart", "signal"} \cap happens # {} \/ s[i - 1].op = "copy"
    /\ s[i].f = "indb" \/ s[i].g = "indb" => p = Server
    /\ s[i].f \in Fresh =>
           \E j \in i..Len(s) : s[j].op = "rename" /\ s[j].f = "hcode.tmp"
    /\ s[i].f = "indb" => \E j \in i..Len(s) : s[j].op = "exec"

Program(p, s) == s \in Seq(Operation) /\ \A i \in 1..Len(s) : Fits(p, s, i)

(* ---- The parts of the invariant.                                         *)

(* Versions are no newer than the newest; who has a file open is about to   *)
(* close one or is copying it.                                              *)
Sound ==
    /\ \A f \in Files : disk[f].v <= stamp /\ (IsWhole(f) => disk[f].v >= 1)
    /\ \A p \in Procs : snap[p] <= stamp
    /\ todo \in [Procs -> Seq(Operation)]
    /\ \A p \in Procs : Program(p, todo[p])
    /\ \A p \in Procs : at[p] # NoFile =>
           ~Idle(p) /\ Head(todo[p]).op \in {"close", "copy"}
    /\ up => version >= 1

TypeInv == TypeOK /\ Sound

(* The server's programs do not run into those of a dump child. *)
Orderly ==
    /\ "overlap" \notin happens
    /\ "restart" \in happens => {"slave", "signal"} \cap happens = {}

(* No two processes are at work at all. *)
Quiet == Orderly /\ "signal" \notin happens

AtMostOne ==
    /\ Orderly => \A p, q \in Procs : Saves(todo[p]) /\ Saves(todo[q]) => p = q
    /\ Quiet => \A p, q \in Procs : ~Idle(p) /\ ~Idle(q) => p = q
    /\ Orderly /\ "restart" \in happens => (up /\ Dumping => dumping)

(* A file is written under the name it was opened with, and whole when it   *)
(* is to be renamed.                                                        *)
InHand(p, f) ==
    Has(todo[p], "rename", f) =>
        /\ Head(todo[p]).op = "close" /\ Head(todo[p]).f = f
             => at[p] = f /\ disk[f].state = "partial"
        /\ ~Has(todo[p], "close", f) => disk[f] = Whole(snap[p])

Apart ==
    Orderly =>
        /\ \A p \in Procs : at[p] # NoFile => at[p] = Head(todo[p]).f
        /\ \A p \in Procs, f \in Fresh : InHand(p, f)

Inv1 == TypeInv /\ AtMostOne /\ Apart

HcodeKept ==
    Orderly => /\ disk["hcode"].state \in {"absent", "whole"}
               /\ IsWhole("hcode") \/ IsWhole("hcode.prev")

(* Until a crash cuts the input database short, only the server that writes *)
(* it has it partial, and the saved one is whole.                           *)
StartKept ==
    Orderly /\ ~torn =>
        /\ disk["outdb"].state \in {"absent", "whole"}
        /\ at[Server] # "indb" => disk["indb"].state \in {"absent", "whole"}
        /\ at[Server] = "indb" => disk["indb"].state = "partial"
        /\ IsWhole("save")
        /\ \A p \in Procs : ~Idle(p) /\ Head(todo[p]).op = "checkpoint" =>
               ~Exists("indb")

Keeps(f) == IsWhole(f) /\ disk[f].v >= reliable

NewestKept ==
    Orderly /\ {"restart", "signal"} \cap happens = {} /\ ~torn =>
        /\ Exists("outdb") => Keeps("outdb")
        /\ \/ Exists("outdb") \/ Keeps("prev") \/ Keeps("indb")
           \/ Keeps("save") /\ (~Exists("indb") \/ at[Server] = "indb")
        /\ up => version >= reliable
        /\ \A p \in Procs, f \in Temps :
               Has(todo[p], "rename", f) =>
                   /\ snap[p] >= reliable
                   /\ up => snap[p] <= version
        /\ \A p \in Procs : ~Idle(p) /\ Head(todo[p]).op \in {"copy", "exec"} =>
               ~Exists("outdb")

Unmixed == Quiet => \A f \in Files : disk[f].state # "mixed"
-----------------------------------------------------------------------------
(* Sequences of operations: what the operators of DbDump build, and what is *)
(* left when the first is done.                                             *)

LEMMA TailOf ==
    ASSUME NEW s \in Seq(Operation), s # <<>>
    PROVE  /\ Tail(s) \in Seq(Operation)
           /\ Head(s) = s[1] /\ Head(s) \in Operation
           /\ Len(s) \in Nat /\ Len(s) >= 1
           /\ Len(Tail(s)) = Len(s) - 1
           /\ \A i \in 1..Len(s) - 1 : Tail(s)[i] = s[i + 1]
           /\ Tail(s) # <<>> => Len(s) > 1 /\ Head(Tail(s)) = s[2]
  OBVIOUS

LEMMA TailHas ==
    ASSUME NEW s \in Seq(Operation), s # <<>>, NEW op, NEW f
    PROVE  /\ Has(Tail(s), op, f) => Has(s, op, f)
           /\ Has(s, op, f) =>
                  Has(Tail(s), op, f) \/ (Head(s).op = op /\ Head(s).f = f)
<1> DEFINE t == Tail(s)
<1>1. /\ Len(s) \in Nat /\ Len(s) >= 1 /\ Len(t) = Len(s) - 1 /\ Head(s) = s[1]
      /\ \A i \in 1..Len(s) - 1 : t[i] = s[i + 1]
  BY TailOf
<1> HIDE DEF t
<1>2. ASSUME Has(t, op, f) PROVE Has(s, op, f)
  <2>1. PICK i \in 1..Len(t) : t[i].op = op /\ t[i].f = f
    BY <1>2 DEF Has
  <2>2. i + 1 \in 1..Len(s) /\ s[i + 1] = t[i]
    BY <1>1, <2>1
  <2> QED
    BY <2>1, <2>2 DEF Has
<1>3. ASSUME Has(s, op, f), ~(Head(s).op = op /\ Head(s).f = f)
      PROVE  Has(t, op, f)
  <2>1. PICK i \in 1..Len(s) : s[i].op = op /\ s[i].f = f
    BY <1>3 DEF Has
  <2>2. i # 1
    BY <1>1, <1>3, <2>1
  <2>3. i - 1 \in 1..Len(t) /\ t[i - 1] = s[i]
    BY <1>1, <2>1, <2>2
  <2> QED
    BY <2>1, <2>3 DEF Has
<1> QED
  BY <1>2, <1>3 DEF t

LEMMA TailFits ==
    ASSUME NEW p \in Procs, NEW s, Program(p, s), s # <<>>
    PROVE  Program(p, Tail(s))
<1> DEFINE t == Tail(s)
<1>1. s \in Seq(Operation) /\ \A i \in 1..Len(s) : Fits(p, s, i)
  BY DEF Program
<1>2. /\ t \in Seq(Operation)
      /\ Len(s) \in Nat /\ Len(s) >= 1 /\ Len(t) = Len(s) - 1
      /\ \A i \in 1..Len(s) - 1 : t[i] = s[i + 1]
  BY <1>1, TailOf
<1> HIDE DEF t
<1>3. ASSUME NEW i \in 1..Len(t) PROVE Fits(p, t, i)
  <2>1. /\ i + 1 \in 1..Len(s) /\ t[i] = s[i + 1]
        /\ i > 1 => t[i - 1] = s[i]
        /\ i < Len(t) => t[i + 1] = s[i + 2]
        /\ \A j \in i..Len(t) : j + 1 \in (i + 1)..Len(s) /\ t[j] = s[j + 1]
        /\ \A j \in (i + 1)..Len(s) : j - 1 \in i..Len(t) /\ t[j - 1] = s[j]
    BY <1>2
  <2>2. Fits(p, s, i + 1)
    BY <1>1, <2>1
  <2>3. s[i + 1].f \in Fresh =>
           \E j \in i..Len(t) : t[j].op = "rename" /\ t[j].f = "hcode.tmp"
    <3>1. SUFFICES ASSUME s[i + 1].f \in Fresh
          PROVE \E j \in i..Len(t) : t[j].op = "rename" /\ t[j].f = "hcode.tmp"
      OBVIOUS
    <3>2. PICK j \in (i + 1)..Len(s) : s[j].op = "rename" /\ s[j].f = "hcode.tmp"
      BY <2>2, <3>1 DEF Fits
    <3> QED
      BY <2>1, <3>2
  <2>4. s[i + 1].op \in {"rename", "unlink"} =>
           \A j \in (i + 1)..Len(t) : t[j].op = "rename" => t[j].f # s[i + 1].f
    <3>1. \A j \in (i + 1)..Len(t) : j + 1 \in (i + 1 + 1)..Len(s) /\ t[j] = s[j + 1]
      BY <1>2
    <3>2. s[i + 1].op \in {"rename", "unlink"} =>
             \A k \in (i + 1 + 1)..Len(s) : s[k].op = "rename" => s[k].f # s[i + 1].f
      BY <2>2 DEF Fits
    <3> QED
      BY <3>1, <3>2
  <2>6. s[i + 1].op = "rename" =>
           \A j \in (i + 1)..Len(t) : t[j].op = "close" => t[j].f # s[i + 1].f
    <3>1. SUFFICES ASSUME s[i + 1].op = "rename",
                          NEW j \in (i + 1)..Len(t), t[j].op = "close"
          PROVE  t[j].f # s[i + 1].f
      OBVIOUS
    <3>2. j + 1 \in (i + 1 + 1)..Len(s) /\ t[j] = s[j + 1]
      BY <1>2
    <3>3. \A k \in (i + 1 + 1)..Len(s) : s[k].op = "close" => s[k].f # s[i + 1].f
      BY <2>2, <3>1 DEF Fits
    <3> QED
      BY <3>1, <3>2, <3>3
  <2>5. s[i + 1].op = "open" => /\ i < Len(t)
                               /\ t[i + 1].op = "close" /\ t[i + 1].f = s[i + 1].f
    BY <1>2, <2>1, <2>2 DEF Fits
  <2>7. s[i + 1].op = "checkpoint" => /\ i < Len(t)
                               /\ t[i + 1].op = "copy" /\ t[i + 1].f = "indb"
    BY <1>2, <2>1, <2>2 DEF Fits
  <2>8. s[i + 1].f = "indb" => \E j \in i..Len(t) : t[j].op = "exec"
    <3>1. SUFFICES ASSUME s[i + 1].f = "indb"
          PROVE \E j \in i..Len(t) : t[j].op = "exec"
      OBVIOUS
    <3>2. PICK j \in (i + 1)..Len(s) : s[j].op = "exec"
      BY <2>2, <3>1 DEF Fits
    <3>3. j - 1 \in i..Len(t) /\ t[j - 1] = s[j]
      BY <2>1, <3>2
    <3> QED
      BY <3>2, <3>3
  <2> QED
    BY <1>2, <2>1, <2>2, <2>3, <2>4, <2>5, <2>6, <2>7, <2>8 DEF Fits
<1> QED
  BY <1>2, <1>3 DEF Program, t

(* What the first operation of a process tells about the rest. *)
LEMMA HeadFits ==
    ASSUME NEW p \in Procs, NEW s, Program(p, s), s # <<>>,
           NEW h, h = Head(s), NEW t, t = Tail(s)
    PROVE  /\ h \in Operation
           /\ h.op = "unlink" => h.f \in Temps \cup {"CRASH"}
           /\ h.op \in {"open", "close"} => h.f \in Written
           /\ h.op = "rename" => MayRename(h.f, h.g)
           /\ h.op \in {"rename", "unlink"} => ~Has(t, "rename", h.f)
           /\ h.op = "rename" => ~Has(s, "close", h.f)
           /\ h.op \in {"exit", "exec"} => t = <<>>
           /\ h.op = "checkpoint" => p = Server
           /\ h.op = "copy" => p = Server /\ h.f = "indb"
           /\ h.f = "indb" \/ h.g = "indb" => p = Server
           /\ h.f \in Fresh => Saves(s)
           /\ h.f = "indb" => Runs(s)
           /\ t # <<>> =>
                 /\ Head(t).op = "close" => h.op = "open"
                 /\ Head(t).op = "checkpoint" => h.op = "rename" /\ h.f = "indb"
                 /\ Head(t).op = "copy" => h.op = "checkpoint"
                 /\ Head(t).op = "exec" =>
                       \/ {"restart", "signal"} \cap happens # {}
                       \/ h.op = "copy"
<1>1. s \in Seq(Operation) /\ \A i \in 1..Len(s) : Fits(p, s, i)
  BY DEF Program
<1>2. /\ Len(s) \in Nat /\ Len(s) >= 1 /\ Len(t) = Len(s) - 1
      /\ h = s[1] /\ h \in Operation
      /\ \A i \in 1..Len(s) - 1 : t[i] = s[i + 1]
      /\ t # <<>> => Len(s) > 1 /\ Head(t) = s[2]
      /\ Len(s) > 1 => t # <<>>
  BY <1>1, TailOf
<1>3. Fits(p, s, 1)
  BY <1>1, <1>2
<1>4. t # <<>> => Fits(p, s, 2)
  BY <1>1, <1>2
<1>5. h.op = "rename" => ~Has(s, "close", h.f)
  <2>1. SUFFICES ASSUME h.op = "rename", Has(s, "close", h.f)
        PROVE FALSE
    OBVIOUS
  <2>2. PICK i \in 1..Len(s) : s[i].op = "close" /\ s[i].f = h.f
    BY <2>1 DEF Has
  <2>3. i # 1
    BY <1>2, <2>1, <2>2
  <2> QED
    BY <1>2, <1>3, <2>1, <2>2, <2>3 DEF Fits
<1>6. h.op \in {"rename", "unlink"} => ~Has(t, "rename", h.f)
  <2>1. SUFFICES ASSUME h.op \in {"rename", "unlink"}, Has(t, "rename", h.f)
        PROVE FALSE
    OBVIOUS
  <2>2. PICK i \in 1..Len(t) : t[i].op = "rename" /\ t[i].f = h.f
    BY <2>1 DEF Has
  <2>3. i + 1 \in 2..Len(s) /\ s[i + 1] = t[i]
    BY <1>2, <2>2
  <2> QED
    BY <1>2, <1>3, <2>1, <2>2, <2>3 DEF Fits
<1>7. h.f \in Fresh => Saves(s)
  BY <1>2, <1>3 DEF Fits, Saves, Has
<1>10. h.f = "indb" => Runs(s)
  BY <1>2, <1>3 DEF Fits, Runs
<1>8. t # <<>> =>
         /\ Head(t).op = "close" => h.op = "open"
         /\ Head(t).op = "checkpoint" => h.op = "rename" /\ h.f = "indb"
         /\ Head(t).op = "copy" => h.op = "checkpoint"
         /\ Head(t).op = "exec" =>
               \/ {"restart", "signal"} \cap happens # {}
               \/ h.op = "copy"
  BY <1>2, <1>4 DEF Fits
<1>9. h.op \in {"exit", "exec"} => t = <<>>
  BY <1>2, <1>3 DEF Fits
<1> QED
  BY <1>2, <1>3, <1>5, <1>6, <1>7, <1>8, <1>9, <1>10 DEF Fits

(* Who opens a file closes it next; who begins a copy completes it next. *)
LEMMA HeadCopies ==
    ASSUME NEW p \in Procs, NEW s, Program(p, s), s # <<>>,
           NEW h, h = Head(s), NEW t, t = Tail(s), h.op = "checkpoint"
    PROVE  t # <<>> /\ Head(t).op = "copy" /\ Head(t).f = "indb"
<1>1. s \in Seq(Operation) /\ \A i \in 1..Len(s) : Fits(p, s, i)
  BY DEF Program
<1>2. /\ Len(s) \in Nat /\ Len(s) >= 1 /\ h = s[1]
      /\ t # <<>> => Len(s) > 1 /\ Head(t) = s[2]
      /\ Len(s) > 1 => t # <<>>
  BY <1>1, TailOf
<1>3. Fits(p, s, 1)
  BY <1>1, <1>2
<1>4. 1 < Len(s) /\ s[2].op = "copy" /\ s[2].f = "indb"
  BY <1>2, <1>3 DEF Fits
<1> QED
  BY <1>2, <1>4

LEMMA HeadOpens ==
    ASSUME NEW p \in Procs, NEW s, Program(p, s), s # <<>>,
           NEW h, h = Head(s), NEW t, t = Tail(s), h.op = "open"
    PROVE  /\ t # <<>>
           /\ Head(t).op = "close" /\ Head(t).f = h.f
           /\ Has(t, "close", h.f)
<1>1. s \in Seq(Operation) /\ \A i \in 1..Len(s) : Fits(p, s, i)
  BY DEF Program
<1>2. /\ Len(s) \in Nat /\ Len(s) >= 1 /\ Len(t) = Len(s) - 1
      /\ h = s[1]
      /\ \A i \in 1..Len(s) - 1 : t[i] = s[i + 1]
      /\ t # <<>> => Len(s) > 1 /\ Head(t) = s[2]
      /\ Len(s) > 1 => t # <<>>
  BY <1>1, TailOf
<1>3. Fits(p, s, 1)
  BY <1>1, <1>2
<1>4. 1 < Len(s) /\ s[2].op = "close" /\ s[2].f = h.f
  BY <1>2, <1>3 DEF Fits
<1>5. t[1] = s[2] /\ 1 \in 1..Len(t)
  BY <1>2, <1>4
<1> QED
  BY <1>2, <1>4, <1>5 DEF Has

-----------------------------------------------------------------------------
(* The programs, operation by operation. *)

(* The i-th operation of s. *)
Is(s, i, op, f, g) ==
    i \in 1..Len(s) /\ s[i].op = op /\ s[i].f = f /\ s[i].g = g

(* s has n operations. *)
Steps(s, n) == s \in Seq(Operation) /\ Len(s) = n

LEMMA Joined ==
    ASSUME NEW s, NEW t, NEW m \in Nat, NEW n \in Nat, Steps(s, m), Steps(t, n)
    PROVE  /\ Steps(s \o t, m + n)
           /\ \A i, o, f, g : Is(s, i, o, f, g) => Is(s \o t, i, o, f, g)
           /\ \A i, o, f, g : Is(t, i, o, f, g) => Is(s \o t, m + i, o, f, g)
<1>1. s \in Seq(Operation) /\ t \in Seq(Operation) /\ Len(s) = m /\ Len(t) = n
  BY DEF Steps
<1>2. Steps(s \o t, m + n)
  BY <1>1 DEF Steps
<1>3. ASSUME NEW i \in 1..m PROVE (s \o t)[i] = s[i]
  BY <1>1
<1>4. ASSUME NEW i \in 1..n PROVE (s \o t)[m + i] = t[i]
  BY <1>1
<1>5. Len(s \o t) = m + n
  BY <1>1
<1>6. ASSUME NEW i, NEW o, NEW f, NEW g, Is(s, i, o, f, g) PROVE Is(s \o t, i, o, f, g)
  BY <1>1, <1>3, <1>5, <1>6 DEF Is
<1>7. ASSUME NEW i, NEW o, NEW f, NEW g, Is(t, i, o, f, g) PROVE Is(s \o t, m + i, o, f, g)
  BY <1>1, <1>4, <1>5, <1>7 DEF Is
<1> QED
  BY <1>2, <1>6, <1>7

LEMMA FileNames ==
    /\ Temps \cup {"indb", "outdb", "prev", "save"} \cup Others = Files
    /\ NoFile \notin Files
    /\ Fresh \subseteq Files /\ Written \subseteq Files
    /\ Temps \cap {"indb", "outdb", "prev", "save", "KILLED", "CRASH", "mail",
                   "hcode", "hcode.tmp", "hcode.prev", "hcode.KILLED",
                   "hcode.CRASHED", NoFile} = {}
  BY TempsAssumption DEF Files, Databases, Others, NoFile, Fresh, Written

LEMMA OpIs ==
    ASSUME NEW op \in Kinds, NEW f \in Files \cup {NoFile},
           NEW g \in Files \cup {NoFile}
    PROVE  Steps(Op(op, f, g), 1) /\ Is(Op(op, f, g), 1, op, f, g)
  BY DEF Op, Operation, Steps, Is

LEMMA WriteIs ==
    ASSUME NEW f \in Files
    PROVE  /\ Steps(Write(f), 2)
           /\ Is(Write(f), 1, "open", f, f)
           /\ Is(Write(f), 2, "close", f, f)
<1>1. "open" \in Kinds /\ "close" \in Kinds
  BY DEF Kinds
<1>2. /\ Steps(Op("open", f, f), 1) /\ Is(Op("open", f, f), 1, "open", f, f)
      /\ Steps(Op("close", f, f), 1) /\ Is(Op("close", f, f), 1, "close", f, f)
  BY <1>1, OpIs
<1>3. /\ Steps(Op("open", f, f) \o Op("close", f, f), 1 + 1)
      /\ Is(Op("open", f, f) \o Op("close", f, f), 1, "open", f, f)
      /\ Is(Op("open", f, f) \o Op("close", f, f), 1 + 1, "close", f, f)
  BY <1>2, Joined
<1> QED
  BY <1>3 DEF Write

LEMMA SaveIs ==
    ASSUME NEW type, type \notin {"KILLED", "CRASHED"},
           NEW s, s = SaveSpecialObjects(type)
    PROVE  /\ Steps(s, 4)
           /\ Is(s, 1, "open", "hcode.tmp", "hcode.tmp")
           /\ Is(s, 2, "close", "hcode.tmp", "hcode.tmp")
           /\ Is(s, 3, "rename", "hcode", "hcode.prev")
           /\ Is(s, 4, "rename", "hcode.tmp", "hcode")
<1> DEFINE w == Write("hcode.tmp")
           a == Rename("hcode", "hcode.prev")
           b == Rename("hcode.tmp", "hcode")
           wa == w \o a
<1>1. s = wa \o b
  BY DEF SaveSpecialObjects
<1>2. /\ Steps(w, 2)
      /\ Is(w, 1, "open", "hcode.tmp", "hcode.tmp")
      /\ Is(w, 2, "close", "hcode.tmp", "hcode.tmp")
  BY WriteIs DEF Files, Others
<1>3. /\ Steps(a, 1) /\ Is(a, 1, "rename", "hcode", "hcode.prev")
      /\ Steps(b, 1) /\ Is(b, 1, "rename", "hcode.tmp", "hcode")
  BY OpIs DEF Files, Others, Kinds, Rename
<1> HIDE DEF w, a, b
<1>4. /\ Steps(wa, 3)
      /\ \A i, o, f, g : Is(w, i, o, f, g) => Is(wa, i, o, f, g)
      /\ \A i, o, f, g : Is(a, i, o, f, g) => Is(wa, 2 + i, o, f, g)
  BY <1>2, <1>3, Joined
<1> HIDE DEF wa
<1>5. /\ Steps(s, 4)
      /\ \A i, o, f, g : Is(wa, i, o, f, g) => Is(s, i, o, f, g)
      /\ \A i, o, f, g : Is(b, i, o, f, g) => Is(s, 3 + i, o, f, g)
  BY <1>1, <1>3, <1>4, Joined
<1>6. Is(s, 2 + 1, "rename", "hcode", "hcode.prev")
  BY <1>3, <1>4, <1>5
<1>7. Is(s, 3 + 1, "rename", "hcode.tmp", "hcode")
  BY <1>3, <1>5
<1> QED
  BY <1>2, <1>4, <1>5, <1>6, <1>7

(* A checkpoint, a shutdown or a restart, after the object database x.      *)
LEMMA DumpIs ==
    ASSUME NEW x, NEW n \in Nat, Steps(x, n),
           NEW type, type \notin {"KILLED", "CRASHED"},
           NEW end \in {"exit", "exec"},
           NEW s, s = ((x \o Write("mail")) \o SaveSpecialObjects(type))
                        \o Finish(end)
    PROVE  /\ Steps(s, n + 7)
           /\ \A i, o, f, g : Is(x, i, o, f, g) => Is(s, i, o, f, g)
           /\ Is(s, n + 1, "open", "mail", "mail")
           /\ Is(s, n + 2, "close", "mail", "mail")
           /\ Is(s, n + 3, "open", "hcode.tmp", "hcode.tmp")
           /\ Is(s, n + 4, "close", "hcode.tmp", "hcode.tmp")
           /\ Is(s, n + 5, "rename", "hcode", "hcode.prev")
           /\ Is(s, n + 6, "rename", "hcode.tmp", "hcode")
           /\ Is(s, n + 7, end, NoFile, NoFile)
<1> DEFINE m == Write("mail")
           h == SaveSpecialObjects(type)
           z == Finish(end)
           xm == x \o m
           xmh == xm \o h
<1>1. /\ Steps(m, 2)
      /\ Is(m, 1, "open", "mail", "mail")
      /\ Is(m, 2, "close", "mail", "mail")
  BY WriteIs DEF Files, Others
<1>2. /\ Steps(h, 4)
      /\ Is(h, 1, "open", "hcode.tmp", "hcode.tmp")
      /\ Is(h, 2, "close", "hcode.tmp", "hcode.tmp")
      /\ Is(h, 3, "rename", "hcode", "hcode.prev")
      /\ Is(h, 4, "rename", "hcode.tmp", "hcode")
  BY SaveIs
<1>3. Steps(z, 1) /\ Is(z, 1, end, NoFile, NoFile)
  BY OpIs DEF Kinds, Finish
<1> HIDE DEF m, h, z
<1>4. /\ Steps(xm, n + 2)
      /\ \A i, o, f, g : Is(x, i, o, f, g) => Is(xm, i, o, f, g)
      /\ \A i, o, f, g : Is(m, i, o, f, g) => Is(xm, n + i, o, f, g)
  BY <1>1, Joined
<1> HIDE DEF xm
<1>5. /\ Steps(xmh, n + 2 + 4)
      /\ \A i, o, f, g : Is(xm, i, o, f, g) => Is(xmh, i, o, f, g)
      /\ \A i, o, f, g : Is(h, i, o, f, g) => Is(xmh, n + 2 + i, o, f, g)
  BY <1>2, <1>4, Joined
<1>6. s = xmh \o z
  BY DEF xmh, xm, m, h, z
<1> HIDE DEF xmh
<1>61. n + 2 + 4 = n + 6 /\ n + 6 \in Nat
  OBVIOUS
<1>7. /\ Steps(s, n + 6 + 1)
      /\ \A i, o, f, g : Is(xmh, i, o, f, g) => Is(s, i, o, f, g)
      /\ \A i, o, f, g : Is(z, i, o, f, g) => Is(s, n + 6 + i, o, f, g)
  BY <1>3, <1>5, <1>6, <1>61, Joined
<1>8. /\ Is(s, n + 1, "open", "mail", "mail")
      /\ Is(s, n + 2, "close", "mail", "mail")
  BY <1>1, <1>4, <1>5, <1>7
<1>9. /\ Is(s, n + 2 + 1, "open", "hcode.tmp", "hcode.tmp")
      /\ Is(s, n + 2 + 2, "close", "hcode.tmp", "hcode.tmp")
      /\ Is(s, n + 2 + 3, "rename", "hcode", "hcode.prev")
      /\ Is(s, n + 2 + 4, "rename", "hcode.tmp", "hcode")
      /\ Is(s, n + 6 + 1, end, NoFile, NoFile)
  BY <1>2, <1>3, <1>5, <1>7
<1>10. /\ n + 2 + 1 = n + 3 /\ n + 2 + 2 = n + 4 /\ n + 2 + 3 = n + 5
       /\ n + 2 + 4 = n + 6 /\ n + 6 + 1 = n + 7
  OBVIOUS
<1> QED
  BY <1>4, <1>5, <1>7, <1>8, <1>9, <1>10

LEMMA TempIs ==
    /\ Len(TempNames) \in Nat
    /\ \A e \in 0..Len(TempNames) - 1 : Temp(e) \in Temps /\ Temp(e) \in Files
    /\ \A e, d \in 0..Len(TempNames) - 1 : Temp(e) = Temp(d) => e = d
<1>1. Len(TempNames) \in Nat /\ DOMAIN TempNames = 1..Len(TempNames)
  BY TempsAssumption
<1>2. \A e \in 0..Len(TempNames) - 1 : e + 1 \in DOMAIN TempNames
  BY <1>1
<1> QED
  BY <1>1, <1>2, TempsAssumption DEF Temp, Temps, Files, Databases

LEMMA NormalDumpIs ==
    ASSUME NEW e \in 1..Len(TempNames) - 1, NEW s, s = NormalDump(e)
    PROVE  /\ Steps(s, 5)
           /\ Is(s, 1, "unlink", Temp(e - 1), Temp(e - 1))
           /\ Is(s, 2, "open", Temp(e), Temp(e))
           /\ Is(s, 3, "close", Temp(e), Temp(e))
           /\ Is(s, 4, "rename", "outdb", "prev")
           /\ Is(s, 5, "rename", Temp(e), "outdb")
<1> DEFINE u == Unlink(Temp(e - 1))
           w == Write(Temp(e))
           a == Rename("outdb", "prev")
           b == Rename(Temp(e), "outdb")
           uw == u \o w
           uwa == uw \o a
<1>1. s = uwa \o b
  <2>1. e > 0
    BY TempIs
  <2> QED
    BY <2>1 DEF NormalDump
<1>2. Temp(e) \in Files /\ Temp(e - 1) \in Files
  BY TempIs
<1>3. /\ {"unlink", "rename"} \subseteq Kinds
      /\ "outdb" \in Files /\ "prev" \in Files
  BY DEF Kinds, Files, Databases
<1>4. /\ Steps(u, 1) /\ Is(u, 1, "unlink", Temp(e - 1), Temp(e - 1))
      /\ Steps(a, 1) /\ Is(a, 1, "rename", "outdb", "prev")
      /\ Steps(b, 1) /\ Is(b, 1, "rename", Temp(e), "outdb")
  BY <1>2, <1>3, OpIs DEF Unlink, Rename
<1>5. /\ Steps(w, 2)
      /\ Is(w, 1, "open", Temp(e), Temp(e))
      /\ Is(w, 2, "close", Temp(e), Temp(e))
  BY <1>2, WriteIs
<1> HIDE DEF u, w, a, b
<1>6. /\ Steps(uw, 3)
      /\ \A i, o, f, g : Is(u, i, o, f, g) => Is(uw, i, o, f, g)
      /\ \A i, o, f, g : Is(w, i, o, f, g) => Is(uw, 1 + i, o, f, g)
  BY <1>4, <1>5, Joined
<1> HIDE DEF uw
<1>7. /\ Steps(uwa, 4)
      /\ \A i, o, f, g : Is(uw, i, o, f, g) => Is(uwa, i, o, f, g)
      /\ \A i, o, f, g : Is(a, i, o, f, g) => Is(uwa, 3 + i, o, f, g)
  BY <1>4, <1>6, Joined
<1> HIDE DEF uwa
<1>8. /\ Steps(s, 5)
      /\ \A i, o, f, g : Is(uwa, i, o, f, g) => Is(s, i, o, f, g)
      /\ \A i, o, f, g : Is(b, i, o, f, g) => Is(s, 4 + i, o, f, g)
  BY <1>1, <1>4, <1>7, Joined
<1>9. /\ Is(s, 1, "unlink", Temp(e - 1), Temp(e - 1))
      /\ Is(s, 1 + 1, "open", Temp(e), Temp(e))
      /\ Is(s, 1 + 2, "close", Temp(e), Temp(e))
      /\ Is(s, 3 + 1, "rename", "outdb", "prev")
      /\ Is(s, 4 + 1, "rename", Temp(e), "outdb")
  BY <1>4, <1>5, <1>6, <1>7, <1>8
<1> QED
  BY <1>8, <1>9

LEMMA NormalIs ==
    ASSUME NEW e \in 1..Len(TempNames) - 1,
           NEW s, s = dump_database_internal("NORMAL", e) \o Finish("exit")
    PROVE  /\ Steps(s, 12)
           /\ Is(s, 1, "unlink", Temp(e - 1), Temp(e - 1))
           /\ Is(s, 2, "open", Temp(e), Temp(e))
           /\ Is(s, 3, "close", Temp(e), Temp(e))
           /\ Is(s, 4, "rename", "outdb", "prev")
           /\ Is(s, 5, "rename", Temp(e), "outdb")
           /\ Is(s, 6, "open", "mail", "mail")
           /\ Is(s, 7, "close", "mail", "mail")
           /\ Is(s, 8, "open", "hcode.tmp", "hcode.tmp")
           /\ Is(s, 9, "close", "hcode.tmp", "hcode.tmp")
           /\ Is(s, 10, "rename", "hcode", "hcode.prev")
           /\ Is(s, 11, "rename", "hcode.tmp", "hcode")
           /\ Is(s, 12, "exit", NoFile, NoFile)
<1> DEFINE t == Temp(e)
           u == Temp(e - 1)
<1>1. s = ((NormalDump(e) \o Write("mail")) \o SaveSpecialObjects("NORMAL"))
            \o Finish("exit")
  BY DEF dump_database_internal
<1>2. /\ Steps(NormalDump(e), 5)
      /\ Is(NormalDump(e), 1, "unlink", u, u)
      /\ Is(NormalDump(e), 2, "open", t, t)
      /\ Is(NormalDump(e), 3, "close", t, t)
      /\ Is(NormalDump(e), 4, "rename", "outdb", "prev")
      /\ Is(NormalDump(e), 5, "rename", t, "outdb")
  BY NormalDumpIs
<1> HIDE DEF t, u
<1>3. /\ Steps(s, 5 + 7)
      /\ \A i, o, f, g : Is(NormalDump(e), i, o, f, g) => Is(s, i, o, f, g)
      /\ Is(s, 5 + 1, "open", "mail", "mail")
      /\ Is(s, 5 + 2, "close", "mail", "mail")
      /\ Is(s, 5 + 3, "open", "hcode.tmp", "hcode.tmp")
      /\ Is(s, 5 + 4, "close", "hcode.tmp", "hcode.tmp")
      /\ Is(s, 5 + 5, "rename", "hcode", "hcode.prev")
      /\ Is(s, 5 + 6, "rename", "hcode.tmp", "hcode")
      /\ Is(s, 5 + 7, "exit", NoFile, NoFile)
  <2>1. Steps(NormalDump(e), 5)
    BY <1>2
  <2> QED
    BY <1>1, <2>1, DumpIs
<1> QED
  BY <1>2, <1>3 DEF t, u

(* A program that a process starts. *)
Begins(p, s) ==
    /\ Program(p, s) /\ s # <<>>
    /\ Head(s).op \in {"unlink", "open", "rename"}
    /\ \A f \in Fresh : Has(s, "rename", f) => Has(s, "close", f)

(* A checkpoint or a shutdown. *)
LEMMA NormalFits ==
    ASSUME NEW p \in Procs, NEW s, Steps(s, 12),
           NEW t \in Temps, NEW u \in Temps, t # u,
           Is(s, 1, "unlink", u, u),
           Is(s, 2, "open", t, t),
           Is(s, 3, "close", t, t),
           Is(s, 4, "rename", "outdb", "prev"),
           Is(s, 5, "rename", t, "outdb"),
           Is(s, 6, "open", "mail", "mail"),
           Is(s, 7, "close", "mail", "mail"),
           Is(s, 8, "open", "hcode.tmp", "hcode.tmp"),
           Is(s, 9, "close", "hcode.tmp", "hcode.tmp"),
           Is(s, 10, "rename", "hcode", "hcode.prev"),
           Is(s, 11, "rename", "hcode.tmp", "hcode"),
           Is(s, 12, "exit", NoFile, NoFile)
    PROVE  Begins(p, s) /\ Saves(s)
<1>1. s \in Seq(Operation) /\ Len(s) = 12
  BY DEF Steps
<1>2. /\ s[1].op = "unlink" /\ s[1].f = u /\ s[1].g = u
      /\ s[2].op = "open" /\ s[2].f = t /\ s[2].g = t
      /\ s[3].op = "close" /\ s[3].f = t /\ s[3].g = t
      /\ s[4].op = "rename" /\ s[4].f = "outdb" /\ s[4].g = "prev"
      /\ s[5].op = "rename" /\ s[5].f = t /\ s[5].g = "outdb"
      /\ s[6].op = "open" /\ s[6].f = "mail" /\ s[6].g = "mail"
      /\ s[7].op = "close" /\ s[7].f = "mail" /\ s[7].g = "mail"
      /\ s[8].op = "open" /\ s[8].f = "hcode.tmp" /\ s[8].g = "hcode.tmp"
      /\ s[9].op = "close" /\ s[9].f = "hcode.tmp" /\ s[9].g = "hcode.tmp"
      /\ s[10].op = "rename" /\ s[10].f = "hcode" /\ s[10].g = "hcode.prev"
      /\ s[11].op = "rename" /\ s[11].f = "hcode.tmp" /\ s[11].g = "hcode"
      /\ s[12].op = "exit" /\ s[12].f = NoFile /\ s[12].g = NoFile
  BY DEF Is
<1>3. /\ t \in Written
      /\ "mail" \in Written
      /\ "hcode.tmp" \in Written
      /\ Fresh \cap {"hcode", "hcode.prev", "mail", "outdb", "prev", NoFile} = {}
      /\ t \notin {"hcode", "hcode.prev", "hcode.tmp", "mail", "outdb", 
            "prev", "indb", NoFile}
      /\ u \notin {"hcode", "hcode.prev", "hcode.tmp", "mail", "outdb", 
            "prev", "indb", NoFile}
      /\ NoFile # "indb" /\ NoFile # "hcode.tmp"
  BY FileNames DEF Written, Fresh, NoFile
<1>4. ASSUME NEW i \in 1..Len(s) PROVE Fits(p, s, i)
  <2>1. CASE i = 1
    <3>1. ASSUME NEW j \in 2..12 PROVE s[j].op = "rename" => s[j].f # u
      <4>1. \/ j = 2 \/ j = 3 \/ j = 4 \/ j = 5 \/ j = 6 \/ j = 7 \/ j = 8
            \/ j = 9 \/ j = 10 \/ j = 11 \/ j = 12
        OBVIOUS
      <4>2. s[4].f # u /\ s[5].f # u /\ s[10].f # u /\ s[11].f # u
        BY <1>2, <1>3
      <4> QED
        BY <1>2, <4>1, <4>2
    <3> QED
      BY <1>1, <1>2, <1>3, <2>1, <3>1 DEF Fits
  <2>2. CASE i = 2
    BY <1>1, <1>2, <1>3, <2>2 DEF Fits
  <2>3. CASE i = 3
    BY <1>1, <1>2, <1>3, <2>3 DEF Fits
  <2>4. CASE i = 4
    <3>1. ASSUME NEW j \in 5..12 PROVE s[j].op = "rename" => s[j].f # "outdb"
      <4>1. \/ j = 5 \/ j = 6 \/ j = 7 \/ j = 8 \/ j = 9 \/ j = 10 \/ j = 11
            \/ j = 12
        OBVIOUS
      <4>2. s[5].f # "outdb" /\ s[10].f # "outdb" /\ s[11].f # "outdb"
        BY <1>2, <1>3
      <4> QED
        BY <1>2, <4>1, <4>2
    <3> QED
      BY <1>1, <1>2, <1>3, <2>4, <3>1 DEF Fits, MayRename
  <2>5. CASE i = 5
    <3>1. ASSUME NEW j \in 6..12 PROVE s[j].op = "rename" => s[j].f # t
      <4>1. \/ j = 6 \/ j = 7 \/ j = 8 \/ j = 9 \/ j = 10 \/ j = 11 \/ j = 12
        OBVIOUS
      <4>2. s[10].f # t /\ s[11].f # t
        BY <1>2, <1>3
      <4> QED
        BY <1>2, <4>1, <4>2
    <3> QED
      BY <1>1, <1>2, <1>3, <2>5, <3>1 DEF Fits, MayRename
  <2>6. CASE i = 6
    BY <1>1, <1>2, <1>3, <2>6 DEF Fits
  <2>7. CASE i = 7
    BY <1>1, <1>2, <1>3, <2>7 DEF Fits
  <2>8. CASE i = 8
    BY <1>1, <1>2, <1>3, <2>8 DEF Fits
  <2>9. CASE i = 9
    BY <1>1, <1>2, <1>3, <2>9 DEF Fits
  <2>10. CASE i = 10
    <3>1. ASSUME NEW j \in 11..12 PROVE s[j].op = "rename" => s[j].f # "hcode"
      <4>1. \/ j = 11 \/ j = 12
        OBVIOUS
      <4>2. s[11].f # "hcode"
        BY <1>2, <1>3
      <4> QED
        BY <1>2, <4>1, <4>2
    <3> QED
      BY <1>1, <1>2, <1>3, <2>10, <3>1 DEF Fits, MayRename
  <2>11. CASE i = 11
    BY <1>1, <1>2, <1>3, <2>11 DEF Fits, MayRename
  <2>12. CASE i = 12
    BY <1>1, <1>2, <1>3, <2>12 DEF Fits
  <2> QED
    BY <1>1, <2>1, <2>2, <2>3, <2>4, <2>5, <2>6, <2>7, <2>8, <2>9, <2>10,
       <2>11, <2>12
<1>5. s # <<>>
  <2>1. s = <<>> => Len(s) = 0
    OBVIOUS
  <2> QED
    BY <1>1, <2>1
<1>6. Head(s) = s[1]
  BY <1>1, <1>5, TailOf
<1>7. Saves(s)
  <2>1. 11 \in 1..Len(s)
    BY <1>1
  <2> QED
    BY <1>2, <2>1 DEF Saves, Has
<1>8. ASSUME NEW f \in Fresh, Has(s, "rename", f) PROVE Has(s, "close", f)
  <2>1. PICK i \in 1..Len(s) : s[i].op = "rename" /\ s[i].f = f
    BY <1>8 DEF Has
  <2>2. \/ i = 1 \/ i = 2 \/ i = 3 \/ i = 4 \/ i = 5 \/ i = 6 \/ i = 7
        \/ i = 8 \/ i = 9 \/ i = 10 \/ i = 11 \/ i = 12
    BY <1>1, <2>1
  <2>3. f = t \/ f = "hcode.tmp"
    BY <1>2, <1>3, <2>1, <2>2
  <2>4. 3 \in 1..Len(s) /\ 9 \in 1..Len(s)
    BY <1>1
  <2> QED
    BY <1>2, <2>3, <2>4 DEF Has
<1> QED
  BY <1>1, <1>2, <1>4, <1>5, <1>6, <1>7, <1>8 DEF Begins, Program

(* @restart. *)
LEMMA RestartFits ==
    ASSUME NEW p \in Procs, NEW s, Steps(s, 9),
           p = Server, "restart" \in happens,
           Is(s, 1, "open", "indb", "indb"),
           Is(s, 2, "close", "indb", "indb"),
           Is(s, 3, "open", "mail", "mail"),
           Is(s, 4, "close", "mail", "mail"),
           Is(s, 5, "open", "hcode.tmp", "hcode.tmp"),
           Is(s, 6, "close", "hcode.tmp", "hcode.tmp"),
           Is(s, 7, "rename", "hcode", "hcode.prev"),
           Is(s, 8, "rename", "hcode.tmp", "hcode"),
           Is(s, 9, "exec", NoFile, NoFile)
    PROVE  Begins(p, s) /\ Saves(s)
<1>1. s \in Seq(Operation) /\ Len(s) = 9
  BY DEF Steps
<1>2. /\ s[1].op = "open" /\ s[1].f = "indb" /\ s[1].g = "indb"
      /\ s[2].op = "close" /\ s[2].f = "indb" /\ s[2].g = "indb"
      /\ s[3].op = "open" /\ s[3].f = "mail" /\ s[3].g = "mail"
      /\ s[4].op = "close" /\ s[4].f = "mail" /\ s[4].g = "mail"
      /\ s[5].op = "open" /\ s[5].f = "hcode.tmp" /\ s[5].g = "hcode.tmp"
      /\ s[6].op = "close" /\ s[6].f = "hcode.tmp" /\ s[6].g = "hcode.tmp"
      /\ s[7].op = "rename" /\ s[7].f = "hcode" /\ s[7].g = "hcode.prev"
      /\ s[8].op = "rename" /\ s[8].f = "hcode.tmp" /\ s[8].g = "hcode"
      /\ s[9].op = "exec" /\ s[9].f = NoFile /\ s[9].g = NoFile
  BY DEF Is
<1>3. /\ "indb" \in Written
      /\ "mail" \in Written
      /\ "hcode.tmp" \in Written
      /\ Fresh \cap {"hcode", "hcode.prev", "indb", "mail", NoFile} = {}
      /\ NoFile # "indb" /\ NoFile # "hcode.tmp"
  BY FileNames DEF Written, Fresh, NoFile
<1>4. ASSUME NEW i \in 1..Len(s) PROVE Fits(p, s, i)
  <2>1. CASE i = 1
    BY <1>1, <1>2, <1>3, <2>1 DEF Fits
  <2>2. CASE i = 2
    BY <1>1, <1>2, <1>3, <2>2 DEF Fits
  <2>3. CASE i = 3
    BY <1>1, <1>2, <1>3, <2>3 DEF Fits
  <2>4. CASE i = 4
    BY <1>1, <1>2, <1>3, <2>4 DEF Fits
  <2>5. CASE i = 5
    BY <1>1, <1>2, <1>3, <2>5 DEF Fits
  <2>6. CASE i = 6
    BY <1>1, <1>2, <1>3, <2>6 DEF Fits
  <2>7. CASE i = 7
    BY <1>1, <1>2, <1>3, <2>7 DEF Fits, MayRename
  <2>8. CASE i = 8
    BY <1>1, <1>2, <1>3, <2>8 DEF Fits, MayRename
  <2>9. CASE i = 9
    BY <1>1, <1>2, <1>3, <2>9 DEF Fits
  <2> QED
    BY <1>1, <2>1, <2>2, <2>3, <2>4, <2>5, <2>6, <2>7, <2>8, <2>9
<1>5. s # <<>>
  <2>1. s = <<>> => Len(s) = 0
    OBVIOUS
  <2> QED
    BY <1>1, <2>1
<1>6. Head(s) = s[1]
  BY <1>1, <1>5, TailOf
<1>7. Saves(s)
  <2>1. 8 \in 1..Len(s)
    BY <1>1
  <2> QED
    BY <1>2, <2>1 DEF Saves, Has
<1>8. ASSUME NEW f \in Fresh, Has(s, "rename", f) PROVE Has(s, "close", f)
  <2>1. PICK i \in 1..Len(s) : s[i].op = "rename" /\ s[i].f = f
    BY <1>8 DEF Has
  <2>2. \/ i = 1 \/ i = 2 \/ i = 3 \/ i = 4 \/ i = 5 \/ i = 6 \/ i = 7
        \/ i = 8 \/ i = 9
    BY <1>1, <2>1
  <2>3. f = "hcode.tmp"
    BY <1>2, <1>3, <2>1, <2>2
  <2>4. 6 \in 1..Len(s)
    BY <1>1
  <2> QED
    BY <1>2, <2>3, <2>4 DEF Has
<1> QED
  BY <1>1, <1>2, <1>4, <1>5, <1>6, <1>7, <1>8 DEF Begins, Program

(* The handler of SIGTERM. *)
LEMMA KilledFits ==
    ASSUME NEW p \in Procs, NEW s, Steps(s, 7),
           "signal" \in happens,
           Is(s, 1, "open", "KILLED", "KILLED"),
           Is(s, 2, "close", "KILLED", "KILLED"),
           Is(s, 3, "open", "mail", "mail"),
           Is(s, 4, "close", "mail", "mail"),
           Is(s, 5, "open", "hcode.KILLED", "hcode.KILLED"),
           Is(s, 6, "close", "hcode.KILLED", "hcode.KILLED"),
           Is(s, 7, "exit", NoFile, NoFile)
    PROVE  Begins(p, s) /\ ~Saves(s)
<1>1. s \in Seq(Operation) /\ Len(s) = 7
  BY DEF Steps
<1>2. /\ s[1].op = "open" /\ s[1].f = "KILLED" /\ s[1].g = "KILLED"
      /\ s[2].op = "close" /\ s[2].f = "KILLED" /\ s[2].g = "KILLED"
      /\ s[3].op = "open" /\ s[3].f = "mail" /\ s[3].g = "mail"
      /\ s[4].op = "close" /\ s[4].f = "mail" /\ s[4].g = "mail"
      /\ s[5].op = "open" /\ s[5].f = "hcode.KILLED" /\ s[5].g = "hcode.KILLED"
      /\ s[6].op = "close" /\ s[6].f = "hcode.KILLED" /\ s[6].g = "hcode.KILLED"
      /\ s[7].op = "exit" /\ s[7].f = NoFile /\ s[7].g = NoFile
  BY DEF Is
<1>3. /\ "KILLED" \in Written
      /\ "mail" \in Written
      /\ "hcode.KILLED" \in Written
      /\ Fresh \cap {"KILLED", "hcode.KILLED", "mail", NoFile} = {}
      /\ NoFile # "indb" /\ NoFile # "hcode.tmp"
  BY FileNames DEF Written, Fresh, NoFile
<1>4. ASSUME NEW i \in 1..Len(s) PROVE Fits(p, s, i)
  <2>1. CASE i = 1
    BY <1>1, <1>2, <1>3, <2>1 DEF Fits
  <2>2. CASE i = 2
    BY <1>1, <1>2, <1>3, <2>2 DEF Fits
  <2>3. CASE i = 3
    BY <1>1, <1>2, <1>3, <2>3 DEF Fits
  <2>4. CASE i = 4
    BY <1>1, <1>2, <1>3, <2>4 DEF Fits
  <2>5. CASE i = 5
    BY <1>1, <1>2, <1>3, <2>5 DEF Fits
  <2>6. CASE i = 6
    BY <1>1, <1>2, <1>3, <2>6 DEF Fits
  <2>7. CASE i = 7
    BY <1>1, <1>2, <1>3, <2>7 DEF Fits
  <2> QED
    BY <1>1, <2>1, <2>2, <2>3, <2>4, <2>5, <2>6, <2>7
<1>5. s # <<>>
  <2>1. s = <<>> => Len(s) = 0
    OBVIOUS
  <2> QED
    BY <1>1, <2>1
<1>6. Head(s) = s[1]
  BY <1>1, <1>5, TailOf
<1>8. ASSUME NEW f \in Fresh, Has(s, "rename", f) PROVE FALSE
  <2>1. PICK i \in 1..Len(s) : s[i].op = "rename" /\ s[i].f = f
    BY <1>8 DEF Has
  <2>2. \/ i = 1 \/ i = 2 \/ i = 3 \/ i = 4 \/ i = 5 \/ i = 6 \/ i = 7
    BY <1>1, <2>1
  <2> QED
    BY <1>2, <1>3, <2>1, <2>2
<1>7. ~Saves(s)
  BY <1>8 DEF Saves, Fresh
<1> QED
  BY <1>1, <1>2, <1>4, <1>5, <1>6, <1>7, <1>8 DEF Begins, Program

(* The handler of a fault. *)
LEMMA CrashedFits ==
    ASSUME NEW p \in Procs, NEW s, Steps(s, 9),
           p = Server, "signal" \in happens,
           Is(s, 1, "unlink", "CRASH", "CRASH"),
           Is(s, 2, "open", "CRASH", "CRASH"),
           Is(s, 3, "close", "CRASH", "CRASH"),
           Is(s, 4, "open", "mail", "mail"),
           Is(s, 5, "close", "mail", "mail"),
           Is(s, 6, "open", "hcode.CRASHED", "hcode.CRASHED"),
           Is(s, 7, "close", "hcode.CRASHED", "hcode.CRASHED"),
           Is(s, 8, "rename", "outdb", "indb"),
           Is(s, 9, "exec", NoFile, NoFile)
    PROVE  Begins(p, s) /\ ~Saves(s)
<1>1. s \in Seq(Operation) /\ Len(s) = 9
  BY DEF Steps
<1>2. /\ s[1].op = "unlink" /\ s[1].f = "CRASH" /\ s[1].g = "CRASH"
      /\ s[2].op = "open" /\ s[2].f = "CRASH" /\ s[2].g = "CRASH"
      /\ s[3].op = "close" /\ s[3].f = "CRASH" /\ s[3].g = "CRASH"
      /\ s[4].op = "open" /\ s[4].f = "mail" /\ s[4].g = "mail"
      /\ s[5].op = "close" /\ s[5].f = "mail" /\ s[5].g = "mail"
      /\ s[6].op = "open" /\ s[6].f = "hcode.CRASHED" /\ s[6].g = "hcode.CRASHED"
      /\ s[7].op = "close" /\ s[7].f = "hcode.CRASHED" /\ s[7].g = "hcode.CRASHED"
      /\ s[8].op = "rename" /\ s[8].f = "outdb" /\ s[8].g = "indb"
      /\ s[9].op = "exec" /\ s[9].f = NoFile /\ s[9].g = NoFile
  BY DEF Is
<1>3. /\ "CRASH" \in Written
      /\ "mail" \in Written
      /\ "hcode.CRASHED" \in Written
      /\ Fresh \cap {"CRASH", "hcode.CRASHED", "indb", "mail", "outdb", 
            NoFile} = {}
      /\ NoFile # "indb" /\ NoFile # "hcode.tmp"
  BY FileNames DEF Written, Fresh, NoFile
<1>4. ASSUME NEW i \in 1..Len(s) PROVE Fits(p, s, i)
  <2>1. CASE i = 1
    BY <1>1, <1>2, <1>3, <2>1 DEF Fits
  <2>2. CASE i = 2
    BY <1>1, <1>2, <1>3, <2>2 DEF Fits
  <2>3. CASE i = 3
    BY <1>1, <1>2, <1>3, <2>3 DEF Fits
  <2>4. CASE i = 4
    BY <1>1, <1>2, <1>3, <2>4 DEF Fits
  <2>5. CASE i = 5
    BY <1>1, <1>2, <1>3, <2>5 DEF Fits
  <2>6. CASE i = 6
    BY <1>1, <1>2, <1>3, <2>6 DEF Fits
  <2>7. CASE i = 7
    BY <1>1, <1>2, <1>3, <2>7 DEF Fits
  <2>8. CASE i = 8
    BY <1>1, <1>2, <1>3, <2>8 DEF Fits, MayRename
  <2>9. CASE i = 9
    BY <1>1, <1>2, <1>3, <2>9 DEF Fits
  <2> QED
    BY <1>1, <2>1, <2>2, <2>3, <2>4, <2>5, <2>6, <2>7, <2>8, <2>9
<1>5. s # <<>>
  <2>1. s = <<>> => Len(s) = 0
    OBVIOUS
  <2> QED
    BY <1>1, <2>1
<1>6. Head(s) = s[1]
  BY <1>1, <1>5, TailOf
<1>8. ASSUME NEW f \in Fresh, Has(s, "rename", f) PROVE FALSE
  <2>1. PICK i \in 1..Len(s) : s[i].op = "rename" /\ s[i].f = f
    BY <1>8 DEF Has
  <2>2. \/ i = 1 \/ i = 2 \/ i = 3 \/ i = 4 \/ i = 5 \/ i = 6 \/ i = 7
        \/ i = 8 \/ i = 9
    BY <1>1, <2>1
  <2> QED
    BY <1>2, <1>3, <2>1, <2>2
<1>7. ~Saves(s)
  BY <1>8 DEF Saves, Fresh
<1> QED
  BY <1>1, <1>2, <1>4, <1>5, <1>6, <1>7, <1>8 DEF Begins, Program

(* Startmux. *)
LEMMA StartFits ==
    ASSUME NEW p \in Procs, NEW s, Steps(s, 4),
           p = Server,
           Is(s, 1, "rename", "indb", "save"),
           Is(s, 2, "checkpoint", NoFile, NoFile),
           Is(s, 3, "copy", "indb", "save"),
           Is(s, 4, "exec", NoFile, NoFile)
    PROVE  Begins(p, s) /\ ~Saves(s)
<1>1. s \in Seq(Operation) /\ Len(s) = 4
  BY DEF Steps
<1>2. /\ s[1].op = "rename" /\ s[1].f = "indb" /\ s[1].g = "save"
      /\ s[2].op = "checkpoint" /\ s[2].f = NoFile /\ s[2].g = NoFile
      /\ s[3].op = "copy" /\ s[3].f = "indb" /\ s[3].g = "save"
      /\ s[4].op = "exec" /\ s[4].f = NoFile /\ s[4].g = NoFile
  BY DEF Is
<1>3. /\ Fresh \cap {"indb", "save", NoFile} = {}
      /\ NoFile # "indb" /\ NoFile # "hcode.tmp"
  BY FileNames DEF Written, Fresh, NoFile
<1>4. ASSUME NEW i \in 1..Len(s) PROVE Fits(p, s, i)
  <2>1. CASE i = 1
    BY <1>1, <1>2, <1>3, <2>1 DEF Fits, MayRename
  <2>2. CASE i = 2
    BY <1>1, <1>2, <1>3, <2>2 DEF Fits
  <2>3. CASE i = 3
    BY <1>1, <1>2, <1>3, <2>3 DEF Fits
  <2>4. CASE i = 4
    BY <1>1, <1>2, <1>3, <2>4 DEF Fits
  <2> QED
    BY <1>1, <2>1, <2>2, <2>3, <2>4
<1>5. s # <<>>
  <2>1. s = <<>> => Len(s) = 0
    OBVIOUS
  <2> QED
    BY <1>1, <2>1
<1>6. Head(s) = s[1]
  BY <1>1, <1>5, TailOf
<1>8. ASSUME NEW f \in Fresh, Has(s, "rename", f) PROVE FALSE
  <2>1. PICK i \in 1..Len(s) : s[i].op = "rename" /\ s[i].f = f
    BY <1>8 DEF Has
  <2>2. \/ i = 1 \/ i = 2 \/ i = 3 \/ i = 4
    BY <1>1, <2>1
  <2> QED
    BY <1>2, <1>3, <2>1, <2>2
<1>7. ~Saves(s)
  BY <1>8 DEF Saves, Fresh
<1> QED
  BY <1>1, <1>2, <1>4, <1>5, <1>6, <1>7, <1>8 DEF Begins, Program

(* What dump_database_internal and the scripts make a process do. *)
LEMMA NormalBegins ==
    ASSUME NEW p \in Procs, NEW e \in 1..Len(TempNames) - 1,
           NEW s, s = dump_database_internal("NORMAL", e) \o Finish("exit")
    PROVE  Begins(p, s) /\ Saves(s)
<1>1. Temp(e) \in Temps /\ Temp(e - 1) \in Temps /\ Temp(e) # Temp(e - 1)
  BY TempIs
<1>2. /\ Steps(s, 12)
      /\ Is(s, 1, "unlink", Temp(e - 1), Temp(e - 1))
      /\ Is(s, 2, "open", Temp(e), Temp(e))
      /\ Is(s, 3, "close", Temp(e), Temp(e))
      /\ Is(s, 4, "rename", "outdb", "prev")
      /\ Is(s, 5, "rename", Temp(e), "outdb")
      /\ Is(s, 6, "open", "mail", "mail")
      /\ Is(s, 7, "close", "mail", "mail")
      /\ Is(s, 8, "open", "hcode.tmp", "hcode.tmp")
      /\ Is(s, 9, "close", "hcode.tmp", "hcode.tmp")
      /\ Is(s, 10, "rename", "hcode", "hcode.prev")
      /\ Is(s, 11, "rename", "hcode.tmp", "hcode")
      /\ Is(s, 12, "exit", NoFile, NoFile)
  BY NormalIs
<1> QED
  BY <1>1, <1>2, NormalFits

LEMMA RestartBegins ==
    ASSUME "restart" \in happens, NEW e,
           NEW s, s = dump_database_internal("RESTART", e) \o Finish("exec")
    PROVE  Begins(Server, s) /\ Saves(s)
<1> DEFINE w == Write("indb")
<1>1. s = ((w \o Write("mail")) \o SaveSpecialObjects("RESTART")) \o Finish("exec")
  BY DEF dump_database_internal
<1>2. /\ Steps(w, 2)
      /\ Is(w, 1, "open", "indb", "indb")
      /\ Is(w, 2, "close", "indb", "indb")
  BY WriteIs DEF Files, Databases
<1> HIDE DEF w
<1>3. /\ Steps(s, 2 + 7)
      /\ \A i, o, f, g : Is(w, i, o, f, g) => Is(s, i, o, f, g)
      /\ Is(s, 2 + 1, "open", "mail", "mail")
      /\ Is(s, 2 + 2, "close", "mail", "mail")
      /\ Is(s, 2 + 3, "open", "hcode.tmp", "hcode.tmp")
      /\ Is(s, 2 + 4, "close", "hcode.tmp", "hcode.tmp")
      /\ Is(s, 2 + 5, "rename", "hcode", "hcode.prev")
      /\ Is(s, 2 + 6, "rename", "hcode.tmp", "hcode")
      /\ Is(s, 2 + 7, "exec", NoFile, NoFile)
  <2>1. Steps(w, 2)
    BY <1>2
  <2> QED
    BY <1>1, <2>1, DumpIs
<1>4. Server \in Procs
  BY DEF Procs
<1>5. /\ Steps(s, 9)
      /\ Is(s, 1, "open", "indb", "indb")
      /\ Is(s, 2, "close", "indb", "indb")
      /\ Is(s, 3, "open", "mail", "mail")
      /\ Is(s, 4, "close", "mail", "mail")
      /\ Is(s, 5, "open", "hcode.tmp", "hcode.tmp")
      /\ Is(s, 6, "close", "hcode.tmp", "hcode.tmp")
      /\ Is(s, 7, "rename", "hcode", "hcode.prev")
      /\ Is(s, 8, "rename", "hcode.tmp", "hcode")
      /\ Is(s, 9, "exec", NoFile, NoFile)
  BY <1>2, <1>3
<1> QED
  BY <1>4, <1>5, RestartFits

LEMMA KilledBegins ==
    ASSUME "signal" \in happens, NEW e,
           NEW s, s = dump_database_internal("KILLED", e) \o Finish("exit")
    PROVE  Begins(Server, s) /\ ~Saves(s)
<1> DEFINE w == Write("KILLED")
           m == Write("mail")
           h == Write("hcode.KILLED")
           z == Finish("exit")
           wm == w \o m
           wmh == wm \o h
<1>1. s = wmh \o z
  <2>1. SaveSpecialObjects("KILLED") = h
    BY DEF SaveSpecialObjects
  <2>2. dump_database_internal("KILLED", e) = (w \o m) \o SaveSpecialObjects("KILLED")
    BY DEF dump_database_internal
  <2> QED
    BY <2>1, <2>2
<1>2. /\ Steps(w, 2) /\ Is(w, 1, "open", "KILLED", "KILLED")
      /\ Is(w, 2, "close", "KILLED", "KILLED")
      /\ Steps(m, 2) /\ Is(m, 1, "open", "mail", "mail")
      /\ Is(m, 2, "close", "mail", "mail")
      /\ Steps(h, 2) /\ Is(h, 1, "open", "hcode.KILLED", "hcode.KILLED")
      /\ Is(h, 2, "close", "hcode.KILLED", "hcode.KILLED")
  BY WriteIs DEF Files, Others
<1>3. Steps(z, 1) /\ Is(z, 1, "exit", NoFile, NoFile)
  BY OpIs DEF Kinds, Finish
<1> HIDE DEF w, m, h, z
<1>4. /\ Steps(wm, 4)
      /\ \A i, o, f, g : Is(w, i, o, f, g) => Is(wm, i, o, f, g)
      /\ \A i, o, f, g : Is(m, i, o, f, g) => Is(wm, 2 + i, o, f, g)
  BY <1>2, Joined
<1> HIDE DEF wm
<1>5. /\ Steps(wmh, 6)
      /\ \A i, o, f, g : Is(wm, i, o, f, g) => Is(wmh, i, o, f, g)
      /\ \A i, o, f, g : Is(h, i, o, f, g) => Is(wmh, 4 + i, o, f, g)
  BY <1>2, <1>4, Joined
<1> HIDE DEF wmh
<1>6. /\ Steps(s, 7)
      /\ \A i, o, f, g : Is(wmh, i, o, f, g) => Is(s, i, o, f, g)
      /\ \A i, o, f, g : Is(z, i, o, f, g) => Is(s, 6 + i, o, f, g)
  <2> DEFINE v == wmh \o z
  <2>1. /\ Steps(v, 7)
        /\ \A i, o, f, g : Is(wmh, i, o, f, g) => Is(v, i, o, f, g)
        /\ \A i, o, f, g : Is(z, i, o, f, g) => Is(v, 6 + i, o, f, g)
    BY <1>3, <1>5, Joined
  <2>2. s = v
    BY <1>1
  <2> HIDE DEF v
  <2> QED
    BY <2>1, <2>2
<1>7. /\ Is(s, 1, "open", "KILLED", "KILLED")
      /\ Is(s, 2, "close", "KILLED", "KILLED")
      /\ Is(s, 2 + 1, "open", "mail", "mail")
      /\ Is(s, 2 + 2, "close", "mail", "mail")
      /\ Is(s, 4 + 1, "open", "hcode.KILLED", "hcode.KILLED")
      /\ Is(s, 4 + 2, "close", "hcode.KILLED", "hcode.KILLED")
      /\ Is(s, 6 + 1, "exit", NoFile, NoFile)
  BY <1>2, <1>3, <1>4, <1>5, <1>6
<1>8. /\ Is(s, 3, "open", "mail", "mail")
      /\ Is(s, 4, "close", "mail", "mail")
      /\ Is(s, 5, "open", "hcode.KILLED", "hcode.KILLED")
      /\ Is(s, 6, "close", "hcode.KILLED", "hcode.KILLED")
      /\ Is(s, 7, "exit", NoFile, NoFile)
  BY <1>7
<1>9. Server \in Procs
  BY DEF Procs
<1> QED
  BY <1>6, <1>7, <1>8, <1>9, KilledFits

LEMMA CrashedBegins ==
    ASSUME "signal" \in happens, NEW e,
           NEW s, s = dump_database_internal("CRASHED", e)
                        \o Rename("outdb", "indb") \o Finish("exec")
    PROVE  Begins(Server, s) /\ ~Saves(s)
<1> DEFINE u == Unlink("CRASH")
           w == Write("CRASH")
           m == Write("mail")
           h == Write("hcode.CRASHED")
           r == Rename("outdb", "indb")
           z == Finish("exec")
           uw == u \o w
           uwm == uw \o m
           uwmh == uwm \o h
           uwmhr == uwmh \o r
<1>1. s = uwmhr \o z
  <2>1. SaveSpecialObjects("CRASHED") = h
    BY DEF SaveSpecialObjects
  <2>2. dump_database_internal("CRASHED", e)
           = ((u \o w) \o m) \o SaveSpecialObjects("CRASHED")
    BY DEF dump_database_internal
  <2> QED
    BY <2>1, <2>2
<1>2. /\ Steps(w, 2) /\ Is(w, 1, "open", "CRASH", "CRASH")
      /\ Is(w, 2, "close", "CRASH", "CRASH")
      /\ Steps(m, 2) /\ Is(m, 1, "open", "mail", "mail")
      /\ Is(m, 2, "close", "mail", "mail")
      /\ Steps(h, 2) /\ Is(h, 1, "open", "hcode.CRASHED", "hcode.CRASHED")
      /\ Is(h, 2, "close", "hcode.CRASHED", "hcode.CRASHED")
  BY WriteIs DEF Files, Others
<1>3. /\ Steps(u, 1) /\ Is(u, 1, "unlink", "CRASH", "CRASH")
      /\ Steps(r, 1) /\ Is(r, 1, "rename", "outdb", "indb")
      /\ Steps(z, 1) /\ Is(z, 1, "exec", NoFile, NoFile)
  <2>1. /\ {"unlink", "rename", "exec"} \subseteq Kinds
        /\ {"CRASH", "outdb", "indb"} \subseteq Files
    BY DEF Kinds, Files, Databases, Others
  <2> QED
    BY <2>1, OpIs DEF Finish, Unlink, Rename
<1> HIDE DEF u, w, m, h, r, z
<1>4. /\ Steps(uw, 3)
      /\ \A i, o, f, g : Is(u, i, o, f, g) => Is(uw, i, o, f, g)
      /\ \A i, o, f, g : Is(w, i, o, f, g) => Is(uw, 1 + i, o, f, g)
  BY <1>2, <1>3, Joined
<1> HIDE DEF uw
<1>5. /\ Steps(uwm, 5)
      /\ \A i, o, f, g : Is(uw, i, o, f, g) => Is(uwm, i, o, f, g)
      /\ \A i, o, f, g : Is(m, i, o, f, g) => Is(uwm, 3 + i, o, f, g)
  BY <1>2, <1>4, Joined
<1> HIDE DEF uwm
<1>6. /\ Steps(uwmh, 7)
      /\ \A i, o, f, g : Is(uwm, i, o, f, g) => Is(uwmh, i, o, f, g)
      /\ \A i, o, f, g : Is(h, i, o, f, g) => Is(uwmh, 5 + i, o, f, g)
  BY <1>2, <1>5, Joined
<1> HIDE DEF uwmh
<1>7. /\ Steps(uwmhr, 8)
      /\ \A i, o, f, g : Is(uwmh, i, o, f, g) => Is(uwmhr, i, o, f, g)
      /\ \A i, o, f, g : Is(r, i, o, f, g) => Is(uwmhr, 7 + i, o, f, g)
  BY <1>3, <1>6, Joined
<1> HIDE DEF uwmhr
<1>8. /\ Steps(s, 9)
      /\ \A i, o, f, g : Is(uwmhr, i, o, f, g) => Is(s, i, o, f, g)
      /\ \A i, o, f, g : Is(z, i, o, f, g) => Is(s, 8 + i, o, f, g)
  <2> DEFINE v == uwmhr \o z
  <2>1. /\ Steps(v, 9)
        /\ \A i, o, f, g : Is(uwmhr, i, o, f, g) => Is(v, i, o, f, g)
        /\ \A i, o, f, g : Is(z, i, o, f, g) => Is(v, 8 + i, o, f, g)
    BY <1>3, <1>7, Joined
  <2>2. s = v
    BY <1>1
  <2> HIDE DEF v
  <2> QED
    BY <2>1, <2>2
<1>9. /\ Is(s, 1, "unlink", "CRASH", "CRASH")
      /\ Is(s, 1 + 1, "open", "CRASH", "CRASH")
      /\ Is(s, 1 + 2, "close", "CRASH", "CRASH")
      /\ Is(s, 3 + 1, "open", "mail", "mail")
      /\ Is(s, 3 + 2, "close", "mail", "mail")
      /\ Is(s, 5 + 1, "open", "hcode.CRASHED", "hcode.CRASHED")
      /\ Is(s, 5 + 2, "close", "hcode.CRASHED", "hcode.CRASHED")
      /\ Is(s, 7 + 1, "rename", "outdb", "indb")
      /\ Is(s, 8 + 1, "exec", NoFile, NoFile)
  BY <1>2, <1>3, <1>4, <1>5, <1>6, <1>7, <1>8
<1>10. /\ Is(s, 2, "open", "CRASH", "CRASH")
       /\ Is(s, 3, "close", "CRASH", "CRASH")
       /\ Is(s, 4, "open", "mail", "mail")
       /\ Is(s, 5, "close", "mail", "mail")
       /\ Is(s, 6, "open", "hcode.CRASHED", "hcode.CRASHED")
       /\ Is(s, 7, "close", "hcode.CRASHED", "hcode.CRASHED")
       /\ Is(s, 8, "rename", "outdb", "indb")
       /\ Is(s, 9, "exec", NoFile, NoFile)
  BY <1>9
<1>11. Server \in Procs
  BY DEF Procs
<1> QED
  BY <1>8, <1>9, <1>10, <1>11, CrashedFits

LEMMA StartBegins ==
    ASSUME NEW s, s = Rename("indb", "save") \o Finish("checkpoint")
                        \o Op("copy", "indb", "save") \o Finish("exec")
    PROVE  Begins(Server, s) /\ ~Saves(s)
<1> DEFINE r == Rename("indb", "save")
           c == Finish("checkpoint")
           d == Op("copy", "indb", "save")
           z == Finish("exec")
           rc == r \o c
           rcd == rc \o d
<1>1. /\ Steps(r, 1) /\ Is(r, 1, "rename", "indb", "save")
      /\ Steps(c, 1) /\ Is(c, 1, "checkpoint", NoFile, NoFile)
      /\ Steps(d, 1) /\ Is(d, 1, "copy", "indb", "save")
      /\ Steps(z, 1) /\ Is(z, 1, "exec", NoFile, NoFile)
  <2>1. /\ {"rename", "checkpoint", "copy", "exec"} \subseteq Kinds
        /\ {"indb", "save"} \subseteq Files
    BY DEF Kinds, Files, Databases
  <2> QED
    BY <2>1, OpIs DEF Finish, Rename
<1>2. s = rcd \o z
  OBVIOUS
<1> HIDE DEF r, c, d, z
<1>3. /\ Steps(rc, 2)
      /\ \A i, o, f, g : Is(r, i, o, f, g) => Is(rc, i, o, f, g)
      /\ \A i, o, f, g : Is(c, i, o, f, g) => Is(rc, 1 + i, o, f, g)
  BY <1>1, Joined
<1> HIDE DEF rc
<1>4. /\ Steps(rcd, 3)
      /\ \A i, o, f, g : Is(rc, i, o, f, g) => Is(rcd, i, o, f, g)
      /\ \A i, o, f, g : Is(d, i, o, f, g) => Is(rcd, 2 + i, o, f, g)
  BY <1>1, <1>3, Joined
<1> HIDE DEF rcd
<1>5. /\ Steps(s, 4)
      /\ \A i, o, f, g : Is(rcd, i, o, f, g) => Is(s, i, o, f, g)
      /\ \A i, o, f, g : Is(z, i, o, f, g) => Is(s, 3 + i, o, f, g)
  <2> DEFINE v == rcd \o z
  <2>1. /\ Steps(v, 4)
        /\ \A i, o, f, g : Is(rcd, i, o, f, g) => Is(v, i, o, f, g)
        /\ \A i, o, f, g : Is(z, i, o, f, g) => Is(v, 3 + i, o, f, g)
    BY <1>1, <1>4, Joined
  <2>2. s = v
    BY <1>2
  <2> HIDE DEF v
  <2> QED
    BY <2>1, <2>2
<1>6. /\ Is(s, 1, "rename", "indb", "save")
      /\ Is(s, 1 + 1, "checkpoint", NoFile, NoFile)
      /\ Is(s, 2 + 1, "copy", "indb", "save")
      /\ Is(s, 3 + 1, "exec", NoFile, NoFile)
  BY <1>1, <1>3, <1>4, <1>5
<1>7. /\ Is(s, 2, "checkpoint", NoFile, NoFile)
      /\ Is(s, 3, "copy", "indb", "save") /\ Is(s, 4, "exec", NoFile, NoFile)
  BY <1>6
<1>8. Server \in Procs
  BY DEF Procs
<1> QED
  BY <1>5, <1>6, <1>7, <1>8, StartFits
-----------------------------------------------------------------------------
(* The types, under all hazards.                                            *)

LEMMA ProgramSame ==
    ASSUME scenario' = scenario, NEW p
    PROVE  Program(p, todo[p])' <=> Program(p, todo'[p])
  BY DEF Program, Fits, Written, MayRename, Fresh, happens

LEMMA ScenarioType ==
    ASSUME scenario \in Scenarios
    PROVE  /\ scenario.dumps \in 0..Len(TempNames) - 1 /\ Len(TempNames) \in Nat
           /\ scenario.dumps \in Nat
           /\ scenario.versions \in Nat /\ scenario.versions >= 1
  BY ScenariosAssumption, TempIs

LEMMA Initially == Init => TypeInv
<1> SUFFICES ASSUME Init PROVE TypeInv
  OBVIOUS
<1>1. scenario.versions \in Nat /\ scenario.versions >= 1 /\ scenario.dumps \in Nat
  BY ScenarioType DEF Init
<1>2. disk \in [Files -> Contents]
  <2>1. Whole(1) \in Contents /\ Absent \in Contents
    BY <1>1 DEF Contents, Whole, Absent
  <2> QED
    BY <2>1, Zenon DEF Init
<1>3. TypeOK
  <2>1. at \in [Procs -> Files \cup {NoFile}] /\ \A p \in Procs : at[p] = NoFile
    BY DEF Init
  <2>2. snap \in [Procs -> 1..scenario.versions]
    BY <1>1 DEF Init
  <2>3. /\ up \in BOOLEAN /\ dumping \in BOOLEAN /\ torn \in BOOLEAN /\ scenario \in Scenarios
    BY DEF Init
  <2>4. /\ stamp \in 1..scenario.versions /\ version \in 0..stamp
        /\ epoch \in 0..scenario.dumps /\ reliable \in 1..stamp
    BY <1>1 DEF Init
  <2> QED
    BY <1>2, <2>1, <2>2, <2>3, <2>4 DEF TypeOK
<1>4. /\ todo \in [Procs -> Seq(Operation)]
      /\ \A p \in Procs : Program(p, todo[p])
  BY DEF Init, Program
<1>5. \A f \in Files : disk[f].v <= stamp /\ (IsWhole(f) => disk[f].v >= 1)
  BY DEF Init, Whole, Absent, IsWhole
<1> QED
  BY <1>3, <1>4, <1>5 DEF TypeInv, Sound, Init

(* The first operation names files. *)
LEMMA HeadNames ==
    ASSUME TypeInv, NEW p \in Procs, ~Idle(p), NEW h, h = Head(todo[p])
    PROVE  /\ h \in Operation
           /\ h.op \in {"unlink", "open", "close"} => h.f \in Files
           /\ h.op = "rename" => h.f \in Files /\ h.g \in Files /\ h.f # h.g
<1>1. Program(p, todo[p]) /\ todo[p] # <<>>
  BY DEF TypeInv, Sound, Idle
<1>2. /\ h \in Operation
      /\ h.op = "unlink" => h.f \in Temps \cup {"CRASH"}
      /\ h.op \in {"open", "close"} => h.f \in Written
      /\ h.op = "rename" => MayRename(h.f, h.g)
  BY <1>1, HeadFits
<1>3. h.op = "rename" => h.f \in Files /\ h.g \in Files /\ h.f # h.g
  BY <1>2, FileNames DEF MayRename, Files, Databases, Others
<1> QED
  BY <1>2, <1>3, FileNames DEF Files, Others

(* A process does its first operation, and has the rest to do. *)
LEMMA TodoNext ==
    ASSUME TypeInv, NEW p \in Procs, NEW op, Does(p, op), scenario' = scenario
    PROVE  /\ todo' \in [Procs -> Seq(Operation)]
           /\ todo'[p] = Tail(todo[p])
           /\ \A q \in Procs \ {p} : todo'[q] = todo[q]
           /\ \A q \in Procs : Program(q, todo[q])'
           /\ todo'[p] # <<>> =>
                  /\ Head(todo'[p]).op = "close" => op = "open"
                  /\ Head(todo'[p]).op = "copy" => op = "checkpoint"
<1>1. /\ todo \in [Procs -> Seq(Operation)] /\ todo[p] # <<>>
      /\ \A q \in Procs : Program(q, todo[q])
      /\ todo' = [todo EXCEPT ![p] = Tail(@)] /\ Head(todo[p]).op = op
  BY DEF TypeInv, Sound, Does, Idle
<1>2. Tail(todo[p]) \in Seq(Operation)
  BY <1>1, TailOf
<1>3. /\ todo' \in [Procs -> Seq(Operation)]
      /\ todo'[p] = Tail(todo[p])
      /\ \A q \in Procs \ {p} : todo'[q] = todo[q]
  BY <1>1, <1>2
<1>4. Program(p, Tail(todo[p]))
  BY <1>1, TailFits
<1>5. \A q \in Procs : Program(q, todo[q])'
  BY <1>1, <1>3, <1>4, ProgramSame
<1>6. Tail(todo[p]) # <<>> =>
         /\ Head(Tail(todo[p])).op = "close" => op = "open"
         /\ Head(Tail(todo[p])).op = "copy" => op = "checkpoint"
  <2> DEFINE s == todo[p]
             h == Head(s)
             t == Tail(s)
  <2>1. Program(p, s) /\ s # <<>> /\ h.op = op /\ h = Head(s) /\ t = Tail(s)
    BY <1>1
  <2> HIDE DEF s, h, t
  <2>2. t # <<>> => /\ Head(t).op = "close" => h.op = "open"
                    /\ Head(t).op = "copy" => h.op = "checkpoint"
    BY <2>1, HeadFits
  <2> QED
    BY <2>1, <2>2 DEF s, t
<1> QED
  BY <1>3, <1>5, <1>6

(* An idle process starts a program. *)
LEMMA TodoBegin ==
    ASSUME TypeInv, NEW p \in Procs, NEW s, Begins(p, s), Begin(p, s),
           scenario' = scenario
    PROVE  /\ todo' \in [Procs -> Seq(Operation)]
           /\ todo'[p] = s
           /\ \A q \in Procs \ {p} : todo'[q] = todo[q]
           /\ \A q \in Procs : Program(q, todo[q])'
<1>1. s \in Seq(Operation)
  BY DEF Begins, Program
<1>2. /\ todo \in [Procs -> Seq(Operation)]
      /\ todo' = [todo EXCEPT ![p] = s]
      /\ \A q \in Procs : Program(q, todo[q])
  BY DEF TypeInv, Sound, Begin
<1>3. /\ todo' \in [Procs -> Seq(Operation)]
      /\ todo'[p] = s
      /\ \A q \in Procs \ {p} : todo'[q] = todo[q]
  BY <1>1, <1>2
<1>4. \A q \in Procs : Program(q, todo[q])'
  BY <1>2, <1>3, ProgramSame DEF Begins
<1> QED
  BY <1>3, <1>4

LEMMA BeginTyped ==
    ASSUME TypeInv, NEW p \in Procs, NEW s, Begins(p, s), Begin(p, s), Idle(p),
           UNCHANGED <<up, version, stamp, scenario>>,
           epoch' \in 0..scenario.dumps, dumping' \in BOOLEAN, torn' \in BOOLEAN
    PROVE  TypeInv'
<1>1. /\ todo' \in [Procs -> Seq(Operation)]
      /\ \A q \in Procs \ {p} : todo'[q] = todo[q]
      /\ \A q \in Procs : Program(q, todo[q])'
  BY TodoBegin
<1>2. /\ snap' \in [Procs -> 1..scenario.versions]
      /\ \A q \in Procs : snap'[q] <= stamp
  <2>1. /\ snap \in [Procs -> 1..scenario.versions]
        /\ snap' = [snap EXCEPT ![p] = IF up THEN version ELSE @]
        /\ up => version >= 1 /\ version <= stamp /\ version \in Nat
        /\ stamp \in 1..scenario.versions /\ scenario.versions \in Nat
        /\ \A q \in Procs : snap[q] <= stamp
    BY ScenarioType DEF TypeInv, TypeOK, Sound, Begin
  <2> QED
    BY <2>1
<1>3. UNCHANGED <<disk, at, reliable>>
  BY DEF Begin
<1>4. \A q \in Procs : at'[q] # NoFile =>
         todo'[q] # <<>> /\ Head(todo'[q]).op \in {"close", "copy"}
  BY <1>1, <1>3 DEF TypeInv, Sound, Idle
<1>5. TypeOK'
  BY <1>2, <1>3, <1>4 DEF TypeInv, TypeOK, Contents, Idle
<1>6. Sound'
  BY <1>1, <1>2, <1>3, <1>4 DEF TypeInv, Sound, Idle, IsWhole
<1> QED
  BY <1>5, <1>6 DEF TypeInv


(* What may be in a file, with versions up to n. *)
Entry(x, n) ==
    /\ x \in [v : 0..n, state : {"absent", "whole", "partial", "mixed"}]
    /\ x.state = "whole" => x.v >= 1

LEMMA Entries ==
    ASSUME NEW n \in Nat, NEW v \in 1..n
    PROVE  /\ Entry(Absent, n) /\ Entry(Whole(v), n)
           /\ Entry(Partial(v), n) /\ Entry(Mixed(v), n)
  BY DEF Entry, Absent, Whole, Partial, Mixed

LEMMA DiskEntries ==
    ASSUME TypeInv
    PROVE  /\ stamp \in Nat /\ stamp >= 1 /\ stamp <= scenario.versions
           /\ DOMAIN disk = Files
           /\ \A f \in Files : Entry(disk[f], stamp)
           /\ \A p \in Procs : snap[p] \in 1..stamp
<1>1. /\ disk \in [Files -> Contents]
      /\ \A f \in Files : disk[f].v <= stamp /\ (IsWhole(f) => disk[f].v >= 1)
      /\ stamp \in 1..scenario.versions /\ scenario.versions \in Nat
      /\ snap \in [Procs -> 1..scenario.versions]
      /\ \A p \in Procs : snap[p] <= stamp
  BY ScenarioType DEF TypeInv, TypeOK, Sound
<1>2. ASSUME NEW f \in Files PROVE Entry(disk[f], stamp)
  <2>1. disk[f] \in Contents /\ disk[f].v <= stamp /\ (IsWhole(f) => disk[f].v >= 1)
    BY <1>1
  <2> QED
    BY <1>1, <2>1 DEF Entry, Contents, IsWhole
<1>3. ASSUME NEW p \in Procs PROVE snap[p] \in 1..stamp
  BY <1>1
<1> QED
  BY <1>1, <1>2, <1>3

(* Who does an operation keeps the types if what it leaves has them. *)
LEMMA DoTyped ==
    ASSUME TypeInv, NEW p \in Procs, NEW op, Does(p, op), scenario' = scenario, torn' \in BOOLEAN,
           DOMAIN disk' = Files, disk' = [f \in Files |-> disk'[f]],
           \A f \in Files : Entry(disk'[f], stamp),
           at' \in [Procs -> Files \cup {NoFile}],
           at'[p] # NoFile => op \in {"open", "checkpoint"},
           \A q \in Procs \ {p} : at'[q] # NoFile => at[q] # NoFile,
           up' \in BOOLEAN, dumping' \in BOOLEAN,
           stamp' = stamp, version' \in 0..stamp, up' => version' >= 1,
           epoch' \in 0..scenario.dumps, reliable' \in 1..stamp
    PROVE  TypeInv'
<1>1. /\ todo' \in [Procs -> Seq(Operation)]
      /\ todo'[p] = Tail(todo[p])
      /\ \A q \in Procs \ {p} : todo'[q] = todo[q]
      /\ \A q \in Procs : Program(q, todo[q])'
  BY TodoNext
<1>2. op = "open" => todo'[p] # <<>> /\ Head(todo'[p]).op = "close"
  <2>1. Program(p, todo[p]) /\ todo[p] # <<>> /\ Head(todo[p]).op = op
    BY DEF TypeInv, Sound, Does, Idle
  <2> QED
    <3> DEFINE s == todo[p]
               h == Head(s)
               t == Tail(s)
    <3>1. Program(p, s) /\ s # <<>> /\ h.op = op /\ h = Head(s) /\ t = Tail(s)
      BY <2>1
    <3>2. t = todo'[p]
      BY <1>1
    <3> HIDE DEF s, h, t
    <3>3. op = "open" => t # <<>> /\ Head(t).op = "close"
      BY ONLY <3>1, HeadOpens
    <3> QED
      BY <3>2, <3>3
<1>11. op = "checkpoint" => todo'[p] # <<>> /\ Head(todo'[p]).op = "copy"
  <2> DEFINE s == todo[p]
             h == Head(s)
             t == Tail(s)
  <2>1. Program(p, s) /\ s # <<>> /\ h.op = op /\ h = Head(s) /\ t = Tail(s)
    BY DEF TypeInv, Sound, Does, Idle
  <2>2. t = todo'[p]
    BY <1>1
  <2> HIDE DEF s, h, t
  <2> QED
    BY <2>1, <2>2, HeadCopies
<1>3. ASSUME NEW q \in Procs, at'[q] # NoFile
      PROVE  todo'[q] # <<>> /\ Head(todo'[q]).op \in {"close", "copy"}
  <2>1. CASE q = p
    BY <1>2, <1>3, <1>11, <2>1
  <2>2. CASE q # p
    BY <1>1, <1>3, <2>2 DEF TypeInv, Sound, Idle
  <2> QED
    BY <2>1, <2>2
<1>4. stamp \in Nat /\ stamp >= 1 /\ stamp <= scenario.versions /\ scenario.versions \in Nat
  BY DiskEntries, ScenarioType DEF TypeInv, TypeOK
<1>5. \A f \in Files : disk'[f] \in [v : 0..scenario.versions,
                          state : {"absent", "whole", "partial", "mixed"}]
  BY <1>4 DEF Entry
<1>6. disk' \in [Files -> [v : 0..scenario.versions,
                          state : {"absent", "whole", "partial", "mixed"}]]
  BY <1>5
<1>7. snap' = snap
  BY DEF Does
<1>8. TypeOK'
  BY <1>3, <1>4, <1>6, <1>7 DEF TypeInv, TypeOK, Contents, Idle
<1>9. \A f \in Files : disk'[f].v <= stamp /\ (disk'[f].state = "whole" => disk'[f].v >= 1)
  BY <1>4 DEF Entry
<1>10. Sound'
  BY <1>1, <1>3, <1>7, <1>9 DEF TypeInv, Sound, Idle, IsWhole
<1> QED
  BY <1>8, <1>10 DEF TypeInv

LEMMA DoFacts ==
    ASSUME TypeInv, NEW p \in Procs, NEW op, Does(p, op)
    PROVE  /\ op \notin {"close", "copy"} => at[p] = NoFile
           /\ ~Idle(p) /\ Head(todo[p]).op = op
           /\ at \in [Procs -> Files \cup {NoFile}]
           /\ disk = [f \in Files |-> disk[f]]
           /\ up \in BOOLEAN /\ dumping \in BOOLEAN
           /\ version \in 0..stamp /\ (up => version >= 1)
           /\ epoch \in 0..scenario.dumps /\ reliable \in 1..stamp
  BY DEF TypeInv, Sound, TypeOK, Does

LEMMA UnlinkTyped ==
    ASSUME TypeInv, NEW p \in Procs, DoUnlink(p), scenario' = scenario, torn' \in BOOLEAN
    PROVE  TypeInv'
<1> DEFINE f == Head(todo[p]).f
<1>1. /\ Does(p, "unlink")
      /\ disk' = [disk EXCEPT ![f] = Absent]
      /\ at' = [q \in Procs |-> IF at[q] = f THEN NoFile ELSE at[q]]
      /\ UNCHANGED <<up, version, stamp, epoch, dumping, reliable>>
  BY DEF DoUnlink, memory
<1>2. f \in Files
  BY <1>1, DoFacts, HeadNames
<1>3. Entry(Absent, stamp)
  BY DiskEntries, Entries
<1>4. \A x \in Files : Entry(disk'[x], stamp)
  BY <1>1, <1>2, <1>3, DiskEntries
<1>5. disk' = [x \in Files |-> disk'[x]]
  BY <1>1, DoFacts
<1>6. /\ at' \in [Procs -> Files \cup {NoFile}]
      /\ at'[p] # NoFile => "unlink" \in {"open", "checkpoint"}
      /\ \A q \in Procs \ {p} : at'[q] # NoFile => at[q] # NoFile
  BY <1>1, DoFacts
<1> QED
  BY <1>1, <1>4, <1>5, <1>6, DoFacts, DoTyped

LEMMA OpenTyped ==
    ASSUME TypeInv, NEW p \in Procs, DoOpen(p), scenario' = scenario, torn' \in BOOLEAN
    PROVE  TypeInv'
<1> DEFINE f == Head(todo[p]).f
           x == IF \E q \in Procs : at[q] = f THEN Mixed(snap[p]) ELSE Partial(snap[p])
<1>1. /\ Does(p, "open")
      /\ disk' = [disk EXCEPT ![f] = x]
      /\ at' = [at EXCEPT ![p] = f]
      /\ UNCHANGED <<up, version, stamp, epoch, dumping, reliable>>
  BY DEF DoOpen, memory
<1>2. f \in Files
  BY <1>1, DoFacts, HeadNames
<1>3. Entry(x, stamp)
  BY DiskEntries, Entries
<1> HIDE DEF x
<1>4. \A y \in Files : Entry(disk'[y], stamp)
  BY <1>1, <1>2, <1>3, DiskEntries
<1>5. disk' = [y \in Files |-> disk'[y]]
  BY <1>1, DoFacts
<1>6. /\ at' \in [Procs -> Files \cup {NoFile}]
      /\ \A q \in Procs \ {p} : at'[q] # NoFile => at[q] # NoFile
  BY <1>1, <1>2, DoFacts
<1> QED
  BY <1>1, <1>4, <1>5, <1>6, DoFacts, DoTyped

LEMMA CloseTyped ==
    ASSUME TypeInv, NEW p \in Procs, DoClose(p), scenario' = scenario, torn' \in BOOLEAN
    PROVE  TypeInv'
<1> DEFINE f == at[p]
<1>1. /\ Does(p, "close")
      /\ disk' = IF f # NoFile /\ disk[f].state = "partial"
                   THEN [disk EXCEPT ![f] = Whole(snap[p])] ELSE disk
      /\ at' = [at EXCEPT ![p] = NoFile]
      /\ reliable' \in {snap[p], reliable}
      /\ UNCHANGED <<up, version, stamp, epoch, dumping>>
  BY DEF DoClose, memory
<1>2. f \in Files \cup {NoFile}
  BY <1>1, DoFacts
<1>3. Entry(Whole(snap[p]), stamp) /\ snap[p] \in 1..stamp
  BY DiskEntries, Entries
<1>4. \A y \in Files : Entry(disk'[y], stamp)
  BY <1>1, <1>2, <1>3, DiskEntries
<1>5. disk' = [y \in Files |-> disk'[y]]
  BY <1>1, DoFacts
<1>6. /\ at' \in [Procs -> Files \cup {NoFile}]
      /\ at'[p] = NoFile
      /\ \A q \in Procs \ {p} : at'[q] # NoFile => at[q] # NoFile
  BY <1>1, DoFacts
<1>7. reliable' \in 1..stamp
  BY <1>1, <1>3, DoFacts
<1> QED
  BY <1>1, <1>4, <1>5, <1>6, <1>7, DoFacts, DoTyped

LEMMA RenameTyped ==
    ASSUME TypeInv, NEW p \in Procs, DoRename(p), scenario' = scenario, torn' \in BOOLEAN
    PROVE  TypeInv'
<1> DEFINE f == Head(todo[p]).f
           g == Head(todo[p]).g
<1>1. /\ Does(p, "rename")
      /\ \/ /\ disk' = [disk EXCEPT ![g] = disk[f], ![f] = Absent]
            /\ at' = [q \in Procs |-> IF at[q] = f THEN g
                                      ELSE IF at[q] = g THEN NoFile
                                      ELSE at[q]]
         \/ disk' = disk /\ at' = at
      /\ \/ reliable' = reliable
         \/ IsWhole(f) /\ reliable' = disk[f].v
      /\ UNCHANGED <<up, version, stamp, epoch, dumping>>
  BY DEF DoRename, memory
<1>2. f \in Files /\ g \in Files /\ f # g
  BY <1>1, DoFacts, HeadNames
<1>3. Entry(Absent, stamp) /\ Entry(disk[f], stamp)
  BY <1>2, DiskEntries, Entries
<1>4. \A y \in Files : Entry(disk'[y], stamp)
  BY <1>1, <1>2, <1>3, DiskEntries
<1>5. disk' = [y \in Files |-> disk'[y]]
  BY <1>1, DoFacts
<1>6. /\ at' \in [Procs -> Files \cup {NoFile}]
      /\ \A q \in Procs : at'[q] # NoFile => at[q] # NoFile
  BY <1>1, <1>2, DoFacts, FileNames
<1>7. reliable' \in 1..stamp
  BY <1>1, <1>3, DoFacts DEF Entry, IsWhole
<1>8. at'[p] # NoFile => "rename" \in {"open", "checkpoint"}
  BY <1>6, <1>1, DoFacts
<1> QED
  BY <1>1, <1>4, <1>5, <1>6, <1>7, <1>8, DoFacts, DoTyped

LEMMA ExitTyped ==
    ASSUME TypeInv, NEW p \in Procs, DoExit(p), scenario' = scenario, torn' \in BOOLEAN
    PROVE  TypeInv'
<1>1. /\ Does(p, "exit")
      /\ up' \in {FALSE, up} /\ dumping' \in BOOLEAN
      /\ UNCHANGED <<disk, at, version, stamp, epoch, reliable>>
  BY DoFacts DEF DoExit, sighandler_chld
<1>2. /\ disk' = [y \in Files |-> disk'[y]]
      /\ \A y \in Files : Entry(disk'[y], stamp)
  BY <1>1, DoFacts, DiskEntries
<1>3. Does(p, "exit") /\ at' = at
  BY <1>1
<1>4. /\ at' \in [Procs -> Files \cup {NoFile}]
      /\ at'[p] # NoFile => "exit" \in {"open", "checkpoint"}
      /\ \A q \in Procs \ {p} : at'[q] # NoFile => at[q] # NoFile
  <2>1. at[p] = NoFile
    BY <1>3, DoFacts
  <2>2. at \in [Procs -> Files \cup {NoFile}]
    BY <1>3, DoFacts
  <2> QED
    BY <1>3, <2>1, <2>2
<1>5. /\ up' \in BOOLEAN /\ (up' => version' >= 1) /\ version' \in 0..stamp
      /\ epoch' \in 0..scenario.dumps /\ reliable' \in 1..stamp /\ stamp' = stamp
  <2>1. /\ up \in BOOLEAN /\ (up => version >= 1) /\ version \in 0..stamp
        /\ epoch \in 0..scenario.dumps /\ reliable \in 1..stamp
    BY <1>3, DoFacts
  <2>2. /\ version' = version /\ epoch' = epoch /\ reliable' = reliable
        /\ stamp' = stamp
    BY <1>1
  <2>3. up' \in BOOLEAN /\ (up' => up)
    <3>1. CASE up' = FALSE
      BY <3>1
    <3>2. CASE up' = up
      BY <2>1, <3>2
    <3> QED
      BY <1>1, <3>1, <3>2
  <2> QED
    BY <2>1, <2>2, <2>3
<1> QED
  BY <1>1, <1>2, <1>4, <1>5, DoTyped

LEMMA ExecTyped ==
    ASSUME TypeInv, NEW p \in Procs, DoExec(p), scenario' = scenario, torn' \in BOOLEAN
    PROVE  TypeInv'
<1>1. /\ Does(p, "exec")
      /\ up' = IsWhole("indb")
      /\ version' = disk["indb"].v
      /\ epoch' = 0
      /\ dumping' = FALSE
      /\ reliable' = IF up' THEN version' ELSE reliable
      /\ disk' = disk /\ at' = at /\ stamp' = stamp
  BY DEF DoExec, load_game
<1>2. /\ disk' = [y \in Files |-> disk'[y]]
      /\ \A y \in Files : Entry(disk'[y], stamp)
  BY <1>1, DoFacts, DiskEntries
<1>3. at' = at
  BY <1>1
<1>4. /\ at' \in [Procs -> Files \cup {NoFile}]
      /\ at'[p] # NoFile => "exec" \in {"open", "checkpoint"}
      /\ \A q \in Procs \ {p} : at'[q] # NoFile => at[q] # NoFile
  BY <1>1, <1>3, DoFacts
<1>5. Entry(disk["indb"], stamp) /\ stamp \in Nat
  BY DiskEntries DEF Files, Databases
<1>6. version' \in 0..stamp /\ (up' => version' >= 1) /\ up' \in BOOLEAN
  BY <1>1, <1>5 DEF Entry, IsWhole
<1>7. epoch' \in 0..scenario.dumps /\ reliable' \in 1..stamp
  BY <1>1, <1>5, <1>6, DoFacts, ScenarioType DEF TypeInv, TypeOK
<1>8. dumping' \in BOOLEAN
  BY <1>1
<1> QED
  BY <1>1, <1>2, <1>4, <1>6, <1>7, <1>8, DoTyped

LEMMA CheckpointTyped ==
    ASSUME TypeInv, NEW p \in Procs, DoCheckpoint(p), scenario' = scenario, torn' \in BOOLEAN
    PROVE  TypeInv'
<1> DEFINE x == Partial(disk["save"].v)
<1>1. /\ Does(p, "checkpoint")
      /\ \/ disk' = [disk EXCEPT !["indb"] = disk["outdb"], !["outdb"] = Absent]
         \/ disk' = [disk EXCEPT !["indb"] = x]
         \/ disk' = disk
      /\ at' = [at EXCEPT ![p] = "indb"] \/ at' = at
      /\ UNCHANGED <<up, version, stamp, epoch, dumping, reliable>>
  BY DEF DoCheckpoint, memory
<1>2. /\ Entry(Absent, stamp) /\ {"indb", "outdb", "save"} \subseteq Files
      /\ Entry(disk["outdb"], stamp) /\ Entry(disk["save"], stamp)
  BY DiskEntries, Entries DEF Files, Databases
<1>3. Entry(x, stamp)
  BY <1>2 DEF Entry, Partial
<1> HIDE DEF x
<1>4. \A y \in Files : Entry(disk'[y], stamp)
  BY <1>1, <1>2, <1>3, DiskEntries
<1>5. disk' = [y \in Files |-> disk'[y]]
  BY <1>1, DoFacts
<1>6. /\ at' \in [Procs -> Files \cup {NoFile}]
      /\ at'[p] # NoFile => "checkpoint" \in {"open", "checkpoint"}
      /\ \A q \in Procs \ {p} : at'[q] # NoFile => at[q] # NoFile
  BY <1>1, <1>2, DoFacts
<1> QED
  BY <1>1, <1>4, <1>5, <1>6, DoFacts, DoTyped

LEMMA CopyTyped ==
    ASSUME TypeInv, NEW p \in Procs, DoCopy(p), scenario' = scenario, torn' \in BOOLEAN
    PROVE  TypeInv'
<1>1. /\ Does(p, "copy")
      /\ disk' = [disk EXCEPT !["indb"] = disk["save"]] \/ disk' = disk
      /\ at' = [at EXCEPT ![p] = NoFile]
      /\ UNCHANGED <<up, version, stamp, epoch, dumping, reliable>>
  BY DEF DoCopy, memory
<1>2. {"indb", "save"} \subseteq Files /\ Entry(disk["save"], stamp)
  BY DiskEntries DEF Files, Databases
<1>3. \A y \in Files : Entry(disk'[y], stamp)
  BY <1>1, <1>2, DiskEntries
<1>4. disk' = [y \in Files |-> disk'[y]]
  BY <1>1, DoFacts
<1>5. /\ at' \in [Procs -> Files \cup {NoFile}]
      /\ at'[p] = NoFile
      /\ \A q \in Procs \ {p} : at'[q] # NoFile => at[q] # NoFile
  BY <1>1, DoFacts
<1> QED
  BY <1>1, <1>3, <1>4, <1>5, DoFacts, DoTyped

LEMMA PlayTyped ==
    ASSUME TypeInv, Play, scenario' = scenario, torn' \in BOOLEAN
    PROVE  TypeInv'
<1>1. /\ stamp' = stamp + 1 /\ version' = stamp + 1 /\ stamp < scenario.versions
      /\ UNCHANGED <<disk, todo, at, snap, up, epoch, dumping, reliable>>
  BY DEF Play, procs
<1>2. /\ stamp \in Nat /\ stamp >= 1 /\ scenario.versions \in Nat
      /\ \A f \in Files : Entry(disk[f], stamp)
      /\ \A p \in Procs : snap[p] \in 1..stamp
      /\ reliable \in 1..stamp
  BY DiskEntries, ScenarioType DEF TypeInv, TypeOK
<1>3. \A q \in Procs : Program(q, todo[q])'
  BY <1>1, ProgramSame DEF TypeInv, Sound
<1>4. /\ stamp' \in 1..scenario.versions /\ version' \in 0..stamp' /\ version' >= 1
      /\ reliable' \in 1..stamp'
  BY <1>1, <1>2
<1>5. TypeOK'
  BY <1>1, <1>4 DEF TypeInv, TypeOK, Contents, Idle
<1>6. \A f \in Files : disk'[f].v <= stamp' /\ (IsWhole(f)' => disk'[f].v >= 1)
  BY <1>1, <1>2 DEF Entry, IsWhole
<1>7. \A p \in Procs : snap'[p] <= stamp'
  BY <1>1, <1>2
<1>8. Sound'
  BY <1>1, <1>3, <1>4, <1>6, <1>7 DEF TypeInv, Sound, Idle
<1> QED
  BY <1>5, <1>8 DEF TypeInv

(* Nothing but the flags of a dump changes. *)
LEMMA FlagsTyped ==
    ASSUME TypeInv, UNCHANGED <<disk, todo, at, snap, up, version, stamp, reliable, scenario>>,
           epoch' \in 0..scenario.dumps, dumping' \in BOOLEAN, torn' \in BOOLEAN
    PROVE  TypeInv'
<1>1. \A q \in Procs : Program(q, todo[q])'
  BY ProgramSame DEF TypeInv, Sound
<1>2. TypeOK'
  BY DEF TypeInv, TypeOK, Contents, Idle
<1>3. Sound'
  BY <1>1 DEF TypeInv, Sound, Idle, IsWhole
<1> QED
  BY <1>2, <1>3 DEF TypeInv

(* The number of the next dump, and its temporary file. *)
LEMMA NextEpoch ==
    ASSUME TypeInv, epoch < scenario.dumps
    PROVE  /\ epoch + 1 \in 1..Len(TempNames) - 1
           /\ epoch + 1 \in 0..scenario.dumps
  BY ScenarioType DEF TypeInv, TypeOK

(* A checkpoint forks a child that saves, or the fork fails. *)
LEMMA ForkBegins ==
    ASSUME TypeInv, fork_and_dump
    PROVE  /\ UNCHANGED <<up, version, stamp>>
           /\ epoch' \in 0..scenario.dumps /\ dumping' = TRUE
           /\ up /\ Idle(Server) /\ (Dumping => "overlap" \in happens)
           /\ \/ \E c \in Children : \E s : /\ Idle(c) /\ Begin(c, s)
                                             /\ Begins(c, s) /\ Saves(s)
              \/ UNCHANGED <<disk, todo, at, snap, reliable>>
<1>1. /\ epoch < scenario.dumps /\ epoch' = epoch + 1 /\ dumping' = TRUE
      /\ UNCHANGED <<up, version, stamp>>
      /\ up /\ Idle(Server) /\ (Dumping => "overlap" \in happens)
  BY DEF fork_and_dump, Serving
<1>2. epoch + 1 \in 1..Len(TempNames) - 1 /\ epoch' \in 0..scenario.dumps
  BY <1>1, NextEpoch
<1>3. ASSUME NEW c \in Children, Idle(c),
             Begin(c, dump_database_internal("NORMAL", epoch + 1) \o Finish("exit"))
      PROVE  \E s : Begin(c, s) /\ Begins(c, s) /\ Saves(s)
  <2> DEFINE s == dump_database_internal("NORMAL", epoch + 1) \o Finish("exit")
  <2>1. Begin(c, s) /\ s = dump_database_internal("NORMAL", epoch + 1) \o Finish("exit")
    BY <1>3
  <2>2. c \in Procs
    BY DEF Procs
  <2> HIDE DEF s
  <2>3. Begins(c, s) /\ Saves(s)
    BY <1>2, <2>1, <2>2, NormalBegins
  <2> QED
    BY <2>1, <2>3
<1>4. \/ \E c \in Children :
            /\ Idle(c)
            /\ Begin(c, dump_database_internal("NORMAL", epoch + 1) \o Finish("exit"))
      \/ UNCHANGED <<disk, todo, at, snap, reliable>>
  BY DEF fork_and_dump, procs
<1> QED
  BY <1>1, <1>2, <1>3, <1>4

(* What the server does itself: a shutdown, a restart, the signal handler   *)
(* and the start of netmux by the script.                                   *)
Serves ==
    \/ dump_database \/ do_restart
    \/ sighandler_term \/ sighandler_fault \/ Startmux

LEMMA ServerBegins ==
    ASSUME TypeInv, Serves
    PROVE  /\ UNCHANGED <<up, version, stamp>>
           /\ epoch' \in 0..scenario.dumps /\ dumping' \in BOOLEAN
           /\ Idle(Server)
           /\ dump_database => dumping' = TRUE
           /\ ~dump_database => dumping' = dumping
           /\ \E s : /\ Begin(Server, s) /\ Begins(Server, s)
                     /\ Saves(s) => dump_database \/ do_restart
<1>1. CASE dump_database
  <2> DEFINE s == dump_database_internal("NORMAL", epoch + 1) \o Finish("exit")
  <2>1. /\ Begin(Server, s) /\ s = dump_database_internal("NORMAL", epoch + 1) \o Finish("exit")
        /\ epoch < scenario.dumps /\ epoch' = epoch + 1 /\ dumping' = TRUE
        /\ UNCHANGED <<up, version, stamp>> /\ Idle(Server)
    BY <1>1 DEF dump_database, Serving
  <2>2. epoch + 1 \in 1..Len(TempNames) - 1 /\ epoch' \in 0..scenario.dumps
    BY <2>1, NextEpoch
  <2>3. Server \in Procs
    BY DEF Procs
  <2> HIDE DEF s
  <2>4. Begins(Server, s)
    BY <2>1, <2>2, <2>3, NormalBegins
  <2> QED
    BY <1>1, <2>1, <2>2, <2>4
<1>2. CASE do_restart
  <2> DEFINE s == dump_database_internal("RESTART", epoch) \o Finish("exec")
  <2>1. /\ Begin(Server, s) /\ s = dump_database_internal("RESTART", epoch) \o Finish("exec")
        /\ UNCHANGED <<up, version, stamp, epoch, dumping>> /\ Idle(Server)
        /\ "restart" \in happens
    BY <1>2 DEF do_restart, Serving, memory
  <2> HIDE DEF s
  <2>2. Begins(Server, s)
    BY <2>1, RestartBegins
  <2>3. epoch' \in 0..scenario.dumps /\ dumping' \in BOOLEAN
    BY <2>1 DEF TypeInv, TypeOK
  <2>4. ~dump_database \/ dumping' = TRUE
    BY DEF dump_database
  <2>5. dumping' = dumping
    BY <2>1
  <2> QED
    BY <1>2, <2>1, <2>2, <2>3, <2>4, <2>5
<1>3. CASE sighandler_term
  <2> DEFINE s == dump_database_internal("KILLED", epoch) \o Finish("exit")
  <2>1. /\ Begin(Server, s) /\ s = dump_database_internal("KILLED", epoch) \o Finish("exit")
        /\ UNCHANGED <<up, version, stamp, epoch, dumping>> /\ Idle(Server)
        /\ "signal" \in happens
    BY <1>3 DEF sighandler_term, Serving, memory
  <2> HIDE DEF s
  <2>2. Begins(Server, s) /\ ~Saves(s)
    BY <2>1, KilledBegins
  <2>3. epoch' \in 0..scenario.dumps /\ dumping' \in BOOLEAN
    BY <2>1 DEF TypeInv, TypeOK
  <2>4. ~dump_database \/ dumping' = TRUE
    BY DEF dump_database
  <2>5. dumping' = dumping
    BY <2>1
  <2> QED
    BY <2>1, <2>2, <2>3, <2>4, <2>5
<1>4. CASE sighandler_fault
  <2> DEFINE s == dump_database_internal("CRASHED", epoch)
                    \o Rename("outdb", "indb") \o Finish("exec")
  <2>1. /\ Begin(Server, s)
        /\ s = dump_database_internal("CRASHED", epoch)
                    \o Rename("outdb", "indb") \o Finish("exec")
        /\ UNCHANGED <<up, version, stamp, epoch, dumping>> /\ Idle(Server)
        /\ "signal" \in happens
    BY <1>4 DEF sighandler_fault, Serving, memory
  <2> HIDE DEF s
  <2>2. Begins(Server, s) /\ ~Saves(s)
    BY <2>1, CrashedBegins
  <2>3. epoch' \in 0..scenario.dumps /\ dumping' \in BOOLEAN
    BY <2>1 DEF TypeInv, TypeOK
  <2>4. ~dump_database \/ dumping' = TRUE
    BY DEF dump_database
  <2>5. dumping' = dumping
    BY <2>1
  <2> QED
    BY <2>1, <2>2, <2>3, <2>4, <2>5
<1>5. CASE Startmux
  <2> DEFINE s == Rename("indb", "save") \o Finish("checkpoint")
                    \o Op("copy", "indb", "save") \o Finish("exec")
  <2>1. /\ Begin(Server, s)
        /\ s = Rename("indb", "save") \o Finish("checkpoint")
                    \o Op("copy", "indb", "save") \o Finish("exec")
        /\ UNCHANGED <<up, version, stamp, epoch, dumping>> /\ Idle(Server)
    BY <1>5 DEF Startmux, memory, Procs
  <2> HIDE DEF s
  <2>2. Begins(Server, s) /\ ~Saves(s)
    BY <2>1, StartBegins
  <2>3. epoch' \in 0..scenario.dumps /\ dumping' \in BOOLEAN
    BY <2>1 DEF TypeInv, TypeOK
  <2>4. ~dump_database \/ dumping' = TRUE
    BY DEF dump_database
  <2>5. dumping' = dumping
    BY <2>1
  <2> QED
    BY <2>1, <2>2, <2>3, <2>4, <2>5
<1> QED
  BY <1>1, <1>2, <1>3, <1>4, <1>5 DEF Serves

LEMMA CrashTyped ==
    ASSUME TypeInv, Crash, scenario' = scenario, torn' \in BOOLEAN
    PROVE  TypeInv'
<1>1. /\ todo' = [p \in Procs |-> <<>>]
      /\ at' = [p \in Procs |-> NoFile]
      /\ snap' = [p \in Procs |-> 1]
      /\ up' = FALSE /\ version' = 0 /\ epoch' = 0 /\ dumping' = FALSE
      /\ disk' = disk /\ stamp' = stamp /\ reliable' = reliable
  BY DEF Crash
<1>2. /\ stamp \in 1..scenario.versions /\ scenario.versions \in Nat
      /\ scenario.dumps \in Nat /\ stamp \in Nat
  BY ScenarioType DEF TypeInv, TypeOK
<1>3. todo' \in [Procs -> Seq(Operation)] /\ \A p \in Procs : todo'[p] = <<>>
  BY <1>1
<1>4. \A p \in Procs : Program(p, todo[p])'
  <2>1. ASSUME NEW p \in Procs PROVE Program(p, todo'[p])
    BY <1>3 DEF Program
  <2> QED
    BY <2>1, ProgramSame
<1>5. /\ snap' \in [Procs -> 1..scenario.versions]
      /\ \A p \in Procs : snap'[p] <= stamp
  BY <1>1, <1>2
<1>6. /\ at' \in [Procs -> Files \cup {NoFile}]
      /\ \A p \in Procs : at'[p] = NoFile
  BY <1>1
<1>7. /\ version' \in 0..stamp /\ epoch' \in 0..scenario.dumps
      /\ ~up' /\ ~dumping' /\ up' \in BOOLEAN /\ dumping' \in BOOLEAN
  <2>1. version' = 0 /\ epoch' = 0 /\ ~up' /\ ~dumping'
        /\ up' \in BOOLEAN /\ dumping' \in BOOLEAN
    BY <1>1
  <2> QED
    BY <1>2, <2>1
<1>8. TypeOK'
  BY <1>1, <1>5, <1>6, <1>7 DEF TypeInv, TypeOK, Contents
<1>9. Sound'
  BY <1>1, <1>3, <1>4, <1>5, <1>6 DEF TypeInv, Sound, IsWhole
<1> QED
  BY <1>8, <1>9 DEF TypeInv

LEMMA SalvageTyped ==
    ASSUME TypeInv, Salvage, scenario' = scenario, torn' \in BOOLEAN
    PROVE  TypeInv'
<1>1. /\ disk' = [disk EXCEPT !["KILLED"] = Absent, !["CRASH"] = Absent]
      /\ UNCHANGED <<todo, at, snap, up, version, stamp, epoch, dumping, reliable>>
  BY DEF Salvage, procs, memory
<1>2. Entry(Absent, stamp) /\ {"KILLED", "CRASH"} \subseteq Files
  BY DiskEntries, Entries DEF Files, Others
<1>3. \A y \in Files : Entry(disk'[y], stamp)
  BY <1>1, <1>2, DiskEntries
<1>4. stamp \in Nat /\ stamp >= 1 /\ stamp <= scenario.versions /\ scenario.versions \in Nat
  BY DiskEntries, ScenarioType DEF TypeInv, TypeOK
<1>5. \A f \in Files : disk'[f] \in [v : 0..scenario.versions,
                          state : {"absent", "whole", "partial", "mixed"}]
  BY <1>3, <1>4 DEF Entry
<1>6. disk' \in [Files -> [v : 0..scenario.versions,
                          state : {"absent", "whole", "partial", "mixed"}]]
  BY <1>1, <1>5, DiskEntries
<1>7. \A q \in Procs : Program(q, todo[q])'
  BY <1>1, ProgramSame DEF TypeInv, Sound
<1>8. TypeOK'
  BY <1>1, <1>6 DEF TypeInv, TypeOK, Contents, Idle
<1>9. \A f \in Files : disk'[f].v <= stamp /\ (disk'[f].state = "whole" => disk'[f].v >= 1)
  BY <1>3, <1>4 DEF Entry
<1>10. Sound'
  BY <1>1, <1>7, <1>9 DEF TypeInv, Sound, Idle, IsWhole
<1> QED
  BY <1>8, <1>10 DEF TypeInv

LEMMA NextTyped ==
    ASSUME TypeInv, [Next]_vars
    PROVE  TypeInv'
<1>1. CASE UNCHANGED vars
  BY <1>1, FlagsTyped DEF vars, procs, memory, TypeInv, TypeOK
<1>2. CASE Next
  <2>1. scenario' = scenario /\ torn' \in BOOLEAN
    <3>1. scenario' = scenario /\ (torn' = torn \/ Crash)
      BY <1>2 DEF Next
    <3>2. Crash => torn' = (torn \/ Rewriting)
      BY DEF Crash
    <3> QED
      BY <3>1, <3>2 DEF TypeInv, TypeOK
  <2>2. CASE Play
    BY <2>1, <2>2, PlayTyped
  <2>3. CASE fork_and_dump
    <3>1. CASE \E c \in Children : \E s : Idle(c) /\ Begin(c, s) /\ Begins(c, s)
      <4>1. PICK c \in Children : \E s : Idle(c) /\ Begin(c, s) /\ Begins(c, s)
        BY <3>1
      <4>3. PICK s : Idle(c) /\ Begin(c, s) /\ Begins(c, s)
        BY <4>1
      <4>2. /\ UNCHANGED <<up, version, stamp, scenario>> /\ c \in Procs
            /\ epoch' \in 0..scenario.dumps /\ dumping' \in BOOLEAN
        BY <2>1, <2>3, ForkBegins DEF Procs
      <4> QED
        BY <2>1, <4>2, <4>3, BeginTyped
    <3>2. CASE UNCHANGED <<disk, todo, at, snap, reliable>>
      <4>1. /\ UNCHANGED <<up, version, stamp, scenario>>
            /\ epoch' \in 0..scenario.dumps /\ dumping' \in BOOLEAN
        BY <2>1, <2>3, ForkBegins
      <4> QED
        BY <2>1, <3>2, <4>1, FlagsTyped
    <3> QED
      BY <2>3, <3>1, <3>2, ForkBegins
  <2>4. CASE Serves
    <3>1. /\ UNCHANGED <<up, version, stamp, scenario>> /\ Server \in Procs
          /\ epoch' \in 0..scenario.dumps /\ dumping' \in BOOLEAN /\ Idle(Server)
      BY <2>1, <2>4, ServerBegins DEF Procs
    <3>2. PICK s : Begin(Server, s) /\ Begins(Server, s)
      BY <2>4, ServerBegins
    <3> QED
      BY <2>1, <3>1, <3>2, BeginTyped
  <2>5. CASE SlaveDies
    <3>1. /\ UNCHANGED <<disk, todo, at, snap, up, version, stamp, epoch, reliable>>
          /\ dumping' \in BOOLEAN
      BY <2>5 DEF SlaveDies, sighandler_chld, procs
    <3> QED
      BY <2>1, <3>1, FlagsTyped DEF TypeInv, TypeOK
  <2>6. CASE \E p \in Procs : Step(p)
    BY <2>1, <2>6, UnlinkTyped, OpenTyped, CloseTyped, RenameTyped, ExitTyped,
       ExecTyped, CheckpointTyped, CopyTyped DEF Step
  <2>7. CASE Crash
    BY <2>1, <2>7, CrashTyped
  <2>8. CASE Salvage
    BY <2>1, <2>8, SalvageTyped
  <2> QED
    BY <1>2, <2>2, <2>3, <2>4, <2>5, <2>6, <2>7, <2>8 DEF Next, Serves
<1> QED
  BY <1>1, <1>2

(* Type correctness: the files, what each process has open and still has to *)
(* write, and the numbers dump_database_internal passes around stay in      *)
(* their ranges, whatever hazards happen.                                   *)
THEOREM TypeCorrect == Spec => []TypeOK
<1>1. Init => TypeInv
  BY Initially
<1>2. TypeInv /\ [Next]_vars => TypeInv'
  BY NextTyped
<1>3. TypeInv => TypeOK
  BY DEF TypeInv
<1> QED
  BY <1>1, <1>2, <1>3, PTL DEF Spec
-----------------------------------------------------------------------------
(* Processes keep out of each other's way.                                  *)

(* Only a program that saves gives a temporary file its name. *)
LEMMA FreshSaves ==
    ASSUME NEW p \in Procs, NEW s, Program(p, s),
           NEW op, NEW f \in Fresh, Has(s, op, f)
    PROVE  Saves(s)
<1>1. s \in Seq(Operation) /\ \A i \in 1..Len(s) : Fits(p, s, i)
  BY DEF Program
<1>2. PICK i \in 1..Len(s) : s[i].f = f
  BY DEF Has
<1>3. PICK j \in i..Len(s) : s[j].op = "rename" /\ s[j].f = "hcode.tmp"
  BY <1>1, <1>2 DEF Fits
<1>4. j \in 1..Len(s)
  BY <1>1, <1>2, <1>3
<1> QED
  BY <1>3, <1>4 DEF Saves, Has

LEMMA EmptyHas == ASSUME NEW op, NEW f PROVE ~Has(<<>>, op, f) /\ ~Saves(<<>>)
  BY DEF Has, Saves

(* Doing an operation starts nothing. *)
LEMMA DoneLess ==
    ASSUME TypeInv, NEW p \in Procs, NEW op, Does(p, op), scenario' = scenario
    PROVE  /\ \A q \in Procs : \A o, f : Has(todo'[q], o, f) => Has(todo[q], o, f)
           /\ \A q \in Procs : Saves(todo'[q]) => Saves(todo[q])
           /\ \A q \in Procs : ~Idle(q)' => ~Idle(q)
           /\ op \in {"exit", "exec"} => Idle(p)'
           /\ UNCHANGED <<snap, happens>>
<1>1. /\ todo \in [Procs -> Seq(Operation)] /\ todo[p] # <<>>
      /\ Head(todo[p]).op = op
      /\ Program(p, todo[p])
      /\ UNCHANGED <<snap, happens>>
  BY DEF TypeInv, Sound, Does, Idle, happens
<1>2. /\ todo'[p] = Tail(todo[p])
      /\ \A q \in Procs \ {p} : todo'[q] = todo[q]
  BY TodoNext
<1>3. ASSUME NEW q \in Procs, NEW o, NEW f, Has(todo'[q], o, f)
      PROVE  Has(todo[q], o, f)
  <2>1. CASE q = p
    BY <1>1, <1>2, <1>3, <2>1, TailHas
  <2>2. CASE q # p
    BY <1>2, <1>3, <2>2
  <2> QED
    BY <2>1, <2>2
<1>4. \A q \in Procs : Saves(todo'[q]) => Saves(todo[q])
  BY <1>3 DEF Saves
<1>5. \A q \in Procs : ~Idle(q)' => ~Idle(q)
  BY <1>1, <1>2 DEF Idle
<1>6. op \in {"exit", "exec"} => Idle(p)'
  <2> DEFINE s == todo[p]
             h == Head(s)
             t == Tail(s)
  <2>1. Program(p, s) /\ s # <<>> /\ h.op = op /\ h = Head(s) /\ t = Tail(s)
    BY <1>1
  <2>2. t = todo'[p]
    BY <1>2
  <2> HIDE DEF s, h, t
  <2>3. op \in {"exit", "exec"} => t = <<>>
    BY <2>1, HeadFits
  <2> QED
    BY <2>2, <2>3 DEF Idle
<1> QED
  BY <1>1, <1>3, <1>4, <1>5, <1>6

LEMMA OrderlySame ==
    ASSUME scenario' = scenario
    PROVE  /\ Orderly' <=> Orderly
           /\ Quiet' <=> Quiet
           /\ happens' = happens /\ Fresh' = Fresh
  BY DEF Orderly, Quiet, happens, Fresh

(* Without a new program AtMostOne is kept if dumping is. *)
LEMMA FewerAtMostOne ==
    ASSUME TypeInv, AtMostOne, scenario' = scenario,
           \A q \in Procs : Saves(todo'[q]) => Saves(todo[q]),
           \A q \in Procs : ~Idle(q)' => ~Idle(q),
           Quiet /\ "restart" \in happens /\ up' /\ Dumping' => dumping'
    PROVE  AtMostOne'
<1>1. Orderly' => \A p, q \in Procs : Saves(todo'[p]) /\ Saves(todo'[q]) => p = q
  BY OrderlySame DEF AtMostOne
<1>2. Quiet' => \A p, q \in Procs : ~Idle(p)' /\ ~Idle(q)' => p = q
  BY OrderlySame DEF AtMostOne
<1>3. Orderly' /\ "restart" \in happens' => (up' /\ Dumping' => dumping')
  BY OrderlySame DEF Orderly, Quiet
<1> QED
  BY <1>1, <1>2, <1>3 DEF AtMostOne

(* A program that saves starts when no other does, and in a quiet scenario  *)
(* any program when all processes are idle.                                 *)
LEMMA BeginAtMostOne ==
    ASSUME TypeInv, AtMostOne, NEW p \in Procs, NEW s, Begins(p, s), Begin(p, s),
           scenario' = scenario,
           Orderly /\ Saves(s) => \A q \in Procs \ {p} : Idle(q),
           Quiet => \A q \in Procs \ {p} : Idle(q),
           Quiet /\ "restart" \in happens /\ up' /\ Dumping' => dumping'
    PROVE  AtMostOne'
<1>1. todo'[p] = s /\ \A q \in Procs \ {p} : todo'[q] = todo[q]
  BY TodoBegin
<1>2. ASSUME NEW q \in Procs \ {p}, Idle(q) PROVE Idle(q)' /\ ~Saves(todo'[q])
  BY <1>1, <1>2, EmptyHas DEF Idle
<1>3. Orderly' => \A q, r \in Procs : Saves(todo'[q]) /\ Saves(todo'[r]) => q = r
  <2>1. SUFFICES ASSUME Orderly, NEW q \in Procs, NEW r \in Procs,
                        Saves(todo'[q]), Saves(todo'[r]), q # r
                 PROVE  FALSE
    BY OrderlySame
  <2>2. CASE Saves(s)
    BY <1>2, <2>1, <2>2
  <2>3. CASE ~Saves(s)
    BY <1>1, <2>1, <2>3 DEF AtMostOne
  <2> QED
    BY <2>2, <2>3
<1>4. Quiet' => \A q, r \in Procs : ~Idle(q)' /\ ~Idle(r)' => q = r
  BY <1>2, OrderlySame
<1>5. Orderly' /\ "restart" \in happens' => (up' /\ Dumping' => dumping')
  BY OrderlySame DEF Orderly, Quiet
<1> QED
  BY <1>3, <1>4, <1>5 DEF AtMostOne

LEMMA NextAtMostOne ==
    ASSUME TypeInv, AtMostOne, Next
    PROVE  AtMostOne'
<1>0. scenario' = scenario /\ Server \in Procs /\ Children \subseteq Procs
  BY DEF Next, Procs
<1>1. ASSUME UNCHANGED <<todo, dumping, up>> PROVE AtMostOne'
  <2>1. /\ \A q \in Procs : Saves(todo'[q]) => Saves(todo[q])
        /\ \A q \in Procs : ~Idle(q)' => ~Idle(q)
        /\ Dumping' => Dumping
    BY <1>1 DEF Idle, Dumping
  <2>2. Quiet /\ "restart" \in happens /\ up' /\ Dumping' => dumping'
    BY <1>1, <2>1 DEF AtMostOne, Quiet
  <2> QED
    BY <1>0, <2>1, <2>2, FewerAtMostOne
<1>2. CASE Play
  BY <1>1, <1>2 DEF Play, procs
<1>3. CASE fork_and_dump
  <2>1. /\ dumping' = TRUE /\ Idle(Server) /\ (Dumping => "overlap" \in happens)
    BY <1>3, ForkBegins
  <2>2. Orderly => \A q \in Procs : Idle(q)
    BY <2>1 DEF Orderly, Dumping, Procs
  <2>3. ASSUME NEW c \in Children, NEW s, Idle(c), Begin(c, s), Begins(c, s)
        PROVE  AtMostOne'
    BY <1>0, <2>1, <2>2, <2>3, BeginAtMostOne DEF Quiet
  <2>4. ASSUME UNCHANGED <<disk, todo, at, snap, reliable>> PROVE AtMostOne'
    <3>1. /\ \A q \in Procs : Saves(todo'[q]) => Saves(todo[q])
          /\ \A q \in Procs : ~Idle(q)' => ~Idle(q)
      BY <2>4 DEF Idle
    <3> QED
      BY <1>0, <2>1, <3>1, FewerAtMostOne
  <2> QED
    BY <1>3, <2>3, <2>4, ForkBegins
<1>4. CASE Serves
  <2>1. PICK s : /\ Begin(Server, s) /\ Begins(Server, s)
                 /\ Saves(s) => dump_database \/ do_restart
    BY <1>4, ServerBegins
  <2>2. /\ Idle(Server) /\ up' = up
        /\ dumping' = dumping \/ dumping' = TRUE
        /\ dump_database => (Dumping => "overlap" \in happens)
        /\ do_restart => /\ "restart" \in happens /\ up /\ ~dumping
        /\ Startmux => \A q \in Procs : Idle(q)
        /\ sighandler_term \/ sighandler_fault => "signal" \in happens
    <3>1. /\ Idle(Server) /\ up' = up
          /\ dumping' = dumping \/ dumping' = TRUE
      BY <1>4, ServerBegins
    <3> QED
      BY <3>1 DEF dump_database, do_restart, MayRestart, Serving, Startmux,
           sighandler_term, sighandler_fault
  <2>3. dump_database /\ Orderly => \A q \in Procs \ {Server} : Idle(q)
    BY <2>2 DEF Orderly, Dumping, Procs
  <2>4. do_restart /\ Orderly => \A q \in Procs \ {Server} : Idle(q)
    BY <2>2 DEF AtMostOne, Dumping, Procs
  <2>5. Quiet => \A q \in Procs \ {Server} : Idle(q)
    BY <1>4, <2>2, <2>3, <2>4 DEF Serves, Quiet
  <2>6. Orderly /\ Saves(s) => \A q \in Procs \ {Server} : Idle(q)
    BY <2>1, <2>3, <2>4
  <2>7. Dumping' => Dumping
    <3>1. \A q \in Procs \ {Server} : todo'[q] = todo[q]
      BY <1>0, <2>1, TodoBegin
    <3> QED
      BY <3>1, ProcsAssumption DEF Dumping, Idle, Procs
  <2>8. Quiet /\ "restart" \in happens /\ up' /\ Dumping' => dumping'
    <3>1. SUFFICES ASSUME Quiet, "restart" \in happens, up', Dumping' PROVE dumping'
      OBVIOUS
    <3>2. Orderly /\ Dumping /\ up
      BY <2>2, <2>7, <3>1 DEF Quiet
    <3>3. dumping
      BY <3>1, <3>2 DEF AtMostOne
    <3> QED
      BY <2>2, <3>3
  <2> QED
    BY <1>0, <2>1, <2>5, <2>6, <2>8, BeginAtMostOne
<1>5. CASE SlaveDies
  <2>1. todo' = todo /\ "slave" \in happens
    BY <1>5 DEF SlaveDies, procs
  <2>2. /\ \A q \in Procs : Saves(todo'[q]) => Saves(todo[q])
        /\ \A q \in Procs : ~Idle(q)' => ~Idle(q)
        /\ ~(Quiet /\ "restart" \in happens)
    BY <2>1 DEF Idle, Quiet, Orderly
  <2> QED
    BY <1>0, <2>2, FewerAtMostOne
<1>6. ASSUME NEW p \in Procs, Step(p) PROVE AtMostOne'
  <2>1. PICK op \in Kinds : Does(p, op) /\ (op \in {"exit", "exec"} \/ UNCHANGED <<up, dumping>>)
    BY <1>6 DEF Step, DoUnlink, DoOpen, DoClose, DoRename, DoExit, DoExec, DoCheckpoint,
       DoCopy, memory, Kinds
  <2>2. /\ \A q \in Procs : Saves(todo'[q]) => Saves(todo[q])
        /\ \A q \in Procs : ~Idle(q)' => ~Idle(q)
        /\ op \in {"exit", "exec"} => Idle(p)'
    BY <1>0, <2>1, DoneLess
  <2>3. ~Idle(p)
    BY <2>1 DEF Does
  <2>4. op \in {"exit", "exec"} /\ Quiet => ~Dumping'
    BY <1>0, <2>2, <2>3 DEF AtMostOne, Dumping
  <2>5. Dumping' => Dumping
    BY <1>0, <2>2 DEF Dumping
  <2>6. Quiet /\ "restart" \in happens /\ up' /\ Dumping' => dumping'
    <3>1. SUFFICES ASSUME Quiet, "restart" \in happens, up', Dumping' PROVE dumping'
      OBVIOUS
    <3>2. up' = up /\ dumping' = dumping
      BY <2>1, <2>4, <3>1
    <3>3. Orderly /\ Dumping /\ up
      BY <2>5, <3>1, <3>2 DEF Quiet
    <3>4. dumping
      BY <3>1, <3>3 DEF AtMostOne
    <3> QED
      BY <3>2, <3>4
  <2> QED
    BY <1>0, <2>2, <2>6, FewerAtMostOne
<1>7. CASE Crash
  <2>1. up' = FALSE /\ \A q \in Procs : todo'[q] = <<>>
    BY <1>7 DEF Crash
  <2>2. /\ \A q \in Procs : Saves(todo'[q]) => Saves(todo[q])
        /\ \A q \in Procs : ~Idle(q)' => ~Idle(q)
    BY <2>1, EmptyHas DEF Idle
  <2> QED
    BY <1>0, <2>1, <2>2, FewerAtMostOne
<1>8. CASE Salvage
  BY <1>1, <1>8 DEF Salvage, procs, memory
<1> QED
  BY <1>2, <1>3, <1>4, <1>5, <1>6, <1>7, <1>8 DEF Next, Serves

(* What is open is what the next operation closes, and is not a file that   *)
(* another process is about to rename.                                      *)
LEMMA OneSaver ==
    ASSUME TypeInv, AtMostOne, Orderly, NEW p \in Procs, NEW q \in Procs,
           NEW f \in Fresh, ~Idle(p), Head(todo[p]).f = f,
           \/ \E op : Has(todo[q], op, f)
           \/ ~Idle(q) /\ Head(todo[q]).f = f
    PROVE  p = q
<1>1. \A r \in Procs : Program(r, todo[r])
  BY DEF TypeInv, Sound
<1>2. ASSUME NEW r \in Procs, ~Idle(r), Head(todo[r]).f = f PROVE Saves(todo[r])
  <2> DEFINE s == todo[r]
             h == Head(s)
             t == Tail(s)
  <2>1. Program(r, s) /\ s # <<>> /\ h.f \in Fresh /\ h = Head(s) /\ t = Tail(s)
    BY <1>1, <1>2 DEF Idle
  <2> HIDE DEF s, h, t
  <2>2. Saves(s)
    BY <2>1, HeadFits
  <2> QED
    BY <2>2 DEF s
<1>3. Saves(todo[p])
  BY <1>2
<1>4. Saves(todo[q])
  BY <1>1, <1>2, FreshSaves
<1> QED
  BY <1>3, <1>4 DEF AtMostOne

(* What the first operation of a process tells. *)
LEMMA Now ==
    ASSUME TypeInv, NEW p \in Procs, NEW op, Does(p, op), scenario' = scenario,
           NEW h, h = Head(todo[p])
    PROVE  /\ ~Idle(p) /\ h.op = op
           /\ op = "unlink" => h.f \in Temps \cup {"CRASH"}
           /\ op \in {"open", "close"} => h.f \in Written
           /\ op = "rename" => /\ MayRename(h.f, h.g)
                               /\ ~Has(todo[p], "close", h.f)
                               /\ Has(todo[p], "rename", h.f)
           /\ op \in {"rename", "unlink"} => ~Has(todo'[p], "rename", h.f)
           /\ op \in {"exit", "exec"} => todo'[p] = <<>>
           /\ op = "checkpoint" => p = Server
           /\ op = "copy" => p = Server /\ h.f = "indb"
           /\ h.f = "indb" => Runs(todo[p])
           /\ h.f = "indb" \/ h.g = "indb" => p = Server
           /\ todo'[p] # <<>> =>
                 /\ Head(todo'[p]).op = "close" => op = "open"
                 /\ Head(todo'[p]).op = "checkpoint" => op = "rename" /\ h.f = "indb"
                 /\ Head(todo'[p]).op = "copy" => op = "checkpoint"
                 /\ Head(todo'[p]).op = "exec" =>
                       \/ {"restart", "signal"} \cap happens # {}
                       \/ op = "copy"
           /\ op = "checkpoint" => /\ todo'[p] # <<>> /\ Head(todo'[p]).op = "copy"
                                   /\ Head(todo'[p]).f = "indb"
           /\ op = "open" => /\ todo'[p] # <<>> /\ Head(todo'[p]).f = h.f
                             /\ Has(todo'[p], "close", h.f)
           /\ \A o, f : Has(todo[p], o, f) => Has(todo'[p], o, f) \/ (op = o /\ h.f = f)
<1> DEFINE s == todo[p]
           t == Tail(s)
<1>1. /\ Program(p, s) /\ s # <<>> /\ h = Head(s) /\ t = Tail(s) /\ t = todo'[p]
      /\ ~Idle(p) /\ h.op = op
  BY TodoNext DEF TypeInv, Sound, Does, Idle
<1>2. op = "rename" => Has(s, "rename", h.f)
  <2>1. s \in Seq(Operation) /\ s # <<>> /\ h = Head(s)
    BY <1>1 DEF Program
  <2>2. 1 \in 1..Len(s) /\ s[1] = h
    BY <2>1
  <2> QED
    BY <1>1, <2>2 DEF Has
<1>3. \A o, f : Has(s, o, f) => Has(t, o, f) \/ (op = o /\ h.f = f)
  <2>1. s \in Seq(Operation)
    BY <1>1 DEF Program
  <2> QED
    BY <1>1, <2>1, TailHas
<1> HIDE DEF s, t
<1>4. /\ op = "unlink" => h.f \in Temps \cup {"CRASH"}
      /\ op \in {"open", "close"} => h.f \in Written
      /\ op = "rename" => MayRename(h.f, h.g) /\ ~Has(s, "close", h.f)
      /\ op \in {"rename", "unlink"} => ~Has(t, "rename", h.f)
      /\ op \in {"exit", "exec"} => t = <<>>
      /\ op = "checkpoint" => p = Server
      /\ op = "copy" => p = Server /\ h.f = "indb"
      /\ h.f = "indb" => Runs(s)
      /\ h.f = "indb" \/ h.g = "indb" => p = Server
  BY <1>1, HeadFits
<1>5. t # <<>> =>
         /\ Head(t).op = "close" => op = "open"
         /\ Head(t).op = "checkpoint" => op = "rename" /\ h.f = "indb"
         /\ Head(t).op = "copy" => op = "checkpoint"
         /\ Head(t).op = "exec" =>
               \/ {"restart", "signal"} \cap happens # {}
               \/ op = "copy"
  BY <1>1, HeadFits, SMTT(40)
<1>6. op = "open" => t # <<>> /\ Head(t).f = h.f /\ Has(t, "close", h.f)
  BY <1>1, HeadOpens
<1>10. op = "checkpoint" => t # <<>> /\ Head(t).op = "copy" /\ Head(t).f = "indb"
  BY <1>1, HeadCopies
<1>7. ~Idle(p) /\ h.op = op
  BY <1>1
<1>8. s = todo[p]
  BY DEF s
<1>9. t = todo'[p]
  BY TodoNext DEF s, t
<1> QED
  BY <1>2, <1>3, <1>4, <1>5, <1>6, <1>7, <1>8, <1>9, <1>10, Zenon

(* A file nothing has been done to is as much in hand as before. *)
LEMMA HandKept ==
    ASSUME TypeInv, NEW p \in Procs, NEW op, Does(p, op), scenario' = scenario,
           NEW q \in Procs, NEW f, InHand(q, f),
           q = p => ~(op \in {"open", "close"} /\ Head(todo[p]).f = f),
           disk'[f] = disk[f],
           at'[q] = at[q] \/ at[q] # f
    PROVE  InHand(q, f)'
<1> DEFINE h == Head(todo[p])
<1>1. /\ todo'[p] # <<>> /\ Head(todo'[p]).op = "close" => op = "open" /\ Head(todo'[p]).f = h.f
      /\ \A o, g : Has(todo[p], o, g) => Has(todo'[p], o, g) \/ (op = o /\ h.f = g)
      /\ h = Head(todo[p])
  <2> HIDE DEF h
  <2>1. h = Head(todo[p])
    BY DEF h
  <2> QED
    BY <2>1, Now
<1>2. /\ Has(todo'[q], "rename", f) => Has(todo[q], "rename", f)
      /\ snap' = snap
  BY DoneLess
<1>3. SUFFICES ASSUME Has(todo'[q], "rename", f)
      PROVE  /\ Head(todo'[q]).op = "close" /\ Head(todo'[q]).f = f
                  => at'[q] = f /\ disk'[f].state = "partial"
             /\ ~Has(todo'[q], "close", f) => disk'[f] = Whole(snap'[q])
  BY DEF InHand
<1>4. CASE q = p
  <2>1. todo'[q] # <<>>
    BY <1>3, EmptyHas
  <2>2. ~(Head(todo'[q]).op = "close" /\ Head(todo'[q]).f = f)
    BY <1>1, <1>4, <2>1
  <2>3. ~Has(todo'[q], "close", f) => ~Has(todo[q], "close", f)
    BY <1>1, <1>4
  <2> QED
    BY <1>2, <1>3, <2>2, <2>3 DEF InHand
<1>5. CASE q # p
  <2>1. todo'[q] = todo[q]
    BY <1>5, TodoNext
  <2> QED
    BY <1>2, <1>3, <2>1 DEF InHand
<1> QED
  BY <1>4, <1>5

(* Files a process may have open. *)
LEMMA OpenFiles ==
    ASSUME TypeInv, Apart, Orderly, NEW q \in Procs, at[q] # NoFile
    PROVE  /\ at[q] \in Written \cup {"indb"} /\ ~Idle(q)
           /\ Head(todo[q]).op \in {"close", "copy"}
           /\ Head(todo[q]).op = "close" => at[q] \in Written
           /\ Head(todo[q]).f = at[q]
           /\ at[q] = "indb" => q = Server /\ Runs(todo[q])
<1> DEFINE s == todo[q]
           h == Head(s)
           t == Tail(s)
<1>1. /\ Program(q, s) /\ s # <<>> /\ h.op \in {"close", "copy"} /\ h.f = at[q]
      /\ h = Head(s) /\ t = Tail(s) /\ ~Idle(q)
  BY DEF TypeInv, Sound, Idle, Apart
<1> HIDE DEF s, h, t
<1>2. /\ h.op = "close" => h.f \in Written
      /\ h.op = "copy" => h.f = "indb"
      /\ h.f = "indb" => q = Server /\ Runs(s)
  BY <1>1, HeadFits
<1>3. h = Head(todo[q]) /\ s = todo[q]
  BY DEF h, s
<1> QED
  BY <1>1, <1>2, <1>3

(* Apart is kept by an operation if each part of it is. *)
LEMMA ApartIf ==
    ASSUME Apart, scenario' = scenario,
           Orderly => \A q \in Procs : at'[q] # NoFile => at'[q] = Head(todo'[q]).f,
           ASSUME Orderly, NEW q \in Procs, NEW f \in Fresh, InHand(q, f) PROVE InHand(q, f)'
    PROVE  Apart'
<1>1. Orderly' => Orderly /\ Fresh' = Fresh
  BY OrderlySame
<1> QED
  BY <1>1 DEF Apart

LEMMA UnlinkApart ==
    ASSUME TypeInv, AtMostOne, Apart, NEW p \in Procs, DoUnlink(p), scenario' = scenario
    PROVE  Apart'
<1> DEFINE h == Head(todo[p])
<1>1. /\ Does(p, "unlink")
      /\ disk' = [disk EXCEPT ![h.f] = Absent]
      /\ at' = [q \in Procs |-> IF at[q] = h.f THEN NoFile ELSE at[q]]
  BY DEF DoUnlink
<1>2. /\ ~Idle(p) /\ ~Has(todo'[p], "rename", h.f)
      /\ at[p] = NoFile /\ \A q \in Procs \ {p} : todo'[q] = todo[q]
  <2> HIDE DEF h
  <2>1. h = Head(todo[p])
    BY DEF h
  <2> QED
    BY <1>1, <2>1, Now, DoFacts, TodoNext
<1>3. Orderly => \A q \in Procs : at'[q] # NoFile => at'[q] = Head(todo'[q]).f
  BY <1>1, <1>2 DEF Apart
<1>4. ASSUME Orderly, NEW q \in Procs, NEW f \in Fresh, InHand(q, f) PROVE InHand(q, f)'
  <2>1. CASE f = h.f
    <3>1. SUFFICES ASSUME Has(todo'[q], "rename", f) PROVE FALSE
      BY DEF InHand
    <3>2. Has(todo[q], "rename", f)
      BY <1>1, <3>1, DoneLess
    <3>3. q = p
      BY <1>2, <1>4, <2>1, <3>2, OneSaver
    <3> QED
      BY <1>2, <2>1, <3>1, <3>3
  <2>2. CASE f # h.f
    <3>1. disk'[f] = disk[f] /\ (at'[q] = at[q] \/ at[q] # f)
      BY <1>1, <2>2, FileNames, DiskEntries
    <3> QED
      BY <1>1, <1>4, <3>1, HandKept
  <2> QED
    BY <2>1, <2>2
<1> QED
  BY <1>3, <1>4, ApartIf

LEMMA OpenApart ==
    ASSUME TypeInv, AtMostOne, Apart, NEW p \in Procs, DoOpen(p), scenario' = scenario
    PROVE  Apart'
<1> DEFINE h == Head(todo[p])
<1>1. /\ Does(p, "open")
      /\ disk' = [disk EXCEPT ![h.f] = IF \E q \in Procs : at[q] = h.f
                                         THEN Mixed(snap[p]) ELSE Partial(snap[p])]
      /\ at' = [at EXCEPT ![p] = h.f]
  BY DEF DoOpen
<1>2. /\ ~Idle(p) /\ h.f \in Written
      /\ todo'[p] # <<>> /\ Head(todo'[p]).f = h.f /\ Has(todo'[p], "close", h.f)
      /\ at[p] = NoFile /\ \A q \in Procs \ {p} : todo'[q] = todo[q]
      /\ at \in [Procs -> Files \cup {NoFile}]
  <2> HIDE DEF h
  <2>1. h = Head(todo[p])
    BY DEF h
  <2> QED
    BY <1>1, <2>1, Now, DoFacts, TodoNext
<1>3. Orderly => \A q \in Procs : at'[q] # NoFile => at'[q] = Head(todo'[q]).f
  BY <1>1, <1>2 DEF Apart
<1>4. ASSUME Orderly, NEW q \in Procs, NEW f \in Fresh, InHand(q, f) PROVE InHand(q, f)'
  <2>1. CASE f = h.f
    <3>1. SUFFICES ASSUME Has(todo'[q], "rename", f) PROVE InHand(q, f)'
      BY DEF InHand
    <3>2. Has(todo[q], "rename", f)
      BY <1>1, <3>1, DoneLess
    <3>3. q = p
      BY <1>2, <1>4, <2>1, <3>2, OneSaver
    <3>4. ASSUME NEW r \in Procs, at[r] = f PROVE FALSE
      <4>1. f # NoFile
        BY FileNames
      <4>2. ~Idle(r) /\ Head(todo[r]).f = f
        BY <1>4, <3>4, <4>1, OpenFiles
      <4>3. p = r
        BY <1>2, <1>4, <2>1, <4>2, OneSaver
      <4> QED
        BY <1>2, <3>4, <4>1, <4>3
    <3>5. at'[p] = f /\ disk'[f].state = "partial"
      <4>1. f \in DOMAIN disk
        BY FileNames, DiskEntries
      <4> QED
        BY <1>1, <1>2, <2>1, <3>4, <4>1 DEF Partial
    <3> QED
      BY <1>2, <2>1, <3>3, <3>5 DEF InHand
  <2>2. CASE f # h.f
    <3>1. disk'[f] = disk[f] /\ (at'[q] = at[q] \/ at[q] # f)
      BY <1>1, <1>2, <2>2, FileNames, DiskEntries
    <3> QED
      BY <1>1, <1>4, <2>2, <3>1, HandKept
  <2> QED
    BY <2>1, <2>2
<1> QED
  BY <1>3, <1>4, ApartIf

LEMMA CloseApart ==
    ASSUME TypeInv, AtMostOne, Apart, NEW p \in Procs, DoClose(p), scenario' = scenario
    PROVE  Apart'
<1> DEFINE h == Head(todo[p])
<1>1. /\ Does(p, "close")
      /\ disk' = IF at[p] # NoFile /\ disk[at[p]].state = "partial"
                   THEN [disk EXCEPT ![at[p]] = Whole(snap[p])] ELSE disk
      /\ at' = [at EXCEPT ![p] = NoFile]
  BY DEF DoClose
<1>2. /\ ~Idle(p) /\ h.op = "close"
      /\ todo'[p] # <<>> => Head(todo'[p]).op # "close"
      /\ \A q \in Procs \ {p} : todo'[q] = todo[q]
      /\ at \in [Procs -> Files \cup {NoFile}] /\ snap' = snap
  <2> HIDE DEF h
  <2>1. h = Head(todo[p])
    BY DEF h
  <2> QED
    BY <1>1, <2>1, Now, DoFacts, TodoNext DEF Does
<1>3. Orderly => \A q \in Procs : at'[q] # NoFile => at'[q] = Head(todo'[q]).f
  BY <1>1, <1>2 DEF Apart
<1>4. ASSUME Orderly, NEW q \in Procs, NEW f \in Fresh, InHand(q, f) PROVE InHand(q, f)'
  <2>0. f \in DOMAIN disk /\ f # NoFile
    BY FileNames, DiskEntries
  <2>1. CASE f = h.f
    <3>1. SUFFICES ASSUME Has(todo'[q], "rename", f) PROVE InHand(q, f)'
      BY DEF InHand
    <3>2. Has(todo[q], "rename", f)
      BY <1>1, <3>1, DoneLess
    <3>3. q = p
      BY <1>2, <1>4, <2>1, <3>2, OneSaver
    <3>4. at[p] = f /\ disk[f].state = "partial"
      BY <1>2, <1>4, <2>1, <3>2, <3>3 DEF InHand
    <3>5. disk'[f] = Whole(snap[p])
      BY <1>1, <2>0, <3>4
    <3>6. todo'[p] # <<>>
      BY <3>1, <3>3, EmptyHas
    <3> QED
      BY <1>2, <3>3, <3>5, <3>6 DEF InHand
  <2>2. CASE f # h.f
    <3>1. at[p] # NoFile => at[p] = h.f
      BY <1>4 DEF Apart
    <3>2. disk'[f] = disk[f]
      BY <1>1, <2>2, <3>1
    <3>3. at'[q] = at[q] \/ at[q] # f
      BY <1>1, <1>2, <2>0, <2>2, <3>1
    <3> QED
      BY <1>1, <1>4, <2>2, <3>2, <3>3, HandKept
  <2> QED
    BY <2>1, <2>2
<1> QED
  BY <1>3, <1>4, ApartIf

(* A file that gets another name is not open. *)
LEMMA RenameClosed ==
    ASSUME TypeInv, AtMostOne, Apart, Orderly, NEW p \in Procs, Does(p, "rename"),
           scenario' = scenario, NEW q \in Procs
    PROVE  at[q] # Head(todo[p]).f
<1> DEFINE h == Head(todo[p])
<1>1. ~Idle(p) /\ MayRename(h.f, h.g) /\ (h.f = "indb" => p = Server) /\ at[p] = NoFile
  <2> HIDE DEF h
  <2>1. h = Head(todo[p])
    BY DEF h
  <2> QED
    BY <2>1, Now, DoFacts
<1>2. SUFFICES ASSUME at[q] = h.f PROVE FALSE
  OBVIOUS
<1>3. h.f # NoFile
  BY <1>1, FileNames DEF MayRename, NoFile
<1>4. /\ h.f \in Written \cup {"indb"} /\ ~Idle(q) /\ Head(todo[q]).f = h.f
      /\ h.f = "indb" => q = Server
  BY <1>2, <1>3, OpenFiles
<1>5. h.f \in Fresh \cup {"indb"}
  BY <1>1, <1>4, FileNames DEF MayRename, Written, Fresh
<1>6. CASE h.f = "indb"
  BY <1>1, <1>2, <1>3, <1>4, <1>6
<1>7. CASE h.f \in Fresh
  <2>1. p = q
    BY <1>1, <1>4, <1>7, OneSaver
  <2> QED
    BY <1>1, <1>2, <1>3, <2>1
<1> QED
  BY <1>5, <1>6, <1>7

LEMMA RenameApart ==
    ASSUME TypeInv, AtMostOne, Apart, NEW p \in Procs, DoRename(p), scenario' = scenario
    PROVE  Apart'
<1> DEFINE h == Head(todo[p])
<1>1. /\ Does(p, "rename")
      /\ \/ /\ disk' = [disk EXCEPT ![h.g] = disk[h.f], ![h.f] = Absent]
            /\ at' = [q \in Procs |-> IF at[q] = h.f THEN h.g
                                      ELSE IF at[q] = h.g THEN NoFile
                                      ELSE at[q]]
         \/ disk' = disk /\ at' = at
  BY DEF DoRename
<1>2. /\ ~Idle(p) /\ ~Has(todo'[p], "rename", h.f) /\ MayRename(h.f, h.g)
      /\ at[p] = NoFile /\ \A q \in Procs \ {p} : todo'[q] = todo[q]
  <2> HIDE DEF h
  <2>1. h = Head(todo[p])
    BY DEF h
  <2> QED
    BY <1>1, <2>1, Now, DoFacts, TodoNext
<1>3. ASSUME Orderly, NEW q \in Procs
      PROVE  at'[q] = at[q] \/ (at'[q] = NoFile /\ at[q] = h.g)
  BY <1>1, <1>3, RenameClosed
<1>4. Orderly => \A q \in Procs : at'[q] # NoFile => at'[q] = Head(todo'[q]).f
  BY <1>2, <1>3 DEF Apart
<1>5. h.g \notin Fresh
  BY <1>2, FileNames DEF MayRename, Fresh
<1>6. ASSUME Orderly, NEW q \in Procs, NEW f \in Fresh, InHand(q, f) PROVE InHand(q, f)'
  <2>1. CASE f = h.f
    <3>1. SUFFICES ASSUME Has(todo'[q], "rename", f) PROVE FALSE
      BY DEF InHand
    <3>2. Has(todo[q], "rename", f)
      BY <1>1, <3>1, DoneLess
    <3>3. q = p
      BY <1>2, <1>6, <2>1, <3>2, OneSaver
    <3> QED
      BY <1>2, <2>1, <3>1, <3>3
  <2>2. CASE f # h.f
    <3>1. f # h.g
      BY <1>5
    <3>2. disk'[f] = disk[f]
      BY <1>1, <2>2, <3>1, FileNames, DiskEntries
    <3>3. at'[q] = at[q] \/ at[q] # f
      BY <1>3, <1>6, <3>1
    <3> QED
      BY <1>1, <1>6, <3>2, <3>3, HandKept
  <2> QED
    BY <2>1, <2>2
<1> QED
  BY <1>4, <1>6, ApartIf

LEMMA OtherApart ==
    ASSUME TypeInv, Apart, NEW p \in Procs,
           DoExit(p) \/ DoExec(p), scenario' = scenario
    PROVE  Apart'
<1>1. PICK op \in {"exit", "exec"} : Does(p, op) /\ at' = at /\ disk' = disk
  BY DEF DoExit, DoExec, load_game
<1>2. at[p] = NoFile /\ \A q \in Procs \ {p} : todo'[q] = todo[q]
  BY <1>1, DoFacts, TodoNext
<1>3. Orderly => \A q \in Procs : at'[q] # NoFile => at'[q] = Head(todo'[q]).f
  BY <1>1, <1>2 DEF Apart
<1>4. ASSUME Orderly, NEW q \in Procs, NEW f \in Fresh, InHand(q, f) PROVE InHand(q, f)'
  BY <1>1, <1>4, HandKept
<1> QED
  BY <1>3, <1>4, ApartIf

(* The script has nothing but the input database open. *)
LEMMA ScriptApart ==
    ASSUME TypeInv, Apart, NEW p \in Procs,
           DoCheckpoint(p) \/ DoCopy(p), scenario' = scenario
    PROVE  Apart'
<1>1. PICK op \in {"checkpoint", "copy"} :
         /\ Does(p, op)
         /\ op = "copy" => at' = [at EXCEPT ![p] = NoFile]
         /\ at' = at \/ at' = [at EXCEPT ![p] = "indb"] \/ at' = [at EXCEPT ![p] = NoFile]
         /\ \A f \in Files \ {"indb", "outdb"} : disk'[f] = disk[f]
  BY DiskEntries DEF DoCheckpoint, DoCopy
<1>2. /\ \A q \in Procs \ {p} : todo'[q] = todo[q] /\ at'[q] = at[q]
      /\ op = "checkpoint" => at[p] = NoFile
      /\ at'[p] \in {at[p], "indb", NoFile}
      /\ op = "copy" => at'[p] = NoFile
  BY <1>1, DoFacts, TodoNext
<1>3. /\ op = "checkpoint" => Head(todo'[p]).f = "indb"
      /\ op = "copy" => Head(todo[p]).f = "indb"
  <2>1. PICK h : h = Head(todo[p])
    OBVIOUS
  <2> QED
    BY <1>1, <2>1, Now
<1>4. Orderly => \A q \in Procs : at'[q] # NoFile => at'[q] = Head(todo'[q]).f
  BY <1>1, <1>2, <1>3 DEF Apart
<1>5. ASSUME Orderly, NEW q \in Procs, NEW f \in Fresh, InHand(q, f) PROVE InHand(q, f)'
  <2>1. disk'[f] = disk[f] /\ f # "indb" /\ f # NoFile
    BY <1>1, FileNames DEF Fresh
  <2>2. at'[q] = at[q] \/ at[q] # f
    BY <1>1, <1>2, <1>3, <1>5, <2>1 DEF Apart
  <2> QED
    BY <1>1, <1>5, <2>1, <2>2, HandKept
<1> QED
  BY <1>4, <1>5, ApartIf

LEMMA BeginApart ==
    ASSUME TypeInv, Apart, NEW p \in Procs, NEW s, Idle(p), Begins(p, s), Begin(p, s),
           scenario' = scenario
    PROVE  Apart'
<1>1. /\ todo'[p] = s /\ \A q \in Procs \ {p} : todo'[q] = todo[q]
      /\ at' = at /\ disk' = disk /\ at[p] = NoFile
      /\ \A q \in Procs \ {p} : snap'[q] = snap[q]
  BY TodoBegin DEF Begin, TypeInv, TypeOK
<1>2. Orderly => \A q \in Procs : at'[q] # NoFile => at'[q] = Head(todo'[q]).f
  BY <1>1 DEF Apart
<1>3. ASSUME Orderly, NEW q \in Procs, NEW f \in Fresh, InHand(q, f) PROVE InHand(q, f)'
  <2>1. CASE q = p
    <3>1. /\ Has(s, "rename", f) => Has(s, "close", f)
          /\ Head(s).op # "close"
      BY DEF Begins
    <3> QED
      BY <1>1, <2>1, <3>1 DEF InHand
  <2>2. CASE q # p
    BY <1>1, <1>3, <2>2 DEF InHand
  <2> QED
    BY <2>1, <2>2
<1> QED
  BY <1>2, <1>3, ApartIf

LEMMA StillApart ==
    ASSUME Apart, UNCHANGED <<todo, at, snap, scenario>>,
           \A f \in Fresh : disk'[f] = disk[f]
    PROVE  Apart'
<1>1. Orderly => \A q \in Procs : at'[q] # NoFile => at'[q] = Head(todo'[q]).f
  BY DEF Apart
<1>2. ASSUME Orderly, NEW q \in Procs, NEW f \in Fresh, InHand(q, f) PROVE InHand(q, f)'
  BY <1>2 DEF InHand
<1> QED
  BY <1>1, <1>2, ApartIf

LEMMA NextApart ==
    ASSUME TypeInv, AtMostOne, Apart, Next
    PROVE  Apart'
<1>0. scenario' = scenario /\ Server \in Procs /\ Children \subseteq Procs
  BY DEF Next, Procs
<1>2. CASE Play \/ SlaveDies
  BY <1>0, <1>2, StillApart DEF Play, SlaveDies, procs
<1>3. CASE fork_and_dump
  <2>1. ASSUME NEW c \in Children, NEW s, Idle(c), Begin(c, s), Begins(c, s)
        PROVE  Apart'
    BY <1>0, <2>1, BeginApart
  <2>2. ASSUME UNCHANGED <<disk, todo, at, snap, reliable>> PROVE Apart'
    BY <1>0, <2>2, StillApart
  <2> QED
    BY <1>3, <2>1, <2>2, ForkBegins
<1>4. CASE Serves
  <2>1. PICK s : Begin(Server, s) /\ Begins(Server, s)
    BY <1>4, ServerBegins
  <2>2. Idle(Server)
    BY <1>4, ServerBegins
  <2> QED
    BY <1>0, <2>1, <2>2, BeginApart
<1>5. CASE \E p \in Procs : Step(p)
  BY <1>0, <1>5, UnlinkApart, OpenApart, CloseApart, RenameApart, OtherApart, ScriptApart
  DEF Step
<1>6. CASE Crash
  <2>1. /\ \A q \in Procs : at'[q] = NoFile /\ todo'[q] = <<>>
    BY <1>6 DEF Crash
  <2>2. ASSUME NEW q \in Procs, NEW f PROVE InHand(q, f)'
    BY <2>1, EmptyHas DEF InHand
  <2> QED
    BY <1>0, <2>1, <2>2, ApartIf
<1>7. CASE Salvage
  <2>1. \A f \in Fresh : disk'[f] = disk[f]
    <3>1. disk' = [disk EXCEPT !["KILLED"] = Absent, !["CRASH"] = Absent]
      BY <1>7 DEF Salvage
    <3> QED
      BY <3>1, FileNames, DiskEntries DEF Fresh
  <2> QED
    BY <1>0, <1>7, <2>1, StillApart DEF Salvage, procs
<1> QED
  BY <1>2, <1>3, <1>4, <1>5, <1>6, <1>7 DEF Next, Serves

LEMMA NextInv1 ==
    ASSUME Inv1, [Next]_vars
    PROVE  Inv1'
<1>0. TypeInv /\ AtMostOne /\ Apart /\ TypeInv'
  BY NextTyped DEF Inv1
<1>1. CASE UNCHANGED vars
  <2>1. UNCHANGED <<todo, at, snap, scenario, disk, up, dumping>>
    BY <1>1 DEF vars, procs, memory
  <2>2. Apart'
    BY <1>0, <2>1, StillApart
  <2>3. AtMostOne'
    BY <1>0, <2>1 DEF AtMostOne, Orderly, Quiet, happens, Dumping, Idle
  <2> QED
    BY <1>0, <2>2, <2>3 DEF Inv1
<1>2. CASE Next
  BY <1>0, <1>2, NextAtMostOne, NextApart DEF Inv1
<1> QED
  BY <1>1, <1>2

LEMMA InitInv1 == Init => Inv1
<1> SUFFICES ASSUME Init PROVE Inv1
  OBVIOUS
<1>1. \A q \in Procs : todo[q] = <<>> /\ at[q] = NoFile
  BY DEF Init
<1>2. AtMostOne
  BY <1>1, EmptyHas, ProcsAssumption DEF AtMostOne, Idle, Dumping, Procs
<1>3. Apart
  BY <1>1, EmptyHas DEF Apart, InHand
<1> QED
  BY <1>2, <1>3, Initially DEF Inv1
-----------------------------------------------------------------------------
(* What happens to the files whose names matter.                            *)

(* A rename moves what is there; what a process has written itself is whole *)
(* by then.                                                                 *)
LEMMA RenameEffect ==
    ASSUME Inv1, Orderly, NEW p \in Procs, DoRename(p), scenario' = scenario,
           NEW f, f = Head(todo[p]).f, NEW g, g = Head(todo[p]).g
    PROVE  /\ f \in Files /\ g \in Files /\ f # g /\ MayRename(f, g)
           /\ Exists(f) => /\ disk'[g] = disk[f] /\ disk'[f] = Absent
                           /\ \A x \in Files \ {f, g} : disk'[x] = disk[x]
           /\ ~Exists(f) => disk' = disk
           /\ f \in Fresh => disk[f] = Whole(snap[p]) /\ Exists(f)
           /\ reliable' = IF f \in Temps /\ IsWhole(f) /\ disk[f].v > reliable
                            THEN disk[f].v ELSE reliable
<1>0. TypeInv /\ AtMostOne /\ Apart
  BY DEF Inv1
<1>1. /\ Does(p, "rename")
      /\ Exists(f) => disk' = [disk EXCEPT ![g] = disk[f], ![f] = Absent]
      /\ ~Exists(f) => disk' = disk
      /\ reliable' = IF f \in Temps /\ IsWhole(f) /\ disk[f].v > reliable
                       THEN disk[f].v ELSE reliable
  BY DEF DoRename
<1>2. /\ f \in Files /\ g \in Files /\ f # g
  BY <1>0, <1>1, HeadNames DEF Does
<1>3. MayRename(f, g) /\ Has(todo[p], "rename", f) /\ ~Has(todo[p], "close", f)
  <2>1. PICK h : h = Head(todo[p])
    OBVIOUS
  <2>2. MayRename(h.f, h.g) /\ Has(todo[p], "rename", h.f) /\ ~Has(todo[p], "close", h.f)
    BY <1>0, <1>1, <2>1, Now
  <2> QED
    BY <2>1, <2>2
<1>4. f \in Fresh => disk[f] = Whole(snap[p])
  BY <1>0, <1>3 DEF Apart, InHand
<1>5. disk[f] = Whole(snap[p]) => Exists(f)
  BY DEF Exists, Whole
<1>6. Exists(f) => /\ disk'[g] = disk[f] /\ disk'[f] = Absent
                   /\ \A x \in Files \ {f, g} : disk'[x] = disk[x]
  BY <1>0, <1>1, <1>2, DiskEntries
<1> QED
  BY <1>1, <1>2, <1>3, <1>4, <1>5, <1>6

(* Files a process may write to, or that the operator may move away. *)
Loose == Written \cup Temps \cup {"KILLED", "CRASH"}

(* Only a rename, and the script, touch the files that are to be kept. *)
LEMMA WriteEffect ==
    ASSUME Inv1, Orderly, NEW p \in Procs, scenario' = scenario,
           DoUnlink(p) \/ DoOpen(p) \/ DoClose(p)
    PROVE  \A f \in Files \ Loose : disk'[f] = disk[f]
<1>0. TypeInv /\ AtMostOne /\ Apart
  BY DEF Inv1
<1>1. PICK h : h = Head(todo[p])
  OBVIOUS
<1>2. CASE DoUnlink(p)
  <2>1. Does(p, "unlink") /\ disk' = [disk EXCEPT ![h.f] = Absent]
    BY <1>1, <1>2 DEF DoUnlink
  <2>2. h.f \in Temps \cup {"CRASH"}
    BY <1>0, <1>1, <2>1, Now
  <2> QED
    BY <1>0, <2>1, <2>2, DiskEntries DEF Loose
<1>3. CASE DoOpen(p)
  <2>1. /\ Does(p, "open")
        /\ disk' = [disk EXCEPT ![h.f] = IF \E q \in Procs : at[q] = h.f
                                         THEN Mixed(snap[p]) ELSE Partial(snap[p])]
    BY <1>1, <1>3 DEF DoOpen
  <2>2. h.f \in Written
    BY <1>0, <1>1, <2>1, Now
  <2> QED
    BY <1>0, <2>1, <2>2, DiskEntries DEF Loose
<1>4. CASE DoClose(p)
  <2>1. /\ Does(p, "close")
        /\ disk' = IF at[p] # NoFile /\ disk[at[p]].state = "partial"
                   THEN [disk EXCEPT ![at[p]] = Whole(snap[p])] ELSE disk
    BY <1>4 DEF DoClose
  <2>2. at[p] # NoFile => at[p] \in Written
    BY <1>0, <2>1, OpenFiles DEF Does
  <2> QED
    BY <1>0, <2>1, <2>2, DiskEntries DEF Loose
<1> QED
  BY <1>2, <1>3, <1>4

LEMMA LooseNames ==
    /\ {"hcode", "hcode.prev", "outdb", "prev", "save"} \cap Loose = {}
    /\ "restart" \notin happens => "indb" \notin Loose
    /\ "indb" \notin Temps \cup {"KILLED", "CRASH", NoFile}
    /\ {"hcode", "hcode.prev", "outdb", "prev", "save", "indb"} \subseteq Files
  BY FileNames DEF Loose, Written, Fresh, Files, Databases, Others

LEMMA DiskEffect ==
    ASSUME Inv1, Orderly, [Next]_vars
    PROVE  \/ \A f \in Files \ Loose : disk'[f] = disk[f]
           \/ \E p \in Procs : DoRename(p)
           \/ \E p \in Procs : DoCheckpoint(p) \/ DoCopy(p)
<1>0. TypeInv /\ DOMAIN disk = Files
  BY DiskEntries DEF Inv1
<1>1. CASE UNCHANGED vars
  BY <1>1 DEF vars
<1>2. CASE Next
  <2>0. scenario' = scenario
    BY <1>2 DEF Next
  <2>1. CASE Play \/ SlaveDies \/ Crash
    BY <2>1 DEF Play, SlaveDies, Crash
  <2>2. CASE fork_and_dump
    BY <1>0, <2>2, ForkBegins DEF Begin
  <2>3. CASE Serves
    BY <1>0, <2>3, ServerBegins DEF Begin
  <2>4. ASSUME NEW p \in Procs, Step(p), ~DoRename(p), ~DoCheckpoint(p), ~DoCopy(p)
        PROVE  \A f \in Files \ Loose : disk'[f] = disk[f]
    <3>1. CASE DoUnlink(p) \/ DoOpen(p) \/ DoClose(p)
      BY <2>0, <3>1, WriteEffect
    <3>2. CASE DoExit(p) \/ DoExec(p)
      BY <3>2 DEF DoExit, DoExec, load_game
    <3> QED
      BY <2>4, <3>1, <3>2 DEF Step
  <2>5. CASE Salvage
    <3>1. disk' = [disk EXCEPT !["KILLED"] = Absent, !["CRASH"] = Absent]
      BY <2>5 DEF Salvage
    <3> QED
      BY <1>0, <3>1 DEF Loose
  <2> QED
    BY <1>2, <2>1, <2>2, <2>3, <2>4, <2>5 DEF Next, Serves
<1> QED
  BY <1>1, <1>2

LEMMA CheckpointEffect ==
    ASSUME Inv1, NEW p \in Procs, DoCheckpoint(p), scenario' = scenario
    PROVE  /\ p = Server /\ at[Server] # "indb"
           /\ \A f \in Files \ {"indb", "outdb"} : disk'[f] = disk[f]
           /\ Exists("outdb") => /\ disk'["indb"] = disk["outdb"]
                                 /\ disk'["outdb"] = Absent
                                 /\ at'[Server] # "indb"
           /\ ~Exists("outdb") => disk'["outdb"] = disk["outdb"]
           /\ ~Exists("outdb") /\ Exists("save") =>
                  disk'["indb"] = Partial(disk["save"].v) /\ at'[Server] = "indb"
           /\ ~Exists("outdb") /\ ~Exists("save") => disk' = disk
<1>1. TypeInv /\ DOMAIN disk = Files
  BY DiskEntries DEF Inv1
<1>2. /\ Does(p, "checkpoint")
      /\ Exists("outdb") => disk' = [disk EXCEPT !["indb"] = disk["outdb"], !["outdb"] = Absent]
      /\ ~Exists("outdb") /\ Exists("save") =>
             /\ disk' = [disk EXCEPT !["indb"] = Partial(disk["save"].v)]
             /\ at' = [at EXCEPT ![p] = "indb"]
      /\ ~Exists("outdb") /\ ~Exists("save") => disk' = disk
      /\ Exists("outdb") => at' = at
  BY DEF DoCheckpoint
<1>3. p = Server
  <2>1. PICK h : h = Head(todo[p])
    OBVIOUS
  <2> QED
    BY <1>1, <1>2, <2>1, Now
<1>4. at[p] = NoFile /\ at \in [Procs -> Files \cup {NoFile}]
  BY <1>1, <1>2, DoFacts
<1>5. at[Server] # "indb"
  BY <1>3, <1>4, LooseNames
<1> QED
  BY <1>1, <1>2, <1>3, <1>4, <1>5, LooseNames

LEMMA CopyEffect ==
    ASSUME Inv1, NEW p \in Procs, DoCopy(p), scenario' = scenario
    PROVE  /\ p = Server /\ at'[Server] # "indb"
           /\ \A f \in Files \ {"indb"} : disk'[f] = disk[f]
           /\ at[Server] = "indb" => disk'["indb"] = disk["save"]
           /\ at[Server] # "indb" => disk' = disk
<1>1. TypeInv /\ DOMAIN disk = Files
  BY DiskEntries DEF Inv1
<1>2. /\ Does(p, "copy")
      /\ at[p] = "indb" => disk' = [disk EXCEPT !["indb"] = disk["save"]]
      /\ at[p] # "indb" => disk' = disk
      /\ at' = [at EXCEPT ![p] = NoFile]
  BY DEF DoCopy
<1>3. p = Server
  <2>1. PICK h : h = Head(todo[p])
    OBVIOUS
  <2> QED
    BY <1>1, <1>2, <2>1, Now
<1>4. at \in [Procs -> Files \cup {NoFile}]
  BY <1>1, <1>2, DoFacts
<1>5. at'[Server] = NoFile
  BY <1>2, <1>3, <1>4
<1> QED
  BY <1>1, <1>2, <1>3, <1>5, LooseNames

(* A file that gets another name is not open, nor is the input database     *)
(* when it is replaced.                                                     *)
LEMMA RenameInput ==
    ASSUME Inv1, Orderly, NEW p \in Procs, DoRename(p), scenario' = scenario,
           NEW f, f = Head(todo[p]).f, NEW g, g = Head(todo[p]).g
    PROVE  /\ at'[Server] = "indb" <=> at[Server] = "indb"
           /\ f = "indb" \/ g = "indb" => at[Server] # "indb"
<1>0. TypeInv /\ AtMostOne /\ Apart /\ Server \in Procs
  BY DEF Inv1, Procs
<1>1. /\ Does(p, "rename")
      /\ \/ at' = [q \in Procs |-> IF at[q] = f THEN g
                                    ELSE IF at[q] = g THEN NoFile
                                    ELSE at[q]]
         \/ at' = at
  BY DEF DoRename
<1>2. at[Server] # f
  <2>1. at[Server] # Head(todo[p]).f
    BY <1>0, <1>1, RenameClosed
  <2> QED
    BY <2>1
<1>3. f = "indb" \/ g = "indb" => p = Server
  <2>1. PICK h : h = Head(todo[p])
    OBVIOUS
  <2>2. h.f = "indb" \/ h.g = "indb" => p = Server
    BY <1>0, <1>1, <2>1, Now
  <2> QED
    BY <2>1, <2>2
<1>4. at[p] = NoFile /\ NoFile # "indb"
  BY <1>0, <1>1, DoFacts, LooseNames
<1> QED
  BY <1>0, <1>1, <1>2, <1>3, <1>4

(* The steps that neither rename nor are the script's. *)
LEMMA InputEffect ==
    ASSUME Inv1, Orderly, [Next]_vars,
           \A p \in Procs : ~DoRename(p) /\ ~DoCheckpoint(p) /\ ~DoCopy(p)
    PROVE  \/ /\ disk'["indb"] = disk["indb"]
              /\ at'[Server] = "indb" <=> at[Server] = "indb"
           \/ /\ at[Server] # "indb" /\ at'[Server] = "indb"
              /\ disk'["indb"].state = "partial"
           \/ /\ at[Server] = "indb" /\ at'[Server] # "indb"
              /\ disk["indb"].state = "partial" => disk'["indb"].state = "whole"
           \/ Crash
<1>0. /\ TypeInv /\ Apart /\ DOMAIN disk = Files /\ Server \in Procs
      /\ "indb" \in Files /\ NoFile # "indb"
      /\ at \in [Procs -> Files \cup {NoFile}]
  BY DiskEntries, LooseNames DEF Inv1, Procs, TypeInv, TypeOK
<1>1. CASE UNCHANGED vars
  BY <1>1 DEF vars, procs
<1>2. CASE Next
  <2>0. scenario' = scenario
    BY <1>2 DEF Next
  <2>1. CASE Play \/ SlaveDies
    BY <2>1 DEF Play, SlaveDies, procs
  <2>2. CASE fork_and_dump
    <3>1. UNCHANGED <<disk, at>>
      BY <1>0, <2>2, ForkBegins DEF Begin
    <3> QED
      BY <3>1
  <2>3. CASE Serves
    <3>1. UNCHANGED <<disk, at>>
      BY <1>0, <2>3, ServerBegins DEF Begin
    <3> QED
      BY <3>1
  <2>4. CASE Salvage
    <3>1. disk' = [disk EXCEPT !["KILLED"] = Absent, !["CRASH"] = Absent] /\ at' = at
      BY <2>4 DEF Salvage, procs
    <3> QED
      BY <1>0, <3>1
  <2>5. ASSUME NEW p \in Procs, Step(p)
        PROVE  \/ /\ disk'["indb"] = disk["indb"]
                  /\ at'[Server] = "indb" <=> at[Server] = "indb"
               \/ /\ at[Server] # "indb" /\ at'[Server] = "indb"
                  /\ disk'["indb"].state = "partial"
               \/ /\ at[Server] = "indb" /\ at'[Server] # "indb"
                  /\ disk["indb"].state = "partial" => disk'["indb"].state = "whole"
    <3>0. PICK h : h = Head(todo[p])
      OBVIOUS
    <3>1. CASE DoUnlink(p)
      <4>1. /\ Does(p, "unlink") /\ disk' = [disk EXCEPT ![h.f] = Absent]
            /\ at' = [q \in Procs |-> IF at[q] = h.f THEN NoFile ELSE at[q]]
        BY <3>0, <3>1 DEF DoUnlink
      <4>2. h.f # "indb"
        BY <1>0, <2>0, <3>0, <4>1, Now, LooseNames
      <4> QED
        BY <1>0, <4>1, <4>2
    <3>2. CASE DoOpen(p)
      <4>1. /\ Does(p, "open") /\ at' = [at EXCEPT ![p] = h.f]
            /\ disk' = [disk EXCEPT ![h.f] = IF \E q \in Procs : at[q] = h.f
                                         THEN Mixed(snap[p]) ELSE Partial(snap[p])]
        BY <3>0, <3>2 DEF DoOpen
      <4>2. (h.f = "indb" => p = Server) /\ at[p] = NoFile
        BY <1>0, <2>0, <3>0, <4>1, Now, DoFacts
      <4>3. CASE h.f # "indb"
        BY <1>0, <4>1, <4>2, <4>3
      <4>4. CASE h.f = "indb"
        <5>1. ~\E q \in Procs : at[q] = "indb"
          BY <1>0, <4>2, <4>4, OpenFiles
        <5>2. disk' = [disk EXCEPT !["indb"] = Partial(snap[p])]
          BY <4>1, <4>4, <5>1
        <5> QED
          BY <1>0, <4>1, <4>2, <4>4, <5>2 DEF Partial
      <4> QED
        BY <4>3, <4>4
    <3>3. CASE DoClose(p)
      <4>1. /\ Does(p, "close") /\ at' = [at EXCEPT ![p] = NoFile]
            /\ disk' = IF at[p] # NoFile /\ disk[at[p]].state = "partial"
                         THEN [disk EXCEPT ![at[p]] = Whole(snap[p])] ELSE disk
        BY <3>3 DEF DoClose
      <4>2. at[p] = "indb" => p = Server
        BY <1>0, OpenFiles
      <4>3. CASE at[p] # "indb"
        <5>1. disk'["indb"] = disk["indb"]
          BY <1>0, <4>1, <4>3
        <5> QED
          BY <1>0, <4>1, <4>3, <5>1
      <4>4. CASE at[p] = "indb"
        BY <1>0, <4>1, <4>2, <4>4 DEF Whole
      <4> QED
        BY <4>3, <4>4
    <3>4. CASE DoExit(p) \/ DoExec(p)
      BY <3>4 DEF DoExit, DoExec, load_game
    <3> QED
      BY <2>5, <3>1, <3>2, <3>3, <3>4 DEF Step
  <2> QED
    BY <1>2, <2>1, <2>2, <2>3, <2>4, <2>5 DEF Next, Serves
<1> QED
  BY <1>1, <1>2

(* A crash that leaves torn as it is has not cut the input database short. *)
LEMMA CrashInput ==
    ASSUME Inv1, Orderly, Crash, ~torn'
    PROVE  at[Server] # "indb"
<1>1. SUFFICES ASSUME at[Server] = "indb" PROVE FALSE
  OBVIOUS
<1>2. TypeInv /\ Apart /\ Server \in Procs /\ NoFile # "indb"
  BY LooseNames DEF Inv1, Procs
<1>3. Runs(todo[Server]) /\ todo[Server] \in Seq(Operation)
  BY <1>1, <1>2, OpenFiles DEF TypeInv, Sound
<1>4. Rewriting
  BY <1>1, <1>3 DEF Rewriting, Runs
<1> QED
  BY <1>4 DEF Crash

LEMMA TornKept ==
    ASSUME [Next]_vars, torn PROVE torn'
  BY DEF Next, vars, Crash

LEMMA NextScenario ==
    ASSUME [Next]_vars PROVE scenario' = scenario
  BY DEF Next, vars

LEMMA NextHcode ==
    ASSUME Inv1, HcodeKept, [Next]_vars
    PROVE  HcodeKept'
<1>0. scenario' = scenario
  BY NextScenario
<1>1. SUFFICES ASSUME Orderly
      PROVE  /\ disk'["hcode"].state \in {"absent", "whole"}
             /\ IsWhole("hcode")' \/ IsWhole("hcode.prev")'
  BY <1>0, OrderlySame DEF HcodeKept
<1>2. /\ disk["hcode"].state \in {"absent", "whole"}
      /\ IsWhole("hcode") \/ IsWhole("hcode.prev")
  BY <1>1 DEF HcodeKept
<1>3. ASSUME disk'["hcode"] = disk["hcode"], disk'["hcode.prev"] = disk["hcode.prev"]
      PROVE  /\ disk'["hcode"].state \in {"absent", "whole"}
             /\ IsWhole("hcode")' \/ IsWhole("hcode.prev")'
  BY <1>2, <1>3 DEF IsWhole
<1>4. CASE \A f \in Files \ Loose : disk'[f] = disk[f]
  BY <1>3, <1>4, LooseNames
<1>5. CASE \E p \in Procs : DoCheckpoint(p) \/ DoCopy(p)
  BY <1>0, <1>3, <1>5, CheckpointEffect, CopyEffect, LooseNames
<1>6. ASSUME NEW p \in Procs, DoRename(p)
      PROVE  /\ disk'["hcode"].state \in {"absent", "whole"}
             /\ IsWhole("hcode")' \/ IsWhole("hcode.prev")'
  <2>1. PICK f : f = Head(todo[p]).f
    OBVIOUS
  <2>2. PICK g : g = Head(todo[p]).g
    OBVIOUS
  <2>3. /\ f \in Files /\ g \in Files /\ f # g /\ MayRename(f, g)
        /\ Exists(f) => /\ disk'[g] = disk[f] /\ disk'[f] = Absent
                        /\ \A x \in Files \ {f, g} : disk'[x] = disk[x]
        /\ ~Exists(f) => disk' = disk
        /\ f \in Fresh => disk[f] = Whole(snap[p])
    BY <1>0, <1>1, <1>6, <2>1, <2>2, RenameEffect
  <2>4. CASE ~Exists(f)
    BY <1>3, <2>3, <2>4
  <2>5. CASE Exists(f) /\ f = "hcode" /\ g = "hcode.prev"
    BY <1>2, <2>3, <2>5 DEF IsWhole, Exists, Absent
  <2>6. CASE Exists(f) /\ f = "hcode.tmp" /\ g = "hcode"
    BY <2>3, <2>6 DEF IsWhole, Fresh, Whole
  <2>7. CASE Exists(f) /\ f # "hcode" /\ f # "hcode.tmp"
    <3>1. {f, g} \cap {"hcode", "hcode.prev"} = {}
      BY <2>3, <2>7, FileNames DEF MayRename
    <3> QED
      BY <1>3, <2>3, <2>7, <3>1, LooseNames
  <2> QED
    BY <2>3, <2>4, <2>5, <2>6, <2>7, FileNames DEF MayRename
<1> QED
  BY <1>1, <1>4, <1>5, <1>6, DiskEffect

(* SaveSpecialObjects never leaves the game without the hcode database: the *)
(* one in use is whole or gone, and if it is gone the generation before it  *)
(* is whole, whatever dies in the middle.  Two checkpoints at a time, and a *)
(* restart beside a host name lookup or a signal, are excepted.             *)
THEOREM HcodeSafe == Spec => [](Orderly => HcodeIntact)
<1> DEFINE I == Inv1 /\ HcodeKept
<1>1. Init => I
  <2>1. Init => disk["hcode"] = Whole(1)
    BY LooseNames DEF Init
  <2> QED
    BY <2>1, InitInv1 DEF HcodeKept, IsWhole, Whole
<1>2. I /\ [Next]_vars => I'
  BY NextInv1, NextHcode
<1>3. I => (Orderly => HcodeIntact)
  BY DEF HcodeKept, HcodeIntact, Exists, IsWhole
<1> QED
  BY <1>1, <1>2, <1>3, PTL DEF Spec

(* The script is the server's, and a step takes an operation away. *)
LEMMA HeadServer ==
    ASSUME TypeInv, NEW q \in Procs, ~Idle(q),
           Head(todo[q]).op \in {"checkpoint", "copy"}
    PROVE  q = Server
<1> DEFINE s == todo[q]
           h == Head(s)
           t == Tail(s)
<1>1. /\ Program(q, s) /\ s # <<>> /\ h.op \in {"checkpoint", "copy"}
      /\ h = Head(s) /\ t = Tail(s)
  BY DEF TypeInv, Sound, Idle
<1> HIDE DEF s, h, t
<1> QED
  BY <1>1, HeadFits

LEMMA Shorter ==
    ASSUME TypeInv, NEW p \in Procs, NEW op, Does(p, op), scenario' = scenario
    PROVE  todo'[p] # todo[p]
<1>1. /\ todo[p] \in Seq(Operation) /\ todo[p] # <<>>
      /\ todo'[p] = Tail(todo[p])
  BY TodoNext DEF TypeInv, Sound, Does, Idle
<1>2. Len(Tail(todo[p])) # Len(todo[p])
  <2>1. Len(Tail(todo[p])) = Len(todo[p]) - 1 /\ Len(todo[p]) \in Nat
    BY <1>1, TailOf
  <2> QED
    BY <2>1
<1>3. Len(todo'[p]) # Len(todo[p])
  BY <1>1, <1>2, Zenon
<1> QED
  BY <1>3, Zenon

(* Who is about to do what a rename or a script's copy leads to. *)
LEMMA AboutTo ==
    ASSUME Inv1, [Next]_vars, NEW q \in Procs, ~Idle(q)',
           NEW o \in {"checkpoint", "copy", "exec"}, Head(todo'[q]).op = o
    PROVE  \/ ~Idle(q) /\ Head(todo[q]).op = o /\ todo'[q] = todo[q]
           \/ /\ o = "checkpoint" /\ DoRename(q) /\ Head(todo[q]).f = "indb"
           \/ o = "copy" /\ DoCheckpoint(q)
           \/ /\ o = "exec"
              /\ DoCopy(q) \/ {"restart", "signal"} \cap happens # {}
<1>0. TypeInv /\ scenario' = scenario
  BY NextScenario DEF Inv1
<1>1. CASE todo'[q] = todo[q]
  BY <1>1 DEF Idle
<1>2. ASSUME NEW p \in Procs, NEW s, Begin(p, s), Begins(p, s), todo'[q] # todo[q] PROVE FALSE
  <2>1. todo'[p] = s /\ \A r \in Procs \ {p} : todo'[r] = todo[r]
    BY <1>0, <1>2, TodoBegin
  <2>2. Head(s).op \in {"unlink", "open", "rename"}
    BY <1>2 DEF Begins
  <2> QED
    BY <1>2, <2>1, <2>2
<1>3. ASSUME NEW p \in Procs, Step(p), todo'[q] # todo[q]
      PROVE  \/ /\ o = "checkpoint" /\ DoRename(q) /\ Head(todo[q]).f = "indb"
             \/ o = "copy" /\ DoCheckpoint(q)
             \/ /\ o = "exec"
                /\ DoCopy(q) \/ {"restart", "signal"} \cap happens # {}
  <2>1. PICK op : /\ Does(p, op)
                  /\ op = "rename" => DoRename(p)
                  /\ op = "checkpoint" => DoCheckpoint(p)
                  /\ op = "copy" => DoCopy(p)
    <3>1. DoCopy(p) => Does(p, "copy")
      BY DEF DoCopy
    <3>2. DoCheckpoint(p) => Does(p, "checkpoint")
      BY DEF DoCheckpoint
    <3>3. DoRename(p) => Does(p, "rename")
      BY DEF DoRename
    <3>4. DoUnlink(p) \/ DoOpen(p) \/ DoClose(p) \/ DoExit(p) \/ DoExec(p) =>
             \E op \in {"unlink", "open", "close", "exit", "exec"} : Does(p, op)
      BY DEF DoUnlink, DoOpen, DoClose, DoExit, DoExec
    <3> QED
      BY <1>3, <3>1, <3>2, <3>3, <3>4, SMTT(40) DEF Step
  <2>2. q = p
    BY <1>0, <1>3, <2>1, TodoNext
  <2>3. PICK h : h = Head(todo[p])
    OBVIOUS
  <2>4. todo'[p] # <<>>
    BY <2>2 DEF Idle
  <2>5. /\ Head(todo'[p]).op = "checkpoint" => op = "rename" /\ h.f = "indb"
        /\ Head(todo'[p]).op = "copy" => op = "checkpoint"
        /\ Head(todo'[p]).op = "exec" =>
              \/ {"restart", "signal"} \cap happens # {}
              \/ op = "copy"
    BY <1>0, <2>1, <2>3, <2>4, Now
  <2> QED
    BY <2>1, <2>2, <2>3, <2>5
<1>4. CASE UNCHANGED vars \/ Play \/ SlaveDies \/ Salvage
  BY <1>1, <1>4 DEF vars, Play, SlaveDies, Salvage, procs
<1>5. CASE fork_and_dump
  <2>1. ASSUME NEW c \in Children, NEW s, Begin(c, s), Begins(c, s), todo'[q] # todo[q]
        PROVE  FALSE
    BY <1>2, <2>1 DEF Procs
  <2>2. todo'[q] = todo[q]
    BY <1>0, <1>5, <2>1, ForkBegins
  <2> QED
    BY <1>1, <2>2
<1>6. CASE Serves
  <2>1. \E s : Begin(Server, s) /\ Begins(Server, s)
    BY <1>0, <1>6, ServerBegins
  <2>2. todo'[q] = todo[q]
    BY <1>2, <2>1 DEF Procs
  <2> QED
    BY <1>1, <2>2
<1>7. CASE Crash
  BY <1>7 DEF Crash, Idle
<1> QED
  BY <1>1, <1>3, <1>4, <1>5, <1>6, <1>7 DEF Next, Serves

LEMMA NextStart ==
    ASSUME Inv1, StartKept, [Next]_vars
    PROVE  StartKept'
<1>0. scenario' = scenario /\ TypeInv /\ TypeInv' /\ (torn => torn')
  BY NextScenario, NextTyped, TornKept DEF Inv1
<1> DEFINE Names ==
             /\ disk["outdb"].state \in {"absent", "whole"}
             /\ at[Server] # "indb" => disk["indb"].state \in {"absent", "whole"}
             /\ at[Server] = "indb" => disk["indb"].state = "partial"
             /\ IsWhole("save")
<1>1. SUFFICES ASSUME Orderly, ~torn'
      PROVE  /\ Names'
             /\ \A q \in Procs : ~Idle(q)' /\ Head(todo'[q]).op = "checkpoint" =>
                    ~Exists("indb")'
  BY <1>0, OrderlySame DEF StartKept
<1>2. /\ Names
      /\ \A q \in Procs : ~Idle(q) /\ Head(todo[q]).op = "checkpoint" => ~Exists("indb")
  BY <1>0, <1>1 DEF StartKept
<1>3. ASSUME \A x \in {"indb", "outdb", "save"} : disk'[x] = disk[x],
             at'[Server] = "indb" <=> at[Server] = "indb"
      PROVE  Names'
  BY <1>2, <1>3 DEF IsWhole
<1>4. ASSUME NEW p \in Procs, DoRename(p) PROVE Names'
  <2>1. PICK f : f = Head(todo[p]).f
    OBVIOUS
  <2>2. PICK g : g = Head(todo[p]).g
    OBVIOUS
  <2>3. /\ f \in Files /\ g \in Files /\ f # g /\ MayRename(f, g)
        /\ Exists(f) => /\ disk'[g] = disk[f] /\ disk'[f] = Absent
                        /\ \A x \in Files \ {f, g} : disk'[x] = disk[x]
        /\ ~Exists(f) => disk' = disk
        /\ f \in Fresh => disk[f] = Whole(snap[p])
    BY <1>0, <1>1, <1>4, <2>1, <2>2, RenameEffect
  <2>9. /\ at'[Server] = "indb" <=> at[Server] = "indb"
        /\ f = "indb" \/ g = "indb" => at[Server] # "indb"
    BY <1>0, <1>1, <1>4, <2>1, <2>2, RenameInput
  <2>4. CASE ~Exists(f)
    BY <1>3, <2>3, <2>4, <2>9
  <2>5. CASE Exists(f) /\ f = "outdb"
    <3>1. g = "prev" \/ g = "indb"
      BY <2>3, <2>5, FileNames DEF MayRename
    <3>2. disk'["outdb"] = Absent /\ disk'["save"] = disk["save"]
      BY <2>3, <2>5, <3>1, LooseNames
    <3>3. disk["outdb"].state = "whole"
      BY <1>2, <2>5 DEF Exists
    <3>4. disk'["indb"] = IF g = "indb" THEN disk["outdb"] ELSE disk["indb"]
      BY <2>3, <2>5, <3>1, LooseNames
    <3> QED
      BY <1>2, <2>9, <3>1, <3>2, <3>3, <3>4 DEF IsWhole, Absent
  <2>6. CASE Exists(f) /\ f = "indb"
    <3>1. g = "save"
      BY <2>3, <2>6, FileNames DEF MayRename
    <3>2. /\ disk'["indb"] = Absent /\ disk'["save"] = disk["indb"]
          /\ disk'["outdb"] = disk["outdb"]
      BY <2>3, <2>6, <3>1, LooseNames
    <3>3. disk["indb"].state = "whole"
      BY <1>2, <2>6, <2>9 DEF Exists
    <3> QED
      BY <1>2, <2>6, <2>9, <3>2, <3>3 DEF IsWhole, Absent
  <2>7. CASE Exists(f) /\ f \in Temps
    <3>1. g = "outdb"
      BY <2>3, <2>7, FileNames DEF MayRename
    <3>2. /\ disk'["outdb"] = Whole(snap[p])
          /\ disk'["indb"] = disk["indb"] /\ disk'["save"] = disk["save"]
      BY <2>3, <2>7, <3>1, LooseNames, FileNames DEF Fresh
    <3> QED
      BY <1>2, <2>9, <3>2 DEF IsWhole, Whole
  <2>8. CASE Exists(f) /\ f \in {"hcode", "hcode.tmp"}
    <3>1. {f, g} \cap {"indb", "outdb", "save"} = {}
      BY <2>3, <2>8, FileNames DEF MayRename
    <3> QED
      BY <1>3, <2>3, <2>8, <2>9, <3>1, LooseNames
  <2> QED
    BY <2>3, <2>4, <2>5, <2>6, <2>7, <2>8 DEF MayRename
<1>5. ASSUME NEW p \in Procs, DoCheckpoint(p) PROVE Names'
  <2>1. Exists("save")
    BY <1>2 DEF IsWhole, Exists
  <2>2. /\ at[Server] # "indb" /\ disk'["save"] = disk["save"]
        /\ Exists("outdb") => /\ disk'["indb"] = disk["outdb"]
                              /\ disk'["outdb"] = Absent /\ at'[Server] # "indb"
        /\ ~Exists("outdb") => /\ disk'["indb"] = Partial(disk["save"].v)
                               /\ disk'["outdb"] = disk["outdb"]
                               /\ at'[Server] = "indb"
    BY <1>0, <1>5, <2>1, CheckpointEffect, LooseNames
  <2> QED
    BY <1>2, <2>2 DEF IsWhole, Exists, Absent, Partial
<1>8. ASSUME NEW p \in Procs, DoCopy(p) PROVE Names'
  <2>1. /\ at'[Server] # "indb"
        /\ disk'["save"] = disk["save"] /\ disk'["outdb"] = disk["outdb"]
        /\ at[Server] = "indb" => disk'["indb"] = disk["save"]
        /\ at[Server] # "indb" => disk' = disk
    BY <1>0, <1>8, CopyEffect, LooseNames
  <2> QED
    BY <1>2, <2>1 DEF IsWhole
<1>6. Names'
  <2>1. CASE \A p \in Procs : ~DoRename(p) /\ ~DoCheckpoint(p) /\ ~DoCopy(p)
    <3>1. disk'["outdb"] = disk["outdb"] /\ disk'["save"] = disk["save"]
      BY <1>1, <2>1, DiskEffect, LooseNames
    <3>2. CASE Crash
      <4>1. disk' = disk /\ at'[Server] = NoFile /\ NoFile # "indb"
        BY <3>2, LooseNames DEF Crash, Procs
      <4>2. at[Server] # "indb"
        BY <1>1, <3>2, CrashInput
      <4> QED
        BY <1>2, <4>1, <4>2 DEF IsWhole
    <3>3. CASE ~Crash
      <4>1. \/ /\ disk'["indb"] = disk["indb"]
               /\ at'[Server] = "indb" <=> at[Server] = "indb"
            \/ /\ at[Server] # "indb" /\ at'[Server] = "indb"
               /\ disk'["indb"].state = "partial"
            \/ /\ at[Server] = "indb" /\ at'[Server] # "indb"
               /\ disk["indb"].state = "partial" => disk'["indb"].state = "whole"
        BY <1>1, <2>1, <3>3, InputEffect
      <4> QED
        BY <1>2, <3>1, <4>1 DEF IsWhole
    <3> QED
      BY <3>2, <3>3
  <2> HIDE DEF Names
  <2> QED
    BY <1>4, <1>5, <1>8, <2>1
<1>7. ASSUME NEW q \in Procs, ~Idle(q)', Head(todo'[q]).op = "checkpoint"
      PROVE  ~Exists("indb")'
  <2>1. CASE DoRename(q) /\ Head(todo[q]).f = "indb"
    <3>1. PICK f : f = Head(todo[q]).f
      OBVIOUS
    <3>2. PICK g : g = Head(todo[q]).g
      OBVIOUS
    <3>3. /\ Exists(f) => disk'[f] = Absent
          /\ ~Exists(f) => disk' = disk
      BY <1>0, <1>1, <2>1, <3>1, <3>2, RenameEffect
    <3> QED
      BY <2>1, <3>1, <3>3 DEF Exists, Absent
  <2>2. CASE ~Idle(q) /\ Head(todo[q]).op = "checkpoint" /\ todo'[q] = todo[q]
    <3>1. ~Exists("indb")
      BY <1>2, <2>2
    <3>2. PICK h : h = Head(todo[q])
      OBVIOUS
    <3>3. q = Server
      BY <1>0, <2>2, HeadServer
    <3>4. ASSUME NEW p \in Procs, Does(p, "rename"), NEW k, k = Head(todo[p])
          PROVE  k.f # "indb" /\ k.g # "indb"
      <4>1. p # q
        BY <2>2, <3>4 DEF Does
      <4> QED
        BY <1>0, <3>3, <3>4, <4>1, Now
    <3>5. CASE \A p \in Procs : ~DoRename(p) /\ ~DoCheckpoint(p) /\ ~DoCopy(p)
      <4>1. at[Server] = NoFile /\ at'[Server] = NoFile /\ NoFile # "indb"
        BY <1>0, <1>7, <2>2, <3>3, LooseNames DEF TypeInv, Sound
      <4>2. ~Crash
        BY <1>7 DEF Crash, Idle
      <4>3. disk'["indb"] = disk["indb"]
        BY <1>1, <3>5, <4>1, <4>2, InputEffect
      <4> QED
        BY <3>1, <4>3 DEF Exists
    <3>6. ASSUME NEW p \in Procs, DoRename(p) PROVE ~Exists("indb")'
      <4>1. PICK f : f = Head(todo[p]).f
        OBVIOUS
      <4>2. PICK g : g = Head(todo[p]).g
        OBVIOUS
      <4>3. f # "indb" /\ g # "indb"
        BY <3>4, <3>6, <4>1, <4>2 DEF DoRename
      <4>4. /\ Exists(f) => \A x \in Files \ {f, g} : disk'[x] = disk[x]
            /\ ~Exists(f) => disk' = disk
        BY <1>0, <1>1, <3>6, <4>1, <4>2, RenameEffect
      <4> QED
        BY <3>1, <4>3, <4>4, LooseNames DEF Exists
    <3>7. ASSUME NEW p \in Procs, DoCheckpoint(p) \/ DoCopy(p) PROVE FALSE
      <4>1. PICK op \in {"checkpoint", "copy"} : Does(p, op)
        BY <3>7 DEF DoCheckpoint, DoCopy
      <4>2. p = q
        BY <1>0, <3>3, <4>1, HeadServer DEF Does
      <4> QED
        BY <1>0, <2>2, <4>1, <4>2, Shorter
    <3> QED
      BY <3>5, <3>6, <3>7
  <2> QED
    BY <1>7, <2>1, <2>2, AboutTo
<1> QED
  BY <1>6, <1>7

(* A crash of the machine at any point of a checkpoint, a shutdown, a panic *)
(* dump, a restart or the start of the game, in any order with fault        *)
(* signals, leaves a whole object database, unless it cut short @restart's   *)
(* or Startmux's writing of the input database.                             *)
THEOREM DatabaseSafe == Spec => [](Orderly => DatabaseSurvives)
<1> DEFINE I == Inv1 /\ StartKept
<1>1. Init => I
  <2>1. Init => /\ disk["indb"] = Whole(1) /\ disk["outdb"] = Absent
                /\ disk["save"] = Whole(1) /\ at[Server] = NoFile /\ NoFile # "indb"
                /\ \A q \in Procs : Idle(q)
    BY LooseNames DEF Init, Idle, Procs
  <2> QED
    BY <2>1, InitInv1 DEF StartKept, IsWhole, Whole, Absent
<1>2. I /\ [Next]_vars => I'
  BY NextInv1, NextStart
<1>3. I => (Orderly => DatabaseSurvives)
  BY DEF StartKept, DatabaseSurvives, Databases
<1> QED
  BY <1>1, <1>2, <1>3, PTL DEF Spec

(* Nothing but a signal or a restart happens while the server serves. *)
Plain == Orderly /\ {"restart", "signal"} \cap happens = {}

(* The files that hold what the last checkpoint saved. *)
Newest ==
    /\ Exists("outdb") => Keeps("outdb")
    /\ \/ Exists("outdb") \/ Keeps("prev") \/ Keeps("indb")
       \/ Keeps("save") /\ (~Exists("indb") \/ at[Server] = "indb")

(* What a process is going to make the newest. *)
Coming ==
    \A p \in Procs, f \in Temps :
        Has(todo[p], "rename", f) => /\ snap[p] >= reliable
                                     /\ up => snap[p] <= version

LEMMA PlainFacts ==
    ASSUME Inv1, Plain
    PROVE  /\ Quiet /\ Orderly /\ "restart" \notin happens
           /\ \A p, q \in Procs : ~Idle(p) /\ ~Idle(q) => p = q
           /\ "indb" \notin Loose /\ "indb" \notin Written
           /\ TypeInv /\ Apart
  BY LooseNames DEF Plain, Quiet, Inv1, AtMostOne, Loose

(* Only the script's copy has the input database open. *)
LEMMA PlainOpen ==
    ASSUME Inv1, Plain, NEW p \in Procs, NEW op, Does(p, op), op # "copy"
    PROVE  at[Server] # "indb"
<1>1. SUFFICES ASSUME at[Server] = "indb" PROVE FALSE
  OBVIOUS
<1>2. /\ \A q, r \in Procs : ~Idle(q) /\ ~Idle(r) => q = r
      /\ "indb" \notin Written /\ TypeInv /\ Apart /\ Orderly
      /\ Server \in Procs /\ NoFile # "indb"
  BY PlainFacts, LooseNames DEF Procs
<1>3. ~Idle(Server) /\ Head(todo[Server]).op = "copy"
  BY <1>1, <1>2, OpenFiles
<1> QED
  BY <1>2, <1>3 DEF Does

(* Nothing changes where the newest are, and no newer is saved. *)
LEMMA SameNewest ==
    ASSUME Newest, reliable' = reliable,
           at[Server] = "indb" => at'[Server] = "indb",
           \A f \in {"outdb", "prev", "indb", "save"} : disk'[f] = disk[f]
    PROVE  Newest'
  BY DEF Newest, Keeps, Exists, IsWhole

LEMMA RenameNewest ==
    ASSUME Inv1, Plain, Newest, Coming, up => version >= reliable,
           NEW p \in Procs, DoRename(p), scenario' = scenario
    PROVE  /\ Newest' /\ Coming' /\ (up' => version' >= reliable')
<1>0. /\ Orderly /\ TypeInv
      /\ \A q, r \in Procs : ~Idle(q) /\ ~Idle(r) => q = r
  BY PlainFacts
<1>1. PICK f : f = Head(todo[p]).f
  OBVIOUS
<1>2. PICK g : g = Head(todo[p]).g
  OBVIOUS
<1>3. /\ f \in Files /\ g \in Files /\ f # g /\ MayRename(f, g)
      /\ Exists(f) => /\ disk'[g] = disk[f] /\ disk'[f] = Absent
                      /\ \A x \in Files \ {f, g} : disk'[x] = disk[x]
      /\ ~Exists(f) => disk' = disk
      /\ f \in Fresh => disk[f] = Whole(snap[p]) /\ Exists(f)
      /\ reliable' = IF f \in Temps /\ IsWhole(f) /\ disk[f].v > reliable
                       THEN disk[f].v ELSE reliable
  BY <1>0, <1>1, <1>2, RenameEffect
<1>12. at[Server] # "indb"
  BY PlainOpen DEF DoRename
<1>4. Does(p, "rename") /\ up' = up /\ version' = version /\ snap' = snap
  BY DEF DoRename, memory, Does
<1>5. /\ ~Idle(p)
      /\ \A q \in Procs : \A o, x : Has(todo'[q], o, x) => Has(todo[q], o, x)
      /\ Has(todo[p], "rename", f)
  <2>1. PICK h : h = Head(todo[p])
    OBVIOUS
  <2>2. Has(todo[p], "rename", h.f) /\ ~Idle(p)
    BY <1>0, <1>4, <2>1, Now
  <2> QED
    BY <1>0, <1>1, <1>4, <2>1, <2>2, DoneLess
<1>6. ASSUME f \notin Temps PROVE reliable' = reliable /\ Coming'
  BY <1>3, <1>4, <1>5, <1>6 DEF Coming
<1>7. CASE ~Exists(f)
  <2>1. f \notin Temps
    BY <1>3, <1>7 DEF Fresh
  <2> QED
    BY <1>3, <1>4, <1>6, <1>7, <1>12, <2>1, SameNewest
<1>8. CASE Exists(f) /\ f = "outdb"
  <2>1. g = "prev"
    BY <1>3, <1>8, FileNames DEF MayRename, Plain
  <2>2. f \notin Temps
    BY <1>8, FileNames
  <2>3. disk'["prev"] = disk["outdb"] /\ disk'["outdb"] = Absent
    BY <1>3, <1>8, <2>1
  <2>4. Newest'
    BY <1>6, <1>8, <1>12, <2>2, <2>3 DEF Newest, Keeps, IsWhole, Exists, Absent
  <2> QED
    BY <1>4, <1>6, <2>2, <2>4
<1>9. CASE Exists(f) /\ f = "indb"
  <2>1. g = "save"
    BY <1>3, <1>9, FileNames DEF MayRename
  <2>2. f \notin Temps
    BY <1>9, FileNames
  <2>3. /\ disk'["save"] = disk["indb"] /\ disk'["indb"] = Absent
        /\ disk'["outdb"] = disk["outdb"] /\ disk'["prev"] = disk["prev"]
    BY <1>3, <1>9, <2>1, LooseNames
  <2>4. Newest'
    BY <1>6, <1>9, <1>12, <2>2, <2>3 DEF Newest, Keeps, IsWhole, Exists, Absent
  <2> QED
    BY <1>4, <1>6, <2>2, <2>4
<1>10. CASE f \in Temps
  <2>1. g = "outdb"
    BY <1>3, <1>10, FileNames DEF MayRename
  <2>2. /\ snap[p] >= reliable /\ (up => snap[p] <= version)
        /\ snap[p] \in Nat /\ reliable \in Nat
    BY <1>0, <1>5, <1>10, DiskEntries DEF Coming, TypeInv, TypeOK
  <2>3. disk[f] = Whole(snap[p]) /\ Exists(f) /\ disk[f].v = snap[p] /\ IsWhole(f)
    BY <1>3, <1>10 DEF Fresh, Whole, IsWhole
  <2>4. reliable' = snap[p]
    BY <1>3, <1>10, <2>2, <2>3
  <2>5. disk'["outdb"] = Whole(snap[p])
    BY <1>3, <2>1, <2>3
  <2>6. Newest'
    BY <2>2, <2>4, <2>5 DEF Newest, Keeps, IsWhole, Exists, Whole
  <2>7. ASSUME NEW q \in Procs, NEW x \in Temps, Has(todo'[q], "rename", x) PROVE q = p
    <3>1. ~Idle(q)
      BY <1>5, <2>7, EmptyHas DEF Idle
    <3> QED
      BY <1>0, <1>5, <3>1
  <2>8. Coming'
    BY <1>4, <2>2, <2>4, <2>7 DEF Coming
  <2> QED
    BY <1>4, <2>2, <2>4, <2>6, <2>8
<1>11. CASE Exists(f) /\ f \in {"hcode", "hcode.tmp"}
  <2>1. {f, g} \cap {"outdb", "prev", "indb", "save"} = {}
    BY <1>3, <1>11, FileNames DEF MayRename
  <2>2. f \notin Temps
    BY <1>11, FileNames
  <2>3. \A x \in {"outdb", "prev", "indb", "save"} : disk'[x] = disk[x]
    BY <1>3, <1>11, <2>1, LooseNames
  <2> QED
    BY <1>4, <1>6, <1>12, <2>2, <2>3, SameNewest
<1> QED
  BY <1>3, <1>7, <1>8, <1>9, <1>10, <1>11 DEF MayRename

LEMMA CheckpointNewest ==
    ASSUME Inv1, Plain, Newest, NEW p \in Procs, DoCheckpoint(p),
           ~Exists("indb"), IsWhole("save"), scenario' = scenario
    PROVE  Newest' /\ ~Exists("outdb")'
<1>1. /\ \A f \in Files \ {"indb", "outdb"} : disk'[f] = disk[f]
      /\ Exists("outdb") => disk'["indb"] = disk["outdb"] /\ disk'["outdb"] = Absent
      /\ ~Exists("outdb") => /\ disk'["outdb"] = disk["outdb"]
                             /\ at'[Server] = "indb"
      /\ reliable' = reliable
  <2>1. Exists("save")
    BY DEF IsWhole, Exists
  <2> QED
    BY <2>1, CheckpointEffect DEF DoCheckpoint
<1>2. ~Keeps("indb")
  BY DEF Keeps, IsWhole, Exists
<1>3. disk'["prev"] = disk["prev"] /\ disk'["save"] = disk["save"]
  BY <1>1, LooseNames
<1>4. CASE Exists("outdb")
  BY <1>1, <1>4 DEF Newest, Keeps, IsWhole, Exists, Absent
<1>5. CASE ~Exists("outdb")
  BY <1>1, <1>2, <1>3, <1>5 DEF Newest, Keeps, IsWhole, Exists
<1> QED
  BY <1>4, <1>5

LEMMA CopyNewest ==
    ASSUME Inv1, Plain, Newest, NEW p \in Procs, DoCopy(p), ~Exists("outdb"),
           at[Server] = "indb" => disk["indb"].state = "partial", scenario' = scenario
    PROVE  Newest' /\ ~Exists("outdb")'
<1>1. /\ disk'["outdb"] = disk["outdb"] /\ disk'["prev"] = disk["prev"]
      /\ disk'["save"] = disk["save"]
      /\ at[Server] = "indb" => disk'["indb"] = disk["save"]
      /\ at[Server] # "indb" => disk' = disk
      /\ reliable' = reliable
  BY CopyEffect, LooseNames DEF DoCopy
<1>2. CASE at[Server] = "indb"
  <2>1. ~Keeps("indb")
    BY <1>2 DEF Keeps, IsWhole
  <2> QED
    BY <1>1, <1>2, <2>1 DEF Newest, Keeps, IsWhole, Exists
<1>3. CASE at[Server] # "indb"
  BY <1>1, <1>3 DEF Newest, Keeps, IsWhole, Exists
<1> QED
  BY <1>2, <1>3

(* The programs of a serving server save what is in memory; that of the     *)
(* script saves nothing.                                                    *)
LEMMA BeginComing ==
    ASSUME Inv1, Plain, Coming, up => version >= reliable,
           NEW p \in Procs, NEW s, Begin(p, s), Begins(p, s), up \/ ~Saves(s),
           UNCHANGED <<up, version, scenario>>
    PROVE  Coming'
<1>0. TypeInv /\ version \in Nat
  BY DEF Inv1, TypeInv, TypeOK
<1>1. /\ todo'[p] = s /\ \A q \in Procs \ {p} : todo'[q] = todo[q]
      /\ reliable' = reliable
      /\ \A q \in Procs \ {p} : snap'[q] = snap[q]
      /\ up => snap'[p] = version
  BY <1>0, TodoBegin DEF Begin, TypeInv, TypeOK
<1>2. ASSUME NEW f \in Temps, Has(s, "rename", f) PROVE Saves(s)
  <2>1. f \in Fresh /\ Program(p, s)
    BY DEF Fresh, Begins
  <2> QED
    BY <1>2, <2>1, FreshSaves
<1> QED
  BY <1>0, <1>1, <1>2 DEF Coming

(* What a dump has saved is there, or is to be renamed. *)
Saved == Newest /\ Coming /\ (up => version >= reliable)

LEMMA NextSaved ==
    ASSUME Inv1, StartKept, NewestKept, Plain, ~torn', [Next]_vars
    PROVE  Saved'
<1>0. scenario' = scenario /\ TypeInv /\ TypeInv' /\ ~torn
  BY NextScenario, NextTyped, TornKept DEF Inv1
<1>2. /\ Newest /\ Coming /\ (up => version >= reliable)
      /\ \A q \in Procs : ~Idle(q) /\ Head(todo[q]).op \in {"copy", "exec"} =>
             ~Exists("outdb")
      /\ \A q \in Procs : ~Idle(q) /\ Head(todo[q]).op = "checkpoint" => ~Exists("indb")
      /\ IsWhole("save") /\ (at[Server] = "indb" => disk["indb"].state = "partial")
  BY <1>0, PlainFacts DEF NewestKept, StartKept, Plain, Newest, Coming
<1>3. /\ Quiet /\ Orderly
      /\ \A p, q \in Procs : ~Idle(p) /\ ~Idle(q) => p = q
      /\ "indb" \notin Loose /\ "indb" \notin Written
  BY PlainFacts
<1>4. ASSUME UNCHANGED <<disk, todo, at, snap, up, version, reliable>> PROVE Saved'
  <2>1. Newest'
    BY <1>2, <1>4 DEF Newest, Keeps, IsWhole, Exists
  <2> QED
    BY <1>2, <1>4, <2>1 DEF Saved, Coming
<1>5. CASE Play
  <2>1. /\ UNCHANGED <<disk, todo, at, snap, up, reliable>>
        /\ version' = stamp + 1
    BY <1>5 DEF Play, procs
  <2>2. /\ stamp \in Nat /\ \A q \in Procs : snap[q] \in 1..stamp
        /\ reliable \in 1..stamp
    BY <1>0, DiskEntries DEF TypeInv, TypeOK
  <2>3. Newest'
    BY <1>2, <2>1, SameNewest
  <2>4. Coming'
    BY <1>2, <2>1, <2>2 DEF Coming
  <2> QED
    BY <2>1, <2>2, <2>3, <2>4 DEF Saved
<1>6. ASSUME NEW p \in Procs, NEW s, Begin(p, s), Begins(p, s), up \/ ~Saves(s),
             UNCHANGED <<up, version>>
      PROVE  Saved'
  <2>1. Newest'
    BY <1>2, <1>6, SameNewest DEF Begin
  <2>2. Coming'
    BY <1>0, <1>2, <1>6, BeginComing
  <2> QED
    BY <1>2, <1>6, <2>1, <2>2 DEF Saved, Begin
<1>7. CASE fork_and_dump
  <2>1. up /\ UNCHANGED <<up, version>>
    BY <1>0, <1>7, ForkBegins
  <2>2. ASSUME NEW c \in Children, NEW s, Begin(c, s), Begins(c, s) PROVE Saved'
    BY <1>6, <2>1, <2>2 DEF Procs
  <2>3. ASSUME UNCHANGED <<disk, todo, at, snap, reliable>> PROVE Saved'
    BY <1>4, <2>1, <2>3
  <2> QED
    BY <1>0, <1>7, <2>2, <2>3, ForkBegins DEF Saved
<1>8. CASE Serves
  <2>1. UNCHANGED <<up, version>>
    BY <1>0, <1>8, ServerBegins
  <2>2. PICK s : /\ Begin(Server, s) /\ Begins(Server, s)
                 /\ Saves(s) => dump_database \/ do_restart
    BY <1>0, <1>8, ServerBegins
  <2>3. dump_database \/ do_restart => up
    BY DEF dump_database, do_restart, Serving
  <2> QED
    BY <1>6, <2>1, <2>2, <2>3 DEF Saved, Procs
<1>9. CASE SlaveDies
  BY <1>4, <1>9 DEF SlaveDies, procs
<1>10. CASE Crash
  <2>1. /\ up' = FALSE /\ disk' = disk /\ reliable' = reliable
        /\ \A q \in Procs : todo'[q] = <<>>
    BY <1>10 DEF Crash
  <2>3. at[Server] # "indb"
    BY <1>3, <1>10, CrashInput
  <2>2. Newest'
    BY <1>2, <2>1, <2>3, SameNewest
  <2> QED
    BY <2>1, <2>2, EmptyHas DEF Saved, Coming
<1>11. CASE Salvage
  <2>1. /\ disk' = [disk EXCEPT !["KILLED"] = Absent, !["CRASH"] = Absent]
        /\ UNCHANGED <<todo, at, snap, up, version, reliable>>
    BY <1>11 DEF Salvage, procs, memory
  <2>2. \A f \in {"outdb", "prev", "indb", "save"} : disk'[f] = disk[f]
    BY <1>0, <2>1, DiskEntries, LooseNames
  <2>3. Newest'
    BY <1>2, <2>1, <2>2, SameNewest
  <2> QED
    BY <1>2, <2>1, <2>3 DEF Saved, Coming
<1>12. ASSUME NEW p \in Procs, Step(p) PROVE Saved'
  <2>1. PICK op : Does(p, op)
    BY <1>12 DEF Step, DoUnlink, DoOpen, DoClose, DoRename, DoExit, DoExec, DoCheckpoint,
       DoCopy
  <2>2. /\ \A q \in Procs : \A o, x : Has(todo'[q], o, x) => Has(todo[q], o, x)
        /\ snap' = snap
    BY <1>0, <2>1, DoneLess
  <2>3. ASSUME UNCHANGED <<up, version, reliable>> PROVE Coming' /\ (up' => version' >= reliable')
    BY <1>2, <2>2, <2>3 DEF Coming
  <2>4. CASE DoUnlink(p) \/ DoOpen(p) \/ DoClose(p)
    <3>1. reliable' = reliable
      <4>1. CASE DoUnlink(p) \/ DoOpen(p)
        BY <4>1 DEF DoUnlink, DoOpen
      <4>2. CASE DoClose(p)
        <5>1. at[p] # "indb"
          <6>1. /\ Does(p, "close") /\ NoFile # "indb" /\ Apart
            BY <4>2, LooseNames DEF DoClose, Inv1
          <6> QED
            BY <1>0, <1>3, <6>1, OpenFiles DEF Does
        <5> QED
          BY <4>2, <5>1 DEF Saved, DoClose
      <4> QED
        BY <2>4, <4>1, <4>2 DEF Saved
    <3>2. \A f \in {"outdb", "prev", "indb", "save"} : disk'[f] = disk[f]
      BY <1>0, <1>3, <2>4, WriteEffect, LooseNames
    <3>5. at[Server] # "indb"
      BY <2>4, PlainOpen DEF DoUnlink, DoOpen, DoClose
    <3>3. Newest'
      BY <1>2, <3>1, <3>2, <3>5, SameNewest
    <3>4. UNCHANGED <<up, version, reliable>>
      BY <2>4, <3>1 DEF DoUnlink, DoOpen, DoClose, memory
    <3> QED
      <4>1. Coming' /\ (up' => version' >= reliable')
        BY <2>3, <3>4
      <4> QED
        BY <3>3, <4>1 DEF Saved
  <2>5. CASE DoRename(p)
    BY <1>0, <1>2, <2>5, RenameNewest DEF Saved
  <2>6. CASE DoCheckpoint(p)
    <3>1. ~Exists("indb")
      BY <1>2, <2>6 DEF DoCheckpoint, Does
    <3>2. UNCHANGED <<up, version, reliable>>
      BY <2>6 DEF DoCheckpoint, memory
    <3>3. Newest'
      BY <1>0, <1>2, <2>6, <3>1, CheckpointNewest
    <3> QED
      BY <2>3, <3>2, <3>3 DEF Saved
  <2>9. CASE DoCopy(p)
    <3>1. ~Exists("outdb")
      BY <1>2, <2>9 DEF DoCopy, Does
    <3>2. UNCHANGED <<up, version, reliable>>
      BY <2>9 DEF DoCopy, memory
    <3>3. Newest'
      BY <1>0, <1>2, <2>9, <3>1, CopyNewest
    <3> QED
      BY <2>3, <3>2, <3>3 DEF Saved
  <2>7. CASE DoExit(p)
    <3>1. UNCHANGED <<disk, version, reliable>> /\ (up' = FALSE \/ up' = up)
      BY <2>7 DEF DoExit
    <3>5. at' = at
      BY <2>7 DEF DoExit
    <3>2. Newest'
      BY <1>2, <3>1, <3>5, SameNewest
    <3>3. CASE up' = FALSE
      BY <1>2, <2>2, <3>1, <3>2, <3>3 DEF Coming, Saved
    <3>4. CASE up' = up
      <4>1. Coming' /\ (up' => version' >= reliable')
        BY <2>3, <3>1, <3>4
      <4> QED
        BY <3>2, <4>1 DEF Saved
    <3> QED
      BY <3>1, <3>3, <3>4 DEF Saved
  <2>8. CASE DoExec(p)
    <3>1. /\ Does(p, "exec") /\ up' = IsWhole("indb") /\ version' = disk["indb"].v
          /\ reliable' = IF up' THEN version' ELSE reliable
          /\ disk' = disk /\ at' = at
      BY <2>8 DEF DoExec, load_game
    <3>2. ~Exists("outdb")
      BY <1>2, <3>1 DEF Does
    <3>3. \A q \in Procs : Idle(q)'
      BY <1>0, <1>3, <3>1, DoneLess DEF Does
    <3>4. Coming'
      BY <3>3, EmptyHas DEF Coming, Idle
    <3>5. CASE ~IsWhole("indb")
      <4>1. reliable' = reliable /\ up' = FALSE
        BY <3>1, <3>5
      <4>2. Newest'
        BY <1>2, <3>1, <4>1, SameNewest
      <4> QED
        BY <3>4, <4>1, <4>2 DEF Saved
    <3>6. CASE IsWhole("indb")
      <4>1. reliable' = disk["indb"].v /\ version' = disk["indb"].v
            /\ disk["indb"].v \in Int
        <5>1. Entry(disk["indb"], stamp)
          BY <1>0, DiskEntries, LooseNames
        <5> QED
          BY <3>1, <3>6, <5>1, DiskEntries, <1>0 DEF Saved, Entry
      <4>2. Newest'
        BY <3>1, <3>2, <3>6, <4>1 DEF Newest, Keeps, IsWhole, Exists
      <4> QED
        BY <3>4, <4>1, <4>2 DEF Saved
    <3> QED
      BY <3>5, <3>6 DEF Saved
  <2> QED
    BY <1>12, <2>4, <2>5, <2>6, <2>7, <2>8, <2>9 DEF Saved, Step
<1>13. CASE UNCHANGED vars
  BY <1>4, <1>13 DEF vars, procs, memory
<1> QED
  BY <1>5, <1>7, <1>8, <1>9, <1>10, <1>11, <1>12, <1>13 DEF Next, Serves

LEMMA NextNewest ==
    ASSUME Inv1, StartKept, NewestKept, [Next]_vars
    PROVE  NewestKept'
<1>0. scenario' = scenario /\ TypeInv /\ TypeInv' /\ (torn => torn')
  BY NextScenario, NextTyped, TornKept DEF Inv1
<1>1. SUFFICES ASSUME Plain, ~torn'
      PROVE  /\ Saved'
             /\ \A q \in Procs : ~Idle(q)' /\ Head(todo'[q]).op \in {"copy", "exec"} =>
                    ~Exists("outdb")'
  <2>1. Plain' => Plain
    BY <1>0, OrderlySame DEF Plain
  <2> QED
    BY <2>1 DEF NewestKept, Plain, Newest, Coming, Saved
<1>2. /\ Newest /\ Coming /\ (up => version >= reliable)
      /\ \A q \in Procs : ~Idle(q) /\ Head(todo[q]).op \in {"copy", "exec"} =>
             ~Exists("outdb")
      /\ \A q \in Procs : ~Idle(q) /\ Head(todo[q]).op = "checkpoint" => ~Exists("indb")
      /\ IsWhole("save")
  BY <1>0, <1>1, PlainFacts DEF NewestKept, StartKept, Plain, Newest, Coming
<1>3. /\ Quiet /\ Orderly
      /\ \A p, q \in Procs : ~Idle(p) /\ ~Idle(q) => p = q
      /\ "indb" \notin Loose /\ "indb" \notin Written
  BY <1>1, PlainFacts
<1>13. Saved'
  BY <1>1, NextSaved
<1>14. ASSUME NEW q \in Procs, ~Idle(q)', NEW o \in {"copy", "exec"},
              Head(todo'[q]).op = o
       PROVE  ~Exists("outdb")'
  <2>1. CASE DoCheckpoint(q)
    <3>1. ~Exists("indb")
      BY <1>2, <2>1 DEF DoCheckpoint, Does
    <3> QED
      BY <1>0, <1>1, <1>2, <2>1, <3>1, CheckpointNewest
  <2>3. CASE DoCopy(q)
    <3>1. ~Exists("outdb")
      BY <1>2, <2>3 DEF DoCopy, Does
    <3>2. disk'["outdb"] = disk["outdb"]
      BY <1>0, <2>3, CopyEffect, LooseNames
    <3> QED
      BY <3>1, <3>2 DEF Exists
  <2>2. CASE ~Idle(q) /\ Head(todo[q]).op = o /\ todo'[q] = todo[q]
    <3>1. ~Exists("outdb")
      BY <1>2, <2>2
    <3>2. ASSUME NEW p \in Procs, NEW op, Does(p, op) PROVE FALSE
      <4>1. p = q
        BY <1>3, <2>2, <3>2 DEF Does
      <4> QED
        BY <1>0, <2>2, <3>2, <4>1, Shorter
    <3>3. \A p \in Procs : ~DoRename(p) /\ ~DoCheckpoint(p) /\ ~DoCopy(p)
      BY <3>2 DEF DoRename, DoCheckpoint, DoCopy
    <3> QED
      BY <1>3, <3>1, <3>3, DiskEffect, LooseNames DEF Exists
  <2> QED
    BY <1>1, <1>14, <2>1, <2>2, <2>3, AboutTo DEF Plain
<1> QED
  BY <1>13, <1>14

(* What a checkpoint or a shutdown has saved in full stays on the disk until *)
(* a newer dump is complete, however often the machine crashes and the      *)
(* script starts the game, if checkpoints do not overlap and no crash cuts  *)
(* the script's copy short.                                                 *)
THEOREM CheckpointSafe == Spec => [](Orderly => CheckpointKept)
<1> DEFINE I == Inv1 /\ StartKept /\ NewestKept
<1>1. Init => I
  <2>1. Init => /\ disk["indb"] = Whole(1) /\ disk["outdb"] = Absent
                /\ disk["save"] = Whole(1) /\ at[Server] = NoFile /\ NoFile # "indb"
                /\ \A q \in Procs : todo[q] = <<>>
                /\ version = 1 /\ reliable = 1
    BY LooseNames DEF Init, Procs
  <2> QED
    BY <2>1, InitInv1, EmptyHas DEF StartKept, NewestKept, Keeps, Exists, IsWhole, Whole,
       Absent, Idle
<1>2. I /\ [Next]_vars => I'
  BY NextInv1, NextStart, NextNewest
<1>3. I => (Orderly => CheckpointKept)
  BY DEF NewestKept, CheckpointKept, Keeps, Databases
<1> QED
  BY <1>1, <1>2, <1>3, PTL DEF Spec

LEMMA NextUnmixed ==
    ASSUME Inv1, Unmixed, [Next]_vars
    PROVE  Unmixed'
<1>0. scenario' = scenario /\ TypeInv /\ TypeInv' /\ DOMAIN disk = Files
  BY NextScenario, NextTyped, DiskEntries DEF Inv1
<1>1. SUFFICES ASSUME Quiet PROVE \A f \in Files : disk'[f].state # "mixed"
  BY <1>0, OrderlySame DEF Unmixed
<1>2. /\ Orderly
      /\ \A p, q \in Procs : ~Idle(p) /\ ~Idle(q) => p = q
      /\ \A f \in Files : disk[f].state # "mixed"
  BY <1>1 DEF Quiet, Inv1, AtMostOne, Unmixed
<1>3. ASSUME disk' = disk PROVE \A f \in Files : disk'[f].state # "mixed"
  BY <1>2, <1>3
<1>4. Absent.state # "mixed" /\ \A v : Partial(v).state # "mixed" /\ Whole(v).state # "mixed"
  BY DEF Absent, Partial, Whole
<1>5. ASSUME NEW p \in Procs, DoUnlink(p)
      PROVE  \A f \in Files : disk'[f].state # "mixed"
  <2>1. PICK f : disk' = [disk EXCEPT ![f] = Absent]
    BY <1>5 DEF DoUnlink
  <2> QED
    BY <1>0, <1>2, <1>4, <2>1
<1>6. ASSUME NEW p \in Procs, DoOpen(p)
      PROVE  \A f \in Files : disk'[f].state # "mixed"
  <2>1. PICK h : h = Head(todo[p])
    OBVIOUS
  <2>2. /\ Does(p, "open")
        /\ disk' = [disk EXCEPT ![h.f] = IF \E q \in Procs : at[q] = h.f
                                         THEN Mixed(snap[p]) ELSE Partial(snap[p])]
    BY <1>6, <2>1 DEF DoOpen
  <2>3. h.f \in Files /\ at[p] = NoFile
    BY <1>0, <2>1, <2>2, HeadNames, DoFacts DEF Does
  <2>4. ASSUME NEW q \in Procs, at[q] = h.f PROVE FALSE
    <3>1. at[q] # NoFile
      BY <2>3, <2>4, FileNames
    <3>2. ~Idle(q)
      BY <1>0, <3>1 DEF TypeInv, Sound
    <3>3. p = q
      BY <1>2, <2>2, <3>2 DEF Does
    <3> QED
      BY <2>3, <3>1, <3>3
  <2>5. disk' = [disk EXCEPT ![h.f] = Partial(snap[p])]
    BY <2>2, <2>4
  <2> QED
    BY <1>0, <1>2, <1>4, <2>5
<1>7. ASSUME NEW p \in Procs, DoClose(p)
      PROVE  \A f \in Files : disk'[f].state # "mixed"
  <2>1. disk' = disk \/ disk' = [disk EXCEPT ![at[p]] = Whole(snap[p])]
    BY <1>7 DEF DoClose
  <2> QED
    BY <1>0, <1>2, <1>4, <2>1
<1>8. ASSUME NEW p \in Procs, DoRename(p)
      PROVE  \A f \in Files : disk'[f].state # "mixed"
  <2>1. PICK f : f = Head(todo[p]).f
    OBVIOUS
  <2>2. PICK g : g = Head(todo[p]).g
    OBVIOUS
  <2>3. /\ f \in Files
        /\ Exists(f) => /\ disk'[g] = disk[f] /\ disk'[f] = Absent
                        /\ \A x \in Files \ {f, g} : disk'[x] = disk[x]
        /\ ~Exists(f) => disk' = disk
    BY <1>0, <1>2, <1>8, <2>1, <2>2, RenameEffect
  <2> QED
    BY <1>2, <1>4, <2>3
<1>9. ASSUME NEW p \in Procs, DoCheckpoint(p)
      PROVE  \A f \in Files : disk'[f].state # "mixed"
  <2>1. /\ \A f \in Files \ {"indb", "outdb"} : disk'[f] = disk[f]
        /\ Exists("outdb") => disk'["indb"] = disk["outdb"] /\ disk'["outdb"] = Absent
        /\ ~Exists("outdb") => disk'["outdb"] = disk["outdb"]
        /\ ~Exists("outdb") /\ Exists("save") =>
               disk'["indb"] = Partial(disk["save"].v)
        /\ ~Exists("outdb") /\ ~Exists("save") => disk' = disk
    BY <1>0, <1>9, CheckpointEffect
  <2> QED
    BY <1>2, <1>4, <2>1, LooseNames
<1>16. ASSUME NEW p \in Procs, DoCopy(p)
       PROVE  \A f \in Files : disk'[f].state # "mixed"
  <2>1. /\ \A f \in Files \ {"indb"} : disk'[f] = disk[f]
        /\ disk'["indb"] = disk["save"] \/ disk' = disk
    BY <1>0, <1>16, CopyEffect
  <2> QED
    BY <1>2, <2>1, LooseNames
<1>10. CASE Salvage
  <2>1. disk' = [disk EXCEPT !["KILLED"] = Absent, !["CRASH"] = Absent]
    BY <1>10 DEF Salvage
  <2> QED
    BY <1>0, <1>2, <1>4, <2>1
<1>11. CASE UNCHANGED vars
  BY <1>3, <1>11 DEF vars
<1>12. CASE Play \/ SlaveDies \/ Crash
  BY <1>3, <1>12 DEF Play, SlaveDies, Crash
<1>13. CASE fork_and_dump
  <2>1. disk' = disk
    BY <1>0, <1>13, ForkBegins DEF Begin
  <2> QED
    BY <1>3, <2>1
<1>14. CASE Serves
  <2>1. disk' = disk
    BY <1>0, <1>14, ServerBegins DEF Begin
  <2> QED
    BY <1>3, <2>1
<1>15. ASSUME NEW p \in Procs, DoExit(p) \/ DoExec(p)
       PROVE  \A f \in Files : disk'[f].state # "mixed"
  BY <1>3, <1>15 DEF DoExit, DoExec, load_game
<1> QED
  BY <1>5, <1>6, <1>7, <1>8, <1>9, <1>10, <1>11, <1>12, <1>13, <1>14, <1>15, <1>16
  DEF Next, Serves, Step

(* No two processes ever write one file at a time: @restart waits for the   *)
(* dump child as mudstate.dumping says, and the server's own dumps come one *)
(* after the other.  When the slave's end clears the flag, or checkpoints   *)
(* overlap, the hypothesis does not hold, and neither does the property.    *)
THEOREM WritersApart == Spec => [](Orderly => NeverMixed)
<1> DEFINE I == Inv1 /\ Unmixed
<1>1. Init => I
  <2>1. Init => \A f \in Files : disk[f] = Whole(1) \/ disk[f] = Absent
    BY DEF Init
  <2>2. Absent.state # "mixed" /\ Whole(1).state # "mixed"
    BY DEF Absent, Whole
  <2> QED
    BY <2>1, <2>2, InitInv1 DEF Unmixed
<1>2. I /\ [Next]_vars => I'
  BY NextInv1, NextUnmixed
<1>3. I => (Orderly => NeverMixed)
  BY DEF Unmixed, NeverMixed, Quiet
<1> QED
  BY <1>1, <1>2, <1>3, PTL DEF Spec
=============================================================================
