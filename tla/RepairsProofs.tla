--------------------------- MODULE RepairsProofs ---------------------------
(* Proofs about the repair of a 'Mech: which jobs exclude each other, what  *)
(* a restart keeps of them, that the list of damages tells the truth, and   *)
(* that no materials come out of nothing.                                   *)
EXTENDS Repairs, ListSelectionProofs, FiniteSetTheorems, TLAPS

JobTypes == {"REPL", "REPLG", "REPAP", "REPENHCRIT", "REAT", "RELO", "FIX", "FIXI",
             "SCRL", "SCRG", "SCRP", "RESE"}
PartTypes == Mending \cup {"SCRP", "SCRG"}

JobFns == {"repairpart", "replacegun", "repairgun", "repairenhcrit", "reattach", "reload",
           "repairarmor", "repairinternal", "removesection", "removegun", "removepart",
           "reseal", "very_fake_func"}

Jobs == [type : JobTypes, fn : JobFns, loc : Sections \X {0, 8}, pos : Parts \cup {None},
         crit : 0..LAST, extra : Int]

\* The function that carries out a job of this type, if the job has not failed.
Carries(type, fn) ==
    /\ type = "REPL" => fn = "repairpart"
    /\ type = "REPLG" => fn = "replacegun"
    /\ type = "REPAP" => fn \in {"repairgun", "repairpart"}
    /\ type = "REPENHCRIT" => fn = "repairenhcrit"
    /\ type = "REAT" => fn = "reattach"
    /\ type = "RELO" => fn = "reload"
    /\ type = "FIX" => fn = "repairarmor"
    /\ type = "FIXI" => fn = "repairinternal"
    /\ type = "SCRL" => fn = "removesection"
    /\ type = "SCRG" => fn = "removegun"
    /\ type = "SCRP" => fn = "removepart"
    /\ type = "RESE" => fn = "reseal"

\* A job of a part names the part and its section, and only a repair of damage a later crit of
\* it; a job of a section names its front, only armor may be fixed at the rear.  The centre torso is never taken off.
JobOK(j) ==
    /\ j \in Jobs
    /\ j.fn = "very_fake_func" \/ Carries(j.type, j.fn)
    /\ j.type \in PartTypes => j.pos \in Parts /\ j.loc = Front(Loc(j.pos))
    /\ j.type \notin PartTypes \cup {"FIX"} => \E l \in Sections : j.loc = Front(l)
    /\ j.type = "SCRL" => j.extra \in {2, 3} /\ j.loc # Front("CTORSO")
    /\ j.type = "RELO" => IsAmmo(j.pos)
    /\ j.type # "REPENHCRIT" => j.crit = 0

JobsOK == \A j \in jobs : JobOK(j)

-----------------------------------------------------------------------------
\* Which jobs may not be under way together.

FrontTypes == {"FIX", "FIXI", "SCRL"}

\* Two jobs of a kind at one place.
Clash(j, k) ==
    \/ j.pos = k.pos /\ j.crit = k.crit /\ j.type \in Mending /\ k.type \in Mending
    \/ j.pos = k.pos /\ j.type \in {"SCRP", "SCRG"} /\ k.type \in {"SCRP", "SCRG"}
    \/ j.loc = k.loc /\ j.type \in FrontTypes /\ k.type \in FrontTypes
    \/ j.loc = k.loc /\ j.type = "REAT" /\ k.type = "REAT"
    \/ j.loc = k.loc /\ j.type = "RESE" /\ k.type = "RESE"

\* A job that makes good what another takes off.
Undoes(j, k) ==
    \/ /\ j.pos = k.pos /\ j.crit = k.crit
       /\ j.type \in {"REPAP", "REPENHCRIT"} /\ k.type \in {"SCRP", "SCRG"}
    \/ j.loc = k.loc /\ j.type \in {"REPL", "RELO"} /\ k.type = "SCRL"

Apart == \A j, k \in jobs : (Clash(j, k) => j = k) /\ ~Undoes(j, k)

PowerOK == jobs # {} => power = "off"

Exclusive == TypeOK /\ JobsOK /\ Apart /\ PowerOK

-----------------------------------------------------------------------------
LEMMA AtMostOne ==
    ASSUME NEW S, \A x, y \in S : x = y
    PROVE  Cardinality(S) <= 1
<1>1. CASE S = {}
  BY <1>1, FS_EmptySet
<1>2. CASE S # {}
  <2>1. PICK x \in S : TRUE
    BY <1>2
  <2>2. S = {x}
    BY <2>1
  <2> QED
    BY <2>2, FS_Singleton
<1> QED
  BY <1>1, <1>2

LEMMA ExclusiveSuffices == Exclusive => JobsExclusive
<1> SUFFICES ASSUME Exclusive
             PROVE  JobsExclusive
  OBVIOUS
<1>1. ASSUME NEW p \in Parts, NEW n \in 0..LAST
      PROVE  Cardinality({j \in jobs : j.pos = p /\ j.crit = n /\ j.type \in Mending}) <= 1
  <2> DEFINE S == {j \in jobs : j.pos = p /\ j.crit = n /\ j.type \in Mending}
  <2>1. \A x, y \in S : x = y
    BY DEF Exclusive, Apart, Clash
  <2> QED
    BY <2>1, AtMostOne
<1>2. ASSUME NEW p \in Parts
      PROVE  Cardinality({j \in jobs : j.pos = p /\ j.type \in Scrapping}) <= 1
  <2> DEFINE S == {j \in jobs : j.pos = p /\ j.type \in Scrapping}
  <2>1. \A x, y \in S : x = y
    BY DEF Exclusive, Apart, Clash, Scrapping
  <2> QED
    BY <2>1, AtMostOne
<1>3. ASSUME NEW p \in Parts
      PROVE  ~(AtPart({"REPAP", "REPENHCRIT"}, p) /\ SomeoneScrappingPart(p))
  BY DEF Exclusive, Apart, Undoes, AtPart, AtCrit, SomeoneScrappingPart, Scrapping
<1>4. ASSUME NEW l \in Sections
      PROVE  /\ Once({"FIX", "FIXI", "SCRL"}, Front(l)) /\ Once({"FIX"}, Rear(l))
             /\ Once({"REAT"}, Front(l)) /\ Once({"RESE"}, Front(l))
  <2> DEFINE S(types, loc) == {j \in jobs : j.type \in types /\ j.loc = loc}
  <2>1. \A x, y \in S({"FIX", "FIXI", "SCRL"}, Front(l)) : x = y
    BY DEF Exclusive, Apart, Clash, FrontTypes
  <2>2. \A x, y \in S({"FIX"}, Rear(l)) : x = y
    BY DEF Exclusive, Apart, Clash, FrontTypes
  <2>3. \A x, y \in S({"REAT"}, Front(l)) : x = y
    BY DEF Exclusive, Apart, Clash
  <2>4. \A x, y \in S({"RESE"}, Front(l)) : x = y
    BY DEF Exclusive, Apart, Clash
  <2>5. Once({"FIX", "FIXI", "SCRL"}, Front(l))
    BY <2>1, AtMostOne DEF Once
  <2>6. Once({"FIX"}, Rear(l))
    BY <2>2, AtMostOne DEF Once
  <2>7. Once({"REAT"}, Front(l))
    BY <2>3, AtMostOne DEF Once
  <2>8. Once({"RESE"}, Front(l))
    BY <2>4, AtMostOne DEF Once
  <2> QED
    BY <2>5, <2>6, <2>7, <2>8
<1>5. ASSUME NEW l \in Sections
      PROVE  ~(SomeoneScrappingLoc(Front(l)) /\ AtLoc({"REPL", "RELO"}, Front(l)))
  BY DEF Exclusive, Apart, Undoes, AtLoc, SomeoneScrappingLoc
<1> QED
  BY <1>1, <1>2, <1>3, <1>4, <1>5 DEF JobsExclusive, Exclusive, PowerOK

-----------------------------------------------------------------------------
\* What a new job, the end of a job and a restart do to the jobs.

LEMMA Added ==
    ASSUME JobsOK, Apart, NEW job, JobOK(job), jobs' = jobs \cup {job},
           \A k \in jobs : ~Clash(job, k) /\ ~Undoes(job, k) /\ ~Undoes(k, job)
    PROVE  JobsOK' /\ Apart'
<1>1. JobsOK'
  BY DEF JobsOK, JobOK
<1>2. ASSUME NEW j \in jobs', NEW k \in jobs'
      PROVE  (Clash(j, k) => j = k) /\ ~Undoes(j, k)
  <2>1. CASE j \in jobs /\ k \in jobs
    BY <2>1 DEF Apart
  <2>2. CASE j = job /\ k \in jobs
    BY <2>2
  <2>3. CASE j \in jobs /\ k = job
    BY <2>3 DEF Clash
  <2>4. CASE j = job /\ k = job
    BY <2>4 DEF Undoes
  <2> QED
    BY <2>1, <2>2, <2>3, <2>4
<1> QED
  BY <1>1, <1>2 DEF Apart

LEMMA PartJobFields ==
    ASSUME NEW type \in PartTypes, NEW fn \in JobFns, NEW p \in Parts, NEW extra \in Int,
           fn = "very_fake_func" \/ Carries(type, fn), type = "RELO" => IsAmmo(p)
    PROVE  LET job == PartJob(type, fn, p, extra)
           IN  /\ JobOK(job) /\ job.type = type /\ job.pos = p /\ job.crit = 0
               /\ job.loc = Front(Loc(p))
<1>1. Loc(p) \in Sections
  BY HullAssumption DEF Loc
<1>2. Front(Loc(p)) \in Sections \X {0, 8}
  BY <1>1 DEF Front
<1>3. type \in JobTypes
  BY DEF PartTypes, Mending, JobTypes
<1>4. 0 \in 0..LAST
  BY DEF LAST
<1> QED
  BY <1>2, <1>3, <1>4 DEF JobOK, Jobs, PartJob, Job, PartTypes, Mending

LEMMA CritJobFields ==
    ASSUME NEW fn \in {"repairenhcrit", "very_fake_func"}, NEW p \in Parts, NEW n \in 0..LAST
    PROVE  LET job == CritJob("REPENHCRIT", fn, p, n)
           IN  /\ JobOK(job) /\ job.type = "REPENHCRIT" /\ job.fn = fn /\ job.pos = p
               /\ job.crit = n /\ job.loc = Front(Loc(p))
<1> DEFINE job == CritJob("REPENHCRIT", fn, p, n)
<1>1. /\ job.type = "REPENHCRIT" /\ job.fn = fn /\ job.pos = p /\ job.crit = n
      /\ job.loc = Front(Loc(p)) /\ job.extra = 0
      /\ job = [type |-> job.type, fn |-> job.fn, loc |-> job.loc, pos |-> job.pos,
                crit |-> job.crit, extra |-> job.extra]
  BY DEF CritJob, PartJob, Job
<1>2. Loc(p) \in Sections
  BY HullAssumption DEF Loc
<1>3. Front(Loc(p)) \in Sections \X {0, 8}
  BY <1>2 DEF Front
<1>4. "REPENHCRIT" \in JobTypes /\ "REPENHCRIT" \in PartTypes /\ fn \in JobFns
  BY DEF PartTypes, Mending, JobTypes, JobFns
<1> HIDE DEF job
<1>5. job \in Jobs
  BY <1>1, <1>3, <1>4 DEF Jobs
<1>6. JobOK(job)
  BY <1>1, <1>4, <1>5 DEF JobOK, Carries
<1> QED
  BY <1>1, <1>6 DEF job

\* A job that mends p, on conditions that all commands for a part make.
LEMMA MendAdded ==
    ASSUME JobsOK, Apart, NEW type \in Mending, NEW fn \in JobFns, NEW p \in Parts,
           NEW extra \in Int, fn = "very_fake_func" \/ Carries(type, fn),
           ~SomeoneRepairing(p), ~SomeoneScrappingLoc(Front(Loc(p))), type = "RELO" => IsAmmo(p),
           type \in {"REPAP", "REPENHCRIT"} => ~SomeoneScrappingPart(p),
           jobs' = jobs \cup {PartJob(type, fn, p, extra)}
    PROVE  JobsOK' /\ Apart'
<1> DEFINE job == PartJob(type, fn, p, extra)
<1>1. type \in PartTypes
  BY DEF PartTypes
<1>2. JobOK(job) /\ job.type = type /\ job.pos = p /\ job.crit = 0 /\ job.loc = Front(Loc(p))
  BY <1>1, PartJobFields
<1> HIDE DEF job
<1>3. ASSUME NEW k \in jobs
      PROVE  ~Clash(job, k)
  BY <1>2 DEF Clash, SomeoneRepairing, AtPart, AtCrit, Mending, FrontTypes
<1>4. ASSUME NEW k \in jobs
      PROVE  ~Undoes(job, k)
  BY <1>2 DEF Undoes, SomeoneScrappingPart, SomeoneScrappingLoc, Scrapping, AtPart, AtCrit, AtLoc
<1>5. ASSUME NEW k \in jobs
      PROVE  ~Undoes(k, job)
  BY <1>2 DEF Undoes, Mending
<1> QED
  BY <1>2, <1>3, <1>4, <1>5, Added DEF job

\* A job that mends the damage of the crit n of p.
LEMMA CritAdded ==
    ASSUME JobsOK, Apart, NEW fn \in {"repairenhcrit", "very_fake_func"}, NEW p \in Parts,
           NEW n \in 0..LAST, ~AtCrit(Mending, p, n), ~AtCrit(Scrapping, p, n),
           jobs' = jobs \cup {CritJob("REPENHCRIT", fn, p, n)}
    PROVE  JobsOK' /\ Apart'
<1> DEFINE job == CritJob("REPENHCRIT", fn, p, n)
<1>1. /\ JobOK(job) /\ job.type = "REPENHCRIT" /\ job.pos = p /\ job.crit = n
      /\ job.loc = Front(Loc(p))
  BY CritJobFields
<1> HIDE DEF job
<1>2. ASSUME NEW k \in jobs
      PROVE  ~Clash(job, k)
  BY <1>1 DEF Clash, AtCrit, Mending, FrontTypes
<1>3. ASSUME NEW k \in jobs
      PROVE  ~Undoes(job, k)
  BY <1>1 DEF Undoes, Scrapping, AtCrit
<1>4. ASSUME NEW k \in jobs
      PROVE  ~Undoes(k, job)
  BY <1>1 DEF Undoes, Mending
<1> QED
  BY <1>1, <1>2, <1>3, <1>4, Added DEF job

LEMMA ScrapAdded ==
    ASSUME JobsOK, Apart, NEW type \in {"SCRP", "SCRG"}, NEW fn \in JobFns, NEW p \in Parts,
           NEW extra \in Int, fn = "very_fake_func" \/ Carries(type, fn),
           ~SomeoneRepairing(p), ~SomeoneScrappingPart(p),
           jobs' = jobs \cup {PartJob(type, fn, p, extra)}
    PROVE  JobsOK' /\ Apart'
<1> DEFINE job == PartJob(type, fn, p, extra)
<1>1. type \in PartTypes
  BY DEF PartTypes
<1>2. JobOK(job) /\ job.type = type /\ job.pos = p /\ job.crit = 0 /\ job.loc = Front(Loc(p))
  BY <1>1, PartJobFields
<1> HIDE DEF job
<1>3. ASSUME NEW k \in jobs
      PROVE  ~Clash(job, k)
  <2>1. JobOK(k)
    BY DEF JobsOK
  <2>2. k.type \in {"SCRP", "SCRG"} => k.crit = 0
    BY <2>1 DEF JobOK
  <2> QED
    BY <1>2, <2>2 DEF Clash, SomeoneScrappingPart, Scrapping, AtPart, AtCrit, Mending, FrontTypes
<1>4. ASSUME NEW k \in jobs
      PROVE  ~Undoes(job, k)
  BY <1>2 DEF Undoes
<1>5. ASSUME NEW k \in jobs
      PROVE  ~Undoes(k, job)
  BY <1>2 DEF Undoes, SomeoneRepairing, AtPart, AtCrit, Mending
<1> QED
  BY <1>2, <1>3, <1>4, <1>5, Added DEF job

LEMMA SectAdded ==
    ASSUME JobsOK, Apart, NEW type \in {"FIX", "FIXI", "SCRL", "REAT", "RESE"},
           NEW fn \in JobFns, NEW loc \in Sections \X {0, 8}, NEW extra \in Int,
           fn = "very_fake_func" \/ Carries(type, fn),
           type = "FIX" \/ \E l \in Sections : loc = Front(l),
           type = "SCRL" => /\ extra \in {2, 3} /\ loc # Front("CTORSO")
                            /\ ~AtLoc({"REPL", "RELO"}, loc),
           type \in FrontTypes => ~AtLoc(FrontTypes, loc),
           type = "REAT" => ~AtLoc({"REAT"}, loc),
           type = "RESE" => ~AtLoc({"RESE"}, loc),
           jobs' = jobs \cup {Job(type, fn, loc, None, extra)}
    PROVE  JobsOK' /\ Apart'
<1> DEFINE job == Job(type, fn, loc, None, extra)
<1>1. type \in JobTypes /\ type \notin PartTypes
  BY DEF PartTypes, Mending, JobTypes
<1>2. JobOK(job)
  <2>1. 0 \in 0..LAST
    BY DEF LAST
  <2> QED
    BY <1>1, <2>1 DEF JobOK, Jobs, Job
<1>3. job.type = type /\ job.loc = loc
  BY DEF Job
<1> HIDE DEF job
<1>4. ASSUME NEW k \in jobs
      PROVE  ~Clash(job, k)
  BY <1>3 DEF Clash, AtLoc, Mending, FrontTypes
<1>5. ASSUME NEW k \in jobs
      PROVE  ~Undoes(job, k)
  BY <1>3 DEF Undoes
<1>6. ASSUME NEW k \in jobs
      PROVE  ~Undoes(k, job)
  BY <1>3 DEF Undoes, AtLoc
<1> QED
  BY <1>2, <1>4, <1>5, <1>6, Added DEF job

\* A job that becomes another one of the same kind at the same place.
Alike(j, k) == j.type = k.type /\ j.loc = k.loc /\ j.pos = k.pos /\ j.crit = k.crit

\* If each job comes from a job alike, and no two from one, they stay apart.
LEMMA AlikeApart ==
    ASSUME JobsOK, Apart,
           \A a \in jobs' : JobOK(a) /\ \E j \in jobs : Alike(a, j),
           \A a, b \in jobs' : \A j \in jobs : Alike(a, j) /\ Alike(b, j) => a = b
    PROVE  JobsOK' /\ Apart'
<1>1. JobsOK'
  BY DEF JobsOK, JobOK
<1>2. ASSUME NEW a \in jobs', NEW b \in jobs'
      PROVE  (Clash(a, b) => a = b) /\ ~Undoes(a, b)
  <2>1. PICK j \in jobs : Alike(a, j)
    OBVIOUS
  <2>2. PICK k \in jobs : Alike(b, k)
    OBVIOUS
  <2>3. Clash(a, b) => Clash(j, k)
    BY <2>1, <2>2 DEF Clash, Alike
  <2>4. Undoes(a, b) => Undoes(j, k)
    BY <2>1, <2>2 DEF Undoes, Alike
  <2>5. Clash(j, k) => j = k
    BY DEF Apart
  <2>6. ~Undoes(j, k)
    BY DEF Apart
  <2> QED
    BY <2>1, <2>2, <2>3, <2>4, <2>5, <2>6
<1> QED
  BY <1>1, <1>2 DEF Apart

\* Two jobs that are alike are one: every type excludes itself at its place.
LEMMA AlikeSame ==
    ASSUME JobsOK, Apart, NEW j \in jobs, NEW k \in jobs, Alike(j, k)
    PROVE  j = k
<1>1. j.type \in JobTypes
  BY DEF JobsOK, JobOK, Jobs
<1>2. Clash(j, k)
  BY <1>1 DEF Clash, Alike, JobTypes, Mending, FrontTypes
<1> QED
  BY <1>2 DEF Apart

LEMMA EventJobs ==
    ASSUME JobsOK, Apart, NEW j \in jobs, jobs' = (jobs \ {j}) \cup Sequel(j)
    PROVE  JobsOK' /\ Apart'
<1>1. ASSUME NEW s \in Sequel(j)
      PROVE  JobOK(s) /\ Alike(s, j) /\ s = [j EXCEPT !.extra = j.extra - 1]
  <2>1. s = [j EXCEPT !.extra = j.extra - 1] /\ j.fn \in {"repairarmor", "repairinternal"}
    BY DEF Sequel
  <2>2. JobOK(j) /\ j \in Jobs
    BY DEF JobsOK, JobOK
  <2>3. /\ s \in Jobs /\ s.type = j.type /\ s.fn = j.fn /\ s.loc = j.loc /\ s.pos = j.pos
        /\ s.crit = j.crit
    BY <2>1, <2>2 DEF Jobs
  <2>4. j.type # "SCRL"
    BY <2>1, <2>2 DEF JobOK, Carries
  <2> QED
    BY <2>1, <2>2, <2>3, <2>4 DEF JobOK, Alike
<1>2. ASSUME NEW a \in jobs'
      PROVE  JobOK(a) /\ \E i \in jobs : Alike(a, i)
  BY <1>1 DEF JobsOK, Alike
<1>3. ASSUME NEW a \in jobs', NEW b \in jobs', NEW i \in jobs, Alike(a, i), Alike(b, i)
      PROVE  a = b
  <2>1. CASE a \in jobs \ {j} /\ b \in jobs \ {j}
    BY <2>1, <1>3, AlikeSame DEF Alike
  <2>2. CASE a \in Sequel(j) /\ b \in Sequel(j)
    BY <2>2, <1>1
  <2>3. CASE a \in jobs \ {j} /\ b \in Sequel(j)
    <3>1. Alike(a, j)
      BY <1>1, <2>3, <1>3 DEF Alike
    <3> QED
      BY <3>1, <2>3, AlikeSame
  <2>4. CASE b \in jobs \ {j} /\ a \in Sequel(j)
    <3>1. Alike(b, j)
      BY <1>1, <2>4, <1>3 DEF Alike
    <3> QED
      BY <3>1, <2>4, AlikeSame
  <2> QED
    BY <2>1, <2>2, <2>3, <2>4
<1> QED
  BY <1>2, <1>3, AlikeApart

\* The job that loadrepairs makes of j, if it makes one.
Reloaded(j) == IF j.fn = "very_fake_func" THEN j ELSE [j EXCEPT !.fn = Restored(j.type)]

LEMMA RestoredCarries ==
    ASSUME NEW type \in JobTypes \ {"RESE"}
    PROVE  Restored(type) \in JobFns /\ Carries(type, Restored(type))
<1>1. Restored(type) \in JobFns
  BY DEF Restored, JobFns, JobTypes
<1>2. Carries(type, Restored(type))
  BY DEF Restored, Carries, JobTypes
<1> QED
  BY <1>1, <1>2

LEMMA ReloadedOK ==
    ASSUME NEW j, JobOK(j), j.fn = "very_fake_func" \/ j.type # "RESE"
    PROVE  JobOK(Reloaded(j)) /\ Alike(Reloaded(j), j) /\ Reloaded(j).extra = j.extra
<1>1. CASE j.fn = "very_fake_func"
  BY <1>1 DEF Reloaded, Alike
<1>2. CASE j.fn # "very_fake_func"
  <2> DEFINE r == Restored(j.type)  k == [j EXCEPT !.fn = r]
  <2>1. j \in Jobs /\ j.type \in JobTypes \ {"RESE"}
    BY <1>2 DEF JobOK, Jobs
  <2>2. r \in JobFns /\ Carries(j.type, r)
    BY <2>1, RestoredCarries
  <2> HIDE DEF r
  <2>3. /\ k \in Jobs /\ k.type = j.type /\ k.fn = r /\ k.loc = j.loc /\ k.pos = j.pos
        /\ k.crit = j.crit /\ k.extra = j.extra
    BY <2>1, <2>2 DEF Jobs
  <2> HIDE DEF k
  <2>4. JobOK(k)
    BY <2>2, <2>3 DEF JobOK
  <2>5. Reloaded(j) = k
    BY <1>2 DEF Reloaded, k, r
  <2> QED
    BY <2>3, <2>4, <2>5 DEF Alike
<1> QED
  BY <1>1, <1>2

LEMMA LoadedFrom ==
    ASSUME NEW a \in Loaded(jobs)
    PROVE  \E j \in jobs : a = Reloaded(j) /\ (j.fn = "very_fake_func" \/ j.type # "RESE")
BY DEF Loaded, Reloaded

LEMMA LoadedJobs ==
    ASSUME JobsOK, Apart, jobs' = Loaded(jobs)
    PROVE  JobsOK' /\ Apart'
<1>1. ASSUME NEW a \in jobs'
      PROVE  \E j \in jobs : a = Reloaded(j) /\ JobOK(a) /\ Alike(a, j)
  BY LoadedFrom, ReloadedOK DEF JobsOK
<1>2. ASSUME NEW a \in jobs', NEW b \in jobs', NEW i \in jobs, Alike(a, i), Alike(b, i)
      PROVE  a = b
  <2>1. PICK j \in jobs : a = Reloaded(j) /\ Alike(a, j)
    BY <1>1
  <2>2. PICK k \in jobs : b = Reloaded(k) /\ Alike(b, k)
    BY <1>1
  <2>3. Alike(j, i) /\ Alike(k, i)
    BY <2>1, <2>2, <1>2 DEF Alike
  <2>4. j = i /\ k = i
    BY <2>3, AlikeSame
  <2> QED
    BY <2>1, <2>2, <2>4
<1> QED
  BY <1>1, <1>2, AlikeApart

-----------------------------------------------------------------------------
\* The operators on the unit keep its type.

LEMMA MinTwo ==
    ASSUME NEW a \in Nat, NEW b \in Nat
    PROVE  /\ Min({a, b}) \in Nat /\ Min({a, b}) <= a /\ Min({a, b}) <= b
           /\ Min({a, b}) = a \/ Min({a, b}) = b
<1> DEFINE S == {a, b}
<1>1. \E x \in S : \A y \in S : x <= y
  OBVIOUS
<1>2. Min(S) \in S /\ \A y \in S : Min(S) <= y
  BY <1>1 DEF Min
<1> QED
  BY <1>2

LEMMA AddTyped ==
    ASSUME NEW u \in UnitStates, NEW g \in Goods, NEW n \in Nat
    PROVE  /\ Add(u, g, n) \in UnitStates
           /\ Add(u, g, n).sect = u.sect /\ Add(u, g, n).part = u.part
BY DEF Add, UnitStates

LEMMA PaidTyped ==
    ASSUME TypeOK, NEW cost, DOMAIN cost \subseteq Goods,
           \A g \in DOMAIN cost : cost[g] \in Int, Affords(cost)
    PROVE  Paid(cost) \in UnitStates /\ Paid(cost).sect = sect /\ Paid(cost).part = part
<1> DEFINE new == [g \in Goods |-> IF g \in DOMAIN cost THEN store[g] - cost[g] ELSE store[g]]
<1>1. unit \in UnitStates
  BY DEF TypeOK
<1>2. unit.store \in [Goods -> Nat]
  BY <1>1 DEF UnitStates
<1>3. new \in [Goods -> Nat]
  <2>1. ASSUME NEW g \in Goods
        PROVE  (IF g \in DOMAIN cost THEN store[g] - cost[g] ELSE store[g]) \in Nat
    BY <1>2 DEF Affords, store
  <2> QED
    BY <2>1
<1>4. Paid(cost) = [unit EXCEPT !.store = new]
  BY <1>1 DEF Paid, store, UnitStates
<1> HIDE DEF new
<1> QED
  BY <1>1, <1>3, <1>4 DEF UnitStates, sect, part

LEMMA PartTyped ==
    ASSUME NEW u \in UnitStates, NEW p \in Parts, NEW c \in PartStates
    PROVE  /\ [u EXCEPT !.part[p] = c] \in UnitStates
           /\ [u EXCEPT !.part[p] = c].sect = u.sect
           /\ [u EXCEPT !.part[p] = c].part = [u.part EXCEPT ![p] = c]
BY DEF UnitStates

LEMMA SectTyped ==
    ASSUME NEW u \in UnitStates, NEW l \in Sections, NEW s \in SectStates
    PROVE  /\ [u EXCEPT !.sect[l] = s] \in UnitStates
           /\ [u EXCEPT !.sect[l] = s].part = u.part
           /\ [u EXCEPT !.sect[l] = s].sect = [u.sect EXCEPT ![l] = s]
BY DEF UnitStates

LEMMA PartOf ==
    ASSUME NEW u \in UnitStates, NEW p \in Parts
    PROVE  u.part[p] \in PartStates
BY DEF UnitStates

LEMMA SectOf ==
    ASSUME NEW u \in UnitStates, NEW l \in Sections
    PROVE  u.sect[l] \in SectStates
BY DEF UnitStates

LEMMA WreckTyped ==
    ASSUME NEW p \in Parts, NEW c \in PartStates
    PROVE  /\ Wreck(p, c) \in PartStates
           /\ Wreck(p, c).mode = {"destroyed"} /\ ~Wreck(p, c).nuke
           /\ Wreck(p, c).data = c.data /\ Wreck(p, c).worn \subseteq c.worn
BY DEF Wreck, DestroyGun, DestroyPart, PartStates

LEMMA RepairTyped ==
    ASSUME NEW c \in PartStates
    PROVE  /\ mech_RepairPart(c) \in PartStates /\ RepairGun(c) \in PartStates
           /\ mech_RepairPart(c).mode = {} /\ ~mech_RepairPart(c).nuke
           /\ mech_RepairPart(c).data = 0 /\ mech_RepairPart(c).rest = c.rest
           /\ RepairGun(c).mode = {} /\ ~RepairGun(c).nuke /\ RepairGun(c).data = 0
           /\ mech_RepairPart(c).worn = c.worn /\ RepairGun(c).worn = {}
<1>1. c.mode \in SUBSET {"destroyed", "disabled", "damaged"} /\ c.rest \in {"ok", "broken", "gone"}
  BY DEF PartStates
<1>2. mech_RepairPart(c) \in PartStates
  <2> DEFINE d == [c EXCEPT !.mode = {}]
             e == [d EXCEPT !.nuke = FALSE]
  <2>1. d \in PartStates
    BY DEF PartStates
  <2> HIDE DEF d
  <2>2. e \in PartStates
    BY <2>1 DEF PartStates
  <2> HIDE DEF e
  <2>3. 0 \in 0..FULL
    BY DEF FULL
  <2>4. [e EXCEPT !.data = 0] \in PartStates
    BY <2>2, <2>3 DEF PartStates
  <2>5. mech_RepairPart(c) = [e EXCEPT !.data = 0]
    BY DEF mech_RepairPart, d, e
  <2> QED
    BY <2>4, <2>5
<1>3. RepairGun(c) \in PartStates
  BY <1>2 DEF RepairGun, PartStates
<1>4. /\ mech_RepairPart(c).mode = {} /\ ~mech_RepairPart(c).nuke
      /\ mech_RepairPart(c).data = 0 /\ mech_RepairPart(c).rest = c.rest
      /\ mech_RepairPart(c).worn = c.worn
  BY DEF mech_RepairPart, PartStates
<1>5. /\ RepairGun(c).mode = mech_RepairPart(c).mode /\ RepairGun(c).nuke = mech_RepairPart(c).nuke
      /\ RepairGun(c).data = mech_RepairPart(c).data /\ RepairGun(c).worn = {}
  BY <1>2 DEF RepairGun, PartStates
<1> QED
  BY <1>2, <1>3, <1>4, <1>5

LEMMA DriedTyped ==
    ASSUME NEW c \in PartStates
    PROVE  /\ Dried(c) \in PartStates /\ Dried(c).mode = c.mode \ {"disabled"}
           /\ Dried(c).nuke => c.nuke
           /\ Dried(c).worn = c.worn
           /\ Dried(c).data = c.data \/ Dried(c).data = 0
<1>1. CASE "disabled" \notin c.mode
  BY <1>1 DEF Dried, PartStates
<1>2. CASE "disabled" \in c.mode /\ c.mode \cap {"destroyed", "damaged"} = {}
  <2>1. c.mode = {"disabled"}
    BY <1>2 DEF PartStates
  <2>2. Dried(c) = mech_RepairPart(c)
    BY <1>2 DEF Dried
  <2> QED
    BY <2>1, <2>2, RepairTyped
<1>3. CASE "disabled" \in c.mode /\ c.mode \cap {"destroyed", "damaged"} # {}
  <2>1. Dried(c) = [c EXCEPT !.mode = c.mode \ {"disabled"}]
    BY <1>3 DEF Dried, PartStates
  <2> QED
    BY <2>1 DEF PartStates
<1> QED
  BY <1>1, <1>2, <1>3

LEMMA RazedTyped ==
    ASSUME NEW u \in UnitStates, NEW l \in Sections
    PROVE  /\ Razed(u, l) \in UnitStates
           /\ Razed(u, l).sect = [u.sect EXCEPT ![l] =
                [@ EXCEPT !.armor = 0, !.rear = 0, !.int = 0]]
           /\ Razed(u, l).part = [p \in Parts |->
                IF Loc(p) = l THEN Wreck(p, u.part[p]) ELSE u.part[p]]
<1> DEFINE s == [u.sect[l] EXCEPT !.armor = 0, !.rear = 0, !.int = 0]
           f == [p \in Parts |-> IF Loc(p) = l THEN Wreck(p, u.part[p]) ELSE u.part[p]]
<1>1. s \in SectStates
  BY SectOf DEF SectStates
<1>2. f \in [Parts -> PartStates]
  BY PartOf, WreckTyped
<1>3. Razed(u, l) = [u EXCEPT !.sect[l] = s, !.part = f]
  BY DEF Razed, UnitStates
<1> HIDE DEF s, f
<1>4. Razed(u, l) \in UnitStates /\ Razed(u, l).sect = [u.sect EXCEPT ![l] = s] /\ Razed(u, l).part = f
  <2> DEFINE v == Razed(u, l)
  <2>1. v = [u EXCEPT !.sect[l] = s, !.part = f]
    BY <1>3
  <2> HIDE DEF v
  <2>2. v \in UnitStates /\ v.sect = [u.sect EXCEPT ![l] = s] /\ v.part = f
    BY <1>1, <1>2, <2>1 DEF UnitStates
  <2> QED
    BY <2>2 DEF v
<1> QED
  BY <1>4 DEF s, f

LEMMA DestroySectionTyped ==
    ASSUME NEW u \in UnitStates, NEW l \in Sections
    PROVE  DestroySection(u, l) \in UnitStates
<1>1. "LARM" \in Sections
  BY HullAssumption
<1>2. ASSUME NEW v \in UnitStates, NEW m \in Sections
      PROVE  (IF SectIsDestroyed(v, m) THEN v ELSE Razed(v, m)) \in UnitStates
  BY RazedTyped
<1> QED
  BY <1>1, <1>2 DEF DestroySection

LEMMA ReAttachTyped ==
    ASSUME NEW u \in UnitStates, NEW l \in Sections
    PROVE  mech_ReAttach(u, l) \in UnitStates
<1> DEFINE s == [u.sect[l] EXCEPT !.flooded = FALSE, !.int = Hull[l].int]
<1>1. s \in SectStates
  <2>1. u.sect[l] \in SectStates
    BY SectOf
  <2>2. Hull[l].int \in Nat
    BY HullAssumption
  <2> QED
    BY <2>1, <2>2 DEF SectStates
<1>2. SectIsDestroyed(u, l) => mech_ReAttach(u, l) = [u EXCEPT !.sect[l] = s]
  BY DEF mech_ReAttach, UnitStates
<1> HIDE DEF s
<1> QED
  BY <1>1, <1>2, SectTyped DEF mech_ReAttach

LEMMA ReSealTyped ==
    ASSUME NEW u \in UnitStates, NEW l \in Sections
    PROVE  /\ mech_ReSeal(u, l) \in UnitStates
           /\ ~(SectIsDestroyed(u, l) \/ ~u.sect[l].flooded) =>
                /\ mech_ReSeal(u, l).sect = [u.sect EXCEPT ![l] = [@ EXCEPT !.flooded = FALSE]]
                /\ mech_ReSeal(u, l).part = [p \in Parts |->
                        IF Loc(p) = l THEN Dried(u.part[p]) ELSE u.part[p]]
<1> DEFINE s == [u.sect[l] EXCEPT !.flooded = FALSE]
           f == [p \in Parts |-> IF Loc(p) = l THEN Dried(u.part[p]) ELSE u.part[p]]
<1>1. s \in SectStates
  BY SectOf DEF SectStates
<1>2. f \in [Parts -> PartStates]
  BY PartOf, DriedTyped
<1>3. ~(SectIsDestroyed(u, l) \/ ~u.sect[l].flooded) =>
        mech_ReSeal(u, l) = [u EXCEPT !.sect[l] = s, !.part = f]
  BY DEF mech_ReSeal, UnitStates
<1>4. SectIsDestroyed(u, l) \/ ~u.sect[l].flooded => mech_ReSeal(u, l) = u
  BY DEF mech_ReSeal
<1> HIDE DEF s, f
<1>5. CASE ~(SectIsDestroyed(u, l) \/ ~u.sect[l].flooded)
  <2>1. /\ mech_ReSeal(u, l) \in UnitStates
        /\ mech_ReSeal(u, l).sect = [u.sect EXCEPT ![l] = s] /\ mech_ReSeal(u, l).part = f
    <3> DEFINE v == mech_ReSeal(u, l)
    <3>1. v = [u EXCEPT !.sect[l] = s, !.part = f]
      BY <1>3, <1>5
    <3> HIDE DEF v
    <3>2. v \in UnitStates /\ v.sect = [u.sect EXCEPT ![l] = s] /\ v.part = f
      BY <1>1, <1>2, <3>1 DEF UnitStates
    <3> QED
      BY <3>2 DEF v
  <2> QED
    BY <2>1 DEF s, f
<1> QED
  BY <1>4, <1>5

LEMMA RemoveSectionTyped ==
    ASSUME NEW u \in UnitStates, NEW l \in Sections, NEW extra, extra = 2 \/ extra = 3
    PROVE  event_mech_removesection(u, l, extra) \in UnitStates
<1> DEFINE s == u.sect[l]
           a == (2 * s.int) \div extra
           b == (2 * s.armor) \div extra
           c == s.int \div extra
<1>1. s.int \in Nat /\ s.armor \in Nat
  BY SectOf DEF SectStates
<1>2. a \in Nat /\ b \in Nat /\ c \in Nat
  <2> HIDE DEF s
  <2>1. CASE extra = 2
    BY <1>1, <2>1
  <2>2. CASE extra = 3
    BY <1>1, <2>2
  <2> QED
    BY <2>1, <2>2
<1> DEFINE v == Add(Add(Add(u, "internal", a), "armor", b), "electronic", c)
<1>3. event_mech_removesection(u, l, extra) = DestroySection(v, l)
  BY DEF event_mech_removesection
<1>4. "internal" \in Goods /\ "armor" \in Goods /\ "electronic" \in Goods
  BY DEF Goods
<1> HIDE DEF a, b, c
<1>5. v \in UnitStates
  BY <1>2, <1>4, AddTyped
<1> QED
  BY <1>3, <1>5, DestroySectionTyped

LEMMA ArmorTyped ==
    ASSUME NEW u \in UnitStates, NEW loc \in Sections \X {0, 8}
    PROVE  event_mech_repairarmor(u, loc) \in UnitStates
<1> DEFINE l == loc[1]
           m == Min({u.sect[l].rear + 1, Hull[l].rear})
           n == Min({u.sect[l].armor + 1, Hull[l].armor})
<1>1. l \in Sections
  OBVIOUS
<1>2. u.sect[l] \in SectStates /\ u.sect[l].rear + 1 \in Nat /\ u.sect[l].armor + 1 \in Nat
  BY <1>1, SectOf DEF SectStates
<1>3. Hull[l].rear \in Nat /\ Hull[l].armor \in Nat
  BY <1>1, HullAssumption
<1>4. m \in Nat /\ n \in Nat
  BY <1>2, <1>3, MinTwo
<1>5. event_mech_repairarmor(u, loc) = IF loc[2] = 8 THEN [u EXCEPT !.sect[l] = [@ EXCEPT !.rear = m]]
                                        ELSE [u EXCEPT !.sect[l] = [@ EXCEPT !.armor = n]]
  BY <1>1, <1>2 DEF event_mech_repairarmor, UnitStates
<1> HIDE DEF l, m, n
<1>6. [u.sect[l] EXCEPT !.rear = m] \in SectStates /\ [u.sect[l] EXCEPT !.armor = n] \in SectStates
  BY <1>2, <1>4 DEF SectStates
<1> QED
  BY <1>1, <1>5, <1>6, SectTyped

LEMMA InternalTyped ==
    ASSUME NEW u \in UnitStates, NEW l \in Sections, NEW n, n = Min({u.sect[l].int + 1, Hull[l].int})
    PROVE  /\ [u EXCEPT !.sect[l].int = Min({@ + 1, Hull[l].int})] \in UnitStates
           /\ [u EXCEPT !.sect[l].int = Min({@ + 1, Hull[l].int})].part = u.part
           /\ [u EXCEPT !.sect[l].int = Min({@ + 1, Hull[l].int})].sect
              = [u.sect EXCEPT ![l] = [@ EXCEPT !.int = n]]
<1>1. u.sect[l] \in SectStates /\ u.sect[l].int + 1 \in Nat
  BY SectOf DEF SectStates
<1>2. Hull[l].int \in Nat
  BY HullAssumption
<1>3. n \in Nat
  BY <1>1, <1>2, MinTwo
<1>4. [u EXCEPT !.sect[l].int = Min({@ + 1, Hull[l].int})] = [u EXCEPT !.sect[l] = [@ EXCEPT !.int = n]]
  BY <1>1 DEF UnitStates
<1>5. [u.sect[l] EXCEPT !.int = n] \in SectStates
  BY <1>1, <1>3 DEF SectStates
<1> QED
  BY <1>4, <1>5, SectTyped

LEMMA RemovedTyped ==
    ASSUME NEW u \in UnitStates, NEW p \in Parts, NEW extra
    PROVE  /\ event_mech_removed(u, p, extra) \in UnitStates
           /\ event_mech_removed(u, p, extra).sect = u.sect
           /\ event_mech_removed(u, p, extra).part = [u.part EXCEPT ![p] = Wreck(p, u.part[p])]
<1> DEFINE c == Wreck(p, u.part[p])
           n == IF extra = 2 THEN 1 ELSE 0
           v == [u EXCEPT !.part[p] = c]
<1>1. c \in PartStates
  BY PartOf, WreckTyped
<1>2. event_mech_removed(u, p, extra) = Add(v, Kind(p), n)
  BY DEF event_mech_removed, UnitStates
<1>3. n \in Nat /\ Kind(p) \in Goods
  BY HullAssumption DEF Kind, Goods
<1> HIDE DEF c, n
<1>4. v \in UnitStates /\ v.sect = u.sect /\ v.part = [u.part EXCEPT ![p] = c]
  BY <1>1, PartTyped
<1> HIDE DEF v
<1> QED
  BY <1>2, <1>3, <1>4, AddTyped DEF c

LEMMA ReloadTyped ==
    ASSUME NEW u \in UnitStates, NEW p \in Parts, NEW extra
    PROVE  /\ event_mech_reload(u, p, extra) \in UnitStates
           /\ event_mech_reload(u, p, extra).sect = u.sect
           /\ \E n \in 0..FULL :
                event_mech_reload(u, p, extra).part = [u.part EXCEPT ![p] = [@ EXCEPT !.data = n]]
<1>1. ASSUME NEW n \in 0..FULL
      PROVE  LET v == [u EXCEPT !.part[p].data = n]
             IN  /\ v \in UnitStates /\ v.sect = u.sect
                 /\ v.part = [u.part EXCEPT ![p] = [@ EXCEPT !.data = n]]
  <2> DEFINE c == [u.part[p] EXCEPT !.data = n]
  <2>1. c \in PartStates
    BY PartOf DEF PartStates
  <2>2. [u EXCEPT !.part[p].data = n] = [u EXCEPT !.part[p] = c]
    BY DEF UnitStates
  <2> HIDE DEF c
  <2>3. /\ [u EXCEPT !.part[p] = c] \in UnitStates /\ [u EXCEPT !.part[p] = c].sect = u.sect
        /\ [u EXCEPT !.part[p] = c].part = [u.part EXCEPT ![p] = c]
    BY <2>1, PartTyped
  <2> QED
    BY <2>2, <2>3 DEF c
<1>2. 0 \in 0..FULL /\ FULL \in 0..FULL
  BY DEF FULL
<1>3. CASE extra = 0
  <2>1. event_mech_reload(u, p, extra) = [u EXCEPT !.part[p].data = FULL]
    BY <1>3 DEF event_mech_reload
  <2> QED
    BY <1>1, <1>2, <2>1
<1>4. CASE extra = 1
  <2>1. event_mech_reload(u, p, extra) = [u EXCEPT !.part[p].data = 0]
    BY <1>4 DEF event_mech_reload
  <2> QED
    BY <1>1, <1>2, <2>1
<1>5. CASE extra # 0 /\ extra # 1
  <2> DEFINE v == [u EXCEPT !.part[p].data = 0]
  <2>1. event_mech_reload(u, p, extra) = Add(v, "ammo", 1)
    BY <1>5 DEF event_mech_reload
  <2>2. v \in UnitStates /\ v.sect = u.sect /\ v.part = [u.part EXCEPT ![p] = [@ EXCEPT !.data = 0]]
    BY <1>1, <1>2
  <2> HIDE DEF v
  <2>3. "ammo" \in Goods
    BY DEF Goods
  <2> QED
    BY <1>2, <2>1, <2>2, <2>3, AddTyped
<1> QED
  BY <1>3, <1>4, <1>5

LEMMA EnhCritTyped ==
    ASSUME NEW c \in PartStates, NEW n \in 0..LAST
    PROVE  /\ RepairEnhCrit(c, n) \in PartStates
           /\ RepairEnhCrit(c, n).mode \in {c.mode, c.mode \ {"damaged"}}
           /\ RepairEnhCrit(c, n).worn \subseteq c.worn /\ RepairEnhCrit(c, n).rest = c.rest
           /\ ~RepairEnhCrit(c, n).nuke /\ RepairEnhCrit(c, n).data = c.data
<1> DEFINE d == IF n = 0 THEN [c EXCEPT !.mode = c.mode \ {"damaged"}]
                         ELSE [c EXCEPT !.worn = c.worn \ {n}]
           e == [d EXCEPT !.nuke = FALSE]
<1>1. /\ d \in PartStates /\ d.mode \in {c.mode, c.mode \ {"damaged"}} /\ d.data = c.data
      /\ d.worn \subseteq c.worn /\ d.rest = c.rest
  <2>1. CASE n = 0
    <3>1. d = [c EXCEPT !.mode = c.mode \ {"damaged"}]
      BY <2>1
    <3> QED
      BY <3>1 DEF PartStates
  <2>2. CASE n # 0
    <3>1. d = [c EXCEPT !.worn = c.worn \ {n}]
      BY <2>2
    <3> QED
      BY <3>1 DEF PartStates
  <2> QED
    BY <2>1, <2>2
<1>2. RepairEnhCrit(c, n) = e
  <2>1. CASE n = 0
    BY <2>1 DEF RepairEnhCrit, PartStates
  <2>2. CASE n # 0
    BY <2>2 DEF RepairEnhCrit, PartStates
  <2> QED
    BY <2>1, <2>2
<1> HIDE DEF d
<1>3. e \in PartStates /\ e.mode = d.mode /\ e.data = d.data /\ e.worn = d.worn /\ e.rest = d.rest
  BY <1>1 DEF PartStates
<1>4. ~e.nuke
  BY <1>1 DEF PartStates
<1> HIDE DEF e
<1> QED
  BY <1>1, <1>2, <1>3, <1>4

\* What each job does to the unit, by its type.
LEMMA OutcomeByType ==
    ASSUME NEW u, NEW j, JobOK(j), j.fn # "very_fake_func"
    PROVE  /\ j.type = "SCRL" => Outcome(u, j) = event_mech_removesection(u, j.loc[1], j.extra)
           /\ j.type \in {"SCRG", "SCRP"} => Outcome(u, j) = event_mech_removed(u, j.pos, j.extra)
           /\ j.type = "FIX" => Outcome(u, j) = event_mech_repairarmor(u, j.loc)
           /\ j.type = "FIXI" =>
                Outcome(u, j) = [u EXCEPT !.sect[j.loc[1]].int = Min({@ + 1, Hull[j.loc[1]].int})]
           /\ j.type = "REAT" => Outcome(u, j) = mech_ReAttach(u, j.loc[1])
           /\ j.type = "RESE" => Outcome(u, j) = mech_ReSeal(u, j.loc[1])
           /\ j.type \in {"REPLG", "REPAP", "REPL"} =>
                \/ Outcome(u, j) = [u EXCEPT !.part[j.pos] = RepairGun(@)]
                \/ Outcome(u, j) = [u EXCEPT !.part[j.pos] = mech_RepairPart(@)]
           /\ j.type = "REPENHCRIT" => Outcome(u, j) = [u EXCEPT !.part[j.pos] = RepairEnhCrit(@, j.crit)]
           /\ j.type = "RELO" => Outcome(u, j) = event_mech_reload(u, j.pos, j.extra)
<1>1. Carries(j.type, j.fn)
  BY DEF JobOK
<1>2. j.type = "SCRL" => Outcome(u, j) = event_mech_removesection(u, j.loc[1], j.extra)
  BY <1>1 DEF Carries, Outcome
<1>3. j.type \in {"SCRG", "SCRP"} => Outcome(u, j) = event_mech_removed(u, j.pos, j.extra)
  BY <1>1 DEF Carries, Outcome
<1>4. j.type = "FIX" => Outcome(u, j) = event_mech_repairarmor(u, j.loc)
  BY <1>1 DEF Carries, Outcome
<1>5. j.type = "FIXI" =>
        Outcome(u, j) = [u EXCEPT !.sect[j.loc[1]].int = Min({@ + 1, Hull[j.loc[1]].int})]
  BY <1>1 DEF Carries, Outcome
<1>6. j.type = "REAT" => Outcome(u, j) = mech_ReAttach(u, j.loc[1])
  BY <1>1 DEF Carries, Outcome
<1>7. j.type = "RESE" => Outcome(u, j) = mech_ReSeal(u, j.loc[1])
  BY <1>1 DEF Carries, Outcome
<1>8. j.type \in {"REPLG", "REPAP", "REPL"} =>
        \/ Outcome(u, j) = [u EXCEPT !.part[j.pos] = RepairGun(@)]
        \/ Outcome(u, j) = [u EXCEPT !.part[j.pos] = mech_RepairPart(@)]
  BY <1>1 DEF Carries, Outcome
<1>9. j.type = "REPENHCRIT" => Outcome(u, j) = [u EXCEPT !.part[j.pos] = RepairEnhCrit(@, j.crit)]
  BY <1>1 DEF Carries, Outcome
<1>10. j.type = "RELO" => Outcome(u, j) = event_mech_reload(u, j.pos, j.extra)
  BY <1>1 DEF Carries, Outcome
<1> QED
  BY <1>2, <1>3, <1>4, <1>5, <1>6, <1>7, <1>8, <1>9, <1>10

LEMMA FakeOutcome ==
    ASSUME NEW u, NEW j, j.fn = "very_fake_func"
    PROVE  Outcome(u, j) = u
BY DEF Outcome

LEMMA JobPlace ==
    ASSUME NEW j, JobOK(j)
    PROVE  /\ j.loc \in Sections \X {0, 8} /\ j.loc[1] \in Sections /\ j.crit \in 0..LAST
           /\ j.type \in PartTypes => j.pos \in Parts
           /\ j.type \in JobTypes
BY DEF JobOK, Jobs

\* The part is changed to c.
LEMMA PartChanged ==
    ASSUME NEW u \in UnitStates, NEW p \in Parts
    PROVE  /\ [u EXCEPT !.part[p] = RepairGun(@)] = [u EXCEPT !.part[p] = RepairGun(u.part[p])]
           /\ [u EXCEPT !.part[p] = mech_RepairPart(@)] = [u EXCEPT !.part[p] = mech_RepairPart(u.part[p])]
           /\ \A n : [u EXCEPT !.part[p] = RepairEnhCrit(@, n)]
                        = [u EXCEPT !.part[p] = RepairEnhCrit(u.part[p], n)]
BY DEF UnitStates

LEMMA OutcomeTyped ==
    ASSUME NEW u \in UnitStates, NEW j, JobOK(j)
    PROVE  Outcome(u, j) \in UnitStates
<1> DEFINE v == Outcome(u, j)
           l == j.loc[1]
           p == j.pos
<1>1. /\ j.loc \in Sections \X {0, 8} /\ l \in Sections
      /\ j.type \in PartTypes => p \in Parts
      /\ j.type \in JobTypes
  BY JobPlace
<1>2. CASE j.fn = "very_fake_func"
  BY <1>2, FakeOutcome
<1>3. CASE j.fn # "very_fake_func" /\ j.type = "SCRL"
  <2>1. j.extra = 2 \/ j.extra = 3
    BY <1>3 DEF JobOK
  <2>8. v = event_mech_removesection(u, l, j.extra)
    BY <1>3, OutcomeByType
  <2>9. event_mech_removesection(u, l, j.extra) \in UnitStates
    BY <1>1, <2>1, RemoveSectionTyped
  <2> QED
    BY <2>8, <2>9
<1>4. CASE j.fn # "very_fake_func" /\ j.type = "FIX"
  <2>8. v = event_mech_repairarmor(u, j.loc)
    BY <1>4, OutcomeByType
  <2>9. event_mech_repairarmor(u, j.loc) \in UnitStates
    BY <1>1, ArmorTyped
  <2> QED
    BY <2>8, <2>9
<1>5. CASE j.fn # "very_fake_func" /\ j.type = "FIXI"
  <2>8. v = [u EXCEPT !.sect[l].int = Min({@ + 1, Hull[l].int})]
    BY <1>5, OutcomeByType
  <2>9. [u EXCEPT !.sect[l].int = Min({@ + 1, Hull[l].int})] \in UnitStates
    BY <1>1, InternalTyped
  <2> QED
    BY <2>8, <2>9
<1>6. CASE j.fn # "very_fake_func" /\ j.type = "REAT"
  <2>8. v = mech_ReAttach(u, l)
    BY <1>6, OutcomeByType
  <2>9. mech_ReAttach(u, l) \in UnitStates
    BY <1>1, ReAttachTyped
  <2> QED
    BY <2>8, <2>9
<1>7. CASE j.fn # "very_fake_func" /\ j.type = "RESE"
  <2>8. v = mech_ReSeal(u, l)
    BY <1>7, OutcomeByType
  <2>9. mech_ReSeal(u, l) \in UnitStates
    BY <1>1, ReSealTyped
  <2> QED
    BY <2>8, <2>9
<1>8. CASE j.fn # "very_fake_func" /\ j.type \in {"SCRG", "SCRP"}
  <2>1. p \in Parts
    BY <1>1, <1>8 DEF PartTypes, Mending
  <2>8. v = event_mech_removed(u, p, j.extra)
    BY <1>8, OutcomeByType
  <2>9. event_mech_removed(u, p, j.extra) \in UnitStates
    BY <1>1, <2>1, RemovedTyped
  <2> QED
    BY <2>8, <2>9
<1>9. CASE j.fn # "very_fake_func" /\ j.type = "RELO"
  <2>1. p \in Parts
    BY <1>1, <1>9 DEF PartTypes, Mending
  <2>8. v = event_mech_reload(u, p, j.extra)
    BY <1>9, OutcomeByType
  <2>9. event_mech_reload(u, p, j.extra) \in UnitStates
    BY <1>1, <2>1, ReloadTyped
  <2> QED
    BY <2>8, <2>9
<1>10. CASE j.fn # "very_fake_func" /\ j.type \in {"REPLG", "REPAP", "REPL", "REPENHCRIT"}
  <2>1. p \in Parts
    BY <1>1, <1>10 DEF PartTypes, Mending
  <2>2. u.part[p] \in PartStates /\ j.crit \in 0..LAST
    BY <2>1, PartOf, JobPlace
  <2>3. /\ RepairGun(u.part[p]) \in PartStates /\ mech_RepairPart(u.part[p]) \in PartStates
        /\ RepairEnhCrit(u.part[p], j.crit) \in PartStates
    BY <2>2, RepairTyped, EnhCritTyped
  <2>4. \/ v = [u EXCEPT !.part[p] = RepairGun(u.part[p])]
        \/ v = [u EXCEPT !.part[p] = mech_RepairPart(u.part[p])]
        \/ v = [u EXCEPT !.part[p] = RepairEnhCrit(u.part[p], j.crit)]
    BY <1>10, <2>1, OutcomeByType, PartChanged
  <2> QED
    BY <2>1, <2>3, <2>4, PartTyped
<1> QED
  BY <1>1, <1>2, <1>3, <1>4, <1>5, <1>6, <1>7, <1>8, <1>9, <1>10 DEF JobTypes

-----------------------------------------------------------------------------
\* The actions keep the jobs apart.

LEMMA FakePart ==
    ASSUME NEW type, NEW fn, NEW p, NEW extra
    PROVE  Fake(PartJob(type, fn, p, extra)) = PartJob(type, "very_fake_func", p, extra)
BY DEF Fake, PartJob, Job

LEMMA FakeSect ==
    ASSUME NEW type, NEW fn, NEW l, NEW extra
    PROVE  Fake(SectJob(type, fn, l, extra)) = SectJob(type, "very_fake_func", l, extra)
BY DEF Fake, SectJob, Job

LEMMA Started ==
    ASSUME power = "off", NEW settled \in UnitStates, NEW job, Start(settled, job)
    PROVE  TypeOK' /\ PowerOK' /\ jobs' = jobs \cup {job} /\ unit' = settled
BY DEF Start, TypeOK, PowerOK

\* A part whose damages are the same as before; bins may have been emptied.
SamePart(c, d, p) ==
    /\ d.mode = c.mode /\ d.worn = c.worn /\ d.nuke = c.nuke
    /\ d.data = c.data \/ IsAmmo(p)

\* A job that mends internals has something left to mend.
FixingOK(j) ==
    LET l == j.loc[1] IN ~Destroyed(l) /\ IntLack(l) >= 1 /\ j.extra <= IntLack(l)

\* A command mends and breaks nothing itself.
Quiet ==
    /\ unit'.sect = unit.sect
    /\ \A q \in Parts : SamePart(unit.part[q], unit'.part[q], q)
    /\ \A j \in jobs' \ jobs : j.type = "FIXI" => FixingOK(j)

NoneFixing == \A j \in jobs' \ jobs : j.type # "FIXI"

LEMMA QuietSame ==
    ASSUME unit'.sect = unit.sect, unit'.part = unit.part, NoneFixing
    PROVE  Quiet
BY DEF Quiet, SamePart, NoneFixing

\* A command that starts a job of a part, successful or failed.
LEMMA MendStarted ==
    ASSUME Exclusive, power = "off", NEW settled \in UnitStates,
           NEW type \in Mending, NEW fn \in JobFns, NEW p \in Parts, NEW extra \in Int,
           Carries(type, fn), ~SomeoneRepairing(p), ~SomeoneScrappingLoc(Front(Loc(p))),
           type = "RELO" => IsAmmo(p),
           type \in {"REPAP", "REPENHCRIT"} => ~SomeoneScrappingPart(p),
           \/ Start(settled, PartJob(type, fn, p, extra))
           \/ Start(settled, Fake(PartJob(type, fn, p, extra)))
    PROVE  Exclusive' /\ unit' = settled /\ NoneFixing
<1> DEFINE f == "very_fake_func"
<1>1. CASE Start(settled, PartJob(type, fn, p, extra))
  <2>1. TypeOK' /\ PowerOK' /\ unit' = settled /\ jobs' = jobs \cup {PartJob(type, fn, p, extra)}
    BY <1>1, Started
  <2>2. JobsOK' /\ Apart'
    BY <2>1, MendAdded DEF Exclusive
  <2>3. PartJob(type, fn, p, extra).type # "FIXI"
    BY DEF PartJob, Job, Mending
  <2> QED
    BY <2>1, <2>2, <2>3 DEF Exclusive, NoneFixing
<1>2. CASE Start(settled, Fake(PartJob(type, fn, p, extra)))
  <2>1. TypeOK' /\ PowerOK' /\ unit' = settled /\ jobs' = jobs \cup {PartJob(type, f, p, extra)}
    BY <1>2, Started, FakePart
  <2>2. f \in JobFns
    BY DEF JobFns
  <2>3. JobsOK' /\ Apart'
    BY <2>1, <2>2, MendAdded DEF Exclusive
  <2>4. PartJob(type, f, p, extra).type # "FIXI"
    BY DEF PartJob, Job, Mending
  <2> QED
    BY <2>1, <2>3, <2>4 DEF Exclusive, NoneFixing
<1> QED
  BY <1>1, <1>2

LEMMA ScrapStarted ==
    ASSUME Exclusive, power = "off", NEW settled \in UnitStates,
           NEW type \in {"SCRP", "SCRG"}, NEW fn \in JobFns, NEW p \in Parts, NEW extra \in Int,
           fn = "very_fake_func" \/ Carries(type, fn), MayRemove(p),
           Start(settled, PartJob(type, fn, p, extra))
    PROVE  Exclusive' /\ unit' = settled /\ NoneFixing
<1>1. TypeOK' /\ PowerOK' /\ unit' = settled /\ jobs' = jobs \cup {PartJob(type, fn, p, extra)}
  BY Started
<1>2. ~SomeoneRepairing(p) /\ ~SomeoneScrappingPart(p)
  BY DEF MayRemove, CanScrapPart
<1>3. JobsOK' /\ Apart'
  BY <1>1, <1>2, ScrapAdded DEF Exclusive
<1>4. PartJob(type, fn, p, extra).type # "FIXI"
  BY DEF PartJob, Job
<1> QED
  BY <1>1, <1>3, <1>4 DEF Exclusive, NoneFixing

LEMMA SectStarted ==
    ASSUME Exclusive, power = "off", NEW settled \in UnitStates,
           NEW type \in {"FIX", "FIXI", "SCRL", "REAT", "RESE"},
           NEW fn \in JobFns, NEW loc \in Sections \X {0, 8}, NEW extra \in Int,
           fn = "very_fake_func" \/ Carries(type, fn),
           type = "FIX" \/ \E l \in Sections : loc = Front(l),
           type = "SCRL" => /\ extra \in {2, 3} /\ loc # Front("CTORSO")
                            /\ ~AtLoc({"REPL", "RELO"}, loc),
           type \in FrontTypes => ~AtLoc(FrontTypes, loc),
           type = "REAT" => ~AtLoc({"REAT"}, loc),
           type = "RESE" => ~AtLoc({"RESE"}, loc),
           Start(settled, Job(type, fn, loc, None, extra))
    PROVE  /\ Exclusive' /\ unit' = settled
           /\ \A k \in jobs' \ jobs : k.type = type /\ k.loc = loc /\ k.extra = extra
<1>1. TypeOK' /\ PowerOK' /\ unit' = settled /\ jobs' = jobs \cup {Job(type, fn, loc, None, extra)}
  BY Started
<1>2. JobsOK' /\ Apart'
  BY <1>1, SectAdded DEF Exclusive
<1>3. \A k \in jobs' \ jobs : k = Job(type, fn, loc, None, extra)
  BY <1>1
<1> QED
  BY <1>1, <1>2, <1>3 DEF Exclusive, Job

LEMMA UnitTyped == Exclusive => unit \in UnitStates
BY DEF Exclusive, TypeOK

LEMMA RemoveGunKeeps ==
    ASSUME Exclusive, power = "off", NEW p \in Parts, tech_removegun(p)
    PROVE  Exclusive' /\ Quiet
<1>1. "removegun" \in JobFns /\ "very_fake_func" \in JobFns /\ Carries("SCRG", "removegun") /\ 2 \in Int
  BY DEF JobFns, Carries
<1>2. MayRemove(p)
  BY DEF tech_removegun
<1>3. \/ Start(unit, PartJob("SCRG", "removegun", p, 2))
      \/ Start(unit, PartJob("SCRG", "very_fake_func", p, 2))
  BY FakePart DEF tech_removegun
<1> QED
  BY <1>1, <1>2, <1>3, ScrapStarted, UnitTyped, QuietSame

LEMMA RemovePartKeeps ==
    ASSUME Exclusive, power = "off", NEW p \in Parts, tech_removepart(p)
    PROVE  Exclusive' /\ Quiet
<1>1. /\ "removepart" \in JobFns /\ "very_fake_func" \in JobFns
      /\ Carries("SCRP", "removepart") /\ 2 \in Int /\ 3 \in Int
  BY DEF JobFns, Carries
<1>2. MayRemove(p)
  BY DEF tech_removepart
<1>3. \/ Start(unit, PartJob("SCRP", "removepart", p, 2))
      \/ Start(unit, PartJob("SCRP", "very_fake_func", p, 3))
  BY FakePart DEF tech_removepart
<1> QED
  BY <1>1, <1>2, <1>3, ScrapStarted, UnitTyped, QuietSame

LEMMA FrontPlace ==
    ASSUME NEW l \in Sections
    PROVE  Front(l) \in Sections \X {0, 8} /\ Rear(l) \in Sections \X {0, 8}
BY DEF Front, Rear

LEMMA RemoveSectionKeeps ==
    ASSUME Exclusive, power = "off", NEW l \in Sections, tech_removesection(l)
    PROVE  Exclusive' /\ Quiet
<1>1. PICK mod \in {2, 3} : Start(unit, Job("SCRL", "removesection", Front(l), None, mod))
  BY DEF tech_removesection, SectJob
<1>2. ~AtLoc({"REPL", "RELO"}, Front(l)) /\ ~AtLoc(FrontTypes, Front(l))
  BY DEF tech_removesection, MayRemoveSection, CanScrapLoc, SomeoneFixing, SomeoneFixingA,
         SomeoneFixingI, SomeoneScrappingLoc, AtLoc, FrontTypes
<1>3. Front(l) # Front("CTORSO")
  BY DEF tech_removesection, MayRemoveSection, Invalid_Scrap_Path, Front
<1>4. "removesection" \in JobFns /\ Carries("SCRL", "removesection") /\ mod \in Int
  BY DEF JobFns, Carries
<1>5. Exclusive' /\ unit' = unit /\ \A k \in jobs' \ jobs : k.type = "SCRL"
  BY <1>1, <1>2, <1>3, <1>4, FrontPlace, UnitTyped, SectStarted
<1> QED
  BY <1>5, QuietSame DEF NoneFixing

LEMMA SoundPlace ==
    ASSUME NEW p \in Parts, Sound(p)
    PROVE  ~SomeoneScrappingLoc(Front(Loc(p)))
BY DEF Sound

LEMMA ReplaceGunKeeps ==
    ASSUME Exclusive, power = "off", NEW p \in Parts, tech_replacegun(p)
    PROVE  Exclusive' /\ Quiet
<1> DEFINE cost == [g \in {Kind(p)} |-> 1]
<1>1. MayReplaceGun(p) /\ Affords(cost)
  BY DEF tech_replacegun
<1>2. ~SomeoneRepairing(p) /\ ~SomeoneScrappingLoc(Front(Loc(p)))
  BY <1>1 DEF MayReplaceGun, Sound
<1>3. Kind(p) \in Goods
  BY HullAssumption DEF Kind, Goods
<1>4. DOMAIN cost \subseteq Goods /\ \A g \in DOMAIN cost : cost[g] \in Int
  BY <1>3
<1>5. \/ Start(Paid(cost), PartJob("REPLG", "replacegun", p, 0))
      \/ \E saved \in 0..1 : Start(Add(Paid(cost), Kind(p), saved), Fake(PartJob("REPLG", "replacegun", p, 0)))
  BY DEF tech_replacegun
<1> HIDE DEF cost
<1>6. /\ Paid(cost) \in UnitStates /\ Paid(cost).sect = unit.sect /\ Paid(cost).part = unit.part
  BY <1>1, <1>4, PaidTyped DEF Exclusive, sect, part
<1>8. ASSUME NEW saved \in 0..1
      PROVE  LET w == Add(Paid(cost), Kind(p), saved)
             IN  w \in UnitStates /\ w.sect = unit.sect /\ w.part = unit.part
  BY <1>3, <1>6, AddTyped
<1>7. "REPLG" \in Mending /\ "replacegun" \in JobFns /\ Carries("REPLG", "replacegun") /\ 0 \in Int
  BY DEF JobFns, Carries, Mending
<1>9. CASE Start(Paid(cost), PartJob("REPLG", "replacegun", p, 0))
  BY <1>2, <1>6, <1>7, <1>9, MendStarted, QuietSame
<1>10. ASSUME NEW saved \in 0..1,
              Start(Add(Paid(cost), Kind(p), saved), Fake(PartJob("REPLG", "replacegun", p, 0)))
       PROVE  Exclusive' /\ Quiet
  BY <1>2, <1>7, <1>8, <1>10, MendStarted, QuietSame
<1> QED
  BY <1>5, <1>9, <1>10

LEMMA RepairGunKeeps ==
    ASSUME Exclusive, power = "off", NEW p \in Parts, tech_repairgun(p)
    PROVE  Exclusive' /\ Quiet
<1> DEFINE n == IF PartIsDestroyed(p) THEN 3 ELSE 1
           cost == [electronic |-> n, internal |-> n]
           paid == Paid(cost)
           r == IF PartIsDestroyed(p) THEN "gone" ELSE paid.part[p].rest
           botched == [paid EXCEPT !.part[p].rest = r]
<1>1. MayRepairGun(p) /\ Affords(cost)
  BY DEF tech_repairgun
<1>2. ~SomeoneRepairing(p) /\ ~SomeoneScrappingLoc(Front(Loc(p))) /\ ~SomeoneScrappingPart(p)
  BY <1>1 DEF MayRepairGun, Sound
<1>3. DOMAIN cost \subseteq Goods /\ \A g \in DOMAIN cost : cost[g] \in Int
  <2> HIDE DEF n
  <2>1. n \in Int
    BY DEF n
  <2> QED
    BY <2>1 DEF Goods
<1>4. paid \in UnitStates /\ paid.sect = unit.sect /\ paid.part = unit.part
  <2> HIDE DEF cost
  <2> QED
    BY <1>1, <1>3, PaidTyped DEF Exclusive, sect, part
<1>5. \/ Start(paid, PartJob("REPAP", "repairgun", p, 0))
      \/ Start([paid EXCEPT !.part[p].rest = IF PartIsDestroyed(p) THEN "gone" ELSE @],
               Fake(PartJob("REPAP", "repairgun", p, 0)))
  BY DEF tech_repairgun
<1> HIDE DEF paid
<1>6. [paid EXCEPT !.part[p].rest = IF PartIsDestroyed(p) THEN "gone" ELSE @] = botched
  BY <1>4 DEF UnitStates
<1>7. /\ botched \in UnitStates /\ botched.sect = unit.sect
      /\ \A q \in Parts : SamePart(unit.part[q], botched.part[q], q)
  <2>1. paid.part[p] \in PartStates
    BY <1>4, PartOf
  <2>2. r \in {"ok", "broken", "gone"}
    BY <2>1 DEF PartStates
  <2> HIDE DEF r
  <2>3. [paid.part[p] EXCEPT !.rest = r] \in PartStates
    BY <2>1, <2>2 DEF PartStates
  <2>4. botched = [paid EXCEPT !.part[p] = [paid.part[p] EXCEPT !.rest = r]]
    BY <1>4 DEF UnitStates
  <2>5. botched \in UnitStates /\ botched.sect = paid.sect
    BY <1>4, <2>3, <2>4, PartTyped
  <2>6. botched.part = [paid.part EXCEPT ![p] = [paid.part[p] EXCEPT !.rest = r]]
    BY <1>4, <2>3, <2>4, PartTyped
  <2>7. paid.part \in [Parts -> PartStates]
    BY <1>4 DEF UnitStates
  <2> HIDE DEF botched
  <2>8. ASSUME NEW q \in Parts
        PROVE  SamePart(unit.part[q], botched.part[q], q)
    <3>1. CASE q = p
      <4>1. botched.part[q] = [paid.part[q] EXCEPT !.rest = r]
        BY <2>6, <2>7, <3>1
      <4> QED
        BY <1>4, <2>7, <4>1 DEF SamePart, PartStates
    <3>2. CASE q # p
      BY <1>4, <2>6, <2>7, <3>2 DEF SamePart
    <3> QED
      BY <3>1, <3>2
  <2> QED
    BY <1>4, <2>5, <2>8
<1>8. "REPAP" \in Mending /\ "repairgun" \in JobFns /\ Carries("REPAP", "repairgun") /\ 0 \in Int
  BY DEF JobFns, Carries, Mending
<1> HIDE DEF botched
<1>9. CASE Start(paid, PartJob("REPAP", "repairgun", p, 0))
  BY <1>2, <1>4, <1>8, <1>9, MendStarted, QuietSame
<1>10. CASE Start(botched, Fake(PartJob("REPAP", "repairgun", p, 0)))
  <2>1. Exclusive' /\ unit' = botched /\ NoneFixing
    BY <1>2, <1>7, <1>8, <1>10, MendStarted
  <2> QED
    BY <1>7, <2>1 DEF Quiet, NoneFixing
<1> QED
  BY <1>5, <1>6, <1>9, <1>10

LEMMA CritStarts ==
    ASSUME NEW p \in Parts, NEW n \in 0..LAST, tech_fixenhcrit(p, n)
    PROVE  LET cost == [electronic |-> 1]
           IN  /\ MayFixEnhCrit(p, n) /\ Affords(cost)
               /\ \E fn \in {"repairenhcrit", "very_fake_func"} :
                     Start(Paid(cost), CritJob("REPENHCRIT", fn, p, n))
<1>1. Fake(CritJob("REPENHCRIT", "repairenhcrit", p, n))
         = CritJob("REPENHCRIT", "very_fake_func", p, n)
  <2> DEFINE real == CritJob("REPENHCRIT", "repairenhcrit", p, n)
             fake == CritJob("REPENHCRIT", "very_fake_func", p, n)
  <2>1. real = [type |-> "REPENHCRIT", fn |-> "repairenhcrit", loc |-> Front(Loc(p)), pos |-> p,
                crit |-> n, extra |-> 0]
    BY DEF CritJob, PartJob, Job
  <2>2. fake = [type |-> "REPENHCRIT", fn |-> "very_fake_func", loc |-> Front(Loc(p)), pos |-> p,
                crit |-> n, extra |-> 0]
    BY DEF CritJob, PartJob, Job
  <2> HIDE DEF real, fake
  <2>3. [real EXCEPT !.fn = "very_fake_func"] = fake
    BY <2>1, <2>2
  <2> QED
    BY <2>3 DEF Fake, real, fake
<1> QED
  BY <1>1 DEF tech_fixenhcrit

LEMMA FixEnhCritKeeps ==
    ASSUME Exclusive, power = "off", NEW p \in Parts, NEW n \in 0..LAST, tech_fixenhcrit(p, n)
    PROVE  Exclusive' /\ Quiet
<1> DEFINE cost == [electronic |-> 1]
<1>1. MayFixEnhCrit(p, n) /\ Affords(cost)
  BY CritStarts
<1>2. ~AtCrit(Mending, p, n) /\ ~AtCrit(Scrapping, p, n)
  BY <1>1 DEF MayFixEnhCrit
<1>3. DOMAIN cost \subseteq Goods /\ \A g \in DOMAIN cost : cost[g] \in Int
  BY DEF Goods
<1>4. PICK fn \in {"repairenhcrit", "very_fake_func"} :
              Start(Paid(cost), CritJob("REPENHCRIT", fn, p, n))
  BY CritStarts
<1> HIDE DEF cost
<1>5. Paid(cost) \in UnitStates /\ Paid(cost).sect = unit.sect /\ Paid(cost).part = unit.part
  BY <1>1, <1>3, PaidTyped DEF Exclusive, sect, part
<1> DEFINE job == CritJob("REPENHCRIT", fn, p, n)
<1>6. /\ TypeOK' /\ PowerOK' /\ unit' = Paid(cost)
      /\ jobs' = jobs \cup {CritJob("REPENHCRIT", fn, p, n)}
  BY <1>4, <1>5, Started
<1>7. JobsOK' /\ Apart'
  BY <1>2, <1>6, CritAdded DEF Exclusive
<1>8. job.type # "FIXI"
  BY CritJobFields
<1> HIDE DEF job
<1>9. NoneFixing
  BY <1>6, <1>8 DEF NoneFixing, job
<1> QED
  BY <1>5, <1>6, <1>7, <1>9, QuietSame DEF Exclusive

LEMMA ReplacePartKeeps ==
    ASSUME Exclusive, power = "off", NEW p \in Parts, tech_replacepart(p)
    PROVE  Exclusive' /\ Quiet
<1> DEFINE cost == [g \in {"part"} \ (IF IsAmmo(p) THEN {"part"} ELSE {}) |-> 1]
<1>1. MayReplacePart(p) /\ Affords(cost)
  BY DEF tech_replacepart
<1>2. ~SomeoneRepairing(p) /\ ~SomeoneScrappingLoc(Front(Loc(p)))
  BY <1>1 DEF MayReplacePart, Sound
<1>3. DOMAIN cost \subseteq Goods /\ \A g \in DOMAIN cost : cost[g] \in Int
  BY DEF Goods
<1>4. \/ Start(Paid(cost), PartJob("REPL", "repairpart", p, 0))
      \/ Start(Paid(cost), Fake(PartJob("REPL", "repairpart", p, 0)))
  BY DEF tech_replacepart
<1> HIDE DEF cost
<1>5. Paid(cost) \in UnitStates /\ Paid(cost).sect = unit.sect /\ Paid(cost).part = unit.part
  BY <1>1, <1>3, PaidTyped DEF Exclusive, sect, part
<1>6. "REPL" \in Mending /\ "repairpart" \in JobFns /\ Carries("REPL", "repairpart") /\ 0 \in Int
  BY DEF JobFns, Carries, Mending
<1> QED
  BY <1>2, <1>4, <1>5, <1>6, MendStarted, QuietSame

\* The unit with the bin p emptied, if an ammo type was named.
Emptied(u, p, typed) == [u EXCEPT !.part[p].data = IF typed THEN 0 ELSE @]

LEMMA EmptiedTyped ==
    ASSUME NEW u \in UnitStates, NEW p \in Parts, NEW typed \in BOOLEAN
    PROVE  /\ Emptied(u, p, typed) \in UnitStates
           /\ Emptied(u, p, typed).sect = u.sect
           /\ \A q \in Parts : q # p => Emptied(u, p, typed).part[q] = u.part[q]
           /\ Emptied(u, p, typed).part[p].mode = u.part[p].mode
           /\ Emptied(u, p, typed).part[p].worn = u.part[p].worn
           /\ Emptied(u, p, typed).part[p].nuke = u.part[p].nuke
<1> DEFINE n == IF typed THEN 0 ELSE u.part[p].data
           c == [u.part[p] EXCEPT !.data = n]
<1>1. u.part[p] \in PartStates /\ u.part \in [Parts -> PartStates]
  BY PartOf DEF UnitStates
<1>2. n \in 0..FULL
  BY <1>1 DEF PartStates, FULL
<1>3. Emptied(u, p, typed) = [u EXCEPT !.part[p] = c]
  BY DEF UnitStates, Emptied
<1> HIDE DEF n
<1>4. c \in PartStates /\ c.mode = u.part[p].mode
  BY <1>1, <1>2 DEF PartStates
<1>5. c.nuke = u.part[p].nuke /\ c.worn = u.part[p].worn
  BY <1>1, <1>2 DEF PartStates
<1> HIDE DEF c
<1>6. /\ [u EXCEPT !.part[p] = c] \in UnitStates /\ [u EXCEPT !.part[p] = c].sect = u.sect
      /\ [u EXCEPT !.part[p] = c].part = [u.part EXCEPT ![p] = c]
  BY <1>4, PartTyped
<1>7. /\ \A q \in Parts : q # p => [u.part EXCEPT ![p] = c][q] = u.part[q]
      /\ [u.part EXCEPT ![p] = c][p] = c
  BY <1>1
<1> QED
  BY <1>3, <1>4, <1>5, <1>6, <1>7

LEMMA ReloadKeeps ==
    ASSUME Exclusive, power = "off", NEW p \in Parts, tech_reload(p)
    PROVE  Exclusive' /\ Quiet
<1> DEFINE cost == [ammo |-> 1]
           job == PartJob("RELO", "reload", p, 0)
<1>1. MayReload(p)
  BY DEF tech_reload
<1>2. ~SomeoneRepairing(p) /\ ~SomeoneScrappingLoc(Front(Loc(p))) /\ IsAmmo(p)
  BY <1>1 DEF MayReload, MayHandleAmmo, Sound
<1>3. DOMAIN cost \subseteq Goods /\ \A g \in DOMAIN cost : cost[g] \in Int
  BY DEF Goods
<1>4. PICK typed \in BOOLEAN :
        \/ Affords(cost) /\ (Start(Emptied(Paid(cost), p, typed), job) \/ Start(Emptied(Paid(cost), p, typed), Fake(job)))
        \/ unit' = Emptied(unit, p, typed) /\ UNCHANGED <<jobs, power>>
  BY DEF tech_reload, Emptied
<1>5. ASSUME NEW u \in UnitStates, u.sect = unit.sect, u.part = unit.part
      PROVE  /\ Emptied(u, p, typed) \in UnitStates /\ Emptied(u, p, typed).sect = unit.sect
             /\ \A q \in Parts : SamePart(unit.part[q], Emptied(u, p, typed).part[q], q)
  <2>1. Emptied(u, p, typed) \in UnitStates /\ Emptied(u, p, typed).sect = u.sect
    BY EmptiedTyped
  <2>2. ASSUME NEW q \in Parts
        PROVE  SamePart(u.part[q], Emptied(u, p, typed).part[q], q)
    <3>1. CASE q = p
      <4>1. /\ Emptied(u, p, typed).part[p].mode = u.part[p].mode
            /\ Emptied(u, p, typed).part[p].worn = u.part[p].worn
            /\ Emptied(u, p, typed).part[p].nuke = u.part[p].nuke
        BY EmptiedTyped
      <4> QED
        BY <1>2, <3>1, <4>1 DEF SamePart
    <3>2. CASE q # p
      BY <3>2, EmptiedTyped DEF SamePart
    <3> QED
      BY <3>1, <3>2
  <2> QED
    BY <1>5, <2>1, <2>2
<1> HIDE DEF cost
<1>6. "RELO" \in Mending /\ "reload" \in JobFns /\ Carries("RELO", "reload") /\ 0 \in Int
  BY DEF JobFns, Carries, Mending
<1>7. CASE Affords(cost) /\ (Start(Emptied(Paid(cost), p, typed), job) \/ Start(Emptied(Paid(cost), p, typed), Fake(job)))
  <2>1. Paid(cost) \in UnitStates /\ Paid(cost).sect = unit.sect /\ Paid(cost).part = unit.part
    BY <1>3, <1>7, PaidTyped DEF Exclusive, sect, part
  <2> DEFINE w == Emptied(Paid(cost), p, typed)
  <2>2. w \in UnitStates /\ w.sect = unit.sect /\ \A q \in Parts : SamePart(unit.part[q], w.part[q], q)
    BY <1>5, <2>1
  <2> HIDE DEF w, job
  <2>3. Start(w, job) \/ Start(w, Fake(job))
    BY <1>7 DEF w
  <2>4. Exclusive' /\ unit' = w /\ NoneFixing
    BY <1>2, <1>6, <2>2, <2>3, MendStarted DEF job
  <2> QED
    BY <2>2, <2>4 DEF Quiet, NoneFixing
<1>8. CASE unit' = Emptied(unit, p, typed) /\ UNCHANGED <<jobs, power>>
  <2>1. unit \in UnitStates
    BY UnitTyped
  <2>2. /\ unit' \in UnitStates /\ unit'.sect = unit.sect
        /\ \A q \in Parts : SamePart(unit.part[q], unit'.part[q], q)
    BY <1>5, <1>8, <2>1
  <2>3. Quiet
    BY <1>8, <2>2 DEF Quiet
  <2> QED
    BY <1>8, <2>2, <2>3 DEF Exclusive, TypeOK, JobsOK, Apart, PowerOK
<1> QED
  BY <1>4, <1>7, <1>8

LEMMA UnloadKeeps ==
    ASSUME Exclusive, power = "off", NEW p \in Parts, tech_unload(p)
    PROVE  Exclusive' /\ Quiet
<1> DEFINE n == IF part[p].data = FULL THEN 2 ELSE 1
<1>1. MayUnload(p) /\ Start(unit, PartJob("RELO", "reload", p, n))
  BY DEF tech_unload
<1>2. ~SomeoneRepairing(p) /\ ~SomeoneScrappingLoc(Front(Loc(p))) /\ IsAmmo(p)
  BY <1>1 DEF MayUnload, MayHandleAmmo, Sound
<1>3. n \in Int
  OBVIOUS
<1> HIDE DEF n
<1>4. "RELO" \in Mending /\ "reload" \in JobFns /\ Carries("RELO", "reload")
  BY DEF JobFns, Carries, Mending
<1> QED
  BY <1>1, <1>2, <1>3, <1>4, UnitTyped, MendStarted, QuietSame

LEMMA PortionBounds ==
    ASSUME NEW n \in Nat, NEW percents \in SUBSET (5..94), NEW m \in Portion(percents, n)
    PROVE  m \in Nat /\ (n > 0 => m < n) /\ (n > 1 => m > 0)
<1>1. PICK pc \in percents :
        m = LET t == (pc * n) \div 100
                k == IF t = 0 THEN 1 ELSE t
            IN  IF k = n THEN n - 1 ELSE k
  BY DEF Portion
<1> DEFINE t == (pc * n) \div 100
<1>2. pc \in 5..94
  OBVIOUS
<1>3. pc * n \in Nat /\ pc * n <= 94 * n
  BY <1>2
<1>4. t \in Nat /\ t <= n
  <2> DEFINE x == pc * n
  <2> HIDE DEF x
  <2>1. x \in Nat /\ x <= 94 * n
    BY <1>3 DEF x
  <2>2. x \div 100 \in Nat /\ x \div 100 <= n
    BY <2>1
  <2> QED
    BY <2>2 DEF x
<1>5. m = IF (IF t = 0 THEN 1 ELSE t) = n THEN n - 1 ELSE (IF t = 0 THEN 1 ELSE t)
  BY <1>1
<1> HIDE DEF t
<1> QED
  BY <1>4, <1>5

LEMMA PatchedBounds ==
    ASSUME NEW n \in Nat, n > 0, NEW m \in Patched(n)
    PROVE  m \in Nat /\ m <= n
<1>1. 5..44 \cup 55..94 \in SUBSET (5..94)
  OBVIOUS
<1>2. CASE m = n
  BY <1>2
<1>3. CASE m \in Portion(5..44 \cup 55..94, n)
  BY <1>1, <1>3, PortionBounds
<1> QED
  BY <1>2, <1>3 DEF Patched

-----------------------------------------------------------------------------
\* What the end of a job does to one section and to one part.

Bounded(u) ==
    \A l \in Sections : /\ u.sect[l].armor <= Hull[l].armor
                        /\ u.sect[l].rear <= Hull[l].rear
                        /\ u.sect[l].int <= Hull[l].int

\* Section l of u and of v are the same, and so are their parts.
SameSect(u, v, l) ==
    v.sect[l] = u.sect[l] /\ \A p \in Parts : Loc(p) = l => v.part[p] = u.part[p]

\* Section l is gone in v, with all parts.
SectRazed(u, v, l) ==
    /\ v.sect[l].armor = 0 /\ v.sect[l].rear = 0 /\ v.sect[l].int = 0
    /\ v.sect[l].flooded = u.sect[l].flooded
    /\ \A p \in Parts : Loc(p) = l => v.part[p] = Wreck(p, u.part[p])

LEMMA RazedEffect ==
    ASSUME NEW u \in UnitStates, NEW l \in Sections, NEW m \in Sections
    PROVE  IF m = l THEN SectRazed(u, Razed(u, l), m) ELSE SameSect(u, Razed(u, l), m)
<1> DEFINE v == Razed(u, l)
<1>1. /\ v.sect = [u.sect EXCEPT ![l] = [@ EXCEPT !.armor = 0, !.rear = 0, !.int = 0]]
      /\ v.part = [p \in Parts |-> IF Loc(p) = l THEN Wreck(p, u.part[p]) ELSE u.part[p]]
  BY RazedTyped
<1>2. u.sect \in [Sections -> SectStates]
  BY DEF UnitStates
<1> HIDE DEF v
<1>3. CASE m = l
  <2>1. v.sect[m] = [u.sect[m] EXCEPT !.armor = 0, !.rear = 0, !.int = 0]
    BY <1>1, <1>2, <1>3
  <2>2. u.sect[m] \in SectStates
    BY <1>2
  <2>3. /\ v.sect[m].armor = 0 /\ v.sect[m].rear = 0 /\ v.sect[m].int = 0
        /\ v.sect[m].flooded = u.sect[m].flooded
    BY <2>1, <2>2 DEF SectStates
  <2>4. \A p \in Parts : Loc(p) = m => v.part[p] = Wreck(p, u.part[p])
    BY <1>1, <1>3
  <2> QED
    BY <1>3, <2>3, <2>4 DEF SectRazed, v
<1>4. CASE m # l
  <2>1. v.sect[m] = u.sect[m]
    BY <1>1, <1>2, <1>4
  <2>2. \A p \in Parts : Loc(p) = m => v.part[p] = u.part[p]
    BY <1>1, <1>4
  <2> QED
    BY <1>4, <2>1, <2>2 DEF SameSect, v
<1> QED
  BY <1>3, <1>4

LEMMA DestroySectionEffect ==
    ASSUME NEW u \in UnitStates, NEW l \in Sections, NEW m \in Sections
    PROVE  LET v == DestroySection(u, l)
           IN  \/ SameSect(u, v, m)
               \/ (m = l \/ (l = "LTORSO" /\ m = "LARM")) /\ SectRazed(u, v, m)
<1> DEFINE hurt(w, k) == IF SectIsDestroyed(w, k) THEN w ELSE Razed(w, k)
           v == DestroySection(u, l)
<1>1. ASSUME NEW w \in UnitStates, NEW k \in Sections
      PROVE  /\ hurt(w, k) \in UnitStates
             /\ SameSect(w, hurt(w, k), m) \/ (m = k /\ SectRazed(w, hurt(w, k), m))
  <2>1. CASE SectIsDestroyed(w, k)
    BY <2>1 DEF SameSect
  <2>2. CASE ~SectIsDestroyed(w, k)
    BY <2>2, RazedTyped, RazedEffect
  <2> QED
    BY <2>1, <2>2
<1>2. "LARM" \in Sections
  BY HullAssumption
<1>3. v = IF l = "LTORSO" /\ ~SectIsDestroyed(u, l) THEN hurt(hurt(u, l), "LARM") ELSE hurt(u, l)
  BY DEF DestroySection
<1> HIDE DEF hurt, v
<1>4. CASE l = "LTORSO" /\ ~SectIsDestroyed(u, l)
  <2> DEFINE w == hurt(u, l)
  <2>1. w \in UnitStates /\ (SameSect(u, w, m) \/ (m = l /\ SectRazed(u, w, m)))
    BY <1>1
  <2>2. v = hurt(w, "LARM")
    BY <1>3, <1>4
  <2> HIDE DEF w
  <2>3. SameSect(w, v, m) \/ (m = "LARM" /\ SectRazed(w, v, m))
    BY <1>1, <1>2, <2>1, <2>2
  <2>4. CASE m = "LARM"
    <3>1. SameSect(u, w, m)
      BY <1>4, <2>1, <2>4
    <3> QED
      BY <1>4, <2>3, <2>4, <3>1 DEF SameSect, SectRazed, v
  <2>5. CASE m # "LARM"
    BY <2>1, <2>3, <2>5 DEF SameSect, SectRazed, v
  <2> QED
    BY <2>4, <2>5
<1>5. CASE ~(l = "LTORSO" /\ ~SectIsDestroyed(u, l))
  BY <1>1, <1>3, <1>5 DEF v
<1> QED
  BY <1>4, <1>5

LEMMA RemoveSectionEffect ==
    ASSUME NEW u \in UnitStates, NEW l \in Sections, NEW m \in Sections,
           NEW extra, extra = 2 \/ extra = 3
    PROVE  LET v == event_mech_removesection(u, l, extra)
           IN  \/ SameSect(u, v, m)
               \/ (m = l \/ (l = "LTORSO" /\ m = "LARM")) /\ SectRazed(u, v, m)
<1> DEFINE s == u.sect[l]
           a == (2 * s.int) \div extra
           b == (2 * s.armor) \div extra
           c == s.int \div extra
<1>1. s.int \in Nat /\ s.armor \in Nat
  BY SectOf DEF SectStates
<1>2. a \in Nat /\ b \in Nat /\ c \in Nat
  <2> HIDE DEF s
  <2>1. CASE extra = 2
    BY <1>1, <2>1
  <2>2. CASE extra = 3
    BY <1>1, <2>2
  <2> QED
    BY <2>1, <2>2
<1> DEFINE w == Add(Add(Add(u, "internal", a), "armor", b), "electronic", c)
<1>3. event_mech_removesection(u, l, extra) = DestroySection(w, l)
  BY DEF event_mech_removesection
<1>4. "internal" \in Goods /\ "armor" \in Goods /\ "electronic" \in Goods
  BY DEF Goods
<1> HIDE DEF a, b, c
<1>5. w \in UnitStates /\ w.sect = u.sect /\ w.part = u.part
  <2> DEFINE x == Add(u, "internal", a)
             y == Add(x, "armor", b)
  <2>1. x \in UnitStates /\ x.sect = u.sect /\ x.part = u.part
    BY <1>2, <1>4, AddTyped
  <2>2. w = Add(y, "electronic", c)
    OBVIOUS
  <2> HIDE DEF x
  <2>3. y \in UnitStates /\ y.sect = x.sect /\ y.part = x.part
    BY <1>2, <1>4, <2>1, AddTyped
  <2> HIDE DEF y, w
  <2>4. w \in UnitStates /\ w.sect = y.sect /\ w.part = y.part
    BY <1>2, <1>4, <2>2, <2>3, AddTyped
  <2> QED
    BY <2>1, <2>3, <2>4
<1> HIDE DEF w
<1> DEFINE v == DestroySection(w, l)
<1>6. \/ SameSect(w, v, m)
      \/ (m = l \/ (l = "LTORSO" /\ m = "LARM")) /\ SectRazed(w, v, m)
  BY <1>5, DestroySectionEffect
<1> HIDE DEF v
<1>7. \/ SameSect(u, v, m)
      \/ (m = l \/ (l = "LTORSO" /\ m = "LARM")) /\ SectRazed(u, v, m)
  BY <1>5, <1>6 DEF SameSect, SectRazed
<1> QED
  BY <1>3, <1>7 DEF v

\* Section l after a job that mends it.
ArmorFixed(s, t, l) ==
    /\ t.int = s.int /\ t.flooded = s.flooded
    /\ s.armor <= t.armor /\ t.armor <= Hull[l].armor /\ t.rear <= Hull[l].rear
    /\ t.armor + t.rear <= s.armor + s.rear + 1

IntFixed(s, t, l) ==
    /\ t.armor = s.armor /\ t.rear = s.rear /\ t.flooded = s.flooded
    /\ s.int <= t.int /\ t.int <= s.int + 1 /\ t.int <= Hull[l].int

Reattached(s, t, l) ==
    /\ s.armor = 0 /\ s.int = 0
    /\ t.armor = 0 /\ t.rear = s.rear /\ t.int = Hull[l].int /\ ~t.flooded

Resealed(s, t) ==
    /\ ~(s.armor = 0 /\ s.int = 0)
    /\ t.armor = s.armor /\ t.rear = s.rear /\ t.int = s.int /\ ~t.flooded

LEMMA ArmorEffect ==
    ASSUME NEW u \in UnitStates, Bounded(u), NEW loc \in Sections \X {0, 8}, NEW m \in Sections
    PROVE  LET v == event_mech_repairarmor(u, loc)
           IN  /\ v.part = u.part
               /\ v.sect[m] = u.sect[m] \/ (m = loc[1] /\ ArmorFixed(u.sect[m], v.sect[m], m))
<1> DEFINE l == loc[1]
           r == Min({u.sect[l].rear + 1, Hull[l].rear})
           n == Min({u.sect[l].armor + 1, Hull[l].armor})
           v == event_mech_repairarmor(u, loc)
<1>1. l \in Sections
  OBVIOUS
<1>2. u.sect[l] \in SectStates /\ u.sect[l].rear + 1 \in Nat /\ u.sect[l].armor + 1 \in Nat
  BY <1>1, SectOf DEF SectStates
<1>3. Hull[l].rear \in Nat /\ Hull[l].armor \in Nat
  BY <1>1, HullAssumption
<1>4. /\ r \in Nat /\ r <= Hull[l].rear
      /\ n \in Nat /\ n <= Hull[l].armor /\ (n = u.sect[l].armor + 1 \/ n = Hull[l].armor)
  BY <1>2, <1>3, MinTwo
<1>5. v = IF loc[2] = 8 THEN [u EXCEPT !.sect[l] = [@ EXCEPT !.rear = r]]
                        ELSE [u EXCEPT !.sect[l] = [@ EXCEPT !.armor = n]]
  BY <1>1, <1>2 DEF event_mech_repairarmor, UnitStates
<1>6. u.sect[l].armor <= Hull[l].armor /\ u.sect[l].rear <= Hull[l].rear
  BY <1>1 DEF Bounded
<1> HIDE DEF l, r, n, v
<1> DEFINE s == u.sect[l]
           t == [s EXCEPT !.rear = r]
           x == [s EXCEPT !.armor = n]
<1>7. t \in SectStates /\ x \in SectStates
  BY <1>2, <1>4 DEF SectStates
<1>14. r <= s.rear + 1 /\ n <= s.armor + 1
  BY <1>2, <1>3, MinTwo DEF r, n
<1>8. ArmorFixed(s, t, l) /\ ArmorFixed(s, x, l)
  BY <1>2, <1>3, <1>4, <1>6, <1>14 DEF SectStates, ArmorFixed
<1>9. v = [u EXCEPT !.sect[l] = t] \/ v = [u EXCEPT !.sect[l] = x]
  BY <1>5
<1> HIDE DEF t, x
<1>10. /\ v.part = u.part
       /\ v.sect = [u.sect EXCEPT ![l] = t] \/ v.sect = [u.sect EXCEPT ![l] = x]
  BY <1>1, <1>7, <1>9 DEF UnitStates
<1>11. u.sect \in [Sections -> SectStates]
  BY DEF UnitStates
<1>12. CASE m = l
  <2>1. v.sect[m] = t \/ v.sect[m] = x
    BY <1>1, <1>10, <1>11, <1>12
  <2>2. ArmorFixed(u.sect[m], v.sect[m], m)
    BY <1>8, <1>12, <2>1
  <2> QED
    BY <1>10, <1>12, <2>2 DEF l, v
<1>13. CASE m # l
  <2>1. v.sect[m] = u.sect[m]
    BY <1>1, <1>10, <1>11, <1>13
  <2> QED
    BY <1>10, <2>1 DEF v
<1> QED
  BY <1>12, <1>13

LEMMA InternalEffect ==
    ASSUME NEW u \in UnitStates, Bounded(u), NEW l \in Sections, NEW m \in Sections
    PROVE  LET v == [u EXCEPT !.sect[l].int = Min({@ + 1, Hull[l].int})]
           IN  /\ v.part = u.part
               /\ v.sect[m] = u.sect[m] \/ (m = l /\ IntFixed(u.sect[m], v.sect[m], m))
<1> DEFINE v == [u EXCEPT !.sect[l].int = Min({@ + 1, Hull[l].int})]
           n == Min({u.sect[l].int + 1, Hull[l].int})
           s == u.sect[l]
           t == [s EXCEPT !.int = n]
<1>1. s \in SectStates /\ s.int + 1 \in Nat
  BY SectOf DEF SectStates
<1>2. Hull[l].int \in Nat
  BY HullAssumption
<1>3. n \in Nat /\ n <= Hull[l].int /\ n <= s.int + 1 /\ (n = s.int + 1 \/ n = Hull[l].int)
  BY <1>1, <1>2, MinTwo
<1>4. s.int <= Hull[l].int
  BY DEF Bounded
<1>5. v.part = u.part /\ v.sect = [u.sect EXCEPT ![l] = t]
  BY InternalTyped
<1> HIDE DEF n
<1>6. IntFixed(s, t, l)
  BY <1>1, <1>2, <1>3, <1>4 DEF SectStates, IntFixed
<1>7. u.sect \in [Sections -> SectStates]
  BY DEF UnitStates
<1> HIDE DEF v, t
<1>8. CASE m = l
  <2>1. v.sect[m] = t
    BY <1>5, <1>7, <1>8
  <2> QED
    BY <1>5, <1>6, <1>8, <2>1 DEF v
<1>9. CASE m # l
  <2>1. v.sect[m] = u.sect[m]
    BY <1>5, <1>7, <1>9
  <2> QED
    BY <1>5, <2>1 DEF v
<1> QED
  BY <1>8, <1>9

LEMMA ReAttachEffect ==
    ASSUME NEW u \in UnitStates, NEW l \in Sections, NEW m \in Sections
    PROVE  LET v == mech_ReAttach(u, l)
           IN  /\ v.part = u.part
               /\ v.sect[m] = u.sect[m] \/ (m = l /\ Reattached(u.sect[m], v.sect[m], m))
<1> DEFINE s == u.sect[l]
           t == [s EXCEPT !.flooded = FALSE, !.int = Hull[l].int]
           v == mech_ReAttach(u, l)
<1>1. s \in SectStates /\ Hull[l].int \in Nat
  BY SectOf, HullAssumption
<1>2. t \in SectStates
  BY <1>1 DEF SectStates
<1>3. SectIsDestroyed(u, l) => v = [u EXCEPT !.sect[l] = t]
  BY DEF mech_ReAttach, UnitStates
<1>4. ~SectIsDestroyed(u, l) => v = u
  BY DEF mech_ReAttach
<1>5. SectIsDestroyed(u, l) => Reattached(s, t, l)
  <2>1. t.armor = s.armor /\ t.rear = s.rear /\ t.int = Hull[l].int
    BY <1>1 DEF SectStates
  <2>2. ~t.flooded
    BY <1>1 DEF SectStates
  <2> QED
    BY <2>1, <2>2 DEF Reattached, SectIsDestroyed
<1>6. u.sect \in [Sections -> SectStates]
  BY DEF UnitStates
<1> HIDE DEF t, v
<1>7. CASE SectIsDestroyed(u, l)
  <2>1. v.part = u.part /\ v.sect = [u.sect EXCEPT ![l] = t]
    BY <1>2, <1>3, <1>7 DEF UnitStates
  <2>2. CASE m = l
    <3>1. v.sect[m] = t
      BY <1>6, <2>1, <2>2
    <3> QED
      BY <1>5, <1>7, <2>1, <2>2, <3>1 DEF v
  <2>3. CASE m # l
    <3>1. v.sect[m] = u.sect[m]
      BY <1>6, <2>1, <2>3
    <3> QED
      BY <2>1, <3>1 DEF v
  <2> QED
    BY <2>2, <2>3
<1>8. CASE ~SectIsDestroyed(u, l)
  BY <1>4, <1>8 DEF v
<1> QED
  BY <1>7, <1>8

LEMMA ReSealEffect ==
    ASSUME NEW u \in UnitStates, NEW l \in Sections, NEW m \in Sections
    PROVE  LET v == mech_ReSeal(u, l)
           IN  \/ SameSect(u, v, m)
               \/ /\ m = l /\ Resealed(u.sect[m], v.sect[m])
                  /\ \A p \in Parts : Loc(p) = m => v.part[p] = Dried(u.part[p])
<1> DEFINE v == mech_ReSeal(u, l)
<1>1. CASE SectIsDestroyed(u, l) \/ ~u.sect[l].flooded
  BY <1>1 DEF mech_ReSeal, SameSect
<1>2. CASE ~(SectIsDestroyed(u, l) \/ ~u.sect[l].flooded)
  <2>1. /\ v.sect = [u.sect EXCEPT ![l] = [@ EXCEPT !.flooded = FALSE]]
        /\ v.part = [p \in Parts |-> IF Loc(p) = l THEN Dried(u.part[p]) ELSE u.part[p]]
    BY <1>2, ReSealTyped
  <2>2. u.sect \in [Sections -> SectStates]
    BY DEF UnitStates
  <2> HIDE DEF v
  <2>3. CASE m = l
    <3>1. v.sect[m] = [u.sect[m] EXCEPT !.flooded = FALSE]
      BY <2>1, <2>2, <2>3
    <3>2. u.sect[m] \in SectStates
      BY <2>2
    <3>3. /\ v.sect[m].armor = u.sect[m].armor /\ v.sect[m].rear = u.sect[m].rear
          /\ v.sect[m].int = u.sect[m].int
      BY <3>1, <3>2 DEF SectStates
    <3>4. ~v.sect[m].flooded
      BY <3>1, <3>2 DEF SectStates
    <3>5. Resealed(u.sect[m], v.sect[m])
      BY <1>2, <2>3, <3>3, <3>4 DEF Resealed, SectIsDestroyed
    <3>6. \A p \in Parts : Loc(p) = m => v.part[p] = Dried(u.part[p])
      BY <2>1, <2>3
    <3> QED
      BY <2>3, <3>5, <3>6 DEF v
  <2>4. CASE m # l
    <3>1. v.sect[m] = u.sect[m]
      BY <2>1, <2>2, <2>4
    <3>2. \A p \in Parts : Loc(p) = m => v.part[p] = u.part[p]
      BY <2>1, <2>4
    <3> QED
      BY <3>1, <3>2 DEF SameSect, v
  <2> QED
    BY <2>3, <2>4
<1> QED
  BY <1>1, <1>2

SectEffect(u, v, j, m) ==
    LET l == j.loc[1]
        s == u.sect[m]
        t == v.sect[m]
    IN  \/ t = s
        \/ j.type = "SCRL" /\ (m = l \/ (l = "LTORSO" /\ m = "LARM")) /\ SectRazed(u, v, m)
        \/ j.type = "FIX" /\ m = l /\ ArmorFixed(s, t, m)
        \/ j.type = "FIXI" /\ m = l /\ IntFixed(s, t, m)
        \/ j.type = "REAT" /\ m = l /\ Reattached(s, t, m)
        \/ /\ j.type = "RESE" /\ m = l /\ Resealed(s, t)
           /\ \A p \in Parts : Loc(p) = m => v.part[p] = Dried(u.part[p])

PartEffect(c, d, p) ==
    \/ d = c
    \/ d = Wreck(p, c)
    \/ d = Dried(c)
    \/ d = RepairGun(c)
    \/ d = mech_RepairPart(c)
    \/ \E n \in 0..LAST : d = RepairEnhCrit(c, n)
    \/ IsAmmo(p) /\ \E n \in 0..FULL : d = [c EXCEPT !.data = n]

\* A job of a part leaves the sections alone and changes its part only.
LEMMA PartOutcome ==
    ASSUME NEW u \in UnitStates, NEW j, JobOK(j), j.fn # "very_fake_func", j.type \in PartTypes
    PROVE  /\ Outcome(u, j).sect = u.sect
           /\ \A q \in Parts : PartEffect(u.part[q], Outcome(u, j).part[q], q)
<1> DEFINE v == Outcome(u, j)
           p == j.pos
           c == u.part[p]
<1>1. p \in Parts
  BY JobPlace
<1>2. c \in PartStates
  BY <1>1, PartOf
<1>3. u.part \in [Parts -> PartStates]
  BY DEF UnitStates
<1>4. ASSUME NEW d, v.sect = u.sect, v.part = [u.part EXCEPT ![p] = d], PartEffect(c, d, p)
      PROVE  v.sect = u.sect /\ \A q \in Parts : PartEffect(u.part[q], v.part[q], q)
  <2> HIDE DEF v, p
  <2>1. ASSUME NEW q \in Parts
        PROVE  PartEffect(u.part[q], v.part[q], q)
    <3>1. CASE q = p
      <4>1. v.part[q] = d
        BY <1>1, <1>3, <1>4, <3>1
      <4> QED
        BY <1>4, <3>1, <4>1
    <3>2. CASE q # p
      <4>1. v.part[q] = u.part[q]
        BY <1>1, <1>3, <1>4, <3>2
      <4> QED
        BY <4>1 DEF PartEffect
    <3> QED
      BY <3>1, <3>2
  <2> QED
    BY <1>4, <2>1
<1>5. CASE j.type \in {"SCRG", "SCRP"}
  <2>1. v = event_mech_removed(u, p, j.extra)
    BY <1>5, OutcomeByType
  <2>2. v.sect = u.sect /\ v.part = [u.part EXCEPT ![p] = Wreck(p, c)]
    BY <1>1, <2>1, RemovedTyped
  <2>3. PartEffect(c, Wreck(p, c), p)
    BY DEF PartEffect
  <2> QED
    BY <1>4, <2>2, <2>3
<1>6. CASE j.type = "RELO"
  <2>1. v = event_mech_reload(u, p, j.extra)
    BY <1>6, OutcomeByType
  <2>2. /\ v.sect = u.sect
        /\ \E n \in 0..FULL : v.part = [u.part EXCEPT ![p] = [@ EXCEPT !.data = n]]
    BY <1>1, <2>1, ReloadTyped
  <2>3. PICK n \in 0..FULL : v.part = [u.part EXCEPT ![p] = [c EXCEPT !.data = n]]
    BY <2>2
  <2>4. IsAmmo(p)
    BY <1>6 DEF JobOK
  <2>5. PartEffect(c, [c EXCEPT !.data = n], p)
    BY <2>4 DEF PartEffect
  <2> QED
    BY <1>4, <2>2, <2>3, <2>5
<1>7. CASE j.type \in {"REPLG", "REPAP", "REPL", "REPENHCRIT"}
  <2>1. \/ v = [u EXCEPT !.part[p] = RepairGun(c)]
        \/ v = [u EXCEPT !.part[p] = mech_RepairPart(c)]
        \/ v = [u EXCEPT !.part[p] = RepairEnhCrit(c, j.crit)]
    BY <1>1, <1>7, OutcomeByType, PartChanged
  <2>2. /\ PartEffect(c, RepairGun(c), p) /\ PartEffect(c, mech_RepairPart(c), p)
        /\ PartEffect(c, RepairEnhCrit(c, j.crit), p)
    BY JobPlace DEF PartEffect
  <2>3. /\ RepairGun(c) \in PartStates /\ mech_RepairPart(c) \in PartStates
        /\ RepairEnhCrit(c, j.crit) \in PartStates
    BY <1>2, RepairTyped, EnhCritTyped, JobPlace
  <2>4. PICK d \in PartStates : v = [u EXCEPT !.part[p] = d] /\ PartEffect(c, d, p)
    BY <2>1, <2>2, <2>3
  <2>5. v.sect = u.sect /\ v.part = [u.part EXCEPT ![p] = d]
    <3> HIDE DEF v, p
    <3> QED
      BY <1>1, <2>4 DEF UnitStates
  <2> QED
    BY <1>4, <2>4, <2>5
<1> QED
  BY <1>5, <1>6, <1>7 DEF PartTypes, Mending

LEMMA OutcomeEffect ==
    ASSUME NEW u \in UnitStates, Bounded(u), NEW j, JobOK(j)
    PROVE  /\ \A m \in Sections : SectEffect(u, Outcome(u, j), j, m)
           /\ \A p \in Parts : PartEffect(u.part[p], Outcome(u, j).part[p], p)
<1> DEFINE v == Outcome(u, j)
           l == j.loc[1]
<1>1. /\ j.loc \in Sections \X {0, 8} /\ l \in Sections
      /\ j.type \in JobTypes
  BY JobPlace
<1>2. \A p \in Parts : Loc(p) \in Sections
  BY HullAssumption DEF Loc
<1>3. ASSUME v.part = u.part
      PROVE  \A p \in Parts : PartEffect(u.part[p], v.part[p], p)
  BY <1>3 DEF PartEffect
<1>4. CASE j.fn = "very_fake_func"
  BY <1>4, FakeOutcome DEF SectEffect, PartEffect
<1>5. CASE j.fn # "very_fake_func" /\ j.type \in PartTypes
  BY <1>5, PartOutcome DEF SectEffect
<1>6. CASE j.fn # "very_fake_func" /\ j.type = "SCRL"
  <2>1. j.extra = 2 \/ j.extra = 3
    BY <1>6 DEF JobOK
  <2>2. v = event_mech_removesection(u, l, j.extra)
    BY <1>6, OutcomeByType
  <2>3. ASSUME NEW m \in Sections
        PROVE  SameSect(u, v, m) \/ ((m = l \/ (l = "LTORSO" /\ m = "LARM")) /\ SectRazed(u, v, m))
    BY <1>1, <2>1, <2>2, RemoveSectionEffect
  <2> HIDE DEF v
  <2>4. ASSUME NEW m \in Sections
        PROVE  SectEffect(u, v, j, m)
    BY <1>6, <2>3 DEF SectEffect, SameSect
  <2>5. ASSUME NEW p \in Parts
        PROVE  PartEffect(u.part[p], v.part[p], p)
    BY <1>2, <2>3 DEF SameSect, SectRazed, PartEffect
  <2> QED
    BY <2>4, <2>5 DEF v
<1>7. CASE j.fn # "very_fake_func" /\ j.type = "FIX"
  <2>1. v = event_mech_repairarmor(u, j.loc)
    BY <1>7, OutcomeByType
  <2>2. v.part = u.part
    BY <1>1, <2>1, ArmorEffect
  <2>3. ASSUME NEW m \in Sections
        PROVE  v.sect[m] = u.sect[m] \/ (m = l /\ ArmorFixed(u.sect[m], v.sect[m], m))
    BY <1>1, <2>1, ArmorEffect
  <2> QED
    BY <1>3, <1>7, <2>2, <2>3 DEF SectEffect
<1>8. CASE j.fn # "very_fake_func" /\ j.type = "FIXI"
  <2>1. v = [u EXCEPT !.sect[l].int = Min({@ + 1, Hull[l].int})]
    BY <1>8, OutcomeByType
  <2>2. v.part = u.part
    BY <1>1, <2>1, InternalEffect
  <2>3. ASSUME NEW m \in Sections
        PROVE  v.sect[m] = u.sect[m] \/ (m = l /\ IntFixed(u.sect[m], v.sect[m], m))
    <3> DEFINE w == [u EXCEPT !.sect[l].int = Min({@ + 1, Hull[l].int})]
    <3>1. w.sect[m] = u.sect[m] \/ (m = l /\ IntFixed(u.sect[m], w.sect[m], m))
      BY <1>1, InternalEffect
    <3>2. v = w
      BY <2>1
    <3> HIDE DEF v, w
    <3> QED
      BY <3>1, <3>2
  <2> QED
    BY <1>3, <1>8, <2>2, <2>3 DEF SectEffect
<1>9. CASE j.fn # "very_fake_func" /\ j.type = "REAT"
  <2>1. v = mech_ReAttach(u, l)
    BY <1>9, OutcomeByType
  <2>2. v.part = u.part
    BY <1>1, <2>1, ReAttachEffect
  <2>3. ASSUME NEW m \in Sections
        PROVE  v.sect[m] = u.sect[m] \/ (m = l /\ Reattached(u.sect[m], v.sect[m], m))
    BY <1>1, <2>1, ReAttachEffect
  <2> QED
    BY <1>3, <1>9, <2>2, <2>3 DEF SectEffect
<1>10. CASE j.fn # "very_fake_func" /\ j.type = "RESE"
  <2>1. v = mech_ReSeal(u, l)
    BY <1>10, OutcomeByType
  <2>2. ASSUME NEW m \in Sections
        PROVE  \/ SameSect(u, v, m)
               \/ /\ m = l /\ Resealed(u.sect[m], v.sect[m])
                  /\ \A p \in Parts : Loc(p) = m => v.part[p] = Dried(u.part[p])
    BY <1>1, <2>1, ReSealEffect
  <2> HIDE DEF v
  <2>3. ASSUME NEW m \in Sections
        PROVE  SectEffect(u, v, j, m)
    BY <1>10, <2>2 DEF SectEffect, SameSect
  <2>4. ASSUME NEW p \in Parts
        PROVE  PartEffect(u.part[p], v.part[p], p)
    BY <1>2, <2>2 DEF SameSect, PartEffect
  <2> QED
    BY <2>3, <2>4 DEF v
<1> QED
  BY <1>1, <1>4, <1>5, <1>6, <1>7, <1>8, <1>9, <1>10 DEF JobTypes, PartTypes, Mending

-----------------------------------------------------------------------------
\* The commands for sections.

LEMMA LackTyped ==
    ASSUME Exclusive, NEW l \in Sections
    PROVE  /\ IntLack(l) \in Int /\ ArmorLack(Front(l)) \in Int /\ ArmorLack(Rear(l)) \in Int
<1>1. unit.sect[l] \in SectStates
  BY UnitTyped, SectOf
<1> QED
  BY <1>1, HullAssumption DEF IntLack, ArmorLack, Front, Rear, sect, SectStates

LEMMA FixArmorKeeps ==
    ASSUME Exclusive, power = "off", NEW l \in Sections, NEW loc,
           loc = Front(l) \/ loc = Rear(l), tech_fixarmor(loc)
    PROVE  Exclusive' /\ Quiet
<1> DEFINE n == ArmorLack(loc)
           cost == [armor |-> n]
<1>1. loc \in Sections \X {0, 8} /\ loc[1] = l
  BY DEF Front, Rear
<1>2. MayFixArmor(loc) /\ Affords(cost)
  BY DEF tech_fixarmor
<1>3. n \in Nat /\ n > 0
  BY <1>2, LackTyped DEF MayFixArmor
<1>4. PICK m \in Patched(n) : Start(Paid(cost), Job("FIX", "repairarmor", loc, None, m))
  BY DEF tech_fixarmor
<1>5. m \in Int
  BY <1>3, PatchedBounds
<1>6. ~AtLoc(FrontTypes, loc)
  <2>1. ~AtLoc({"FIX"}, loc) /\ ~AtLoc({"FIXI"}, Front(l)) /\ ~AtLoc({"SCRL"}, loc)
    BY <1>1, <1>2 DEF MayFixArmor, SomeoneFixingA, SomeoneFixingI, SomeoneScrappingLoc
  <2>2. ASSUME NEW j \in jobs, j.type = "FIXI", j.loc = loc
        PROVE  FALSE
    <3>1. j.type \notin PartTypes \cup {"FIX"}
      BY <2>2 DEF PartTypes, Mending
    <3>2. \E k \in Sections : j.loc = Front(k)
      BY <3>1 DEF Exclusive, JobsOK, JobOK
    <3>3. loc = Front(l)
      BY <2>2, <3>2 DEF Front, Rear
    <3> QED
      BY <2>1, <2>2, <3>3 DEF AtLoc
  <2> QED
    BY <2>1, <2>2 DEF AtLoc, FrontTypes
<1>7. DOMAIN cost \subseteq Goods /\ \A g \in DOMAIN cost : cost[g] \in Int
  <2> HIDE DEF n
  <2> QED
    BY <1>3 DEF Goods
<1> HIDE DEF cost
<1>8. Paid(cost) \in UnitStates /\ Paid(cost).sect = unit.sect /\ Paid(cost).part = unit.part
  BY <1>2, <1>7, PaidTyped DEF Exclusive, sect, part
<1>9. "repairarmor" \in JobFns /\ Carries("FIX", "repairarmor")
  BY DEF JobFns, Carries
<1>10. Exclusive' /\ unit' = Paid(cost) /\ \A k \in jobs' \ jobs : k.type = "FIX"
  BY <1>1, <1>4, <1>5, <1>6, <1>8, <1>9, SectStarted
<1> QED
  BY <1>8, <1>10, QuietSame DEF NoneFixing

LEMMA FixInternalKeeps ==
    ASSUME Exclusive, Bounded(unit), power = "off", NEW l \in Sections, tech_fixinternal(l)
    PROVE  Exclusive' /\ Quiet
<1> DEFINE n == IntLack(l)
           cost == [internal |-> n]
<1>1. MayFixInternal(l) /\ Affords(cost)
  BY DEF tech_fixinternal
<1>2. n \in Nat /\ n > 0
  <2>1. unit.sect[l].int <= Hull[l].int
    BY DEF Bounded
  <2>2. unit.sect[l].int \in Nat /\ Hull[l].int \in Nat
    BY UnitTyped, SectOf, HullAssumption DEF SectStates
  <2> QED
    BY <1>1, <2>1, <2>2 DEF MayFixInternal, IntLack, sect
<1>3. PICK m \in Patched(n) : Start(Paid(cost), Job("FIXI", "repairinternal", Front(l), None, m))
  BY DEF tech_fixinternal, SectJob
<1>4. m \in Int /\ m <= n
  BY <1>2, PatchedBounds
<1>5. ~AtLoc(FrontTypes, Front(l))
  BY <1>1 DEF MayFixInternal, SomeoneFixing, SomeoneFixingA, SomeoneFixingI,
              SomeoneScrappingLoc, AtLoc, FrontTypes
<1>6. DOMAIN cost \subseteq Goods /\ \A g \in DOMAIN cost : cost[g] \in Int
  <2> HIDE DEF n
  <2> QED
    BY <1>2 DEF Goods
<1> HIDE DEF cost
<1>7. Paid(cost) \in UnitStates /\ Paid(cost).sect = unit.sect /\ Paid(cost).part = unit.part
  BY <1>1, <1>6, PaidTyped DEF Exclusive, sect, part
<1>8. "repairinternal" \in JobFns /\ Carries("FIXI", "repairinternal")
  BY DEF JobFns, Carries
<1>9. /\ Exclusive' /\ unit' = Paid(cost)
      /\ \A k \in jobs' \ jobs : k.type = "FIXI" /\ k.loc = Front(l) /\ k.extra = m
  BY <1>3, <1>4, <1>5, <1>7, <1>8, FrontPlace, SectStarted
<1>10. ~Destroyed(l) /\ Front(l)[1] = l
  BY <1>1 DEF MayFixInternal, Front
<1>11. \A k \in jobs' \ jobs : FixingOK(k)
  BY <1>2, <1>4, <1>9, <1>10 DEF FixingOK
<1>12. \A q \in Parts : SamePart(unit.part[q], unit'.part[q], q)
  BY <1>7, <1>9 DEF SamePart
<1> QED
  BY <1>7, <1>9, <1>11, <1>12 DEF Quiet

LEMMA RebuildKeeps ==
    ASSUME Exclusive, power = "off", NEW l \in Sections, NEW type, NEW fn \in JobFns,
           type = "REAT" \/ type = "RESE", Carries(type, fn), ~AtLoc({type}, Front(l)),
           Rebuild(SectJob(type, fn, l, 0), l)
    PROVE  Exclusive' /\ Quiet
<1> DEFINE n == Hull[l].int
           cost == [internal |-> n, electronic |-> n]
           back(tot) == Add(Add(Paid(cost), "electronic", tot), "internal", tot)
           f == "very_fake_func"
<1>1. n \in Nat
  BY HullAssumption
<1>2. Affords(cost)
  BY DEF Rebuild
<1>3. \/ Start(Paid(cost), Job(type, fn, Front(l), None, 0))
      \/ \E tot \in Portion(5..94, n) : Start(back(tot), Job(type, f, Front(l), None, 0))
  <2>1. Fake(SectJob(type, fn, l, 0)) = Job(type, f, Front(l), None, 0)
    BY FakeSect DEF SectJob
  <2>2. \/ Start(Paid(cost), SectJob(type, fn, l, 0))
        \/ \E tot \in Portion(5..94, n) : Start(back(tot), Fake(SectJob(type, fn, l, 0)))
    BY DEF Rebuild
  <2> QED
    BY <2>1, <2>2 DEF SectJob
<1>4. DOMAIN cost \subseteq Goods /\ \A g \in DOMAIN cost : cost[g] \in Int
  <2> HIDE DEF n
  <2> QED
    BY <1>1 DEF Goods
<1> HIDE DEF cost
<1>5. Paid(cost) \in UnitStates /\ Paid(cost).sect = unit.sect /\ Paid(cost).part = unit.part
  BY <1>2, <1>4, PaidTyped DEF Exclusive, sect, part
<1>6. ASSUME NEW tot \in Portion(5..94, n)
      PROVE  back(tot) \in UnitStates /\ back(tot).sect = unit.sect /\ back(tot).part = unit.part
  <2>1. tot \in Nat
    BY <1>1, PortionBounds
  <2>2. "electronic" \in Goods /\ "internal" \in Goods
    BY DEF Goods
  <2> DEFINE w == Add(Paid(cost), "electronic", tot)
  <2>3. w \in UnitStates /\ w.sect = unit.sect /\ w.part = unit.part
    BY <1>5, <2>1, <2>2, AddTyped
  <2>4. back(tot) = Add(w, "internal", tot)
    OBVIOUS
  <2> HIDE DEF w, back
  <2> QED
    BY <2>1, <2>2, <2>3, <2>4, AddTyped
<1> HIDE DEF back
<1>7. /\ type \in {"FIX", "FIXI", "SCRL", "REAT", "RESE"} /\ type \notin FrontTypes
      /\ type # "SCRL" /\ type # "FIXI" /\ f \in JobFns
  BY DEF FrontTypes, JobFns
<1>8. /\ Front(l) \in Sections \X {0, 8} /\ 0 \in Int
      /\ type = "REAT" => ~AtLoc({"REAT"}, Front(l))
      /\ type = "RESE" => ~AtLoc({"RESE"}, Front(l))
  BY FrontPlace
<1>9. ASSUME NEW settled \in UnitStates, settled.sect = unit.sect, settled.part = unit.part,
             NEW g \in JobFns, g = f \/ g = fn, Start(settled, Job(type, g, Front(l), None, 0))
      PROVE  Exclusive' /\ Quiet
  <2>1. g = "very_fake_func" \/ Carries(type, g)
    BY <1>9
  <2>2. Exclusive' /\ unit' = settled /\ \A k \in jobs' \ jobs : k.type = type
    BY <1>7, <1>8, <1>9, <2>1, SectStarted
  <2> QED
    BY <1>7, <1>9, <2>2, QuietSame DEF NoneFixing
<1>10. CASE Start(Paid(cost), Job(type, fn, Front(l), None, 0))
  BY <1>5, <1>9, <1>10
<1>11. ASSUME NEW tot \in Portion(5..94, n), Start(back(tot), Job(type, f, Front(l), None, 0))
       PROVE  Exclusive' /\ Quiet
  BY <1>6, <1>7, <1>9, <1>11
<1> QED
  BY <1>3, <1>10, <1>11

LEMMA ReattachKeeps ==
    ASSUME Exclusive, power = "off", NEW l \in Sections, tech_reattach(l)
    PROVE  Exclusive' /\ Quiet
<1>1. "reattach" \in JobFns /\ Carries("REAT", "reattach")
  BY DEF JobFns, Carries
<1>2. ~AtLoc({"REAT"}, Front(l)) /\ Rebuild(SectJob("REAT", "reattach", l, 0), l)
  BY DEF tech_reattach, MayReattach, SomeoneAttaching
<1> QED
  BY <1>1, <1>2, RebuildKeeps

LEMMA ResealKeeps ==
    ASSUME Exclusive, power = "off", NEW l \in Sections, tech_reseal(l)
    PROVE  Exclusive' /\ Quiet
<1>1. "reseal" \in JobFns /\ Carries("RESE", "reseal")
  BY DEF JobFns, Carries
<1>2. ~AtLoc({"RESE"}, Front(l)) /\ Rebuild(SectJob("RESE", "reseal", l, 0), l)
  BY DEF tech_reseal, MayReseal, SomeoneResealing
<1> QED
  BY <1>1, <1>2, RebuildKeeps

LEMMA TechKeeps ==
    ASSUME Exclusive, Bounded(unit), Tech
    PROVE  Exclusive' /\ Quiet
<1>1. power = "off"
  BY DEF Tech
<1>2. ASSUME NEW p \in Parts, OnPart(p)
      PROVE  Exclusive' /\ Quiet
  BY <1>1, <1>2, RemoveGunKeeps, RemovePartKeeps, ReplaceGunKeeps, RepairGunKeeps,
     FixEnhCritKeeps, ReplacePartKeeps, ReloadKeeps, UnloadKeeps DEF OnPart
<1>3. ASSUME NEW l \in Sections, OnSection(l)
      PROVE  Exclusive' /\ Quiet
  BY <1>1, <1>3, RemoveSectionKeeps, FixArmorKeeps, FixInternalKeeps, ReattachKeeps,
     ResealKeeps DEF OnSection
<1> QED
  BY <1>2, <1>3 DEF Tech

-----------------------------------------------------------------------------
\* The events, the pilot and the restart.

LEMMA BoundedKept ==
    ASSUME NEW u \in UnitStates, Bounded(u), NEW j, JobOK(j)
    PROVE  Bounded(Outcome(u, j))
<1> DEFINE v == Outcome(u, j)
<1>1. ASSUME NEW m \in Sections
      PROVE  /\ v.sect[m].armor <= Hull[m].armor
             /\ v.sect[m].rear <= Hull[m].rear
             /\ v.sect[m].int <= Hull[m].int
  <2>1. SectEffect(u, v, j, m)
    BY OutcomeEffect
  <2>2. u.sect[m] \in SectStates /\ Hull[m] \in [armor : Nat, rear : Nat, int : Nat]
    BY SectOf, HullAssumption
  <2>3. /\ u.sect[m].armor <= Hull[m].armor /\ u.sect[m].rear <= Hull[m].rear
        /\ u.sect[m].int <= Hull[m].int
    BY DEF Bounded
  <2> HIDE DEF v
  <2> QED
    BY <2>1, <2>2, <2>3 DEF SectEffect, SectRazed, ArmorFixed, IntFixed, Reattached, Resealed,
                            SectStates
<1> QED
  BY <1>1 DEF Bounded

LEMMA EventKeeps ==
    ASSUME Exclusive, Bounded(unit), NEW j \in jobs, TechEvent(j)
    PROVE  Exclusive' /\ Bounded(unit')
<1>1. unit \in UnitStates /\ JobOK(j)
  BY UnitTyped DEF Exclusive, JobsOK
<1>2. unit' \in UnitStates
  BY <1>1, OutcomeTyped DEF TechEvent
<1>3. Bounded(unit')
  BY <1>1, BoundedKept DEF TechEvent
<1>4. JobsOK' /\ Apart'
  BY EventJobs DEF Exclusive, TechEvent
<1>5. power = "off" /\ power' = power
  BY DEF Exclusive, PowerOK, TechEvent
<1> QED
  BY <1>2, <1>3, <1>4, <1>5 DEF Exclusive, TypeOK, PowerOK

LEMMA PilotKeeps ==
    ASSUME Exclusive, mech_startup \/ mech_startup_event \/ mech_shutdown
    PROVE  Exclusive'
<1>1. unit' = unit /\ jobs' = jobs
  BY DEF mech_startup, mech_startup_event, mech_shutdown
<1>2. TypeOK'
  BY <1>1 DEF Exclusive, TypeOK, mech_startup, mech_startup_event, mech_shutdown
<1>3. PowerOK'
  BY <1>1 DEF Exclusive, PowerOK, mech_startup, mech_startup_event, mech_shutdown
<1> QED
  BY <1>1, <1>2, <1>3 DEF Exclusive, JobsOK, Apart

LEMMA RestartKeepsJobs ==
    ASSUME Exclusive, Restart
    PROVE  Exclusive'
<1>1. unit' = unit /\ jobs' = Loaded(jobs)
  BY DEF Restart
<1>2. JobsOK' /\ Apart'
  BY <1>1, LoadedJobs DEF Exclusive
<1>3. TypeOK'
  BY <1>1 DEF Exclusive, TypeOK, Restart
<1>4. jobs' # {} => jobs # {}
  BY <1>1, LoadedFrom
<1>5. PowerOK'
  BY <1>4 DEF Exclusive, PowerOK, Restart
<1> QED
  BY <1>2, <1>3, <1>5 DEF Exclusive

\* The inductive invariant.
IInv == Exclusive /\ Bounded(unit)

LEMMA InitIInv == Init => IInv
<1> SUFFICES ASSUME Init
             PROVE  IInv
  OBVIOUS
<1>1. jobs = {} /\ power = "off"
  BY DEF Init
<1>2. unit \in UnitStates
  BY ScenariosAssumption DEF Init
<1>3. Bounded(unit)
  <2>1. unit.sect = scenario.sect
    BY DEF Init
  <2> QED
    BY <2>1, ScenariosAssumption DEF Init, Bounded
<1> QED
  BY <1>1, <1>2, <1>3 DEF IInv, Exclusive, TypeOK, JobsOK, Apart, PowerOK

LEMMA NextIInv == IInv /\ [Next]_vars => IInv'
<1> SUFFICES ASSUME IInv, [Next]_vars
             PROVE  IInv'
  OBVIOUS
<1> USE DEF IInv
<1>1. CASE Tech
  <2>1. Exclusive' /\ unit'.sect = unit.sect
    BY <1>1, TechKeeps DEF Quiet
  <2> QED
    BY <2>1 DEF Bounded
<1>2. ASSUME NEW j \in jobs, TechEvent(j)
      PROVE  IInv'
  BY <1>2, EventKeeps
<1>3. CASE mech_startup \/ mech_startup_event \/ mech_shutdown
  <2>1. unit' = unit
    BY <1>3 DEF mech_startup, mech_startup_event, mech_shutdown
  <2> QED
    BY <1>3, <2>1, PilotKeeps
<1>4. CASE Restart
  <2>1. unit' = unit
    BY <1>4 DEF Restart
  <2> QED
    BY <1>4, <2>1, RestartKeepsJobs
<1>5. CASE UNCHANGED vars
  BY <1>5 DEF vars, Exclusive, TypeOK, JobsOK, Apart, PowerOK
<1> QED
  BY <1>1, <1>2, <1>3, <1>4, <1>5 DEF Next

LEMMA SpecIInv == Spec => []IInv
BY InitIInv, NextIInv, PTL DEF Spec

\* Type correctness, for any unit, fittings and stock: no order of jobs makes more armor or
\* internals than the unit has room for, a bin overfull or a stock negative, nor leaves a
\* section or part in no state at all (mech.tech.events.c).
THEOREM TypeCorrect == Spec => []TypeOK
<1>1. IInv => TypeOK
  BY DEF IInv, Exclusive
<1> QED
  BY <1>1, SpecIInv, PTL

\* Two jobs never mend the same slot or take off the same part or section, a gun's first crit
\* is not mended while the gun is removed, nor a section while it is taken off, for any unit, any
\* number of technicians and any number of restarts: what each command asks of the events under
\* way (SomeoneRepairing and the like in mech.tech.commands.c) is enough for that.  It is not
\* for the later crits of a gun, which the property leaves out.
THEOREM JobsApart == Spec => []JobsExclusive
<1>1. IInv => JobsExclusive
  BY ExclusiveSuffices DEF IInv
<1> QED
  BY <1>1, SpecIInv, PTL

-----------------------------------------------------------------------------
\* The restart.

LEMMA SameJob ==
    ASSUME NEW j \in Jobs
    PROVE  [j EXCEPT !.fn = j.fn] = j
BY DEF Jobs

\* Only the repair of a gun is restored with another function.
LEMMA ReloadedSame ==
    ASSUME NEW j, JobOK(j), j.fn = "very_fake_func" \/ j.type # "RESE",
           ~(j.type = "REPAP" /\ j.fn = "repairgun")
    PROVE  Reloaded(j) = j
<1>1. CASE j.fn = "very_fake_func"
  BY <1>1 DEF Reloaded
<1>2. CASE j.fn # "very_fake_func"
  <2>1. j \in Jobs /\ j.type \in JobTypes \ {"RESE"} /\ Carries(j.type, j.fn)
    BY <1>2 DEF JobOK, Jobs
  <2>2. Restored(j.type) = j.fn
    BY <2>1 DEF Carries, Restored, JobTypes
  <2> QED
    BY <1>2, <2>1, <2>2, SameJob DEF Reloaded
<1> QED
  BY <1>1, <1>2

LEMMA GunAsPart ==
    ASSUME NEW c \in PartStates, c.rest = "ok", c.worn = {}
    PROVE  RepairGun(c) = mech_RepairPart(c)
<1>1. /\ mech_RepairPart(c) \in PartStates /\ mech_RepairPart(c).rest = "ok"
      /\ mech_RepairPart(c).worn = {}
  BY RepairTyped
<1> QED
  BY <1>1 DEF RepairGun, PartStates

LEMMA JobRestored ==
    ASSUME IInv, NEW j \in jobs
    PROVE  \/ \E k \in Loaded(jobs) : Same(j, k)
           \/ j.type = "RESE" \/ (j.type = "REPAP" /\ ~RestOK(j.pos))
<1> SUFFICES ASSUME j.type # "RESE", ~(j.type = "REPAP" /\ ~RestOK(j.pos))
             PROVE  \E k \in Loaded(jobs) : Same(j, k)
  OBVIOUS
<1> DEFINE k == Reloaded(j)
<1>1. JobOK(j) /\ j \in Jobs
  BY DEF IInv, Exclusive, JobsOK, JobOK
<1>2. k \in Loaded(jobs)
  BY DEF Reloaded, Loaded
<1>3. [k EXCEPT !.fn = j.fn] = j
  <2>1. CASE j.fn = "very_fake_func"
    BY <1>1, <2>1, SameJob DEF Reloaded
  <2>2. CASE j.fn # "very_fake_func"
    <3>1. k = [j EXCEPT !.fn = Restored(j.type)]
      BY <2>2 DEF Reloaded
    <3> QED
      BY <1>1, <3>1 DEF Jobs
  <2> QED
    BY <2>1, <2>2
<1>4. Outcome(unit, k) = Outcome(unit, j)
  <2>1. CASE ~(j.type = "REPAP" /\ j.fn = "repairgun")
    BY <1>1, <2>1, ReloadedSame
  <2>2. CASE j.type = "REPAP" /\ j.fn = "repairgun"
    <3> DEFINE p == j.pos
    <3>1. p \in Parts
      BY <1>1, <2>2 DEF JobOK, PartTypes, Mending
    <3>2. unit.part[p] \in PartStates /\ unit.part[p].rest = "ok" /\ unit.part[p].worn = {}
      BY <2>2, <3>1, UnitTyped, PartOf DEF IInv, part, RestOK
    <3>3. k.fn = "repairpart" /\ k.pos = p
      BY <1>1, <2>2 DEF Reloaded, Restored, Jobs
    <3>4. Outcome(unit, k) = [unit EXCEPT !.part[p] = mech_RepairPart(unit.part[p])]
      BY <3>1, <3>3, PartChanged, UnitTyped DEF Outcome, IInv
    <3>5. Outcome(unit, j) = [unit EXCEPT !.part[p] = RepairGun(unit.part[p])]
      BY <2>2, <3>1, PartChanged, UnitTyped DEF Outcome, IInv
    <3> QED
      BY <3>2, <3>4, <3>5, GunAsPart
  <2> QED
    BY <2>1, <2>2
<1> QED
  BY <1>2, <1>3, <1>4 DEF Same

LEMMA LoadedIsJob ==
    ASSUME IInv, NEW k \in Loaded(jobs)
    PROVE  \E j \in jobs : [k EXCEPT !.fn = j.fn] = j
<1>1. PICK j \in jobs : k = Reloaded(j)
  BY LoadedFrom
<1>2. j \in Jobs
  BY DEF IInv, Exclusive, JobsOK, JobOK
<1>3. CASE j.fn = "very_fake_func"
  BY <1>1, <1>2, <1>3, SameJob DEF Reloaded
<1>4. CASE j.fn # "very_fake_func"
  <2>1. k = [j EXCEPT !.fn = Restored(j.type)]
    BY <1>1, <1>4 DEF Reloaded
  <2>2. [k EXCEPT !.fn = j.fn] = j
    BY <1>2, <2>1 DEF Jobs
  <2> QED
    BY <2>2
<1> QED
  BY <1>3, <1>4

\* A restart at any time keeps every job, except resealing and the repair of a gun with
\* several broken or damaged crits, and makes up none: saverepairs and loadrepairs choose the function
\* by the event's type, which is enough because no two functions share a type but for guns
\* (mech.tech.saverepair.c).
THEOREM JobsSurvive == Spec => []RestartKeeps
<1>1. IInv => RestartKeeps
  BY JobRestored, LoadedIsJob DEF RestartKeeps
<1> QED
  BY <1>1, SpecIInv, PTL

-----------------------------------------------------------------------------
\* The list of damages.

\* An arm's internals are left out: the arm may go with its torso while they are mended.
Fixing == \A j \in jobs : j.type = "FIXI" /\ j.loc # Front("LARM") => FixingOK(j)

TInv == IInv /\ Serviceable(unit) /\ Fixing

LEMMA NotGone ==
    ASSUME NEW u \in UnitStates, NEW l \in Sections
    PROVE  SectIsDestroyed(u, l) <=> ~(u.sect[l].armor + u.sect[l].int > 0)
<1>1. u.sect[l].armor \in Nat /\ u.sect[l].int \in Nat
  BY SectOf DEF SectStates
<1> QED
  BY <1>1 DEF SectIsDestroyed

\* What a job may do to a part, as far as the list is concerned.
LEMMA PartMoves ==
    ASSUME NEW p \in Parts, NEW c \in PartStates, NEW d, PartEffect(c, d, p)
    PROVE  /\ "disabled" \in d.mode => "disabled" \in c.mode
           /\ "damaged" \in d.mode => "damaged" \in c.mode
           /\ d.worn \subseteq c.worn
           /\ d.nuke => c.nuke
           /\ d.data = c.data \/ d.data = 0 \/ IsAmmo(p)
<1>1. CASE d = c
  BY <1>1
<1>2. CASE d = Wreck(p, c)
  BY <1>2, WreckTyped
<1>3. CASE d = Dried(c)
  BY <1>3, DriedTyped
<1>4. CASE d = RepairGun(c) \/ d = mech_RepairPart(c)
  BY <1>4, RepairTyped
<1>5. CASE \E n \in 0..LAST : d = RepairEnhCrit(c, n)
  BY <1>5, EnhCritTyped
<1>6. CASE IsAmmo(p) /\ \E n \in 0..FULL : d = [c EXCEPT !.data = n]
  <2>1. PICK n \in 0..FULL : d = [c EXCEPT !.data = n]
    BY <1>6
  <2>2. d.mode = c.mode
    BY <2>1 DEF PartStates
  <2>3. d.nuke = c.nuke /\ d.worn = c.worn
    BY <2>1 DEF PartStates
  <2> QED
    BY <1>6, <2>2, <2>3
<1> QED
  BY <1>1, <1>2, <1>3, <1>4, <1>5, <1>6 DEF PartEffect

LEMMA ServiceableParts ==
    ASSUME NEW u, Serviceable(u), NEW p \in Parts
    PROVE  /\ "disabled" \in u.part[p].mode =>
                u.sect[Loc(p)].flooded /\ u.sect[Loc(p)].armor + u.sect[Loc(p)].int > 0
           /\ "damaged" \in u.part[p].mode => IsWeapon(p)
           /\ u.part[p].worn # {} => IsWeapon(p)
           /\ u.part[p].nuke => IsWeapon(p)
           /\ ~IsAmmo(p) => u.part[p].data = 0
BY DEF Serviceable, Loc, Kind, IsWeapon, IsAmmo

LEMMA ServiceableKept ==
    ASSUME NEW u \in UnitStates, Bounded(u), Serviceable(u), NEW j, JobOK(j)
    PROVE  Serviceable(Outcome(u, j))
<1> DEFINE v == Outcome(u, j)
<1>1. v \in UnitStates
  BY OutcomeTyped
<1>2. /\ \A m \in Sections : SectEffect(u, v, j, m)
      /\ \A p \in Parts : PartEffect(u.part[p], v.part[p], p)
  BY OutcomeEffect
<1>3. \A m \in Sections : u.sect[m] \in SectStates /\ v.sect[m] \in SectStates /\ Hull[m].int \in Nat
  BY <1>1, SectOf, HullAssumption
<1>4. \A p \in Parts : u.part[p] \in PartStates /\ v.part[p] \in PartStates /\ Loc(p) \in Sections
  BY <1>1, PartOf, HullAssumption DEF Loc
<1> HIDE DEF v
<1>5. v.sect["CTORSO"].armor + v.sect["CTORSO"].int > 0
  <2> DEFINE m == "CTORSO"
             s == u.sect[m]
             t == v.sect[m]
  <2>1. m \in Sections /\ s.armor + s.int > 0
    BY HullAssumption DEF Serviceable
  <2>2. SectEffect(u, v, j, m) /\ s \in SectStates /\ t \in SectStates /\ Hull[m].int \in Nat
    BY <1>2, <1>3, <2>1
  <2>3. ~(j.type = "SCRL" /\ (m = j.loc[1] \/ (j.loc[1] = "LTORSO" /\ m = "LARM")))
    <3>1. ASSUME j.type = "SCRL"
          PROVE  m # j.loc[1]
      <4>1. j.type \notin PartTypes \cup {"FIX"} /\ j.loc # Front("CTORSO")
        BY <3>1 DEF PartTypes, Mending, JobOK
      <4>2. PICK l \in Sections : j.loc = Front(l)
        BY <4>1 DEF JobOK
      <4> QED
        BY <4>1, <4>2 DEF Front
    <3> QED
      BY <3>1
  <2>4. s.armor \in Nat /\ s.int \in Nat /\ t.armor \in Nat /\ t.int \in Nat
    BY <2>2 DEF SectStates
  <2>5. t.armor >= s.armor /\ t.int >= s.int
    BY <2>1, <2>2, <2>3, <2>4 DEF SectEffect, ArmorFixed, IntFixed, Reattached, Resealed
  <2> QED
    BY <2>1, <2>4, <2>5
<1>6. ASSUME NEW p \in Parts, "disabled" \in v.part[p].mode
      PROVE  v.sect[Loc(p)].flooded /\ v.sect[Loc(p)].armor + v.sect[Loc(p)].int > 0
  <2> DEFINE m == Loc(p)
             s == u.sect[m]
             t == v.sect[m]
  <2>1. "disabled" \in u.part[p].mode
    BY <1>2, <1>4, <1>6, PartMoves
  <2>2. s.flooded /\ s.armor + s.int > 0
    BY <2>1, ServiceableParts
  <2>3. m \in Sections /\ SectEffect(u, v, j, m) /\ s \in SectStates /\ t \in SectStates
    BY <1>2, <1>3, <1>4
  <2>4. v.part[p] # Wreck(p, u.part[p]) /\ v.part[p] # Dried(u.part[p])
    BY <1>4, <1>6, WreckTyped, DriedTyped
  <2>5. s.armor \in Nat /\ s.int \in Nat /\ t.armor \in Nat /\ t.int \in Nat
    BY <2>3 DEF SectStates
  <2>6. \/ t = s
        \/ ArmorFixed(s, t, m)
        \/ IntFixed(s, t, m)
    <3>1. ~SectRazed(u, v, m)
      BY <2>4 DEF SectRazed
    <3>2. ~(\A q \in Parts : Loc(q) = m => v.part[q] = Dried(u.part[q]))
      BY <2>4
    <3>3. ~Reattached(s, t, m)
      BY <2>2, <2>5 DEF Reattached
    <3> QED
      BY <2>3, <3>1, <3>2, <3>3 DEF SectEffect
  <2>7. t.flooded = s.flooded
    BY <2>6 DEF ArmorFixed, IntFixed
  <2>8. t.armor >= s.armor /\ t.int >= s.int
    BY <2>5, <2>6 DEF ArmorFixed, IntFixed
  <2>9. t.armor + t.int > 0
    BY <2>2, <2>5, <2>8
  <2> QED
    BY <2>2, <2>7, <2>9
<1>7. ASSUME NEW p \in Parts
      PROVE  /\ "damaged" \in v.part[p].mode => IsWeapon(p)
             /\ v.part[p].worn # {} => IsWeapon(p)
             /\ v.part[p].nuke => IsWeapon(p)
             /\ ~IsAmmo(p) => v.part[p].data = 0
  BY <1>2, <1>4, PartMoves, ServiceableParts
<1>8. Serviceable(v)
  BY <1>5, <1>6, <1>7 DEF Serviceable, Loc, Kind, IsWeapon, IsAmmo
<1> QED
  BY <1>8 DEF v

LEMMA ServiceableQuiet ==
    ASSUME IInv, Serviceable(unit), Quiet
    PROVE  Serviceable(unit')
<1>1. unit'.sect = unit.sect /\ \A q \in Parts : SamePart(unit.part[q], unit'.part[q], q)
  BY DEF Quiet
<1>2. ASSUME NEW p \in Parts
      PROVE  /\ "disabled" \in unit'.part[p].mode =>
                    /\ unit.sect[Loc(p)].flooded
                    /\ unit.sect[Loc(p)].armor + unit.sect[Loc(p)].int > 0
             /\ "damaged" \in unit'.part[p].mode => IsWeapon(p)
             /\ unit'.part[p].worn # {} => IsWeapon(p)
             /\ unit'.part[p].nuke => IsWeapon(p)
             /\ ~IsAmmo(p) => unit'.part[p].data = 0
  <2>1. SamePart(unit.part[p], unit'.part[p], p)
    BY <1>1
  <2> QED
    BY <2>1, ServiceableParts DEF SamePart
<1>3. unit.sect["CTORSO"].armor + unit.sect["CTORSO"].int > 0
  BY DEF Serviceable
<1> QED
  BY <1>1, <1>2, <1>3 DEF Serviceable, Loc, Kind, IsWeapon, IsAmmo

\* The event of another job leaves a job of internals as much to mend as before.
LEMMA FixingStays ==
    ASSUME IInv, Fixing, NEW j \in jobs, NEW k \in jobs, k # j, k.type = "FIXI",
           k.loc # Front("LARM"), unit' = Outcome(unit, j)
    PROVE  FixingOK(k)'
<1> DEFINE l == k.loc[1]
           s == unit.sect[l]
           t == unit'.sect[l]
<1>1. unit \in UnitStates /\ Bounded(unit) /\ JobOK(j) /\ JobOK(k)
  BY UnitTyped DEF IInv, Exclusive, JobsOK
<1>2. unit' \in UnitStates
  BY <1>1, OutcomeTyped
<1>3. l \in Sections /\ k.loc = Front(l) /\ l # "LARM"
  <2>1. PICK m \in Sections : k.loc = Front(m)
    BY <1>1 DEF JobOK, PartTypes, Mending
  <2> QED
    BY <2>1 DEF Front
<1>4. SectEffect(unit, unit', j, l)
  BY <1>1, <1>3, OutcomeEffect
<1>5. s \in SectStates /\ t \in SectStates /\ Hull[l].int \in Nat
  BY <1>1, <1>2, <1>3, SectOf, HullAssumption
<1>6. s.armor \in Nat /\ s.int \in Nat /\ t.armor \in Nat /\ t.int \in Nat
  BY <1>5 DEF SectStates
<1>7. ~(s.armor = 0 /\ s.int = 0) /\ Hull[l].int - s.int >= 1 /\ k.extra <= Hull[l].int - s.int
  BY DEF Fixing, FixingOK, Destroyed, SectIsDestroyed, IntLack, sect
<1>8. ~(j.type \in {"SCRL", "FIXI"} /\ j.loc[1] = l)
  <2> SUFFICES ASSUME j.type \in {"SCRL", "FIXI"}, j.loc[1] = l
               PROVE  FALSE
    OBVIOUS
  <2>1. PICK m \in Sections : j.loc = Front(m)
    BY <1>1 DEF JobOK, PartTypes, Mending
  <2>2. j.loc = k.loc
    BY <1>3, <2>1 DEF Front
  <2> QED
    BY <2>2 DEF IInv, Exclusive, Apart, Clash, FrontTypes
<1>9. t.int = s.int /\ t.armor >= s.armor
  BY <1>3, <1>4, <1>6, <1>7, <1>8 DEF SectEffect, ArmorFixed, Reattached, Resealed
<1>10. /\ ~(t.armor = 0 /\ t.int = 0)
       /\ Hull[l].int - t.int >= 1 /\ k.extra <= Hull[l].int - t.int
  BY <1>6, <1>7, <1>9
<1> QED
  BY <1>10 DEF FixingOK, Destroyed, SectIsDestroyed, IntLack, sect

\* So does its own, which mends one point of those it has left.
LEMMA FixingGoesOn ==
    ASSUME IInv, Fixing, NEW j \in jobs, j.type = "FIXI", j.loc # Front("LARM"),
           unit' = Outcome(unit, j), NEW k \in Sequel(j)
    PROVE  FixingOK(k)'
<1> DEFINE l == j.loc[1]
           s == unit.sect[l]
           t == unit'.sect[l]
<1>1. unit \in UnitStates /\ Bounded(unit) /\ JobOK(j) /\ j \in Jobs
  BY UnitTyped DEF IInv, Exclusive, JobsOK, JobOK
<1>2. unit' \in UnitStates
  BY <1>1, OutcomeTyped
<1>3. l \in Sections
  BY <1>1 DEF Jobs
<1>4. SectEffect(unit, unit', j, l)
  BY <1>1, <1>3, OutcomeEffect
<1>5. s \in SectStates /\ t \in SectStates /\ Hull[l].int \in Nat
  BY <1>1, <1>2, <1>3, SectOf, HullAssumption
<1>6. s.armor \in Nat /\ s.int \in Nat /\ t.armor \in Nat /\ t.int \in Nat
  BY <1>5 DEF SectStates
<1>7. ~(s.armor = 0 /\ s.int = 0) /\ j.extra <= Hull[l].int - s.int
  BY DEF Fixing, FixingOK, Destroyed, SectIsDestroyed, IntLack, sect
<1>8. k = [j EXCEPT !.extra = j.extra - 1] /\ j.extra - 1 > 0
  BY DEF Sequel
<1>9. k.loc = j.loc /\ k.extra = j.extra - 1 /\ j.extra \in Int
  BY <1>1, <1>8 DEF Jobs
<1>10. t.armor = s.armor /\ s.int <= t.int /\ t.int <= s.int + 1
  BY <1>4, <1>6 DEF SectEffect, IntFixed
<1>11. /\ ~(t.armor = 0 /\ t.int = 0)
       /\ Hull[l].int - t.int >= 1 /\ k.extra <= Hull[l].int - t.int
  BY <1>5, <1>6, <1>7, <1>8, <1>9, <1>10
<1> QED
  BY <1>9, <1>11 DEF FixingOK, Destroyed, SectIsDestroyed, IntLack, sect

LEMMA FixingKept ==
    ASSUME IInv, Fixing, NEW j \in jobs, TechEvent(j)
    PROVE  Fixing'
<1> SUFFICES ASSUME NEW k \in jobs', k.type = "FIXI", k.loc # Front("LARM")
             PROVE  FixingOK(k)'
  BY DEF Fixing, Front
<1>1. unit' = Outcome(unit, j) /\ k \in (jobs \ {j}) \cup Sequel(j)
  BY DEF TechEvent
<1>2. CASE k \in jobs \ {j}
  BY <1>1, <1>2, FixingStays
<1>3. CASE k \in Sequel(j)
  <2>1. j \in Jobs
    BY DEF IInv, Exclusive, JobsOK, JobOK
  <2>2. k.type = j.type /\ k.loc = j.loc
    BY <1>3, <2>1 DEF Sequel, Jobs
  <2> QED
    BY <1>1, <1>3, <2>2, FixingGoesOn
<1> QED
  BY <1>1, <1>2, <1>3

LEMMA InitTInv == Init => TInv
<1> SUFFICES ASSUME Init
             PROVE  TInv
  OBVIOUS
<1>1. IInv
  BY InitIInv
<1>2. Serviceable(unit)
  BY ServiceAssumption DEF Init
<1>3. Fixing
  BY DEF Init, Fixing
<1> QED
  BY <1>1, <1>2, <1>3 DEF TInv

LEMMA NextTInv == TInv /\ [Next]_vars => TInv'
<1> SUFFICES ASSUME TInv, [Next]_vars
             PROVE  TInv'
  OBVIOUS
<1>1. IInv /\ Serviceable(unit) /\ Fixing
  BY DEF TInv
<1>2. IInv'
  BY <1>1, NextIInv
<1>3. CASE Tech
  <2>1. Quiet
    BY <1>1, <1>3, TechKeeps DEF IInv
  <2>2. Serviceable(unit')
    BY <1>1, <2>1, ServiceableQuiet
  <2>3. ASSUME NEW k \in jobs', k.type = "FIXI", k.loc # Front("LARM")
        PROVE  FixingOK(k)'
    <3>1. FixingOK(k)
      BY <1>1, <2>1, <2>3 DEF Quiet, Fixing
    <3> QED
      BY <2>1, <3>1 DEF Quiet, FixingOK, Destroyed, SectIsDestroyed, IntLack, sect
  <2>4. Fixing'
    BY <2>3 DEF Fixing, Front
  <2> QED
    BY <1>2, <2>2, <2>4 DEF TInv, Serviceable
<1>4. ASSUME NEW j \in jobs, TechEvent(j)
      PROVE  TInv'
  <2>1. unit \in UnitStates /\ Bounded(unit) /\ JobOK(j) /\ unit' = Outcome(unit, j)
    BY <1>1, <1>4, UnitTyped DEF IInv, Exclusive, JobsOK, TechEvent
  <2>2. Serviceable(unit')
    BY <1>1, <2>1, ServiceableKept
  <2>3. Fixing'
    BY <1>1, <1>4, FixingKept
  <2> QED
    BY <1>2, <2>2, <2>3 DEF TInv, Serviceable
<1>5. CASE mech_startup \/ mech_startup_event \/ mech_shutdown \/ UNCHANGED vars
  <2>1. unit' = unit /\ jobs' = jobs
    BY <1>5 DEF mech_startup, mech_startup_event, mech_shutdown, vars
  <2> QED
    BY <1>1, <1>2, <2>1 DEF TInv, Serviceable, Fixing, FixingOK, Destroyed, SectIsDestroyed,
                            IntLack, sect, Front
<1>6. CASE Restart
  <2>1. unit' = unit /\ jobs' = Loaded(jobs)
    BY <1>6 DEF Restart
  <2>2. ASSUME NEW k \in jobs', k.type = "FIXI", k.loc # Front("LARM")
        PROVE  FixingOK(k)'
    <3>1. PICK j \in jobs : k = Reloaded(j) /\ (j.fn = "very_fake_func" \/ j.type # "RESE")
      BY <2>1, LoadedFrom
    <3>2. JobOK(j)
      BY <1>1 DEF IInv, Exclusive, JobsOK
    <3>3. k.type = j.type /\ k.loc = j.loc /\ k.extra = j.extra
      BY <3>1, <3>2, ReloadedOK DEF Alike
    <3>4. FixingOK(j)
      BY <1>1, <2>2, <3>3 DEF Fixing
    <3> QED
      BY <2>1, <3>3, <3>4 DEF FixingOK, Destroyed, SectIsDestroyed, IntLack, sect
  <2>3. Fixing'
    BY <2>2 DEF Fixing, Front
  <2> QED
    BY <1>1, <1>2, <2>1, <2>3 DEF TInv, Serviceable
<1> QED
  BY <1>3, <1>4, <1>5, <1>6 DEF Next

LEMMA SpecTInv == Spec => []TInv
BY InitTInv, NextTInv, PTL DEF Spec

\* What TableExact asks of each line.
Answered(e) == is_under_repair(e) \/ fix_entry(e) \/ Deferred(e)

LEMMA EntryFields ==
    ASSUME NEW what, NEW l, NEW side, NEW pos
    PROVE  LET e == Entry(what, <<l, side>>, pos)
           IN  /\ e.what = what /\ e.loc = <<l, side>> /\ e.loc[1] = l
               /\ e.pos = pos /\ e.crit = 0
BY DEF Entry

\* A section that is off, or leaks.
LEMMA SectionLine ==
    ASSUME TInv, NEW l \in Sections, ~Invalid_Repair_Path(l), NEW e,
           \/ Destroyed(l) /\ e = Entry("REATTACH", Front(l), None)
           \/ ~Destroyed(l) /\ Flooded(l) /\ e = Entry("RESEAL", Front(l), None)
    PROVE  Answered(e)
<1>1. unit_is_fixable
  <2>1. unit \in UnitStates /\ "CTORSO" \in Sections
    BY UnitTyped, HullAssumption DEF TInv, IInv
  <2> QED
    BY <2>1, NotGone DEF unit_is_fixable, Destroyed, TInv, Serviceable
<1>2. CASE Destroyed(l) /\ e = Entry("REATTACH", Front(l), None)
  <2>1. e.what = "REATTACH" /\ e.loc[1] = l
    BY <1>2, EntryFields DEF Front
  <2> QED
    BY <1>1, <1>2, <2>1 DEF Answered, is_under_repair, fix_entry, MayReattach
<1>3. CASE ~Destroyed(l) /\ Flooded(l) /\ e = Entry("RESEAL", Front(l), None)
  <2>1. e.what = "RESEAL" /\ e.loc[1] = l
    BY <1>3, EntryFields DEF Front
  <2> QED
    BY <1>3, <2>1 DEF Answered, is_under_repair, fix_entry, MayReseal
<1> QED
  BY <1>2, <1>3

\* Internals and armor.
LEMMA HullLine ==
    ASSUME TInv, NEW l \in Sections, ~Destroyed(l), ~Flooded(l), NEW e \in HullDamages(l)
    PROVE  Answered(e)
<1>1. IInv /\ Fixing
  BY DEF TInv
<1>2. CASE IntLack(l) # 0
  <2>1. e.what = "FIXINTERNAL" /\ e.loc = Front(l) /\ e.loc[1] = l
    BY <1>2, EntryFields DEF HullDamages, Front
  <2> QED
    BY <1>2, <2>1 DEF Answered, is_under_repair, fix_entry, MayFixInternal, Deferred
<1>3. CASE IntLack(l) = 0
  <2>1. PICK k \in {Front(l), Rear(l)} : ArmorLack(k) # 0 /\ e = Entry("FIXARMOR", k, None)
    BY <1>3 DEF HullDamages
  <2>2. k[1] = l
    BY DEF Front, Rear
  <2>3. e.what = "FIXARMOR" /\ e.loc = k /\ e.loc[1] = l
    BY <2>1, <2>2 DEF Entry
  <2>4. ArmorLack(k) > 0
    <3>1. unit.sect[l] \in SectStates /\ Hull[l] \in [armor : Nat, rear : Nat, int : Nat]
      BY <1>1, UnitTyped, SectOf, HullAssumption DEF IInv
    <3>2. unit.sect[l].armor <= Hull[l].armor /\ unit.sect[l].rear <= Hull[l].rear
      BY <1>1 DEF IInv, Bounded
    <3> QED
      BY <2>1, <3>1, <3>2 DEF ArmorLack, sect, Front, Rear, SectStates
  <2>5. CASE k = Front(l)
    BY <1>3, <2>2, <2>3, <2>4, <2>5 DEF Answered, is_under_repair, fix_entry, MayFixArmor,
                                       Deferred, SomeoneFixing
  <2>6. CASE k = Rear(l)
    <3>1. ~SomeoneScrappingLoc(Rear(l))
      <4>1. ASSUME NEW j \in jobs, j.type = "SCRL"
            PROVE  j.loc # Rear(l)
        <5>1. JobOK(j)
          BY <1>1 DEF IInv, Exclusive, JobsOK
        <5>2. \E m \in Sections : j.loc = Front(m)
          BY <4>1, <5>1 DEF JobOK, PartTypes, Mending
        <5> QED
          BY <5>2 DEF Front, Rear
      <4> QED
        BY <4>1 DEF SomeoneScrappingLoc, AtLoc
    <3>2. l # "LARM"
      <4>1. ASSUME l = "LARM"
            PROVE  FALSE
        <5>1. unit.sect[l].rear \in Nat /\ unit.sect[l].rear <= Hull[l].rear /\ Hull[l].rear = 0
          BY <1>1, <4>1, UnitTyped, SectOf, ServiceAssumption DEF IInv, Bounded, SectStates
        <5> QED
          BY <2>4, <2>6, <5>1 DEF ArmorLack, Rear, sect
      <4> QED
        BY <4>1
    <3>3. ~SomeoneFixingI(Front(l))
      <4>1. ASSUME NEW j \in jobs, j.type = "FIXI", j.loc = Front(l)
            PROVE  FALSE
        <5>1. j.loc # Front("LARM") /\ j.loc[1] = l
          BY <3>2, <4>1 DEF Front
        <5>2. IntLack(l) >= 1
          BY <1>1, <4>1, <5>1 DEF Fixing, FixingOK
        <5> QED
          BY <1>3, <5>2
      <4> QED
        BY <4>1 DEF SomeoneFixingI, AtLoc
    <3> QED
      BY <1>3, <2>2, <2>3, <2>4, <2>6, <3>1, <3>3
         DEF Answered, is_under_repair, fix_entry, MayFixArmor, SomeoneFixing
  <2> QED
    BY <2>1, <2>5, <2>6
<1> QED
  BY <1>2, <1>3

\* Guns, parts and ammo.
LEMMA PartLine ==
    ASSUME TInv, NEW p \in Parts, ~Destroyed(Loc(p)), ~Flooded(Loc(p)), NEW e \in PartDamages(p)
    PROVE  Answered(e)
<1>1. /\ ~PartIsDisabled(p)
      /\ PartIsDamaged(p) => IsWeapon(p)
      /\ part[p].worn # {} => IsWeapon(p)
      /\ part[p].nuke => IsWeapon(p)
  BY ServiceableParts DEF TInv, PartIsDisabled, PartIsDamaged, part, Flooded, sect
<1>2. e.pos = p /\ e.loc = Front(Loc(p)) /\ e.loc[1] = Loc(p)
  <2>1. \/ \E what : e = Entry(what, Front(Loc(p)), p)
        \/ \E n \in part[p].worn : e = [Entry("ENHCRIT", Front(Loc(p)), p) EXCEPT !.crit = n]
    BY DEF PartDamages
  <2> QED
    BY <2>1 DEF Front, Entry
<1>3. \/ e.crit = 0 /\ e.what = "RELOAD" /\ IsAmmo(p) /\ ~PartIsDestroyed(p) /\ part[p].data # FULL
      \/ e.what = "MIDDLE"
      \/ e.what = "ENHCRIT" /\ CritIsDamaged(p, e.crit)
      \/ /\ e.crit = 0 /\ e.what = "REPAIRP_T" /\ Hurt(p) /\ ~PartIsDamaged(p)
         /\ Kind(p) = "big" /\ part[p].rest # "gone"
      \/ e.crit = 0 /\ e.what = "REPAIRG" /\ IsWeapon(p)
      \/ e.crit = 0 /\ e.what = "REPAIRP" /\ Hurt(p) /\ ~PartIsDamaged(p) /\ ~IsWeapon(p)
  <2> DEFINE line(what) == Entry(what, Front(Loc(p)), p)
  <2>1. \/ e = line("RELOAD") /\ IsAmmo(p) /\ ~PartIsDestroyed(p) /\ part[p].data # FULL
        \/ e = line("MIDDLE")
        \/ \E n \in part[p].worn : e = [line("ENHCRIT") EXCEPT !.crit = n]
        \/ e = line("ENHCRIT") /\ PartIsDamaged(p)
        \/ /\ e = line("REPAIRP_T") /\ Hurt(p) /\ ~PartIsDamaged(p)
           /\ Kind(p) = "big" /\ part[p].rest # "gone"
        \/ e = line("REPAIRG") /\ IsWeapon(p)
        \/ e = line("REPAIRP") /\ Hurt(p) /\ ~PartIsDamaged(p) /\ ~IsWeapon(p)
    <3>1. CASE ~Hurt(p)
      BY <3>1 DEF PartDamages
    <3>2. CASE Hurt(p) /\ PartIsDamaged(p)
      BY <3>2 DEF PartDamages
    <3>3. CASE Hurt(p) /\ ~PartIsDamaged(p)
      BY <3>3 DEF PartDamages
    <3> QED
      BY <3>1, <3>2, <3>3
  <2>2. \A what : line(what).what = what /\ line(what).crit = 0
    BY DEF Entry
  <2>3. ASSUME NEW n \in part[p].worn, e = [line("ENHCRIT") EXCEPT !.crit = n]
        PROVE  e.what = "ENHCRIT" /\ CritIsDamaged(p, e.crit)
    <3>1. e.what = "ENHCRIT" /\ e.crit = n
      BY <2>3 DEF Entry
    <3>2. part[p] \in PartStates
      BY UnitTyped, PartOf DEF TInv, IInv, part
    <3>3. n # 0
      BY <3>2 DEF PartStates, LAST
    <3> QED
      BY <3>1, <3>3 DEF CritIsDamaged
  <2> HIDE DEF line
  <2> QED
    BY <2>1, <2>2, <2>3 DEF CritIsDamaged
<1> SUFFICES ASSUME ~AtCrit(Mending, p, e.crit), ~AtCrit(Scrapping, p, e.crit),
                    ~SomeoneScrappingLoc(Front(Loc(p)))
             PROVE  fix_entry(e) \/ Deferred(e)
  BY <1>2, <1>3 DEF Answered, is_under_repair, Deferred
<1>4. /\ Sound(p)
      /\ e.crit = 0 => ~SomeoneRepairing(p) /\ ~SomeoneScrappingPart(p)
  BY DEF Sound, SomeoneRepairing, SomeoneScrappingPart, AtPart
<1>5. CASE e.crit = 0 /\ e.what = "RELOAD" /\ IsAmmo(p) /\ ~PartIsDestroyed(p) /\ part[p].data # FULL
  BY <1>1, <1>2, <1>4, <1>5 DEF fix_entry, MayReload, MayHandleAmmo, PartIsNonfunctional
<1>6. CASE e.what = "MIDDLE"
  BY <1>6 DEF Deferred
<1>7. CASE e.what = "ENHCRIT" /\ CritIsDamaged(p, e.crit)
  <2>1. IsWeapon(p)
    BY <1>1, <1>7 DEF CritIsDamaged
  <2> QED
    BY <1>1, <1>2, <1>4, <1>7, <2>1 DEF fix_entry, MayFixEnhCrit
<1>8. CASE /\ e.crit = 0 /\ e.what = "REPAIRP_T" /\ Hurt(p) /\ ~PartIsDamaged(p)
           /\ Kind(p) = "big" /\ part[p].rest # "gone"
  <2>1. IsWeapon(p) /\ Mendable(p)
    BY <1>1, <1>8 DEF IsWeapon, Mendable, Hurt, PartIsNonfunctional
  <2> QED
    BY <1>1, <1>2, <1>4, <1>8, <2>1 DEF fix_entry, MayRepairGun
<1>9. CASE e.crit = 0 /\ e.what = "REPAIRG" /\ IsWeapon(p)
  BY <1>2, <1>4, <1>9 DEF fix_entry, MayReplaceGun, Deferred
<1>10. CASE e.crit = 0 /\ e.what = "REPAIRP" /\ Hurt(p) /\ ~PartIsDamaged(p) /\ ~IsWeapon(p)
  BY <1>1, <1>2, <1>4, <1>10 DEF fix_entry, MayReplacePart, Hurt
<1> QED
  BY <1>3, <1>5, <1>6, <1>7, <1>8, <1>9, <1>10

LEMMA EveryLine ==
    ASSUME TInv, NEW e \in make_damage_table
    PROVE  Answered(e)
<1>1. PICK l \in {"CTORSO", "LTORSO", "LARM"} :
           /\ e \in check_for_damage(l)
           /\ l = "LTORSO" => Whole("CTORSO")
           /\ l = "LARM" => Whole("LTORSO")
  BY DEF make_damage_table
<1>2. l \in Sections
  BY ServiceAssumption
<1>3. ~Invalid_Repair_Path(l)
  BY <1>1 DEF Invalid_Repair_Path, Whole
<1>4. CASE Destroyed(l)
  BY <1>1, <1>2, <1>3, <1>4, SectionLine DEF check_for_damage
<1>5. CASE ~Destroyed(l) /\ Flooded(l)
  BY <1>1, <1>2, <1>3, <1>5, SectionLine DEF check_for_damage
<1>6. CASE ~Destroyed(l) /\ ~Flooded(l)
  <2>1. CASE e \in HullDamages(l)
    BY <1>2, <1>6, <2>1, HullLine
  <2>2. CASE e \notin HullDamages(l)
    <3>1. PICK p \in Parts : Loc(p) = l /\ e \in PartDamages(p)
      BY <1>1, <1>6, <2>2 DEF check_for_damage
    <3> QED
      BY <1>6, <3>1, PartLine
  <2> QED
    BY <2>1, <2>2
<1> QED
  BY <1>4, <1>5, <1>6

-----------------------------------------------------------------------------
\* An empty list.

LEMMA NothingListed ==
    ASSUME make_damage_table = {}
    PROVE  \A l \in Sections : check_for_damage(l) = {}
<1>1. check_for_damage("CTORSO") = {}
  BY DEF make_damage_table
<1>2. Whole("CTORSO")
  BY <1>1 DEF check_for_damage, Whole
<1>3. check_for_damage("LTORSO") = {}
  BY <1>2 DEF make_damage_table
<1>4. Whole("LTORSO")
  BY <1>3 DEF check_for_damage, Whole
<1>5. check_for_damage("LARM") = {}
  BY <1>2, <1>4 DEF make_damage_table
<1> QED
  BY <1>1, <1>3, <1>5, ServiceAssumption

LEMMA NothingLacks ==
    ASSUME TInv, NEW l \in Sections, check_for_damage(l) = {}
    PROVE  sect[l] = [armor |-> Hull[l].armor, rear |-> Hull[l].rear,
                      int |-> Hull[l].int, flooded |-> FALSE]
<1>1. ~Destroyed(l) /\ ~Flooded(l) /\ HullDamages(l) = {}
  BY DEF check_for_damage
<1>2. IntLack(l) = 0
  BY <1>1 DEF HullDamages
<1>3. \A k \in {Front(l), Rear(l)} : ArmorLack(k) = 0
  BY <1>1, <1>2 DEF HullDamages
<1>4. sect[l] \in SectStates /\ Hull[l] \in [armor : Nat, rear : Nat, int : Nat]
  BY UnitTyped, SectOf, HullAssumption DEF TInv, IInv, sect
<1>5. sect[l].armor = Hull[l].armor /\ sect[l].rear = Hull[l].rear /\ sect[l].int = Hull[l].int
  BY <1>2, <1>3, <1>4 DEF IntLack, ArmorLack, Front, Rear, SectStates
<1>6. sect[l].flooded = FALSE
  BY <1>1, <1>4 DEF Flooded, SectStates
<1> QED
  BY <1>4, <1>5, <1>6 DEF SectStates

LEMMA NothingHurt ==
    ASSUME TInv, NEW p \in Parts, check_for_damage(Loc(p)) = {}
    PROVE  part[p] = [mode |-> {}, rest |-> "ok", worn |-> {}, nuke |-> FALSE,
                      data |-> IF IsAmmo(p) THEN FULL ELSE 0]
<1>1. PartDamages(p) = {}
  BY DEF check_for_damage
<1>2. ~Hurt(p) /\ part[p].rest = "ok" /\ part[p].worn = {}
  <2>1. ~Hurt(p)
    BY <1>1 DEF PartDamages
  <2>2. part[p].rest = "ok"
    BY <1>1, <2>1 DEF PartDamages
  <2>3. ASSUME NEW n \in part[p].worn
        PROVE  FALSE
    <3>1. PartDamages(p) # {}
      BY <2>1, <2>2 DEF PartDamages
    <3> QED
      BY <1>1, <3>1
  <2> QED
    BY <2>1, <2>2, <2>3
<1>3. part[p] \in PartStates
  BY UnitTyped, PartOf DEF TInv, IInv, part
<1>4. part[p].mode = {}
  BY <1>2, <1>3 DEF Hurt, PartIsNonfunctional, PartIsDestroyed, PartIsDisabled, PartIsDamaged,
                    PartStates
<1>5. part[p].nuke = FALSE
  BY <1>2, <1>3 DEF Hurt, PartStates
<1>6. CASE IsAmmo(p)
  <2>1. part[p].data = FULL
    BY <1>1, <1>2, <1>6 DEF PartDamages, Hurt, PartIsNonfunctional
  <2> QED
    BY <1>2, <1>3, <1>4, <1>5, <1>6, <2>1 DEF PartStates
<1>7. CASE ~IsAmmo(p)
  <2>1. part[p].data = 0
    BY <1>7, ServiceableParts DEF TInv, part
  <2> QED
    BY <1>2, <1>3, <1>4, <1>5, <1>7, <2>1 DEF PartStates
<1> QED
  BY <1>6, <1>7

LEMMA EmptyList ==
    ASSUME TInv, make_damage_table = {}
    PROVE  Pristine
<1>1. \A l \in Sections : check_for_damage(l) = {}
  BY NothingListed
<1>2. \A p \in Parts : Loc(p) \in Sections
  BY HullAssumption DEF Loc
<1> QED
  BY <1>1, <1>2, NothingLacks, NothingHurt DEF Pristine

\* The list of damages tells the truth, for any unit of this build and any number of
\* technicians: whatever is listed is being mended, or can be started, or waits for what
\* Deferred names, and an empty list is a unit as good as new (make_damage_table and
\* is_under_repair in mech.tech.damages.c).
THEOREM ListTruthful == Spec => []TableExact
<1>1. TInv => TableExact
  BY EveryLine, EmptyList DEF TableExact, Answered
<1> QED
  BY <1>1, SpecTInv, PTL
-----------------------------------------------------------------------------
\* Sums.  SumFunction adds the values of a function by a recursion on the sets of its
\* arguments, taking out an arbitrary one each time.

Chosen(t) == CHOOSE x \in t : TRUE

\* s is what the recursion computes from v for each set of arguments.
Adds(s, v) ==
    s = [t \in SUBSET DOMAIN v |-> IF t = {} THEN 0 ELSE v[Chosen(t)] + s[t \ {Chosen(t)}]]

LEMMA SumUnfolds ==
    ASSUME NEW v
    PROVE  SumFunction(v) = (CHOOSE s : Adds(s, v))[DOMAIN v]
BY DEF SumFunction, SumFunctionOnSet, FoldFunctionOnSet, MapThenFoldSet, Adds, Chosen

LEMMA ChosenIn ==
    ASSUME NEW t, t # {}
    PROVE  Chosen(t) \in t
BY DEF Chosen

\* A subset without one of its elements.
LEMMA OneLess ==
    ASSUME NEW S, IsFiniteSet(S), NEW t \in SUBSET S, NEW x \in t
    PROVE  /\ t \ {x} \in SUBSET S /\ x \in S
           /\ Cardinality(t) \in Nat /\ Cardinality(t) >= 1
           /\ Cardinality(t \ {x}) = Cardinality(t) - 1
<1>1. IsFiniteSet(t)
  BY FS_Subset
<1>2. Cardinality(t) \in Nat /\ Cardinality(t) # 0
  BY <1>1, FS_CardinalityType, FS_EmptySet
<1>3. Cardinality(t \ {x}) = Cardinality(t) - 1
  BY <1>1, FS_RemoveElement
<1> QED
  BY <1>2, <1>3

\* Up to the sets of n elements the recursion has a solution, and so for all sets.
LEMMA AddsExists ==
    ASSUME NEW S, IsFiniteSet(S), NEW v, DOMAIN v = S
    PROVE  \E s : Adds(s, v)
<1> DEFINE N == Cardinality(S)
           Small(n) == {t \in SUBSET S : Cardinality(t) <= n}
           Turn(s, t) == IF t = {} THEN 0 ELSE v[Chosen(t)] + s[t \ {Chosen(t)}]
           Upto(s, n) == s = [t \in Small(n) |-> s[t]] /\ \A t \in Small(n) : s[t] = Turn(s, t)
           T == {n \in 0..N : \E s : Upto(s, n)}
<1>1. N \in Nat
  BY FS_CardinalityType
<1>2. 0 \in T
  <2> DEFINE s == [t \in Small(0) |-> 0]
  <2>1. \A t \in Small(0) : t = {}
    <3>1. ASSUME NEW t \in Small(0) PROVE t = {}
      <4>1. IsFiniteSet(t) /\ Cardinality(t) <= 0
        BY FS_Subset
      <4>2. Cardinality(t) = 0
        BY <4>1, FS_CardinalityType
      <4> QED
        BY <4>1, <4>2, FS_EmptySet
    <3> QED
      BY <3>1
  <2>2. Upto(s, 0)
    BY <2>1
  <2> HIDE DEF s, Upto
  <2> QED
    BY <1>1, <2>2
<1>3. ASSUME NEW n \in 1..N, n - 1 \in T
      PROVE  n \in T
  <2>1. PICK r : Upto(r, n - 1)
    BY <1>3
  <2> DEFINE s == [t \in Small(n) |-> IF Cardinality(t) <= n - 1 THEN r[t] ELSE Turn(r, t)]
  <2>2. \A t \in Small(n) : t # {} =>
           t \ {Chosen(t)} \in Small(n - 1) /\ t \ {Chosen(t)} \in Small(n)
    <3>1. ASSUME NEW t \in Small(n), t # {}
          PROVE  t \ {Chosen(t)} \in Small(n - 1) /\ t \ {Chosen(t)} \in Small(n)
      <4>1. Chosen(t) \in t
        BY <3>1, ChosenIn
      <4>2. /\ t \ {Chosen(t)} \in SUBSET S /\ Cardinality(t) \in Nat
            /\ Cardinality(t \ {Chosen(t)}) = Cardinality(t) - 1
        BY <4>1, OneLess
      <4> QED
        BY <4>2
    <3> QED
      BY <3>1
  <2>3. \A t \in Small(n - 1) : t \in Small(n) /\ s[t] = r[t]
    <3>1. \A t \in SUBSET S : Cardinality(t) \in Nat
      BY FS_Subset, FS_CardinalityType
    <3> QED
      BY <1>1, <3>1
  <2>4. ASSUME NEW t \in Small(n)
        PROVE  s[t] = Turn(s, t)
    <3>1. t # {} => s[t \ {Chosen(t)}] = r[t \ {Chosen(t)}]
      <4> HIDE DEF s, Small
      <4> QED
        BY <2>2, <2>3
    <3>2. Turn(s, t) = Turn(r, t)
      <4> HIDE DEF s
      <4> QED
        BY <3>1
    <3>3. Cardinality(t) <= n - 1 => r[t] = Turn(r, t)
      BY <2>1
    <3>4. s[t] = IF Cardinality(t) <= n - 1 THEN r[t] ELSE Turn(r, t)
      BY DEF s
    <3> HIDE DEF s, Turn
    <3> QED
      BY <3>2, <3>3, <3>4
  <2>5. s = [t \in Small(n) |-> s[t]]
    BY DEF s
  <2>6. Upto(s, n)
    <3> HIDE DEF s, Turn, Small
    <3> QED
      BY <2>4, <2>5
  <2> HIDE DEF s, Upto
  <2> QED
    BY <1>1, <2>6
<1>4. N \in T
  <2> HIDE DEF T, N
  <2>1. 0..N \subseteq T
    BY ONLY <1>1, <1>2, <1>3, Induct
  <2> QED
    BY <1>1, <2>1
<1>5. PICK s : Upto(s, N)
  BY <1>4
<1>6. Small(N) = SUBSET DOMAIN v
  BY FS_Subset
<1>7. s = [t \in SUBSET DOMAIN v |-> s[t]] /\ \A t \in SUBSET DOMAIN v : s[t] = Turn(s, t)
  <2> HIDE DEF Small, N, Turn
  <2> QED
    BY <1>5, <1>6
<1>8. Adds(s, v)
  BY <1>7 DEF Adds
<1> QED
  BY <1>8

\* What it computes, a step at a time, and in any order.
Stepwise(s, v, S) ==
    /\ s[{}] = 0
    /\ \A t \in SUBSET S : t # {} =>
          /\ Chosen(t) \in t /\ Chosen(t) \in S /\ t \ {Chosen(t)} \in SUBSET S
          /\ s[t] = v[Chosen(t)] + s[t \ {Chosen(t)}]
          /\ Cardinality(t) \in Nat /\ Cardinality(t) >= 1
          /\ Cardinality(t \ {Chosen(t)}) = Cardinality(t) - 1

AnyOrder(s, v, S) ==
    \A t \in SUBSET S : \A y \in S \ t : s[t \cup {y}] = v[y] + s[t]

LEMMA AddsSteps ==
    ASSUME NEW S, IsFiniteSet(S), NEW v, DOMAIN v = S, NEW s, Adds(s, v)
    PROVE  Stepwise(s, v, S)
<1>1. \A t \in SUBSET S :
         s[t] = IF t = {} THEN 0 ELSE v[Chosen(t)] + s[t \ {Chosen(t)}]
  <2> DEFINE F(t) == IF t = {} THEN 0 ELSE v[Chosen(t)] + s[t \ {Chosen(t)}]
  <2>1. s = [t \in SUBSET S |-> F(t)]
    BY DEF Adds
  <2> HIDE DEF F
  <2>2. \A t \in SUBSET S : s[t] = F(t)
    BY <2>1
  <2> QED
    BY <2>2 DEF F
<1>2. {} \in SUBSET S
  OBVIOUS
<1>3. ASSUME NEW t \in SUBSET S, t # {}
      PROVE  /\ Chosen(t) \in t /\ Chosen(t) \in S /\ t \ {Chosen(t)} \in SUBSET S
             /\ s[t] = v[Chosen(t)] + s[t \ {Chosen(t)}]
             /\ Cardinality(t) \in Nat /\ Cardinality(t) >= 1
             /\ Cardinality(t \ {Chosen(t)}) = Cardinality(t) - 1
  <2>1. Chosen(t) \in t
    BY <1>3, ChosenIn
  <2> QED
    BY <1>1, <1>3, <2>1, OneLess
<1> QED
  BY <1>1, <1>2, <1>3 DEF Stepwise

LEMMA AddsNat ==
    ASSUME NEW S, IsFiniteSet(S), NEW v \in [S -> Nat], NEW s, Adds(s, v)
    PROVE  \A t \in SUBSET S : s[t] \in Nat
<1> DEFINE N == Cardinality(S)
           T == {n \in 0..N : \A t \in SUBSET S : Cardinality(t) <= n => s[t] \in Nat}
<1>1. N \in Nat
  BY FS_CardinalityType
<1>2. ASSUME NEW t \in SUBSET S
      PROVE  Cardinality(t) \in 0..N /\ (Cardinality(t) = 0 => t = {})
  <2>1. IsFiniteSet(t) /\ Cardinality(t) <= N
    BY FS_Subset
  <2>2. Cardinality(t) \in Nat
    BY <2>1, FS_CardinalityType
  <2> QED
    BY <1>1, <2>1, <2>2, FS_EmptySet
<1>0. Stepwise(s, v, S)
  <2>1. DOMAIN v = S
    OBVIOUS
  <2> QED
    BY <2>1, AddsSteps
<1>3. s[{}] = 0
  BY <1>0 DEF Stepwise
<1>4. 0 \in T
  BY <1>1, <1>2, <1>3
<1>5. ASSUME NEW n \in 1..N, n - 1 \in T
      PROVE  n \in T
  <2>1. ASSUME NEW t \in SUBSET S, Cardinality(t) <= n
        PROVE  s[t] \in Nat
    <3>1. CASE t = {}
      BY <1>3, <3>1
    <3>2. CASE t # {}
      <4> DEFINE x == Chosen(t)
      <4>1. /\ x \in S /\ t \ {x} \in SUBSET S /\ s[t] = v[x] + s[t \ {x}]
            /\ Cardinality(t) \in Nat /\ Cardinality(t \ {x}) = Cardinality(t) - 1
        BY <3>2, <1>0 DEF Stepwise
      <4> HIDE DEF x
      <4>2. s[t \ {x}] \in Nat
        BY <1>5, <2>1, <4>1
      <4> QED
        BY <4>1, <4>2
    <3> QED
      BY <3>1, <3>2
  <2> QED
    BY <2>1
<1>6. 0..N \subseteq T
  <2> HIDE DEF T, N
  <2> QED
    BY ONLY <1>1, <1>4, <1>5, Induct
<1> QED
  BY <1>1, <1>2, <1>6

\* The element taken out does not matter.
LEMMA AddsInsert ==
    ASSUME NEW S, IsFiniteSet(S), NEW v \in [S -> Nat], NEW s, Adds(s, v)
    PROVE  AnyOrder(s, v, S)
<1> DEFINE N == Cardinality(S)
           T == {n \in 0..N : \A t \in SUBSET S : Cardinality(t) <= n =>
                    \A y \in S \ t : s[t \cup {y}] = v[y] + s[t]}
<1>0. \A u \in SUBSET S : u # {} =>
        Chosen(u) \in u /\ Chosen(u) \in S /\ s[u] = v[Chosen(u)] + s[u \ {Chosen(u)}]
  <2>1. DOMAIN v = S
    OBVIOUS
  <2>2. Stepwise(s, v, S)
    BY <2>1, AddsSteps
  <2> QED
    BY <2>2 DEF Stepwise
<1>1. N \in Nat
  BY FS_CardinalityType
<1>2. ASSUME NEW t \in SUBSET S
      PROVE  Cardinality(t) \in 0..N /\ (Cardinality(t) = 0 => t = {})
  <2>1. IsFiniteSet(t) /\ Cardinality(t) <= N
    BY FS_Subset
  <2>2. Cardinality(t) \in Nat
    BY <2>1, FS_CardinalityType
  <2> QED
    BY <1>1, <2>1, <2>2, FS_EmptySet
<1>3. \A t \in SUBSET S : s[t] \in Nat
  BY AddsNat
<1>4. ASSUME NEW t \in SUBSET S, NEW y \in S \ t, Chosen(t \cup {y}) = y
      PROVE  s[t \cup {y}] = v[y] + s[t]
  <2> DEFINE u == t \cup {y}
  <2>1. u \in SUBSET S /\ u # {} /\ u \ {y} = t /\ Chosen(u) = y
    BY <1>4
  <2> HIDE DEF u
  <2>2. s[u] = v[y] + s[u \ {y}]
    BY <2>1, <1>0
  <2>3. s[u] = v[y] + s[t]
    BY <2>1, <2>2
  <2> QED
    BY <2>3 DEF u
<1>5. 0 \in T
  <2>1. ASSUME NEW t \in SUBSET S, Cardinality(t) <= 0, NEW y \in S \ t
        PROVE  s[t \cup {y}] = v[y] + s[t]
    <3>1. t = {}
      BY <1>2, <2>1
    <3>2. Chosen(t \cup {y}) = y
      BY <3>1, ChosenIn
    <3> QED
      BY <1>4, <3>2
  <2> QED
    BY <1>1, <2>1
<1>6. ASSUME NEW n \in 1..N, n - 1 \in T
      PROVE  n \in T
  <2>1. ASSUME NEW t \in SUBSET S, Cardinality(t) <= n, NEW y \in S \ t
        PROVE  s[t \cup {y}] = v[y] + s[t]
    <3> DEFINE u == t \cup {y}
               x == Chosen(u)
               r == t \ {x}
    <3>1. u \in SUBSET S /\ u # {}
      OBVIOUS
    <3>2. x \in u /\ x \in S /\ s[u] = v[x] + s[u \ {x}]
      <4> HIDE DEF u
      <4> QED
        BY <3>1, <1>0
    <3>3. CASE x = y
      BY <1>4, <3>3
    <3>4. CASE x # y
      <4> HIDE DEF x
      <4>1. x \in t
        BY <3>2, <3>4
      <4>2. r \in SUBSET S /\ Cardinality(r) = Cardinality(t) - 1 /\ Cardinality(t) \in Nat
        BY <4>1, OneLess
      <4>3. y \in S \ r /\ x \in S \ r /\ Cardinality(r) <= n - 1
        BY <2>1, <3>2, <4>1, <4>2
      <4>4. u \ {x} = r \cup {y} /\ r \cup {x} = t
        BY <3>4, <4>1
      <4>5. s[r \cup {y}] = v[y] + s[r] /\ s[r \cup {x}] = v[x] + s[r]
        <5> HIDE DEF u, r
        <5> QED
          BY <1>6, <4>2, <4>3
      <4>6. v[x] \in Nat /\ v[y] \in Nat /\ s[r] \in Nat
        BY <1>3, <3>2, <4>2
      <4> HIDE DEF u, r
      <4>7. s[u \ {x}] = v[y] + s[r] /\ s[t] = v[x] + s[r]
        BY <4>4, <4>5
      <4>8. s[u] = v[y] + s[t]
        BY <3>2, <4>6, <4>7
      <4> QED
        BY <4>8 DEF u
    <3> QED
      BY <3>3, <3>4
  <2> QED
    BY <2>1
<1>7. 0..N \subseteq T
  <2> HIDE DEF T, N
  <2> QED
    BY ONLY <1>1, <1>5, <1>6, Induct
<1>8. ASSUME NEW t \in SUBSET S
      PROVE  \A y \in S \ t : s[t \cup {y}] = v[y] + s[t]
  <2>1. Cardinality(t) \in Nat /\ Cardinality(t) \in 0..N
    BY <1>1, <1>2
  <2>2. Cardinality(t) \in T /\ Cardinality(t) <= Cardinality(t)
    <3> HIDE DEF T, N
    <3> QED
      BY <1>7, <2>1
  <2> QED
    BY <2>2
<1> QED
  BY <1>8 DEF AnyOrder

LEMMA AddsTop ==
    ASSUME NEW S, IsFiniteSet(S), NEW v \in [S -> Nat], NEW s, Adds(s, v), NEW y \in S
    PROVE  s[S] = v[y] + s[S \ {y}]
<1> DEFINE t == S \ {y}
<1>1. t \in SUBSET S /\ y \in S \ t /\ t \cup {y} = S
  OBVIOUS
<1>2. AnyOrder(s, v, S)
  BY AddsInsert
<1> HIDE DEF t
<1>3. s[t \cup {y}] = v[y] + s[t]
  BY <1>1, <1>2 DEF AnyOrder
<1> QED
  BY <1>1, <1>3 DEF t

\* Of two functions the lesser has the lesser sum.
LEMMA AddsLess ==
    ASSUME NEW S, IsFiniteSet(S), NEW v \in [S -> Nat], NEW s, Adds(s, v),
           NEW R, IsFiniteSet(R), NEW w \in [R -> Nat], NEW r, Adds(r, w)
    PROVE  \A t \in SUBSET (S \cap R) : (\A x \in t : v[x] <= w[x]) => s[t] <= r[t]
<1> DEFINE N == Cardinality(S)
           T == {n \in 0..N : \A t \in SUBSET (S \cap R) : Cardinality(t) <= n =>
                    ((\A x \in t : v[x] <= w[x]) => s[t] <= r[t])}
<1>1. N \in Nat
  BY FS_CardinalityType
<1>2. ASSUME NEW t \in SUBSET S
      PROVE  Cardinality(t) \in 0..N /\ (Cardinality(t) = 0 => t = {})
  <2>1. IsFiniteSet(t) /\ Cardinality(t) <= N
    BY FS_Subset
  <2>2. Cardinality(t) \in Nat
    BY <2>1, FS_CardinalityType
  <2> QED
    BY <1>1, <2>1, <2>2, FS_EmptySet
<1>0. Stepwise(s, v, S) /\ Stepwise(r, w, R)
  <2>1. DOMAIN v = S /\ DOMAIN w = R
    OBVIOUS
  <2> QED
    BY <2>1, AddsSteps
<1>3. s[{}] = 0 /\ r[{}] = 0
  BY <1>0 DEF Stepwise
<1>4. 0 \in T
  <2>1. \A t \in SUBSET (S \cap R) : Cardinality(t) <= 0 => t = {}
    BY <1>2
  <2> QED
    BY <1>1, <1>3, <2>1
<1>5. ASSUME NEW n \in 1..N, n - 1 \in T
      PROVE  n \in T
  <2>1. ASSUME NEW t \in SUBSET (S \cap R), Cardinality(t) <= n, \A x \in t : v[x] <= w[x]
        PROVE  s[t] <= r[t]
    <3>1. CASE t = {}
      BY <1>3, <3>1
    <3>2. CASE t # {}
      <4> DEFINE x == Chosen(t)
      <4>1. /\ x \in t /\ x \in S /\ s[t] = v[x] + s[t \ {x}]
            /\ Cardinality(t) \in Nat /\ Cardinality(t \ {x}) = Cardinality(t) - 1
        BY <3>2, <1>0 DEF Stepwise
      <4>2. x \in R /\ r[t] = w[x] + r[t \ {x}]
        BY <3>2, <1>0 DEF Stepwise
      <4> HIDE DEF x
      <4>3. t \ {x} \in SUBSET (S \cap R) /\ Cardinality(t \ {x}) <= n - 1
        BY <2>1, <4>1
      <4>4. s[t \ {x}] <= r[t \ {x}]
        BY <1>5, <2>1, <4>3
      <4>5. s[t \ {x}] \in Nat /\ r[t \ {x}] \in Nat
        BY <4>3, AddsNat
      <4>6. v[x] \in Nat /\ w[x] \in Nat /\ v[x] <= w[x]
        BY <2>1, <4>1, <4>2
      <4> QED
        BY <4>1, <4>2, <4>4, <4>5, <4>6
    <3> QED
      BY <3>1, <3>2
  <2> QED
    BY <2>1
<1>6. 0..N \subseteq T
  <2> HIDE DEF T, N
  <2> QED
    BY ONLY <1>1, <1>4, <1>5, Induct
<1> QED
  BY <1>1, <1>2, <1>6

-----------------------------------------------------------------------------
\* Hence what the sums of the properties need.

LEMMA SumIs ==
    ASSUME NEW S, IsFiniteSet(S), NEW v \in [S -> Nat]
    PROVE  \E s : Adds(s, v) /\ SumFunction(v) = s[S]
<1>1. DOMAIN v = S
  OBVIOUS
<1>2. Adds(CHOOSE s : Adds(s, v), v)
  BY <1>1, AddsExists
<1> QED
  BY <1>1, <1>2, SumUnfolds

LEMMA SumNat ==
    ASSUME NEW S, IsFiniteSet(S), NEW v \in [S -> Nat]
    PROVE  SumFunction(v) \in Nat
<1>1. PICK s : Adds(s, v) /\ SumFunction(v) = s[S]
  BY SumIs
<1>2. S \in SUBSET S
  OBVIOUS
<1> QED
  BY <1>1, <1>2, AddsNat

LEMMA SumEmpty ==
    ASSUME NEW v \in [{} -> Nat]
    PROVE  SumFunction(v) = 0
<1>1. IsFiniteSet({})
  BY FS_EmptySet
<1>2. PICK s : Adds(s, v) /\ SumFunction(v) = s[{}]
  BY <1>1, SumIs
<1>3. DOMAIN v = {}
  OBVIOUS
<1> QED
  BY <1>1, <1>2, <1>3, AddsSteps DEF Stepwise

LEMMA SumLess ==
    ASSUME NEW S, IsFiniteSet(S), NEW v \in [S -> Nat], NEW w \in [S -> Nat],
           \A x \in S : v[x] <= w[x]
    PROVE  SumFunction(v) <= SumFunction(w)
<1>1. PICK s : Adds(s, v) /\ SumFunction(v) = s[S]
  BY SumIs
<1>2. PICK r : Adds(r, w) /\ SumFunction(w) = r[S]
  BY SumIs
<1>3. S \in SUBSET (S \cap S)
  OBVIOUS
<1> QED
  BY <1>1, <1>2, <1>3, AddsLess

\* One more argument.
LEMMA SumInsert ==
    ASSUME NEW S, IsFiniteSet(S), NEW y, y \notin S,
           NEW v \in [S -> Nat], NEW w \in [S \cup {y} -> Nat], \A x \in S : w[x] = v[x]
    PROVE  SumFunction(w) = w[y] + SumFunction(v)
<1> DEFINE R == S \cup {y}
<1>1. IsFiniteSet(R) /\ w \in [R -> Nat]
  BY FS_AddElement
<1>2. PICK s : Adds(s, v) /\ SumFunction(v) = s[S]
  BY SumIs
<1>3. PICK r : Adds(r, w) /\ SumFunction(w) = r[R]
  BY <1>1, SumIs
<1>4. S \in SUBSET R /\ y \in R \ S /\ S \cup {y} = R
  OBVIOUS
<1>5. S \in SUBSET (S \cap R) /\ S \in SUBSET (R \cap S) /\ S \in SUBSET S
  OBVIOUS
<1>6. \A x \in S : v[x] \in Nat /\ w[x] \in Nat /\ v[x] <= w[x] /\ w[x] <= v[x]
  OBVIOUS
<1> HIDE DEF R
<1>7. r[R] = w[y] + r[S]
  <2>1. R \ {y} = S
    BY <1>4
  <2>2. r[R] = w[y] + r[R \ {y}]
    BY ONLY <1>1, <1>3, <1>4, AddsTop
  <2> QED
    BY <2>1, <2>2
<1>8. s[S] \in Nat /\ r[S] \in Nat
  BY <1>1, <1>2, <1>3, <1>4, <1>5, AddsNat
<1>9. s[S] <= r[S]
  <2>1. \A t \in SUBSET (S \cap R) : (\A x \in t : v[x] <= w[x]) => s[t] <= r[t]
    BY <1>1, <1>2, <1>3, AddsLess
  <2> QED
    BY <1>5, <1>6, <2>1
<1>10. r[S] <= s[S]
  <2>1. \A t \in SUBSET (R \cap S) : (\A x \in t : w[x] <= v[x]) => r[t] <= s[t]
    BY <1>1, <1>2, <1>3, AddsLess
  <2> QED
    BY <1>5, <1>6, <2>1
<1> QED
  BY <1>2, <1>3, <1>7, <1>8, <1>9, <1>10

\* One value changed.
LEMMA SumChange ==
    ASSUME NEW S, IsFiniteSet(S), NEW v \in [S -> Nat], NEW w \in [S -> Nat], NEW y \in S,
           \A x \in S : x # y => w[x] = v[x]
    PROVE  SumFunction(w) + v[y] = SumFunction(v) + w[y]
<1> DEFINE R == S \ {y}
           u == [x \in R |-> v[x]]
<1>1. IsFiniteSet(R) /\ y \notin R /\ R \cup {y} = S
  BY FS_RemoveElement
<1>2. u \in [R -> Nat] /\ \A x \in R : v[x] = u[x] /\ w[x] = u[x]
  OBVIOUS
<1> HIDE DEF R, u
<1>3. v \in [R \cup {y} -> Nat] /\ w \in [R \cup {y} -> Nat]
  BY <1>1
<1>4. SumFunction(v) = v[y] + SumFunction(u)
  BY <1>1, <1>2, <1>3, SumInsert
<1>5. SumFunction(w) = w[y] + SumFunction(u)
  BY <1>1, <1>2, <1>3, SumInsert
<1>6. SumFunction(u) \in Nat /\ v[y] \in Nat /\ w[y] \in Nat
  BY <1>1, <1>2, SumNat
<1> QED
  BY <1>4, <1>5, <1>6

-----------------------------------------------------------------------------
LEMMA SumShift ==
    ASSUME NEW S, IsFiniteSet(S), NEW v \in [S -> Nat], NEW w \in [S -> Nat], NEW y \in S,
           \A x \in S : x # y => w[x] <= v[x]
    PROVE  SumFunction(w) + v[y] <= SumFunction(v) + w[y]
<1> DEFINE u == [x \in S |-> IF x = y THEN w[y] ELSE v[x]]
<1>1. u \in [S -> Nat] /\ u[y] = w[y] /\ \A x \in S : x # y => u[x] = v[x]
  OBVIOUS
<1> HIDE DEF u
<1>2. SumFunction(u) + v[y] = SumFunction(v) + u[y]
  BY <1>1, SumChange
<1>3. \A x \in S : w[x] <= u[x]
  <2>1. \A x \in S : w[x] \in Nat
    OBVIOUS
  <2> QED
    BY <1>1, <2>1
<1>4. SumFunction(w) <= SumFunction(u)
  BY <1>1, <1>3, SumLess
<1>5. SumFunction(u) \in Nat /\ SumFunction(v) \in Nat /\ SumFunction(w) \in Nat
  BY <1>1, SumNat
<1>6. v[y] \in Nat /\ w[y] \in Nat
  OBVIOUS
<1> QED
  BY <1>1, <1>2, <1>4, <1>5, <1>6

\* A function with one argument more, if it is not one of its arguments already.
LEMMA SumJoin ==
    ASSUME NEW S, IsFiniteSet(S), NEW y, NEW v \in [S -> Nat], NEW w \in [S \cup {y} -> Nat],
           \A x \in S : w[x] = v[x]
    PROVE  SumFunction(w) <= SumFunction(v) + w[y]
<1>1. SumFunction(v) \in Nat /\ w[y] \in Nat
  BY SumNat
<1>2. CASE y \in S
  <2>1. S \cup {y} = S
    BY <1>2
  <2>2. w \in [S -> Nat] /\ \A x \in S : w[x] \in Nat
    BY <2>1
  <2>3. \A x \in S : w[x] <= v[x]
    BY <2>2
  <2>4. SumFunction(w) <= SumFunction(v) /\ SumFunction(w) \in Nat
    BY <2>2, <2>3, SumLess, SumNat
  <2> QED
    BY <1>1, <2>4
<1>3. CASE y \notin S
  <2>1. SumFunction(w) = w[y] + SumFunction(v)
    BY <1>3, SumInsert
  <2> QED
    BY <1>1, <2>1
<1> QED
  BY <1>2, <1>3

-----------------------------------------------------------------------------
\* Materials: what the jobs under way hold of them, and what the unit has.

Failed(j) == j.fn = "very_fake_func"

RealOf(js, type) == {j \in js : j.type = type /\ ~Failed(j)}

\* The parts that jobs of these types are really about.
Busy(js, types) == {j.pos : j \in {k \in js : k.type \in types /\ ~Failed(k)}}

\* The guns (big guns, parts) that are there, or are counted as saved by a job that takes
\* them off, or as mended by one that mends them, even if their section goes meanwhile.
Owned(u, js, kind) ==
    {p \in Parts : /\ Kind(p) = kind
                   /\ \/ Present(u.part[p], kind)
                      \/ p \in Busy(js, {"SCRG", "SCRP", "REPAP"})}

\* Those that are being mounted.
Coming(js, kind) == {p \in Parts : Kind(p) = kind /\ p \in Busy(js, {"REPL", "REPLG"})}

PartStock(u, js, kind) ==
    u.store[kind] + Cardinality(Owned(u, js, kind)) + Cardinality(Coming(js, kind))
ArmorStock(u, js) == ArmorOf(u) + Points(RealOf(js, "FIX"))
IntStock(u, js) == IntOf(u) + Points(RealOf(js, "FIXI")) + Internals(RealOf(js, "REAT"))

Tracked == {"gun", "big", "part"}

\* A step from u, js to v, ks makes nothing.
NoMore(u, js, v, ks) ==
    /\ \A kind \in Tracked : PartStock(v, ks, kind) <= PartStock(u, js, kind)
    /\ ArmorStock(v, ks) <= ArmorStock(u, js)
    /\ IntStock(v, ks) <= IntStock(u, js)

JobSet(js) == IsFiniteSet(js) /\ \A j \in js : JobOK(j)

LEMMA MaxOne ==
    ASSUME NEW n \in Int
    PROVE  Max({1, n}) = IF n >= 1 THEN n ELSE 1
<1> DEFINE S == {1, n}
<1>1. \E x \in S : \A y \in S : x >= y
  OBVIOUS
<1>2. Max(S) \in S /\ \A y \in S : Max(S) >= y
  BY <1>1 DEF Max
<1> QED
  BY <1>2

LEMMA JobNumbers ==
    ASSUME NEW j, JobOK(j)
    PROVE  j.extra \in Int /\ Max({1, j.extra}) \in Nat /\ Hull[j.loc[1]].int \in Nat
<1>1. j.extra \in Int /\ j.loc[1] \in Sections
  BY JobPlace DEF JobOK, Jobs
<1> QED
  BY <1>1, MaxOne, HullAssumption

\* Points and internals of one job more, and of one less.
LEMMA PointsNat ==
    ASSUME NEW J, JobSet(J)
    PROVE  Points(J) \in Nat /\ Internals(J) \in Nat
<1>1. [j \in J |-> Max({1, j.extra})] \in [J -> Nat]
  BY JobNumbers DEF JobSet
<1>2. [j \in J |-> Hull[j.loc[1]].int] \in [J -> Nat]
  BY JobNumbers DEF JobSet
<1> QED
  BY <1>1, <1>2, SumNat DEF JobSet, Points, Internals

LEMMA PointsJoin ==
    ASSUME NEW J, JobSet(J), NEW k, JobOK(k)
    PROVE  /\ Points(J \cup {k}) <= Points(J) + Max({1, k.extra})
           /\ Internals(J \cup {k}) <= Internals(J) + Hull[k.loc[1]].int
<1> DEFINE K == J \cup {k}
           a == [j \in J |-> Max({1, j.extra})]
           b == [j \in K |-> Max({1, j.extra})]
           c == [j \in J |-> Hull[j.loc[1]].int]
           d == [j \in K |-> Hull[j.loc[1]].int]
<1>1. \A j \in K : Max({1, j.extra}) \in Nat /\ Hull[j.loc[1]].int \in Nat
  BY JobNumbers DEF JobSet
<1>2. /\ a \in [J -> Nat] /\ b \in [K -> Nat] /\ \A j \in J : b[j] = a[j]
      /\ b[k] = Max({1, k.extra})
  BY <1>1
<1>3. /\ c \in [J -> Nat] /\ d \in [K -> Nat] /\ \A j \in J : d[j] = c[j]
      /\ d[k] = Hull[k.loc[1]].int
  BY <1>1
<1>4. Points(J) = SumFunction(a) /\ Points(K) = SumFunction(b)
  BY DEF Points
<1>5. Internals(J) = SumFunction(c) /\ Internals(K) = SumFunction(d)
  BY DEF Internals
<1> HIDE DEF a, b, c, d
<1>6. SumFunction(b) <= SumFunction(a) + b[k]
  BY <1>2, SumJoin DEF JobSet
<1>7. SumFunction(d) <= SumFunction(c) + d[k]
  BY <1>3, SumJoin DEF JobSet
<1> QED
  BY <1>2, <1>3, <1>4, <1>5, <1>6, <1>7

LEMMA PointsDrop ==
    ASSUME NEW J, JobSet(J), NEW k \in J
    PROVE  /\ Points(J) = Points(J \ {k}) + Max({1, k.extra})
           /\ Internals(J) = Internals(J \ {k}) + Hull[k.loc[1]].int
           /\ JobSet(J \ {k})
<1> DEFINE I == J \ {k}
           a == [j \in I |-> Max({1, j.extra})]
           b == [j \in J |-> Max({1, j.extra})]
           c == [j \in I |-> Hull[j.loc[1]].int]
           d == [j \in J |-> Hull[j.loc[1]].int]
<1>1. \A j \in J : Max({1, j.extra}) \in Nat /\ Hull[j.loc[1]].int \in Nat
  BY JobNumbers DEF JobSet
<1>2. /\ a \in [I -> Nat] /\ b \in [J -> Nat] /\ \A j \in I : b[j] = a[j]
      /\ b[k] = Max({1, k.extra})
  BY <1>1
<1>3. /\ c \in [I -> Nat] /\ d \in [J -> Nat] /\ \A j \in I : d[j] = c[j]
      /\ d[k] = Hull[k.loc[1]].int
  BY <1>1
<1>4. Points(I) = SumFunction(a) /\ Points(J) = SumFunction(b)
  BY DEF Points
<1>5. Internals(I) = SumFunction(c) /\ Internals(J) = SumFunction(d)
  BY DEF Internals
<1> HIDE DEF a, b, c, d
<1>6. IsFiniteSet(I) /\ k \notin I /\ I \cup {k} = J
  BY FS_RemoveElement DEF JobSet
<1>7. JobSet(I)
  BY <1>6 DEF JobSet
<1> HIDE DEF I
<1>8. b \in [I \cup {k} -> Nat] /\ d \in [I \cup {k} -> Nat]
  BY <1>2, <1>3, <1>6
<1>9. SumFunction(b) = b[k] + SumFunction(a)
  BY <1>2, <1>6, <1>8, SumInsert
<1>10. SumFunction(d) = d[k] + SumFunction(c)
  BY <1>3, <1>6, <1>8, SumInsert
<1>11. SumFunction(a) \in Nat /\ SumFunction(c) \in Nat /\ b[k] \in Nat /\ d[k] \in Nat
  BY <1>2, <1>3, <1>6, SumNat
<1>12. Points(J) = Points(I) + Max({1, k.extra})
  BY <1>2, <1>4, <1>9, <1>11
<1>13. Internals(J) = Internals(I) + Hull[k.loc[1]].int
  BY <1>3, <1>5, <1>10, <1>11
<1> QED
  BY <1>7, <1>12, <1>13 DEF I

-----------------------------------------------------------------------------
\* The sections.

ArmorOn(u) == SumFunction([l \in Sections |-> u.sect[l].armor + u.sect[l].rear])
IntOn(u) == SumFunction([l \in Sections |-> u.sect[l].int])

\* One section is changed by a and i points, the others have no more than before.
SectShift(s, t, a, i) == t.armor + t.rear <= s.armor + s.rear + a /\ t.int <= s.int + i

LEMMA SectionsFinite == IsFiniteSet(Sections)
<1>1. Sections = ({"CTORSO"} \cup {"LTORSO"}) \cup {"LARM"}
  BY ServiceAssumption
<1>2. IsFiniteSet({"CTORSO"}) /\ IsFiniteSet({"LARM"})
  BY FS_Singleton
<1>3. IsFiniteSet({"CTORSO"} \cup {"LTORSO"})
  BY <1>2, FS_AddElement
<1>4. IsFiniteSet(({"CTORSO"} \cup {"LTORSO"}) \cup {"LARM"})
  BY <1>3, FS_AddElement
<1> QED
  BY <1>1, <1>4

LEMMA OnNat ==
    ASSUME NEW u \in UnitStates
    PROVE  ArmorOn(u) \in Nat /\ IntOn(u) \in Nat
<1>1. \A l \in Sections : u.sect[l].armor \in Nat /\ u.sect[l].rear \in Nat /\ u.sect[l].int \in Nat
  BY SectOf DEF SectStates
<1>2. [l \in Sections |-> u.sect[l].armor + u.sect[l].rear] \in [Sections -> Nat]
  BY <1>1
<1>3. [l \in Sections |-> u.sect[l].int] \in [Sections -> Nat]
  BY <1>1
<1>4. ArmorOn(u) \in Nat
  BY <1>2, SectionsFinite, SumNat DEF ArmorOn
<1>5. IntOn(u) \in Nat
  BY <1>3, SectionsFinite, SumNat DEF IntOn
<1> QED
  BY <1>4, <1>5

LEMMA OnSectShift ==
    ASSUME NEW u \in UnitStates, NEW v \in UnitStates, NEW y \in Sections,
           NEW a \in Int, NEW i \in Int, SectShift(u.sect[y], v.sect[y], a, i),
           \A m \in Sections : m # y => SectShift(u.sect[m], v.sect[m], 0, 0)
    PROVE  ArmorOn(v) <= ArmorOn(u) + a /\ IntOn(v) <= IntOn(u) + i
<1> DEFINE f == [l \in Sections |-> u.sect[l].armor + u.sect[l].rear]
           g == [l \in Sections |-> v.sect[l].armor + v.sect[l].rear]
           h == [l \in Sections |-> u.sect[l].int]
           k == [l \in Sections |-> v.sect[l].int]
<1>1. \A l \in Sections : /\ u.sect[l].armor \in Nat /\ u.sect[l].rear \in Nat /\ u.sect[l].int \in Nat
                          /\ v.sect[l].armor \in Nat /\ v.sect[l].rear \in Nat /\ v.sect[l].int \in Nat
  BY SectOf DEF SectStates
<1>2. f \in [Sections -> Nat] /\ g \in [Sections -> Nat]
  BY <1>1
<1>3. h \in [Sections -> Nat] /\ k \in [Sections -> Nat]
  BY <1>1
<1>4. \A x \in Sections : x # y => g[x] <= f[x] /\ k[x] <= h[x]
  BY <1>1 DEF SectShift
<1>5. g[y] <= f[y] + a /\ k[y] <= h[y] + i
  BY <1>1 DEF SectShift
<1>6. ArmorOn(u) = SumFunction(f) /\ ArmorOn(v) = SumFunction(g)
  BY DEF ArmorOn
<1>7. IntOn(u) = SumFunction(h) /\ IntOn(v) = SumFunction(k)
  BY DEF IntOn
<1> HIDE DEF f, g, h, k
<1>8. SumFunction(g) + f[y] <= SumFunction(f) + g[y]
  BY <1>2, <1>4, SectionsFinite, SumShift
<1>9. SumFunction(k) + h[y] <= SumFunction(h) + k[y]
  BY <1>3, <1>4, SectionsFinite, SumShift
<1>10. ArmorOn(u) \in Nat /\ ArmorOn(v) \in Nat /\ IntOn(u) \in Nat /\ IntOn(v) \in Nat
  BY OnNat
<1>11. f[y] \in Nat /\ g[y] \in Nat /\ h[y] \in Nat /\ k[y] \in Nat
  BY <1>2, <1>3
<1>12. ArmorOn(v) <= ArmorOn(u) + a
  BY <1>5, <1>6, <1>8, <1>10, <1>11
<1>13. IntOn(v) <= IntOn(u) + i
  BY <1>5, <1>7, <1>9, <1>10, <1>11
<1> QED
  BY <1>12, <1>13

LEMMA OnSame ==
    ASSUME NEW u, NEW v, v.sect = u.sect
    PROVE  ArmorOn(v) = ArmorOn(u) /\ IntOn(v) = IntOn(u)
BY DEF ArmorOn, IntOn

\* The stock is what is stored, what is on the unit, and what jobs hold.
LEMMA StockIs ==
    ASSUME NEW u, NEW js
    PROVE  /\ ArmorStock(u, js) = u.store["armor"] + ArmorOn(u) + Points(RealOf(js, "FIX"))
           /\ IntStock(u, js) = u.store["internal"] + IntOn(u) + Points(RealOf(js, "FIXI"))
                                + Internals(RealOf(js, "REAT"))
BY DEF ArmorStock, IntStock, ArmorOf, IntOf, ArmorOn, IntOn

-----------------------------------------------------------------------------
\* The parts.

LEMMA OwnedFinite ==
    ASSUME NEW u, NEW js, NEW kind
    PROVE  /\ IsFiniteSet(Owned(u, js, kind)) /\ Cardinality(Owned(u, js, kind)) \in Nat
           /\ IsFiniteSet(Coming(js, kind)) /\ Cardinality(Coming(js, kind)) \in Nat
<1>1. Owned(u, js, kind) \in SUBSET Parts /\ Coming(js, kind) \in SUBSET Parts
  BY DEF Owned, Coming
<1>2. IsFiniteSet(Parts)
  BY HullAssumption
<1>3. IsFiniteSet(Owned(u, js, kind)) /\ IsFiniteSet(Coming(js, kind))
  BY <1>1, <1>2, FS_Subset
<1> QED
  BY <1>3, FS_CardinalityType

LEMMA SubsetCard ==
    ASSUME NEW T, IsFiniteSet(T), NEW S, S \subseteq T
    PROVE  IsFiniteSet(S) /\ Cardinality(S) \in Nat /\ Cardinality(T) \in Nat
           /\ Cardinality(S) <= Cardinality(T)
<1>1. IsFiniteSet(S) /\ Cardinality(S) <= Cardinality(T)
  BY FS_Subset
<1> QED
  BY <1>1, FS_CardinalityType

LEMMA JoinCard ==
    ASSUME NEW T, IsFiniteSet(T), NEW p, NEW S, S \subseteq T \cup {p}
    PROVE  Cardinality(S) <= Cardinality(T) + 1
<1>1. IsFiniteSet(T \cup {p}) /\ Cardinality(T \cup {p}) <= Cardinality(T) + 1 /\ Cardinality(T) \in Nat
  BY FS_AddElement, FS_CardinalityType
<1>2. Cardinality(S) \in Nat /\ Cardinality(T \cup {p}) \in Nat /\ Cardinality(S) <= Cardinality(T \cup {p})
  BY <1>1, SubsetCard
<1> QED
  BY <1>1, <1>2

LEMMA DropCard ==
    ASSUME NEW T, IsFiniteSet(T), NEW p \in T, NEW S, S \subseteq T \ {p}
    PROVE  Cardinality(S) + 1 <= Cardinality(T)
<1>1. /\ IsFiniteSet(T \ {p}) /\ Cardinality(T \ {p}) = Cardinality(T) - 1 /\ Cardinality(T) \in Nat
  BY FS_RemoveElement, FS_CardinalityType
<1>2. Cardinality(S) \in Nat /\ Cardinality(T \ {p}) \in Nat /\ Cardinality(S) <= Cardinality(T \ {p})
  BY <1>1, SubsetCard
<1> QED
  BY <1>1, <1>2

\* Four ways to make no part: none becomes whole; one is paid for and will be mounted; one that
\* was to be mounted is; one that is taken off may go to the store.
LEMMA PartMoved ==
    ASSUME NEW u \in UnitStates, NEW v \in UnitStates, NEW js, NEW ks, NEW kind \in Tracked, NEW p,
           \/ /\ v.store[kind] <= u.store[kind]
              /\ Owned(v, ks, kind) \subseteq Owned(u, js, kind)
              /\ Coming(ks, kind) \subseteq Coming(js, kind)
           \/ /\ v.store[kind] + 1 <= u.store[kind]
              /\ Owned(v, ks, kind) \subseteq Owned(u, js, kind)
              /\ Coming(ks, kind) \subseteq Coming(js, kind) \cup {p}
           \/ /\ v.store[kind] <= u.store[kind]
              /\ Owned(v, ks, kind) \subseteq Owned(u, js, kind) \cup {p}
              /\ p \in Coming(js, kind) /\ Coming(ks, kind) \subseteq Coming(js, kind) \ {p}
           \/ /\ v.store[kind] <= u.store[kind] + 1
              /\ p \in Owned(u, js, kind) /\ Owned(v, ks, kind) \subseteq Owned(u, js, kind) \ {p}
              /\ Coming(ks, kind) \subseteq Coming(js, kind)
    PROVE  PartStock(v, ks, kind) <= PartStock(u, js, kind)
<1> DEFINE a == u.store[kind]
           b == v.store[kind]
           A == Owned(u, js, kind)
           B == Owned(v, ks, kind)
           C == Coming(js, kind)
           D == Coming(ks, kind)
<1>1. kind \in Goods
  BY DEF Tracked, Goods
<1>2. a \in Nat /\ b \in Nat
  BY <1>1 DEF UnitStates
<1>3. IsFiniteSet(A) /\ Cardinality(A) \in Nat /\ IsFiniteSet(B) /\ Cardinality(B) \in Nat
  BY OwnedFinite
<1>4. IsFiniteSet(C) /\ Cardinality(C) \in Nat /\ IsFiniteSet(D) /\ Cardinality(D) \in Nat
  BY OwnedFinite
<1>5. /\ PartStock(u, js, kind) = a + Cardinality(A) + Cardinality(C)
      /\ PartStock(v, ks, kind) = b + Cardinality(B) + Cardinality(D)
  BY DEF PartStock
<1>6. \/ b <= a /\ B \subseteq A /\ D \subseteq C
      \/ b + 1 <= a /\ B \subseteq A /\ D \subseteq C \cup {p}
      \/ b <= a /\ B \subseteq A \cup {p} /\ p \in C /\ D \subseteq C \ {p}
      \/ b <= a + 1 /\ p \in A /\ B \subseteq A \ {p} /\ D \subseteq C
  OBVIOUS
<1> HIDE DEF a, b, A, B, C, D
<1>7. CASE b <= a /\ B \subseteq A /\ D \subseteq C
  <2>1. Cardinality(B) <= Cardinality(A) /\ Cardinality(D) <= Cardinality(C)
    BY <1>3, <1>4, <1>7, SubsetCard
  <2> QED
    BY <1>2, <1>3, <1>4, <1>5, <1>7, <2>1
<1>8. CASE b + 1 <= a /\ B \subseteq A /\ D \subseteq C \cup {p}
  <2>1. Cardinality(B) <= Cardinality(A) /\ Cardinality(D) <= Cardinality(C) + 1
    BY <1>3, <1>4, <1>8, SubsetCard, JoinCard
  <2> QED
    BY <1>2, <1>3, <1>4, <1>5, <1>8, <2>1
<1>9. CASE b <= a /\ B \subseteq A \cup {p} /\ p \in C /\ D \subseteq C \ {p}
  <2>1. Cardinality(B) <= Cardinality(A) + 1 /\ Cardinality(D) + 1 <= Cardinality(C)
    BY <1>3, <1>4, <1>9, DropCard, JoinCard
  <2> QED
    BY <1>2, <1>3, <1>4, <1>5, <1>9, <2>1
<1>10. CASE b <= a + 1 /\ p \in A /\ B \subseteq A \ {p} /\ D \subseteq C
  <2>1. Cardinality(B) + 1 <= Cardinality(A) /\ Cardinality(D) <= Cardinality(C)
    BY <1>3, <1>4, <1>10, DropCard, SubsetCard
  <2> QED
    BY <1>2, <1>3, <1>4, <1>5, <1>10, <2>1
<1> QED
  BY <1>6, <1>7, <1>8, <1>9, <1>10

-----------------------------------------------------------------------------
\* The commands.

\* What a job holds of the goods: a command must have paid that much.
Due(job, g) ==
    IF Failed(job) THEN 0
    ELSE CASE g \in Tracked ->
                IF job.type \in {"REPL", "REPLG"} /\ Kind(job.pos) = g THEN 1 ELSE 0
           [] g = "armor" -> IF job.type = "FIX" THEN Max({1, job.extra}) ELSE 0
           [] g = "internal" -> IF job.type = "FIXI" THEN Max({1, job.extra})
                                ELSE IF job.type = "REAT" THEN Hull[job.loc[1]].int ELSE 0

\* No part is whole that was not.
NoneWhole(u, v) == \A q \in Parts : Present(v.part[q], Kind(q)) => Present(u.part[q], Kind(q))

LEMMA RealJoin ==
    ASSUME NEW js, NEW job, NEW type
    PROVE  RealOf(js \cup {job}, type) =
             IF job.type = type /\ ~Failed(job) THEN RealOf(js, type) \cup {job} ELSE RealOf(js, type)
BY DEF RealOf

LEMMA RealSet ==
    ASSUME NEW js, JobSet(js), NEW type
    PROVE  JobSet(RealOf(js, type))
<1>1. RealOf(js, type) \in SUBSET js
  BY DEF RealOf
<1>2. IsFiniteSet(RealOf(js, type))
  BY <1>1, FS_Subset DEF JobSet
<1> QED
  BY <1>1, <1>2 DEF JobSet

LEMMA CommandArmor ==
    ASSUME NEW js, JobSet(js), NEW u \in UnitStates, NEW v \in UnitStates, v.sect = u.sect,
           NEW job, JobOK(job), v.store["armor"] + Due(job, "armor") <= u.store["armor"]
    PROVE  ArmorStock(v, js \cup {job}) <= ArmorStock(u, js)
<1> DEFINE J == RealOf(js, "FIX")
           K == RealOf(js \cup {job}, "FIX")
           d == Due(job, "armor")
           m == Max({1, job.extra})
<1>1. JobSet(J) /\ Points(J) \in Nat
  BY RealSet, PointsNat
<1>2. m \in Nat
  BY JobNumbers
<1>3. d = IF job.type = "FIX" /\ ~Failed(job) THEN m ELSE 0
  BY DEF Due, Tracked
<1>4. K = IF job.type = "FIX" /\ ~Failed(job) THEN J \cup {job} ELSE J
  BY RealJoin
<1>5. v.store["armor"] \in Nat /\ u.store["armor"] \in Nat
  BY DEF UnitStates, Goods
<1>6. ArmorOn(v) = ArmorOn(u) /\ ArmorOn(u) \in Nat
  BY OnSame, OnNat
<1>7. /\ ArmorStock(u, js) = u.store["armor"] + ArmorOn(u) + Points(J)
      /\ ArmorStock(v, js \cup {job}) = v.store["armor"] + ArmorOn(v) + Points(K)
  BY StockIs
<1>8. v.store["armor"] + d <= u.store["armor"]
  OBVIOUS
<1> HIDE DEF J, K, m, d
<1>9. Points(K) <= Points(J) + d /\ Points(K) \in Nat
  <2>1. CASE job.type = "FIX" /\ ~Failed(job)
    <3>1. Points(J \cup {job}) <= Points(J) + m
      BY <1>1, PointsJoin DEF m
    <3>2. JobSet(J \cup {job})
      BY <1>1, FS_AddElement DEF JobSet
    <3> QED
      BY <1>3, <1>4, <2>1, <3>1, <3>2, PointsNat
  <2>2. CASE ~(job.type = "FIX" /\ ~Failed(job))
    BY <1>1, <1>3, <1>4, <2>2
  <2> QED
    BY <2>1, <2>2
<1>10. d \in Nat
  BY <1>2, <1>3
<1> QED
  BY <1>1, <1>5, <1>6, <1>7, <1>8, <1>9, <1>10

LEMMA CommandInternal ==
    ASSUME NEW js, JobSet(js), NEW u \in UnitStates, NEW v \in UnitStates, v.sect = u.sect,
           NEW job, JobOK(job), v.store["internal"] + Due(job, "internal") <= u.store["internal"]
    PROVE  IntStock(v, js \cup {job}) <= IntStock(u, js)
<1> DEFINE J == RealOf(js, "FIXI")
           K == RealOf(js \cup {job}, "FIXI")
           A == RealOf(js, "REAT")
           B == RealOf(js \cup {job}, "REAT")
           d == Due(job, "internal")
           m == Max({1, job.extra})
           n == Hull[job.loc[1]].int
           s == IF job.type = "FIXI" /\ ~Failed(job) THEN m ELSE 0
           t == IF job.type = "REAT" /\ ~Failed(job) THEN n ELSE 0
<1>1. JobSet(J) /\ Points(J) \in Nat /\ JobSet(A) /\ Internals(A) \in Nat
  BY RealSet, PointsNat
<1>2. m \in Nat /\ n \in Nat
  BY JobNumbers
<1>3. d = s + t
  <2> HIDE DEF m, n
  <2>1. CASE Failed(job)
    BY <2>1 DEF Due
  <2>2. CASE ~Failed(job)
    <3>1. d = IF job.type = "FIXI" THEN m ELSE IF job.type = "REAT" THEN n ELSE 0
      BY <2>2 DEF Due, Tracked, m, n
    <3> HIDE DEF d
    <3> QED
      BY <1>2, <2>2, <3>1
  <2> QED
    BY <2>1, <2>2
<1>4. /\ K = IF job.type = "FIXI" /\ ~Failed(job) THEN J \cup {job} ELSE J
      /\ B = IF job.type = "REAT" /\ ~Failed(job) THEN A \cup {job} ELSE A
  BY RealJoin
<1>5. v.store["internal"] \in Nat /\ u.store["internal"] \in Nat
  BY DEF UnitStates, Goods
<1>6. IntOn(v) = IntOn(u) /\ IntOn(u) \in Nat
  BY OnSame, OnNat
<1>7. /\ IntStock(u, js) = u.store["internal"] + IntOn(u) + Points(J) + Internals(A)
      /\ IntStock(v, js \cup {job}) = v.store["internal"] + IntOn(v) + Points(K) + Internals(B)
  BY StockIs
<1>8. v.store["internal"] + d <= u.store["internal"]
  OBVIOUS
<1> HIDE DEF J, K, A, B, m, n, d
<1>9. Points(K) <= Points(J) + s /\ Points(K) \in Nat
  <2>1. CASE job.type = "FIXI" /\ ~Failed(job)
    <3>1. Points(J \cup {job}) <= Points(J) + m
      BY <1>1, PointsJoin DEF m
    <3>2. JobSet(J \cup {job})
      BY <1>1, FS_AddElement DEF JobSet
    <3>3. s = m
      BY <2>1
    <3> QED
      BY <1>4, <2>1, <3>1, <3>2, <3>3, PointsNat
  <2>2. CASE ~(job.type = "FIXI" /\ ~Failed(job))
    BY <1>1, <1>4, <2>2
  <2> QED
    BY <2>1, <2>2
<1>10. Internals(B) <= Internals(A) + t /\ Internals(B) \in Nat
  <2>1. CASE job.type = "REAT" /\ ~Failed(job)
    <3>1. Internals(A \cup {job}) <= Internals(A) + n
      BY <1>1, PointsJoin DEF n
    <3>2. JobSet(A \cup {job})
      BY <1>1, FS_AddElement DEF JobSet
    <3>3. t = n
      BY <2>1
    <3> QED
      BY <1>4, <2>1, <3>1, <3>2, <3>3, PointsNat
  <2>2. CASE ~(job.type = "REAT" /\ ~Failed(job))
    BY <1>1, <1>4, <2>2
  <2> QED
    BY <2>1, <2>2
<1>11. s \in Nat /\ t \in Nat
  BY <1>2
<1> HIDE DEF s, t
<1> QED
  BY <1>1, <1>3, <1>5, <1>6, <1>7, <1>8, <1>9, <1>10, <1>11

LEMMA CommandParts ==
    ASSUME NEW js, NEW u \in UnitStates, NEW v \in UnitStates, NoneWhole(u, v), NEW job,
           JobOK(job), NEW kind \in Tracked, v.store[kind] + Due(job, kind) <= u.store[kind],
           job.type \in {"SCRG", "SCRP", "REPAP"} /\ ~Failed(job) =>
               Present(u.part[job.pos], Kind(job.pos))
    PROVE  PartStock(v, js \cup {job}, kind) <= PartStock(u, js, kind)
<1> DEFINE ks == js \cup {job}
<1>1. v.store[kind] \in Nat /\ u.store[kind] \in Nat
  BY DEF UnitStates, Goods, Tracked
<1>2. Owned(v, ks, kind) \subseteq Owned(u, js, kind)
  <2>1. ASSUME NEW q \in Parts, q \in Busy(ks, {"SCRG", "SCRP", "REPAP"})
        PROVE  Present(u.part[q], Kind(q)) \/ q \in Busy(js, {"SCRG", "SCRP", "REPAP"})
    BY <2>1 DEF Busy
  <2> QED
    BY <2>1 DEF Owned, NoneWhole
<1>3. CASE Due(job, kind) = 1
  <2>1. Coming(ks, kind) \subseteq Coming(js, kind) \cup {job.pos}
    BY DEF Coming, Busy
  <2> QED
    BY <1>1, <1>2, <1>3, <2>1, PartMoved
<1>4. CASE Due(job, kind) = 0
  <2>1. Failed(job) \/ ~(job.type \in {"REPL", "REPLG"} /\ Kind(job.pos) = kind)
    <3>1. Due(job, kind) = IF Failed(job) THEN 0
            ELSE IF job.type \in {"REPL", "REPLG"} /\ Kind(job.pos) = kind THEN 1 ELSE 0
      BY DEF Due, Tracked
    <3> QED
      BY <1>4, <3>1
  <2>2. Coming(ks, kind) \subseteq Coming(js, kind)
    BY <2>1 DEF Coming, Busy
  <2>3. v.store[kind] <= u.store[kind]
    BY <1>1, <1>4
  <2> HIDE DEF ks
  <2>4. PartStock(v, ks, kind) <= PartStock(u, js, kind)
    BY <1>2, <2>2, <2>3, PartMoved
  <2> QED
    BY <2>4 DEF ks
<1>5. Due(job, kind) = 0 \/ Due(job, kind) = 1
  BY DEF Due, Tracked
<1> QED
  BY <1>3, <1>4, <1>5

LEMMA CommandStock ==
    ASSUME NEW js, JobSet(js), NEW u \in UnitStates, NEW v \in UnitStates,
           v.sect = u.sect, NoneWhole(u, v), NEW job, JobOK(job),
           \A g \in Tracked \cup {"armor", "internal"} : v.store[g] + Due(job, g) <= u.store[g],
           job.type \in {"SCRG", "SCRP", "REPAP"} /\ ~Failed(job) =>
               Present(u.part[job.pos], Kind(job.pos))
    PROVE  NoMore(u, js, v, js \cup {job})
<1>1. /\ v.store["armor"] + Due(job, "armor") <= u.store["armor"]
      /\ v.store["internal"] + Due(job, "internal") <= u.store["internal"]
      /\ \A g \in Tracked : v.store[g] + Due(job, g) <= u.store[g]
  OBVIOUS
<1>2. ArmorStock(v, js \cup {job}) <= ArmorStock(u, js)
  BY <1>1, CommandArmor
<1>3. IntStock(v, js \cup {job}) <= IntStock(u, js)
  BY <1>1, CommandInternal
<1>4. ASSUME NEW kind \in Tracked
      PROVE  PartStock(v, js \cup {job}, kind) <= PartStock(u, js, kind)
  BY <1>1, CommandParts
<1> QED
  BY <1>2, <1>3, <1>4 DEF NoMore

-----------------------------------------------------------------------------
\* The jobs after an event: one less, or with one point less to mend.

After(js, j) == (js \ {j}) \cup Sequel(j)

LEMMA SequelIs ==
    ASSUME NEW j, JobOK(j)
    PROVE  \/ Sequel(j) = {}
           \/ \E k : /\ Sequel(j) = {k} /\ JobOK(k) /\ j.extra > 1 /\ k.extra = j.extra - 1
                     /\ k.type = j.type /\ k.fn = j.fn /\ k.loc = j.loc
                     /\ j.type \in {"FIX", "FIXI"} /\ ~Failed(j)
<1> DEFINE k == [j EXCEPT !.extra = j.extra - 1]
<1>1. j.extra \in Int
  BY JobNumbers
<1>2. CASE j.extra - 1 > 0 /\ j.fn \in {"repairarmor", "repairinternal"}
  <2>1. Sequel(j) = {k}
    BY <1>1, <1>2 DEF Sequel
  <2>2. j \in Jobs /\ Carries(j.type, j.fn)
    BY <1>2 DEF JobOK
  <2>3. /\ k \in Jobs /\ k.type = j.type /\ k.fn = j.fn /\ k.loc = j.loc /\ k.pos = j.pos
        /\ k.crit = j.crit /\ k.extra = j.extra - 1
    BY <1>1, <2>2 DEF Jobs
  <2>4. j.type \in {"FIX", "FIXI"}
    BY <1>2, <2>2 DEF Carries, Jobs, JobTypes
  <2> HIDE DEF k
  <2>5. JobOK(k)
    BY <2>3, <2>4 DEF JobOK
  <2>6. j.extra > 1 /\ ~Failed(j)
    BY <1>1, <1>2 DEF Failed
  <2> QED
    BY <2>1, <2>3, <2>4, <2>5, <2>6
<1>3. CASE ~(j.extra - 1 > 0 /\ j.fn \in {"repairarmor", "repairinternal"})
  BY <1>3 DEF Sequel
<1> QED
  BY <1>2, <1>3

LEMMA MaxOneLess ==
    ASSUME NEW n \in Int
    PROVE  /\ Max({1, n}) \in Nat /\ Max({1, n}) >= 1
           /\ n > 1 => Max({1, n - 1}) + 1 = Max({1, n})
<1>1. Max({1, n}) = IF n >= 1 THEN n ELSE 1
  BY MaxOne
<1>2. n - 1 \in Int
  OBVIOUS
<1>3. Max({1, n - 1}) = IF n - 1 >= 1 THEN n - 1 ELSE 1
  BY <1>2, MaxOne
<1> QED
  BY <1>1, <1>3

LEMMA AfterSet ==
    ASSUME NEW js, JobSet(js), NEW j \in js
    PROVE  JobSet(After(js, j))
<1>1. JobOK(j) /\ IsFiniteSet(js \ {j})
  BY FS_RemoveElement DEF JobSet
<1>2. CASE Sequel(j) = {}
  <2>1. After(js, j) = js \ {j}
    BY <1>2 DEF After
  <2> QED
    BY <1>1, <2>1 DEF JobSet
<1>3. CASE Sequel(j) # {}
  <2>1. PICK k : Sequel(j) = {k} /\ JobOK(k)
    BY <1>1, <1>3, SequelIs
  <2>2. After(js, j) = (js \ {j}) \cup {k}
    BY <2>1 DEF After
  <2>3. IsFiniteSet((js \ {j}) \cup {k})
    BY <1>1, FS_AddElement
  <2> QED
    BY <2>1, <2>2, <2>3 DEF JobSet
<1> QED
  BY <1>2, <1>3

\* The jobs of another type, and all of them if the job has failed, are the same.
LEMMA AfterOther ==
    ASSUME NEW js, NEW j \in js, JobOK(j), NEW type, j.type # type \/ Failed(j)
    PROVE  RealOf(After(js, j), type) = RealOf(js, type)
<1>1. ASSUME NEW k \in Sequel(j)
      PROVE  k.type = j.type /\ ~Failed(j)
  BY SequelIs
<1> QED
  BY <1>1 DEF After, RealOf

LEMMA AfterMended ==
    ASSUME NEW js, JobSet(js), NEW j \in js, ~Failed(j), j.type \in {"FIX", "FIXI"}
    PROVE  /\ Points(RealOf(After(js, j), j.type)) + 1 <= Points(RealOf(js, j.type))
           /\ Points(RealOf(After(js, j), j.type)) \in Nat
<1> DEFINE J == RealOf(js, j.type)
           I == J \ {j}
           K == RealOf(After(js, j), j.type)
<1>1. JobOK(j) /\ j.extra \in Int
  BY JobNumbers DEF JobSet
<1>2. JobSet(J) /\ j \in J
  BY RealSet DEF RealOf
<1>3. Points(J) = Points(I) + Max({1, j.extra}) /\ JobSet(I) /\ Points(I) \in Nat
  BY <1>2, PointsDrop, PointsNat
<1>4. Max({1, j.extra}) \in Nat /\ Max({1, j.extra}) >= 1
  BY <1>1, MaxOneLess
<1>5. CASE Sequel(j) = {}
  <2>1. K = I
    BY <1>5 DEF After, RealOf
  <2> HIDE DEF I, J, K
  <2> QED
    BY <1>3, <1>4, <2>1 DEF I, J, K
<1>6. CASE Sequel(j) # {}
  <2>1. PICK k : /\ Sequel(j) = {k} /\ JobOK(k) /\ j.extra > 1 /\ k.extra = j.extra - 1
                 /\ k.type = j.type /\ k.fn = j.fn
    BY <1>1, <1>6, SequelIs
  <2>2. K = I \cup {k}
    BY <2>1 DEF After, RealOf, Failed
  <2>3. Max({1, k.extra}) + 1 = Max({1, j.extra}) /\ Max({1, k.extra}) \in Nat
    BY <1>1, <2>1, MaxOneLess, JobNumbers
  <2> HIDE DEF I, K, J
  <2>4. Points(I \cup {k}) <= Points(I) + Max({1, k.extra})
    BY <1>3, <2>1, PointsJoin
  <2>5. JobSet(I \cup {k})
    BY <1>3, <2>1, FS_AddElement DEF JobSet
  <2>6. Points(I \cup {k}) \in Nat
    BY <2>5, PointsNat
  <2>7. Points(K) + 1 <= Points(J) /\ Points(K) \in Nat
    BY <1>3, <1>4, <2>2, <2>3, <2>4, <2>6
  <2> QED
    BY <2>7 DEF J, K
<1> QED
  BY <1>5, <1>6

LEMMA AfterAttached ==
    ASSUME NEW js, JobSet(js), NEW j \in js, ~Failed(j), j.type = "REAT"
    PROVE  /\ Internals(RealOf(After(js, j), "REAT")) + Hull[j.loc[1]].int = Internals(RealOf(js, "REAT"))
           /\ Internals(RealOf(After(js, j), "REAT")) \in Nat /\ Hull[j.loc[1]].int \in Nat
<1> DEFINE J == RealOf(js, "REAT")
           I == J \ {j}
<1>1. JobOK(j) /\ Hull[j.loc[1]].int \in Nat
  BY JobNumbers DEF JobSet
<1>2. JobSet(J) /\ j \in J
  BY RealSet DEF RealOf
<1>3. Internals(J) = Internals(I) + Hull[j.loc[1]].int /\ JobSet(I) /\ Internals(I) \in Nat
  BY <1>2, PointsDrop, PointsNat
<1>4. Sequel(j) = {}
  BY <1>1, SequelIs
<1>5. RealOf(After(js, j), "REAT") = I
  BY <1>4 DEF After, RealOf
<1> HIDE DEF I, J
<1> QED
  BY <1>1, <1>3, <1>5 DEF J

LEMMA AfterBusy ==
    ASSUME NEW js, NEW j \in js, JobOK(j), NEW types \in SUBSET PartTypes
    PROVE  /\ Busy(After(js, j), types) = Busy(js \ {j}, types)
           /\ Busy(After(js, j), types) \subseteq Busy(js, types)
<1>1. ASSUME NEW k \in Sequel(j)
      PROVE  k.type \notin types
  BY SequelIs DEF PartTypes, Mending
<1> QED
  BY <1>1 DEF After, Busy

\* No other job of a part, if there may be only one.
LEMMA AfterAlone ==
    ASSUME NEW js, NEW j \in js, JobOK(j), NEW types \in SUBSET PartTypes,
           \A k \in js : k.type \in types /\ k.pos = j.pos => k = j
    PROVE  Busy(After(js, j), types) \subseteq Busy(js, types) \ {j.pos}
<1>1. Busy(After(js, j), types) = Busy(js \ {j}, types)
  BY AfterBusy
<1>2. Busy(js \ {j}, types) \subseteq Busy(js, types) \ {j.pos}
  BY DEF Busy
<1> QED
  BY <1>1, <1>2

-----------------------------------------------------------------------------
\* What an event does to the store, to the sections and to the parts.

LEMMA AddStore ==
    ASSUME NEW u \in UnitStates, NEW g \in Goods, NEW n \in Nat
    PROVE  /\ Add(u, g, n).store[g] = u.store[g] + n
           /\ \A h \in Goods : h # g => Add(u, g, n).store[h] = u.store[h]
BY DEF Add, UnitStates

LEMMA RazedStore ==
    ASSUME NEW u \in UnitStates, NEW l \in Sections
    PROVE  DestroySection(u, l).store = u.store
<1> DEFINE hurt(w, k) == IF SectIsDestroyed(w, k) THEN w ELSE Razed(w, k)
<1>1. ASSUME NEW w \in UnitStates, NEW k \in Sections
      PROVE  hurt(w, k) \in UnitStates /\ hurt(w, k).store = w.store
  <2>1. Razed(w, k) \in UnitStates
    BY RazedTyped
  <2>2. Razed(w, k).store = w.store
    BY DEF Razed, UnitStates
  <2> QED
    BY <2>1, <2>2
<1>2. "LARM" \in Sections
  BY HullAssumption
<1>3. DestroySection(u, l) = IF l = "LTORSO" /\ ~SectIsDestroyed(u, l) THEN hurt(hurt(u, l), "LARM")
                             ELSE hurt(u, l)
  BY DEF DestroySection
<1> HIDE DEF hurt
<1> QED
  BY <1>1, <1>2, <1>3

LEMMA ReloadStore ==
    ASSUME NEW u \in UnitStates, NEW p \in Parts, NEW extra, NEW g \in Goods, g # "ammo"
    PROVE  event_mech_reload(u, p, extra).store[g] = u.store[g]
<1>1. ASSUME NEW n \in {0, FULL}
      PROVE  LET v == [u EXCEPT !.part[p].data = n] IN v \in UnitStates /\ v.store = u.store
  <2> DEFINE c == [u.part[p] EXCEPT !.data = n]
  <2>1. c \in PartStates
    BY PartOf DEF PartStates, FULL
  <2>2. [u EXCEPT !.part[p].data = n] = [u EXCEPT !.part[p] = c]
    BY DEF UnitStates
  <2>3. [u EXCEPT !.part[p] = c].store = u.store
    BY DEF UnitStates
  <2>4. [u EXCEPT !.part[p] = c] \in UnitStates
    <3> HIDE DEF c
    <3> QED
      BY <2>1, PartTyped
  <2> QED
    BY <2>2, <2>3, <2>4
<1>2. \/ event_mech_reload(u, p, extra) = [u EXCEPT !.part[p].data = FULL]
      \/ event_mech_reload(u, p, extra) = [u EXCEPT !.part[p].data = 0]
      \/ event_mech_reload(u, p, extra) = Add([u EXCEPT !.part[p].data = 0], "ammo", 1)
  BY DEF event_mech_reload
<1> DEFINE v == [u EXCEPT !.part[p].data = 0]
           w == [u EXCEPT !.part[p].data = FULL]
<1>3. v \in UnitStates /\ v.store = u.store /\ w.store = u.store
  BY <1>1
<1> HIDE DEF v, w
<1>4. "ammo" \in Goods /\ 1 \in Nat
  BY DEF Goods
<1>5. Add(v, "ammo", 1).store[g] = v.store[g]
  BY <1>3, <1>4, AddStore
<1> QED
  BY <1>2, <1>3, <1>5 DEF v, w

LEMMA RemovedStore ==
    ASSUME NEW u \in UnitStates, NEW p \in Parts, NEW extra
    PROVE  /\ event_mech_removed(u, p, extra).store[Kind(p)] <= u.store[Kind(p)] + 1
           /\ \A g \in Goods : g # Kind(p) => event_mech_removed(u, p, extra).store[g] = u.store[g]
<1> DEFINE c == Wreck(p, u.part[p])
           n == IF extra = 2 THEN 1 ELSE 0
           v == [u EXCEPT !.part[p] = c]
<1>1. c \in PartStates
  BY PartOf, WreckTyped
<1>2. event_mech_removed(u, p, extra) = Add(v, Kind(p), n)
  BY DEF event_mech_removed, UnitStates
<1>3. n \in Nat /\ n <= 1 /\ Kind(p) \in Goods
  BY HullAssumption DEF Kind, Goods
<1> HIDE DEF c, n
<1>4. v \in UnitStates
  BY <1>1, PartTyped
<1>5. v.store = u.store
  BY DEF UnitStates
<1> HIDE DEF v
<1>6. /\ Add(v, Kind(p), n).store[Kind(p)] = v.store[Kind(p)] + n
      /\ \A g \in Goods : g # Kind(p) => Add(v, Kind(p), n).store[g] = v.store[g]
  BY <1>3, <1>4, AddStore
<1>7. u.store[Kind(p)] \in Nat
  BY <1>3 DEF UnitStates
<1> QED
  BY <1>2, <1>3, <1>5, <1>6, <1>7

LEMMA OutcomeStore ==
    ASSUME NEW u \in UnitStates, NEW j, JobOK(j), ~Failed(j),
           j.type \notin {"SCRG", "SCRP", "SCRL"}, NEW g \in Goods, g # "ammo"
    PROVE  Outcome(u, j).store[g] = u.store[g]
<1> DEFINE l == j.loc[1]
           p == j.pos
<1>1. l \in Sections /\ j.type \in JobTypes /\ (j.type \in PartTypes => p \in Parts)
  BY JobPlace
<1>2. j.fn # "very_fake_func"
  BY DEF Failed
<1>3. CASE j.type = "RELO"
  <2>1. Outcome(u, j) = event_mech_reload(u, p, j.extra)
    BY <1>2, <1>3, OutcomeByType
  <2>2. p \in Parts
    BY <1>1, <1>3 DEF PartTypes, Mending
  <2>3. event_mech_reload(u, p, j.extra).store[g] = u.store[g]
    BY <2>2, ReloadStore
  <2> QED
    BY <2>1, <2>3
<1>4. CASE j.type = "FIX"
  <2>1. event_mech_repairarmor(u, j.loc).store = u.store
    BY DEF event_mech_repairarmor, UnitStates
  <2>2. Outcome(u, j) = event_mech_repairarmor(u, j.loc)
    BY <1>2, <1>4, OutcomeByType
  <2> QED
    BY <2>1, <2>2
<1>5. CASE j.type = "FIXI"
  <2>1. [u EXCEPT !.sect[l].int = Min({@ + 1, Hull[l].int})].store = u.store
    BY DEF UnitStates
  <2> QED
    BY <1>2, <1>5, <2>1, OutcomeByType
<1>6. CASE j.type = "REAT"
  <2>1. mech_ReAttach(u, l).store = u.store
    BY DEF mech_ReAttach, UnitStates
  <2>2. Outcome(u, j) = mech_ReAttach(u, l)
    BY <1>2, <1>6, OutcomeByType
  <2> QED
    BY <2>1, <2>2
<1>7. CASE j.type = "RESE"
  <2>1. mech_ReSeal(u, l).store = u.store
    BY DEF mech_ReSeal, UnitStates
  <2>2. Outcome(u, j) = mech_ReSeal(u, l)
    BY <1>2, <1>7, OutcomeByType
  <2> QED
    BY <2>1, <2>2
<1>8. CASE j.type \in {"REPLG", "REPAP", "REPL", "REPENHCRIT"}
  <2>1. /\ [u EXCEPT !.part[p] = RepairGun(@)].store = u.store
        /\ [u EXCEPT !.part[p] = mech_RepairPart(@)].store = u.store
        /\ [u EXCEPT !.part[p] = RepairEnhCrit(@, j.crit)].store = u.store
    BY DEF UnitStates
  <2>2. \/ Outcome(u, j) = [u EXCEPT !.part[p] = RepairGun(@)]
        \/ Outcome(u, j) = [u EXCEPT !.part[p] = mech_RepairPart(@)]
        \/ Outcome(u, j) = [u EXCEPT !.part[p] = RepairEnhCrit(@, j.crit)]
    BY <1>2, <1>8, OutcomeByType
  <2> QED
    BY <2>1, <2>2
<1> QED
  BY <1>1, <1>3, <1>4, <1>5, <1>6, <1>7, <1>8 DEF JobTypes

\* How many points of armor and of internals an event of this type puts on.
ArmorMended(j) == IF j.type = "FIX" THEN 1 ELSE 0
IntMended(j) == IF j.type = "FIXI" THEN 1 ELSE IF j.type = "REAT" THEN Hull[j.loc[1]].int ELSE 0

LEMMA OutcomeOn ==
    ASSUME NEW u \in UnitStates, Bounded(u), NEW j, JobOK(j), j.type # "SCRL"
    PROVE  /\ ArmorOn(Outcome(u, j)) <= ArmorOn(u) + ArmorMended(j)
           /\ IntOn(Outcome(u, j)) <= IntOn(u) + IntMended(j)
<1> DEFINE v == Outcome(u, j)
           y == j.loc[1]
           a == ArmorMended(j)
           i == IntMended(j)
<1>1. y \in Sections /\ v \in UnitStates
  BY JobPlace, OutcomeTyped
<1>2. Hull[y].int \in Nat
  BY <1>1, HullAssumption
<1>3. a \in Nat /\ i \in Nat
  BY <1>2 DEF ArmorMended, IntMended
<1>4. \A m \in Sections : SectEffect(u, v, j, m)
  BY OutcomeEffect
<1>5. ASSUME NEW m \in Sections
      PROVE  /\ u.sect[m].armor \in Nat /\ u.sect[m].rear \in Nat /\ u.sect[m].int \in Nat
             /\ v.sect[m].armor \in Nat /\ v.sect[m].rear \in Nat /\ v.sect[m].int \in Nat
  BY <1>1, SectOf DEF SectStates
<1> HIDE DEF v
<1>6. ASSUME NEW m \in Sections, m # y
      PROVE  SectShift(u.sect[m], v.sect[m], 0, 0)
  <2>1. v.sect[m] = u.sect[m]
    BY <1>4, <1>6 DEF SectEffect
  <2> QED
    BY <1>5, <2>1 DEF SectShift
<1>7. SectShift(u.sect[y], v.sect[y], a, i)
  <2> DEFINE s == u.sect[y]
             t == v.sect[y]
  <2>1. \/ t = s
        \/ j.type = "FIX" /\ ArmorFixed(s, t, y)
        \/ j.type = "FIXI" /\ IntFixed(s, t, y)
        \/ j.type = "REAT" /\ Reattached(s, t, y)
        \/ j.type = "RESE" /\ Resealed(s, t)
    BY <1>1, <1>4 DEF SectEffect
  <2>2. /\ s.armor \in Nat /\ s.rear \in Nat /\ s.int \in Nat
        /\ t.armor \in Nat /\ t.rear \in Nat /\ t.int \in Nat
    BY <1>1, <1>5
  <2> HIDE DEF s, t
  <2>3. CASE t = s
    BY <1>3, <2>2, <2>3 DEF SectShift, s, t
  <2>4. CASE j.type = "FIX" /\ ArmorFixed(s, t, y)
    <3>1. a = 1 /\ i = 0
      BY <2>4 DEF ArmorMended, IntMended
    <3>2. t.armor + t.rear <= s.armor + s.rear + 1 /\ t.int = s.int
      BY <2>4 DEF ArmorFixed
    <3> HIDE DEF a, i
    <3>3. SectShift(s, t, a, i)
      BY <2>2, <3>1, <3>2 DEF SectShift
    <3> QED
      BY <3>3 DEF s, t
  <2>5. CASE j.type = "FIXI" /\ IntFixed(s, t, y)
    <3>1. a = 0 /\ i = 1
      BY <2>5 DEF ArmorMended, IntMended
    <3>2. t.armor = s.armor /\ t.rear = s.rear /\ t.int <= s.int + 1
      BY <2>5 DEF IntFixed
    <3> HIDE DEF a, i
    <3>3. SectShift(s, t, a, i)
      BY <2>2, <3>1, <3>2 DEF SectShift
    <3> QED
      BY <3>3 DEF s, t
  <2>6. CASE j.type = "REAT" /\ Reattached(s, t, y)
    <3>1. a = 0 /\ i = Hull[y].int
      BY <2>6 DEF ArmorMended, IntMended
    <3>2. s.armor = 0 /\ s.int = 0 /\ t.armor = 0 /\ t.rear = s.rear /\ t.int = Hull[y].int
      BY <2>6 DEF Reattached
    <3> HIDE DEF a, i
    <3>3. SectShift(s, t, a, i)
      BY <1>2, <2>2, <3>1, <3>2 DEF SectShift
    <3> QED
      BY <3>3 DEF s, t
  <2>7. CASE j.type = "RESE" /\ Resealed(s, t)
    <3>1. t.armor = s.armor /\ t.rear = s.rear /\ t.int = s.int
      BY <2>7 DEF Resealed
    <3> HIDE DEF a, i
    <3>3. SectShift(s, t, a, i)
      BY <1>3, <2>2, <3>1 DEF SectShift
    <3> QED
      BY <3>3 DEF s, t
  <2> QED
    BY <2>1, <2>3, <2>4, <2>5, <2>6, <2>7
<1> HIDE DEF a, i, y
<1>8. ArmorOn(v) <= ArmorOn(u) + a /\ IntOn(v) <= IntOn(u) + i
  BY <1>1, <1>3, <1>6, <1>7, OnSectShift
<1> QED
  BY <1>8 DEF v, a, i

LEMMA SectionGone ==
    ASSUME NEW u \in UnitStates, NEW l \in Sections
    PROVE  SectIsDestroyed(DestroySection(u, l), l)
<1> DEFINE hurt(w, k) == IF SectIsDestroyed(w, k) THEN w ELSE Razed(w, k)
<1>1. ASSUME NEW w \in UnitStates, NEW k \in Sections
      PROVE  hurt(w, k) \in UnitStates /\ SectIsDestroyed(hurt(w, k), k)
  <2>1. Razed(w, k) \in UnitStates /\ SectRazed(w, Razed(w, k), k)
    BY RazedTyped, RazedEffect
  <2>2. SectIsDestroyed(Razed(w, k), k)
    BY <2>1 DEF SectRazed, SectIsDestroyed
  <2> QED
    BY <2>1, <2>2
<1>2. ASSUME NEW w \in UnitStates, NEW k \in Sections, k # l
      PROVE  hurt(w, k).sect[l] = w.sect[l]
  <2>1. SameSect(w, Razed(w, k), l)
    BY <1>2, RazedEffect
  <2> QED
    BY <2>1 DEF SameSect
<1>3. "LARM" \in Sections
  BY HullAssumption
<1>4. DestroySection(u, l) = IF l = "LTORSO" /\ ~SectIsDestroyed(u, l) THEN hurt(hurt(u, l), "LARM")
                             ELSE hurt(u, l)
  BY DEF DestroySection
<1> HIDE DEF hurt
<1>5. CASE l = "LTORSO" /\ ~SectIsDestroyed(u, l)
  <2>1. hurt(u, l) \in UnitStates /\ SectIsDestroyed(hurt(u, l), l)
    BY <1>1
  <2>2. hurt(hurt(u, l), "LARM").sect[l] = hurt(u, l).sect[l]
    BY <1>2, <1>3, <1>5, <2>1
  <2>3. DestroySection(u, l) = hurt(hurt(u, l), "LARM")
    BY <1>4, <1>5
  <2> QED
    BY <2>1, <2>2, <2>3 DEF SectIsDestroyed
<1>6. CASE ~(l = "LTORSO" /\ ~SectIsDestroyed(u, l))
  <2>1. DestroySection(u, l) = hurt(u, l)
    BY <1>4, <1>6
  <2> QED
    BY <1>1, <2>1
<1> QED
  BY <1>5, <1>6

LEMMA Salvage ==
    ASSUME NEW x \in Nat, NEW e, e = 2 \/ e = 3
    PROVE  (2 * x) \div e \in Nat /\ (2 * x) \div e <= x /\ x \div e \in Nat
<1>1. CASE e = 2
  BY <1>1
<1>2. CASE e = 3
  BY <1>2
<1> QED
  BY <1>1, <1>2

LEMMA ScrapSectionStock ==
    ASSUME NEW u \in UnitStates, NEW l \in Sections, NEW extra, extra = 2 \/ extra = 3
    PROVE  LET v == event_mech_removesection(u, l, extra)
           IN  /\ v.store["armor"] + ArmorOn(v) <= u.store["armor"] + ArmorOn(u)
               /\ v.store["internal"] + IntOn(v) <= u.store["internal"] + IntOn(u)
               /\ \A g \in Tracked : v.store[g] = u.store[g]
<1> DEFINE s == u.sect[l]
           a == (2 * s.int) \div extra
           b == (2 * s.armor) \div extra
           c == s.int \div extra
           w1 == Add(u, "internal", a)
           w2 == Add(w1, "armor", b)
           w3 == Add(w2, "electronic", c)
           v == event_mech_removesection(u, l, extra)
<1>1. v = DestroySection(w3, l)
  BY DEF event_mech_removesection
<1>2. s.int \in Nat /\ s.armor \in Nat /\ s.rear \in Nat
  BY SectOf DEF SectStates
<1> HIDE DEF s, v
<1>3. /\ a \in Nat /\ a <= s.int /\ b \in Nat /\ b <= s.armor /\ c \in Nat
      /\ s.armor = 0 => b = 0
      /\ s.int = 0 => a = 0
  <2>1. a \in Nat /\ a <= s.int /\ c \in Nat
    BY <1>2, Salvage
  <2>2. b \in Nat /\ b <= s.armor
    BY <1>2, Salvage
  <2> HIDE DEF a, b
  <2> QED
    BY <1>2, <2>1, <2>2
<1> HIDE DEF a, b, c
<1>4. "internal" \in Goods /\ "armor" \in Goods /\ "electronic" \in Goods /\ Tracked \subseteq Goods
  BY DEF Goods, Tracked
<1>5. /\ w1 \in UnitStates /\ w1.store["internal"] = u.store["internal"] + a
      /\ \A h \in Goods : h # "internal" => w1.store[h] = u.store[h]
  BY <1>3, <1>4, AddTyped, AddStore
<1> HIDE DEF w1
<1>6. /\ w2 \in UnitStates /\ w2.store["armor"] = w1.store["armor"] + b
      /\ \A h \in Goods : h # "armor" => w2.store[h] = w1.store[h]
  BY <1>3, <1>4, <1>5, AddTyped, AddStore
<1> HIDE DEF w2
<1>7. /\ w3 \in UnitStates
      /\ \A h \in Goods : h # "electronic" => w3.store[h] = w2.store[h]
  <2>1. w3 \in UnitStates
    BY <1>3, <1>4, <1>6, AddTyped
  <2>2. \A h \in Goods : h # "electronic" => w3.store[h] = w2.store[h]
    BY <1>3, <1>4, <1>6, AddStore
  <2> QED
    BY <2>1, <2>2
<1> HIDE DEF w3
<1>8. v.store = w3.store /\ v \in UnitStates /\ SectIsDestroyed(v, l)
  BY <1>1, <1>7, RazedStore, DestroySectionTyped, SectionGone
<1>9. /\ v.store["armor"] = u.store["armor"] + b /\ v.store["internal"] = u.store["internal"] + a
      /\ \A g \in Tracked : v.store[g] = u.store[g]
  BY <1>4, <1>5, <1>6, <1>7, <1>8 DEF Tracked
<1>10. ASSUME NEW m \in Sections
       PROVE  SameSect(u, v, m) \/ SectRazed(u, v, m)
  BY RemoveSectionEffect DEF v
<1>11. ASSUME NEW m \in Sections
       PROVE  /\ u.sect[m].armor \in Nat /\ u.sect[m].rear \in Nat /\ u.sect[m].int \in Nat
              /\ v.sect[m].armor \in Nat /\ v.sect[m].rear \in Nat /\ v.sect[m].int \in Nat
  BY <1>8, SectOf DEF SectStates
<1>12. ASSUME NEW m \in Sections, m # l
       PROVE  SectShift(u.sect[m], v.sect[m], 0, 0)
  BY <1>10, <1>11 DEF SectShift, SameSect, SectRazed
<1>13. SectShift(u.sect[l], v.sect[l], -b, -a)
  <2> DEFINE t == v.sect[l]
  <2>1. t.armor = 0 /\ t.int = 0 /\ t.rear \in Nat
    BY <1>8, <1>11 DEF SectIsDestroyed
  <2>2. t = s \/ t.rear = 0
    BY <1>10 DEF SameSect, SectRazed, s
  <2> HIDE DEF t
  <2>3. SectShift(s, t, -b, -a)
    BY <1>2, <1>3, <2>1, <2>2 DEF SectShift
  <2> QED
    BY <2>3 DEF s, t
<1>14. -b \in Int /\ -a \in Int
  BY <1>3
<1>15. ArmorOn(v) <= ArmorOn(u) + (-b) /\ IntOn(v) <= IntOn(u) + (-a)
  BY <1>8, <1>12, <1>13, <1>14, OnSectShift
<1>16. /\ ArmorOn(v) \in Nat /\ IntOn(v) \in Nat /\ ArmorOn(u) \in Nat /\ IntOn(u) \in Nat
       /\ u.store["armor"] \in Nat /\ u.store["internal"] \in Nat
  BY <1>4, <1>8, OnNat DEF UnitStates
<1>17. v.store["armor"] + ArmorOn(v) <= u.store["armor"] + ArmorOn(u)
  BY <1>3, <1>9, <1>15, <1>16
<1>18. v.store["internal"] + IntOn(v) <= u.store["internal"] + IntOn(u)
  BY <1>3, <1>9, <1>15, <1>16
<1> QED
  BY <1>9, <1>17, <1>18 DEF v

-----------------------------------------------------------------------------
\* Which parts an event makes whole.

LEMMA Absent ==
    ASSUME NEW p \in Parts, NEW c \in PartStates
    PROVE  ~Present(Wreck(p, c), Kind(p))
<1>1. Kind(p) \in {"gun", "big", "part", "ammo"}
  BY HullAssumption DEF Kind
<1>2. Wreck(p, c).mode = {"destroyed"}
  BY WreckTyped
<1>3. Kind(p) = "big" => Wreck(p, c).rest = "gone"
  BY DEF Wreck, IsWeapon, DestroyGun, DestroyPart, PartStates
<1> QED
  BY <1>2, <1>3 DEF Present

LEMMA SameThere ==
    ASSUME NEW c, NEW d, NEW kind, d.rest = c.rest, "destroyed" \in c.mode => "destroyed" \in d.mode
    PROVE  Present(d, kind) => Present(c, kind)
BY DEF Present

LEMMA DriedThere ==
    ASSUME NEW c \in PartStates, NEW kind
    PROVE  /\ Present(Dried(c), kind) => Present(c, kind)
           /\ \A n \in 0..LAST : Present(RepairEnhCrit(c, n), kind) => Present(c, kind)
           /\ \A n \in 0..FULL : Present([c EXCEPT !.data = n], kind) => Present(c, kind)
<1>1. Dried(c).rest = c.rest
  <2>1. CASE "disabled" \notin c.mode
    BY <2>1 DEF Dried
  <2>2. CASE "disabled" \in c.mode /\ c.mode \cap {"destroyed", "damaged"} = {}
    BY <2>2, RepairTyped DEF Dried
  <2>3. CASE "disabled" \in c.mode /\ c.mode \cap {"destroyed", "damaged"} # {}
    <3>1. Dried(c) = [c EXCEPT !.mode = c.mode \ {"disabled"}]
      BY <2>3 DEF Dried, PartStates
    <3> QED
      BY <3>1 DEF PartStates
  <2> QED
    BY <2>1, <2>2, <2>3
<1>2. "destroyed" \in c.mode => "destroyed" \in Dried(c).mode
  BY DriedTyped
<1>3. \A n \in 0..LAST : RepairEnhCrit(c, n).rest = c.rest
  BY EnhCritTyped
<1>4. \A n \in 0..LAST : "destroyed" \in c.mode => "destroyed" \in RepairEnhCrit(c, n).mode
  BY EnhCritTyped
<1>5. ASSUME NEW n \in 0..FULL
      PROVE  [c EXCEPT !.data = n].rest = c.rest /\ [c EXCEPT !.data = n].mode = c.mode
  BY DEF PartStates
<1> QED
  BY <1>1, <1>2, <1>3, <1>4, <1>5, SameThere

\* The part of an event that mends a part with RepairGun or mech_RepairPart.
Mended(j) == IF j.type \in {"REPL", "REPLG", "REPAP"} THEN {j.pos} ELSE {}

LEMMA OutcomeWhole ==
    ASSUME NEW u \in UnitStates, Bounded(u), NEW j, JobOK(j), ~Failed(j)
    PROVE  /\ \A q \in Parts : Present(Outcome(u, j).part[q], Kind(q)) =>
                                   Present(u.part[q], Kind(q)) \/ q \in Mended(j)
           /\ j.type \in {"SCRG", "SCRP"} => ~Present(Outcome(u, j).part[j.pos], Kind(j.pos))
<1> DEFINE v == Outcome(u, j)
           l == j.loc[1]
           p == j.pos
           StaysThere(q) == Present(v.part[q], Kind(q)) => Present(u.part[q], Kind(q)) \/ q \in Mended(j)
<1>1. /\ l \in Sections /\ j.type \in JobTypes /\ (j.type \in PartTypes => p \in Parts)
      /\ j.loc \in Sections \X {0, 8} /\ j.fn # "very_fake_func"
  BY JobPlace DEF Failed
<1>2. u.part \in [Parts -> PartStates]
  BY DEF UnitStates
<1>3. ASSUME NEW d, v.part = [u.part EXCEPT ![p] = d], p \in Parts,
             Present(d, Kind(p)) => Present(u.part[p], Kind(p)) \/ p \in Mended(j)
      PROVE  \A q \in Parts : StaysThere(q)
  <2> HIDE DEF v, p
  <2>1. ASSUME NEW q \in Parts PROVE StaysThere(q)
    <3>1. CASE q = p
      <4>1. v.part[q] = d
        BY <1>2, <1>3, <3>1
      <4> QED
        BY <1>3, <3>1, <4>1
    <3>2. CASE q # p
      <4>1. v.part[q] = u.part[q]
        BY <1>2, <1>3, <3>2
      <4> QED
        BY <4>1
    <3> QED
      BY <3>1, <3>2
  <2> QED
    BY <2>1
<1>4. CASE j.type \in {"SCRG", "SCRP"}
  <2>1. v = event_mech_removed(u, p, j.extra) /\ p \in Parts
    BY <1>1, <1>4, OutcomeByType DEF PartTypes
  <2>2. v.part = [u.part EXCEPT ![p] = Wreck(p, u.part[p])]
    BY <2>1, RemovedTyped
  <2>3. ~Present(Wreck(p, u.part[p]), Kind(p))
    BY <2>1, Absent, PartOf
  <2>4. v.part[p] = Wreck(p, u.part[p])
    BY <1>2, <2>1, <2>2
  <2>5. \A q \in Parts : StaysThere(q)
    <3> HIDE DEF v, p, StaysThere
    <3> QED
      BY <1>3, <2>1, <2>2, <2>3
  <2> QED
    BY <2>3, <2>4, <2>5
<1>5. CASE j.type = "RELO"
  <2>1. v = event_mech_reload(u, p, j.extra) /\ p \in Parts
    <3>1. Outcome(u, j) = event_mech_reload(u, j.pos, j.extra)
      BY <1>1, <1>5 DEF JobOK, Carries, Outcome
    <3>2. p \in Parts
      BY <1>1, <1>5 DEF PartTypes, Mending
    <3> QED
      BY <3>1, <3>2
  <2>2. PICK n \in 0..FULL : v.part = [u.part EXCEPT ![p] = [@ EXCEPT !.data = n]]
    BY <2>1, ReloadTyped
  <2>3. Present([u.part[p] EXCEPT !.data = n], Kind(p)) => Present(u.part[p], Kind(p))
    BY <2>1, PartOf, DriedThere
  <2>4. v.part = [u.part EXCEPT ![p] = [u.part[p] EXCEPT !.data = n]]
    BY <2>2
  <2>5. \A q \in Parts : StaysThere(q)
    <3> HIDE DEF v, p, StaysThere
    <3> QED
      BY <1>3, <2>1, <2>3, <2>4
  <2> QED
    BY <1>5, <2>5
<1>6. CASE j.type \in {"REPLG", "REPAP", "REPL"}
  <2>1. \/ v = [u EXCEPT !.part[p] = RepairGun(@)]
        \/ v = [u EXCEPT !.part[p] = mech_RepairPart(@)]
    BY <1>1, <1>6, OutcomeByType
  <2>2. PICK d : v.part = [u.part EXCEPT ![p] = d]
    BY <2>1 DEF UnitStates
  <2>3. p \in Mended(j) /\ p \in Parts
    BY <1>1, <1>6 DEF Mended, PartTypes, Mending
  <2>5. \A q \in Parts : StaysThere(q)
    <3> HIDE DEF v, p, StaysThere
    <3> QED
      BY <1>3, <2>2, <2>3
  <2> QED
    BY <1>6, <2>5
<1>7. CASE j.type = "REPENHCRIT"
  <2>1. v = [u EXCEPT !.part[p] = RepairEnhCrit(@, j.crit)] /\ p \in Parts
    BY <1>1, <1>7, OutcomeByType DEF PartTypes, Mending
  <2>2. v.part = [u.part EXCEPT ![p] = RepairEnhCrit(u.part[p], j.crit)]
    BY <2>1 DEF UnitStates
  <2>3. Present(RepairEnhCrit(u.part[p], j.crit), Kind(p)) => Present(u.part[p], Kind(p))
    BY <2>1, PartOf, DriedThere, JobPlace
  <2>5. \A q \in Parts : StaysThere(q)
    <3> HIDE DEF v, p, StaysThere
    <3> QED
      BY <1>3, <2>1, <2>2, <2>3
  <2> QED
    BY <1>7, <2>5
<1>8. CASE j.type \in {"FIX", "FIXI", "REAT"}
  <2>1. v.part = u.part
    <3>1. CASE j.type = "FIX"
      <4>1. v = event_mech_repairarmor(u, j.loc)
        BY <1>1, <3>1, OutcomeByType
      <4> QED
        BY <1>1, <4>1, ArmorEffect
    <3>2. CASE j.type = "FIXI"
      <4>1. v = [u EXCEPT !.sect[l].int = Min({@ + 1, Hull[l].int})]
        BY <1>1, <3>2, OutcomeByType
      <4> QED
        BY <1>1, <4>1, InternalEffect
    <3>3. CASE j.type = "REAT"
      <4>1. v = mech_ReAttach(u, l)
        BY <1>1, <3>3, OutcomeByType
      <4> QED
        BY <1>1, <4>1, ReAttachEffect
    <3> QED
      BY <1>8, <3>1, <3>2, <3>3
  <2> QED
    BY <1>8, <2>1
<1>9. CASE j.type = "RESE"
  <2>1. v = mech_ReSeal(u, l)
    BY <1>1, <1>9 DEF JobOK, Carries, Outcome
  <2>2. ASSUME NEW q \in Parts
        PROVE  v.part[q] = u.part[q] \/ v.part[q] = Dried(u.part[q])
    <3>1. Loc(q) \in Sections
      BY HullAssumption DEF Loc
    <3>2. \/ SameSect(u, v, Loc(q))
          \/ \A r \in Parts : Loc(r) = Loc(q) => v.part[r] = Dried(u.part[r])
      BY <1>1, <2>1, <3>1, ReSealEffect
    <3> QED
      BY <3>2 DEF SameSect
  <2>3. \A q \in Parts : StaysThere(q)
    BY <2>2, PartOf, DriedThere
  <2> QED
    BY <1>9, <2>3
<1>10. CASE j.type = "SCRL"
  <2>1. v = event_mech_removesection(u, l, j.extra)
    BY <1>1, <1>10, OutcomeByType
  <2>0. j.extra = 2 \/ j.extra = 3
    BY <1>10 DEF JobOK
  <2>2. ASSUME NEW q \in Parts
        PROVE  v.part[q] = u.part[q] \/ v.part[q] = Wreck(q, u.part[q])
    <3>1. Loc(q) \in Sections
      BY HullAssumption DEF Loc
    <3>2. SameSect(u, v, Loc(q)) \/ SectRazed(u, v, Loc(q))
      BY <1>1, <2>0, <2>1, <3>1, RemoveSectionEffect
    <3> QED
      BY <3>2 DEF SameSect, SectRazed
  <2>3. \A q \in Parts : StaysThere(q)
    BY <2>2, PartOf, Absent
  <2> QED
    BY <1>10, <2>3
<1> QED
  BY <1>1, <1>4, <1>5, <1>6, <1>7, <1>8, <1>9, <1>10 DEF JobTypes

-----------------------------------------------------------------------------
\* An event makes nothing.

\* No job of js clashes with j, and none undoes it.
Alone(js, j) == \A k \in js : (Clash(j, k) => j = k) /\ ~Undoes(j, k) /\ ~Undoes(k, j)

LEMMA EventArmor ==
    ASSUME NEW js, JobSet(js), NEW u \in UnitStates, Bounded(u), NEW j \in js
    PROVE  ArmorStock(Outcome(u, j), After(js, j)) <= ArmorStock(u, js)
<1> DEFINE v == Outcome(u, j)
           ks == After(js, j)
           J == RealOf(js, "FIX")
           K == RealOf(ks, "FIX")
<1>1. JobOK(j) /\ j.loc[1] \in Sections /\ (j.type \in PartTypes => j.pos \in Parts)
  BY JobPlace DEF JobSet
<1>2. v \in UnitStates
  BY <1>1, OutcomeTyped
<1>3. u.store["armor"] \in Nat /\ v.store["armor"] \in Nat
  BY <1>2 DEF UnitStates, Goods
<1>4. ArmorOn(u) \in Nat /\ ArmorOn(v) \in Nat
  BY <1>2, OnNat
<1>5. Points(J) \in Nat /\ Points(K) \in Nat
  BY AfterSet, RealSet, PointsNat
<1>6. /\ ArmorStock(u, js) = u.store["armor"] + ArmorOn(u) + Points(J)
      /\ ArmorStock(v, ks) = v.store["armor"] + ArmorOn(v) + Points(K)
  BY StockIs
<1>7. CASE Failed(j)
  <2>1. v = u
    BY <1>7, FakeOutcome DEF Failed
  <2>2. K = J
    BY <1>1, <1>7, AfterOther
  <2> HIDE DEF v, ks, J, K
  <2>3. ArmorStock(v, ks) = ArmorStock(u, js)
    BY <1>6, <2>1, <2>2
  <2>4. ArmorStock(u, js) \in Nat
    BY <1>3, <1>4, <1>5, <1>6
  <2> QED
    BY <2>3, <2>4 DEF v, ks
<1>8. CASE ~Failed(j) /\ j.type = "SCRL"
  <2>1. v = event_mech_removesection(u, j.loc[1], j.extra) /\ (j.extra = 2 \/ j.extra = 3)
    BY <1>1, <1>8, OutcomeByType DEF Failed, JobOK
  <2>2. v.store["armor"] + ArmorOn(v) <= u.store["armor"] + ArmorOn(u)
    <3>1. /\ j.loc[1] \in Sections
          /\ event_mech_removesection(u, j.loc[1], j.extra).store["armor"]
             + ArmorOn(event_mech_removesection(u, j.loc[1], j.extra)) <= u.store["armor"] + ArmorOn(u)
      BY <1>1, <2>1, ScrapSectionStock
    <3> HIDE DEF v
    <3> QED
      BY <2>1, <3>1
  <2>3. K = J
    BY <1>1, <1>8, AfterOther
  <2> HIDE DEF v, ks, J, K
  <2>4. ArmorStock(v, ks) <= ArmorStock(u, js)
    BY <1>3, <1>4, <1>5, <1>6, <2>2, <2>3
  <2> QED
    BY <2>4 DEF v, ks
<1>9. CASE ~Failed(j) /\ j.type # "SCRL"
  <2>1. v.store["armor"] = u.store["armor"]
    <3>1. CASE j.type \in {"SCRG", "SCRP"}
      <4>1. v = event_mech_removed(u, j.pos, j.extra) /\ j.pos \in Parts
        BY <1>1, <1>9, <3>1, OutcomeByType DEF Failed, PartTypes
      <4>2. "armor" \in Goods /\ "armor" # Kind(j.pos)
        BY <4>1, HullAssumption DEF Goods, Kind
      <4>3. event_mech_removed(u, j.pos, j.extra).store["armor"] = u.store["armor"]
        BY <4>1, <4>2, RemovedStore
      <4> QED
        BY <4>1, <4>3
    <3>2. CASE j.type \notin {"SCRG", "SCRP"}
      <4>1. "armor" \in Goods /\ j.type \notin {"SCRG", "SCRP", "SCRL"} /\ ~Failed(j)
        BY <1>9, <3>2 DEF Goods
      <4> QED
        BY <1>1, <4>1, OutcomeStore
    <3> QED
      BY <3>1, <3>2
  <2>2. ArmorOn(v) <= ArmorOn(u) + ArmorMended(j)
    BY <1>1, <1>9, OutcomeOn
  <2>3. CASE j.type = "FIX"
    <3>1. ArmorMended(j) = 1
      BY <2>3 DEF ArmorMended
    <3>2. Points(K) + 1 <= Points(J)
      BY <1>9, <2>3, AfterMended
    <3> HIDE DEF v, ks, J, K
    <3>3. ArmorStock(v, ks) <= ArmorStock(u, js)
      BY <1>3, <1>4, <1>5, <1>6, <2>1, <2>2, <3>1, <3>2
    <3> QED
      BY <3>3 DEF v, ks
  <2>4. CASE j.type # "FIX"
    <3>1. ArmorMended(j) = 0
      BY <2>4 DEF ArmorMended
    <3>2. K = J
      BY <1>1, <2>4, AfterOther
    <3> HIDE DEF v, ks, J, K
    <3>3. ArmorStock(v, ks) <= ArmorStock(u, js)
      BY <1>3, <1>4, <1>5, <1>6, <2>1, <2>2, <3>1, <3>2
    <3> QED
      BY <3>3 DEF v, ks
  <2> QED
    BY <2>3, <2>4
<1> QED
  BY <1>7, <1>8, <1>9

LEMMA EventInternal ==
    ASSUME NEW js, JobSet(js), NEW u \in UnitStates, Bounded(u), NEW j \in js
    PROVE  IntStock(Outcome(u, j), After(js, j)) <= IntStock(u, js)
<1> DEFINE v == Outcome(u, j)
           ks == After(js, j)
           J == RealOf(js, "FIXI")
           K == RealOf(ks, "FIXI")
           A == RealOf(js, "REAT")
           B == RealOf(ks, "REAT")
           n == Hull[j.loc[1]].int
<1>1. JobOK(j) /\ j.loc[1] \in Sections /\ (j.type \in PartTypes => j.pos \in Parts)
  BY JobPlace DEF JobSet
<1>2. v \in UnitStates
  BY <1>1, OutcomeTyped
<1>3. u.store["internal"] \in Nat /\ v.store["internal"] \in Nat
  BY <1>2 DEF UnitStates, Goods
<1>4. IntOn(u) \in Nat /\ IntOn(v) \in Nat
  BY <1>2, OnNat
<1>5. Points(J) \in Nat /\ Points(K) \in Nat /\ Internals(A) \in Nat /\ Internals(B) \in Nat
  BY AfterSet, RealSet, PointsNat
<1>6. /\ IntStock(u, js) = u.store["internal"] + IntOn(u) + Points(J) + Internals(A)
      /\ IntStock(v, ks) = v.store["internal"] + IntOn(v) + Points(K) + Internals(B)
  BY StockIs
<1>7. CASE Failed(j)
  <2>1. v = u
    BY <1>7, FakeOutcome DEF Failed
  <2>2. K = J /\ B = A
    BY <1>1, <1>7, AfterOther
  <2> HIDE DEF v, ks, J, K, A, B
  <2>3. IntStock(v, ks) = IntStock(u, js)
    BY <1>6, <2>1, <2>2
  <2>4. IntStock(u, js) \in Nat
    BY <1>3, <1>4, <1>5, <1>6
  <2> QED
    BY <2>3, <2>4 DEF v, ks
<1>8. CASE ~Failed(j) /\ j.type = "SCRL"
  <2>1. v = event_mech_removesection(u, j.loc[1], j.extra) /\ (j.extra = 2 \/ j.extra = 3)
    BY <1>1, <1>8, OutcomeByType DEF Failed, JobOK
  <2>2. v.store["internal"] + IntOn(v) <= u.store["internal"] + IntOn(u)
    <3>1. /\ j.loc[1] \in Sections
          /\ event_mech_removesection(u, j.loc[1], j.extra).store["internal"]
             + IntOn(event_mech_removesection(u, j.loc[1], j.extra)) <= u.store["internal"] + IntOn(u)
      BY <1>1, <2>1, ScrapSectionStock
    <3> HIDE DEF v
    <3> QED
      BY <2>1, <3>1
  <2>3. K = J /\ B = A
    BY <1>1, <1>8, AfterOther
  <2> HIDE DEF v, ks, J, K, A, B
  <2>4. IntStock(v, ks) <= IntStock(u, js)
    BY <1>3, <1>4, <1>5, <1>6, <2>2, <2>3
  <2> QED
    BY <2>4 DEF v, ks
<1>9. CASE ~Failed(j) /\ j.type # "SCRL"
  <2>1. v.store["internal"] = u.store["internal"]
    <3>1. CASE j.type \in {"SCRG", "SCRP"}
      <4>1. v = event_mech_removed(u, j.pos, j.extra) /\ j.pos \in Parts
        BY <1>1, <1>9, <3>1, OutcomeByType DEF Failed, PartTypes
      <4>2. "internal" \in Goods /\ "internal" # Kind(j.pos)
        BY <4>1, HullAssumption DEF Goods, Kind
      <4>3. event_mech_removed(u, j.pos, j.extra).store["internal"] = u.store["internal"]
        BY <4>1, <4>2, RemovedStore
      <4> QED
        BY <4>1, <4>3
    <3>2. CASE j.type \notin {"SCRG", "SCRP"}
      <4>1. "internal" \in Goods /\ j.type \notin {"SCRG", "SCRP", "SCRL"} /\ ~Failed(j)
        BY <1>9, <3>2 DEF Goods
      <4> QED
        BY <1>1, <4>1, OutcomeStore
    <3> QED
      BY <3>1, <3>2
  <2>2. IntOn(v) <= IntOn(u) + IntMended(j)
    BY <1>1, <1>9, OutcomeOn
  <2>3. CASE j.type = "FIXI"
    <3>1. IntMended(j) = 1
      BY <2>3 DEF IntMended
    <3>2. Points(K) + 1 <= Points(J)
      BY <1>9, <2>3, AfterMended
    <3>3. B = A
      BY <1>1, <2>3, AfterOther
    <3> HIDE DEF v, ks, J, K, A, B
    <3>4. IntStock(v, ks) <= IntStock(u, js)
      BY <1>3, <1>4, <1>5, <1>6, <2>1, <2>2, <3>1, <3>2, <3>3
    <3> QED
      BY <3>4 DEF v, ks
  <2>4. CASE j.type = "REAT"
    <3>1. IntMended(j) = n
      BY <2>4 DEF IntMended
    <3>2. Internals(B) + n = Internals(A) /\ n \in Nat
      BY <1>9, <2>4, AfterAttached
    <3>3. K = J
      BY <1>1, <2>4, AfterOther
    <3> HIDE DEF v, ks, J, K, A, B, n
    <3>4. IntStock(v, ks) <= IntStock(u, js)
      BY <1>3, <1>4, <1>5, <1>6, <2>1, <2>2, <3>1, <3>2, <3>3
    <3> QED
      BY <3>4 DEF v, ks
  <2>5. CASE j.type \notin {"FIXI", "REAT"}
    <3>1. IntMended(j) = 0
      BY <2>5 DEF IntMended
    <3>2. K = J /\ B = A
      BY <1>1, <2>5, AfterOther
    <3> HIDE DEF v, ks, J, K, A, B
    <3>3. IntStock(v, ks) <= IntStock(u, js)
      BY <1>3, <1>4, <1>5, <1>6, <2>1, <2>2, <3>1, <3>2
    <3> QED
      BY <3>3 DEF v, ks
  <2> QED
    BY <2>3, <2>4, <2>5
<1> QED
  BY <1>7, <1>8, <1>9

OwnTypes == {"SCRG", "SCRP", "REPAP"}
ComeTypes == {"REPL", "REPLG"}

LEMMA StoreOfEvent ==
    ASSUME NEW u \in UnitStates, NEW j, JobOK(j), ~Failed(j), NEW kind \in Tracked
    PROVE  IF j.type \in {"SCRG", "SCRP"} /\ Kind(j.pos) = kind
           THEN Outcome(u, j).store[kind] <= u.store[kind] + 1
           ELSE Outcome(u, j).store[kind] <= u.store[kind]
<1> DEFINE v == Outcome(u, j)
<1>1. kind \in Goods /\ kind # "ammo"
  BY DEF Tracked, Goods
<1>2. v \in UnitStates
  BY OutcomeTyped
<1>3. u.store[kind] \in Nat /\ v.store[kind] \in Nat
  BY <1>1, <1>2 DEF UnitStates
<1>4. CASE j.type \in {"SCRG", "SCRP"}
  <2>1. v = event_mech_removed(u, j.pos, j.extra) /\ j.pos \in Parts
    BY <1>4, JobPlace, OutcomeByType DEF Failed, PartTypes
  <2>2. /\ event_mech_removed(u, j.pos, j.extra).store[Kind(j.pos)] <= u.store[Kind(j.pos)] + 1
        /\ \A g \in Goods : g # Kind(j.pos) => event_mech_removed(u, j.pos, j.extra).store[g] = u.store[g]
    BY <2>1, RemovedStore
  <2>3. CASE Kind(j.pos) = kind
    <3>1. v.store[kind] <= u.store[kind] + 1
      <4> HIDE DEF v
      <4> QED
        BY <2>1, <2>2, <2>3
    <3> QED
      BY <1>4, <2>3, <3>1
  <2>4. CASE Kind(j.pos) # kind
    <3>1. v.store[kind] = u.store[kind]
      <4> HIDE DEF v
      <4> QED
        BY <1>1, <2>1, <2>2, <2>4
    <3> QED
      BY <1>3, <2>4, <3>1
  <2> QED
    BY <2>3, <2>4
<1>5. CASE j.type = "SCRL"
  <2>1. /\ v = event_mech_removesection(u, j.loc[1], j.extra)
        /\ j.loc[1] \in Sections /\ (j.extra = 2 \/ j.extra = 3)
    <3>1. j.loc[1] \in Sections
      BY JobPlace
    <3>2. j.extra = 2 \/ j.extra = 3
      BY <1>5 DEF JobOK
    <3>3. v = event_mech_removesection(u, j.loc[1], j.extra)
      BY <1>5 DEF JobOK, Carries, Outcome, Failed
    <3> QED
      BY <3>1, <3>2, <3>3
  <2>2. event_mech_removesection(u, j.loc[1], j.extra).store[kind] = u.store[kind]
    BY <2>1, ScrapSectionStock
  <2>3. v.store[kind] = u.store[kind]
    <3> HIDE DEF v
    <3> QED
      BY <2>1, <2>2
  <2> QED
    BY <1>3, <1>5, <2>3
<1>6. CASE j.type \notin {"SCRG", "SCRP", "SCRL"}
  <2>1. v.store[kind] = u.store[kind]
    BY <1>1, <1>6, OutcomeStore
  <2> QED
    BY <1>3, <1>6, <2>1
<1> QED
  BY <1>4, <1>5, <1>6

LEMMA EventParts ==
    ASSUME NEW js, JobSet(js), NEW u \in UnitStates, Bounded(u), NEW j \in js, Alone(js, j),
           NEW kind \in Tracked
    PROVE  PartStock(Outcome(u, j), After(js, j), kind) <= PartStock(u, js, kind)
<1> DEFINE v == Outcome(u, j)
           ks == After(js, j)
           p == j.pos
<1>1. JobOK(j)
  BY DEF JobSet
<1>2. v \in UnitStates /\ (j.type \in PartTypes => p \in Parts)
  BY <1>1, OutcomeTyped, JobPlace
<1>3. OwnTypes \in SUBSET PartTypes /\ ComeTypes \in SUBSET PartTypes
  BY DEF OwnTypes, ComeTypes, PartTypes, Mending
<1>4. Busy(ks, OwnTypes) \subseteq Busy(js, OwnTypes) /\ Busy(ks, ComeTypes) \subseteq Busy(js, ComeTypes)
  BY <1>1, <1>3, AfterBusy
<1>5. /\ Owned(u, js, kind) = {q \in Parts : Kind(q) = kind /\ (Present(u.part[q], kind) \/ q \in Busy(js, OwnTypes))}
      /\ Owned(v, ks, kind) = {q \in Parts : Kind(q) = kind /\ (Present(v.part[q], kind) \/ q \in Busy(ks, OwnTypes))}
  BY DEF Owned, OwnTypes
<1>6. /\ Coming(js, kind) = {q \in Parts : Kind(q) = kind /\ q \in Busy(js, ComeTypes)}
      /\ Coming(ks, kind) = {q \in Parts : Kind(q) = kind /\ q \in Busy(ks, ComeTypes)}
  BY DEF Coming, ComeTypes
<1>7. Coming(ks, kind) \subseteq Coming(js, kind)
  BY <1>4, <1>6
<1>8. CASE Failed(j)
  <2>1. v = u
    BY <1>8, FakeOutcome DEF Failed
  <2>2. u.store[kind] \in Nat
    BY DEF UnitStates, Goods, Tracked
  <2>3. v.store[kind] <= u.store[kind] /\ Owned(v, ks, kind) \subseteq Owned(u, js, kind)
    BY <1>4, <1>5, <2>1, <2>2
  <2> QED
    BY <1>2, <1>7, <2>3, PartMoved
<1>9. CASE ~Failed(j) /\ ~(j.type \in {"SCRG", "SCRP"} /\ Kind(p) = kind)
  <2>1. v.store[kind] <= u.store[kind]
    BY <1>1, <1>9, StoreOfEvent
  <2>2. \A q \in Parts : Present(v.part[q], Kind(q)) => Present(u.part[q], Kind(q)) \/ q \in Mended(j)
    BY <1>1, <1>9, OutcomeWhole
  <2>3. CASE j.type \in ComeTypes /\ Kind(p) = kind
    <3>1. Owned(v, ks, kind) \subseteq Owned(u, js, kind) \cup {p}
      <4> HIDE DEF v, ks, p
      <4>1. Mended(j) \subseteq {p}
        BY DEF Mended, p
      <4> QED
        BY <1>4, <1>5, <2>2, <4>1
    <3>2. p \in Coming(js, kind)
      BY <1>2, <1>3, <1>6, <1>9, <2>3 DEF Busy
    <3>3. \A k \in js : k.type \in ComeTypes /\ k.pos = p => k = j
      <4>1. \A k \in js : k.type \in ComeTypes => k.crit = 0
        BY DEF JobSet, JobOK, ComeTypes
      <4> QED
        BY <2>3, <4>1 DEF Alone, Clash, ComeTypes, Mending
    <3>4. Busy(ks, ComeTypes) \subseteq Busy(js, ComeTypes) \ {p}
      BY <1>1, <1>3, <3>3, AfterAlone
    <3>5. Coming(ks, kind) \subseteq Coming(js, kind) \ {p}
      BY <1>6, <3>4
    <3> QED
      BY <1>2, <2>1, <3>1, <3>2, <3>5, PartMoved
  <2>4. CASE ~(j.type \in ComeTypes /\ Kind(p) = kind)
    <3>1. \A q \in Mended(j) : Kind(q) = kind => q \in Busy(js, OwnTypes)
      BY <1>9, <2>4 DEF Mended, Busy, OwnTypes, ComeTypes
    <3>2. Owned(v, ks, kind) \subseteq Owned(u, js, kind)
      <4> HIDE DEF v, ks, p
      <4> QED
        BY <1>4, <1>5, <2>2, <3>1
    <3> QED
      BY <1>2, <1>7, <2>1, <3>2, PartMoved
  <2> QED
    BY <2>3, <2>4
<1>10. CASE ~Failed(j) /\ j.type \in {"SCRG", "SCRP"} /\ Kind(p) = kind
  <2>1. v.store[kind] <= u.store[kind] + 1
    BY <1>1, <1>10, StoreOfEvent
  <2>2. /\ \A q \in Parts : Present(v.part[q], Kind(q)) => Present(u.part[q], Kind(q)) \/ q \in Mended(j)
        /\ ~Present(v.part[p], Kind(p)) /\ Mended(j) = {}
    BY <1>1, <1>10, OutcomeWhole DEF Mended
  <2>3. p \in Busy(js, OwnTypes) /\ p \in Parts
    BY <1>2, <1>10 DEF Busy, OwnTypes, PartTypes
  <2>4. \A k \in js : k.type \in OwnTypes /\ k.pos = p => k = j
    <3>1. \A k \in js : k.type \in OwnTypes => k.crit = 0
      BY DEF JobSet, JobOK, OwnTypes
    <3> QED
      BY <1>10, <3>1 DEF Alone, Clash, Undoes, OwnTypes
  <2>5. Busy(ks, OwnTypes) \subseteq Busy(js, OwnTypes) \ {p}
    BY <1>1, <1>3, <2>4, AfterAlone
  <2> HIDE DEF v, ks, p
  <2>6. p \in Owned(u, js, kind) /\ Owned(v, ks, kind) \subseteq Owned(u, js, kind) \ {p}
    BY <1>5, <1>10, <2>2, <2>3, <2>5 DEF p
  <2>7. PartStock(v, ks, kind) <= PartStock(u, js, kind)
    BY <1>2, <1>7, <2>1, <2>6, PartMoved
  <2> QED
    BY <2>7 DEF v, ks
<1> QED
  BY <1>8, <1>9, <1>10

LEMMA EventStock ==
    ASSUME NEW js, JobSet(js), NEW u \in UnitStates, Bounded(u), NEW j \in js, Alone(js, j)
    PROVE  NoMore(u, js, Outcome(u, j), After(js, j))
BY EventArmor, EventInternal, EventParts DEF NoMore

-----------------------------------------------------------------------------
\* A restart makes nothing.

LEMMA ReloadedReal ==
    ASSUME NEW js, \A j \in js : JobOK(j), NEW type \in {"FIX", "FIXI", "REAT"}
    PROVE  RealOf(Loaded(js), type) = RealOf(js, type)
<1>1. ASSUME NEW a \in Loaded(js), a.type = type, ~Failed(a)
      PROVE  a \in js
  <2>1. PICK j \in js : /\ a = [j EXCEPT !.fn = Restored(j.type)] /\ j.fn # "very_fake_func"
    BY <1>1 DEF Loaded, Failed
  <2>2. JobOK(j) /\ j \in Jobs
    BY DEF JobOK
  <2>3. a.type = j.type
    BY <2>1, <2>2 DEF Jobs
  <2>4. Restored(j.type) = j.fn
    BY <1>1, <2>1, <2>2, <2>3 DEF Restored, JobOK, Carries
  <2>5. [j EXCEPT !.fn = j.fn] = j
    BY <2>2, SameJob
  <2> QED
    BY <2>1, <2>4, <2>5
<1>2. ASSUME NEW j \in js, j.type = type, ~Failed(j)
      PROVE  j \in Loaded(js)
  <2>1. JobOK(j) /\ j \in Jobs
    BY DEF JobOK
  <2>2. Restored(j.type) = j.fn
    BY <1>2, <2>1 DEF Restored, JobOK, Carries, Failed
  <2>3. [j EXCEPT !.fn = Restored(j.type)] = j
    BY <2>1, <2>2, SameJob
  <2>4. [j EXCEPT !.fn = Restored(j.type)] \in Loaded(js)
    BY <1>2 DEF Loaded, Failed
  <2> QED
    BY <2>3, <2>4
<1> QED
  BY <1>1, <1>2 DEF RealOf

LEMMA ReloadedBusy ==
    ASSUME NEW js, \A j \in js : JobOK(j), NEW types
    PROVE  Busy(Loaded(js), types) \subseteq Busy(js, types)
<1>1. ASSUME NEW a \in Loaded(js), a.type \in types, ~Failed(a)
      PROVE  a.pos \in Busy(js, types)
  <2>1. PICK j \in js : /\ a = [j EXCEPT !.fn = Restored(j.type)] /\ j.fn # "very_fake_func"
    BY <1>1 DEF Loaded, Failed
  <2>2. j \in Jobs
    BY DEF JobOK
  <2>3. a.type = j.type /\ a.pos = j.pos
    BY <2>1, <2>2 DEF Jobs
  <2> QED
    BY <1>1, <2>1, <2>3 DEF Busy, Failed
<1> QED
  BY <1>1 DEF Busy

LEMMA LoadedSet ==
    ASSUME NEW js, JobSet(js)
    PROVE  JobSet(Loaded(js))
<1> DEFINE S == {j \in js : j.fn = "very_fake_func" \/ j.type # "RESE"}
           f == [j \in S |-> Reloaded(j)]
           T == Loaded(js)
<1>1. IsFiniteSet(S)
  <2>1. S \in SUBSET js
    OBVIOUS
  <2> QED
    BY <2>1, FS_Subset DEF JobSet
<1>2. \A a \in T : \E j \in S : a = Reloaded(j)
  BY DEF Loaded, Reloaded
<1>3. \A j \in S : Reloaded(j) \in T
  BY DEF Loaded, Reloaded
<1>4. f \in Surjection(S, T)
  <2>1. f \in [S -> T]
    BY <1>3
  <2>2. \A a \in T : \E j \in S : f[j] = a
    BY <1>2
  <2> HIDE DEF f, S, T
  <2> QED
    BY <2>1, <2>2 DEF Surjection
<1>5. IsFiniteSet(T)
  <2> HIDE DEF f, S, T
  <2> QED
    BY <1>1, <1>4, FS_Surjection
<1>6. \A a \in T : JobOK(a)
  <2>1. \A j \in S : JobOK(Reloaded(j))
    BY ReloadedOK DEF JobSet
  <2> HIDE DEF S, T
  <2> QED
    BY <1>2, <2>1
<1> QED
  BY <1>5, <1>6 DEF JobSet

LEMMA RestartStock ==
    ASSUME NEW js, JobSet(js), NEW u \in UnitStates
    PROVE  NoMore(u, js, u, Loaded(js))
<1>1. /\ RealOf(Loaded(js), "FIX") = RealOf(js, "FIX")
      /\ RealOf(Loaded(js), "FIXI") = RealOf(js, "FIXI")
      /\ RealOf(Loaded(js), "REAT") = RealOf(js, "REAT")
  BY ReloadedReal DEF JobSet
<1>2. /\ ArmorStock(u, Loaded(js)) = ArmorStock(u, js)
      /\ IntStock(u, Loaded(js)) = IntStock(u, js)
  BY <1>1 DEF ArmorStock, IntStock
<1>3. ArmorStock(u, js) \in Nat /\ IntStock(u, js) \in Nat
  <2>1. u.store["armor"] \in Nat /\ u.store["internal"] \in Nat
    BY DEF UnitStates, Goods
  <2>2. ArmorOn(u) \in Nat /\ IntOn(u) \in Nat
    BY OnNat
  <2>3. /\ Points(RealOf(js, "FIX")) \in Nat /\ Points(RealOf(js, "FIXI")) \in Nat
        /\ Internals(RealOf(js, "REAT")) \in Nat
    BY RealSet, PointsNat
  <2> QED
    BY <2>1, <2>2, <2>3, StockIs
<1>4. ASSUME NEW kind \in Tracked
      PROVE  PartStock(u, Loaded(js), kind) <= PartStock(u, js, kind)
  <2>1. u.store[kind] \in Nat
    BY DEF UnitStates, Goods, Tracked
  <2>2. \A types : Busy(Loaded(js), types) \subseteq Busy(js, types)
    BY ReloadedBusy DEF JobSet
  <2>3. Owned(u, Loaded(js), kind) \subseteq Owned(u, js, kind)
    BY <2>2 DEF Owned
  <2>4. Coming(Loaded(js), kind) \subseteq Coming(js, kind)
    BY <2>2 DEF Coming
  <2>5. u.store[kind] <= u.store[kind]
    BY <2>1
  <2> QED
    BY <2>3, <2>4, <2>5, PartMoved
<1> QED
  BY <1>2, <1>3, <1>4 DEF NoMore

-----------------------------------------------------------------------------
\* The commands make nothing.

Conserving == NoMore(unit, jobs, unit', jobs') /\ IsFiniteSet(jobs')

LEMMA StartStock ==
    ASSUME Exclusive, Exclusive', IsFiniteSet(jobs), NEW settled \in UnitStates,
           settled.sect = unit.sect, NoneWhole(unit, settled), NEW job, Start(settled, job),
           \A g \in Tracked \cup {"armor", "internal"} : settled.store[g] + Due(job, g) <= unit.store[g],
           job.type \in {"SCRG", "SCRP", "REPAP"} /\ ~Failed(job) =>
               Present(unit.part[job.pos], Kind(job.pos))
    PROVE  Conserving
<1>1. unit' = settled /\ jobs' = jobs \cup {job}
  BY DEF Start
<1>2. JobOK(job)
  <2>1. \A j \in jobs' : JobOK(j)
    BY DEF Exclusive, JobsOK, JobOK
  <2> QED
    BY <1>1, <2>1
<1>3. JobSet(jobs) /\ unit \in UnitStates
  BY UnitTyped DEF JobSet, Exclusive, JobsOK
<1>4. NoMore(unit, jobs, settled, jobs \cup {job})
  BY <1>2, <1>3, CommandStock
<1>5. IsFiniteSet(jobs \cup {job})
  BY FS_AddElement
<1> QED
  BY <1>1, <1>4, <1>5 DEF Conserving

\* A job that holds no materials, and settled materials that are no more than they were.
LEMMA StartFree ==
    ASSUME Exclusive, Exclusive', IsFiniteSet(jobs), NEW settled \in UnitStates,
           settled.sect = unit.sect, NoneWhole(unit, settled), NEW job, Start(settled, job),
           \A g \in Tracked \cup {"armor", "internal"} : settled.store[g] <= unit.store[g],
           Failed(job) \/ job.type \notin {"REPL", "REPLG", "FIX", "FIXI", "REAT"},
           job.type \in {"SCRG", "SCRP", "REPAP"} /\ ~Failed(job) =>
               Present(unit.part[job.pos], Kind(job.pos))
    PROVE  Conserving
<1>1. ASSUME NEW g \in Tracked \cup {"armor", "internal"}
      PROVE  settled.store[g] + Due(job, g) <= unit.store[g]
  <2>1. Due(job, g) = 0
    BY DEF Due, Tracked
  <2>2. settled.store[g] \in Nat
    BY DEF UnitStates, Goods, Tracked
  <2> QED
    BY <2>1, <2>2
<1> QED
  BY <1>1, StartStock

LEMMA PartsAlike ==
    ASSUME NEW u, NEW v, v.part = u.part
    PROVE  NoneWhole(u, v)
BY DEF NoneWhole

LEMMA PaidStore ==
    ASSUME TypeOK, NEW cost
    PROVE  \A g \in Goods : Paid(cost).store[g] =
               IF g \in DOMAIN cost THEN unit.store[g] - cost[g] ELSE unit.store[g]
<1> DEFINE new == [g \in Goods |-> IF g \in DOMAIN cost THEN store[g] - cost[g] ELSE store[g]]
<1>1. unit \in UnitStates
  BY DEF TypeOK
<1>2. Paid(cost) = [unit EXCEPT !.store = new]
  BY <1>1 DEF Paid, store, UnitStates
<1>3. Paid(cost).store = new
  <2> HIDE DEF new
  <2> QED
    BY <1>1, <1>2 DEF UnitStates
<1> QED
  BY <1>3 DEF store

\* What is paid for is no longer there.
LEMMA PaidLess ==
    ASSUME TypeOK, NEW cost, \A g \in DOMAIN cost : cost[g] \in Nat
    PROVE  \A g \in Goods : Paid(cost).store[g] <= unit.store[g]
<1>1. ASSUME NEW g \in Goods
      PROVE  Paid(cost).store[g] <= unit.store[g]
  <2>1. unit.store[g] \in Nat
    BY DEF TypeOK, UnitStates
  <2>2. Paid(cost).store[g] = IF g \in DOMAIN cost THEN unit.store[g] - cost[g] ELSE unit.store[g]
    BY PaidStore
  <2> QED
    BY <2>1, <2>2
<1> QED
  BY <1>1

LEMMA TrackedGoods == Tracked \cup {"armor", "internal"} \subseteq Goods
BY DEF Tracked, Goods

\* No material changes hands.
LEMMA StartUnpaid ==
    ASSUME Exclusive, Exclusive', IsFiniteSet(jobs), NEW job, Start(unit, job),
           Failed(job) \/ job.type \notin {"REPL", "REPLG", "FIX", "FIXI", "REAT"},
           job.type \in {"SCRG", "SCRP", "REPAP"} /\ ~Failed(job) =>
               Present(unit.part[job.pos], Kind(job.pos))
    PROVE  Conserving
<1>1. unit \in UnitStates /\ NoneWhole(unit, unit)
  BY UnitTyped, PartsAlike
<1>2. \A g \in Tracked \cup {"armor", "internal"} : unit.store[g] <= unit.store[g]
  BY <1>1 DEF UnitStates, Goods, Tracked
<1> QED
  BY <1>1, <1>2, StartFree

LEMMA FakeFailed ==
    ASSUME NEW type, NEW fn, NEW loc, NEW pos, NEW extra
    PROVE  /\ Failed(Job(type, "very_fake_func", loc, pos, extra))
           /\ Failed(Job(type, fn, loc, pos, extra)) <=> fn = "very_fake_func"
           /\ Job(type, fn, loc, pos, extra).type = type /\ Job(type, fn, loc, pos, extra).pos = pos
           /\ Job(type, fn, loc, pos, extra).loc = loc /\ Job(type, fn, loc, pos, extra).extra = extra
BY DEF Failed, Job

LEMMA RemoveGunStock ==
    ASSUME Exclusive, Exclusive', IsFiniteSet(jobs), NEW p \in Parts, tech_removegun(p)
    PROVE  Conserving
<1> DEFINE real == PartJob("SCRG", "removegun", p, 2)
           fake == PartJob("SCRG", "very_fake_func", p, 2)
<1>1. Start(unit, real) \/ Start(unit, fake)
  BY FakePart DEF tech_removegun
<1>2. Present(unit.part[p], Kind(p))
  BY DEF tech_removegun, MayRemove, PartIsDestroyed, Present, part
<1>3. real.type = "SCRG" /\ real.pos = p /\ fake.type = "SCRG" /\ Failed(fake)
  BY FakeFailed DEF PartJob
<1> HIDE DEF real, fake
<1> QED
  BY <1>1, <1>2, <1>3, StartUnpaid

LEMMA RemovePartStock ==
    ASSUME Exclusive, Exclusive', IsFiniteSet(jobs), NEW p \in Parts, tech_removepart(p)
    PROVE  Conserving
<1> DEFINE real == PartJob("SCRP", "removepart", p, 2)
           fake == PartJob("SCRP", "very_fake_func", p, 3)
<1>1. Start(unit, real) \/ Start(unit, fake)
  BY FakePart DEF tech_removepart
<1>2. Present(unit.part[p], Kind(p))
  BY DEF tech_removepart, MayRemove, PartIsDestroyed, Present, part
<1>3. real.type = "SCRP" /\ real.pos = p /\ fake.type = "SCRP" /\ Failed(fake)
  BY FakeFailed DEF PartJob
<1> HIDE DEF real, fake
<1> QED
  BY <1>1, <1>2, <1>3, StartUnpaid

LEMMA RemoveSectionStock ==
    ASSUME Exclusive, Exclusive', IsFiniteSet(jobs), NEW l \in Sections, tech_removesection(l)
    PROVE  Conserving
<1>1. PICK mod \in {2, 3} : Start(unit, SectJob("SCRL", "removesection", l, mod))
  BY DEF tech_removesection
<1> DEFINE job == SectJob("SCRL", "removesection", l, mod)
<1>2. job.type = "SCRL"
  BY FakeFailed DEF SectJob
<1> HIDE DEF job
<1>3. Start(unit, job)
  BY <1>1 DEF job
<1> QED
  BY <1>2, <1>3, StartUnpaid

LEMMA UnloadStock ==
    ASSUME Exclusive, Exclusive', IsFiniteSet(jobs), NEW p \in Parts, tech_unload(p)
    PROVE  Conserving
<1> DEFINE n == IF part[p].data = FULL THEN 2 ELSE 1
           job == PartJob("RELO", "reload", p, n)
<1>1. Start(unit, job)
  BY DEF tech_unload
<1>2. job.type = "RELO"
  BY FakeFailed DEF PartJob
<1> HIDE DEF job
<1> QED
  BY <1>1, <1>2, StartUnpaid

LEMMA FixEnhCritStock ==
    ASSUME Exclusive, Exclusive', IsFiniteSet(jobs), NEW p \in Parts, NEW n \in 0..LAST,
           tech_fixenhcrit(p, n)
    PROVE  Conserving
<1> DEFINE cost == [electronic |-> 1]
<1>1. PICK fn \in {"repairenhcrit", "very_fake_func"} :
              Affords(cost) /\ Start(Paid(cost), CritJob("REPENHCRIT", fn, p, n))
  BY CritStarts
<1> DEFINE job == CritJob("REPENHCRIT", fn, p, n)
<1>2. DOMAIN cost \subseteq Goods /\ \A g \in DOMAIN cost : cost[g] \in Nat /\ cost[g] \in Int
  BY DEF Goods
<1>3. job.type = "REPENHCRIT"
  BY CritJobFields
<1> HIDE DEF cost, job
<1>4. TypeOK
  BY DEF Exclusive
<1>5. Paid(cost) \in UnitStates /\ Paid(cost).sect = unit.sect /\ Paid(cost).part = unit.part
  BY <1>1, <1>2, <1>4, PaidTyped DEF sect, part
<1>6. \A g \in Tracked \cup {"armor", "internal"} : Paid(cost).store[g] <= unit.store[g]
  BY <1>2, <1>4, PaidLess, TrackedGoods
<1>7. Start(Paid(cost), job)
  BY <1>1 DEF job
<1> QED
  BY <1>1, <1>3, <1>5, <1>6, <1>7, PartsAlike, StartFree

LEMMA ReplaceGunStock ==
    ASSUME Exclusive, Exclusive', IsFiniteSet(jobs), NEW p \in Parts, tech_replacegun(p)
    PROVE  Conserving
<1> DEFINE cost == [g \in {Kind(p)} |-> 1]
           real == PartJob("REPLG", "replacegun", p, 0)
           fake == PartJob("REPLG", "very_fake_func", p, 0)
<1>1. /\ Affords(cost)
      /\ \/ Start(Paid(cost), real)
         \/ \E saved \in 0..1 : Start(Add(Paid(cost), Kind(p), saved), fake)
  BY FakePart DEF tech_replacegun
<1>2. Kind(p) \in Goods /\ Kind(p) \notin {"armor", "internal"}
  BY HullAssumption DEF Kind, Goods
<1>3. /\ DOMAIN cost \subseteq Goods /\ \A g \in DOMAIN cost : cost[g] \in Nat /\ cost[g] \in Int
      /\ DOMAIN cost = {Kind(p)} /\ cost[Kind(p)] = 1
  BY <1>2
<1>4. TypeOK
  BY DEF Exclusive
<1>5. \A g \in Tracked \cup {"armor", "internal"} : Due(real, g) = IF g = Kind(p) THEN 1 ELSE 0
  <2>1. real.type = "REPLG" /\ real.pos = p /\ ~Failed(real)
    BY FakeFailed DEF PartJob
  <2> HIDE DEF real
  <2> QED
    BY <1>2, <2>1 DEF Due, Tracked
<1>6. Failed(fake)
  BY FakeFailed DEF PartJob
<1>7. real.type = "REPLG"
  BY FakeFailed DEF PartJob
<1> HIDE DEF cost, real, fake
<1>8. Paid(cost) \in UnitStates /\ Paid(cost).sect = unit.sect /\ Paid(cost).part = unit.part
  BY <1>1, <1>3, <1>4, PaidTyped DEF sect, part
<1>9. \A g \in Goods : /\ Paid(cost).store[g] = IF g = Kind(p) THEN unit.store[g] - 1 ELSE unit.store[g]
                       /\ unit.store[g] \in Nat
  BY <1>3, <1>4, PaidStore DEF TypeOK, UnitStates
<1>10. CASE Start(Paid(cost), real)
  <2>1. ASSUME NEW g \in Tracked \cup {"armor", "internal"}
        PROVE  Paid(cost).store[g] + Due(real, g) <= unit.store[g]
    <3>1. g \in Goods
      BY TrackedGoods
    <3> QED
      BY <1>5, <1>9, <3>1
  <2> QED
    BY <1>7, <1>8, <1>10, <2>1, PartsAlike, StartStock
<1>11. ASSUME NEW saved \in 0..1, Start(Add(Paid(cost), Kind(p), saved), fake)
       PROVE  Conserving
  <2> DEFINE w == Add(Paid(cost), Kind(p), saved)
  <2>1. saved \in Nat /\ saved <= 1
    OBVIOUS
  <2>2. w \in UnitStates /\ w.sect = unit.sect /\ w.part = unit.part
    BY <1>2, <1>8, <2>1, AddTyped
  <2>3. /\ w.store[Kind(p)] = Paid(cost).store[Kind(p)] + saved
        /\ \A h \in Goods : h # Kind(p) => w.store[h] = Paid(cost).store[h]
    BY <1>2, <1>8, <2>1, AddStore
  <2> HIDE DEF w
  <2>4. ASSUME NEW g \in Tracked \cup {"armor", "internal"}
        PROVE  w.store[g] <= unit.store[g]
    <3>1. g \in Goods
      BY TrackedGoods
    <3> QED
      BY <1>9, <2>1, <2>3, <3>1
  <2>5. Start(w, fake)
    BY <1>11 DEF w
  <2> QED
    BY <1>6, <2>2, <2>4, <2>5, PartsAlike, StartFree
<1> QED
  BY <1>1, <1>10, <1>11

LEMMA ReplacePartStock ==
    ASSUME Exclusive, Exclusive', IsFiniteSet(jobs), NEW p \in Parts, tech_replacepart(p)
    PROVE  Conserving
<1> DEFINE cost == [g \in {"part"} \ (IF IsAmmo(p) THEN {"part"} ELSE {}) |-> 1]
           real == PartJob("REPL", "repairpart", p, 0)
           fake == PartJob("REPL", "very_fake_func", p, 0)
<1>1. Affords(cost) /\ (Start(Paid(cost), real) \/ Start(Paid(cost), fake))
  BY FakePart DEF tech_replacepart
<1>2. ~IsWeapon(p)
  BY DEF tech_replacepart, MayReplacePart
<1>3. /\ DOMAIN cost \subseteq Goods /\ \A g \in DOMAIN cost : cost[g] \in Nat /\ cost[g] \in Int
      /\ ~IsAmmo(p) => DOMAIN cost = {"part"} /\ cost["part"] = 1
      /\ IsAmmo(p) => DOMAIN cost = {}
  BY DEF Goods
<1>4. TypeOK
  BY DEF Exclusive
<1>5. Kind(p) = "ammo" \/ Kind(p) = "part"
  BY <1>2, HullAssumption DEF IsWeapon, Kind
<1>6. real.type = "REPL" /\ real.pos = p /\ ~Failed(real) /\ Failed(fake)
  BY FakeFailed DEF PartJob
<1> HIDE DEF cost, real, fake
<1>7. \A g \in Tracked \cup {"armor", "internal"} : Due(real, g) = IF g = Kind(p) THEN 1 ELSE 0
  BY <1>5, <1>6 DEF Due, Tracked
<1>8. Paid(cost) \in UnitStates /\ Paid(cost).sect = unit.sect /\ Paid(cost).part = unit.part
  BY <1>1, <1>3, <1>4, PaidTyped DEF sect, part
<1>9. \A g \in Goods : /\ Paid(cost).store[g] = IF g \in DOMAIN cost THEN unit.store[g] - cost[g] ELSE unit.store[g]
                       /\ unit.store[g] \in Nat
  BY <1>4, PaidStore DEF TypeOK, UnitStates
<1>10. ASSUME NEW g \in Tracked \cup {"armor", "internal"}
       PROVE  Paid(cost).store[g] + Due(real, g) <= unit.store[g]
  <2>1. g \in Goods /\ g # "ammo"
    BY TrackedGoods DEF Tracked
  <2>2. IsAmmo(p) <=> Kind(p) = "ammo"
    BY DEF IsAmmo
  <2>3. CASE Kind(p) = "ammo"
    BY <1>3, <1>7, <1>9, <2>1, <2>2, <2>3
  <2>4. CASE Kind(p) = "part"
    BY <1>3, <1>7, <1>9, <2>1, <2>2, <2>4
  <2> QED
    BY <1>5, <2>3, <2>4
<1>11. \A g \in Tracked \cup {"armor", "internal"} : Paid(cost).store[g] <= unit.store[g]
  BY <1>3, <1>4, PaidLess, TrackedGoods
<1>12. CASE Start(Paid(cost), real)
  BY <1>6, <1>8, <1>10, <1>12, PartsAlike, StartStock
<1>13. CASE Start(Paid(cost), fake)
  BY <1>6, <1>8, <1>11, <1>13, PartsAlike, StartFree
<1> QED
  BY <1>1, <1>12, <1>13

LEMMA RepairGunStock ==
    ASSUME Exclusive, Exclusive', IsFiniteSet(jobs), NEW p \in Parts, tech_repairgun(p)
    PROVE  Conserving
<1> DEFINE n == IF PartIsDestroyed(p) THEN 3 ELSE 1
           cost == [electronic |-> n, internal |-> n]
           paid == Paid(cost)
           r == IF PartIsDestroyed(p) THEN "gone" ELSE paid.part[p].rest
           botched == [paid EXCEPT !.part[p].rest = r]
           real == PartJob("REPAP", "repairgun", p, 0)
           fake == PartJob("REPAP", "very_fake_func", p, 0)
<1>1. /\ Affords(cost) /\ Mendable(p)
      /\ \/ Start(paid, real)
         \/ Start([paid EXCEPT !.part[p].rest = IF PartIsDestroyed(p) THEN "gone" ELSE @], fake)
  BY FakePart DEF tech_repairgun, MayRepairGun
<1>2. DOMAIN cost \subseteq Goods /\ \A g \in DOMAIN cost : cost[g] \in Nat /\ cost[g] \in Int
  <2>1. n \in Nat
    OBVIOUS
  <2> HIDE DEF n
  <2> QED
    BY <2>1 DEF Goods
<1>3. real.type = "REPAP" /\ real.pos = p /\ Failed(fake)
  BY FakeFailed DEF PartJob
<1>4. TypeOK
  BY DEF Exclusive
<1> HIDE DEF cost, real, fake
<1>5. paid \in UnitStates /\ paid.sect = unit.sect /\ paid.part = unit.part
  BY <1>1, <1>2, <1>4, PaidTyped DEF sect, part
<1>6. \A g \in Tracked \cup {"armor", "internal"} : paid.store[g] <= unit.store[g]
  BY <1>2, <1>4, PaidLess, TrackedGoods
<1> HIDE DEF paid
<1>7. [paid EXCEPT !.part[p].rest = IF PartIsDestroyed(p) THEN "gone" ELSE @] = botched
  BY <1>5 DEF UnitStates
<1>8. Present(unit.part[p], Kind(p))
  BY <1>1 DEF Mendable, PartIsDestroyed, Present, part
<1>9. /\ botched \in UnitStates /\ botched.sect = unit.sect /\ NoneWhole(unit, botched)
      /\ botched.store = paid.store
  <2> DEFINE c == [paid.part[p] EXCEPT !.rest = r]
  <2>1. paid.part[p] \in PartStates
    BY <1>5, PartOf
  <2>2. r \in {"ok", "broken", "gone"}
    BY <2>1 DEF PartStates
  <2> HIDE DEF r
  <2>3. c \in PartStates
    BY <2>1, <2>2 DEF PartStates
  <2>4. botched = [paid EXCEPT !.part[p] = c]
    BY <1>5 DEF UnitStates
  <2> HIDE DEF c, botched
  <2>5. /\ botched \in UnitStates /\ botched.sect = paid.sect
        /\ botched.part = [paid.part EXCEPT ![p] = c]
    BY <1>5, <2>3, <2>4, PartTyped
  <2>6. botched.store = paid.store
    BY <1>5, <2>4 DEF UnitStates
  <2>7. paid.part \in [Parts -> PartStates]
    BY <1>5 DEF UnitStates
  <2>8. ASSUME NEW q \in Parts, Present(botched.part[q], Kind(q))
        PROVE  Present(unit.part[q], Kind(q))
    <3>1. CASE q = p
      BY <1>8, <3>1
    <3>2. CASE q # p
      <4>1. botched.part[q] = unit.part[q]
        BY <1>5, <2>5, <2>7, <3>2
      <4> QED
        BY <2>8, <4>1
    <3> QED
      BY <3>1, <3>2
  <2> QED
    BY <1>5, <2>5, <2>6, <2>8 DEF NoneWhole
<1> HIDE DEF botched
<1>10. CASE Start(paid, real)
  BY <1>3, <1>5, <1>6, <1>8, <1>10, PartsAlike, StartFree
<1>11. CASE Start(botched, fake)
  BY <1>3, <1>6, <1>9, <1>11, StartFree
<1> QED
  BY <1>1, <1>7, <1>10, <1>11

LEMMA EmptiedStore ==
    ASSUME NEW u \in UnitStates, NEW p \in Parts, NEW typed \in BOOLEAN
    PROVE  /\ Emptied(u, p, typed).store = u.store
           /\ NoneWhole(u, Emptied(u, p, typed))
<1> DEFINE n == IF typed THEN 0 ELSE u.part[p].data
           c == [u.part[p] EXCEPT !.data = n]
           w == Emptied(u, p, typed)
<1>1. w = [u EXCEPT !.part[p] = c]
  BY DEF UnitStates, Emptied
<1>2. w.store = u.store
  <2> HIDE DEF w, c
  <2> QED
    BY <1>1 DEF UnitStates
<1>3. u.part[p] \in PartStates /\ u.part \in [Parts -> PartStates]
  BY PartOf DEF UnitStates
<1>4. w.part = [u.part EXCEPT ![p] = c]
  <2> HIDE DEF w, c
  <2> QED
    BY <1>1 DEF UnitStates
<1>5. c.mode = u.part[p].mode /\ c.rest = u.part[p].rest
  <2> HIDE DEF n
  <2> QED
    BY <1>3 DEF PartStates
<1>6. ASSUME NEW q \in Parts, Present(w.part[q], Kind(q))
      PROVE  Present(u.part[q], Kind(q))
  <2> HIDE DEF w, c
  <2>1. CASE q = p
    <3>1. w.part[q] = c
      BY <1>3, <1>4, <2>1
    <3> QED
      BY <1>5, <1>6, <2>1, <3>1 DEF Present
  <2>2. CASE q # p
    <3>1. w.part[q] = u.part[q]
      BY <1>3, <1>4, <2>2
    <3> QED
      BY <1>6, <3>1
  <2> QED
    BY <2>1, <2>2
<1> HIDE DEF w
<1>7. NoneWhole(u, w)
  BY <1>6 DEF NoneWhole
<1> QED
  BY <1>2, <1>7 DEF w

\* The same jobs, the same store, and no part whole that was not.
LEMMA Unstarted ==
    ASSUME Exclusive, IsFiniteSet(jobs), unit' \in UnitStates, unit'.sect = unit.sect,
           unit'.store = unit.store, NoneWhole(unit, unit'), jobs' = jobs
    PROVE  Conserving
<1>1. unit \in UnitStates /\ JobSet(jobs)
  BY UnitTyped DEF Exclusive, JobsOK, JobSet
<1>2. ArmorStock(unit', jobs) = ArmorStock(unit, jobs) /\ IntStock(unit', jobs) = IntStock(unit, jobs)
  BY DEF ArmorStock, IntStock, ArmorOf, IntOf
<1>3. ArmorStock(unit, jobs) <= ArmorStock(unit, jobs) /\ IntStock(unit, jobs) <= IntStock(unit, jobs)
  <2>1. unit.store["armor"] \in Nat /\ unit.store["internal"] \in Nat
    BY <1>1 DEF UnitStates, Goods
  <2>2. ArmorOn(unit) \in Nat /\ IntOn(unit) \in Nat
    BY <1>1, OnNat
  <2>3. /\ Points(RealOf(jobs, "FIX")) \in Nat /\ Points(RealOf(jobs, "FIXI")) \in Nat
        /\ Internals(RealOf(jobs, "REAT")) \in Nat
    BY <1>1, RealSet, PointsNat
  <2>4. ArmorStock(unit, jobs) \in Nat /\ IntStock(unit, jobs) \in Nat
    BY <2>1, <2>2, <2>3, StockIs
  <2> QED
    BY <2>4
<1>4. ASSUME NEW kind \in Tracked
      PROVE  PartStock(unit', jobs, kind) <= PartStock(unit, jobs, kind)
  <2>1. unit.store[kind] \in Nat
    BY <1>1 DEF UnitStates, Goods, Tracked
  <2>2. unit'.store[kind] <= unit.store[kind]
    BY <2>1
  <2>3. Owned(unit', jobs, kind) \subseteq Owned(unit, jobs, kind)
    BY DEF Owned, NoneWhole
  <2>4. Coming(jobs, kind) \subseteq Coming(jobs, kind)
    OBVIOUS
  <2> QED
    BY <1>1, <2>2, <2>3, <2>4, PartMoved
<1>5. NoMore(unit, jobs, unit', jobs)
  BY <1>2, <1>3, <1>4 DEF NoMore
<1> QED
  BY <1>5 DEF Conserving

LEMMA ReloadStock ==
    ASSUME Exclusive, Exclusive', IsFiniteSet(jobs), NEW p \in Parts, tech_reload(p)
    PROVE  Conserving
<1> DEFINE cost == [ammo |-> 1]
           real == PartJob("RELO", "reload", p, 0)
           fake == PartJob("RELO", "very_fake_func", p, 0)
<1>1. PICK typed \in BOOLEAN :
        \/ Affords(cost) /\ (Start(Emptied(Paid(cost), p, typed), real) \/ Start(Emptied(Paid(cost), p, typed), fake))
        \/ unit' = Emptied(unit, p, typed) /\ UNCHANGED <<jobs, power>>
  BY FakePart DEF tech_reload, Emptied
<1>2. DOMAIN cost \subseteq Goods /\ \A g \in DOMAIN cost : cost[g] \in Nat /\ cost[g] \in Int
  BY DEF Goods
<1>3. real.type = "RELO" /\ fake.type = "RELO"
  BY FakeFailed DEF PartJob
<1>4. TypeOK /\ unit \in UnitStates
  BY UnitTyped DEF Exclusive
<1> HIDE DEF cost, real, fake
<1>5. CASE Affords(cost) /\ (Start(Emptied(Paid(cost), p, typed), real) \/ Start(Emptied(Paid(cost), p, typed), fake))
  <2>1. Paid(cost) \in UnitStates /\ Paid(cost).sect = unit.sect /\ Paid(cost).part = unit.part
    BY <1>2, <1>4, <1>5, PaidTyped DEF sect, part
  <2>2. \A g \in Tracked \cup {"armor", "internal"} : Paid(cost).store[g] <= unit.store[g]
    BY <1>2, <1>4, PaidLess, TrackedGoods
  <2> DEFINE w == Emptied(Paid(cost), p, typed)
  <2>3. w \in UnitStates /\ w.sect = unit.sect
    BY <2>1, EmptiedTyped
  <2>4. w.store = Paid(cost).store /\ NoneWhole(Paid(cost), w)
    BY <2>1, EmptiedStore
  <2>5. Start(w, real) \/ Start(w, fake)
    BY <1>5
  <2> HIDE DEF w
  <2>6. NoneWhole(unit, w)
    BY <2>1, <2>4 DEF NoneWhole
  <2>7. \A g \in Tracked \cup {"armor", "internal"} : w.store[g] <= unit.store[g]
    BY <2>2, <2>4
  <2> QED
    BY <1>3, <2>3, <2>5, <2>6, <2>7, StartFree
<1>6. CASE unit' = Emptied(unit, p, typed) /\ UNCHANGED <<jobs, power>>
  <2> DEFINE w == Emptied(unit, p, typed)
  <2>1. /\ w \in UnitStates /\ w.sect = unit.sect /\ w.store = unit.store /\ NoneWhole(unit, w)
    BY <1>4, EmptiedTyped, EmptiedStore
  <2>2. unit' = w /\ jobs' = jobs
    BY <1>6
  <2> HIDE DEF w
  <2>3. /\ unit' \in UnitStates /\ unit'.sect = unit.sect /\ unit'.store = unit.store
        /\ NoneWhole(unit, unit')
    BY <2>1, <2>2
  <2> QED
    BY <2>2, <2>3, Unstarted
<1> QED
  BY <1>1, <1>5, <1>6

LEMMA FixArmorStock ==
    ASSUME Exclusive, Exclusive', IsFiniteSet(jobs), NEW l \in Sections, NEW loc,
           loc = Front(l) \/ loc = Rear(l), tech_fixarmor(loc)
    PROVE  Conserving
<1> DEFINE n == ArmorLack(loc)
           cost == [armor |-> n]
<1>1. MayFixArmor(loc) /\ Affords(cost)
  BY DEF tech_fixarmor
<1>2. n \in Nat /\ n > 0
  BY <1>1, LackTyped DEF MayFixArmor
<1>3. PICK m \in Patched(n) : Start(Paid(cost), Job("FIX", "repairarmor", loc, None, m))
  BY DEF tech_fixarmor
<1>4. m \in Nat /\ m <= n
  BY <1>2, PatchedBounds
<1>5. Max({1, m}) \in Nat /\ Max({1, m}) <= n
  BY <1>2, <1>4, MaxOne
<1> DEFINE job == Job("FIX", "repairarmor", loc, None, m)
<1>6. job.type = "FIX" /\ ~Failed(job) /\ job.extra = m
  BY FakeFailed
<1> HIDE DEF n, job
<1>7. /\ DOMAIN cost \subseteq Goods /\ \A g \in DOMAIN cost : cost[g] \in Nat /\ cost[g] \in Int
      /\ DOMAIN cost = {"armor"} /\ cost["armor"] = n
  BY <1>2 DEF Goods
<1> HIDE DEF cost
<1>8. TypeOK
  BY DEF Exclusive
<1>9. Paid(cost) \in UnitStates /\ Paid(cost).sect = unit.sect /\ Paid(cost).part = unit.part
  BY <1>1, <1>7, <1>8, PaidTyped DEF sect, part, n, cost
<1>10. \A g \in Goods : /\ Paid(cost).store[g] = IF g = "armor" THEN unit.store[g] - n ELSE unit.store[g]
                        /\ unit.store[g] \in Nat
  BY <1>7, <1>8, PaidStore DEF TypeOK, UnitStates
<1>11. ASSUME NEW g \in Tracked \cup {"armor", "internal"}
       PROVE  Paid(cost).store[g] + Due(job, g) <= unit.store[g]
  <2>1. g \in Goods
    BY TrackedGoods
  <2>2. Due(job, g) = IF g = "armor" THEN Max({1, m}) ELSE 0
    BY <1>6 DEF Due, Tracked
  <2> QED
    BY <1>2, <1>5, <1>10, <2>1, <2>2
<1>12. Start(Paid(cost), job)
  BY <1>3 DEF job, cost, n
<1> QED
  BY <1>6, <1>9, <1>11, <1>12, PartsAlike, StartStock

LEMMA FixInternalStock ==
    ASSUME Exclusive, Exclusive', Bounded(unit), IsFiniteSet(jobs), NEW l \in Sections,
           tech_fixinternal(l)
    PROVE  Conserving
<1> DEFINE n == IntLack(l)
           cost == [internal |-> n]
<1>1. MayFixInternal(l) /\ Affords(cost)
  BY DEF tech_fixinternal
<1>2. n \in Nat /\ n > 0
  <2>1. unit.sect[l].int <= Hull[l].int
    BY DEF Bounded
  <2>2. unit.sect[l].int \in Nat /\ Hull[l].int \in Nat
    BY UnitTyped, SectOf, HullAssumption DEF SectStates
  <2> QED
    BY <1>1, <2>1, <2>2 DEF MayFixInternal, IntLack, sect
<1>3. PICK m \in Patched(n) : Start(Paid(cost), Job("FIXI", "repairinternal", Front(l), None, m))
  BY DEF tech_fixinternal, SectJob
<1>4. m \in Nat /\ m <= n
  BY <1>2, PatchedBounds
<1>5. Max({1, m}) \in Nat /\ Max({1, m}) <= n
  BY <1>2, <1>4, MaxOne
<1> DEFINE job == Job("FIXI", "repairinternal", Front(l), None, m)
<1>6. job.type = "FIXI" /\ ~Failed(job) /\ job.extra = m
  BY FakeFailed
<1> HIDE DEF n, job
<1>7. /\ DOMAIN cost \subseteq Goods /\ \A g \in DOMAIN cost : cost[g] \in Nat /\ cost[g] \in Int
      /\ DOMAIN cost = {"internal"} /\ cost["internal"] = n
  BY <1>2 DEF Goods
<1> HIDE DEF cost
<1>8. TypeOK
  BY DEF Exclusive
<1>9. Paid(cost) \in UnitStates /\ Paid(cost).sect = unit.sect /\ Paid(cost).part = unit.part
  BY <1>1, <1>7, <1>8, PaidTyped DEF sect, part, n, cost
<1>10. \A g \in Goods : /\ Paid(cost).store[g] = IF g = "internal" THEN unit.store[g] - n ELSE unit.store[g]
                        /\ unit.store[g] \in Nat
  BY <1>7, <1>8, PaidStore DEF TypeOK, UnitStates
<1>11. ASSUME NEW g \in Tracked \cup {"armor", "internal"}
       PROVE  Paid(cost).store[g] + Due(job, g) <= unit.store[g]
  <2>1. g \in Goods
    BY TrackedGoods
  <2>2. Due(job, g) = IF g = "internal" THEN Max({1, m}) ELSE 0
    BY <1>6 DEF Due, Tracked
  <2> QED
    BY <1>2, <1>5, <1>10, <2>1, <2>2
<1>12. Start(Paid(cost), job)
  BY <1>3 DEF job, cost, n
<1> QED
  BY <1>6, <1>9, <1>11, <1>12, PartsAlike, StartStock

LEMMA RebuildStock ==
    ASSUME Exclusive, Exclusive', IsFiniteSet(jobs), NEW l \in Sections, NEW type, NEW fn,
           type = "REAT" \/ type = "RESE", fn # "very_fake_func",
           Rebuild(SectJob(type, fn, l, 0), l)
    PROVE  Conserving
<1> DEFINE n == Hull[l].int
           cost == [internal |-> n, electronic |-> n]
           back(tot) == Add(Add(Paid(cost), "electronic", tot), "internal", tot)
           real == SectJob(type, fn, l, 0)
           fake == SectJob(type, "very_fake_func", l, 0)
<1>1. n \in Nat /\ n > 0
  BY HullAssumption, ServiceAssumption
<1>2. /\ Affords(cost)
      /\ Start(Paid(cost), real) \/ \E tot \in Portion(5..94, n) : Start(back(tot), fake)
  BY FakeSect DEF Rebuild
<1>3. /\ real.type = type /\ ~Failed(real) /\ Failed(fake) /\ real.loc[1] = l
  BY FakeFailed DEF SectJob, Front
<1> HIDE DEF real, fake, back
<1>4. Due(real, "internal") = (IF type = "REAT" THEN n ELSE 0) /\ Due(real, "armor") = 0
      /\ \A g \in Tracked : Due(real, g) = 0
  BY <1>3 DEF Due, Tracked
<1> HIDE DEF n
<1>5. /\ DOMAIN cost \subseteq Goods /\ \A g \in DOMAIN cost : cost[g] \in Nat /\ cost[g] \in Int
      /\ DOMAIN cost = {"internal", "electronic"} /\ cost["internal"] = n /\ cost["electronic"] = n
  BY <1>1 DEF Goods
<1> HIDE DEF cost
<1>6. TypeOK
  BY DEF Exclusive
<1>7. Paid(cost) \in UnitStates /\ Paid(cost).sect = unit.sect /\ Paid(cost).part = unit.part
  BY <1>2, <1>5, <1>6, PaidTyped DEF sect, part
<1>8. \A g \in Goods : /\ Paid(cost).store[g] =
                            IF g \in {"internal", "electronic"} THEN unit.store[g] - n ELSE unit.store[g]
                       /\ unit.store[g] \in Nat
  BY <1>5, <1>6, PaidStore DEF TypeOK, UnitStates
<1>9. CASE Start(Paid(cost), real)
  <2>1. ASSUME NEW g \in Tracked \cup {"armor", "internal"}
        PROVE  Paid(cost).store[g] + Due(real, g) <= unit.store[g]
    <3>1. g \in Goods
      BY TrackedGoods
    <3>2. g \in Tracked => g \notin {"armor", "internal", "electronic"}
      BY DEF Tracked
    <3>3. Due(real, g) = IF g = "internal" /\ type = "REAT" THEN n ELSE 0
      BY <1>4, <3>2
    <3> QED
      BY <1>1, <1>8, <3>1, <3>3
  <2>2. real.type \notin {"SCRG", "SCRP", "REPAP"}
    BY <1>3
  <2> QED
    BY <1>7, <1>9, <2>1, <2>2, PartsAlike, StartStock
<1>10. ASSUME NEW tot \in Portion(5..94, n), Start(back(tot), fake)
       PROVE  Conserving
  <2>1. tot \in Nat /\ tot < n
    BY <1>1, PortionBounds
  <2>2. "electronic" \in Goods /\ "internal" \in Goods
    BY DEF Goods
  <2> DEFINE w == Add(Paid(cost), "electronic", tot)
             x == Add(w, "internal", tot)
  <2>3. /\ w \in UnitStates /\ w.sect = unit.sect /\ w.part = unit.part
        /\ \A h \in Goods : h # "electronic" => w.store[h] = Paid(cost).store[h]
    BY <1>7, <2>1, <2>2, AddTyped, AddStore
  <2> HIDE DEF w
  <2>4. /\ x \in UnitStates /\ x.sect = unit.sect /\ x.part = unit.part
        /\ x.store["internal"] = w.store["internal"] + tot
        /\ \A h \in Goods : h # "internal" => x.store[h] = w.store[h]
    BY <2>1, <2>2, <2>3, AddTyped, AddStore
  <2>5. Start(x, fake)
    BY <1>10 DEF w, back
  <2> HIDE DEF x
  <2>6. ASSUME NEW g \in Tracked \cup {"armor", "internal"}
        PROVE  x.store[g] <= unit.store[g]
    <3>1. g \in Goods /\ g # "electronic"
      BY TrackedGoods DEF Tracked
    <3> QED
      BY <1>1, <1>8, <2>1, <2>3, <2>4, <3>1
  <2> QED
    BY <1>3, <2>4, <2>5, <2>6, PartsAlike, StartFree
<1> QED
  BY <1>2, <1>9, <1>10

LEMMA ReattachStock ==
    ASSUME Exclusive, Exclusive', IsFiniteSet(jobs), NEW l \in Sections, tech_reattach(l)
    PROVE  Conserving
<1>1. Rebuild(SectJob("REAT", "reattach", l, 0), l)
  BY DEF tech_reattach
<1> QED
  BY <1>1, RebuildStock

LEMMA ResealStock ==
    ASSUME Exclusive, Exclusive', IsFiniteSet(jobs), NEW l \in Sections, tech_reseal(l)
    PROVE  Conserving
<1>1. Rebuild(SectJob("RESE", "reseal", l, 0), l)
  BY DEF tech_reseal
<1> QED
  BY <1>1, RebuildStock

LEMMA TechStock ==
    ASSUME Exclusive, Exclusive', Bounded(unit), IsFiniteSet(jobs), Tech
    PROVE  Conserving
<1>1. ASSUME NEW p \in Parts, OnPart(p)
      PROVE  Conserving
  BY <1>1, RemoveGunStock, RemovePartStock, ReplaceGunStock, RepairGunStock,
     FixEnhCritStock, ReplacePartStock, ReloadStock, UnloadStock DEF OnPart
<1>2. ASSUME NEW l \in Sections, OnSection(l)
      PROVE  Conserving
  BY <1>2, RemoveSectionStock, FixArmorStock, FixInternalStock, ReattachStock, ResealStock
     DEF OnSection
<1> QED
  BY <1>1, <1>2 DEF Tech

-----------------------------------------------------------------------------
\* No behaviour makes materials out of nothing.

AtFirst == [sect |-> scenario.sect, part |-> scenario.part, store |-> scenario.store]

\* With the parts in doubt counted where the jobs still hold them, the balance is inductive.
Balanced ==
    /\ IsFiniteSet(jobs) /\ AtFirst \in UnitStates
    /\ \A kind \in Tracked : PartStock(unit, jobs, kind) <= Fitted(AtFirst, kind)
    /\ ArmorStock(unit, jobs) <= ArmorOf(AtFirst)
    /\ IntStock(unit, jobs) <= IntOf(AtFirst)

LEMMA FittedNat ==
    ASSUME NEW u \in UnitStates, NEW kind \in Tracked
    PROVE  /\ Fitted(u, kind) \in Nat /\ u.store[kind] \in Nat
           /\ Fitted(u, kind) = u.store[kind] + Cardinality(Owned(u, {}, kind))
           /\ Coming({}, kind) = {}
<1>1. Owned(u, {}, kind) = {p \in Parts : Kind(p) = kind /\ Present(u.part[p], kind)}
  BY DEF Owned, Busy
<1>2. u.store[kind] \in Nat
  BY DEF UnitStates, Goods, Tracked
<1>3. Cardinality(Owned(u, {}, kind)) \in Nat
  BY OwnedFinite
<1>4. Coming({}, kind) = {}
  BY DEF Coming, Busy
<1>5. Fitted(u, kind) = u.store[kind] + Cardinality({p \in Parts : Kind(p) = kind /\ Present(u.part[p], kind)})
  BY DEF Fitted
<1>6. Fitted(u, kind) = u.store[kind] + Cardinality(Owned(u, {}, kind))
  BY <1>1, <1>5
<1> QED
  BY <1>2, <1>3, <1>4, <1>6

LEMMA StockNat ==
    ASSUME NEW u \in UnitStates, NEW js, JobSet(js)
    PROVE  /\ \A kind \in Tracked : PartStock(u, js, kind) \in Nat
           /\ ArmorStock(u, js) \in Nat /\ IntStock(u, js) \in Nat
           /\ ArmorOf(u) \in Nat /\ IntOf(u) \in Nat
<1>1. u.store["armor"] \in Nat /\ u.store["internal"] \in Nat
  BY DEF UnitStates, Goods
<1>2. ArmorOn(u) \in Nat /\ IntOn(u) \in Nat
  BY OnNat
<1>3. /\ Points(RealOf(js, "FIX")) \in Nat /\ Points(RealOf(js, "FIXI")) \in Nat
      /\ Internals(RealOf(js, "REAT")) \in Nat
  BY RealSet, PointsNat
<1>4. ArmorOf(u) = u.store["armor"] + ArmorOn(u) /\ IntOf(u) = u.store["internal"] + IntOn(u)
  BY DEF ArmorOf, IntOf, ArmorOn, IntOn
<1>5. ASSUME NEW kind \in Tracked
      PROVE  PartStock(u, js, kind) \in Nat
  <2>1. u.store[kind] \in Nat
    BY DEF UnitStates, Goods, Tracked
  <2> QED
    BY <2>1, OwnedFinite DEF PartStock
<1> QED
  BY <1>1, <1>2, <1>3, <1>4, <1>5, StockIs

LEMMA NoJobs ==
    /\ JobSet({})
    /\ Points({}) = 0 /\ Internals({}) = 0
    /\ \A type : RealOf({}, type) = {}
<1>1. Points({}) = 0
  <2> DEFINE f == [j \in {} |-> Max({1, j.extra})]
  <2>1. f \in [{} -> Nat]
    OBVIOUS
  <2> HIDE DEF f
  <2>2. SumFunction(f) = 0
    BY ONLY <2>1, SumEmpty
  <2> QED
    BY <2>2 DEF Points, f
<1>2. Internals({}) = 0
  <2> DEFINE f == [j \in {} |-> Hull[j.loc[1]].int]
  <2>1. f \in [{} -> Nat]
    OBVIOUS
  <2> HIDE DEF f
  <2>2. SumFunction(f) = 0
    BY ONLY <2>1, SumEmpty
  <2> QED
    BY <2>2 DEF Internals, f
<1>3. JobSet({})
  BY FS_EmptySet DEF JobSet
<1>4. \A type : RealOf({}, type) = {}
  BY DEF RealOf
<1> QED
  BY <1>1, <1>2, <1>3, <1>4

LEMMA InitBalanced == Init => Balanced
<1> SUFFICES ASSUME Init
             PROVE  Balanced
  OBVIOUS
<1>1. unit = AtFirst /\ jobs = {} /\ AtFirst \in UnitStates
  BY ScenariosAssumption DEF Init, AtFirst
<1>2. IsFiniteSet(jobs)
  BY <1>1, FS_EmptySet
<1> DEFINE u == AtFirst
<1> HIDE DEF u
<1>3. ASSUME NEW kind \in Tracked
      PROVE  PartStock(u, {}, kind) <= Fitted(u, kind)
  <2>1. /\ Fitted(u, kind) \in Nat /\ Fitted(u, kind) = u.store[kind] + Cardinality(Owned(u, {}, kind))
        /\ Coming({}, kind) = {} /\ u.store[kind] \in Nat
    BY <1>1, FittedNat DEF u
  <2>2. Cardinality(Coming({}, kind)) = 0
    BY <2>1, FS_EmptySet
  <2> QED
    BY <2>1, <2>2, OwnedFinite DEF PartStock
<1>4. ArmorStock(u, {}) <= ArmorOf(u) /\ IntStock(u, {}) <= IntOf(u)
  <2>1. ArmorOf(u) \in Nat /\ IntOf(u) \in Nat
    BY <1>1, NoJobs, StockNat DEF u
  <2>2. RealOf({}, "FIX") = {} /\ RealOf({}, "FIXI") = {} /\ RealOf({}, "REAT") = {}
    BY NoJobs
  <2>3. ArmorStock(u, {}) = ArmorOf(u) + Points({})
    BY <2>2 DEF ArmorStock
  <2>4. IntStock(u, {}) = IntOf(u) + Points({}) + Internals({})
    BY <2>2 DEF IntStock
  <2>5. Points({}) = 0 /\ Internals({}) = 0
    BY NoJobs
  <2> QED
    BY <2>1, <2>3, <2>4, <2>5
<1> QED
  BY <1>1, <1>2, <1>3, <1>4 DEF Balanced, u

\* A step that makes nothing keeps the balance.
LEMMA KeepsBalance ==
    ASSUME Exclusive, Exclusive', Balanced, Conserving, scenario' = scenario
    PROVE  Balanced'
<1>1. AtFirst' = AtFirst
  BY DEF AtFirst
<1> DEFINE f == AtFirst
           u == unit
           v == unit'
           js == jobs
           ks == jobs'
<1>2. u \in UnitStates /\ v \in UnitStates /\ f \in UnitStates
  BY DEF Exclusive, TypeOK, Balanced
<1>3. JobSet(js) /\ JobSet(ks)
  BY DEF Exclusive, JobsOK, JobOK, Balanced, Conserving, JobSet
<1>4. NoMore(u, js, v, ks)
  BY DEF Conserving
<1>5. /\ \A kind \in Tracked : PartStock(u, js, kind) <= Fitted(f, kind)
      /\ ArmorStock(u, js) <= ArmorOf(f) /\ IntStock(u, js) <= IntOf(f)
  BY DEF Balanced
<1> HIDE DEF f, u, v, js, ks
<1>6. /\ ArmorStock(u, js) \in Nat /\ IntStock(u, js) \in Nat
      /\ ArmorStock(v, ks) \in Nat /\ IntStock(v, ks) \in Nat
      /\ ArmorOf(f) \in Nat /\ IntOf(f) \in Nat
  BY <1>2, <1>3, StockNat
<1>7. ASSUME NEW kind \in Tracked
      PROVE  PartStock(v, ks, kind) <= Fitted(f, kind)
  <2>1. /\ PartStock(u, js, kind) \in Nat /\ PartStock(v, ks, kind) \in Nat /\ Fitted(f, kind) \in Nat
    BY <1>2, <1>3, StockNat, FittedNat
  <2>2. PartStock(v, ks, kind) <= PartStock(u, js, kind)
    BY <1>4 DEF NoMore
  <2> QED
    BY <1>5, <2>1, <2>2
<1>8. ArmorStock(v, ks) <= ArmorOf(f) /\ IntStock(v, ks) <= IntOf(f)
  BY <1>4, <1>5, <1>6 DEF NoMore
<1>9. IsFiniteSet(ks)
  BY <1>3 DEF JobSet
<1> QED
  BY <1>1, <1>2, <1>7, <1>8, <1>9 DEF Balanced, f, v, ks

\* The inductive invariant of the materials.
MInv == IInv /\ Balanced

LEMMA NextMInv == MInv /\ [Next]_vars => MInv'
<1> SUFFICES ASSUME MInv, [Next]_vars
             PROVE  MInv'
  OBVIOUS
<1>1. IInv' /\ IInv /\ Balanced
  BY NextIInv DEF MInv
<1>2. Exclusive /\ Exclusive' /\ Bounded(unit) /\ IsFiniteSet(jobs)
  BY <1>1 DEF IInv, Balanced
<1>3. JobSet(jobs) /\ unit \in UnitStates
  BY <1>2, UnitTyped DEF Exclusive, JobsOK, JobSet
<1>4. scenario' = scenario
  BY DEF Next, vars
<1>5. CASE Tech
  BY <1>1, <1>2, <1>4, <1>5, TechStock, KeepsBalance DEF MInv
<1>6. ASSUME NEW j \in jobs, TechEvent(j)
      PROVE  MInv'
  <2>1. Alone(jobs, j)
    BY <1>2 DEF Exclusive, Apart, Alone
  <2>2. NoMore(unit, jobs, Outcome(unit, j), After(jobs, j)) /\ JobSet(After(jobs, j))
    BY <1>2, <1>3, <2>1, EventStock, AfterSet
  <2>3. unit' = Outcome(unit, j) /\ jobs' = After(jobs, j)
    BY <1>6 DEF TechEvent, After
  <2>4. Conserving
    BY <2>2, <2>3 DEF Conserving, JobSet
  <2> QED
    BY <1>1, <1>2, <1>4, <2>4, KeepsBalance DEF MInv
<1>7. CASE (mech_startup \/ mech_startup_event \/ mech_shutdown) \/ UNCHANGED vars
  <2>1. unit' = unit /\ jobs' = jobs
    BY <1>7 DEF mech_startup, mech_startup_event, mech_shutdown, vars
  <2>2. AtFirst' = AtFirst
    BY <1>4 DEF AtFirst
  <2> QED
    BY <1>1, <2>1, <2>2 DEF MInv, Balanced
<1>8. CASE Restart
  <2>1. unit' = unit /\ jobs' = Loaded(jobs)
    BY <1>8 DEF Restart
  <2>2. NoMore(unit, jobs, unit, Loaded(jobs)) /\ JobSet(Loaded(jobs))
    BY <1>3, RestartStock, LoadedSet
  <2>3. Conserving
    BY <2>1, <2>2 DEF Conserving, JobSet
  <2> QED
    BY <1>1, <1>2, <1>4, <2>3, KeepsBalance DEF MInv
<1> QED
  BY <1>5, <1>6, <1>7, <1>8 DEF Next

LEMMA SpecMInv == Spec => []MInv
<1>1. Init => MInv
  BY InitIInv, InitBalanced DEF MInv
<1> QED
  BY <1>1, NextMInv, PTL DEF Spec

\* What the property counts is no more than the stock.
LEMMA BalanceSuffices == MInv => MaterialsConserved
<1> SUFFICES ASSUME MInv
             PROVE  MaterialsConserved
  OBVIOUS
<1>1. Exclusive /\ Balanced
  BY DEF MInv, IInv
<1>2. unit \in UnitStates /\ \A j \in jobs : JobOK(j)
  BY <1>1, UnitTyped DEF Exclusive, JobsOK
<1>3. \A type : Real(type) = RealOf(jobs, type)
  BY DEF Real, RealOf, Failed
<1> DEFINE pending(kind) == Cardinality({j \in Real("REPLG") \cup Real("REPL") : Kind(j.pos) = kind})
<1>4. ASSUME NEW kind \in Tracked
      PROVE  Fitted(unit, kind) + pending(kind) <= Fitted(AtFirst, kind)
  <2> DEFINE S == {j \in Real("REPLG") \cup Real("REPL") : Kind(j.pos) = kind}
             T == Coming(jobs, kind)
             f == [j \in S |-> j.pos]
             P == {p \in Parts : Kind(p) = kind /\ Present(unit.part[p], kind)}
  <2>1. \A j \in S : j \in jobs /\ j.type \in Mending
    BY DEF Real, Mending
  <2>2. \A j, k \in S : j.pos = k.pos => j = k
    <3>1. \A j \in S : j.type \in {"REPL", "REPLG"} /\ j.crit = 0
      BY <1>2, <2>1 DEF Real, JobOK
    <3> QED
      BY <1>1, <2>1, <3>1 DEF Exclusive, Apart, Clash
  <2>3. \A j \in S : j.pos \in T
    <3>1. ASSUME NEW j \in S
          PROVE  j.pos \in T
      <4>1. j \in jobs /\ j.type \in {"REPL", "REPLG"} /\ ~Failed(j) /\ Kind(j.pos) = kind
        BY DEF Real, Failed
      <4>2. j.pos \in Parts
        BY <1>2, <4>1, JobPlace DEF PartTypes, Mending
      <4> QED
        BY <4>1, <4>2 DEF Coming, Busy
    <3> QED
      BY <3>1
  <2>4. IsFiniteSet(T) /\ Cardinality(T) \in Nat
    BY OwnedFinite
  <2> HIDE DEF S, T
  <2>5. f \in Injection(S, T)
    <3>1. f \in [S -> T]
      BY <2>3
    <3>2. \A j, k \in S : f[j] = f[k] => j = k
      BY <2>2
    <3>3. DOMAIN f = S
      OBVIOUS
    <3> HIDE DEF f
    <3>4. IsInjective(f)
      BY <3>2, <3>3 DEF IsInjective
    <3> QED
      BY <3>1, <3>4 DEF Injection
  <2> HIDE DEF f
  <2>6. IsFiniteSet(S) /\ Cardinality(S) <= Cardinality(T)
    BY <2>4, <2>5, FS_Injection
  <2>7. Cardinality(S) \in Nat
    BY <2>6, FS_CardinalityType
  <2>8. P \subseteq Owned(unit, jobs, kind)
    BY DEF Owned
  <2>9. IsFiniteSet(Owned(unit, jobs, kind)) /\ Cardinality(Owned(unit, jobs, kind)) \in Nat
    BY OwnedFinite
  <2>10. Fitted(unit, kind) = unit.store[kind] + Cardinality(P)
    BY DEF Fitted
  <2> HIDE DEF P
  <2>11. Cardinality(P) \in Nat /\ Cardinality(P) <= Cardinality(Owned(unit, jobs, kind))
    BY <2>8, <2>9, SubsetCard
  <2>12. unit.store[kind] \in Nat /\ Fitted(AtFirst, kind) \in Nat
    BY <1>1, <1>2, FittedNat DEF Balanced
  <2>13. PartStock(unit, jobs, kind) <= Fitted(AtFirst, kind)
    BY <1>1 DEF Balanced
  <2>14. PartStock(unit, jobs, kind) = unit.store[kind] + Cardinality(Owned(unit, jobs, kind)) + Cardinality(T)
    BY DEF PartStock, T
  <2>15. pending(kind) = Cardinality(S)
    BY DEF S
  <2> HIDE DEF pending
  <2>16. unit.store[kind] + Cardinality(P) + Cardinality(S) <= Fitted(AtFirst, kind)
    BY <2>4, <2>6, <2>7, <2>9, <2>11, <2>12, <2>13, <2>14
  <2> QED
    BY <2>10, <2>15, <2>16
<1>5. /\ ArmorOf(unit) + Points(Real("FIX")) <= ArmorOf(AtFirst)
      /\ IntOf(unit) + Points(Real("FIXI")) + Internals(Real("REAT")) <= IntOf(AtFirst)
  BY <1>1, <1>3 DEF Balanced, ArmorStock, IntStock
<1> QED
  BY <1>4, <1>5 DEF MaterialsConserved, AtFirst, Tracked

\* Materials, for any unit, fittings and stock, any number of technicians and any order in which
\* their jobs end: guns, parts, armor and internals that are stored, mounted or paid for are
\* never more than there were at first, whatever fails, is salvaged or is carried over a
\* restart (mech.tech.do.c pays, mech.tech.events.c delivers, mech.tech.saverepair.c restores).
THEOREM MaterialsKept == Spec => []MaterialsConserved
BY SpecMInv, BalanceSuffices, PTL
=============================================================================
