--------------------------- MODULE TestRunsProofs ---------------------------
(***************************************************************************)
(* Whatever processes meet, die or are interrupted: the verdict of a test  *)
(* file is the one it deserves, unless it met the first build of a library *)
(* of its own or lost the builder.                                         *)
(***************************************************************************)
EXTENDS TestRuns, TLAPS

\* compile_model_hier keeps one model of a class in each process, whatever its
\* parameters are.
OneModelPerClass ==
  \A f \in DOMAIN Tests : \A t, u \in Range(Tests[f]) :
    t.way = "hier" /\ u.way = "hier" /\ t.cls = u.cls => t.params = u.params

Workers == 1 .. Jobs
Building == {"write", "read", "cc"}
Busy == Building \cup {"look", "load"}

-----------------------------------------------------------------------------
(* The names and keys when the sources are those of `ver'.                 *)

ContentIn(ver, t) == <<t.cls, t.params, ver[t.cls]>>

NameIn(ver, k, t) == <<k, t.cls, ContentIn(ver, t)>>

KeyIn(ver, k, t) ==
  CASE k = "flat" -> <<k, t.cls, t.params>>
    [] k = "hier" -> <<k, t.cls>>
    [] k = "cysim" -> NameIn(ver, k, t)

LEMMA NamesNow ==
    ASSUME NEW k, NEW t
    PROVE  /\ ContentOf(t) = ContentIn(version, t) /\ LibName(k, t) = NameIn(version, k, t)
           /\ CompileKey(k, t) = KeyIn(version, k, t)
  BY DEF ContentOf, ContentIn, LibName, NameIn, CompileKey, KeyIn

LEMMA TestsAre ==
    ASSUME NEW f \in DOMAIN Tests
    PROVE  /\ Tests[f] \in Seq(Range(Tests[f])) /\ Len(Tests[f]) \in Nat \ {0}
           /\ DOMAIN Tests[f] = 1 .. Len(Tests[f])
           /\ \A j \in 1 .. Len(Tests[f]) : Tests[f][j] \in Range(Tests[f])
           /\ \A t \in Range(Tests[f]) : /\ \E j \in 1 .. Len(Tests[f]) : t = Tests[f][j]
                                         /\ t.way \in {"flat", "hier", "cysim"}
<1>1. Tests[f] # <<>> /\ Tests[f] \in Seq(Range(Tests[f])) BY TestRunsAssumption
<1>2. DOMAIN Tests[f] = 1 .. Len(Tests[f]) /\ Len(Tests[f]) \in Nat BY <1>1
<1>3. Len(Tests[f]) # 0 BY <1>1
<1>. QED BY <1>1, <1>2, <1>3, TestRunsAssumption DEF Range

\* What is left of the plan for the library that the test loads.
Final(t) == <<t.way>>

LEMMA Plans ==
    ASSUME NEW t, t.way \in {"flat", "hier", "cysim"}
    PROVE  /\ Range(PlanOf(t)) = IF t.way = "cysim" THEN {"flat", "cysim"} ELSE {t.way}
           /\ \A p \in {PlanOf(t), Final(t)} :
                /\ Head(p) \in Range(PlanOf(t))
                /\ Len(p) > 1 => Tail(p) = Final(t)
                /\ ~(Len(p) > 1) => p = Final(t)
           /\ Head(Final(t)) = t.way /\ t.way \in Range(PlanOf(t))
<1>1. CASE t.way = "cysim"
  <2>1. PlanOf(t) = <<"flat", "cysim">> /\ Final(t) = <<"cysim">> BY <1>1 DEF PlanOf, Final
  <2>2. Range(<<"flat", "cysim">>) = {"flat", "cysim"} BY DEF Range
  <2>. QED BY <1>1, <2>1, <2>2
<1>2. CASE t.way # "cysim"
  <2>1. PlanOf(t) = <<t.way>> /\ Final(t) = <<t.way>> BY <1>2 DEF PlanOf, Final
  <2>2. Range(<<t.way>>) = {t.way} BY DEF Range
  <2>. QED BY <1>2, <2>1, <2>2
<1>. QED BY <1>1, <1>2

\* One key, one library, within a process.
LEMMA KeysTell ==
    ASSUME OneModelPerClass, NEW ver, NEW f \in DOMAIN Tests,
           NEW t \in Range(Tests[f]), NEW k \in Range(PlanOf(t)),
           NEW u \in Range(Tests[f]), NEW j \in Range(PlanOf(u)),
           KeyIn(ver, k, t) = KeyIn(ver, j, u)
    PROVE  NameIn(ver, k, t) = NameIn(ver, j, u)
<1>1. /\ t.way \in {"flat", "hier", "cysim"} /\ u.way \in {"flat", "hier", "cysim"}
      /\ k \in {"flat", "hier", "cysim"} /\ j \in {"flat", "hier", "cysim"}
      /\ k = "hier" => t.way = "hier"
      /\ j = "hier" => u.way = "hier"
  BY TestsAre, Plans
<1>2. k = j /\ t.cls = u.cls
  <2>1. KeyIn(ver, k, t)[1] = k /\ KeyIn(ver, k, t)[2] = t.cls BY <1>1 DEF KeyIn, NameIn
  <2>2. KeyIn(ver, j, u)[1] = j /\ KeyIn(ver, j, u)[2] = u.cls BY <1>1 DEF KeyIn, NameIn
  <2>. QED BY <2>1, <2>2
<1>3. CASE k = "flat"
  <2>1. <<k, t.cls, t.params>> = <<k, u.cls, u.params>> BY <1>2, <1>3 DEF KeyIn
  <2>2. t.params = u.params BY <2>1
  <2>. QED BY <1>2, <2>2 DEF NameIn, ContentIn
<1>4. CASE k = "hier"
  <2>1. t.params = u.params BY <1>1, <1>2, <1>4 DEF OneModelPerClass
  <2>. QED BY <1>2, <2>1 DEF NameIn, ContentIn
<1>5. CASE k = "cysim" BY <1>2, <1>5 DEF KeyIn
<1>. QED BY <1>1, <1>3, <1>4, <1>5

-----------------------------------------------------------------------------
(* What is true of a worker p in a run of `files' with the seeds `seeds'.  *)

TestAt(p) == Tests[p.file][p.test]

IsWorker(p) ==
  p = [at |-> p.at, file |-> p.file, seed |-> p.seed, test |-> p.test, plan |-> p.plan,
       cache |-> p.cache, name |-> p.name, text |-> p.text, bad |-> p.bad]

PlanOk(p, ver) ==
  /\ p.plan \in {PlanOf(TestAt(p)), Final(TestAt(p))}
  /\ p.at = "load" => p.plan = Final(TestAt(p))
  /\ p.at \in Building \cup {"load"} => p.name = NameIn(ver, Head(p.plan), TestAt(p))
  /\ p.at = "write" => Head(p.plan) # "cysim"

CacheOk(p, ver) ==
  \A key \in DOMAIN p.cache :
    \E t \in Range(Tests[p.file]) : \E k \in Range(PlanOf(t)) :
      key = KeyIn(ver, k, t) /\ p.cache[key] = NameIn(ver, k, t)

WorkerOk(p, files, seeds, ver) ==
  /\ IsWorker(p) /\ p.at \in Busy \cup {"free", "exit"} /\ p.bad \in BOOLEAN
  /\ p.at # "free" => /\ p.file \in Range(files) /\ p.seed = seeds[p.file]
                      /\ p.test \in 1 .. Len(Tests[p.file])
  /\ p.at \in Busy => PlanOk(p, ver) /\ CacheOk(p, ver)

\* One of the first n tests of the file fails.
FailsBy(f, seed, n, ver) == \E j \in 1 .. n : <<ContentIn(ver, Tests[f][j]), seed>> \in Fails

Through(p) == IF p.at = "exit" THEN Len(Tests[p.file]) ELSE p.test - 1

Spoiled(f, ver, tn) ==
  \E t \in Range(Tests[f]) : \E k \in Range(PlanOf(t)) : NameIn(ver, k, t) \in tn

VerdictOk(p, killed, ver, tn) ==
  p.at # "free" =>
    /\ FailsBy(p.file, p.seed, Through(p), ver) => p.bad
    /\ p.bad => \/ FailsBy(p.file, p.seed, Through(p), ver)
                \/ p.file \in killed \/ Spoiled(p.file, ver, tn)

\* The verdict r on the file is right, or excused.
SoundFor(r, f, seed, ver, excused) ==
  \/ r = IF FailsBy(f, seed, Len(Tests[f]), ver) THEN "fail" ELSE "pass"
  \/ r = "fail" /\ excused

-----------------------------------------------------------------------------
(* What is true of the libraries that nothing has tainted.                 *)

InPlace(n, dk, tn) == n \in tn \/ (n \in DOMAIN dk /\ dk[n].state = "whole")

Held(p) == {p.cache[key] : key \in DOMAIN p.cache} \cup {n \in {p.name} : p.at = "load"}

HandsOk(v, p, dk, src, tn) ==
  /\ p.at \in {"write", "read"} => p.name \in tn \/ p.name \notin DOMAIN dk
  /\ p.at = "cc" => p.name \in tn \/ (/\ p.name \in DOMAIN dk /\ dk[p.name].by = v
                                      /\ p.text = "whole")
  /\ p.at \in {"write", "read"} /\ Head(p.plan) # "cysim" => p.name \in DOMAIN src
  /\ p.at = "read" /\ Head(p.plan) # "cysim" => p.name \in tn \/ src[p.name] = "whole"
  /\ p.at \in Busy => \A n \in Held(p) : InPlace(n, dk, tn)

\* An untainted library has one builder at most.
OneBuilder(pr, tn) ==
  \A v, w \in Workers :
    pr[v].at \in Building /\ pr[w].at \in Building /\ pr[v].name = pr[w].name =>
      v = w \/ pr[v].name \in tn

IsLibrary(x) == x = [by |-> x.by, state |-> x.state, content |-> x.content]

DiskOk(pr, dk, tn) ==
  \A n \in DOMAIN dk :
    /\ IsLibrary(dk[n]) /\ dk[n].content = n[3]
    /\ \/ n \in tn \/ dk[n].state = "whole"
       \/ \E v \in Workers : pr[v].at = "cc" /\ pr[v].name = n

LibrariesOk(pr, dk, src, tn) ==
  /\ OneBuilder(pr, tn)
  /\ DiskOk(pr, dk, tn)
  /\ \A v \in Workers : HandsOk(v, pr[v], dk, src, tn)

-----------------------------------------------------------------------------
IsSession(s) ==
  s = [files |-> s.files, seeds |-> s.seeds, queue |-> s.queue, results |-> s.results,
       seed |-> s.seed, killed |-> s.killed]

FilesOk(s) ==
  /\ IsSession(s) /\ (s.files = <<>> \/ s.files \in Paths)
  /\ s.queue \in Seq(Range(s.files)) /\ DOMAIN s.seeds = Range(s.files)

WorkersOk(pr, s, ver, tn) ==
  /\ DOMAIN pr = Workers
  /\ \A w \in Workers : /\ WorkerOk(pr[w], s.files, s.seeds, ver)
                        /\ VerdictOk(pr[w], s.killed, ver, tn)

ResultsOk(s, ver, tn) ==
  \A f \in DOMAIN s.results :
    /\ f \in Range(s.files)
    /\ SoundFor(s.results[f], f, s.seeds[f], ver, f \in s.killed \/ Spoiled(f, ver, tn))

SeedsKept(s, rec) ==
  s.seed = None => \A f \in Range(s.files) \cap DOMAIN rec : s.seeds[f] = rec[f]

\* What was recorded of the last run explains its verdicts.
LastOk(l, rec, tn) ==
  \A f \in DOMAIN l.results :
    f \in DOMAIN rec /\ SoundFor(l.results[f], f, rec[f], l.version, Spoiled(f, l.version, tn))

RunsInv ==
  /\ FilesOk(session)
  /\ WorkersOk(proc, session, version, tainted)
  /\ LibrariesOk(proc, disk, sources, tainted)
  /\ ResultsOk(session, version, tainted)
  /\ SeedsKept(session, record)
  /\ LastOk(last, record, tainted)

-----------------------------------------------------------------------------
(* A taint or a kill more never hurts.                                     *)
LEMMA MoreTaint ==
    ASSUME NEW tn, NEW tn2, tn \subseteq tn2, NEW f, NEW ver
    PROVE  Spoiled(f, ver, tn) => Spoiled(f, ver, tn2)
  BY DEF Spoiled

LEMMA MoreExcuses ==
    ASSUME NEW tn, NEW tn2, tn \subseteq tn2, NEW killed, NEW killed2, killed \subseteq killed2,
           NEW ver, NEW p, VerdictOk(p, killed, ver, tn)
    PROVE  VerdictOk(p, killed2, ver, tn2)
  BY MoreTaint DEF VerdictOk

LEMMA SoundWithMore ==
    ASSUME NEW r, NEW f, NEW seed, NEW ver, NEW a \in BOOLEAN, NEW b \in BOOLEAN, a => b,
           SoundFor(r, f, seed, ver, a)
    PROVE  SoundFor(r, f, seed, ver, b)
  BY DEF SoundFor

LEMMA MoreResults ==
    ASSUME NEW s, NEW s2, s2.results = s.results, s2.files = s.files, s2.seeds = s.seeds,
           s.killed \subseteq s2.killed, NEW ver, NEW tn, NEW tn2, tn \subseteq tn2,
           ResultsOk(s, ver, tn)
    PROVE  ResultsOk(s2, ver, tn2)
<1> SUFFICES ASSUME NEW f \in DOMAIN s.results
             PROVE  /\ f \in Range(s.files)
                    /\ SoundFor(s.results[f], f, s.seeds[f], ver,
                                f \in s2.killed \/ Spoiled(f, ver, tn2))
  BY DEF ResultsOk
<1> DEFINE a == f \in s.killed \/ Spoiled(f, ver, tn)
           b == f \in s2.killed \/ Spoiled(f, ver, tn2)
<1>1. f \in Range(s.files) /\ SoundFor(s.results[f], f, s.seeds[f], ver, a) BY DEF ResultsOk
<1>2. (a => b) /\ a \in BOOLEAN /\ b \in BOOLEAN BY MoreTaint DEF Spoiled
<1>. HIDE DEF a, b
<1>3. SoundFor(s.results[f], f, s.seeds[f], ver, b) BY <1>1, <1>2, SoundWithMore
<1>. QED BY <1>1, <1>3 DEF b

LEMMA MoreLast ==
    ASSUME NEW l, NEW rec, NEW tn, NEW tn2, tn \subseteq tn2, LastOk(l, rec, tn)
    PROVE  LastOk(l, rec, tn2)
<1> SUFFICES ASSUME NEW f \in DOMAIN l.results
             PROVE  f \in DOMAIN rec /\ SoundFor(l.results[f], f, rec[f], l.version,
                                                 Spoiled(f, l.version, tn2))
  BY DEF LastOk
<1> DEFINE a == Spoiled(f, l.version, tn)
           b == Spoiled(f, l.version, tn2)
<1>1. f \in DOMAIN rec /\ SoundFor(l.results[f], f, rec[f], l.version, a) BY DEF LastOk
<1>2. (a => b) /\ a \in BOOLEAN /\ b \in BOOLEAN BY MoreTaint DEF Spoiled
<1>. HIDE DEF a, b
<1>3. SoundFor(l.results[f], f, rec[f], l.version, b) BY <1>1, <1>2, SoundWithMore
<1>. QED BY <1>1, <1>3 DEF b

-----------------------------------------------------------------------------
(* Nothing but the library `name' changes, and the hands of one worker.    *)
SameBut(d, d2, name) ==
  /\ \A n : n # name => (n \in DOMAIN d <=> n \in DOMAIN d2)
  /\ \A n \in DOMAIN d : n # name => d[n] = d2[n]

LEMMA HandsStay ==
    ASSUME NEW v, NEW p, NEW dk, NEW dk2, NEW src, NEW src2, NEW tn, NEW tn2, NEW name,
           tn \subseteq tn2, SameBut(dk, dk2, name), SameBut(src, src2, name),
           DOMAIN src \subseteq DOMAIN src2,
           p.at \in Building /\ p.name = name => name \in tn2,
           InPlace(name, dk, tn) => InPlace(name, dk2, tn2),
           HandsOk(v, p, dk, src, tn)
    PROVE  HandsOk(v, p, dk2, src2, tn2)
<1>1. \A n : InPlace(n, dk, tn) => InPlace(n, dk2, tn2) BY DEF InPlace, SameBut
<1>2. p.at \in Busy => \A n \in Held(p) : InPlace(n, dk2, tn2) BY <1>1 DEF HandsOk
<1>3. p.at \in {"write", "read"} => p.name \in tn2 \/ p.name \notin DOMAIN dk2
  BY DEF HandsOk, SameBut, Building
<1>4. p.at = "cc" => p.name \in tn2 \/ (/\ p.name \in DOMAIN dk2 /\ dk2[p.name].by = v
                                        /\ p.text = "whole")
  BY DEF HandsOk, SameBut, Building
<1>5. p.at \in {"write", "read"} /\ Head(p.plan) # "cysim" => p.name \in DOMAIN src2
  BY DEF HandsOk
<1>6. p.at = "read" /\ Head(p.plan) # "cysim" => p.name \in tn2 \/ src2[p.name] = "whole"
  BY DEF HandsOk, SameBut, Building
<1>. QED BY <1>2, <1>3, <1>4, <1>5, <1>6 DEF HandsOk

LEMMA LibrariesKept ==
    ASSUME NEW pr, NEW dk, NEW dk2, NEW src, NEW src2, NEW tn, NEW tn2, NEW name,
           NEW w \in Workers, NEW q,
           DOMAIN pr = Workers, LibrariesOk(pr, dk, src, tn),
           tn \subseteq tn2, SameBut(dk, dk2, name), SameBut(src, src2, name),
           DOMAIN src \subseteq DOMAIN src2,
           \A v \in Workers \ {w} : pr[v].at \in Building /\ pr[v].name = name => name \in tn2,
           q.at \in Building => q.name = name,
           pr[w].at = "cc" => pr[w].name = name,
           InPlace(name, dk, tn) => InPlace(name, dk2, tn2),
           name \in DOMAIN dk2 =>
             /\ IsLibrary(dk2[name]) /\ dk2[name].content = name[3]
             /\ name \in tn2 \/ dk2[name].state = "whole" \/ (q.at = "cc" /\ q.name = name),
           HandsOk(w, q, dk2, src2, tn2)
    PROVE  LibrariesOk([pr EXCEPT ![w] = q], dk2, src2, tn2)
<1> DEFINE pr2 == [pr EXCEPT ![w] = q]
<1>1. pr2[w] = q /\ \A v \in Workers \ {w} : pr2[v] = pr[v] OBVIOUS
<1>. HIDE DEF pr2
<1>2. OneBuilder(pr, tn) /\ DiskOk(pr, dk, tn)
  BY DEF LibrariesOk
<1>3. OneBuilder(pr2, tn2)
  <2> SUFFICES ASSUME NEW v \in Workers, NEW u \in Workers, v # u,
                      pr2[v].at \in Building, pr2[u].at \in Building, pr2[v].name = pr2[u].name
               PROVE  pr2[v].name \in tn2
    BY DEF OneBuilder
  <2>1. CASE v # w /\ u # w BY <1>1, <1>2, <2>1 DEF OneBuilder
  <2>2. CASE v = w BY <1>1, <2>2
  <2>3. CASE u = w BY <1>1, <2>3
  <2>. QED BY <2>1, <2>2, <2>3
<1>4. DiskOk(pr2, dk2, tn2)
  <2> SUFFICES ASSUME NEW n \in DOMAIN dk2
               PROVE  /\ IsLibrary(dk2[n]) /\ dk2[n].content = n[3]
                      /\ \/ n \in tn2 \/ dk2[n].state = "whole"
                         \/ \E v \in Workers : pr2[v].at = "cc" /\ pr2[v].name = n
    BY DEF DiskOk
  <2>1. CASE n = name BY <1>1, <2>1
  <2>2. CASE n # name
    <3>1. n \in DOMAIN dk /\ dk2[n] = dk[n] BY <2>2 DEF SameBut
    <3>2. /\ IsLibrary(dk[n]) /\ dk[n].content = n[3]
          /\ \/ n \in tn \/ dk[n].state = "whole"
             \/ \E v \in Workers : pr[v].at = "cc" /\ pr[v].name = n
      BY <1>2, <3>1 DEF DiskOk
    <3>3. ASSUME NEW v \in Workers, pr[v].at = "cc", pr[v].name = n
          PROVE  pr2[v].at = "cc" /\ pr2[v].name = n
      BY <1>1, <2>2, <3>3
    <3>. QED BY <3>1, <3>2, <3>3
  <2>. QED BY <2>1, <2>2
<1>5. ASSUME NEW v \in Workers PROVE HandsOk(v, pr2[v], dk2, src2, tn2)
  <2>1. CASE v = w BY <1>1, <2>1
  <2>2. CASE v # w
    <3>1. HandsOk(v, pr[v], dk, src, tn) BY DEF LibrariesOk
    <3>2. pr[v].at \in Building /\ pr[v].name = name => name \in tn2 BY <2>2
    <3>3. HandsOk(v, pr[v], dk2, src2, tn2) BY <3>1, <3>2, HandsStay
    <3>. QED BY <1>1, <2>2, <3>3
  <2>. QED BY <2>1, <2>2
<1>6. LibrariesOk(pr2, dk2, src2, tn2) BY <1>3, <1>4, <1>5 DEF LibrariesOk
<1>. QED BY <1>6 DEF pr2

(* A worker builds nothing any more, and no file changes.                  *)
LEMMA LibrariesQuiet ==
    ASSUME NEW pr, NEW dk, NEW src, NEW tn, NEW tn2, NEW w \in Workers, NEW q,
           DOMAIN pr = Workers, LibrariesOk(pr, dk, src, tn), tn \subseteq tn2,
           q.at \notin Building, pr[w].at \in Building => pr[w].name \in tn2,
           q.at \in Busy => \A n \in Held(q) : InPlace(n, dk, tn2)
    PROVE  LibrariesOk([pr EXCEPT ![w] = q], dk, src, tn2)
<1> DEFINE pr2 == [pr EXCEPT ![w] = q]
<1>1. pr2[w] = q /\ \A v \in Workers \ {w} : pr2[v] = pr[v] OBVIOUS
<1>. HIDE DEF pr2
<1>2. OneBuilder(pr, tn) /\ DiskOk(pr, dk, tn)
  BY DEF LibrariesOk
<1>3. OneBuilder(pr2, tn2)
  BY <1>1, <1>2 DEF OneBuilder
<1>4. DiskOk(pr2, dk, tn2)
  <2> SUFFICES ASSUME NEW n \in DOMAIN dk
               PROVE  \/ n \in tn2 \/ dk[n].state = "whole"
                      \/ \E v \in Workers : pr2[v].at = "cc" /\ pr2[v].name = n
    BY <1>2 DEF DiskOk
  <2>1. \/ n \in tn \/ dk[n].state = "whole"
        \/ \E v \in Workers : pr[v].at = "cc" /\ pr[v].name = n
    BY <1>2 DEF DiskOk
  <2>2. ASSUME NEW v \in Workers, pr[v].at = "cc", pr[v].name = n
        PROVE  n \in tn2 \/ (pr2[v].at = "cc" /\ pr2[v].name = n)
    BY <1>1, <2>2 DEF Building
  <2>. QED BY <2>1, <2>2
<1>5. ASSUME NEW v \in Workers PROVE HandsOk(v, pr2[v], dk, src, tn2)
  <2>1. CASE v = w
    BY <1>1, <2>1 DEF HandsOk, Building
  <2>2. CASE v # w
    <3>1. HandsOk(v, pr[v], dk, src, tn) BY DEF LibrariesOk
    <3>2. HandsOk(v, pr[v], dk, src, tn2) BY <3>1 DEF HandsOk, InPlace
    <3>. QED BY <1>1, <2>2, <3>2
  <2>. QED BY <2>1, <2>2
<1>6. LibrariesOk(pr2, dk, src, tn2) BY <1>3, <1>4, <1>5 DEF LibrariesOk
<1>. QED BY <1>6 DEF pr2

-----------------------------------------------------------------------------
(* The steps of one worker that its own state describes.                   *)
LEMMA BeginTestIs ==
    ASSUME NEW p, NEW files, NEW seeds, NEW ver,
           files \in Seq(DOMAIN Tests), IsWorker(p), p.bad \in BOOLEAN,
           p.file \in Range(files), p.seed = seeds[p.file],
           p.test \in 1 .. Len(Tests[p.file]), CacheOk(p, ver),
           NEW q, q = BeginTest(p)
    PROVE  /\ WorkerOk(q, files, seeds, ver)
           /\ q.at = "look" /\ q.cache = p.cache
           /\ q.file = p.file /\ q.seed = p.seed /\ q.test = p.test /\ q.bad = p.bad
<1>1. q = [p EXCEPT !.at = "look", !.plan = PlanOf(TestAt(p))] BY DEF BeginTest, TestAt
<1>2. q = [at |-> "look", file |-> p.file, seed |-> p.seed, test |-> p.test,
           plan |-> PlanOf(TestAt(p)), cache |-> p.cache, name |-> p.name, text |-> p.text,
           bad |-> p.bad]
  BY <1>1 DEF IsWorker
<1>3. /\ q.at = "look" /\ q.plan = PlanOf(TestAt(p)) /\ q.cache = p.cache /\ IsWorker(q)
      /\ q.file = p.file /\ q.seed = p.seed /\ q.test = p.test /\ q.bad = p.bad
  BY <1>2 DEF IsWorker
<1>4. TestAt(q) = TestAt(p) BY <1>3 DEF TestAt
<1>5. PlanOk(q, ver) BY <1>3, <1>4 DEF PlanOk, Building
<1>6. CacheOk(q, ver) BY <1>3 DEF CacheOk
<1>7. WorkerOk(q, files, seeds, ver) BY <1>3, <1>5, <1>6 DEF WorkerOk, Busy
<1>. QED BY <1>3, <1>7

LEMMA TestEndsIs ==
    ASSUME NEW w, NEW files, NEW seeds, NEW ver, NEW killed, NEW tn, NEW ok \in BOOLEAN,
           files \in Seq(DOMAIN Tests), WorkerOk(proc[w], files, seeds, ver),
           VerdictOk(proc[w], killed, ver, tn), proc[w].at \in Busy,
           ok => <<ContentIn(ver, TestAt(proc[w])), proc[w].seed>> \notin Fails,
           ~ok => \/ <<ContentIn(ver, TestAt(proc[w])), proc[w].seed>> \in Fails
                  \/ Spoiled(proc[w].file, ver, tn),
           NEW q, q = TestEnds(w, ok)
    PROVE  /\ WorkerOk(q, files, seeds, ver)
           /\ VerdictOk(q, killed, ver, tn)
           /\ q.at \in {"look", "exit"}
           /\ \A n \in Held(q) : n \in Held(proc[w])
<1> DEFINE p == proc[w]
           b == p.bad \/ ~ok
           r == [p EXCEPT !.bad = @ \/ ~ok, !.name = <<>>]
           r2 == [r EXCEPT !.test = @ + 1]
<1>1. /\ IsWorker(p) /\ p.bad \in BOOLEAN /\ p.file \in Range(files) /\ p.seed = seeds[p.file]
      /\ p.test \in 1 .. Len(Tests[p.file]) /\ CacheOk(p, ver)
  BY DEF WorkerOk, Busy, Building
<1>2. p.file \in DOMAIN Tests BY <1>1 DEF Range
<1>3. Len(Tests[p.file]) \in Nat BY <1>2, TestsAre
<1>4. b \in BOOLEAN OBVIOUS
<1>5. r = [p EXCEPT !.bad = b, !.name = <<>>] OBVIOUS
<1>6. q = IF r.test = Len(Tests[r.file]) THEN [r EXCEPT !.at = "exit"] ELSE BeginTest(r2)
  BY DEF TestEnds
<1>. HIDE DEF b, r
<1>7. r = [at |-> p.at, file |-> p.file, seed |-> p.seed, test |-> p.test, plan |-> p.plan,
           cache |-> p.cache, name |-> <<>>, text |-> p.text, bad |-> b]
  BY <1>1, <1>5 DEF IsWorker
<1>8. r2 = [at |-> p.at, file |-> p.file, seed |-> p.seed, test |-> p.test + 1, plan |-> p.plan,
            cache |-> p.cache, name |-> <<>>, text |-> p.text, bad |-> b]
  BY <1>7
<1>. HIDE DEF r2
<1>9. /\ q.at \in {"look", "exit"} /\ WorkerOk(q, files, seeds, ver) /\ q.cache = p.cache
      /\ q.file = p.file /\ q.seed = p.seed /\ q.bad = b /\ Through(q) = p.test
  <2>1. CASE p.test = Len(Tests[p.file])
    <3>1. q = [r EXCEPT !.at = "exit"] BY <1>6, <1>7, <2>1
    <3>2. q = [at |-> "exit", file |-> p.file, seed |-> p.seed, test |-> p.test, plan |-> p.plan,
               cache |-> p.cache, name |-> <<>>, text |-> p.text, bad |-> b]
      BY <1>7, <3>1
    <3>3. /\ q.at = "exit" /\ q.file = p.file /\ q.seed = p.seed /\ q.test = p.test
          /\ q.cache = p.cache /\ (q.bad <=> b) /\ q.bad = b /\ IsWorker(q)
      BY <3>2 DEF IsWorker
    <3>4. q.bad \in BOOLEAN BY <1>4, <3>3
    <3>5. WorkerOk(q, files, seeds, ver) BY <1>1, <3>3, <3>4 DEF WorkerOk, Busy, Building
    <3>6. Through(q) = p.test BY <2>1, <3>3 DEF Through
    <3>. QED BY <3>3, <3>5, <3>6
  <2>2. CASE p.test # Len(Tests[p.file])
    <3>1. q = BeginTest(r2) BY <1>6, <1>7, <2>2
    <3>2. /\ r2.file = p.file /\ r2.seed = p.seed /\ r2.test = p.test + 1
          /\ r2.cache = p.cache /\ (r2.bad <=> b) /\ r2.bad = b /\ IsWorker(r2)
      BY <1>8 DEF IsWorker
    <3>3. r2.bad \in BOOLEAN BY <1>4, <3>2
    <3>4. p.test + 1 \in 1 .. Len(Tests[p.file]) BY <1>1, <1>3, <2>2
    <3>5. CacheOk(r2, ver) BY <1>1, <3>2 DEF CacheOk
    <3>6. r2.test \in 1 .. Len(Tests[r2.file]) BY <3>2, <3>4
    <3>7. r2.file \in Range(files) /\ r2.seed = seeds[r2.file] BY <1>1, <3>2
    <3>8. /\ WorkerOk(q, files, seeds, ver) /\ q.at = "look" /\ q.cache = r2.cache
          /\ q.file = r2.file /\ q.seed = r2.seed /\ q.test = r2.test /\ q.bad = r2.bad
      BY <3>1, <3>2, <3>3, <3>5, <3>6, <3>7, BeginTestIs
    <3>9. p.test \in Int BY <1>1
    <3>10. Through(q) = p.test BY <3>2, <3>8, <3>9 DEF Through
    <3>. QED BY <3>2, <3>8, <3>10
  <2>. QED BY <2>1, <2>2
<1>10. Through(p) = p.test - 1 /\ p.at # "free" BY DEF Through, Busy, Building
<1> DEFINE now == <<ContentIn(ver, TestAt(p)), p.seed>> \in Fails
           before == FailsBy(p.file, p.seed, p.test - 1, ver)
           after == FailsBy(p.file, p.seed, p.test, ver)
<1>11. (after <=> before \/ now) /\ after \in BOOLEAN /\ before \in BOOLEAN
  <2>1. p.test \in Nat \ {0} BY <1>1, <1>3
  <2>2. \A j : j \in 1 .. p.test <=> (j \in 1 .. p.test - 1 \/ j = p.test) BY <2>1
  <2>. QED BY <2>2 DEF FailsBy, TestAt
<1>12. /\ before => p.bad
       /\ p.bad => before \/ p.file \in killed \/ Spoiled(p.file, ver, tn)
  BY <1>10 DEF VerdictOk
<1>13. (ok => ~now) /\ (~ok => now \/ Spoiled(p.file, ver, tn)) OBVIOUS
<1>. HIDE DEF now, before, after
<1>20. (after => b) /\ (b => after \/ p.file \in killed \/ Spoiled(p.file, ver, tn))
  BY <1>1, <1>11, <1>12, <1>13 DEF b
<1>15. FailsBy(q.file, q.seed, Through(q), ver) = after BY <1>9 DEF after
<1>16. VerdictOk(q, killed, ver, tn)
  BY <1>9, <1>20, <1>15 DEF VerdictOk
<1>17. \A n \in Held(q) : n \in Held(p)
  BY <1>9 DEF Held
<1>. QED BY <1>9, <1>16, <1>17

-----------------------------------------------------------------------------
(* Every step keeps the invariant.                                         *)
LEMMA Parts ==
    ASSUME RunsInv, NEW w \in Workers
    PROVE  /\ FilesOk(session) /\ DOMAIN proc = Workers
           /\ LibrariesOk(proc, disk, sources, tainted)
           /\ OneBuilder(proc, tainted) /\ DiskOk(proc, disk, tainted)
           /\ HandsOk(w, proc[w], disk, sources, tainted)
           /\ ResultsOk(session, version, tainted)
           /\ WorkerOk(proc[w], session.files, session.seeds, version)
           /\ VerdictOk(proc[w], session.killed, version, tainted)
           /\ IsWorker(proc[w])
           /\ session.files \in Seq(DOMAIN Tests)
<1>1. FilesOk(session) /\ LibrariesOk(proc, disk, sources, tainted) BY DEF RunsInv
<1>2. session.files \in Seq(DOMAIN Tests)
  <2>1. session.files = <<>> \/ session.files \in Paths BY <1>1 DEF FilesOk
  <2>2. <<>> \in Seq(DOMAIN Tests) OBVIOUS
  <2>. QED BY <2>1, <2>2, TestRunsAssumption
<1>. QED BY <1>1, <1>2 DEF RunsInv, LibrariesOk, WorkersOk, WorkerOk

(* What a step of one worker has to show.                                  *)
LEMMA WorkerSteps ==
    ASSUME RunsInv, NEW w \in Workers, NEW q,
           proc' = [proc EXCEPT ![w] = q], version' = version, record' = record, last' = last,
           session'.files = session.files, session'.seeds = session.seeds,
           session'.seed = session.seed, session.killed \subseteq session'.killed,
           tainted \subseteq tainted', FilesOk(session'),
           WorkerOk(q, session.files, session.seeds, version),
           VerdictOk(q, session'.killed, version, tainted'),
           LibrariesOk(proc', disk', sources', tainted'),
           ResultsOk(session', version, tainted')
    PROVE  RunsInv'
<1>1. proc'[w] = q /\ (\A v \in Workers \ {w} : proc'[v] = proc[v]) /\ DOMAIN proc' = Workers
  BY Parts
<1>2. ASSUME NEW v \in Workers
      PROVE  /\ WorkerOk(proc'[v], session'.files, session'.seeds, version')
             /\ VerdictOk(proc'[v], session'.killed, version', tainted')
  <2>1. CASE v = w BY <1>1, <2>1
  <2>2. CASE v # w
    <3>1. /\ WorkerOk(proc[v], session.files, session.seeds, version)
          /\ VerdictOk(proc[v], session.killed, version, tainted)
      BY Parts
    <3>2. VerdictOk(proc[v], session'.killed, version, tainted') BY <3>1, MoreExcuses
    <3>. QED BY <1>1, <2>2, <3>1, <3>2
  <2>. QED BY <2>1, <2>2
<1>3. WorkersOk(proc', session', version', tainted') BY <1>1, <1>2 DEF WorkersOk
<1>4. SeedsKept(session', record') BY DEF RunsInv, SeedsKept
<1>5. LastOk(last', record', tainted')
  <2>1. LastOk(last, record, tainted) BY DEF RunsInv
  <2>. QED BY <2>1, MoreLast
<1>. QED BY <1>3, <1>4, <1>5 DEF RunsInv

(* The steps that the session does not see.                                *)
LEMMA QuietSteps ==
    ASSUME RunsInv, NEW w \in Workers, NEW q,
           proc' = [proc EXCEPT ![w] = q],
           UNCHANGED <<version, session, record, last>>, tainted \subseteq tainted',
           WorkerOk(q, session.files, session.seeds, version),
           VerdictOk(q, session.killed, version, tainted'),
           LibrariesOk(proc', disk', sources', tainted')
    PROVE  RunsInv'
<1>1. FilesOk(session) /\ ResultsOk(session, version, tainted) BY Parts
<1>2. ResultsOk(session', version, tainted') BY <1>1, MoreResults
<1>3. FilesOk(session') BY <1>1
<1>. QED BY <1>2, <1>3, WorkerSteps

\* What a busy worker is busy with.
LEMMA BusyIs ==
    ASSUME RunsInv, NEW w \in Workers, proc[w].at \in Busy
    PROVE  LET p == proc[w] t == TestAt(p) IN
           /\ PlanOk(p, version) /\ CacheOk(p, version) /\ t = TestOf(w)
           /\ p.file \in DOMAIN Tests /\ p.file \in Range(session.files)
           /\ t \in Range(Tests[p.file]) /\ t.way \in {"flat", "hier", "cysim"}
           /\ Head(p.plan) \in Range(PlanOf(t)) /\ p.at # "free"
<1> DEFINE p == proc[w]
           t == TestAt(p)
<1>1. /\ PlanOk(p, version) /\ CacheOk(p, version) /\ t = TestOf(w)
      /\ p.file \in Range(session.files) /\ p.test \in 1 .. Len(Tests[p.file])
      /\ session.files \in Seq(DOMAIN Tests) /\ p.at # "free"
  BY Parts DEF WorkerOk, Busy, Building, TestAt, TestOf
<1>2. p.file \in DOMAIN Tests BY <1>1 DEF Range
<1>3. t \in Range(Tests[p.file]) /\ t.way \in {"flat", "hier", "cysim"}
  BY <1>1, <1>2, TestsAre DEF TestAt
<1>4. p.plan \in {PlanOf(t), Final(t)} BY <1>1 DEF PlanOk
<1>5. Head(p.plan) \in Range(PlanOf(t))
  <2>. HIDE DEF t
  <2>1. t.way \in {"flat", "hier", "cysim"} BY <1>3
  <2>. QED BY <1>4, <2>1, Plans
<1>. QED BY <1>1, <1>2, <1>3, <1>5

\* A new state of the worker that leaves the test undecided.
LEMMA StillUndecided ==
    ASSUME NEW p, NEW q, NEW killed, NEW ver, NEW tn, NEW tn2, tn \subseteq tn2,
           VerdictOk(p, killed, ver, tn), p.at \in Busy, q.at \in Busy,
           q.file = p.file, q.seed = p.seed, q.test = p.test, q.bad = p.bad
    PROVE  VerdictOk(q, killed, ver, tn2)
<1>1. VerdictOk(p, killed, ver, tn2) BY MoreExcuses
<1>2. Through(q) = Through(p) /\ p.at # "free" BY DEF Through, Busy, Building
<1>. QED BY <1>1, <1>2 DEF VerdictOk

LEMMA GotIs ==
    ASSUME RunsInv, NEW w \in Workers, proc[w].at \in Busy, proc[w].at # "load",
           NEW name, name = LibName(Head(proc[w].plan), TestOf(w)),
           NEW key, key = CompileKey(Head(proc[w].plan), TestOf(w)),
           NEW q, q = Got(w, key, name)
    PROVE  /\ WorkerOk(q, session.files, session.seeds, version)
           /\ q.at \in {"look", "load"} /\ q.at \in Busy /\ q.at \notin Building
           /\ \A n \in Held(q) : n = name \/ n \in Held(proc[w])
           /\ \A tn : tainted \subseteq tn => VerdictOk(q, session.killed, version, tn)
<1> DEFINE p == proc[w]
           t == TestAt(p)
           files == session.files
           seeds == session.seeds
           ver == version
           rest == IF Len(p.plan) > 1 THEN Tail(p.plan) ELSE p.plan
<1>0. /\ files \in Seq(DOMAIN Tests) /\ WorkerOk(p, files, seeds, ver)
      /\ VerdictOk(p, session.killed, ver, tainted)
  BY Parts
<1>15. TestOf(w) = t BY DEF TestOf, TestAt
<1>16. name = NameIn(ver, Head(p.plan), t) /\ key = KeyIn(ver, Head(p.plan), t)
  BY <1>15, NamesNow
<1>1. /\ IsWorker(p) /\ p.bad \in BOOLEAN /\ p.file \in Range(files) /\ p.seed = seeds[p.file]
      /\ p.test \in 1 .. Len(Tests[p.file]) /\ PlanOk(p, ver) /\ CacheOk(p, ver)
  BY <1>0 DEF WorkerOk, Busy, Building
<1>2. p.file \in DOMAIN Tests BY <1>0, <1>1 DEF Range
<1>3. t \in Range(Tests[p.file]) /\ t.way \in {"flat", "hier", "cysim"}
  BY <1>1, <1>2, TestsAre DEF TestAt
<1>4. p.plan \in {PlanOf(t), Final(t)} BY <1>1 DEF PlanOk
<1>5. /\ Head(p.plan) \in Range(PlanOf(t))
      /\ Len(p.plan) > 1 => Tail(p.plan) = Final(t)
      /\ ~(Len(p.plan) > 1) => p.plan = Final(t)
  <2>1. \A x \in {PlanOf(t), Final(t)} :
          /\ Head(x) \in Range(PlanOf(t))
          /\ Len(x) > 1 => Tail(x) = Final(t)
          /\ ~(Len(x) > 1) => x = Final(t)
    <3>. HIDE DEF t
    <3>1. t.way \in {"flat", "hier", "cysim"} BY <1>3
    <3>. QED BY <3>1, Plans
  <2>. QED BY <1>4, <2>1
<1>6. q = [at |-> IF Len(p.plan) > 1 THEN "look" ELSE "load", file |-> p.file, seed |-> p.seed,
           test |-> p.test, plan |-> rest,
           cache |-> Put(p.cache, key, name), name |-> name, text |-> p.text, bad |-> p.bad]
  BY <1>1 DEF Got, IsWorker
<1>7. q.plan = Final(t)
  <2>1. rest = Final(t) BY <1>5
  <2>. HIDE DEF rest, t
  <2>2. q.plan = rest BY <1>6
  <2>. QED BY <2>1, <2>2
<1>8. /\ q.at = IF Len(p.plan) > 1 THEN "look" ELSE "load"
      /\ q.file = p.file /\ q.seed = p.seed /\ q.test = p.test /\ q.bad = p.bad
      /\ q.name = name /\ q.cache = Put(p.cache, key, name) /\ IsWorker(q)
  BY <1>6 DEF IsWorker
<1>. DEFINE c == p.cache
<1>14. /\ DOMAIN q.cache = DOMAIN c \cup {key} /\ q.cache[key] = name
       /\ \A z \in DOMAIN c : z # key => q.cache[z] = c[z]
  <2>. DEFINE d == q.cache
  <2>1. d = Put(c, key, name) BY <1>8 DEF c
  <2>. HIDE DEF c, d
  <2>2. /\ DOMAIN d = DOMAIN c \cup {key} /\ d[key] = name
        /\ \A z \in DOMAIN c : z # key => d[z] = c[z]
    BY <2>1 DEF Put
  <2>. QED BY <2>2 DEF d
<1>9. TestAt(q) = t BY <1>8 DEF TestAt
<1>10. PlanOk(q, ver)
  <2>1. q.at = "load" => q.name = NameIn(ver, Head(q.plan), TestAt(q))
    BY <1>5, <1>7, <1>8, <1>9, <1>16
  <2>2. q.at \in {"look", "load"} BY <1>8
  <2>. QED BY <1>7, <1>9, <2>1, <2>2 DEF PlanOk, Building
<1>11. CacheOk(q, ver)
  <2> SUFFICES ASSUME NEW x \in DOMAIN q.cache
               PROVE  \E u \in Range(Tests[p.file]) : \E k \in Range(PlanOf(u)) :
                        x = KeyIn(ver, k, u) /\ q.cache[x] = NameIn(ver, k, u)
    BY <1>8 DEF CacheOk
  <2>1. CASE x = key
    <3>1. q.cache[x] = name BY <1>14, <2>1
    <3>. QED BY <1>3, <1>5, <1>16, <2>1, <3>1
  <2>2. CASE x # key
    <3>1. x \in DOMAIN p.cache /\ q.cache[x] = p.cache[x] BY <1>14, <2>2
    <3>. QED BY <1>1, <3>1 DEF CacheOk
  <2>. QED BY <2>1, <2>2
<1>12. WorkerOk(q, files, seeds, ver)
  BY <1>1, <1>8, <1>10, <1>11 DEF WorkerOk, Busy
<1>13. \A n \in Held(q) : n = name \/ n \in Held(p)
  <2> SUFFICES ASSUME NEW n \in Held(q), n # name PROVE n \in Held(p)
    OBVIOUS
  <2>1. PICK x \in DOMAIN q.cache : n = q.cache[x] BY <1>8 DEF Held
  <2>2. x \in DOMAIN p.cache /\ q.cache[x] = p.cache[x] BY <1>14, <2>1
  <2>. QED BY <2>1, <2>2 DEF Held
<1>17. q.at \in {"look", "load"} /\ q.at \in Busy /\ q.at \notin Building
  BY <1>8 DEF Busy, Building
<1>18. \A tn : tainted \subseteq tn => VerdictOk(q, session.killed, ver, tn)
  <2>. HIDE DEF p
  <2>1. p.at \in Busy BY DEF p
  <2>. QED BY <1>0, <1>8, <1>17, <2>1, StillUndecided
<1>. QED BY <1>12, <1>13, <1>17, <1>18

LEMMA LookUpLibraryKeeps ==
    ASSUME OneModelPerClass, RunsInv, NEW w \in Workers, LookUpLibrary(w)
    PROVE  RunsInv'
<1> DEFINE p == proc[w]
           t == TestOf(w)
           kind == Head(p.plan)
           key == CompileKey(kind, t)
           name == LibName(kind, t)
           known == key \in DOMAIN p.cache /\ kind # "cysim"
           there == name \in DOMAIN disk
           files == session.files
           seeds == session.seeds
<1>1. p.at = "look" /\ p.at \in Busy /\ p.at \notin Building
  BY DEF LookUpLibrary, Busy, Building
<1>2. /\ PlanOk(p, version) /\ CacheOk(p, version) /\ t = TestAt(p)
      /\ p.file \in DOMAIN Tests /\ t \in Range(Tests[p.file]) /\ kind \in Range(PlanOf(t))
  BY <1>1, BusyIs
<1>3. /\ files \in Seq(DOMAIN Tests) /\ WorkerOk(p, files, seeds, version)
      /\ VerdictOk(p, session.killed, version, tainted) /\ IsWorker(p)
      /\ LibrariesOk(proc, disk, sources, tainted) /\ DOMAIN proc = Workers
      /\ HandsOk(w, p, disk, sources, tainted) /\ DiskOk(proc, disk, tainted)
  BY Parts
<1>4. name = NameIn(version, kind, t) /\ key = KeyIn(version, kind, t) BY NamesNow
<1>5. /\ tainted \subseteq tainted'
      /\ \A v \in Workers \ {w} : proc[v].at \in Building /\ proc[v].name = name => name \in tainted'
      /\ UNCHANGED <<version, disk, session, record, last>>
  BY <1>3 DEF LookUpLibrary, Builds, Building, KindOf
<1>6. CASE /\ known \/ there
           /\ proc' = [proc EXCEPT ![w] = Got(w, key, IF known THEN p.cache[key] ELSE name)]
           /\ UNCHANGED sources
  <2>1. known => p.cache[key] = name
    <3> SUFFICES ASSUME known PROVE p.cache[key] = name OBVIOUS
    <3>4. PICK u \in Range(Tests[p.file]) : \E j \in Range(PlanOf(u)) :
            key = KeyIn(version, j, u) /\ p.cache[key] = NameIn(version, j, u)
      BY <1>2 DEF CacheOk
    <3>1. PICK j \in Range(PlanOf(u)) :
            key = KeyIn(version, j, u) /\ p.cache[key] = NameIn(version, j, u)
      BY <3>4
    <3>2. KeyIn(version, kind, t) = KeyIn(version, j, u) BY <1>4, <3>1
    <3>3. NameIn(version, kind, t) = NameIn(version, j, u)
      <4>. HIDE DEF kind, t
      <4>. QED BY <1>2, <3>2, KeysTell
    <3>. QED BY <1>4, <3>1, <3>3
  <2> DEFINE q == Got(w, key, name)
  <2>2. proc' = [proc EXCEPT ![w] = q] BY <1>6, <2>1
  <2>3. /\ WorkerOk(q, files, seeds, version) /\ q.at \in Busy /\ q.at \notin Building
        /\ \A n \in Held(q) : n = name \/ n \in Held(p)
        /\ VerdictOk(q, session.killed, version, tainted')
    <3>1. p.at # "load" BY <1>1
    <3>. QED BY <1>1, <1>5, <3>1, GotIs
  <2>. HIDE DEF q
  <2>6. \A n \in Held(p) : InPlace(n, disk, tainted') BY <1>1, <1>3, <1>5 DEF HandsOk, InPlace
  <2>7. InPlace(name, disk, tainted')
    <3>1. CASE known
      <4>1. name \in Held(p) BY <2>1, <3>1 DEF Held
      <4>. QED BY <2>6, <4>1
    <3>2. CASE there
      <4>1. \/ name \in tainted \/ disk[name].state = "whole"
            \/ \E v \in Workers : proc[v].at = "cc" /\ proc[v].name = name
        BY <1>3, <3>2 DEF DiskOk
      <4>2. ASSUME NEW v \in Workers, proc[v].at = "cc", proc[v].name = name
            PROVE  name \in tainted'
        BY <1>1, <1>5, <4>2 DEF Building
      <4>. QED BY <1>5, <3>2, <4>1, <4>2 DEF InPlace
    <3>. QED BY <1>6, <3>1, <3>2
  <2>8. \A n \in Held(q) : InPlace(n, disk, tainted') BY <2>3, <2>6, <2>7
  <2>9. LibrariesOk([proc EXCEPT ![w] = q], disk, sources, tainted')
    BY <1>1, <1>3, <1>5, <2>3, <2>8, LibrariesQuiet
  <2>10. LibrariesOk(proc', disk', sources', tainted') BY <1>5, <1>6, <2>2, <2>9
  <2>. QED BY <1>5, <2>2, <2>3, <2>10, QuietSteps
<1>7. ASSUME NEW at, NEW src2, ~known, ~there,
             \/ kind = "cysim" /\ at = "read" /\ src2 = sources
             \/ kind # "cysim" /\ at = "write" /\ src2 = Put(sources, name, "torn"),
             proc' = [proc EXCEPT ![w] =
                        [proc[w] EXCEPT !.at = at, !.name = name, !.text = "whole"]],
             sources' = src2
      PROVE  RunsInv'
  <2> DEFINE q == [p EXCEPT !.at = at, !.name = name, !.text = "whole"]
  <2>1. q = [at |-> at, file |-> p.file, seed |-> p.seed, test |-> p.test, plan |-> p.plan,
             cache |-> p.cache, name |-> name, text |-> "whole", bad |-> p.bad]
    <3>1. IsWorker(p) BY <1>3
    <3> DEFINE q1 == [p EXCEPT !.at = at]
               q2 == [q1 EXCEPT !.name = name]
    <3>. HIDE DEF p, name
    <3>2. q1 = [at |-> at, file |-> p.file, seed |-> p.seed, test |-> p.test, plan |-> p.plan,
                cache |-> p.cache, name |-> p.name, text |-> p.text, bad |-> p.bad]
      BY <3>1 DEF IsWorker
    <3>3. q = [q2 EXCEPT !.text = "whole"] OBVIOUS
    <3>. HIDE DEF q1
    <3>4. q2 = [at |-> at, file |-> p.file, seed |-> p.seed, test |-> p.test, plan |-> p.plan,
                cache |-> p.cache, name |-> name, text |-> p.text, bad |-> p.bad]
      BY <3>2
    <3>. HIDE DEF q2, q
    <3>. QED BY <3>3, <3>4
  <2>2. proc' = [proc EXCEPT ![w] = q] BY <1>7
  <2>. HIDE DEF q
  <2>3. /\ q.at = at /\ q.file = p.file /\ q.seed = p.seed /\ q.test = p.test /\ q.plan = p.plan
        /\ q.cache = p.cache /\ q.name = name /\ q.bad = p.bad /\ IsWorker(q)
    BY <2>1 DEF IsWorker
  <2>4. q.at \in Building /\ q.at \in Busy /\ q.at # "cc" /\ q.at # "load"
    BY <1>7, <2>3 DEF Busy, Building
  <2>5. TestAt(q) = t BY <1>2, <2>3 DEF TestAt
  <2>6. PlanOk(q, version)
    <3>1. q.plan \in {PlanOf(t), Final(t)} BY <1>2, <2>3 DEF PlanOk
    <3>2. q.at = "write" => Head(q.plan) # "cysim" BY <1>7, <2>3
    <3>3. q.name = NameIn(version, Head(q.plan), t) BY <1>4, <2>3
    <3>. HIDE DEF t
    <3>. QED BY <2>4, <2>5, <3>1, <3>2, <3>3 DEF PlanOk
  <2>7. CacheOk(q, version) BY <1>2, <2>3 DEF CacheOk
  <2>8. WorkerOk(q, files, seeds, version)
    <3>1. /\ p.bad \in BOOLEAN /\ p.file \in Range(files) /\ p.seed = seeds[p.file]
          /\ p.test \in 1 .. Len(Tests[p.file])
      BY <1>1, <1>3 DEF WorkerOk
    <3>. QED BY <2>3, <2>4, <2>6, <2>7, <3>1 DEF WorkerOk
  <2>9. VerdictOk(q, session.killed, version, tainted')
    <3>. HIDE DEF p
    <3>. QED BY <1>1, <1>3, <1>5, <2>3, <2>4, StillUndecided
  <2>10. \A n \in Held(q) : n \in Held(p) BY <2>3, <2>4 DEF Held
  <2>11. \A n \in Held(p) : InPlace(n, disk, tainted') BY <1>1, <1>3, <1>5 DEF HandsOk, InPlace
  <2>12. HandsOk(w, q, disk, src2, tainted')
    <3>1. Head(q.plan) # "cysim" => name \in DOMAIN src2 BY <1>7, <2>3 DEF Put
    <3>2. q.at = "read" => Head(q.plan) = "cysim" BY <1>7, <2>3
    <3>3. q.name \notin DOMAIN disk BY <1>7, <2>3
    <3>. HIDE DEF name, kind
    <3>. QED BY <2>3, <2>4, <2>10, <2>11, <3>1, <3>2, <3>3 DEF HandsOk
  <2>13. SameBut(disk, disk, name) /\ SameBut(sources, src2, name)
         /\ DOMAIN sources \subseteq DOMAIN src2
    <3>. HIDE DEF name
    <3>. QED BY <1>7 DEF SameBut, Put
  <2>14. LibrariesOk([proc EXCEPT ![w] = q], disk, src2, tainted')
    <3>1. InPlace(name, disk, tainted) => InPlace(name, disk, tainted') BY <1>5 DEF InPlace
    <3>2. name \notin DOMAIN disk BY <1>7
    <3>3. proc[w].at # "cc" BY <1>1
    <3>. HIDE DEF name
    <3>. QED BY <1>3, <1>5, <2>3, <2>12, <2>13, <3>1, <3>2, <3>3, LibrariesKept
  <2>15. LibrariesOk(proc', disk', sources', tainted') BY <1>5, <1>7, <2>2, <2>14
  <2>. QED BY <1>5, <2>2, <2>8, <2>9, <2>15, QuietSteps
<1>8. \/ /\ known \/ there
         /\ proc' = [proc EXCEPT ![w] = Got(w, key, IF known THEN p.cache[key] ELSE name)]
         /\ UNCHANGED sources
      \/ /\ ~known /\ ~there /\ kind = "cysim" /\ UNCHANGED sources
         /\ proc' = [proc EXCEPT ![w] =
                     [proc[w] EXCEPT !.at = "read", !.name = name, !.text = "whole"]]
      \/ /\ ~known /\ ~there /\ kind # "cysim" /\ sources' = Put(sources, name, "torn")
         /\ proc' = [proc EXCEPT ![w] =
                     [proc[w] EXCEPT !.at = "write", !.name = name, !.text = "whole"]]
  BY DEF LookUpLibrary, KindOf
<1>. HIDE DEF known, there, name, key, kind
<1>9. ASSUME ~known, ~there, kind = "cysim", UNCHANGED sources,
             proc' = [proc EXCEPT ![w] =
                     [proc[w] EXCEPT !.at = "read", !.name = name, !.text = "whole"]]
      PROVE  RunsInv'
  BY <1>7, <1>9
<1>10. ASSUME ~known, ~there, kind # "cysim", sources' = Put(sources, name, "torn"),
              proc' = [proc EXCEPT ![w] =
                     [proc[w] EXCEPT !.at = "write", !.name = name, !.text = "whole"]]
       PROVE  RunsInv'
  BY <1>7, <1>10
<1>. QED BY <1>6, <1>8, <1>9, <1>10

\* The next place of a worker that goes on with the same library.
Turned(p, at, text) == [p EXCEPT !.at = at, !.text = text]

LEMMA GoesOn ==
    ASSUME RunsInv, NEW w \in Workers, proc[w].at \in Building,
           NEW at \in {"read", "cc"}, NEW text,
           NEW q, q = Turned(proc[w], at, text)
    PROVE  /\ WorkerOk(q, session.files, session.seeds, version)
           /\ VerdictOk(q, session.killed, version, tainted)
           /\ q.at = at /\ q.name = proc[w].name /\ q.text = text /\ q.plan = proc[w].plan
           /\ \A n \in Held(q) : n \in Held(proc[w])
<1> DEFINE p == proc[w]
<1>1. /\ IsWorker(p) /\ WorkerOk(p, session.files, session.seeds, version)
      /\ VerdictOk(p, session.killed, version, tainted)
  BY Parts
<1>2. q = [at |-> at, file |-> p.file, seed |-> p.seed, test |-> p.test, plan |-> p.plan,
           cache |-> p.cache, name |-> p.name, text |-> text, bad |-> p.bad]
  BY <1>1 DEF IsWorker, Turned
<1>3. /\ q.at = at /\ q.file = p.file /\ q.seed = p.seed /\ q.test = p.test /\ q.plan = p.plan
      /\ q.cache = p.cache /\ q.name = p.name /\ q.text = text /\ q.bad = p.bad /\ IsWorker(q)
  BY <1>2 DEF IsWorker
<1>4. p.at \in Busy /\ q.at \in Busy /\ q.at \in Building /\ q.at # "load" /\ q.at # "write"
  BY <1>3 DEF Busy, Building
<1>5. /\ PlanOk(p, version) /\ CacheOk(p, version) /\ p.bad \in BOOLEAN
      /\ p.file \in Range(session.files) /\ p.seed = session.seeds[p.file]
      /\ p.test \in 1 .. Len(Tests[p.file])
  BY <1>1, <1>4 DEF WorkerOk, Busy, Building
<1>6. TestAt(q) = TestAt(p) BY <1>3 DEF TestAt
<1>7. PlanOk(q, version)
  <2>1. p.plan \in {PlanOf(TestAt(p)), Final(TestAt(p))} BY <1>5 DEF PlanOk
  <2>2. p.name = NameIn(version, Head(p.plan), TestAt(p)) BY <1>5 DEF PlanOk
  <2>3. q.plan \in {PlanOf(TestAt(q)), Final(TestAt(q))} BY <1>3, <1>6, <2>1
  <2>4. q.name = NameIn(version, Head(q.plan), TestAt(q)) BY <1>3, <1>6, <2>2
  <2>. QED BY <1>4, <2>3, <2>4 DEF PlanOk
<1>8. CacheOk(q, version) BY <1>3, <1>5 DEF CacheOk
<1>9. WorkerOk(q, session.files, session.seeds, version)
  BY <1>3, <1>4, <1>5, <1>7, <1>8 DEF WorkerOk
<1>10. VerdictOk(q, session.killed, version, tainted)
  <2>. HIDE DEF p
  <2>. QED BY <1>1, <1>3, <1>4, StillUndecided
<1>11. \A n \in Held(q) : n \in Held(p) BY <1>3, <1>4 DEF Held
<1>. QED BY <1>3, <1>9, <1>10, <1>11

\* Who else builds what an untainted builder builds?
LEMMA OthersAreTainted ==
    ASSUME RunsInv, NEW w \in Workers, proc[w].at \in Building
    PROVE  \A v \in Workers \ {w} :
             proc[v].at \in Building /\ proc[v].name = proc[w].name => proc[w].name \in tainted
  BY Parts DEF OneBuilder

LEMMA WriteSourceKeeps ==
    ASSUME RunsInv, NEW w \in Workers, WriteSource(w)
    PROVE  RunsInv'
<1> DEFINE p == proc[w]
           name == p.name
           q == Turned(proc[w], "read", proc[w].text)
<1>1. p.at = "write" /\ p.at \in Building /\ p.at \in Busy BY DEF WriteSource, Building, Busy
<1>2. /\ IsWorker(p) /\ DOMAIN proc = Workers /\ LibrariesOk(proc, disk, sources, tainted)
      /\ HandsOk(w, p, disk, sources, tainted) /\ DiskOk(proc, disk, tainted)
  BY Parts
<1>3. proc' = [proc EXCEPT ![w] = q]
  <2>1. [p EXCEPT !.at = "read"] = q
    <3>. HIDE DEF p
    <3>. QED BY <1>2 DEF IsWorker, Turned, p
  <2>. QED BY <1>2, <2>1 DEF WriteSource
<1>4. /\ WorkerOk(q, session.files, session.seeds, version)
      /\ VerdictOk(q, session.killed, version, tainted)
      /\ q.at = "read" /\ q.name = name /\ q.plan = p.plan
      /\ \A n \in Held(q) : n \in Held(p)
  <2> DEFINE text == p.text
  <2>1. q = Turned(proc[w], "read", text) OBVIOUS
  <2>. HIDE DEF text, q
  <2>. QED BY <1>1, <2>1, GoesOn
<1>. HIDE DEF q
<1>5. name \in DOMAIN sources /\ Head(p.plan) # "cysim"
  <2>1. Head(p.plan) # "cysim" BY <1>1, BusyIs DEF PlanOk
  <2>. QED BY <1>1, <1>2, <2>1 DEF HandsOk
<1>6. /\ sources' = [sources EXCEPT ![name] = "whole"]
      /\ UNCHANGED <<version, disk, session, record, last, tainted>>
  BY DEF WriteSource
<1>7. /\ DOMAIN sources' = DOMAIN sources /\ sources'[name] = "whole"
      /\ SameBut(sources, sources', name) /\ SameBut(disk, disk, name)
  <2>. HIDE DEF name
  <2>. QED BY <1>5, <1>6 DEF SameBut
<1>8. \A v \in Workers \ {w} : proc[v].at \in Building /\ proc[v].name = name => name \in tainted
  BY <1>1, OthersAreTainted
<1>9. HandsOk(w, q, disk, sources', tainted)
  <2>1. name \in tainted \/ name \notin DOMAIN disk BY <1>1, <1>2 DEF HandsOk
  <2>2. \A n \in Held(q) : InPlace(n, disk, tainted) BY <1>1, <1>2, <1>4 DEF HandsOk
  <2>. HIDE DEF name
  <2>. QED BY <1>4, <1>5, <1>7, <2>1, <2>2 DEF HandsOk
<1>10. name \in DOMAIN disk => /\ IsLibrary(disk[name]) /\ disk[name].content = name[3]
                               /\ name \in tainted
  BY <1>1, <1>2 DEF DiskOk, HandsOk
<1>11. LibrariesOk([proc EXCEPT ![w] = q], disk, sources', tainted)
  <2>1. p.at # "cc" /\ q.name = name BY <1>1, <1>4
  <2>. HIDE DEF name
  <2>. QED BY <1>2, <1>7, <1>8, <1>9, <1>10, <2>1, LibrariesKept
<1>12. LibrariesOk(proc', disk', sources', tainted') BY <1>3, <1>6, <1>11
<1>. QED BY <1>3, <1>4, <1>6, <1>12, QuietSteps

LEMMA StartCompilerKeeps ==
    ASSUME RunsInv, NEW w \in Workers, StartCompiler(w)
    PROVE  RunsInv'
<1> DEFINE p == proc[w]
           name == p.name
           text == IF KindOf(w) = "cysim" THEN "whole" ELSE sources[name]
           q == Turned(proc[w], "cc", text)
           new == [by |-> w, state |-> "partial", content |-> ContentOf(TestOf(w))]
<1>1. p.at = "read" /\ p.at \in Building /\ p.at \in Busy BY DEF StartCompiler, Building, Busy
<1>2. /\ DOMAIN proc = Workers /\ LibrariesOk(proc, disk, sources, tainted)
      /\ HandsOk(w, p, disk, sources, tainted)
  BY Parts
<1>3. /\ proc' = [proc EXCEPT ![w] = q] /\ disk' = Put(disk, name, new)
      /\ UNCHANGED <<version, sources, session, record, last, tainted>>
  BY <1>2 DEF StartCompiler, Turned
<1>4. /\ WorkerOk(q, session.files, session.seeds, version)
      /\ VerdictOk(q, session.killed, version, tainted)
      /\ q.at = "cc" /\ q.name = name /\ q.text = text /\ q.plan = p.plan
      /\ \A n \in Held(q) : n \in Held(p)
  <2>1. q = Turned(proc[w], "cc", text) OBVIOUS
  <2>. HIDE DEF text, q
  <2>. QED BY <1>1, <2>1, GoesOn
<1>. HIDE DEF q
<1>5. name \in tainted \/ (name \notin DOMAIN disk /\ text = "whole")
  BY <1>1, <1>2 DEF HandsOk, KindOf
<1>6. name[3] = ContentOf(TestOf(w))
  <2>1. name = NameIn(version, Head(p.plan), TestOf(w)) BY <1>1, BusyIs DEF PlanOk
  <2>. QED BY <2>1, NamesNow DEF NameIn
<1>7. /\ name \in DOMAIN disk' /\ SameBut(sources, sources, name)
      /\ disk'[name] = new /\ SameBut(disk, disk', name)
  <2>. HIDE DEF name, new
  <2>. QED BY <1>3 DEF SameBut, Put
<1>8. \A v \in Workers \ {w} : proc[v].at \in Building /\ proc[v].name = name => name \in tainted
  BY <1>1, OthersAreTainted
<1>9. IsLibrary(disk'[name]) /\ disk'[name].content = name[3] /\ disk'[name].by = w
  BY <1>6, <1>7 DEF IsLibrary
<1>10. \A n : InPlace(n, disk, tainted) => InPlace(n, disk', tainted)
  <2>. HIDE DEF name
  <2>. QED BY <1>5, <1>7 DEF InPlace, SameBut
<1>11. HandsOk(w, q, disk', sources, tainted)
  <2>1. \A n \in Held(q) : InPlace(n, disk', tainted) BY <1>1, <1>2, <1>4, <1>10 DEF HandsOk
  <2>. HIDE DEF name, text
  <2>. QED BY <1>4, <1>5, <1>7, <1>9, <2>1 DEF HandsOk
<1>12. LibrariesOk([proc EXCEPT ![w] = q], disk', sources, tainted)
  <2>1. p.at # "cc" BY <1>1
  <2>. HIDE DEF name
  <2>. QED BY <1>2, <1>4, <1>7, <1>8, <1>9, <1>10, <1>11, <2>1, LibrariesKept
<1>13. LibrariesOk(proc', disk', sources', tainted') BY <1>3, <1>12
<1>. QED BY <1>3, <1>4, <1>13, QuietSteps

\* The compiler is through: the library is whole, or tainted and gone perhaps.
LEMMA CompilerEnds ==
    ASSUME RunsInv, NEW w \in Workers, proc[w].at = "cc", NEW q, q.at \notin Building,
           q.at \in Busy => \A n \in Held(q) : n = proc[w].name \/ n \in Held(proc[w]),
           SameBut(disk, disk', proc[w].name),
           proc[w].name \in tainted
             \/ (proc[w].name \in DOMAIN disk' /\ disk'[proc[w].name].state = "whole"),
           proc[w].name \in DOMAIN disk' =>
             proc[w].name \in DOMAIN disk /\ IsLibrary(disk'[proc[w].name])
               /\ disk'[proc[w].name].content = disk[proc[w].name].content
    PROVE  LibrariesOk([proc EXCEPT ![w] = q], disk', sources, tainted)
<1> DEFINE name == proc[w].name
<1>1. proc[w].at \in Building /\ proc[w].at \in Busy BY DEF Building, Busy
<1>2. /\ DOMAIN proc = Workers /\ LibrariesOk(proc, disk, sources, tainted)
      /\ HandsOk(w, proc[w], disk, sources, tainted) /\ DiskOk(proc, disk, tainted)
  BY Parts
<1>3. InPlace(name, disk', tainted) BY DEF InPlace
<1>4. \A n : InPlace(n, disk, tainted) => InPlace(n, disk', tainted)
  <2>1. SameBut(disk, disk', name) OBVIOUS
  <2>. HIDE DEF name
  <2>. QED BY <1>3, <2>1 DEF InPlace, SameBut
<1>5. q.at \in Busy => \A n \in Held(q) : InPlace(n, disk', tainted)
  BY <1>1, <1>2, <1>3, <1>4 DEF HandsOk
<1>6. HandsOk(w, q, disk', sources, tainted) BY <1>5 DEF HandsOk, Building
<1>7. name \in DOMAIN disk' => /\ IsLibrary(disk'[name]) /\ disk'[name].content = name[3]
                               /\ name \in tainted \/ disk'[name].state = "whole"
  BY <1>2 DEF DiskOk
<1>8. \A v \in Workers \ {w} : proc[v].at \in Building /\ proc[v].name = name => name \in tainted
  BY <1>1, OthersAreTainted
<1>9. SameBut(disk, disk', name) /\ SameBut(sources, sources, name) BY DEF SameBut
<1>. HIDE DEF name
<1>10. proc[w].at = "cc" => proc[w].name = name BY DEF name
<1>. QED BY <1>2, <1>4, <1>6, <1>7, <1>8, <1>9, <1>10, LibrariesKept

LEMMA EndCompilerKeeps ==
    ASSUME RunsInv, NEW w \in Workers, EndCompiler(w)
    PROVE  RunsInv'
<1> DEFINE p == proc[w]
           name == p.name
           mine == name \in DOMAIN disk /\ disk[name].by = w
           done(state) == IF mine THEN [disk EXCEPT ![name].state = state, ![name].by = 0]
                          ELSE disk
           key == CompileKey(Head(p.plan), TestOf(w))
<1>1. p.at = "cc" /\ p.at \in Building /\ p.at \in Busy /\ p.at # "load"
  BY DEF EndCompiler, Building, Busy
<1>2. /\ DOMAIN proc = Workers /\ HandsOk(w, p, disk, sources, tainted)
      /\ DiskOk(proc, disk, tainted)
  BY Parts
<1>3. name \in tainted \/ (mine /\ p.text = "whole") BY <1>1, <1>2 DEF HandsOk
<1>4. name = LibName(Head(p.plan), TestOf(w))
  <2>1. name = NameIn(version, Head(p.plan), TestOf(w)) BY <1>1, BusyIs DEF PlanOk
  <2>. QED BY <2>1, NamesNow
<1>5. UNCHANGED <<version, sources, session, record, last, tainted>> BY DEF EndCompiler
<1>6. ASSUME NEW state, disk' = done(state)
      PROVE  /\ SameBut(disk, disk', name)
             /\ mine => name \in DOMAIN disk' /\ disk'[name].state = state
             /\ name \in DOMAIN disk' => /\ name \in DOMAIN disk /\ IsLibrary(disk'[name])
                                         /\ disk'[name].content = disk[name].content
  <2>1. CASE ~mine BY <1>2, <1>6, <2>1 DEF SameBut, DiskOk
  <2>2. CASE mine
    <3> DEFINE old == disk[name]
               new == [old EXCEPT !.state = state, !.by = 0]
    <3>1. IsLibrary(old) BY <1>2, <2>2 DEF DiskOk
    <3>2. new = [by |-> 0, state |-> state, content |-> old.content]
      <4> DEFINE mid == [old EXCEPT !.state = state]
      <4>. HIDE DEF old
      <4>1. mid = [by |-> old.by, state |-> state, content |-> old.content]
        BY <3>1 DEF IsLibrary
      <4>2. new = [mid EXCEPT !.by = 0] OBVIOUS
      <4>. HIDE DEF mid, new
      <4>. QED BY <4>1, <4>2
    <3>3. disk' = [disk EXCEPT ![name] = new] BY <1>6, <2>2
    <3>4. name \in DOMAIN disk BY <2>2
    <3>. HIDE DEF new, old, name
    <3>5. IsLibrary(new) /\ new.content = old.content /\ new.state = state
      BY <3>2 DEF IsLibrary
    <3>6. disk'[name] = new /\ DOMAIN disk' = DOMAIN disk /\ SameBut(disk, disk', name)
      BY <3>3, <3>4 DEF SameBut
    <3>. QED BY <3>4, <3>5, <3>6 DEF old
  <2>. QED BY <2>1, <2>2
<1>7. ASSUME NEW q, q = Got(w, key, name), proc' = [proc EXCEPT ![w] = q],
             NEW state, disk' = done(state), p.text = "torn" \/ state = "whole"
      PROVE  RunsInv'
  <2>. HIDE DEF key, done
  <2>1. /\ WorkerOk(q, session.files, session.seeds, version) /\ q.at \notin Building
        /\ \A n \in Held(q) : n = name \/ n \in Held(p)
        /\ VerdictOk(q, session.killed, version, tainted)
    <3>1. key = CompileKey(Head(p.plan), TestOf(w)) BY DEF key
    <3>. QED BY <1>1, <1>4, <1>7, <3>1, GotIs
  <2>2. /\ SameBut(disk, disk', name)
        /\ mine => name \in DOMAIN disk' /\ disk'[name].state = state
        /\ name \in DOMAIN disk' => /\ name \in DOMAIN disk /\ IsLibrary(disk'[name])
                                    /\ disk'[name].content = disk[name].content
    BY <1>6, <1>7
  <2>3. name \in tainted \/ (name \in DOMAIN disk' /\ disk'[name].state = "whole")
    BY <1>3, <1>7, <2>2
  <2>4. LibrariesOk([proc EXCEPT ![w] = q], disk', sources, tainted)
    BY <1>1, <2>1, <2>2, <2>3, CompilerEnds
  <2>5. LibrariesOk(proc', disk', sources', tainted') BY <1>5, <1>7, <2>4
  <2>. QED BY <1>5, <1>7, <2>1, <2>5, QuietSteps
<1>8. ASSUME NEW q, q = TestEnds(w, FALSE), proc' = [proc EXCEPT ![w] = q], p.text = "torn",
             disk' = IF mine THEN Restrict(disk, DOMAIN disk \ {name}) ELSE disk
      PROVE  RunsInv'
  <2>1. name \in tainted BY <1>3, <1>8
  <2>2. Spoiled(p.file, version, tainted)
    <3>1. /\ TestOf(w) \in Range(Tests[p.file])
          /\ Head(p.plan) \in Range(PlanOf(TestOf(w)))
          /\ name = NameIn(version, Head(p.plan), TestOf(w))
      BY <1>1, BusyIs DEF PlanOk
    <3>. QED BY <2>1, <3>1 DEF Spoiled
  <2>3. /\ WorkerOk(q, session.files, session.seeds, version)
        /\ VerdictOk(q, session.killed, version, tainted)
        /\ q.at \in {"look", "exit"} /\ \A n \in Held(q) : n \in Held(p)
    <3>1. /\ session.files \in Seq(DOMAIN Tests)
          /\ WorkerOk(proc[w], session.files, session.seeds, version)
          /\ VerdictOk(proc[w], session.killed, version, tainted)
      BY Parts
    <3> DEFINE ok == FALSE
    <3>2. q = TestEnds(w, ok) /\ ok \in BOOLEAN /\ ~ok BY <1>8
    <3>. HIDE DEF ok
    <3>. QED BY <1>1, <2>2, <3>1, <3>2, TestEndsIs
  <2>4. q.at \notin Building BY <2>3 DEF Building
  <2>5. /\ SameBut(disk, disk', name)
        /\ name \in DOMAIN disk' => /\ name \in DOMAIN disk /\ IsLibrary(disk'[name])
                                    /\ disk'[name].content = disk[name].content
    <3>1. CASE mine
      <4>. HIDE DEF name
      <4>. QED BY <1>8, <3>1 DEF SameBut, Restrict
    <3>2. CASE ~mine BY <1>2, <1>8, <3>2 DEF SameBut, DiskOk
    <3>. QED BY <3>1, <3>2
  <2>6. LibrariesOk([proc EXCEPT ![w] = q], disk', sources, tainted)
    BY <1>1, <2>1, <2>3, <2>4, <2>5, CompilerEnds
  <2>7. LibrariesOk(proc', disk', sources', tainted') BY <1>5, <1>8, <2>6
  <2>. QED BY <1>5, <1>8, <2>3, <2>7, QuietSteps
<1>9. \/ /\ disk' = done("whole") /\ p.text = "whole"
         /\ proc' = [proc EXCEPT ![w] = Got(w, key, name)]
      \/ /\ disk' = done("empty") /\ p.text = "torn"
         /\ proc' = [proc EXCEPT ![w] = Got(w, key, name)]
      \/ /\ p.text = "torn" /\ proc' = [proc EXCEPT ![w] = TestEnds(w, FALSE)]
         /\ disk' = IF mine THEN Restrict(disk, DOMAIN disk \ {name}) ELSE disk
  BY DEF EndCompiler, KindOf
<1>. HIDE DEF done, key, mine, name
<1>. QED BY <1>7, <1>8, <1>9

LEMMA LoadLibraryKeeps ==
    ASSUME RunsInv, NEW w \in Workers, LoadLibrary(w)
    PROVE  RunsInv'
<1> DEFINE p == proc[w]
           t == TestOf(w)
           name == p.name
           loads == name \in DOMAIN disk /\ disk[name].state = "whole"
           passes == <<disk[name].content, p.seed>> \notin Fails
           ok == loads /\ passes
           q == TestEnds(w, ok)
<1>1. p.at = "load" /\ p.at \in Busy /\ p.at \notin Building
  BY DEF LoadLibrary, Busy, Building
<1>2. /\ session.files \in Seq(DOMAIN Tests)
      /\ WorkerOk(p, session.files, session.seeds, version)
      /\ VerdictOk(p, session.killed, version, tainted)
      /\ DOMAIN proc = Workers /\ LibrariesOk(proc, disk, sources, tainted)
      /\ HandsOk(w, p, disk, sources, tainted) /\ DiskOk(proc, disk, tainted)
  BY Parts
<1>3. /\ proc' = [proc EXCEPT ![w] = q]
      /\ UNCHANGED <<version, sources, disk, session, record, last, tainted>>
  BY DEF LoadLibrary
<1>4. /\ t \in Range(Tests[p.file]) /\ Head(p.plan) \in Range(PlanOf(t))
      /\ name = NameIn(version, Head(p.plan), t) /\ t = TestAt(p)
  BY <1>1, BusyIs DEF PlanOk
<1>5. name[3] = ContentIn(version, t) BY <1>4 DEF NameIn
<1>6. loads => disk[name].content = ContentIn(version, t) BY <1>2, <1>5 DEF DiskOk
<1>7. ~loads => Spoiled(p.file, version, tainted)
  <2>1. name \in Held(p) BY <1>1 DEF Held
  <2>2. InPlace(name, disk, tainted) BY <1>1, <1>2, <2>1 DEF HandsOk
  <2>3. name \in tainted => Spoiled(p.file, version, tainted)
    <3>. HIDE DEF t, name
    <3>. QED BY <1>4 DEF Spoiled
  <2>. QED BY <2>2, <2>3 DEF InPlace
<1>8. ok => <<ContentIn(version, TestAt(p)), p.seed>> \notin Fails BY <1>4, <1>6
<1>9. ~ok => \/ <<ContentIn(version, TestAt(p)), p.seed>> \in Fails
             \/ Spoiled(p.file, version, tainted)
  BY <1>4, <1>6, <1>7
<1>10. ok \in BOOLEAN /\ q = TestEnds(w, ok) OBVIOUS
<1>. HIDE DEF ok, q
<1>11. /\ WorkerOk(q, session.files, session.seeds, version)
       /\ VerdictOk(q, session.killed, version, tainted)
       /\ q.at \in {"look", "exit"} /\ \A n \in Held(q) : n \in Held(p)
  BY <1>1, <1>2, <1>8, <1>9, <1>10, TestEndsIs
<1>12. q.at \notin Building BY <1>11 DEF Building
<1>13. \A n \in Held(q) : InPlace(n, disk, tainted) BY <1>1, <1>2, <1>11 DEF HandsOk
<1>14. LibrariesOk([proc EXCEPT ![w] = q], disk, sources, tainted)
  BY <1>1, <1>2, <1>12, <1>13, LibrariesQuiet
<1>15. LibrariesOk(proc', disk', sources', tainted') BY <1>3, <1>14
<1>. QED BY <1>3, <1>11, <1>15, QuietSteps

\* A worker that is through with its file, or has none, holds nothing.
LEMMA LetsGo ==
    ASSUME RunsInv, NEW w \in Workers, NEW q, q.at \notin Busy,
           proc[w].at \in Building => proc[w].name \in tainted',
           proc' = [proc EXCEPT ![w] = q], UNCHANGED <<disk, sources>>,
           tainted \subseteq tainted'
    PROVE  LibrariesOk(proc', disk', sources', tainted')
<1>1. DOMAIN proc = Workers /\ LibrariesOk(proc, disk, sources, tainted) BY Parts
<1>2. q.at \notin Building BY DEF Busy
<1>3. LibrariesOk([proc EXCEPT ![w] = q], disk, sources, tainted') BY <1>1, <1>2, LibrariesQuiet
<1>. QED BY <1>3

LEMMA UnusedIs ==
    /\ IsWorker(Unused) /\ Unused.at = "free" /\ Unused.bad = FALSE
    /\ Unused.at \notin Busy /\ Unused.cache = <<>> /\ Unused.test = 1
    /\ \A files, seeds, ver : WorkerOk(Unused, files, seeds, ver)
    /\ \A killed, ver, tn : VerdictOk(Unused, killed, ver, tn)
  BY DEF Unused, IsWorker, WorkerOk, VerdictOk, Busy, Building

LEMMA TakeFileKeeps ==
    ASSUME RunsInv, NEW w \in Workers, TakeFile(w)
    PROVE  RunsInv'
<1> DEFINE f == Head(session.queue)
           p == [Unused EXCEPT !.file = f, !.seed = session.seeds[f]]
           q == BeginTest(p)
<1>1. /\ DOMAIN proc = Workers /\ FilesOk(session) /\ session.files \in Seq(DOMAIN Tests)
      /\ ResultsOk(session, version, tainted) /\ LibrariesOk(proc, disk, sources, tainted)
  BY Parts
<1>2. /\ proc[w].at = "free" /\ session.queue # <<>>
      /\ proc' = [proc EXCEPT ![w] = q] /\ session' = [session EXCEPT !.queue = Tail(@)]
      /\ UNCHANGED <<version, sources, disk, record, last, tainted>>
  BY DEF TakeFile
<1>3. f \in Range(session.files) /\ Tail(session.queue) \in Seq(Range(session.files))
  <2> DEFINE S == Range(session.files)
  <2>1. session.queue \in Seq(S) BY <1>1 DEF FilesOk
  <2>. HIDE DEF S
  <2>2. Head(session.queue) \in S /\ Tail(session.queue) \in Seq(S) BY <1>2, <2>1
  <2>. QED BY <2>2 DEF S
<1>4. f \in DOMAIN Tests BY <1>1, <1>3 DEF Range
<1>5. 1 \in 1 .. Len(Tests[f]) BY <1>4, TestsAre
<1> DEFINE z == Unused
<1>6. p = [at |-> z.at, file |-> f, seed |-> session.seeds[f], test |-> z.test, plan |-> z.plan,
           cache |-> z.cache, name |-> z.name, text |-> z.text, bad |-> z.bad]
  <2> DEFINE u == [z EXCEPT !.file = f]
             seed == session.seeds[f]
  <2>1. IsWorker(z) BY UnusedIs
  <2>2. p = [u EXCEPT !.seed = seed] OBVIOUS
  <2>. HIDE DEF f, seed, z
  <2>3. u = [at |-> z.at, file |-> f, seed |-> z.seed, test |-> z.test, plan |-> z.plan,
             cache |-> z.cache, name |-> z.name, text |-> z.text, bad |-> z.bad]
    BY <2>1 DEF IsWorker
  <2>. HIDE DEF u, p
  <2>4. p = [at |-> z.at, file |-> f, seed |-> seed, test |-> z.test, plan |-> z.plan,
             cache |-> z.cache, name |-> z.name, text |-> z.text, bad |-> z.bad]
    BY <2>2, <2>3
  <2>. QED BY <2>4 DEF seed
<1>7. q = BeginTest(p) OBVIOUS
<1>. HIDE DEF p, q
<1>8. /\ IsWorker(p) /\ p.bad = FALSE /\ p.file = f /\ p.seed = session.seeds[f]
      /\ p.test = 1 /\ p.cache = <<>>
  <2>. HIDE DEF z
  <2>1. /\ IsWorker(p) /\ p.bad = z.bad /\ p.file = f /\ p.seed = session.seeds[f]
        /\ p.test = z.test /\ p.cache = z.cache
    BY <1>6 DEF IsWorker
  <2>. QED BY <2>1, UnusedIs DEF z
<1>9. CacheOk(p, version) BY <1>8 DEF CacheOk
<1>18. IsWorker(p) BY <1>8
<1>10. p.bad \in BOOLEAN /\ p.file \in Range(session.files) /\ p.seed = session.seeds[p.file]
       /\ p.test \in 1 .. Len(Tests[p.file])
  BY <1>3, <1>5, <1>8
<1>11. /\ WorkerOk(q, session.files, session.seeds, version)
       /\ q.at = "look" /\ q.cache = p.cache /\ q.test = p.test /\ q.bad = p.bad
  <2> DEFINE files == session.files
             seeds == session.seeds
  <2>1. /\ files \in Seq(DOMAIN Tests) /\ p.file \in Range(files) /\ p.seed = seeds[p.file]
    BY <1>1, <1>10
  <2>. HIDE DEF files, seeds
  <2>2. /\ WorkerOk(q, files, seeds, version)
        /\ q.at = "look" /\ q.cache = p.cache /\ q.test = p.test /\ q.bad = p.bad
    BY <1>7, <1>9, <1>10, <1>18, <2>1, BeginTestIs, SMTT(30)
  <2>. QED BY <2>2 DEF files, seeds
<1>12. VerdictOk(q, session.killed, version, tainted)
  <2>1. Through(q) = 0 BY <1>8, <1>11 DEF Through
  <2>2. ~FailsBy(q.file, q.seed, 0, version) BY DEF FailsBy
  <2>. QED BY <1>8, <1>11, <2>1, <2>2 DEF VerdictOk
<1>13. LibrariesOk(proc', disk', sources', tainted')
  <2>1. \A n \in Held(q) : InPlace(n, disk, tainted) BY <1>8, <1>11 DEF Held
  <2>2. q.at \notin Building /\ proc[w].at \notin Building BY <1>2, <1>11 DEF Building
  <2>3. LibrariesOk([proc EXCEPT ![w] = q], disk, sources, tainted)
    BY <1>1, <2>1, <2>2, LibrariesQuiet
  <2>. QED BY <1>2, <2>3
<1>14. session' = [files |-> session.files, seeds |-> session.seeds,
                   queue |-> Tail(session.queue), results |-> session.results,
                   seed |-> session.seed, killed |-> session.killed]
  BY <1>1, <1>2 DEF FilesOk, IsSession
<1>15. /\ session'.files = session.files /\ session'.seeds = session.seeds
       /\ session'.queue = Tail(session.queue) /\ session'.results = session.results
       /\ session'.seed = session.seed /\ session'.killed = session.killed /\ IsSession(session')
  BY <1>14 DEF IsSession
<1>16. FilesOk(session') BY <1>1, <1>3, <1>15 DEF FilesOk
<1>17. ResultsOk(session', version, tainted') BY <1>1, <1>2, <1>15, MoreResults
<1>. QED BY <1>2, <1>11, <1>12, <1>13, <1>15, <1>16, <1>17, WorkerSteps

LEMMA CollectKeeps ==
    ASSUME RunsInv, NEW w \in Workers, Collect(w)
    PROVE  RunsInv'
<1> DEFINE p == proc[w]
           f == p.file
           verdict == IF p.bad THEN "fail" ELSE "pass"
           results == Put(session.results, f, verdict)
<1>1. /\ FilesOk(session) /\ ResultsOk(session, version, tainted)
      /\ WorkerOk(p, session.files, session.seeds, version)
      /\ VerdictOk(p, session.killed, version, tainted)
  BY Parts
<1>2. /\ p.at = "exit" /\ proc' = [proc EXCEPT ![w] = Unused]
      /\ session' = [session EXCEPT !.results = results]
      /\ UNCHANGED <<version, sources, disk, record, last, tainted>>
  BY DEF Collect
<1>3. f \in Range(session.files) /\ p.seed = session.seeds[f] /\ p.bad \in BOOLEAN
  BY <1>1, <1>2 DEF WorkerOk
<1> DEFINE s == session
           excused(x) == x \in s.killed \/ Spoiled(x, version, tainted)
<1>4. SoundFor(verdict, f, s.seeds[f], version, excused(f))
  <2>1. Through(p) = Len(Tests[f]) BY <1>2 DEF Through
  <2> DEFINE fails == FailsBy(f, s.seeds[f], Len(Tests[f]), version)
             out == excused(f)
  <2>2. (fails => p.bad) /\ (p.bad => fails \/ out)
    BY <1>1, <1>2, <1>3, <2>1 DEF VerdictOk
  <2>. HIDE DEF fails, out
  <2>3. \/ verdict = IF fails THEN "fail" ELSE "pass"
        \/ verdict = "fail" /\ out
    BY <2>2
  <2>. QED BY <2>3 DEF SoundFor, fails, out
<1>5. session' = [files |-> s.files, seeds |-> s.seeds, queue |-> s.queue, results |-> results,
                  seed |-> s.seed, killed |-> s.killed]
  BY <1>1, <1>2 DEF FilesOk, IsSession
<1>. HIDE DEF results
<1>6. /\ session'.files = s.files /\ session'.seeds = s.seeds /\ session'.queue = s.queue
      /\ session'.results = results /\ session'.seed = s.seed /\ session'.killed = s.killed
      /\ IsSession(session')
  BY <1>5 DEF IsSession
<1>7. FilesOk(session') BY <1>1, <1>6 DEF FilesOk
<1>8. ResultsOk(session', version, tainted')
  <2> SUFFICES ASSUME NEW x \in DOMAIN results
               PROVE  /\ x \in Range(s.files)
                      /\ SoundFor(results[x], x, s.seeds[x], version, excused(x))
    BY <1>2, <1>6 DEF ResultsOk
  <2>1. CASE x = f
    <3>1. results[x] = verdict BY <2>1 DEF results, Put
    <3>. QED BY <1>3, <1>4, <2>1, <3>1
  <2>2. CASE x # f
    <3>1. x \in DOMAIN s.results /\ results[x] = s.results[x] BY <2>2 DEF results, Put
    <3>. QED BY <1>1, <3>1 DEF ResultsOk
  <2>. QED BY <2>1, <2>2
<1>9. /\ WorkerOk(Unused, s.files, s.seeds, version)
      /\ VerdictOk(Unused, session'.killed, version, tainted')
  BY UnusedIs
<1>10. LibrariesOk(proc', disk', sources', tainted')
  <2> DEFINE q == Unused
  <2>1. q.at \notin Busy BY UnusedIs
  <2>2. proc[w].at \notin Building BY <1>2 DEF Building
  <2>3. proc' = [proc EXCEPT ![w] = q] BY <1>2
  <2>. HIDE DEF q
  <2>. QED BY <1>2, <2>1, <2>2, <2>3, LetsGo
<1>. QED BY <1>2, <1>6, <1>7, <1>8, <1>9, <1>10, WorkerSteps

LEMMA DieKeeps ==
    ASSUME RunsInv, NEW w \in Workers, Die(w)
    PROVE  RunsInv'
<1> DEFINE p == proc[w]
           q1 == [p EXCEPT !.at = "exit"]
           q2 == [q1 EXCEPT !.name = <<>>]
           b == TRUE
           q == [q2 EXCEPT !.bad = b]
           s == session
<1>1. /\ FilesOk(session) /\ ResultsOk(session, version, tainted) /\ IsWorker(p)
      /\ WorkerOk(p, s.files, s.seeds, version) /\ DOMAIN proc = Workers
  BY Parts
<1>2. /\ p.at \notin {"free", "exit"} /\ session' = [s EXCEPT !.killed = @ \cup {p.file}]
      /\ tainted' = tainted \cup Compiling({w})
      /\ UNCHANGED <<version, sources, disk, record, last>>
  BY DEF Die
<1>3. proc' = [proc EXCEPT ![w] = q] BY <1>1 DEF Die
<1>4. q = [at |-> "exit", file |-> p.file, seed |-> p.seed, test |-> p.test, plan |-> p.plan,
           cache |-> p.cache, name |-> <<>>, text |-> p.text, bad |-> b]
  <2>. HIDE DEF p, q, b
  <2>1. q1 = [at |-> "exit", file |-> p.file, seed |-> p.seed, test |-> p.test, plan |-> p.plan,
              cache |-> p.cache, name |-> p.name, text |-> p.text, bad |-> p.bad]
    BY <1>1 DEF IsWorker
  <2>. HIDE DEF q1
  <2>2. q2 = [at |-> "exit", file |-> p.file, seed |-> p.seed, test |-> p.test, plan |-> p.plan,
              cache |-> p.cache, name |-> <<>>, text |-> p.text, bad |-> p.bad]
    BY <2>1
  <2>. HIDE DEF q2
  <2>. QED BY <2>2 DEF q
<1>. HIDE DEF q, b
<1>5. q.at = "exit" /\ q.file = p.file /\ q.seed = p.seed /\ q.test = p.test /\ q.bad = TRUE
      /\ IsWorker(q)
  <2>1. /\ q.at = "exit" /\ q.file = p.file /\ q.seed = p.seed /\ q.test = p.test /\ q.bad = b
        /\ IsWorker(q)
    BY <1>4 DEF IsWorker
  <2>. QED BY <2>1 DEF b
<1>6. p.file \in Range(s.files) /\ p.seed = s.seeds[p.file] /\ p.test \in 1 .. Len(Tests[p.file])
  BY <1>1, <1>2 DEF WorkerOk
<1>7. WorkerOk(q, s.files, s.seeds, version) BY <1>5, <1>6 DEF WorkerOk, Busy, Building
<1>8. session' = [files |-> s.files, seeds |-> s.seeds, queue |-> s.queue,
                  results |-> s.results, seed |-> s.seed, killed |-> s.killed \cup {p.file}]
  BY <1>1, <1>2 DEF FilesOk, IsSession
<1>9. /\ session'.files = s.files /\ session'.seeds = s.seeds /\ session'.queue = s.queue
      /\ session'.results = s.results /\ session'.seed = s.seed
      /\ session'.killed = s.killed \cup {p.file} /\ IsSession(session')
  BY <1>8 DEF IsSession
<1>10. VerdictOk(q, session'.killed, version, tainted') BY <1>5, <1>9 DEF VerdictOk
<1>11. FilesOk(session') BY <1>1, <1>9 DEF FilesOk
<1>12. s.killed \subseteq session'.killed /\ tainted \subseteq tainted' BY <1>2, <1>9
<1>13. ResultsOk(session', version, tainted') BY <1>1, <1>9, <1>12, MoreResults
<1>14. LibrariesOk(proc', disk', sources', tainted')
  <2>1. p.at \in Building => p.name \in tainted' BY <1>2 DEF Compiling, Building
  <2>2. q.at \notin Busy BY <1>5 DEF Busy, Building
  <2>. QED BY <1>2, <1>3, <1>12, <2>1, <2>2, LetsGo
<1>. QED BY <1>2, <1>3, <1>7, <1>9, <1>10, <1>11, <1>12, <1>13, <1>14, WorkerSteps

\* Between the runs no worker is busy.
LEMMA AllFree ==
    ASSUME RunsInv, session.files = <<>>
    PROVE  /\ \A w \in Workers : proc[w].at = "free"
           /\ DOMAIN session.results = {}
<1>1. Range(session.files) = {} BY DEF Range
<1>2. ASSUME NEW w \in Workers PROVE proc[w].at = "free"
  <2>1. WorkerOk(proc[w], session.files, session.seeds, version) BY Parts
  <2>. QED BY <1>1, <2>1 DEF WorkerOk
<1>3. DOMAIN session.results = {} BY <1>1 DEF RunsInv, ResultsOk
<1>. QED BY <1>2, <1>3

\* Workers that are free fit into every run.
LEMMA FreeFits ==
    ASSUME NEW pr, DOMAIN pr = Workers,
           \A w \in Workers : IsWorker(pr[w]) /\ pr[w].at = "free" /\ pr[w].bad \in BOOLEAN,
           NEW s, NEW ver, NEW tn
    PROVE  WorkersOk(pr, s, ver, tn)
  BY DEF WorkersOk, WorkerOk, VerdictOk, Busy, Building

LEMMA NoRunIs ==
    /\ IsSession(NoRun) /\ FilesOk(NoRun) /\ NoRun.files = <<>> /\ NoRun.results = <<>>
    /\ \A ver, tn : ResultsOk(NoRun, ver, tn)
    /\ \A rec : SeedsKept(NoRun, rec)
<1>1. /\ IsSession(NoRun) /\ NoRun.files = <<>> /\ NoRun.results = <<>> /\ NoRun.queue = <<>>
      /\ NoRun.seeds = <<>>
  BY DEF NoRun, IsSession
<1>2. Range(NoRun.files) = {} BY <1>1 DEF Range
<1>3. <<>> \in Seq({}) OBVIOUS
<1>4. FilesOk(NoRun) BY <1>1, <1>2, <1>3 DEF FilesOk
<1>5. \A ver, tn : ResultsOk(NoRun, ver, tn) BY <1>1 DEF ResultsOk
<1>6. \A rec : SeedsKept(NoRun, rec) BY <1>2 DEF SeedsKept
<1>. QED BY <1>1, <1>4, <1>5, <1>6

LEMMA BeginRunKeeps ==
    ASSUME RunsInv, NEW files \in Paths, NEW seed \in Seeds \cup {None}, NEW fresh \in Seeds,
           BeginRun(files, seed, fresh)
    PROVE  RunsInv'
<1> DEFINE seeds == SeedsFor(files, seed, fresh)
           z == NoRun
           s1 == [z EXCEPT !.files = files]
           s2 == [s1 EXCEPT !.queue = files]
           s3 == [s2 EXCEPT !.seeds = seeds]
           s4 == [s3 EXCEPT !.seed = seed]
<1>1. /\ session.files = <<>> /\ session' = s4
      /\ UNCHANGED <<version, sources, disk, proc, record, last, tainted>>
  BY DEF BeginRun
<1>2. IsSession(z) /\ z.results = <<>> BY NoRunIs
<1>3. s4 = [files |-> files, seeds |-> seeds, queue |-> files, results |-> z.results,
            seed |-> seed, killed |-> z.killed]
  <2>. HIDE DEF seeds, z
  <2>1. s1 = [files |-> files, seeds |-> z.seeds, queue |-> z.queue, results |-> z.results,
              seed |-> z.seed, killed |-> z.killed]
    BY <1>2 DEF IsSession
  <2>. HIDE DEF s1
  <2>2. s2 = [files |-> files, seeds |-> z.seeds, queue |-> files, results |-> z.results,
              seed |-> z.seed, killed |-> z.killed]
    BY <2>1
  <2>. HIDE DEF s2
  <2>3. s3 = [files |-> files, seeds |-> seeds, queue |-> files, results |-> z.results,
              seed |-> z.seed, killed |-> z.killed]
    BY <2>2
  <2>. HIDE DEF s3
  <2>. QED BY <2>3
<1>. HIDE DEF z, s4, seeds
<1>4. /\ session'.files = files /\ session'.seeds = seeds /\ session'.queue = files
      /\ session'.results = z.results /\ session'.seed = seed /\ IsSession(session')
  BY <1>1, <1>3 DEF IsSession
<1>5. DOMAIN seeds = Range(files) /\ \A f \in Range(files) \cap DOMAIN record :
                                       seed = None => seeds[f] = record[f]
  BY DEF seeds, SeedsFor
<1>6. FilesOk(session')
  <2>1. files \in Seq(DOMAIN Tests) BY TestRunsAssumption
  <2>2. files \in Seq(Range(files)) BY <2>1 DEF Range
  <2>. QED BY <1>4, <1>5, <2>2 DEF FilesOk
<1>7. WorkersOk(proc', session', version', tainted')
  <2>1. \A w \in Workers : proc[w].at = "free" BY <1>1, AllFree
  <2>2. \A w \in Workers : IsWorker(proc[w]) /\ proc[w].bad \in BOOLEAN /\ DOMAIN proc = Workers
    BY Parts DEF WorkerOk
  <2>3. DOMAIN proc = Workers BY DEF RunsInv, WorkersOk
  <2>4. WorkersOk(proc, session', version, tainted) BY <2>1, <2>2, <2>3, FreeFits
  <2>. QED BY <1>1, <2>4
<1>8. ResultsOk(session', version', tainted') BY <1>2, <1>4 DEF ResultsOk
<1>9. SeedsKept(session', record') BY <1>1, <1>4, <1>5 DEF SeedsKept
<1>10. LibrariesOk(proc', disk', sources', tainted') /\ LastOk(last', record', tainted')
  BY <1>1 DEF RunsInv
<1>. QED BY <1>6, <1>7, <1>8, <1>9, <1>10 DEF RunsInv

LEMMA EndRunKeeps ==
    ASSUME RunsInv, EndRun
    PROVE  RunsInv'
<1> DEFINE s == session
           kept == DOMAIN s.results \ s.killed
<1>1. /\ record' = s.seeds /\ session' = NoRun
      /\ last' = [results |-> Restrict(s.results, kept), version |-> version]
      /\ UNCHANGED <<version, sources, disk, proc, tainted>>
  BY DEF EndRun
<1>2. /\ FilesOk(s) /\ ResultsOk(s, version, tainted) /\ DOMAIN proc = Workers
      /\ LibrariesOk(proc, disk, sources, tainted)
  BY DEF RunsInv, WorkersOk
<1>3. \A w \in Workers : proc[w].at = "free" BY <1>2 DEF EndRun
<1>4. \A w \in Workers : IsWorker(proc[w]) /\ proc[w].bad \in BOOLEAN BY Parts DEF WorkerOk
<1>5. WorkersOk(proc', session', version', tainted')
  <2>1. WorkersOk(proc, session', version, tainted) BY <1>2, <1>3, <1>4, FreeFits
  <2>. QED BY <1>1, <2>1
<1>6. /\ FilesOk(session') /\ ResultsOk(session', version', tainted')
      /\ SeedsKept(session', record')
  BY <1>1, NoRunIs
<1>7. LastOk(last', record', tainted')
  <2>1. last'.results = Restrict(s.results, kept) /\ last'.version = version BY <1>1
  <2> SUFFICES ASSUME NEW f \in DOMAIN last'.results
               PROVE  /\ f \in DOMAIN record'
                      /\ SoundFor(last'.results[f], f, record'[f], last'.version,
                                  Spoiled(f, last'.version, tainted'))
    BY DEF LastOk
  <2> DEFINE results == last'.results
  <2>2. f \in DOMAIN s.results /\ f \notin s.killed /\ results[f] = s.results[f]
    BY <2>1 DEF Restrict
  <2>3. /\ f \in Range(s.files)
        /\ SoundFor(s.results[f], f, s.seeds[f], version,
                    f \in s.killed \/ Spoiled(f, version, tainted))
    BY <1>2, <2>2 DEF ResultsOk
  <2>4. SoundFor(s.results[f], f, s.seeds[f], version, Spoiled(f, version, tainted))
    <3> DEFINE out == Spoiled(f, version, tainted)
               more == f \in s.killed \/ out
    <3>1. more => out BY <2>2
    <3>2. SoundFor(s.results[f], f, s.seeds[f], version, more) BY <2>3
    <3>. HIDE DEF out, more
    <3>3. SoundFor(s.results[f], f, s.seeds[f], version, out) BY <3>1, <3>2 DEF SoundFor
    <3>. QED BY <3>3 DEF out
  <2>5. f \in DOMAIN s.seeds BY <1>2, <2>3 DEF FilesOk
  <2>. QED BY <1>1, <2>1, <2>2, <2>4, <2>5
<1>8. LibrariesOk(proc', disk', sources', tainted') BY <1>1, <1>2
<1>. QED BY <1>5, <1>6, <1>7, <1>8 DEF RunsInv

LEMMA InterruptKeeps ==
    ASSUME RunsInv, Interrupt
    PROVE  RunsInv'
<1>1. /\ proc' = [w \in DOMAIN proc |-> Unused] /\ session' = NoRun
      /\ tainted' = tainted \cup Compiling(DOMAIN proc)
      /\ UNCHANGED <<version, sources, record, last>>
  BY DEF Interrupt
<1>2. PICK gone \in SUBSET {n \in DOMAIN disk : n \in Compiling({disk[n].by} \cap DOMAIN proc)} :
        disk' = Restrict(disk, DOMAIN disk \ gone)
  BY DEF Interrupt
<1>3. /\ DOMAIN proc = Workers /\ DiskOk(proc, disk, tainted)
      /\ LastOk(last, record, tainted)
  BY DEF RunsInv, WorkersOk, LibrariesOk
<1>4. DOMAIN proc' = Workers /\ \A w \in Workers : proc'[w] = Unused BY <1>1, <1>3
<1>5. WorkersOk(proc', session', version', tainted')
  <2> DEFINE pr == proc'
  <2>1. \A w \in Workers : IsWorker(pr[w]) /\ pr[w].at = "free" /\ pr[w].bad \in BOOLEAN
    BY <1>4, UnusedIs
  <2>2. DOMAIN pr = Workers BY <1>4
  <2>. HIDE DEF pr
  <2>3. WorkersOk(pr, session', version', tainted') BY <2>1, <2>2, FreeFits
  <2>. QED BY <2>3 DEF pr
<1>6. /\ FilesOk(session') /\ ResultsOk(session', version', tainted')
      /\ SeedsKept(session', record')
  BY <1>1, NoRunIs
<1>7. LastOk(last', record', tainted')
  <2>1. tainted \subseteq tainted' BY <1>1
  <2>. QED BY <1>1, <1>3, <2>1, MoreLast
<1>8. OneBuilder(proc', tainted') BY <1>4, UnusedIs DEF OneBuilder, Busy
<1>9. DiskOk(proc', disk', tainted')
  <2> SUFFICES ASSUME NEW n \in DOMAIN disk'
               PROVE  /\ IsLibrary(disk'[n]) /\ disk'[n].content = n[3]
                      /\ n \in tainted' \/ disk'[n].state = "whole"
    BY DEF DiskOk
  <2>1. n \in DOMAIN disk /\ disk'[n] = disk[n] BY <1>2 DEF Restrict
  <2>2. ASSUME NEW v \in Workers, proc[v].at = "cc", proc[v].name = n
        PROVE  n \in tainted'
    BY <1>1, <1>3, <2>2 DEF Compiling
  <2>. QED BY <1>1, <1>3, <2>1, <2>2 DEF DiskOk
<1>10. \A w \in Workers : HandsOk(w, proc'[w], disk', sources', tainted')
  BY <1>4, UnusedIs DEF HandsOk, Busy, Building
<1>11. LibrariesOk(proc', disk', sources', tainted') BY <1>8, <1>9, <1>10 DEF LibrariesOk
<1>. QED BY <1>5, <1>6, <1>7, <1>11 DEF RunsInv

LEMMA EditKeeps ==
    ASSUME RunsInv, NEW c \in Classes, Edit(c)
    PROVE  RunsInv'
<1>1. session.files = <<>> /\ UNCHANGED <<sources, disk, proc, session, record, last, tainted>>
  BY DEF Edit
<1>2. /\ \A w \in Workers : proc[w].at = "free"
      /\ DOMAIN session.results = {}
  BY <1>1, AllFree
<1>3. \A w \in Workers : IsWorker(proc[w]) /\ proc[w].bad \in BOOLEAN BY Parts DEF WorkerOk
<1>4. DOMAIN proc = Workers BY DEF RunsInv, WorkersOk
<1>5. WorkersOk(proc, session, version', tainted) BY <1>2, <1>3, <1>4, FreeFits
<1>6. ResultsOk(session, version', tainted) BY <1>2 DEF ResultsOk
<1>. QED BY <1>1, <1>5, <1>6 DEF RunsInv

LEMMA RunsInvStep ==
    ASSUME OneModelPerClass, RunsInv, [TestNext]_testVars
    PROVE  RunsInv'
<1>1. DOMAIN proc = Workers BY DEF RunsInv, WorkersOk
<1>2. ASSUME NEW w \in DOMAIN proc, TakeFile(w) \/ Works(w) \/ Collect(w) \/ Die(w)
      PROVE  RunsInv'
  <2>1. w \in Workers BY <1>1
  <2>2. CASE LookUpLibrary(w) BY <2>1, <2>2, LookUpLibraryKeeps
  <2>3. CASE WriteSource(w) BY <2>1, <2>3, WriteSourceKeeps
  <2>4. CASE StartCompiler(w) BY <2>1, <2>4, StartCompilerKeeps
  <2>5. CASE EndCompiler(w) BY <2>1, <2>5, EndCompilerKeeps
  <2>6. CASE LoadLibrary(w) BY <2>1, <2>6, LoadLibraryKeeps
  <2>7. CASE TakeFile(w) BY <2>1, <2>7, TakeFileKeeps
  <2>8. CASE Collect(w) BY <2>1, <2>8, CollectKeeps
  <2>9. CASE Die(w) BY <2>1, <2>9, DieKeeps
  <2>. QED BY <1>2, <2>2, <2>3, <2>4, <2>5, <2>6, <2>7, <2>8, <2>9 DEF Works
<1>3. ASSUME NEW files \in Paths, NEW seed \in Seeds \cup {None}, NEW fresh \in Seeds,
             BeginRun(files, seed, fresh)
      PROVE  RunsInv'
  BY <1>3, BeginRunKeeps
<1>4. CASE EndRun BY <1>4, EndRunKeeps
<1>5. CASE Interrupt BY <1>5, InterruptKeeps
<1>6. ASSUME NEW c \in Classes, Edit(c) PROVE RunsInv'
  BY <1>6, EditKeeps
<1>7. CASE UNCHANGED testVars
  BY <1>7 DEF testVars, RunsInv
<1>. QED BY <1>2, <1>3, <1>4, <1>5, <1>6, <1>7 DEF TestNext, AllRun

LEMMA RunsInvInit ==
    ASSUME TestInit
    PROVE  RunsInv
<1>1. /\ sources = <<>> /\ disk = <<>> /\ proc = [w \in 1 .. Jobs |-> Unused] /\ session = NoRun
      /\ last = [results |-> <<>>, version |-> version]
  BY DEF TestInit
<1>2. DOMAIN proc = Workers /\ \A w \in Workers : proc[w] = Unused BY <1>1 DEF Workers
<1>3. WorkersOk(proc, session, version, tainted) BY <1>2, UnusedIs DEF WorkersOk
<1>4. FilesOk(session) /\ ResultsOk(session, version, tainted) /\ SeedsKept(session, record)
  BY <1>1, NoRunIs
<1>5. OneBuilder(proc, tainted) BY <1>2, UnusedIs DEF OneBuilder, Busy
<1>6. DiskOk(proc, disk, tainted)
  <2>1. DOMAIN disk = {} BY <1>1
  <2>. QED BY <2>1 DEF DiskOk
<1>7. \A w \in Workers : HandsOk(w, proc[w], disk, sources, tainted)
  BY <1>2, UnusedIs DEF HandsOk, Busy, Building
<1>8. LastOk(last, record, tainted)
  <2>1. DOMAIN last.results = {} BY <1>1
  <2>. QED BY <2>1 DEF LastOk
<1>. QED BY <1>3, <1>4, <1>5, <1>6, <1>7, <1>8 DEF RunsInv, LibrariesOk

(* All runs, of all processes, keep the invariant that the two theorems    *)
(* below need: what each worker holds in its cache is what its tests are   *)
(* named for, and every library that nothing tainted is whole, or has one  *)
(* builder.                                                                *)
THEOREM RunsInvHolds ==
    ASSUME OneModelPerClass
    PROVE  TestSpec => []RunsInv
<1>1. TestInit => RunsInv BY RunsInvInit
<1>2. RunsInv /\ [TestNext]_testVars => RunsInv' BY RunsInvStep
<1>. QED BY <1>1, <1>2, PTL DEF TestSpec

-----------------------------------------------------------------------------
(* What the model calls deserved and excused, in the words of the proof.   *)
LEMMA DeservesIs ==
    ASSUME NEW f \in DOMAIN Tests, NEW seed
    PROVE  Deserves(f, seed) = IF FailsBy(f, seed, Len(Tests[f]), version) THEN "fail" ELSE "pass"
<1>1. \A t \in Range(Tests[f]) : \E j \in 1 .. Len(Tests[f]) : t = Tests[f][j] BY TestsAre
<1>2. \A j \in 1 .. Len(Tests[f]) : Tests[f][j] \in Range(Tests[f]) BY TestsAre
<1>3. (\E t \in Range(Tests[f]) : <<ContentOf(t), seed>> \in Fails)
        <=> FailsBy(f, seed, Len(Tests[f]), version)
  BY <1>1, <1>2, NamesNow DEF FailsBy
<1>. QED BY <1>3 DEF Deserves

LEMMA ExcusedIs ==
    ASSUME NEW f
    PROVE  Excused(f) <=> f \in session.killed \/ Spoiled(f, version, tainted)
  BY NamesNow DEF Excused, Spoiled

(* Every verdict is the one that the file deserves, or a failure that a    *)
(* race for a library, or a kill, excuses: the caches of libraries in      *)
(* memory and on disk never turn a verdict around.                         *)
THEOREM NoVerdictIsTurned ==
    ASSUME OneModelPerClass
    PROVE  TestSpec => []VerdictsSound
<1>1. RunsInv => VerdictsSound
  <2> SUFFICES ASSUME RunsInv, NEW f \in DOMAIN session.results
               PROVE  \/ session.results[f] = Deserves(f, session.seeds[f])
                      \/ session.results[f] = "fail" /\ Excused(f)
    BY DEF VerdictsSound
  <2>1. /\ f \in Range(session.files)
        /\ SoundFor(session.results[f], f, session.seeds[f], version,
                    f \in session.killed \/ Spoiled(f, version, tainted))
    BY DEF RunsInv, ResultsOk
  <2>2. f \in DOMAIN Tests
    <3>1. session.files \in Seq(DOMAIN Tests)
      <4>1. session.files = <<>> \/ session.files \in Paths BY DEF RunsInv, FilesOk
      <4>2. <<>> \in Seq(DOMAIN Tests) OBVIOUS
      <4>. QED BY <4>1, <4>2, TestRunsAssumption
    <3>. QED BY <2>1, <3>1 DEF Range
  <2>. QED BY <2>1, <2>2, DeservesIs, ExcusedIs DEF SoundFor
<1>. QED BY <1>1, RunsInvHolds, PTL

(* A run without --seed repeats the verdicts of the last complete run as   *)
(* long as the sources are the same, whatever was interrupted in between   *)
(* and in whatever order workers take the files.                           *)
THEOREM ReplaysRepeat ==
    ASSUME OneModelPerClass
    PROVE  TestSpec => []ReplaysAgree
<1>1. RunsInv => ReplaysAgree
  <2> SUFFICES ASSUME RunsInv, NEW f \in DOMAIN session.results \cap DOMAIN last.results,
                      session.seed = None, version = last.version
               PROVE  session.results[f] = last.results[f] \/ Excused(f)
    BY DEF ReplaysAgree
  <2>1. /\ f \in Range(session.files)
        /\ SoundFor(session.results[f], f, session.seeds[f], version,
                    f \in session.killed \/ Spoiled(f, version, tainted))
    BY DEF RunsInv, ResultsOk
  <2>2. /\ f \in DOMAIN record
        /\ SoundFor(last.results[f], f, record[f], version, Spoiled(f, version, tainted))
    BY DEF RunsInv, LastOk
  <2>3. session.seeds[f] = record[f] BY <2>1, <2>2 DEF RunsInv, SeedsKept
  <2>. QED BY <2>1, <2>2, <2>3, ExcusedIs DEF SoundFor
<1>. QED BY <1>1, RunsInvHolds, PTL
=============================================================================
