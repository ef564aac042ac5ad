-------------------------------- MODULE TestRuns --------------------------------
(***************************************************************************)
(* Test files run by the worker processes of parallel_runner.py, and the   *)
(* libraries they compile and load: the caches of compile_model,           *)
(* compile_model_hier and compile_cysim (backend_csim.py) in the memory of *)
(* each process and in a directory that all of them share, where the       *)
(* compiler writes in place.  Processes are killed, runs interrupted,      *)
(* sources edited between the runs.                                        *)
(***************************************************************************)
EXTENDS Integers, FiniteSets, Sequences, Functions

CONSTANTS
  Tests,        \* of each test file, the sequence of its tests: [way, cls, params]
  Paths,        \* the files found in each directory that may be named, in order
  Jobs,         \* how many workers
  Seeds,        \* 0 .. some number
  Fails,        \* <<content, seed>>: with these a test fails
  MaxRuns, MaxDeaths, MaxEdits      \* bounds of a behaviour

ASSUME TestRunsAssumption ==
  /\ \A f \in DOMAIN Tests : Tests[f] # <<>> /\ Tests[f] \in Seq(Range(Tests[f]))
  /\ \A f \in DOMAIN Tests : \A t \in Range(Tests[f]) : t.way \in {"flat", "hier", "cysim"}
  /\ \A files \in Paths : files \in Seq(DOMAIN Tests) /\ files # <<>>
  /\ Jobs \in Nat \ {0}
  /\ MaxRuns \in Nat /\ MaxDeaths \in Nat /\ MaxEdits \in Nat

VARIABLES
  version,      \* of each class, which text its source has
  sources,      \* name -> "torn" or "whole": the C files in the shared directory
  disk,         \* name -> [by, state, content]: the libraries there
  proc,         \* the workers
  session,      \* the run: its files, seed option, seeds, queue, results
  record,       \* the file of seeds
  last,         \* the last run that came to its end
  tainted,      \* libraries looked for while being built, or whose builder was killed
  spent

testVars == <<version, sources, disk, proc, session, record, last, tainted, spent>>

Classes == {t.cls : t \in UNION {Range(Tests[f]) : f \in DOMAIN Tests}}
None == -1

\* The dictionary d after d[x] = y.
Put(d, x, y) == [z \in DOMAIN d \cup {x} |-> IF z = x THEN y ELSE d[z]]

-------------------------------------------------------------------------------
(* The names of libraries and the keys of the caches in memory.            *)

ContentOf(t) == <<t.cls, t.params, version[t.cls]>>

\* mutant: the name does not depend on what is in the library
LibNameUnhashed(kind, t) == <<kind, t.cls, "lib">>

\* The hash of the emitted C is part of the name.
LibName(kind, t) == <<kind, t.cls, ContentOf(t)>>

\* The key of _compile_cache; that of the hierarchical model has no parameters.
\* That of _cysim_cache has the hash.
CompileKey(kind, t) ==
  CASE kind = "flat" -> <<kind, t.cls, t.params>>
    [] kind = "hier" -> <<kind, t.cls>>
    [] kind = "cysim" -> LibName(kind, t)

\* What a test needs, the library that it loads last.
PlanOf(t) == IF t.way = "cysim" THEN <<"flat", "cysim">> ELSE <<t.way>>

-------------------------------------------------------------------------------
(* A worker: at, file, seed, index of the test, kinds still to get, cache, *)
(* the library being built, what the compiler read, and has a test failed. *)

Unused == [at |-> "free", file |-> "", seed |-> 0, test |-> 1, plan |-> <<>>, cache |-> <<>>,
         name |-> <<>>, text |-> "whole", bad |-> FALSE]

TestOf(w) == Tests[proc[w].file][proc[w].test]
KindOf(w) == Head(proc[w].plan)
BeginTest(p) == [p EXCEPT !.at = "look", !.plan = PlanOf(Tests[p.file][p.test])]
Builds(w, name) == proc[w].at \in {"write", "read", "cc"} /\ proc[w].name = name

\* The library `name' is there under the key: on to the next one, or to loading.
Got(w, key, name) ==
  LET p == [proc[w] EXCEPT !.cache = Put(@, key, name), !.name = name]
  IN IF Len(p.plan) > 1 THEN [p EXCEPT !.plan = Tail(@), !.at = "look"]
     ELSE [p EXCEPT !.at = "load"]

\* The cache in memory, then the directory; _cysim_cache does not save the look
\* into the directory.
LookUpLibrary(w) ==
  /\ proc[w].at = "look"
  /\ LET t == TestOf(w)
         key == CompileKey(KindOf(w), t)
         name == LibName(KindOf(w), t)
         known == key \in DOMAIN proc[w].cache /\ KindOf(w) # "cysim"
         there == name \in DOMAIN disk
         builds(at) == [proc[w] EXCEPT !.at = at, !.name = name, !.text = "whole"]
     IN /\ tainted' = tainted \cup {n \in {name} : \E v \in DOMAIN proc : v # w /\ Builds(v, n)}
        /\ \/ /\ known \/ there
              /\ LET found == IF known THEN proc[w].cache[key] ELSE name
                 IN proc' = [proc EXCEPT ![w] = Got(w, key, found)]
              /\ UNCHANGED sources
           \/ /\ ~known /\ ~there /\ KindOf(w) = "cysim"
              /\ proc' = [proc EXCEPT ![w] = builds("read")]
              /\ UNCHANGED sources
           \/ /\ ~known /\ ~there /\ KindOf(w) # "cysim"
              /\ proc' = [proc EXCEPT ![w] = builds("write")]
              /\ sources' = Put(sources, name, "torn")
  /\ UNCHANGED <<version, disk, session, record, last, spent>>

\* The C file is written and closed.
WriteSource(w) ==
  /\ proc[w].at = "write"
  /\ sources' = [sources EXCEPT ![proc[w].name] = "whole"]
  /\ proc' = [proc EXCEPT ![w].at = "read"]
  /\ UNCHANGED <<version, disk, session, record, last, tainted, spent>>

\* The compiler reads its source, which for cysim is in a directory of its own,
\* and begins its output in place of what was there.
StartCompiler(w) ==
  /\ proc[w].at = "read"
  /\ LET name == proc[w].name
         text == IF KindOf(w) = "cysim" THEN "whole" ELSE sources[name]
     IN
       /\ proc' = [proc EXCEPT ![w].at = "cc", ![w].text = text]
       /\ disk' = Put(disk, name, [by |-> w, state |-> "partial",
                                      content |-> ContentOf(TestOf(w))])
  /\ UNCHANGED <<version, sources, session, record, last, tainted, spent>>

\* A test is over; the next one of the file runs in the same process.
TestEnds(w, ok) ==
  LET p == [proc[w] EXCEPT !.bad = @ \/ ~ok, !.name = <<>>]
  IN IF p.test = Len(Tests[p.file]) THEN [p EXCEPT !.at = "exit"]
     ELSE BeginTest([p EXCEPT !.test = @ + 1])

\* The output is complete, unless another compiler has begun it anew.  A source
\* that was torn gives an empty library or an error.
EndCompiler(w) ==
  /\ proc[w].at = "cc"
  /\ LET name == proc[w].name
         mine == name \in DOMAIN disk /\ disk[name].by = w
         done(state) == IF mine THEN [disk EXCEPT ![name].state = state, ![name].by = 0]
                        ELSE disk
         got == proc' = [proc EXCEPT ![w] = Got(w, CompileKey(KindOf(w), TestOf(w)), name)]
     IN \/ proc[w].text = "whole" /\ disk' = done("whole") /\ got
        \/ proc[w].text = "torn" /\ disk' = done("empty") /\ got
        \/ /\ proc[w].text = "torn"
           /\ disk' = IF mine THEN Restrict(disk, DOMAIN disk \ {name}) ELSE disk
           /\ proc' = [proc EXCEPT ![w] = TestEnds(w, FALSE)]
  /\ UNCHANGED <<version, sources, session, record, last, tainted, spent>>

\* The library is loaded, and the test has its verdict.
LoadLibrary(w) ==
  /\ proc[w].at = "load"
  /\ LET name == proc[w].name
         loads == name \in DOMAIN disk /\ disk[name].state = "whole"
         passes == <<disk[name].content, proc[w].seed>> \notin Fails
     IN proc' = [proc EXCEPT ![w] = TestEnds(w, loads /\ passes)]
  /\ UNCHANGED <<version, sources, disk, session, record, last, tainted, spent>>

-------------------------------------------------------------------------------
(* run_parallel.                                                           *)

\* random.Random(seed), one number for each file in turn.
Spread(seed, files, f) == (seed + (CHOOSE i \in DOMAIN files : files[i] = f)) % Cardinality(Seeds)

\* mutant: what was recorded is not used
SeedsForFresh(files, seed, fresh) ==
  [f \in Range(files) |-> IF seed # None THEN Spread(seed, files, f) ELSE fresh]

SeedsFor(files, seed, fresh) ==
  [f \in Range(files) |-> IF seed # None THEN Spread(seed, files, f)
                         ELSE IF f \in DOMAIN record THEN record[f]
                         ELSE fresh]

NoRun == [files |-> <<>>, seeds |-> <<>>, queue |-> <<>>, results |-> <<>>,
         seed |-> None, killed |-> {}]

TestInit ==
  /\ version = [c \in Classes |-> 0]
  /\ sources = <<>> /\ disk = <<>>
  /\ proc = [w \in 1 .. Jobs |-> Unused]
  /\ session = NoRun
  /\ record = <<>>
  /\ last = [results |-> <<>>, version |-> version]
  /\ tainted = {}
  /\ spent = [runs |-> 0, deaths |-> 0, edits |-> 0]

BeginRun(files, seed, fresh) ==
  /\ session.files = <<>> /\ spent.runs < MaxRuns
  /\ session' = [NoRun EXCEPT !.files = files, !.queue = files,
                              !.seeds = SeedsFor(files, seed, fresh), !.seed = seed]
  /\ spent' = [spent EXCEPT !.runs = @ + 1]
  /\ UNCHANGED <<version, sources, disk, proc, record, last, tainted>>

\* The first worker that is free takes the next file into a new process.
TakeFile(w) ==
  /\ proc[w].at = "free" /\ session.queue # <<>>
  /\ \A v \in DOMAIN proc : proc[v].at = "free" => w <= v
  /\ LET f == Head(session.queue)
     IN proc' = [proc EXCEPT ![w] = BeginTest([Unused EXCEPT !.file = f,
                                                       !.seed = session.seeds[f]])]
  /\ session' = [session EXCEPT !.queue = Tail(@)]
  /\ UNCHANGED <<version, sources, disk, record, last, tainted, spent>>

\* as_completed: the verdict is the return code of the process.
Collect(w) ==
  /\ proc[w].at = "exit"
  /\ session' = [session EXCEPT !.results =
                   Put(@, proc[w].file, IF proc[w].bad THEN "fail" ELSE "pass")]
  /\ proc' = [proc EXCEPT ![w] = Unused]
  /\ UNCHANGED <<version, sources, disk, record, last, tainted, spent>>

\* All files are through; the seeds of this run replace the file.
EndRun ==
  /\ session.files # <<>> /\ session.queue = <<>>
  /\ \A w \in DOMAIN proc : proc[w].at = "free"
  /\ record' = session.seeds
  /\ last' = [results |-> Restrict(session.results, DOMAIN session.results \ session.killed),
              version |-> version]
  /\ session' = NoRun
  /\ UNCHANGED <<version, sources, disk, proc, tainted, spent>>

-------------------------------------------------------------------------------
(* Kills, interrupts and edits.  What a compiler that is killed leaves     *)
(* behind is up to it.                                                     *)

Compiling(W) == {proc[w].name : w \in {v \in W : proc[v].at \in {"write", "read", "cc"}}}

Die(w) ==
  /\ proc[w].at \notin {"free", "exit"} /\ spent.deaths < MaxDeaths
  /\ spent' = [spent EXCEPT !.deaths = @ + 1]
  /\ proc' = [proc EXCEPT ![w] = [@ EXCEPT !.at = "exit", !.name = <<>>, !.bad = TRUE]]
  /\ session' = [session EXCEPT !.killed = @ \cup {proc[w].file}]
  /\ tainted' = tainted \cup Compiling({w})
  /\ UNCHANGED <<version, sources, disk, record, last>>

\* Nothing of the run is recorded.
Interrupt ==
  /\ session.files # <<>> /\ spent.deaths < MaxDeaths
  /\ spent' = [spent EXCEPT !.deaths = @ + 1]
  /\ proc' = [w \in DOMAIN proc |-> Unused]
  /\ session' = NoRun
  /\ tainted' = tainted \cup Compiling(DOMAIN proc)
  /\ \E gone \in SUBSET {n \in DOMAIN disk : n \in Compiling({disk[n].by} \cap DOMAIN proc)} :
       disk' = Restrict(disk, DOMAIN disk \ gone)
  /\ UNCHANGED <<version, sources, record, last>>

Edit(c) ==
  /\ session.files = <<>> /\ spent.edits < MaxEdits
  /\ spent' = [spent EXCEPT !.edits = @ + 1]
  /\ version' = [version EXCEPT ![c] = 1 - @]
  /\ UNCHANGED <<sources, disk, proc, session, record, last, tainted>>

AllRun == session.files = <<>> /\ spent.runs = MaxRuns /\ UNCHANGED testVars

Works(w) == \/ LookUpLibrary(w) \/ WriteSource(w) \/ StartCompiler(w)
            \/ EndCompiler(w) \/ LoadLibrary(w)

TestNext ==
  \/ \E w \in DOMAIN proc : TakeFile(w) \/ Works(w) \/ Collect(w) \/ Die(w)
  \/ \E files \in Paths, seed \in Seeds \cup {None}, fresh \in Seeds :
       BeginRun(files, seed, fresh)
  \/ EndRun \/ Interrupt \/ AllRun
  \/ \E c \in Classes : Edit(c)

TestSpec == TestInit /\ [][TestNext]_testVars

-------------------------------------------------------------------------------
(* What a file deserves, and what may excuse another verdict.              *)

Deserves(f, seed) ==
  IF \E t \in Range(Tests[f]) : <<ContentOf(t), seed>> \in Fails THEN "fail" ELSE "pass"

Excused(f) ==
  \/ f \in session.killed
  \/ \E t \in Range(Tests[f]) : \E k \in Range(PlanOf(t)) : LibName(k, t) \in tainted

(* The caches never change a verdict: a file that passes would pass with   *)
(* libraries built afresh from the present sources, and one that fails     *)
(* would fail, unless two processes met at the first build of a library,   *)
(* or a builder was killed.                                                *)
VerdictsSound ==
  \A f \in DOMAIN session.results :
    LET deserved == Deserves(f, session.seeds[f]) IN
    session.results[f] = deserved \/ (session.results[f] = "fail" /\ Excused(f))

(* A run without --seed gives the files of the last complete run the       *)
(* verdicts they had then, as long as nobody edits what they test: their   *)
(* seeds survive runs that are interrupted, and come back whichever files  *)
(* run and whichever worker takes them.                                    *)
ReplaysAgree ==
  \A f \in DOMAIN session.results \cap DOMAIN last.results :
    session.seed = None /\ version = last.version =>
      session.results[f] = last.results[f] \/ Excused(f)
=================================================================================
