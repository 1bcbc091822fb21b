-------------------------- MODULE Experiments_proofs --------------------------
(***************************************************************************)
(* The safety properties of Experiments, for any scripts, contents of the  *)
(* binary, processes, exit codes and bounds.                               *)
(***************************************************************************)
EXTENDS Experiments, TLAPS

AtFiles == {"simulate", "read", "log"}

\* Two scripts at work in one directory are known to be.
Alone ==
  \A s, t \in Scripts :
    s # t /\ pc[s] \in AtFiles /\ pc[t] \in AtFiles /\ task[s].run = task[t].run
      => task[s].run \in shared

\* What a script has measured is a content, and is what its name says.
HeldElapsed ==
  \A s \in Scripts :
    pc[s] \in {"read", "log", "dump", "rename"} => held[s].elapsed \in Contents

\* The files of a script that is alone are its own.
OwnFilesOf(s) ==
  task[s].run \notin shared /\ task[s].run.dotrace =>
    /\ pc[s] = "simulate" => stdout[task[s].run] = "part"
    /\ pc[s] = "simulate" /\ sim[s] \in Contents => vcd[task[s].run] = "part"
    /\ pc[s] = "read" => vcd[task[s].run] = held[s].elapsed
    /\ pc[s] \in {"log", "dump", "rename"} => held[s].vcd = held[s].elapsed
    /\ pc[s] \in {"read", "log"} => stdout[task[s].run] = held[s].elapsed
    /\ pc[s] \in {"dump", "rename"} => held[s].stdout = held[s].elapsed
OwnFiles == \A s \in Scripts : OwnFilesOf(s)

\* The names of a script are those of the binary it works on, or have strayed.
OwnNamesOf(s) ==
  LET e == task[s].experiment
      r == task[s].run
  IN  /\ pc[s] = "experiment" => e.crc = binary \/ e \in strayed
      /\ pc[s] \notin {"idle", "experiment"} => r = e \/ e \in strayed
      /\ pc[s] \in {"run", "start", "spawn"} => r.crc = binary \/ r \in strayed
      /\ pc[s] = "simulate" =>
           /\ sim[s] \in {r.crc, "loading", "broken"} \/ r \in strayed
           /\ sim[s] = "loading" => r.crc = binary \/ r \in strayed
      /\ pc[s] \in {"read", "log", "dump", "rename"} =>
           held[s].elapsed = r.crc \/ r \in strayed
      /\ pc[s] = "store" => held[s].elapsed \in {r.crc, "none"} \/ r \in strayed
OwnNames == \A s \in Scripts : OwnNamesOf(s)

\* An output some script has found missing is missing until that script stores it, unless
\* two have met there.
Making(s) == pc[s] \notin {"idle", "experiment"}
MissingOf(s) ==
  /\ pc[s] \in MakingRun /\ task[s].run \notin met.runs => outfile[task[s].run] = NoRecord
  /\ Making(s) /\ task[s].experiment \notin met.results =>
       result[task[s].experiment] = NoRecord
MetOf(s, t) ==
  /\ pc[s] \in MakingRun /\ pc[t] \in MakingRun /\ task[s].run = task[t].run =>
       task[s].run \in met.runs
  /\ Making(s) /\ Making(t) /\ task[s].experiment = task[t].experiment =>
       task[s].experiment \in met.results
StillMissing ==
  \A s \in Scripts : MissingOf(s) /\ \A t \in Scripts \ {s} : MetOf(s, t)

\* Where the exit code of the recorded build is while the recorder runs.
RecorderKnows ==
  /\ recorded = 0 => record = NoFile
  /\ rec = "off" /\ child # "none" => child = "running" /\ recorded < builds
  /\ rec # "off" => recorded = builds /\ builds # 0
  /\ rec \in {"list", "sample", "poll"} => child = outcome[builds] /\ child # "none"
  /\ rec \in {"open", "dump"} =>
       /\ values.build = builds
       /\ values.final => child = "none" /\ values.code = outcome[builds]
       /\ ~values.final => child = outcome[builds] /\ child # "none"
-----------------------------------------------------------------------------
(* Names, records and files. *)
LEMMA NameType ==
  /\ \A c \in Contents, d \in BOOLEAN : RunName(c, d) \in Names
  /\ \A r \in Names : r.dotrace \in BOOLEAN /\ r.crc \in Contents
  /\ NoName \notin Names /\ NoName.dotrace = FALSE
  /\ \A c, d : RunName(c, d).crc = c
  /\ \A r \in Names : RunName(r.crc, r.dotrace) = r
BY ContentsAssumption DEF RunName, Names, NoName

LEMMA RecordType ==
  /\ NoRecord \in Records
  /\ \A c \in Contents \cup {"none"}, f, g \in Files : Record(c, f, g) \in Records
  /\ \A c, f, g :
       LET h == Record(c, f, g) IN h.elapsed = c /\ h.vcd = f /\ h.stdout = g
  /\ \A h \in Records :
       h.elapsed \in Contents \cup {"none"} /\ h.vcd \in Files /\ h.stdout \in Files
BY DEF Records, Record, NoRecord, Files, Absent

LEMMA TaskType ==
  /\ NoTask \in Tasks
  /\ \A e, r : TaskOf(e, r).experiment = e /\ TaskOf(e, r).run = r
  /\ \A e, r \in Names \cup {NoName} :
       TaskOf(e, r) \in Tasks
  /\ \A t \in Tasks :
       t.experiment \in Names \cup {NoName} /\ t.run \in Names \cup {NoName}
BY DEF TaskOf, Tasks, NoTask

LEMMA FileType ==
  /\ Absent \in Files
  /\ \A others : \A file \in Files : Opened(file, others) \in Files
  /\ \A file \in Files, c \in Contents : Closed(file, c) \in Files
BY DEF Files, Opened, Closed, Absent

ScriptStep(s) == Construct(s) \/ Step(s) \/ Kill(s)

LEMMA EndTyped ==
  ASSUME RunsTyped, NEW s \in Scripts, End(s),
         UNCHANGED <<binary, strayed, met>>,
         hsb' = hsb /\ vcd' = vcd, stdout' \in [Names -> Files], shared' \subseteq Names,
         outfile' \in [Names -> Records], result' \in [Names -> Records]
  PROVE  RunsTyped'
<1>1. NoRecord \in Records /\ NoTask \in Tasks
  BY RecordType, TaskType
<1> QED
  BY <1>1 DEF End, Go, RunsTyped, ScriptPCs

LEMMA RaiseTyped ==
  ASSUME RunsTyped, NEW s \in Scripts, Raise(s)
  PROVE  RunsTyped'
BY EndTyped DEF Raise, RunsTyped

LEMMA ScriptTyped ==
  ASSUME RunsTyped, NEW s \in Scripts, ScriptStep(s)
  PROVE  RunsTyped'
<1> USE DEF RunsTyped, ScriptPCs, Go
<1>1. CASE Construct(s)
  <2>1. PICK d \in BOOLEAN :
          task' = [task EXCEPT ![s] = TaskOf(RunName(binary, d), NoName)]
    BY <1>1 DEF Construct
  <2>2. RunName(binary, d) \in Names
    BY NameType
  <2>3. /\ TaskOf(RunName(binary, d), NoName) \in Tasks
        /\ TaskOf(RunName(binary, d), NoName).experiment \in Names
    BY <2>2, TaskType
  <2> QED
    BY <1>1, <2>1, <2>3 DEF Construct
<1>2. CASE ExperimentComplete(s)
  BY <1>2, EndTyped DEF ExperimentComplete
<1>3. CASE Requires(s)
  <2> DEFINE e == task[s].experiment
             r == RunName(binary, e.dotrace)
             results == IF MakingResult(e) = {} THEN met.results ELSE met.results \cup {e}
  <2>1. e \in Names /\ e.dotrace \in BOOLEAN
    BY <1>3, NameType DEF Requires
  <2>2. r \in Names
    BY <2>1, NameType
  <2>3. /\ TaskOf(e, r) \in Tasks
        /\ TaskOf(e, r).experiment \in Names /\ TaskOf(e, r).run \in Names
    BY <2>1, <2>2, TaskType
  <2>4. met' = [met EXCEPT !.results = results] /\ results \in SUBSET Names
    BY <1>3, <2>1 DEF Requires
  <2>5. met' \in [runs : SUBSET Names, results : SUBSET Names]
    <3> HIDE DEF results
    <3> QED
      BY <2>4
  <2> QED
    BY <1>3, <2>3, <2>5 DEF Requires
<1>4. CASE RunComplete(s)
  BY <1>4 DEF RunComplete
<1>5. CASE CheckHsb(s)
  <2>1. CASE Raise(s)
    BY <2>1, RaiseTyped
  <2>2. CASE ~Raise(s)
    <3> DEFINE runs == IF AtWork(task[s].run, MakingRun) = {} THEN met.runs
                                                             ELSE met.runs \cup {task[s].run}
    <3>1. task[s].run \in Names
      BY <1>5 DEF CheckHsb
    <3>2. met' = [met EXCEPT !.runs = runs] /\ runs \in SUBSET Names
      BY <1>5, <2>2, <3>1 DEF CheckHsb
    <3> HIDE DEF runs
    <3>3. met' \in [runs : SUBSET Names, results : SUBSET Names]
      BY <3>2
    <3> QED
      BY <1>5, <2>2, <3>1, <3>3 DEF CheckHsb
  <2> QED
    BY <2>1, <2>2
<1>6. CASE StartSimulation(s)
  BY <1>6, RaiseTyped DEF StartSimulation
<1>7. CASE Spawn(s)
  <2> DEFINE r == task[s].run
             others == AtWork(r, {"simulate"})
  <2>1. r \in Names
    BY <1>7 DEF Spawn
  <2>2. Opened(stdout[r], others) \in Files
    BY <2>1, FileType
  <2>3. stdout' \in [Names -> Files]
    BY <1>7, <2>1, <2>2 DEF Spawn
  <2>4. shared' \subseteq Names
    BY <1>7, <2>1 DEF Spawn
  <2>5. CASE End(s)
    BY <1>7, <2>3, <2>4, <2>5, EndTyped DEF Spawn
  <2>6. CASE ~End(s)
    <3>1. sim' = [sim EXCEPT ![s] = IF hsb = "built" THEN "loading" ELSE "broken"]
      BY <1>7, <2>6 DEF Spawn
    <3> QED
      BY <1>7, <2>1, <2>3, <2>4, <2>6, <3>1 DEF Spawn
  <2> QED
    BY <2>5, <2>6
<1>8. CASE Load(s)
  <2> DEFINE r == task[s].run
             others == {t \in AtWork(r, {"simulate"}) : sim[t] \in Contents}
  <2>1. r \in Names
    BY <1>8 DEF Load
  <2>2. Opened(vcd[r], others) \in Files
    BY <2>1, FileType
  <2>3. vcd' \in [Names -> Files]
    BY <1>8, <2>1, <2>2 DEF Load
  <2>4. sim' = [sim EXCEPT ![s] = binary] /\ binary # "none"
    BY <1>8, ContentsAssumption DEF Load
  <2> QED
    BY <1>8, <2>1, <2>3, <2>4 DEF Load
<1>9. CASE FinishSimulation(s)
  <2> DEFINE r == task[s].run
  <2>1. r \in Names /\ sim[s] \in Contents
    BY <1>9 DEF FinishSimulation
  <2>2. Closed(stdout[r], sim[s]) \in Files /\ Closed(vcd[r], sim[s]) \in Files
    BY <2>1, FileType
  <2>3. stdout' \in [Names -> Files] /\ vcd' \in [Names -> Files]
    BY <1>9, <2>1, <2>2 DEF FinishSimulation
  <2>4. Record(sim[s], Absent, Absent) \in Records
    BY <2>1, RecordType, FileType
  <2>5. held' \in [Scripts -> Records]
    BY <1>9, <2>4 DEF FinishSimulation
  <2> QED
    BY <1>9, <2>1, <2>3, <2>5 DEF FinishSimulation
<1>10. CASE FailSimulation(s)
  BY <1>10, RaiseTyped DEF FailSimulation
<1>11. CASE ReadTrace(s)
  <2>1. CASE Raise(s)
    BY <2>1, RaiseTyped
  <2>2. CASE ~Raise(s)
    <3> DEFINE f == IF Traced(s) THEN vcd[task[s].run] ELSE Absent
    <3>1. task[s].run \in Names
      BY <1>11 DEF ReadTrace
    <3>2. f \in Files
      BY <3>1, FileType
    <3>3. held[s].elapsed \in Contents \cup {"none"}
      BY RecordType
    <3>4. Record(held[s].elapsed, f, Absent) \in Records
      BY <3>2, <3>3, RecordType, FileType
    <3>5. held' = [held EXCEPT ![s] = Record(held[s].elapsed, f, Absent)]
      BY <1>11, <2>2 DEF ReadTrace
    <3> QED
      BY <1>11, <2>2, <3>1, <3>4, <3>5 DEF ReadTrace
  <2> QED
    BY <2>1, <2>2
<1>12. CASE RemoveTrace(s)
  <2>1. CASE Raise(s)
    BY <2>1, RaiseTyped
  <2>2. CASE ~Raise(s)
    <3> DEFINE f == IF Traced(s) THEN stdout[task[s].run] ELSE Absent
    <3>1. task[s].run \in Names
      BY <1>12 DEF RemoveTrace
    <3>2. f \in Files
      BY <3>1, FileType
    <3>3. held[s].elapsed \in Contents \cup {"none"} /\ held[s].vcd \in Files
      BY RecordType
    <3>4. Record(held[s].elapsed, held[s].vcd, f) \in Records
      BY <3>2, <3>3, RecordType
    <3>5. held' = [held EXCEPT ![s] = Record(held[s].elapsed, held[s].vcd, f)]
      BY <1>12, <2>2 DEF RemoveTrace
    <3>6. vcd' \in [Names -> Files]
      BY <1>12, <2>2, <3>1, FileType DEF RemoveTrace
    <3> QED
      BY <1>12, <2>2, <3>1, <3>4, <3>5, <3>6 DEF RemoveTrace
  <2> QED
    BY <2>1, <2>2
<1>13. CASE CheckRun(s)
  BY <1>13, RaiseTyped DEF CheckRun
<1>14. CASE StoreRun(s)
  BY <1>14 DEF StoreRun
<1>15. CASE CheckResult(s)
  <2>1. task[s].run \in Names
    BY <1>15 DEF CheckResult
  <2> QED
    BY <1>15, <2>1, RaiseTyped DEF CheckResult
<1>16. CASE StoreResult(s)
  BY <1>16, EndTyped DEF StoreResult
<1>17. CASE Kill(s)
  BY <1>17, RaiseTyped DEF Kill
<1> QED
  BY <1>1, <1>2, <1>3, <1>4, <1>5, <1>6, <1>7, <1>8, <1>9, <1>10,
     <1>11, <1>12, <1>13, <1>14, <1>15, <1>16, <1>17 DEF ScriptStep, Step

LEMMA AloneStep ==
  ASSUME RunsTyped, Alone, NEW s \in Scripts, ScriptStep(s)
  PROVE  Alone'
<1> USE DEF RunsTyped, Alone, AtFiles, Go, End, Raise
<1>1. CASE Construct(s)
  BY <1>1 DEF Construct
<1>2. CASE ExperimentComplete(s)
  BY <1>2 DEF ExperimentComplete
<1>3. CASE Requires(s)
  BY <1>3 DEF Requires
<1>4. CASE RunComplete(s)
  BY <1>4 DEF RunComplete
<1>5. CASE CheckHsb(s)
  BY <1>5 DEF CheckHsb
<1>6. CASE StartSimulation(s)
  BY <1>6 DEF StartSimulation
<1>7. CASE Spawn(s)
  <2>1. ASSUME NEW t \in Scripts, t # s, pc[t] \in AtFiles, task[s].run = task[t].run
        PROVE  task[s].run \in shared'
    <3>1. t \in AtWork(task[s].run, {"simulate", "read", "log"})
      BY <2>1 DEF AtWork
    <3> QED
      BY <1>7, <3>1 DEF Spawn
  <2>2. CASE End(s)
    BY <1>7, <2>2 DEF Spawn
  <2>3. CASE ~End(s)
    BY <1>7, <2>1, <2>3 DEF Spawn
  <2> QED
    BY <2>2, <2>3
<1>8. CASE Load(s)
  BY <1>8 DEF Load
<1>9. CASE FinishSimulation(s)
  BY <1>9 DEF FinishSimulation
<1>10. CASE FailSimulation(s)
  BY <1>10 DEF FailSimulation
<1>11. CASE ReadTrace(s)
  BY <1>11 DEF ReadTrace
<1>12. CASE RemoveTrace(s)
  BY <1>12 DEF RemoveTrace
<1>13. CASE CheckRun(s)
  BY <1>13 DEF CheckRun
<1>14. CASE StoreRun(s)
  BY <1>14 DEF StoreRun
<1>15. CASE CheckResult(s)
  BY <1>15 DEF CheckResult
<1>16. CASE StoreResult(s)
  BY <1>16 DEF StoreResult
<1>17. CASE Kill(s)
  BY <1>17 DEF Kill
<1> QED
  BY <1>1, <1>2, <1>3, <1>4, <1>5, <1>6, <1>7, <1>8, <1>9, <1>10,
     <1>11, <1>12, <1>13, <1>14, <1>15, <1>16, <1>17 DEF ScriptStep, Step

LEMMA HeldElapsedStep ==
  ASSUME RunsTyped, HeldElapsed, NEW s \in Scripts, ScriptStep(s)
  PROVE  HeldElapsed'
<1> USE DEF RunsTyped, HeldElapsed, Go, End, Raise
<1>1. CASE Construct(s)
  BY <1>1 DEF Construct
<1>2. CASE ExperimentComplete(s)
  BY <1>2 DEF ExperimentComplete
<1>3. CASE Requires(s)
  BY <1>3 DEF Requires
<1>4. CASE RunComplete(s)
  BY <1>4 DEF RunComplete
<1>5. CASE CheckHsb(s)
  BY <1>5 DEF CheckHsb
<1>6. CASE StartSimulation(s)
  BY <1>6 DEF StartSimulation
<1>7. CASE Spawn(s)
  BY <1>7 DEF Spawn
<1>8. CASE Load(s)
  BY <1>8 DEF Load
<1>9. CASE FinishSimulation(s)
  <2>1. Record(sim[s], Absent, Absent).elapsed = sim[s]
    BY RecordType
  <2> QED
    BY <1>9, <2>1 DEF FinishSimulation
<1>10. CASE FailSimulation(s)
  BY <1>10 DEF FailSimulation
<1>11. CASE ReadTrace(s)
  <2>1. \A f : Record(held[s].elapsed, f, Absent).elapsed = held[s].elapsed
    BY RecordType
  <2> QED
    BY <1>11, <2>1 DEF ReadTrace
<1>12. CASE RemoveTrace(s)
  <2>1. \A f : Record(held[s].elapsed, held[s].vcd, f).elapsed = held[s].elapsed
    BY RecordType
  <2> QED
    BY <1>12, <2>1 DEF RemoveTrace
<1>13. CASE CheckRun(s)
  BY <1>13 DEF CheckRun
<1>14. CASE StoreRun(s)
  BY <1>14 DEF StoreRun
<1>15. CASE CheckResult(s)
  BY <1>15 DEF CheckResult
<1>16. CASE StoreResult(s)
  BY <1>16 DEF StoreResult
<1>17. CASE Kill(s)
  BY <1>17 DEF Kill
<1> QED
  BY <1>1, <1>2, <1>3, <1>4, <1>5, <1>6, <1>7, <1>8, <1>9, <1>10,
     <1>11, <1>12, <1>13, <1>14, <1>15, <1>16, <1>17 DEF ScriptStep, Step

LEMMA OwnFilesStep ==
  ASSUME RunsTyped, Alone, HeldElapsed, OwnFiles, NEW s \in Scripts, ScriptStep(s)
  PROVE  OwnFiles'
<1> USE DEF OwnFiles, OwnFilesOf, RunsTyped, Go, End, Raise, Traced
<1>1. CASE Construct(s)
  BY <1>1 DEF Construct
<1>2. CASE ExperimentComplete(s)
  BY <1>2 DEF ExperimentComplete
<1>3. CASE Requires(s)
  BY <1>3 DEF Requires
<1>4. CASE RunComplete(s)
  BY <1>4 DEF RunComplete
<1>5. CASE CheckHsb(s)
  BY <1>5 DEF CheckHsb
<1>6. CASE StartSimulation(s)
  BY <1>6 DEF StartSimulation
<1>7. CASE Spawn(s)
  <2> DEFINE r == task[s].run
  <2>1. r \in Names /\ shared \subseteq shared' /\ pc'[s] \in {"simulate", "idle"}
    BY <1>7 DEF Spawn
  <2>2. ASSUME r \notin shared', r.dotrace
        PROVE  stdout'[r] = "part"
    <3>1. AtWork(r, {"simulate", "read", "log"}) = {}
      BY <1>7, <2>2 DEF Spawn
    <3>2. AtWork(r, {"simulate"}) = {}
      BY <3>1 DEF AtWork
    <3> QED
      BY <1>7, <2>1, <2>2, <3>2 DEF Spawn, Opened
  <2>3. ASSUME NEW t \in Scripts, t # s, pc[t] \in AtFiles, task[t].run = r
        PROVE  r \in shared'
    <3>1. t \in AtWork(r, {"simulate", "read", "log"})
      BY <2>3 DEF AtWork, AtFiles
    <3> QED
      BY <1>7, <3>1 DEF Spawn
  <2>4. vcd' = vcd /\ \A q \in Names \ {r} : stdout'[q] = stdout[q]
    BY <1>7 DEF Spawn
  <2>5. \A t \in Scripts \ {s} :
          pc'[t] = pc[t] /\ held'[t] = held[t] /\ task'[t] = task[t] /\ sim'[t] = sim[t]
    BY <1>7 DEF Spawn
  <2>6. OwnFilesOf(s)'
    <3>1. CASE End(s)
      BY <3>1 DEF OwnFilesOf
    <3>2. CASE ~End(s)
      <4>1. task' = task /\ sim'[s] \in {"loading", "broken"}
        BY <1>7, <3>2 DEF Spawn
      <4>2. sim'[s] \notin Contents
        BY <4>1, ContentsAssumption
      <4> QED
        BY <2>1, <2>2, <4>1, <4>2 DEF OwnFilesOf
    <3> QED
      BY <3>1, <3>2
  <2>7. ASSUME NEW t \in Scripts, t # s
        PROVE  OwnFilesOf(t)'
    <3>1. CASE pc[t] \in AtFiles /\ task[t].run = r
      BY <2>3, <2>5, <2>7, <3>1 DEF OwnFilesOf
    <3>2. CASE pc[t] \in AtFiles /\ task[t].run # r
      <4>1. task[t].run \in Names \ {r}
        BY <3>2 DEF AtFiles
      <4> QED
        BY <2>1, <2>4, <2>5, <2>7, <3>2, <4>1 DEF OwnFilesOf
    <3>3. CASE pc[t] \notin AtFiles
      BY <2>1, <2>5, <2>7, <3>3 DEF OwnFilesOf, AtFiles
    <3> QED
      BY <3>1, <3>2, <3>3
  <2> QED
    BY <2>6, <2>7
<1>8. CASE Load(s)
  <2> DEFINE r == task[s].run
             others == {t \in AtWork(r, {"simulate"}) : sim[t] \in Contents}
  <2>1. r \in Names /\ UNCHANGED <<pc, held, task, stdout, shared>>
    BY <1>8 DEF Load
  <2>2. ASSUME NEW t \in Scripts, t # s, pc[t] \in AtFiles, task[t].run = r
        PROVE  r \in shared
    BY <1>8, <2>2 DEF Load, Alone, AtFiles
  <2>3. ASSUME r \notin shared, r.dotrace
        PROVE  vcd'[r] = "part"
    <3>1. others = {}
      <4>1. s \notin others
        BY <1>8, ContentsAssumption DEF Load
      <4>2. \A t \in others : t \in Scripts /\ pc[t] \in AtFiles /\ task[t].run = r
        BY DEF AtWork, AtFiles
      <4> QED
        BY <2>2, <2>3, <4>1, <4>2
    <3> QED
      BY <1>8, <2>1, <2>3, <3>1 DEF Load, Opened
  <2>4. \A q \in Names \ {r} : vcd'[q] = vcd[q]
    BY <1>8 DEF Load
  <2>5. \A t \in Scripts \ {s} : sim'[t] = sim[t]
    BY <1>8 DEF Load
  <2>6. OwnFilesOf(s)'
    BY <1>8, <2>1, <2>3 DEF OwnFilesOf, Load
  <2>7. ASSUME NEW t \in Scripts, t # s
        PROVE  OwnFilesOf(t)'
    <3>1. CASE pc[t] \in AtFiles /\ task[t].run # r
      <4>1. task[t].run \in Names \ {r}
        BY <3>1 DEF AtFiles
      <4> QED
        BY <2>1, <2>4, <2>5, <2>7, <4>1 DEF OwnFilesOf
    <3>2. CASE ~(pc[t] \in AtFiles /\ task[t].run # r)
      BY <2>1, <2>2, <2>7, <3>2 DEF OwnFilesOf, AtFiles
    <3> QED
      BY <3>1, <3>2
  <2> QED
    BY <2>6, <2>7
<1>9. CASE FinishSimulation(s)
  <2> DEFINE r == task[s].run
  <2>1. r \in Names /\ task' = task /\ shared' = shared /\ pc'[s] = "read"
    BY <1>9 DEF FinishSimulation
  <2>2. held'[s].elapsed = sim[s]
    BY <1>9, RecordType DEF FinishSimulation
  <2>3. ASSUME r \notin shared, r.dotrace
        PROVE  vcd'[r] = sim[s] /\ stdout'[r] = sim[s]
    BY <1>9, <2>1, <2>3 DEF FinishSimulation, Closed, OwnFilesOf
  <2>4. \A q \in Names \ {r} : vcd'[q] = vcd[q] /\ stdout'[q] = stdout[q]
    BY <1>9 DEF FinishSimulation
  <2>5. \A t \in Scripts \ {s} : pc'[t] = pc[t] /\ held'[t] = held[t] /\ sim'[t] = sim[t]
    BY <1>9 DEF FinishSimulation
  <2>6. ASSUME NEW t \in Scripts, t # s, pc[t] \in AtFiles, task[t].run = r
        PROVE  r \in shared
    BY <1>9, <2>6 DEF FinishSimulation, Alone, AtFiles
  <2>7. OwnFilesOf(s)'
    BY <2>1, <2>2, <2>3 DEF OwnFilesOf
  <2>8. ASSUME NEW t \in Scripts, t # s
        PROVE  OwnFilesOf(t)'
    <3>1. CASE pc[t] \in AtFiles /\ task[t].run # r
      <4>1. task[t].run \in Names \ {r}
        BY <3>1 DEF AtFiles
      <4> QED
        BY <2>1, <2>4, <2>5, <2>8, <4>1 DEF OwnFilesOf
    <3>2. CASE ~(pc[t] \in AtFiles /\ task[t].run # r)
      BY <2>1, <2>5, <2>6, <2>8, <3>2 DEF OwnFilesOf, AtFiles
    <3> QED
      BY <3>1, <3>2
  <2> QED
    BY <2>7, <2>8
<1>10. CASE FailSimulation(s)
  BY <1>10 DEF FailSimulation
<1>11. CASE ReadTrace(s)
  <2>1. CASE Raise(s)
    BY <2>1
  <2>2. CASE ~Raise(s)
    <3> DEFINE f == IF Traced(s) THEN vcd[task[s].run] ELSE Absent
    <3>1. held' = [held EXCEPT ![s] = Record(held[s].elapsed, f, Absent)]
      BY <1>11, <2>2 DEF ReadTrace
    <3>2. held'[s].elapsed = held[s].elapsed /\ held'[s].vcd = f
      BY <3>1, RecordType
    <3> QED
      BY <1>11, <2>2, <3>1, <3>2 DEF ReadTrace, OwnFilesOf
  <2> QED
    BY <2>1, <2>2
<1>12. CASE RemoveTrace(s)
  <2>1. CASE Raise(s)
    BY <2>1
  <2>2. CASE ~Raise(s)
    <3> DEFINE r == task[s].run
               f == IF Traced(s) THEN stdout[r] ELSE Absent
    <3>1. held' = [held EXCEPT ![s] = Record(held[s].elapsed, held[s].vcd, f)]
      BY <1>12, <2>2 DEF RemoveTrace
    <3>2. /\ held'[s].elapsed = held[s].elapsed
          /\ held'[s].vcd = held[s].vcd
          /\ held'[s].stdout = f
      BY <3>1, RecordType
    <3>3. task' = task /\ shared' = shared /\ stdout' = stdout /\ pc'[s] = "dump"
      BY <1>12, <2>2 DEF RemoveTrace
    <3>4. OwnFilesOf(s)'
      BY <1>12, <3>2, <3>3 DEF OwnFilesOf, RemoveTrace
    <3>5. ASSUME NEW t \in Scripts, t # s
          PROVE  OwnFilesOf(t)'
      <4>1. pc'[t] = pc[t] /\ held'[t] = held[t] /\ sim'[t] = sim[t]
        BY <1>12, <2>2, <3>1, <3>5 DEF RemoveTrace
      <4>2. CASE pc[t] \in AtFiles /\ task[t].run # r
        <5>1. vcd'[task[t].run] = vcd[task[t].run]
          BY <1>12, <2>2, <4>2 DEF RemoveTrace, AtFiles
        <5> QED
          BY <3>3, <4>1, <5>1 DEF OwnFilesOf
      <4>3. CASE pc[t] \in AtFiles /\ task[t].run = r
        <5>1. r \in shared
          BY <1>12, <3>5, <4>3 DEF RemoveTrace, Alone, AtFiles
        <5> QED
          BY <3>3, <4>3, <5>1 DEF OwnFilesOf
      <4>4. CASE pc[t] \notin AtFiles
        BY <3>3, <4>1, <4>4 DEF OwnFilesOf, AtFiles
      <4> QED
        BY <4>2, <4>3, <4>4
    <3> QED
      BY <3>4, <3>5
  <2> QED
    BY <2>1, <2>2
<1>13. CASE CheckRun(s)
  BY <1>13 DEF CheckRun
<1>14. CASE StoreRun(s)
  BY <1>14 DEF StoreRun
<1>15. CASE CheckResult(s)
  BY <1>15 DEF CheckResult
<1>16. CASE StoreResult(s)
  BY <1>16 DEF StoreResult
<1>17. CASE Kill(s)
  BY <1>17 DEF Kill
<1> QED
  BY <1>1, <1>2, <1>3, <1>4, <1>5, <1>6, <1>7, <1>8, <1>9, <1>10,
     <1>11, <1>12, <1>13, <1>14, <1>15, <1>16, <1>17 DEF ScriptStep, Step

LEMMA OutputsCompleteStep ==
  ASSUME RunsTyped, HeldElapsed, OwnFiles, OutputsComplete, NEW s \in Scripts, ScriptStep(s)
  PROVE  OutputsComplete'
<1> USE DEF OutputsComplete, Complete, RunsTyped, Go, End, Raise
<1>1. CASE Construct(s)
  BY <1>1 DEF Construct
<1>2. CASE ExperimentComplete(s)
  BY <1>2 DEF ExperimentComplete
<1>3. CASE Requires(s)
  BY <1>3 DEF Requires
<1>4. CASE RunComplete(s)
  BY <1>4 DEF RunComplete
<1>5. CASE CheckHsb(s)
  BY <1>5 DEF CheckHsb
<1>6. CASE StartSimulation(s)
  BY <1>6 DEF StartSimulation
<1>7. CASE Spawn(s)
  BY <1>7 DEF Spawn
<1>8. CASE Load(s)
  BY <1>8 DEF Load
<1>9. CASE FinishSimulation(s)
  BY <1>9 DEF FinishSimulation
<1>10. CASE FailSimulation(s)
  BY <1>10 DEF FailSimulation
<1>11. CASE ReadTrace(s)
  BY <1>11 DEF ReadTrace
<1>12. CASE RemoveTrace(s)
  BY <1>12 DEF RemoveTrace
<1>13. CASE CheckRun(s)
  BY <1>13 DEF CheckRun
<1>14. CASE StoreRun(s)
  <2>1. task[s].run \notin shared => Complete(task[s].run, held[s])
    BY <1>14 DEF StoreRun, HeldElapsed, OwnFiles, OwnFilesOf
  <2> QED
    BY <1>14, <2>1 DEF StoreRun
<1>15. CASE CheckResult(s)
  BY <1>15 DEF CheckResult
<1>16. CASE StoreResult(s)
  BY <1>16 DEF StoreResult
<1>17. CASE Kill(s)
  BY <1>17 DEF Kill
<1> QED
  BY <1>1, <1>2, <1>3, <1>4, <1>5, <1>6, <1>7, <1>8, <1>9, <1>10,
     <1>11, <1>12, <1>13, <1>14, <1>15, <1>16, <1>17 DEF ScriptStep, Step

LEMMA OwnNamesStep ==
  ASSUME RunsTyped, OwnNames, OutputsBelongToNames, NEW s \in Scripts, ScriptStep(s)
  PROVE  OwnNames'
<1> USE DEF OwnNames, OwnNamesOf, RunsTyped, Go, End, Raise
<1>1. CASE Construct(s)
  <2>1. PICK d \in BOOLEAN :
          task' = [task EXCEPT ![s] = TaskOf(RunName(binary, d), NoName)]
    BY <1>1 DEF Construct
  <2>2. task'[s].experiment.crc = binary
    BY <2>1, TaskType, NameType
  <2> QED
    BY <1>1, <2>1, <2>2 DEF Construct
<1>2. CASE ExperimentComplete(s)
  BY <1>2 DEF ExperimentComplete
<1>3. CASE Requires(s)
  <2> DEFINE e == task[s].experiment
             r == RunName(binary, e.dotrace)
  <2>1. task'[s].experiment = e /\ task'[s].run = r
    BY <1>3, TaskType DEF Requires
  <2>2. r.crc = binary /\ (e.crc = binary => r = e)
    BY <1>3, NameType DEF Requires
  <2>3. OwnNamesOf(s)'
    BY <1>3, <2>1, <2>2 DEF Requires
  <2> QED
    BY <1>3, <2>3 DEF Requires
<1>4. CASE RunComplete(s)
  BY <1>4 DEF RunComplete
<1>5. CASE CheckHsb(s)
  BY <1>5 DEF CheckHsb
<1>6. CASE StartSimulation(s)
  BY <1>6 DEF StartSimulation
<1>7. CASE Spawn(s)
  BY <1>7 DEF Spawn
<1>8. CASE Load(s)
  <2>1. OwnNamesOf(s)'
    BY <1>8 DEF Load
  <2> QED
    BY <1>8, <2>1 DEF Load
<1>9. CASE FinishSimulation(s)
  <2>1. held'[s].elapsed = sim[s] /\ sim[s] \notin {"loading", "broken"}
    BY <1>9, RecordType, ContentsAssumption DEF FinishSimulation
  <2> QED
    BY <1>9, <2>1 DEF FinishSimulation
<1>10. CASE FailSimulation(s)
  BY <1>10 DEF FailSimulation
<1>11. CASE ReadTrace(s)
  <2>1. \A f : Record(held[s].elapsed, f, Absent).elapsed = held[s].elapsed
    BY RecordType
  <2> QED
    BY <1>11, <2>1 DEF ReadTrace
<1>12. CASE RemoveTrace(s)
  <2>1. \A f : Record(held[s].elapsed, held[s].vcd, f).elapsed = held[s].elapsed
    BY RecordType
  <2> QED
    BY <1>12, <2>1 DEF RemoveTrace
<1>13. CASE CheckRun(s)
  BY <1>13 DEF CheckRun
<1>14. CASE StoreRun(s)
  BY <1>14 DEF StoreRun
<1>15. CASE CheckResult(s)
  <2>1. CASE Raise(s)
    BY <1>15, <2>1
  <2>2. CASE ~Raise(s)
    <3>1. task[s].run \in Names /\ pc[s] = "reduce" /\ pc'[s] = "store"
      BY <1>15, <2>2 DEF CheckResult
    <3>2. /\ held'[s] = outfile[task[s].run]
          /\ UNCHANGED <<task, sim, binary, strayed>>
      BY <1>15, <2>2 DEF CheckResult
    <3>3. OwnNamesOf(s)'
      BY <3>1, <3>2 DEF OutputsBelongToNames
    <3> QED
      BY <1>15, <2>2, <3>2, <3>3 DEF CheckResult
  <2> QED
    BY <2>1, <2>2
<1>16. CASE StoreResult(s)
  BY <1>16 DEF StoreResult
<1>17. CASE Kill(s)
  BY <1>17 DEF Kill
<1> QED
  BY <1>1, <1>2, <1>3, <1>4, <1>5, <1>6, <1>7, <1>8, <1>9, <1>10,
     <1>11, <1>12, <1>13, <1>14, <1>15, <1>16, <1>17 DEF ScriptStep, Step

LEMMA NamesStep ==
  ASSUME RunsTyped, OwnNames, OutputsBelongToNames, NEW s \in Scripts, ScriptStep(s)
  PROVE  OutputsBelongToNames'
<1> USE DEF OutputsBelongToNames, RunsTyped, Go, End, Raise
<1>1. CASE Construct(s)
  BY <1>1 DEF Construct
<1>2. CASE ExperimentComplete(s)
  BY <1>2 DEF ExperimentComplete
<1>3. CASE Requires(s)
  BY <1>3 DEF Requires
<1>4. CASE RunComplete(s)
  BY <1>4 DEF RunComplete
<1>5. CASE CheckHsb(s)
  BY <1>5 DEF CheckHsb
<1>6. CASE StartSimulation(s)
  BY <1>6 DEF StartSimulation
<1>7. CASE Spawn(s)
  BY <1>7 DEF Spawn
<1>8. CASE Load(s)
  BY <1>8 DEF Load
<1>9. CASE FinishSimulation(s)
  BY <1>9 DEF FinishSimulation
<1>10. CASE FailSimulation(s)
  BY <1>10 DEF FailSimulation
<1>11. CASE ReadTrace(s)
  BY <1>11 DEF ReadTrace
<1>12. CASE RemoveTrace(s)
  BY <1>12 DEF RemoveTrace
<1>13. CASE CheckRun(s)
  BY <1>13 DEF CheckRun
<1>14. CASE StoreRun(s)
  BY <1>14 DEF StoreRun, OwnNames, OwnNamesOf
<1>15. CASE CheckResult(s)
  BY <1>15 DEF CheckResult
<1>16. CASE StoreResult(s)
  BY <1>16 DEF StoreResult, OwnNames, OwnNamesOf
<1>17. CASE Kill(s)
  BY <1>17 DEF Kill
<1> QED
  BY <1>1, <1>2, <1>3, <1>4, <1>5, <1>6, <1>7, <1>8, <1>9, <1>10,
     <1>11, <1>12, <1>13, <1>14, <1>15, <1>16, <1>17 DEF ScriptStep, Step
LEMMA StillMissingStep ==
  ASSUME RunsTyped, StillMissing, NEW s \in Scripts, ScriptStep(s)
  PROVE  StillMissing'
<1> USE DEF StillMissing, MissingOf, MetOf, Making, MakingRun, RunsTyped, Go, End, Raise
<1>1. CASE Construct(s)
  BY <1>1 DEF Construct
<1>2. CASE ExperimentComplete(s)
  BY <1>2 DEF ExperimentComplete
<1>3. CASE Requires(s)
  <2> DEFINE e == task[s].experiment
             r == RunName(binary, e.dotrace)
  <2>1. e \in Names /\ task'[s].experiment = e /\ pc' = [pc EXCEPT ![s] = "run"]
    BY <1>3, TaskType DEF Requires
  <2>2. /\ met'.runs = met.runs /\ met.results \subseteq met'.results
        /\ MakingResult(e) # {} => e \in met'.results
    BY <1>3 DEF Requires
  <2>3. ASSUME NEW t \in Scripts, t # s, Making(t), task[t].experiment = e
        PROVE  e \in met'.results
    <3>1. t \in MakingResult(e)
      BY <2>3 DEF MakingResult
    <3> QED
      BY <2>2, <3>1
  <2>4. \A t \in Scripts \ {s} : task'[t] = task[t]
    BY <1>3 DEF Requires
  <2>5. UNCHANGED <<outfile, result>> /\ result[e] = NoRecord
    BY <1>3 DEF Requires
  <2>6. MissingOf(s)'
    BY <2>1, <2>5
  <2>7. ASSUME NEW t \in Scripts, t # s
        PROVE  MissingOf(t)' /\ MetOf(s, t)' /\ MetOf(t, s)'
    BY <2>1, <2>2, <2>3, <2>4, <2>5, <2>7
  <2>8. ASSUME NEW t \in Scripts, NEW u \in Scripts, t # s, u # s, t # u
        PROVE  MetOf(t, u)'
    BY <2>1, <2>2, <2>4, <2>8
  <2> QED
    BY <2>6, <2>7, <2>8
<1>4. CASE RunComplete(s)
  BY <1>4 DEF RunComplete
<1>5. CASE CheckHsb(s)
  <2>1. CASE Raise(s)
    BY <1>5, <2>1
  <2>2. CASE ~Raise(s)
    <3> DEFINE r == task[s].run
    <3>1. /\ r \in Names /\ outfile[r] = NoRecord /\ pc[s] = "run"
          /\ pc' = [pc EXCEPT ![s] = "start"] /\ UNCHANGED <<task, outfile, result>>
      BY <1>5, <2>2 DEF CheckHsb
    <3>2. /\ met'.results = met.results /\ met.runs \subseteq met'.runs
          /\ AtWork(r, MakingRun) # {} => r \in met'.runs
      BY <1>5, <2>2 DEF CheckHsb
    <3>3. ASSUME NEW t \in Scripts, t # s, pc[t] \in MakingRun, task[t].run = r
          PROVE  r \in met'.runs
      <4>1. t \in AtWork(r, MakingRun)
        BY <3>3 DEF AtWork
      <4> QED
        BY <3>2, <4>1
    <3>4. MissingOf(s)'
      BY <3>1, <3>2
    <3>5. ASSUME NEW t \in Scripts, t # s
          PROVE  MissingOf(t)' /\ MetOf(s, t)' /\ MetOf(t, s)'
      BY <3>1, <3>2, <3>3, <3>5
    <3>6. ASSUME NEW t \in Scripts, NEW u \in Scripts, t # s, u # s, t # u
          PROVE  MetOf(t, u)'
      BY <3>1, <3>2, <3>6
    <3> QED
      BY <3>4, <3>5, <3>6
  <2> QED
    BY <2>1, <2>2
<1>6. CASE StartSimulation(s)
  BY <1>6 DEF StartSimulation
<1>7. CASE Spawn(s)
  BY <1>7 DEF Spawn
<1>8. CASE Load(s)
  BY <1>8 DEF Load
<1>9. CASE FinishSimulation(s)
  BY <1>9 DEF FinishSimulation
<1>10. CASE FailSimulation(s)
  BY <1>10 DEF FailSimulation
<1>11. CASE ReadTrace(s)
  BY <1>11 DEF ReadTrace
<1>12. CASE RemoveTrace(s)
  BY <1>12 DEF RemoveTrace
<1>13. CASE CheckRun(s)
  BY <1>13 DEF CheckRun
<1>14. CASE StoreRun(s)
  BY <1>14 DEF StoreRun
<1>15. CASE CheckResult(s)
  BY <1>15 DEF CheckResult
<1>16. CASE StoreResult(s)
  BY <1>16 DEF StoreResult
<1>17. CASE Kill(s)
  BY <1>17 DEF Kill
<1> QED
  BY <1>1, <1>2, <1>3, <1>4, <1>5, <1>6, <1>7, <1>8, <1>9, <1>10,
     <1>11, <1>12, <1>13, <1>14, <1>15, <1>16, <1>17 DEF ScriptStep, Step
-----------------------------------------------------------------------------
(* The scripts' part of the invariant. *)
RunsInv ==
  /\ RunsTyped /\ Alone /\ HeldElapsed /\ OwnFiles /\ OutputsComplete
  /\ OwnNames /\ OutputsBelongToNames /\ StillMissing

LEMMA RunsInitially == RunsInit /\ hsb \in {Absent, "built"} => RunsInv
<1> SUFFICES ASSUME RunsInit, hsb \in {Absent, "built"}
             PROVE  RunsInv
  OBVIOUS
<1>1. RunsTyped
  BY ContentsAssumption, RecordType, TaskType, FileType
     DEF RunsInit, RunsTyped, ScriptPCs
<1>2. Alone /\ HeldElapsed
  BY DEF RunsInit, Alone, HeldElapsed, AtFiles
<1>3. OwnFiles /\ OwnNames
  BY DEF RunsInit, OwnFiles, OwnFilesOf, OwnNames, OwnNamesOf
<1>4. OutputsComplete
  BY DEF RunsInit, OutputsComplete
<1>5. NoRecord.elapsed = "none"
  BY RecordType DEF NoRecord
<1>6. OutputsBelongToNames
  BY <1>5 DEF RunsInit, OutputsBelongToNames
<1>7. StillMissing
  BY DEF RunsInit, StillMissing, MissingOf, MetOf, Making, MakingRun
<1> QED
  BY <1>1, <1>2, <1>3, <1>4, <1>6, <1>7 DEF RunsInv

LEMMA ScriptInv ==
  ASSUME RunsInv, NEW s \in Scripts, ScriptStep(s)
  PROVE  RunsInv'
<1> USE DEF RunsInv
<1>1. RunsTyped'
  BY ScriptTyped
<1>2. Alone'
  BY AloneStep
<1>3. HeldElapsed'
  BY HeldElapsedStep
<1>4. OwnFiles'
  BY OwnFilesStep
<1>5. OutputsComplete'
  BY OutputsCompleteStep
<1>6. OwnNames'
  BY OwnNamesStep
<1>7. OutputsBelongToNames'
  BY NamesStep
<1>8. StillMissing'
  BY StillMissingStep
<1> QED
  BY <1>1, <1>2, <1>3, <1>4, <1>5, <1>6, <1>7, <1>8

LEMMA RecompileInv ==
  ASSUME RunsInv, Recompile
  PROVE  RunsInv'
<1> USE DEF RunsInv, Recompile, NamesInUse
<1>1. RunsTyped' /\ strayed \subseteq strayed'
  BY DEF RunsTyped
<1>2. Alone' /\ HeldElapsed' /\ OutputsComplete'
  BY DEF Alone, HeldElapsed, OutputsComplete
<1>3. OwnFiles'
  BY DEF OwnFiles, OwnFilesOf
<1>4. ASSUME NEW s \in Scripts PROVE OwnNamesOf(s)'
  <2>1. pc[s] \in {"experiment", "run", "start", "spawn"} =>
          /\ task[s].experiment \in strayed'
          /\ pc[s] # "experiment" => task[s].run \in strayed'
    BY DEF RunsTyped
  <2>2. pc[s] = "simulate" /\ sim[s] = "loading" => task[s].run \in strayed'
    BY DEF RunsTyped
  <2> QED
    BY <1>1, <1>4, <2>1, <2>2 DEF OwnNames, OwnNamesOf, RunsTyped, ScriptPCs
<1>5. OutputsBelongToNames'
  BY <1>1 DEF OutputsBelongToNames
<1>6. StillMissing'
  BY DEF StillMissing, MissingOf, MetOf, Making
<1> QED
  BY <1>1, <1>2, <1>3, <1>4, <1>5, <1>6 DEF OwnNames

\* The binary of the hardware simulation is no part of the other conjuncts.
LEMMA HsbInv ==
  ASSUME RunsInv, hsb' \in {Absent, "part", "built"},
         UNCHANGED <<pc, held, task, sim, binary, vcd, stdout, outfile, result, strayed,
                     shared, met>>
  PROVE  RunsInv'
BY DEF RunsInv, RunsTyped, Alone, HeldElapsed, OwnFiles, OwnFilesOf, OutputsComplete,
       OwnNames, OwnNamesOf, OutputsBelongToNames, StillMissing, MissingOf, MetOf, Making
-----------------------------------------------------------------------------
(* The recorder's part. *)
RecordInv == RecordTyped /\ RecorderKnows /\ RecorderLeavesFinalRecord

BuildStep ==
  \/ \E log \in BOOLEAN : StartBuild(log) \/ BuildMissing(log)
  \/ \E h \in Helpers : HelperStarts(h) \/ HelperExits(h)
  \/ \E code \in BuildCodes : BuildExits(code)
  \/ KillBuild \/ Recorder \/ Collect

LEMMA FileRecords ==
  /\ NoFile \in RecordFiles /\ PartFile \in RecordFiles
  /\ ~NoFile.final
  /\ \A b \in 1 .. MaxBuilds, c \in BuildCodes :
       [build |-> b, final |-> TRUE, code |-> c] \in RecordFiles
  /\ \A b \in 1 .. MaxBuilds :
       [build |-> b, final |-> FALSE, code |-> "none"] \in RecordFiles
BY DEF RecordFiles, NoFile, PartFile

LEMMA FileFields ==
  ASSUME NEW v \in RecordFiles
  PROVE  /\ v = [build |-> v.build, final |-> v.final, code |-> v.code]
         /\ v.final \in BOOLEAN
<1>1. CASE v = NoFile
  <2>1. v = [build |-> 0, final |-> FALSE, code |-> "none"]
    BY <1>1 DEF NoFile
  <2> QED
    BY <2>1
<1>4. CASE v = PartFile
  <2>1. v = [build |-> 0, final |-> TRUE, code |-> "none"]
    BY <1>4 DEF PartFile
  <2> QED
    BY <2>1
<1>2. CASE v \in [build : 1 .. MaxBuilds, final : {FALSE}, code : {"none"}]
  BY <1>2
<1>3. CASE v \in [build : 1 .. MaxBuilds, final : {TRUE}, code : BuildCodes]
  BY <1>3
<1> QED
  BY <1>1, <1>2, <1>3, <1>4 DEF RecordFiles

LEMMA RecordInitially == RecordInit => RecordInv
BY BuildsAssumption, FileRecords
   DEF RecordInit, RecordInv, RecordTyped, RecorderKnows, RecorderLeavesFinalRecord

LEMMA RecordStep ==
  ASSUME RecordInv, BuildStep
  PROVE  RecordInv'
<1> USE BuildsAssumption DEF RecordInv, RecordTyped, RecorderKnows, RecorderLeavesFinalRecord
<1>1. ASSUME NEW log \in BOOLEAN, StartBuild(log) PROVE RecordInv'
  BY <1>1 DEF StartBuild
<1>11. ASSUME NEW log \in BOOLEAN, BuildMissing(log) PROVE RecordInv'
  BY <1>11 DEF BuildMissing
<1>2. ASSUME NEW h \in Helpers, HelperStarts(h) \/ HelperExits(h) PROVE RecordInv'
  BY <1>2 DEF HelperStarts, HelperExits
<1>3. ASSUME NEW code \in BuildCodes, BuildExits(code) PROVE RecordInv'
  BY <1>3 DEF BuildExits
<1>4. CASE KillBuild
  BY <1>4 DEF KillBuild
<1>5. CASE List
  BY <1>5 DEF List
<1>6. CASE Sample
  BY <1>6 DEF Sample
<1>7. CASE Poll
  <2>1. builds \in 1 .. MaxBuilds /\ child = outcome[builds]
    BY <1>7 DEF Poll
  <2>2. values' \in RecordFiles
    BY <1>7, <2>1, FileRecords DEF Poll, Found
  <2>3. /\ values'.build = builds
        /\ values'.final => child' = "none" /\ values'.code = outcome[builds]
        /\ ~values'.final => child' = outcome[builds] /\ child' # "none"
    BY <1>7, <2>1 DEF Poll, Found
  <2> QED
    BY <1>7, <2>1, <2>2, <2>3 DEF Poll
<1>8. CASE Open
  BY <1>8, FileRecords DEF Open
<1>9. CASE Dump
  <2>1. values \in RecordFiles /\ values.build = builds /\ builds # 0 /\ recorded = builds
    BY <1>9 DEF Dump
  <2>2. values.final =>
          values = [build |-> builds, final |-> TRUE, code |-> outcome[builds]]
    <3>1. values.final => values.code = outcome[builds]
      BY <1>9 DEF Dump
    <3>2. values.final \in BOOLEAN
      BY <2>1, FileFields
    <3>3. values = [build |-> values.build, final |-> values.final, code |-> values.code]
      BY <2>1, FileFields
    <3> QED
      BY <2>1, <3>1, <3>2, <3>3
  <2> QED
    BY <1>9, <2>1, <2>2 DEF Dump
<1>10. CASE Collect
  BY <1>10 DEF Collect
<1> QED
  BY <1>1, <1>2, <1>3, <1>4, <1>5, <1>6, <1>7, <1>8, <1>9, <1>10, <1>11
     DEF BuildStep, Recorder

LEMMA RecordFrame == RecordInv /\ UNCHANGED recordVars => RecordInv'
BY DEF RecordInv, RecordTyped, RecorderKnows, RecorderLeavesFinalRecord, recordVars
-----------------------------------------------------------------------------
LEMMA RunsFrame == RunsInv /\ UNCHANGED runVars => RunsInv'
BY HsbInv DEF runVars, RunsInv, RunsTyped

\* What a step of the whole is for each of the two parts.
LEMMA Parts ==
  ASSUME [Next]_vars
  PROVE  /\ \/ \E s \in Scripts : ScriptStep(s)
            \/ Recompile
            \/ /\ hsb' \in {Absent, "part", "built"}
               /\ UNCHANGED <<pc, held, task, sim, binary, vcd, stdout, outfile, result,
                              strayed, shared, met>>
            \/ UNCHANGED runVars
         /\ BuildStep \/ UNCHANGED recordVars
<1> USE DEF bounded
<1>1. ASSUME NEW s \in Scripts, Launch(s) \/ Script(s)
      PROVE  ScriptStep(s) /\ UNCHANGED recordVars
  BY <1>1 DEF Launch, Script, ScriptStep
<1>2. CASE KillScript
  BY <1>2 DEF KillScript, ScriptStep
<1>3. CASE Compile
  BY <1>3 DEF Compile
<1>4. CASE StartMake
  BY <1>4 DEF StartMake, BuildStep
<1>5. CASE Link \/ Clean
  BY <1>5 DEF Link, Clean, SetHsb
<1>6. CASE Build
  BY <1>6 DEF Build, BuildStep
<1>7. CASE Recording
  BY <1>7 DEF Recording, BuildStep
<1>8. CASE CollectRSS
  BY <1>8 DEF CollectRSS, BuildStep
<1>9. CASE UNCHANGED vars
  BY <1>9 DEF vars
<1> QED
  BY <1>1, <1>2, <1>3, <1>4, <1>5, <1>6, <1>7, <1>8, <1>9 DEF Next

Bounds == starts \in 0 .. MaxStarts /\ recompiles \in 0 .. MaxRecompiles
LEMMA BoundsStep == Bounds /\ [Next]_vars => Bounds'
BY BoundsAssumption
   DEF Bounds, Next, Launch, Start, Script, KillScript, Compile, StartMake, Link, Clean, Build,
       Recording, CollectRSS, vars, bounded

Inv == RunsInv /\ RecordInv /\ Bounds

\* The inductive invariant: what the scripts hold and have written belongs to the names
\* they have constructed, and the recorder knows the exit code before it ends.
THEOREM Invariance == Spec => []Inv
<1>1. Init => Inv
  BY RunsInitially, RecordInitially, BoundsAssumption DEF Init, Inv, Bounds
<1>2. Inv /\ [Next]_vars => Inv'
  <2> SUFFICES ASSUME Inv, [Next]_vars PROVE Inv'
    OBVIOUS
  <2>1. RunsInv'
    BY Parts, ScriptInv, RecompileInv, HsbInv, RunsFrame DEF Inv
  <2>2. RecordInv'
    BY Parts, RecordStep, RecordFrame DEF Inv
  <2> QED
    BY <2>1, <2>2, BoundsStep DEF Inv
<1> QED
  BY <1>1, <1>2, PTL DEF Spec

\* The type invariant of the composition.
THEOREM Typing == Spec => []TypeOK
<1>1. Inv => TypeOK
  BY DEF Inv, RunsInv, RecordInv, Bounds, TypeOK
<1> QED
  BY <1>1, Invariance, PTL

\* Whatever scripts run, die and start again: an output is whole and of one simulation,
\* unless two scripts were at work in its directory.
THEOREM WholeOutputs == Spec => []OutputsComplete
<1>1. Inv => OutputsComplete
  BY DEF Inv, RunsInv
<1> QED
  BY <1>1, Invariance, PTL

\* An output is of the binary with the checksum in its name, unless the name was in use
\* while the binary changed.
THEOREM RightOutputs == Spec => []OutputsBelongToNames
<1>1. Inv => OutputsBelongToNames
  BY DEF Inv, RunsInv
<1> QED
  BY <1>1, Invariance, PTL

\* The recorder that ends by itself has written the exit code of its build.
THEOREM FinalRecords == Spec => []RecorderLeavesFinalRecord
<1>1. Inv => RecorderLeavesFinalRecord
  BY DEF Inv, RecordInv
<1> QED
  BY <1>1, Invariance, PTL

Kept ==
  \A r \in Names :
    /\ outfile[r] # NoRecord /\ r \notin met.runs => outfile'[r] = outfile[r]
    /\ result[r] # NoRecord /\ r \notin met.results => result'[r] = result[r]

LEMMA ScriptKeeps ==
  ASSUME RunsTyped, StillMissing, NEW s \in Scripts, ScriptStep(s)
  PROVE  Kept
<1> USE DEF Kept, RunsTyped
<1>1. CASE StoreRun(s)
  <2>1. MissingOf(s) /\ pc[s] \in MakingRun /\ task[s].run \in Names
    BY <1>1 DEF StoreRun, StillMissing, MakingRun
  <2> QED
    BY <1>1, <2>1 DEF StoreRun, MissingOf
<1>2. CASE StoreResult(s)
  <2>1. MissingOf(s) /\ Making(s) /\ task[s].experiment \in Names
    BY <1>2 DEF StoreResult, StillMissing, Making
  <2> QED
    BY <1>2, <2>1 DEF StoreResult, MissingOf, End, Raise
<1>3. CASE ~StoreRun(s) /\ ~StoreResult(s)
  <2>1. UNCHANGED <<outfile, result>>
    BY <1>3 DEF ScriptStep, Step, Construct, ExperimentComplete, Requires, RunComplete,
                CheckHsb, StartSimulation, Spawn, Load, FinishSimulation, FailSimulation,
                ReadTrace, RemoveTrace, CheckRun, CheckResult, Kill, End, Raise
  <2> QED
    BY <2>1
<1> QED
  BY <1>1, <1>2, <1>3

\* An output is written once, by however many scripts, unless two of them were making it:
\* what a script has found missing is still missing when it renames its own.
THEOREM OutputsStay == Spec => StoredOnce
<1>1. Inv /\ [Next]_vars => Kept
  <2> SUFFICES ASSUME Inv, [Next]_vars PROVE Kept
    OBVIOUS
  <2>1. CASE \E s \in Scripts : ScriptStep(s)
    BY <2>1, ScriptKeeps DEF Inv, RunsInv
  <2>2. CASE UNCHANGED <<outfile, result>>
    BY <2>2 DEF Kept
  <2> QED
    BY <2>1, <2>2, Parts DEF Recompile, runVars
<1>2. Inv /\ [Next]_vars => [Kept]_vars
  BY <1>1
<1>3. Spec => [][Kept]_vars
  BY <1>2, Invariance, PTL DEF Spec
<1> QED
  BY <1>3 DEF Kept, StoredOnce
=============================================================================
