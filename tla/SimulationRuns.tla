--------------------------- MODULE SimulationRuns ---------------------------
(***************************************************************************)
(* The luigi tasks behind an experiment (SingleDesignPerformanceExperiment *)
(* and the tasks of its shape, SimulationRun, CheckDesignHSB) and the      *)
(* Verilator runner, as a script works them off with luigi's local         *)
(* scheduler.  A script may die at any point and be started again, the     *)
(* user may compile the benchmark anew meanwhile, and several scripts may  *)
(* run at once: they share the directory of a run, not a scheduler.        *)
(*                                                                         *)
(* A file is "absent", "part" (being written, or left so), "mixed" (two    *)
(* processes wrote it) or what it was made from, a content of the binary.  *)
(* (Definitions named Wrong... are the slips the properties must notice.)  *)
(***************************************************************************)
EXTENDS Integers

CONSTANTS
  Scripts,
  Contents,    \* what compiling the benchmark may produce, ...
  FirstContent \* ... and has produced

ASSUME ContentsAssumption ==
  FirstContent \in Contents /\ Contents \cap {"absent", "part", "mixed", "none", "loading",
                                                        "broken"} = {}

VARIABLES
  pc, held,     \* per script: where it is; what its current step holds
  task,         \* per script: the names of its experiment and its run
  sim,          \* per script: the content its simulator works on, "loading" before it
                \* has read the ELF file, "broken" or "none"
  binary,       \* the content of the benchmark's ELF file
  hsb,          \* the hardware simulation binary
  vcd, stdout,  \* per run: trace.vcd and stdout.txt in its directory
  outfile,      \* per run: outfile.pickle
  result,       \* per experiment: its output
  strayed,      \* history: the names constructed before a change of the binary
  shared,       \* history: the runs two scripts were at work on at the same time
  met           \* history: the outputs two scripts have both found missing

runVars == <<pc, held, task, sim, binary, hsb, vcd, stdout, outfile, result, strayed,
             shared, met>>

Absent == "absent"
Whole(file) == file \in Contents

\* run_name and experiment_name: of the parameters, the checksum of the binary and
\* dotrace (with which every caller sets include_synth_log) are told apart.
Names == [crc : Contents, dotrace : BOOLEAN]
WrongRunName(content, dotrace) == [crc |-> CHOOSE c \in Contents : TRUE, dotrace |-> dotrace]
RunName(content, dotrace) == [crc |-> content, dotrace |-> dotrace]

NoName == [crc |-> "none", dotrace |-> FALSE]
TaskOf(experiment, run) == [experiment |-> experiment, run |-> run]
NoTask == TaskOf(NoName, NoName)
Tasks == [experiment : Names \cup {NoName}, run : Names \cup {NoName}]
\* What pickle.dump stores: a run without a trace keeps the elapsed time only.
Files == Contents \cup {Absent, "part", "mixed"}
Records == [elapsed : Contents \cup {"none"}, vcd : Files, stdout : Files]
Record(elapsed, trace, output) == [elapsed |-> elapsed, vcd |-> trace, stdout |-> output]
NoRecord == Record("none", Absent, Absent)

RunsInit ==
  /\ pc = [s \in Scripts |-> "idle"]
  /\ held = [s \in Scripts |-> NoRecord]
  /\ task = [s \in Scripts |-> NoTask]
  /\ sim = [s \in Scripts |-> "none"]
  /\ binary = FirstContent
  /\ vcd = [r \in Names |-> Absent] /\ stdout = [r \in Names |-> Absent]
  /\ outfile = [r \in Names |-> NoRecord]
  /\ result = [r \in Names |-> NoRecord]
  /\ strayed = {} /\ shared = {}
  /\ met = [runs |-> {}, results |-> {}]

Traced(s) == task[s].run.dotrace
Go(s, next) == pc' = [pc EXCEPT ![s] = next]
Running(s) == pc[s] # "idle"

\* Who is at work on a run; who has found an output missing and has not stored it yet.
AtWork(r, states) == {s \in Scripts : pc[s] \in states /\ task[s].run = r}
MakingRun == {"start", "spawn", "simulate", "read", "log", "dump", "rename"}
MakingResult(e) ==
  {s \in Scripts : pc[s] \notin {"idle", "experiment"} /\ task[s].experiment = e}

\* The script ends: with success, when luigi has reported a task that raised and run
\* nothing that depends on it, or killed with its simulator.  The files stay.
End(s) ==
  /\ Go(s, "idle")
  /\ held' = [held EXCEPT ![s] = NoRecord]
  /\ task' = [task EXCEPT ![s] = NoTask]
  /\ sim' = [sim EXCEPT ![s] = "none"]
Raise(s) ==
  /\ End(s)
  /\ UNCHANGED <<binary, hsb, vcd, stdout, outfile, result, strayed, shared, met>>
-----------------------------------------------------------------------------
\* The experiment is constructed: its name is fixed.
Construct(s) ==
  /\ ~Running(s)
  /\ \E dotrace \in BOOLEAN :
       task' = [task EXCEPT ![s] = TaskOf(RunName(binary, dotrace), NoName)]
  /\ Go(s, "experiment")
  /\ UNCHANGED <<held, sim, binary, hsb, vcd, stdout, outfile, result, strayed, shared, met>>

\* Its output exists, or its requires() constructs the SimulationRun.
ExperimentComplete(s) ==
  /\ pc[s] = "experiment" /\ result[task[s].experiment] # NoRecord
  /\ End(s)
  /\ UNCHANGED <<binary, hsb, vcd, stdout, outfile, result, strayed, shared, met>>
Requires(s) ==
  /\ pc[s] = "experiment" /\ result[task[s].experiment] = NoRecord
  /\ LET experiment == task[s].experiment
     IN  /\ task' = [task EXCEPT ![s] = TaskOf(experiment, RunName(binary, experiment.dotrace))]
         /\ met' = [met EXCEPT !.results =
                      IF MakingResult(experiment) = {} THEN @ ELSE @ \cup {experiment}]
  /\ Go(s, "run")
  /\ UNCHANGED <<held, sim, binary, hsb, vcd, stdout, outfile, result, strayed, shared>>

\* The output of the run exists: the experiment reads it.
RunComplete(s) ==
  /\ pc[s] = "run" /\ outfile[task[s].run] # NoRecord
  /\ Go(s, "reduce")
  /\ UNCHANGED <<held, task, sim, binary, hsb, vcd, stdout, outfile, result, strayed, shared, met>>
\* Otherwise CheckDesignHSB, whose output is the binary, and which cannot make it.
WrongCheckHsb(s) ==
  /\ pc[s] = "run" /\ outfile[task[s].run] = NoRecord /\ hsb # Absent
  /\ Go(s, "start")
  /\ UNCHANGED <<held, task, sim, binary, hsb, vcd, stdout, outfile, result, strayed, shared, met>>
CheckHsb(s) ==
  /\ pc[s] = "run" /\ outfile[task[s].run] = NoRecord
  /\ \/ hsb = Absent /\ Raise(s)
     \/ /\ hsb # Absent
        /\ LET r == task[s].run
           IN  met' = [met EXCEPT !.runs = IF AtWork(r, MakingRun) = {} THEN @ ELSE @ \cup {r}]
        /\ Go(s, "start")
        /\ UNCHANGED <<held, task, sim, binary, hsb, vcd, stdout, outfile, result, strayed, shared>>

\* A file is opened for writing, by one more process or by the only one.
Opened(file, others) == IF file # Absent /\ others # {} THEN "mixed" ELSE "part"

\* run_sim_verilator exits without the executable, ...
StartSimulation(s) ==
  /\ pc[s] = "start"
  /\ \/ hsb = Absent /\ Raise(s)
     \/ /\ hsb # Absent
        /\ Go(s, "spawn")
        /\ UNCHANGED <<held, task, sim, binary, hsb, vcd, stdout, outfile, result, strayed,
                       shared, met>>

\* ... writes the taint file, opens stdout.txt and starts the executable: check_call
\* raises if it is gone by then.
Spawn(s) ==
  /\ pc[s] = "spawn"
  /\ LET r == task[s].run
     IN  /\ stdout' = [stdout EXCEPT ![r] = Opened(@, AtWork(r, {"simulate"}))]
         /\ shared' = IF AtWork(r, {"simulate", "read", "log"}) = {}
                        THEN shared ELSE shared \cup {r}
  /\ \/ hsb = Absent /\ End(s)
     \/ /\ hsb # Absent
        /\ sim' = [sim EXCEPT ![s] = IF hsb = "built" THEN "loading" ELSE "broken"]
        /\ Go(s, "simulate")
        /\ UNCHANGED <<held, task>>
  /\ UNCHANGED <<binary, hsb, vcd, outfile, result, strayed, met>>

\* The simulator opens its trace and reads the ELF file, which may have changed.
Load(s) ==
  /\ pc[s] = "simulate" /\ sim[s] = "loading"
  /\ LET r == task[s].run
         others == {t \in AtWork(r, {"simulate"}) : sim[t] \in Contents}
     IN  vcd' = [vcd EXCEPT ![r] = IF r.dotrace THEN Opened(@, others) ELSE @]
  /\ sim' = [sim EXCEPT ![s] = binary]
  /\ UNCHANGED <<pc, held, task, binary, hsb, stdout, outfile, result, strayed, shared, met>>

\* The simulator ends and its files are whole, unless somebody else wrote them.
Closed(file, content) == IF file = "part" THEN content ELSE file
FinishSimulation(s) ==
  /\ pc[s] = "simulate" /\ sim[s] \in Contents
  /\ LET r == task[s].run
     IN  /\ stdout' = [stdout EXCEPT ![r] = Closed(@, sim[s])]
         /\ vcd' = [vcd EXCEPT ![r] = IF r.dotrace THEN Closed(@, sim[s]) ELSE @]
  /\ held' = [held EXCEPT ![s] = Record(sim[s], Absent, Absent)]
  /\ sim' = [sim EXCEPT ![s] = "none"]
  /\ Go(s, "read")
  /\ UNCHANGED <<task, binary, hsb, outfile, result, strayed, shared, met>>

\* It fails, always if the executable is not complete: check_call raises.
FailSimulation(s) == pc[s] = "simulate" /\ Raise(s)

\* The trace is read, after an assertion that it exists, ...
ReadTrace(s) ==
  /\ pc[s] = "read"
  /\ \/ Traced(s) /\ vcd[task[s].run] = Absent /\ Raise(s)
     \/ /\ Traced(s) => vcd[task[s].run] # Absent
        /\ held' = [held EXCEPT ![s] =
                      Record(@.elapsed,
                             IF Traced(s) THEN vcd[task[s].run] ELSE Absent,
                             Absent)]
        /\ Go(s, "log")
        /\ UNCHANGED <<task, sim, binary, hsb, vcd, stdout, outfile, result, strayed, shared, met>>

\* ... then the synthesis log, which the design's build has left beside the binary or
\* not, then the trace is removed after the same assertion, and stdout.txt is read.
RemoveTrace(s) ==
  /\ pc[s] = "log"
  /\ \/ Traced(s) /\ Raise(s)
     \/ /\ Traced(s) => vcd[task[s].run] # Absent
        /\ vcd' = [vcd EXCEPT ![task[s].run] = IF Traced(s) THEN Absent ELSE @]
        /\ held' = [held EXCEPT ![s] =
                      Record(@.elapsed, @.vcd,
                             IF Traced(s) THEN stdout[task[s].run] ELSE Absent)]
        /\ Go(s, "dump")
        /\ UNCHANGED <<task, sim, binary, hsb, stdout, outfile, result, strayed, shared, met>>

\* pickle.dump into the temporary path, which is no name anybody reads.  luigi refuses to
\* rename it when the output exists by now, ...
CheckRun(s) ==
  /\ pc[s] = "dump"
  /\ \/ outfile[task[s].run] # NoRecord /\ Raise(s)
     \/ /\ outfile[task[s].run] = NoRecord
        /\ Go(s, "rename")
        /\ UNCHANGED <<held, task, sim, binary, hsb, vcd, stdout, outfile, result, strayed,
                       shared, met>>

\* ... and os.rename puts it in place, whatever is there at that moment.
Half(held_s) == Record(held_s.elapsed, "part", "part")
WrongStoreRun(s) ==
  /\ pc[s] = "rename"
  /\ \E r \in {held[s], Half(held[s])} :
       /\ outfile' = [outfile EXCEPT ![task[s].run] = r]
       /\ Go(s, IF r = held[s] THEN "reduce" ELSE "rename")
  /\ UNCHANGED <<held, task, sim, binary, hsb, vcd, stdout, result, strayed, shared, met>>
StoreRun(s) ==
  /\ pc[s] = "rename"
  /\ outfile' = [outfile EXCEPT ![task[s].run] = held[s]]
  /\ Go(s, "reduce")
  /\ UNCHANGED <<held, task, sim, binary, hsb, vcd, stdout, result, strayed, shared, met>>

\* run() of the experiment: load the record and compute; then the same two steps.
CheckResult(s) ==
  /\ pc[s] = "reduce"
  /\ \/ result[task[s].experiment] # NoRecord /\ Raise(s)
     \/ /\ result[task[s].experiment] = NoRecord
        /\ held' = [held EXCEPT ![s] = outfile[task[s].run]]
        /\ Go(s, "store")
        /\ UNCHANGED <<task, sim, binary, hsb, vcd, stdout, outfile, result, strayed,
                       shared, met>>
StoreResult(s) ==
  /\ pc[s] = "store"
  /\ result' = [result EXCEPT ![task[s].experiment] = held[s]]
  /\ End(s)
  /\ UNCHANGED <<binary, hsb, vcd, stdout, outfile, strayed, shared, met>>

Step(s) ==
  \/ ExperimentComplete(s) \/ Requires(s) \/ RunComplete(s) \/ CheckHsb(s)
  \/ StartSimulation(s) \/ Spawn(s) \/ Load(s) \/ FinishSimulation(s) \/ FailSimulation(s)
  \/ ReadTrace(s) \/ RemoveTrace(s)
  \/ CheckRun(s) \/ StoreRun(s) \/ CheckResult(s) \/ StoreResult(s)

\* The script is killed, and its simulator with it.
Kill(s) == Running(s) /\ Raise(s)

\* The user compiles the benchmark anew.
NamesInUse ==
  {r \in Names :
     \E s \in Scripts : /\ pc[s] \in {"experiment", "run", "start", "spawn"} \/ sim[s] = "loading"
                       /\ r \in {task[s].experiment, task[s].run}}
Recompile ==
  /\ \E c \in Contents \ {binary} : binary' = c
  /\ strayed' = strayed \cup NamesInUse
  /\ UNCHANGED <<pc, held, task, sim, hsb, vcd, stdout, outfile, result, shared, met>>
-----------------------------------------------------------------------------
ScriptPCs == {"idle", "experiment", "run", "start", "simulate", "read", "log", "dump",
              "reduce", "spawn", "rename", "store"}
RunsTyped ==
  /\ pc \in [Scripts -> ScriptPCs]
  /\ held \in [Scripts -> Records]
  /\ task \in [Scripts -> Tasks]
  /\ \A s \in Scripts : pc[s] # "idle" => task[s].experiment \in Names
  /\ \A s \in Scripts : pc[s] \notin {"idle", "experiment"} => task[s].run \in Names
  /\ sim \in [Scripts -> Contents \cup {"none", "loading", "broken"}]
  /\ \A s \in Scripts : pc[s] = "simulate" => sim[s] # "none"
  /\ binary \in Contents
  /\ hsb \in {Absent, "part", "built"}
  /\ vcd \in [Names -> Files] /\ stdout \in [Names -> Files]
  /\ outfile \in [Names -> Records] /\ result \in [Names -> Records]
  /\ strayed \subseteq Names /\ shared \subseteq Names
  /\ met \in [runs : SUBSET Names, results : SUBSET Names]
=============================================================================
