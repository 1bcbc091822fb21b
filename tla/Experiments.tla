----------------------------- MODULE Experiments -----------------------------
(***************************************************************************)
(* Experiments while the design is built, cleaned and built again: the     *)
(* scripts of SimulationRuns need the hardware simulation binary that the  *)
(* builds of ResourcesRecord link, and CollectRSS needs it and the record  *)
(* of a build.  How the build links is external: it is make, fusesoc and   *)
(* Verilator.                                                              *)
(***************************************************************************)
EXTENDS SimulationRuns, ResourcesRecord

CONSTANTS
  MaxStarts,      \* how many scripts and builds are started, all together
  MaxRecompiles

ASSUME BoundsAssumption == MaxStarts \in Nat /\ MaxRecompiles \in Nat

VARIABLES starts, recompiles

bounded == <<starts, recompiles>>
vars == <<runVars, recordVars, bounded>>

Init ==
  /\ RunsInit /\ RecordInit
  /\ hsb \in {Absent, "built"}
  /\ starts = 0 /\ recompiles = 0
-----------------------------------------------------------------------------
Start == starts < MaxStarts /\ starts' = starts + 1 /\ UNCHANGED recompiles

Launch(s) ==
  /\ Start
  /\ Construct(s)
  /\ UNCHANGED recordVars

StartMake ==
  /\ Start
  /\ \E log \in BOOLEAN : StartBuild(log) \/ BuildMissing(log)
  /\ UNCHANGED runVars

Script(s) == Step(s) /\ UNCHANGED <<recordVars, bounded>>

KillScript == (\E s \in Scripts : Kill(s)) /\ UNCHANGED <<recordVars, bounded>>
Compile ==
  /\ recompiles < MaxRecompiles
  /\ Recompile
  /\ recompiles' = recompiles + 1
  /\ UNCHANGED <<recordVars, starts>>

\* The linker writes the binary while the build runs.
SetHsb(state) ==
  /\ hsb' = state
  /\ UNCHANGED <<pc, held, task, sim, binary, vcd, stdout, outfile, result, strayed, shared,
                 met>>
Link ==
  /\ child = "running"
  /\ SetHsb(IF hsb = "part" THEN "built" ELSE "part")
  /\ UNCHANGED <<recordVars, bounded>>
Clean ==
  /\ hsb # Absent
  /\ SetHsb(Absent)
  /\ UNCHANGED <<recordVars, bounded>>

Build ==
  /\ \/ \E h \in Helpers : HelperStarts(h) \/ HelperExits(h)
     \/ \E code \in BuildCodes :
          (code = Success => hsb = "built") /\ BuildExits(code)
     \/ KillBuild
  /\ UNCHANGED <<runVars, bounded>>

Recording == Recorder /\ UNCHANGED <<runVars, bounded>>

\* CollectRSS is complete with its output, and requires the binary.
CollectRSS ==
  /\ Start
  /\ hsb # Absent
  /\ Collect
  /\ UNCHANGED runVars

Next ==
  \/ \E s \in Scripts : Launch(s) \/ Script(s)
  \/ KillScript \/ Compile \/ StartMake \/ Link \/ Clean \/ Build \/ Recording \/ CollectRSS

\* The scripts and the recorder are processes the system goes on running.
Spec == Init /\ [][Next]_vars
FairSpec ==
  /\ Spec
  /\ \A s \in Scripts : WF_vars(Script(s))
  /\ WF_vars(Recording)
-----------------------------------------------------------------------------
\* Every variable has its type; in particular a record that is not final has no exit
\* code, and a final one has.
TypeOK ==
  /\ RunsTyped /\ RecordTyped
  /\ starts \in 0 .. MaxStarts /\ recompiles \in 0 .. MaxRecompiles

Complete(r, stored) ==
  /\ stored.elapsed \in Contents
  /\ r.dotrace => stored.vcd = stored.elapsed /\ stored.stdout = stored.elapsed

\* A run that dies, or whose simulator does, at whatever point, leaves no output; an
\* output that exists is whole and all of one simulation.  Said of the runs in whose
\* directory only one script was at work at a time.
OutputsComplete ==
  \A r \in Names \ shared : outfile[r] # NoRecord => Complete(r, outfile[r])

\* An output is that of the binary its name has the checksum of, also where it is
\* found by a later script instead of being made.  Said of the names that were not in
\* use when the binary changed.
OutputsBelongToNames ==
  \A r \in Names \ strayed :
    /\ outfile[r].elapsed \in {r.crc, "none"}
    /\ result[r].elapsed \in {r.crc, "none"}

\* What has been stored is never replaced, by whatever number of scripts and whatever
\* becomes of them, unless two of them had both found it missing before either stored it:
\* luigi's check for the output and its renaming are two steps, and the later rename wins.
StoredOnce ==
  [][\A r \in Names :
       /\ outfile[r] # NoRecord /\ r \notin met.runs => outfile'[r] = outfile[r]
       /\ result[r] # NoRecord /\ r \notin met.results => result'[r] = result[r]]_vars

\* A recorder that was not killed, and whose command there was, leaves a final record, of
\* its build and with the exit code of that build.
RecorderLeavesFinalRecord ==
  rec = "off" /\ recorded # 0 /\ outcome[recorded] \notin {"killed", "missing"}
    => record = [build |-> recorded, final |-> TRUE, code |-> outcome[recorded]]

\* Every script comes to an end, with or without success.
ScriptsEnd == \A s \in Scripts : Running(s) ~> ~Running(s)

\* When the build has exited its recorder ends, whatever processes came and went.
RecorderEnds == child \in BuildCodes ~> rec = "off"

\* "assert os.path.exists(vcdfile)" (verilator.py), before the trace is read and before
\* it is removed.
TraceExists ==
  \A s \in Scripts :
    pc[s] \in {"read", "log"} /\ Traced(s) => vcd[task[s].run] # Absent
=============================================================================
