--------------------------- MODULE ResourcesRecord ---------------------------
(***************************************************************************)
(* resourcesrecord.py: it starts a build, adds up the memory of its        *)
(* processes every second and writes what it found so far into a JSON file *)
(* again and again, until the build has exited.  resourcewrapper starts    *)
(* builds through it, or without it when LOGRESOURCES is not yes; the task *)
(* CollectRSS reads the file.                                              *)
(*                                                                         *)
(* The file is a record of the build it is about, whether it is final, and *)
(* the exit code; NoFile before the first one, PartFile once it has been   *)
(* truncated for the next.                                                 *)
(***************************************************************************)
EXTENDS Integers

CONSTANTS
  Helpers,     \* the processes a build may start, by process number
  BuildCodes,  \* the exit codes of a build, ...
  Success,     \* ... of which one is 0
  MaxBuilds

ASSUME BuildsAssumption ==
  /\ MaxBuilds \in Nat
  /\ Success \in BuildCodes
  /\ {"none", "running", "killed", "missing"} \cap BuildCodes = {}

VARIABLES
  rec,       \* where the recorder is
  listed,    \* children_list, but for the build's own process, which stays until polled
  values,    \* found_values
  child,     \* "none", "running", or the code it exited with and was not yet asked for
  helpers,   \* the running descendants of the child
  record,    \* the JSON file
  figure,    \* the output of CollectRSS
  builds, outcome, recorded  \* history: builds started, how they ended, the last recorded

recordVars == <<rec, listed, values, child, helpers, record, figure, builds, outcome,
                recorded>>

NoFile == [build |-> 0, final |-> FALSE, code |-> "none"]
PartFile == [build |-> 0, final |-> TRUE, code |-> "none"]
RecordFiles ==
  {NoFile, PartFile}
    \cup [build : 1 .. MaxBuilds, final : {FALSE}, code : {"none"}]
    \cup [build : 1 .. MaxBuilds, final : {TRUE}, code : BuildCodes]

RecordInit ==
  /\ rec = "off" /\ listed = {} /\ values = NoFile
  /\ child = "none" /\ helpers = {}
  /\ record = NoFile /\ figure = NoFile
  /\ builds = 0 /\ outcome = [b \in 1 .. MaxBuilds |-> "none"] /\ recorded = 0

\* resourcewrapper; Popen.
StartBuild(log) ==
  /\ rec = "off" /\ child = "none" /\ builds < MaxBuilds
  /\ child' = "running"
  /\ rec' = IF log THEN "list" ELSE "off"
  /\ builds' = builds + 1
  /\ outcome' = [outcome EXCEPT ![builds + 1] = "running"]
  /\ recorded' = IF log THEN builds + 1 ELSE recorded
  /\ UNCHANGED <<listed, values, helpers, record, figure>>

\* Popen raises when there is no such command: the recorder ends before its first record.
\* Without a recorder there is nothing to it either.
BuildMissing(log) ==
  /\ rec = "off" /\ child = "none" /\ builds < MaxBuilds
  /\ builds' = builds + 1
  /\ outcome' = [outcome EXCEPT ![builds + 1] = "missing"]
  /\ recorded' = IF log THEN builds + 1 ELSE recorded
  /\ UNCHANGED <<rec, listed, values, child, helpers, record, figure>>

\* The processes of the build come and go on their own; when it exits, what still
\* runs is no descendant of it any more.
HelperStarts(h) ==
  /\ child = "running" /\ h \notin helpers
  /\ helpers' = helpers \cup {h}
  /\ UNCHANGED <<rec, listed, values, child, record, figure, builds, outcome, recorded>>
HelperExits(h) ==
  /\ h \in helpers
  /\ helpers' = helpers \ {h}
  /\ UNCHANGED <<rec, listed, values, child, record, figure, builds, outcome, recorded>>
BuildExits(code) ==
  /\ child = "running"
  /\ child' = IF rec = "off" THEN "none" ELSE code
  /\ helpers' = {}
  /\ outcome' = [outcome EXCEPT ![builds] = code]
  /\ UNCHANGED <<rec, listed, values, record, figure, builds, recorded>>
-----------------------------------------------------------------------------
\* childproc.children(recursive=True)
List ==
  /\ rec = "list"
  /\ listed' = helpers
  /\ rec' = "sample"
  /\ UNCHANGED <<values, child, helpers, record, figure, builds, outcome, recorded>>

\* memory_info of each of them: one that is gone raises NoSuchProcess, and the loop
\* starts again.
WrongSample ==
  /\ rec = "sample" /\ listed \subseteq helpers
  /\ rec' = "poll"
  /\ UNCHANGED <<listed, values, child, helpers, record, figure, builds, outcome, recorded>>
Sample ==
  /\ rec = "sample"
  /\ rec' = IF listed \subseteq helpers THEN "poll" ELSE "list"
  /\ UNCHANGED <<listed, values, child, helpers, record, figure, builds, outcome, recorded>>

\* After the sleep: the values, and p.poll(), which takes the exit code.
WrongFound == [build |-> builds, final |-> child # "running", code |-> child]
Found == [build |-> builds, final |-> child # "running",
          code |-> IF child = "running" THEN "none" ELSE child]

WrongPoll ==
  /\ rec = "poll"
  /\ values' = Found
  /\ child' = IF child = "running" THEN child ELSE "none"
  /\ rec' = IF child = "running" THEN "open" ELSE "off"
  /\ UNCHANGED <<listed, helpers, record, figure, builds, outcome, recorded>>
Poll ==
  /\ rec = "poll"
  /\ values' = Found
  /\ child' = IF child = "running" THEN child ELSE "none"
  /\ rec' = "open"
  /\ UNCHANGED <<listed, helpers, record, figure, builds, outcome, recorded>>

\* open(outfn, 'w'), then json.dump; the loop ends with the final values.
Open ==
  /\ rec = "open"
  /\ record' = PartFile
  /\ rec' = "dump"
  /\ UNCHANGED <<listed, values, child, helpers, figure, builds, outcome, recorded>>
Dump ==
  /\ rec = "dump"
  /\ record' = values
  /\ rec' = IF values.final THEN "off" ELSE "list"
  /\ UNCHANGED <<listed, values, child, helpers, figure, builds, outcome, recorded>>

Recorder == List \/ Sample \/ Poll \/ Open \/ Dump

\* The build and its recorder are killed together, as by an interrupt at the terminal.
KillBuild ==
  /\ child # "none" \/ rec # "off"
  /\ rec' = "off" /\ child' = "none" /\ helpers' = {}
  /\ outcome' = [outcome EXCEPT ![builds] = "killed"]
  /\ UNCHANGED <<listed, values, record, figure, builds, recorded>>

\* CollectRSS: whatever stands in the file is stored, once.  A missing file or half of
\* one raises.
Collect ==
  /\ figure = NoFile /\ record \notin {NoFile, PartFile}
  /\ figure' = record
  /\ UNCHANGED <<rec, listed, values, child, helpers, record, builds, outcome, recorded>>
-----------------------------------------------------------------------------
RecordTyped ==
  /\ rec \in {"off", "list", "sample", "poll", "open", "dump"}
  /\ listed \subseteq Helpers /\ helpers \subseteq Helpers
  /\ {values, record, figure} \subseteq RecordFiles
  /\ child \in BuildCodes \cup {"none", "running"}
  /\ builds \in 0 .. MaxBuilds /\ recorded \in 0 .. builds
  /\ outcome \in [1 .. MaxBuilds -> BuildCodes \cup {"none", "running", "killed", "missing"}]
=============================================================================
