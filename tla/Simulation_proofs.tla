-------------------------- MODULE Simulation_proofs --------------------------
(***************************************************************************)
(* What Simulation promises of the memories, the buffers and the exit      *)
(* status, for any jobs, shells, programs, taint files, memories and       *)
(* numbers of ticks.                                                       *)
(***************************************************************************)
EXTENDS Simulation, SequenceTheorems, TLAPS

Filling == {"segments", "load", "lines", "taints"}
Ticking == {"reset", "tick", "trail", "finish"}
Launched == {"main", "pick"} \cup Filling \cup Ticking
Phases == {"parse", "construct", "add"} \cup Launched

\* Where the run is: which memories are filled, and when a section is requested.
Control ==
  /\ status = "running" <=> phase # "stopped"
  /\ phase \in Phases \cup {"stopped"}
  /\ n \in Nat
  /\ todo \subseteq Memories
  /\ phase \in {"parse", "construct", "add", "main"} => todo = Memories
  /\ phase \in Filling => mem \in Memories /\ mem \notin todo
  /\ phase \in Ticking => todo = {}
  /\ phase \notin {"load", "taints", "stopped"} => request = NoRequest

\* The environment is the script's or a shell's, and has a program for the memory.
IsSequence(s) == \E S : s \in Seq(S)
ScriptEnv ==
  /\ job \in Jobs
  /\ \E list : IsSequence(list) /\ env = SetupSimEnv(GenTaintLines(list))
ShellEnv == job = NoJob /\ env \in Shells
Environment ==
  /\ phase \in {"parse", "construct", "add"} => job \in Jobs /\ IsSequence(tt)
  /\ phase \in Launched => ScriptEnv \/ ShellEnv
  /\ phase \in Filling => ElfOf(mem) # Unset

\* How far the simulation is: the ticks made, of those it was asked for.
Clock ==
  /\ ticks # 0 => phase \in {"tick", "trail", "finish", "stopped"}
  /\ phase = "tick" => ticks = LeadTicks
  /\ phase = "trail" /\ job # NoJob => ticks = job.simtime
  /\ phase = "finish" /\ job # NoJob => ticks = job.simtime + TrailTicks

\* What the loader has for an address is the data of a segment of one of the files that
\* were read so far.
ReadFrom(p, a) == p.paddr = a /\ mems[a] = p.data
Contents ==
  /\ phase \in {"parse", "construct", "add", "main"} => DOMAIN mems = {}
  /\ \A a \in DOMAIN mems : \E m \in Memories \ todo : \E elf \in env.ELF[m] :
       \E p \in ReadSegments(elf) : ReadFrom(p, a)

\* The segments on their way are those of the current file; only while it is read and
\* loaded are there any.
Describes(s, p) == s.addr = p.paddr /\ s.len = p.memsz
Held(p) == p.paddr \in DOMAIN mems /\ mems[p.paddr] = p.data
Expected(s) ==
  \E p \in ReadSegments(CurrentElf) : Describes(s, p) /\ p.paddr \in DOMAIN mems
Sections ==
  /\ sections \in Seq([addr : Nat, len : Nat])
  /\ section_index \in 0 .. Len(sections)
  /\ phase \in Phases \ {"segments", "load"} => section_index = Len(sections)
  /\ phase \in {"segments", "load"} =>
       \A k \in section_index + 1 .. Len(sections) : Expected(sections[k])
  /\ phase = "load" /\ request # NoRequest => Expected(request)

\* The addresses of a segment that is read; it waits in the section table or requested.
Covers(p, a) == IsRead(p) /\ a - p.paddr \in 0 .. (p.memsz - 1)
InTable(p) == \E k \in section_index + 1 .. Len(sections) : sections[k].addr = p.paddr
Waits(p) == InTable(p) \/ (request # NoRequest /\ request.addr = p.paddr)
Empty(content) == \A a \in Addresses : content[a] = Undefined
IsPartialImage(elf, content, contested) ==
  \A a \in Addresses :
    /\ \A p \in ReadSegments(elf) : Covers(p, a) /\ p.paddr \notin contested
         => content[a] = ByteOf(p, a) \/ Waits(p)
    /\ (\A p \in ReadSegments(elf) : ~Covers(p, a)) => content[a] = Undefined

\* Untouched memories are empty, the current one is filled up to the segments that
\* wait, the others hold their images.
Images ==
  /\ bytes \in [Memories -> [Addresses -> Int]]
  /\ phase \in Phases => \A m \in todo : Empty(bytes[m])
  /\ phase = "segments" =>
       /\ Empty(bytes[mem])
       /\ n <= Len(CurrentElf.ph)
       /\ \A i \in 1 .. n : IsRead(CurrentElf.ph[i]) => InTable(CurrentElf.ph[i])
  /\ phase = "load" => IsPartialImage(CurrentElf, bytes[mem], Contested(mem))
  /\ phase \in Launched => \A m \in Memories \ todo :
       (phase \in {"segments", "load"} => m # mem)
         => \A elf \in ElfOf(m) : IsImage(elf, bytes[m], Contested(m))

\* Every mask of a job is readable, and the taint sections on their way are lines of
\* the current file, as are the masks that will be copied.
IsLineAt(line, id, addr) == line.id = id /\ line.addr = addr
HasLine(id, s) ==
  \E i \in 1 .. Len(TaintsOf(mem)) :
    IsLineAt(TaintsOf(mem)[i], id, s.addr) /\ TaintsOf(mem)[i].nbytes = s.len
HasMask(id, addr) ==
  /\ addr \in DOMAIN taint_assignments[id]
  /\ \E i \in 1 .. Len(TaintsOf(mem)) :
       /\ IsLineAt(TaintsOf(mem)[i], id, addr)
       /\ taint_assignments[id][addr].mask = TaintsOf(mem)[i].mask
TaintExpected(id, s) == HasLine(id, s) /\ HasMask(id, s.addr)
TaintTables ==
  /\ DOMAIN taint_sections = Ids /\ DOMAIN taint_assignments = Ids
  /\ taint_section_index \in [Ids -> Nat]
  /\ \A id \in Ids : IsSequence(taint_sections[id])
  /\ \A id \in Ids : taint_section_index[id] <= Len(taint_sections[id])
  /\ job # NoJob => \A id \in Ids : \A a \in DOMAIN taint_assignments[id] :
       taint_assignments[id][a].digits = "even"
  /\ phase \in Phases \ {"lines", "taints"} =>
       \A id \in Ids : taint_section_index[id] = Len(taint_sections[id])
  /\ phase \in {"lines", "taints"} => \A id \in Ids :
       \A k \in taint_section_index[id] + 1 .. Len(taint_sections[id]) :
         TaintExpected(id, taint_sections[id][k])
  /\ phase = "taints" /\ request # NoRequest =>
       request.id \in Ids /\ TaintExpected(request.id, request)
-----------------------------------------------------------------------------
(* Sequences of whatever there is. *)
LEMMA SequenceLength == ASSUME NEW s, IsSequence(s) PROVE Len(s) \in Nat
BY DEF IsSequence

LEMMA SequenceAppend ==
  ASSUME NEW s, IsSequence(s), NEW e
  PROVE  /\ IsSequence(Append(s, e))
         /\ Len(Append(s, e)) = Len(s) + 1
         /\ \A i \in 1 .. Len(s) : Append(s, e)[i] = s[i]
         /\ Append(s, e)[Len(s) + 1] = e
<1>1. PICK S : s \in Seq(S)
  BY DEF IsSequence
<1>2. s \in Seq(S \cup {e}) /\ e \in S \cup {e}
  BY <1>1, SeqMonotonic
<1>3. Append(s, e) \in Seq(S \cup {e})
  BY <1>2
<1> QED
  BY <1>1, <1>2, <1>3 DEF IsSequence

LEMMA SequenceOf ==
  ASSUME NEW k \in Nat, NEW f, f = [i \in 1 .. k |-> f[i]]
  PROVE  IsSequence(f) /\ Len(f) = k
<1>1. f \in [1 .. k -> {f[i] : i \in 1 .. k}]
  OBVIOUS
<1>2. f \in Seq({f[i] : i \in 1 .. k})
  BY <1>1, SeqDef
<1>3. IsSequence(f)
  BY <1>2 DEF IsSequence
<1>4. DOMAIN f = 1 .. k /\ DOMAIN f = 1 .. Len(f) /\ Len(f) \in Nat
  BY <1>1, <1>2, LenProperties
<1> QED
  BY <1>3, <1>4

LEMMA PrivateAddSequence ==
  ASSUME NEW list, IsSequence(list), NEW addr, NEW mask
  PROVE  IsSequence(PrivateAdd(list, addr, mask))
<1> DEFINE base == Base(addr)
           block == Block(addr, mask)
           merged == [i \in 1 .. Len(list) |->
                        IF list[i].base = base
                          THEN [base |-> base, block |-> Merge(list[i].block, block)]
                          ELSE list[i]]
<1>1. IsSequence(merged)
  <2>1. Len(list) \in Nat /\ merged = [i \in 1 .. Len(list) |-> merged[i]]
    BY SequenceLength
  <2> HIDE DEF merged
  <2> QED
    BY <2>1, SequenceOf
<1>2. IsSequence(Append(list, [base |-> base, block |-> block]))
  BY SequenceAppend
<1> QED
  BY <1>1, <1>2 DEF PrivateAdd
-----------------------------------------------------------------------------
(* Where the run is. *)
LEMMA ControlInit == Init => Control
BY DEF Init, Control, Phases, Launched, Filling, Ticking, Memories

LEMMA ControlStep == Control /\ [Next]_vars => Control'
<1> SUFFICES ASSUME Control, [Next]_vars PROVE Control'
  OBVIOUS
<1> USE DEF Control, Phases, Launched, Filling, Ticking
<1>1. ASSUME NEW how, Stop(how), how # "running" PROVE Control'
  BY <1>1 DEF Stop
<1>2. CASE ParseLine
  BY <1>1, <1>2 DEF ParseLine
<1>3. CASE ParseDone
  BY <1>1, <1>3 DEF ParseDone
<1>4. CASE AddTaintbit
  BY <1>4 DEF AddTaintbit
<1>5. CASE Launch
  BY <1>1, <1>5 DEF Launch
<1>6. CASE Main
  BY <1>1, <1>6 DEF Main
<1>7. CASE PickMemory
  BY <1>1, <1>7 DEF PickMemory
<1>8. CASE ReadElfSegment
  BY <1>1, <1>8 DEF ReadElfSegment
<1>9. CASE ReadElfDone
  BY <1>1, <1>9 DEF ReadElfDone
<1>10. CASE LoadSection
  BY <1>10 DEF LoadSection
<1>11. CASE StoreSection
  BY <1>1, <1>11 DEF StoreSection
<1>12. CASE LoadDone
  BY <1>12 DEF LoadDone
<1>13. CASE ReadLine
  BY <1>13 DEF ReadLine
<1>14. CASE ReadDone
  BY <1>14 DEF ReadDone
<1>15. CASE LoadTaint
  BY <1>15 DEF LoadTaint
<1>16. CASE StoreTaint
  BY <1>1, <1>16 DEF StoreTaint
<1>17. CASE MemoryDone
  BY <1>17 DEF MemoryDone
<1>18. CASE Reset \/ TickSimlen \/ TickTrail
  BY <1>18 DEF Reset, TickSimlen, TickTrail, TickTo
<1>19. CASE Finish
  BY <1>1, <1>19 DEF Finish
<1>20. CASE Construct
  BY <1>1, <1>20 DEF Construct
<1>21. CASE UNCHANGED vars
  BY <1>21 DEF vars
<1> QED
  BY <1>2, <1>3, <1>4, <1>5, <1>6, <1>7, <1>8, <1>9, <1>10, <1>11, <1>12, <1>13, <1>14,
     <1>15, <1>16, <1>17, <1>18, <1>19, <1>20, <1>21 DEF Next
-----------------------------------------------------------------------------
(* The environment. *)
LEMMA EnvironmentInit == Init => Environment
<1>1. IsSequence(<<>>)
  BY EmptySeq DEF IsSequence
<1> QED
  BY <1>1 DEF Init, Environment, Launched, Filling, Ticking, ShellEnv

LEMMA EnvironmentStep == Control /\ Environment /\ [Next]_vars => Environment'
<1> SUFFICES ASSUME Control, Environment, [Next]_vars PROVE Environment'
  OBVIOUS
<1> USE DEF Launched, Filling, Ticking
<1>1. ASSUME UNCHANGED scriptVars, UNCHANGED mem,
             phase \in {"parse", "construct", "add"} <=> phase' \in {"parse", "construct", "add"},
             phase \in Launched <=> phase' \in Launched,
             phase \in Filling <=> phase' \in Filling
      PROVE  Environment'
  BY <1>1 DEF Environment, ScriptEnv, ShellEnv, SetupSimEnv, ElfOf, scriptVars
<1>2. ASSUME NEW how, Stop(how) PROVE Environment'
  BY <1>2 DEF Stop, Environment
<1>3. CASE ParseLine
  <2>1. CASE Stop("raised")
    BY <1>2, <2>1
  <2>2. CASE ~Stop("raised")
    <3>1. phase = "parse" /\ UNCHANGED <<phase, job>> /\ tt' = AddTaintLine(tt, job.file[n + 1])
      BY <1>3, <2>2 DEF ParseLine
    <3>2. IsSequence(tt')
      BY <3>1, PrivateAddSequence DEF Environment, AddTaintLine
    <3> QED
      BY <3>1, <3>2 DEF Environment
  <2> QED
    BY <2>1, <2>2
<1>4. CASE ParseDone
  <2>1. CASE Stop("raised")
    BY <1>2, <2>1
  <2>2. CASE ~Stop("raised")
    <3>1. phase = "parse" /\ phase' = "construct" /\ UNCHANGED job /\ tt' = <<>>
      BY <1>4, <2>2 DEF ParseDone
    <3>2. IsSequence(<<>>)
      BY EmptySeq DEF IsSequence
    <3> QED
      BY <3>1, <3>2 DEF Environment
  <2> QED
    BY <2>1, <2>2
<1>5. CASE AddTaintbit
  <2>1. phase = "add" /\ UNCHANGED <<phase, job>> /\ tt' = AddTuple(tt, taintbits[n + 1])
    BY <1>5 DEF AddTaintbit
  <2>2. IsSequence(tt')
    BY <2>1, PrivateAddSequence DEF Environment, AddTuple
  <2> QED
    BY <2>1, <2>2 DEF Environment
<1>6. CASE Launch
  <2>1. CASE Stop("raised")
    BY <1>2, <2>1
  <2>2. CASE ~Stop("raised")
    <3>1. /\ phase = "add" /\ phase' = "main" /\ UNCHANGED <<job, tt>>
          /\ env' = SetupSimEnv(GenTaintLines(tt))
      BY <1>6, <2>2 DEF Launch
    <3>2. SetupSimEnv(GenTaintLines(tt))' = SetupSimEnv(GenTaintLines(tt))
      BY <3>1 DEF SetupSimEnv
    <3>3. job \in Jobs /\ IsSequence(tt)
      BY <3>1 DEF Environment
    <3>4. ScriptEnv'
      BY <3>1, <3>2, <3>3 DEF ScriptEnv, SetupSimEnv
    <3> QED
      BY <3>1, <3>4 DEF Environment
  <2> QED
    BY <2>1, <2>2
<1>7. CASE Main
  <2>1. CASE \E how : Stop(how)
    BY <1>2, <2>1
  <2>2. CASE ~\E how : Stop(how)
    <3>1. phase = "main" /\ phase' = "pick" /\ UNCHANGED <<scriptVars, mem>>
      BY <1>7, <2>2 DEF Main
    <3> QED
      BY <1>1, <3>1
  <2> QED
    BY <2>1, <2>2
<1>8. CASE PickMemory
  <2>1. CASE \E how : Stop(how)
    BY <1>2, <2>1
  <2>2. CASE ~\E how : Stop(how)
    <3>1. PICK m \in todo : \E elf \in ElfOf(m) :
            phase = "pick" /\ phase' = "segments" /\ mem' = m /\ UNCHANGED scriptVars
      BY <1>8, <2>2 DEF PickMemory
    <3>2. ElfOf(mem)' # Unset
      BY <3>1 DEF ElfOf, Unset, scriptVars
    <3>3. ScriptEnv' \/ ShellEnv'
      BY <3>1 DEF Environment, ScriptEnv, ShellEnv, SetupSimEnv, scriptVars
    <3> QED
      BY <3>1, <3>2, <3>3 DEF Environment
  <2> QED
    BY <2>1, <2>2
<1>9. CASE ReadElfSegment \/ ReadElfDone \/ StoreSection \/ StoreTaint \/ Finish
  <2>1. CASE \E how : Stop(how)
    BY <1>2, <2>1
  <2>2. CASE ~\E how : Stop(how)
    <3>1. /\ UNCHANGED <<scriptVars, mem>>
          /\ phase \in Filling /\ phase' \in Filling
      BY <1>9, <2>2 DEF ReadElfSegment, ReadElfDone, StoreSection, StoreTaint, Finish
    <3> QED
      BY <1>1, <3>1
  <2> QED
    BY <2>1, <2>2
<1>10. CASE LoadSection \/ LoadDone \/ ReadLine \/ ReadDone \/ LoadTaint
  <2>1. UNCHANGED <<scriptVars, mem>> /\ phase \in Filling /\ phase' \in Filling
    BY <1>10 DEF LoadSection, LoadDone, ReadLine, ReadDone, LoadTaint
  <2> QED
    BY <1>1, <2>1
<1>11. CASE MemoryDone \/ Reset \/ TickSimlen \/ TickTrail
  <2>1. /\ UNCHANGED <<scriptVars, mem>> /\ phase \in Launched
        /\ phase' \in Launched \ Filling
    BY <1>11 DEF MemoryDone, Reset, TickSimlen, TickTrail, TickTo
  <2> QED
    BY <2>1 DEF Environment, ScriptEnv, ShellEnv, SetupSimEnv, scriptVars
<1>12. CASE Construct
  <2>1. CASE Stop("raised")
    BY <1>2, <2>1
  <2>2. CASE ~Stop("raised")
    <3>1. phase = "construct" /\ phase' = "add" /\ UNCHANGED <<scriptVars, mem>>
      BY <1>12, <2>2 DEF Construct
    <3> QED
      BY <1>1, <3>1
  <2> QED
    BY <2>1, <2>2
<1>13. CASE UNCHANGED vars
  BY <1>1, <1>13 DEF vars
<1> QED
  BY <1>3, <1>4, <1>5, <1>6, <1>7, <1>8, <1>9, <1>10, <1>11, <1>12, <1>13 DEF Next

\* What a launched simulation finds in its environment: programs, taint files, and a
\* length.  The lines of a job are readable and filled by their masks.
GoodLines(lines) ==
  /\ Len(lines) \in Nat
  /\ \A i \in 1 .. Len(lines) :
       lines[i].id \in Ids /\ lines[i].nbytes \in Nat /\ Len(lines[i].mask) \in Nat
FullLines(lines) ==
  \A i \in 1 .. Len(lines) :
    /\ lines[i].digits = "even"
    /\ lines[i].nbytes = Alignment /\ Len(lines[i].mask) = Alignment

LEMMA GoodTaintFile == ASSUME NEW lines, IsTaintFile(lines) PROVE GoodLines(lines)
<1> DEFINE T == [id : Ids, addr : Nat, nbytes : Nat, mask : Seq(Byte), digits : Digits]
<1>1. lines \in Seq(T)
  BY DEF IsTaintFile
<1>2. Len(lines) \in Nat /\ \A i \in 1 .. Len(lines) : lines[i] \in T
  BY <1>1, ElementOfSeq, LenProperties
<1>3. ASSUME NEW i \in 1 .. Len(lines)
      PROVE  lines[i].id \in Ids /\ lines[i].nbytes \in Nat /\ lines[i].mask \in Seq(Byte)
  BY <1>2
<1> QED
  BY <1>2, <1>3, LenProperties DEF GoodLines

LEMMA GoodTaintLines ==
  ASSUME NEW list, IsSequence(list)
  PROVE  GoodLines(GenTaintLines(list)) /\ FullLines(GenTaintLines(list))
<1> DEFINE lines == GenTaintLines(list)
           mask(i) == [j \in 1 .. Alignment |-> list[i].block[j - 1]]
<1>1. Len(list) \in Nat
  BY SequenceLength
<1>2. lines = [i \in 1 .. Len(list) |->
                 [id |-> 0, addr |-> list[i].base, nbytes |-> Alignment, digits |-> "even",
                  mask |-> mask(i)]]
  BY DEF GenTaintLines
<1>3. ASSUME NEW i PROVE Len(mask(i)) = Alignment
  <2>1. mask(i) = [j \in 1 .. Alignment |-> mask(i)[j]]
    OBVIOUS
  <2> HIDE DEF mask
  <2> QED
    BY <2>1, SequenceOf, AlignmentAssumption
<1>4. Len(lines) = Len(list)
  <2>1. lines = [i \in 1 .. Len(list) |-> lines[i]]
    BY <1>2
  <2> HIDE DEF lines
  <2> QED
    BY <1>1, <2>1, SequenceOf
<1>5. 0 \in Ids
  BY TaintFilesAssumption DEF Ids
<1> HIDE DEF lines, mask
<1>6. \A i \in 1 .. Len(list) :
        /\ lines[i].id = 0 /\ lines[i].nbytes = Alignment /\ lines[i].digits = "even"
        /\ lines[i].mask = mask(i)
  BY <1>2
<1>7. GoodLines(lines) /\ FullLines(lines)
  BY <1>1, <1>3, <1>4, <1>5, <1>6, AlignmentAssumption DEF GoodLines, FullLines
<1> QED
  BY <1>7 DEF lines

LEMMA LaunchedEnv ==
  ASSUME Environment, phase \in Launched
  PROVE  /\ env.ELF \in Programs
         /\ env.SIMLEN \subseteq Int
         /\ job # NoJob => env.SIMLEN = {job.simtime} /\ job.simtime \in Int
<1>1. CASE ScriptEnv
  <2>1. /\ job \in Jobs /\ env.ELF = ElfsOf(job) /\ env.SIMLEN = {job.simtime}
    BY <1>1 DEF ScriptEnv, SetupSimEnv
  <2> QED
    BY <2>1, TicksAssumption DEF Programs
<1>2. CASE ShellEnv
  BY <1>2, TicksAssumption DEF ShellEnv, Programs
<1> QED
  BY <1>1, <1>2 DEF Environment

LEMMA LaunchedTaints ==
  ASSUME Environment, phase \in Launched, NEW m \in Memories
  PROVE  /\ GoodLines(TaintsOf(m))
         /\ job # NoJob => FullLines(TaintsOf(m))
<1>1. CASE ScriptEnv
  <2>1. PICK list : IsSequence(list) /\ env = SetupSimEnv(GenTaintLines(list))
    BY <1>1 DEF ScriptEnv
  <2>2. env.TAINT[m] = {GenTaintLines(list)}
    BY <2>1 DEF SetupSimEnv, Memories
  <2>3. TaintsOf(m) = GenTaintLines(list)
    BY <2>2 DEF TaintsOf, Unset
  <2> QED
    BY <2>1, <2>3, GoodTaintLines
<1>2. CASE ShellEnv
  <2>1. IsTaintFile(TaintsOf(m))
    <3>1. CASE env.TAINT[m] = Unset
      BY <3>1, TaintFilesAssumption DEF TaintsOf
    <3>2. CASE env.TAINT[m] # Unset
      <4>1. TaintsOf(m) \in env.TAINT[m]
        BY <3>2 DEF TaintsOf, Unset
      <4> QED
        BY <1>2, <4>1, TaintFilesAssumption DEF ShellEnv
    <3> QED
      BY <3>1, <3>2
  <2> QED
    BY <1>2, <2>1, GoodTaintFile DEF ShellEnv
<1> QED
  BY <1>1, <1>2 DEF Environment

LEMMA LaunchedPrograms ==
  ASSUME Environment, phase \in Launched
  PROVE  \A m \in Memories : \A elf, other \in env.ELF[m] : IsProgram(elf) /\ elf = other
<1>1. env.ELF \in Programs
  BY LaunchedEnv
<1> QED
  BY <1>1, ProgramsAssumption

LEMMA LaunchedCurrent ==
  ASSUME Control, Environment, phase \in Filling
  PROVE  /\ mem \in Memories /\ CurrentElf \in env.ELF[mem] /\ IsProgram(CurrentElf)
         /\ \A elf \in env.ELF[mem] : elf = CurrentElf
<1>1. mem \in Memories /\ phase \in Launched
  BY DEF Control, Launched
<1>2. CurrentElf \in env.ELF[mem]
  BY DEF Environment, CurrentElf, ElfOf, Unset
<1> QED
  BY <1>1, <1>2, LaunchedPrograms
-----------------------------------------------------------------------------
(* The clock. *)
LEMMA ClockInit == Init => Clock
BY DEF Init, Clock

LEMMA ClockStep == Control /\ Environment /\ Clock /\ [Next]_vars => Clock'
<1> SUFFICES ASSUME Control, Environment, Clock, [Next]_vars PROVE Clock'
  OBVIOUS
<1>1. CASE Reset
  BY <1>1, TicksAssumption DEF Reset, TickTo, Clock
<1>2. CASE TickSimlen
  <2>1. PICK simlen \in env.SIMLEN :
          ticks' = ticks + SimLengthCycles(simlen) /\ phase' = "trail" /\ job' = job
    BY <1>2 DEF TickSimlen, TickTo, scriptVars
  <2>2. phase = "tick" /\ phase \in Launched
    BY <1>2 DEF TickSimlen, Launched, Ticking
  <2>3. job # NoJob => simlen = job.simtime /\ job.simtime \in Int
    BY <2>1, <2>2, LaunchedEnv
  <2> QED
    BY <2>1, <2>2, <2>3, TicksAssumption DEF Clock, SimLengthCycles
<1>3. CASE TickTrail
  BY <1>3, TicksAssumption DEF TickTrail, TickTo, Clock, scriptVars
<1>4. ASSUME UNCHANGED ticks, phase' \notin {"tick", "trail", "finish"},
             phase \in {"tick", "trail", "finish", "stopped"} => phase' = "stopped"
      PROVE  Clock'
  BY <1>4 DEF Clock
<1>5. ASSUME NEW how, Stop(how) PROVE Clock'
  BY <1>4, <1>5 DEF Stop
<1>6. CASE ParseLine \/ ParseDone \/ Construct \/ AddTaintbit \/ Launch \/ Main \/ PickMemory
  <2>1. CASE \E how : Stop(how)
    BY <1>5, <2>1
  <2>2. CASE ~\E how : Stop(how)
    BY <1>4, <1>6, <2>2
       DEF ParseLine, ParseDone, Construct, AddTaintbit, Launch, Main, PickMemory
  <2> QED
    BY <2>1, <2>2
<1>7. CASE ReadElfSegment \/ ReadElfDone \/ LoadSection \/ StoreSection \/ LoadDone
  <2>1. CASE \E how : Stop(how)
    BY <1>5, <2>1
  <2>2. CASE ~\E how : Stop(how)
    BY <1>4, <1>7, <2>2
       DEF ReadElfSegment, ReadElfDone, LoadSection, StoreSection, LoadDone
  <2> QED
    BY <2>1, <2>2
<1>8. CASE ReadLine \/ ReadDone \/ LoadTaint \/ StoreTaint \/ MemoryDone \/ Finish
  <2>1. CASE \E how : Stop(how)
    BY <1>5, <2>1
  <2>2. CASE ~\E how : Stop(how)
    BY <1>4, <1>8, <2>2
       DEF ReadLine, ReadDone, LoadTaint, StoreTaint, MemoryDone, Finish
  <2> QED
    BY <2>1, <2>2
<1>9. CASE UNCHANGED vars
  BY <1>9 DEF vars, scriptVars, Clock
<1> QED
  BY <1>1, <1>2, <1>3, <1>6, <1>7, <1>8, <1>9 DEF Next
-----------------------------------------------------------------------------
(* The tables of the ELF loader. *)
LEMMA SegmentType ==
  ASSUME NEW elf, IsProgram(elf)
  PROVE  /\ Len(elf.ph) \in Nat
         /\ \A i \in 1 .. Len(elf.ph) : IsRead(elf.ph[i]) => elf.ph[i] \in ReadSegments(elf)
         /\ \A p \in ReadSegments(elf) :
              /\ \E i \in 1 .. Len(elf.ph) : p = elf.ph[i]
              /\ IsRead(p)
              /\ p.paddr \in Nat /\ p.offset \in Nat /\ p.filesz \in Nat
              /\ p.memsz \in Nat \ {0} /\ p.filesz <= p.memsz
              /\ p.data \in Seq(Nat) /\ Len(p.data) = p.filesz
<1>1. elf.ph \in Seq(Segments)
  BY DEF IsProgram
<1>2. /\ Len(elf.ph) \in Nat /\ DOMAIN elf.ph = 1 .. Len(elf.ph)
      /\ \A i \in 1 .. Len(elf.ph) : elf.ph[i] \in Segments
  BY <1>1, LenProperties, ElementOfSeq
<1>3. \A p : p \in ReadSegments(elf) <=> \E i \in 1 .. Len(elf.ph) : p = elf.ph[i] /\ IsRead(p)
  BY <1>2 DEF ReadSegments, Range
<1>4. \A p \in Segments : /\ p.paddr \in Nat /\ p.offset \in Nat /\ p.filesz \in Nat
                         /\ p.memsz \in Nat /\ p.data \in Seq(Nat)
  BY DEF Segments
<1>5. \A p \in ReadSegments(elf) : Len(p.data) = p.filesz /\ p.filesz <= p.memsz
  BY DEF IsProgram
<1>6. \A p : IsRead(p) => p.memsz # 0
  BY DEF IsRead
<1>7. ASSUME NEW p \in ReadSegments(elf)
      PROVE  /\ \E i \in 1 .. Len(elf.ph) : p = elf.ph[i]
             /\ IsRead(p) /\ p \in Segments
  BY <1>2, <1>3
<1>8. ASSUME NEW p \in ReadSegments(elf)
      PROVE  /\ p.paddr \in Nat /\ p.offset \in Nat /\ p.filesz \in Nat
             /\ p.memsz \in Nat \ {0} /\ p.data \in Seq(Nat)
  BY <1>4, <1>6, <1>7
<1>9. \A i \in 1 .. Len(elf.ph) : IsRead(elf.ph[i]) => elf.ph[i] \in ReadSegments(elf)
  BY <1>3
<1> QED
  BY <1>2, <1>5, <1>7, <1>8, <1>9

\* A segment that fits is read as it is.
LEMMA FileBytesWhole ==
  ASSUME NEW elf, IsProgram(elf), NEW p \in ReadSegments(elf), SegmentFits(elf, p)
  PROVE  FileBytes(elf, p) = p.data
<1>1. /\ p.filesz \in Nat /\ p.offset \in Nat /\ elf.size \in Nat
      /\ p.data \in Seq(Nat) /\ Len(p.data) = p.filesz /\ IsRead(p)
  BY SegmentType DEF IsProgram
<1>2. p.data = [k \in 1 .. p.filesz |-> p.data[k]]
  BY <1>1, LenProperties
<1>3. elf.size >= p.offset + p.filesz
  BY <1>1 DEF SegmentFits
<1>4. \A k \in 1 .. p.filesz : p.offset + k <= elf.size
  BY <1>1, <1>3
<1> QED
  BY <1>2, <1>4 DEF FileBytes

LEMMA DisjointSegments ==
  ASSUME NEW elf, IsProgram(elf), NEW p \in ReadSegments(elf), NEW q \in ReadSegments(elf),
         p # q
  PROVE  p.paddr # q.paddr /\ \A a \in Addresses : ~(Covers(p, a) /\ Covers(q, a))
<1>1. p.paddr \in Nat /\ q.paddr \in Nat /\ p.memsz \in Nat \ {0} /\ q.memsz \in Nat \ {0}
  BY SegmentType
<1>2. p.paddr + p.memsz <= q.paddr \/ q.paddr + q.memsz <= p.paddr
  BY DEF IsProgram
<1> QED
  BY <1>1, <1>2 DEF Covers, Addresses

\* What the loader holds for an address are bytes, and those of the segment of the current
\* file, unless the address is contested.
LEMMA HeldSegment ==
  ASSUME Control, Environment, Contents, phase \in Filling,
         NEW p \in ReadSegments(CurrentElf), p.paddr \in DOMAIN mems
  PROVE  /\ mems[p.paddr] \in Seq(Nat)
         /\ p.paddr \notin Contested(mem) => Held(p)
<1>1. /\ mem \in Memories /\ mem \notin todo /\ CurrentElf \in env.ELF[mem]
      /\ IsProgram(CurrentElf) /\ phase \in Launched
      /\ \A elf \in env.ELF[mem] : elf = CurrentElf
  BY LaunchedCurrent DEF Launched, Control
<1>2. PICK m \in Memories \ todo : \E elf \in env.ELF[m] :
        \E q \in ReadSegments(elf) : ReadFrom(q, p.paddr)
  BY DEF Contents
<1>3. PICK elf \in env.ELF[m] : \E q \in ReadSegments(elf) : ReadFrom(q, p.paddr)
  BY <1>2
<1>4. PICK q \in ReadSegments(elf) : ReadFrom(q, p.paddr)
  BY <1>3
<1>5. mems[p.paddr] = q.data /\ q.paddr = p.paddr
  BY <1>4 DEF ReadFrom
<1>6. q.data \in Seq(Nat)
  BY <1>1, LaunchedPrograms, SegmentType
<1>7. CASE m = mem
  <2>1. q = p
    BY <1>1, <1>5, <1>7, DisjointSegments
  <2> QED
    BY <1>5, <1>6, <2>1 DEF Held
<1>8. CASE m # mem
  <2>1. todo = {} /\ m \in Memories \ {mem}
    BY <1>1, <1>8 DEF Control, Memories
  <2>2. p.data # q.data => p.paddr \in Contested(mem)
    <3>1. p \in UNION {ReadSegments(e) : e \in ElfOf(mem)}
      BY <1>1 DEF ElfOf
    <3>2. elf \in ElfOf(m)
      BY DEF ElfOf
    <3> QED
      BY <1>5, <2>1, <3>1, <3>2 DEF Contested
  <2> QED
    BY <1>5, <1>6, <2>2 DEF Held
<1> QED
  BY <1>7, <1>8

\* What one iteration of the loop over the program headers does.
LEMMA SegmentRead ==
  ASSUME Control, Environment, Contents, ReadElfSegment, phase' # "stopped"
  PROVE  LET p == CurrentElf.ph[n + 1]
         IN  /\ phase = "segments" /\ phase' = "segments"
             /\ UNCHANGED <<env, job, mem, todo, request, bytes, section_index, CurrentElf>>
             /\ n' = n + 1 /\ n < Len(CurrentElf.ph)
             /\ n + 1 \in 1 .. Len(CurrentElf.ph)
             /\ \/ ~IsRead(p) /\ UNCHANGED <<sections, mems>>
                \/ /\ p \in ReadSegments(CurrentElf) /\ IsRead(p)
                   /\ sections' = Append(sections, [addr |-> p.paddr, len |-> p.memsz])
                   /\ DOMAIN mems' = DOMAIN mems \cup {p.paddr}
                   /\ \A a \in DOMAIN mems : mems'[a] = mems[a]
                   /\ p.paddr \notin DOMAIN mems => mems'[p.paddr] = p.data
<1> DEFINE p == CurrentElf.ph[n + 1]
<1>1. /\ phase = "segments" /\ phase' = "segments" /\ n' = n + 1
      /\ n < Len(CurrentElf.ph)
      /\ UNCHANGED <<env, job, mem, todo, request, bytes>>
      /\ SegmentFits(CurrentElf, p) /\ ReadSegment(CurrentElf, p)
  BY DEF ReadElfSegment, Stop, scriptVars, memVars
<1>2. CurrentElf' = CurrentElf
  BY <1>1 DEF CurrentElf, ElfOf
<1>3. IsProgram(CurrentElf)
  BY <1>1, LaunchedCurrent DEF Filling
<1>4. n \in Nat /\ Len(CurrentElf.ph) \in Nat /\ n + 1 \in 1 .. Len(CurrentElf.ph)
  BY <1>1, <1>3, SegmentType DEF Control
<1>5. CASE ~IsRead(p)
  BY <1>1, <1>2, <1>4, <1>5 DEF ReadSegment, elfVars
<1>6. CASE IsRead(p)
  <2>1. p \in ReadSegments(CurrentElf)
    BY <1>3, <1>4, <1>6, SegmentType
  <2>2. /\ sections' = Append(sections, [addr |-> p.paddr, len |-> p.memsz])
        /\ Write(p.paddr, FileBytes(CurrentElf, p)) /\ UNCHANGED section_index
    BY <1>1, <1>6 DEF ReadSegment
  <2>3. FileBytes(CurrentElf, p) = p.data
    BY <1>1, <1>3, <2>1, FileBytesWhole
  <2>4. /\ DOMAIN mems' = DOMAIN mems \cup {p.paddr}
        /\ \A a \in DOMAIN mems : mems'[a] = mems[a]
        /\ p.paddr \notin DOMAIN mems => mems'[p.paddr] = p.data
    BY <2>2, <2>3 DEF Write
  <2> QED
    BY <1>1, <1>2, <1>4, <1>6, <2>1, <2>2, <2>4
<1> QED
  BY <1>5, <1>6

\* No other step touches what the loader has read.
LEMMA ContentsKept ==
  ASSUME Control, [Next]_vars
  PROVE  \/ ReadElfSegment /\ phase' # "stopped"
         \/ UNCHANGED <<sections, mems>>
<1> USE DEF elfVars
<1>1. CASE ParseLine \/ ParseDone \/ Construct \/ AddTaintbit \/ Launch \/ Main \/ PickMemory
  BY <1>1 DEF ParseLine, ParseDone, Construct, AddTaintbit, Launch, Main, PickMemory, Stop
<1>2. CASE ReadElfSegment
  BY <1>2 DEF ReadElfSegment, Stop, Control
<1>3. CASE ReadElfDone \/ LoadSection \/ StoreSection \/ LoadDone
  BY <1>3 DEF ReadElfDone, LoadSection, GetSection, StoreSection, LoadDone, Stop
<1>4. CASE ReadLine \/ ReadDone \/ LoadTaint \/ StoreTaint \/ MemoryDone
  BY <1>4 DEF ReadLine, ReadDone, LoadTaint, StoreTaint, MemoryDone, Stop
<1>5. CASE Reset \/ TickSimlen \/ TickTrail \/ Finish
  BY <1>5 DEF Reset, TickSimlen, TickTrail, TickTo, Finish, Stop
<1>6. CASE UNCHANGED vars
  BY <1>6 DEF vars
<1> QED
  BY <1>1, <1>2, <1>3, <1>4, <1>5, <1>6 DEF Next

\* The environment is made once, and the launch is never undone.
LEMMA EnvironmentKept ==
  ASSUME Control, [Next]_vars
  PROVE  /\ UNCHANGED job
         /\ phase \notin {"parse", "construct", "add"} => UNCHANGED env
         /\ todo' \subseteq todo
         /\ phase' \in {"parse", "construct", "add", "main"} => phase \in {"parse", "construct", "add", "main"}
<1> USE DEF scriptVars
<1>1. CASE ParseLine \/ ParseDone \/ Construct \/ AddTaintbit \/ Launch \/ Main \/ PickMemory
  BY <1>1 DEF ParseLine, ParseDone, Construct, AddTaintbit, Launch, Main, PickMemory, Stop
<1>2. CASE ReadElfSegment \/ ReadElfDone \/ LoadSection \/ StoreSection \/ LoadDone
  BY <1>2 DEF ReadElfSegment, ReadElfDone, LoadSection, StoreSection, LoadDone, Stop
<1>3. CASE ReadLine \/ ReadDone \/ LoadTaint \/ StoreTaint \/ MemoryDone
  BY <1>3 DEF ReadLine, ReadDone, LoadTaint, StoreTaint, MemoryDone, Stop
<1>4. CASE Reset \/ TickSimlen \/ TickTrail \/ Finish
  BY <1>4 DEF Reset, TickSimlen, TickTrail, TickTo, Finish, Stop
<1>5. CASE UNCHANGED vars
  BY <1>5 DEF vars
<1> QED
  BY <1>1, <1>2, <1>3, <1>4, <1>5 DEF Next

LEMMA ContentsInit == Init => Contents
BY DEF Init, ElfInit, Contents

LEMMA ContentsStep == Control /\ Environment /\ Contents /\ [Next]_vars => Contents'
<1> SUFFICES ASSUME Control, Environment, Contents, [Next]_vars PROVE Contents'
  OBVIOUS
<1>1. CASE ReadElfSegment /\ phase' # "stopped"
  <2> DEFINE p == CurrentElf.ph[n + 1]
  <2>1. phase' = "segments" /\ UNCHANGED <<env, todo>> /\ phase \in Filling
    BY <1>1, SegmentRead DEF Filling
  <2>2. mem \in Memories \ todo /\ CurrentElf \in env.ELF[mem]
    BY <2>1, LaunchedCurrent DEF Control
  <2>3. ASSUME NEW a \in DOMAIN mems', a \in DOMAIN mems /\ mems'[a] = mems[a]
        PROVE  \E m \in Memories \ todo : \E elf \in env.ELF[m] :
                 \E q \in ReadSegments(elf) : q.paddr = a /\ mems'[a] = q.data
    BY <2>3 DEF Contents, ReadFrom
  <2>4. CASE UNCHANGED mems
    BY <2>1, <2>3, <2>4 DEF Contents, ReadFrom
  <2>5. CASE ~UNCHANGED mems
    <3>1. /\ p \in ReadSegments(CurrentElf)
          /\ DOMAIN mems' = DOMAIN mems \cup {p.paddr}
          /\ \A a \in DOMAIN mems : mems'[a] = mems[a]
          /\ p.paddr \notin DOMAIN mems => mems'[p.paddr] = p.data
      BY <1>1, <2>5, SegmentRead
    <3>2. ASSUME NEW a \in DOMAIN mems'
          PROVE  \E m \in Memories \ todo : \E elf \in env.ELF[m] :
                   \E q \in ReadSegments(elf) : q.paddr = a /\ mems'[a] = q.data
      <4>1. CASE a \in DOMAIN mems
        BY <2>3, <3>1, <4>1
      <4>2. CASE a = p.paddr /\ a \notin DOMAIN mems
        BY <2>2, <3>1, <4>2
      <4> QED
        BY <3>1, <4>1, <4>2
    <3> QED
      BY <2>1, <3>2 DEF Contents, ReadFrom
  <2> QED
    BY <2>4, <2>5
<1>2. CASE UNCHANGED mems
  <2>1. CASE phase \in {"parse", "construct", "add"}
    BY <1>2, <2>1 DEF Contents
  <2>2. CASE phase \notin {"parse", "construct", "add"}
    <3>1. env' = env /\ todo' \subseteq todo
      BY <2>2, EnvironmentKept
    <3>2. phase' \in {"parse", "construct", "add", "main"} => DOMAIN mems = {}
      BY EnvironmentKept DEF Contents
    <3> QED
      BY <1>2, <3>1, <3>2 DEF Contents, ReadFrom
  <2> QED
    BY <2>1, <2>2
<1> QED
  BY <1>1, <1>2, ContentsKept

LEMMA SectionsInit == Init => Sections
BY EmptySeq DEF Init, ElfInit, Sections, Phases, Launched, Filling, Ticking

LEMMA SectionsStep ==
  Control /\ Environment /\ Contents /\ Sections /\ [Next]_vars => Sections'
<1> SUFFICES ASSUME Control, Environment, Contents, Sections, [Next]_vars PROVE Sections'
  OBVIOUS
<1> USE DEF Phases, Launched, Filling, Ticking
<1>1. ASSUME NEW how, Stop(how) PROVE Sections'
  BY <1>1 DEF Stop, Sections, elfVars
<1>2. ASSUME UNCHANGED elfVars, phase \notin {"segments", "load"}, phase \in Phases
      PROVE  /\ Sections' <=> (phase' = "load" /\ request' # NoRequest => Expected(request)')
             /\ phase' # "load" => Sections'
  <2>1. section_index' = Len(sections') /\ Len(sections) \in Nat
    BY <1>2, LenProperties DEF Sections, elfVars
  <2>2. \A k : k \notin section_index' + 1 .. Len(sections')
    BY <1>2, <2>1 DEF elfVars
  <2> QED
    BY <1>2, <2>1, <2>2 DEF Sections, elfVars
<1>3. CASE ParseLine \/ ParseDone \/ Construct \/ AddTaintbit \/ Launch \/ Main \/ PickMemory
  <2>1. CASE \E how : Stop(how)
    BY <1>1, <2>1
  <2>2. CASE ~\E how : Stop(how)
    <3>1. UNCHANGED elfVars /\ phase \in Phases \ {"segments", "load"} /\ phase' # "load"
      BY <1>3, <2>2
         DEF ParseLine, ParseDone, Construct, AddTaintbit, Launch, Main, PickMemory
    <3> QED
      BY <1>2, <3>1
  <2> QED
    BY <2>1, <2>2
<1>4. CASE ReadLine \/ ReadDone \/ LoadTaint \/ StoreTaint \/ MemoryDone
  <2>1. CASE \E how : Stop(how)
    BY <1>1, <2>1
  <2>2. CASE ~\E how : Stop(how)
    <3>1. UNCHANGED elfVars /\ phase \in Phases \ {"segments", "load"} /\ phase' # "load"
      BY <1>4, <2>2 DEF ReadLine, ReadDone, LoadTaint, StoreTaint, MemoryDone
    <3> QED
      BY <1>2, <3>1
  <2> QED
    BY <2>1, <2>2
<1>5. CASE Reset \/ TickSimlen \/ TickTrail
  <2>1. UNCHANGED elfVars /\ phase \in Phases \ {"segments", "load"} /\ phase' # "load"
    BY <1>5 DEF Reset, TickSimlen, TickTrail, TickTo
  <2> QED
    BY <1>2, <2>1
<1>6. CASE Finish
  BY <1>1, <1>6 DEF Finish
<1>7. CASE ReadElfSegment
  <2>1. CASE phase' = "stopped"
    BY <1>1, <1>7, <2>1 DEF ReadElfSegment
  <2>2. CASE phase' # "stopped"
    <3>1. /\ phase = "segments" /\ phase' = "segments"
          /\ UNCHANGED <<env, mem, request, section_index, CurrentElf>>
      BY <1>7, <2>2, SegmentRead
    <3>2. IsProgram(CurrentElf)
      BY <3>1, LaunchedCurrent
    <3>3. CASE UNCHANGED <<sections, mems>>
      BY <3>1, <3>3 DEF Sections, Expected
    <3>4. CASE ~UNCHANGED <<sections, mems>>
      <4>1. PICK p \in ReadSegments(CurrentElf) :
            /\ sections' = Append(sections, [addr |-> p.paddr, len |-> p.memsz])
            /\ DOMAIN mems' = DOMAIN mems \cup {p.paddr}
        BY <1>7, <2>2, <3>4, SegmentRead
      <4> DEFINE s == [addr |-> p.paddr, len |-> p.memsz]
      <4>2. s \in [addr : Nat, len : Nat]
        BY <3>2, <4>1, SegmentType
      <4>3. /\ sections' \in Seq([addr : Nat, len : Nat])
            /\ Len(sections) \in Nat /\ Len(sections') = Len(sections) + 1
            /\ \A k \in 1 .. Len(sections) : sections'[k] = sections[k]
            /\ sections'[Len(sections) + 1] = s
        BY <4>1, <4>2 DEF Sections
      <4>4. section_index' \in 0 .. Len(sections')
        BY <3>1, <4>3 DEF Sections
      <4>5. ASSUME NEW k \in section_index' + 1 .. Len(sections')
            PROVE  Expected(sections[k])'
        <5>1. CASE k = Len(sections) + 1
          <6>1. Describes(s, p)
            BY DEF Describes
          <6> QED
            BY <3>1, <4>1, <4>3, <5>1, <6>1 DEF Expected, Describes
        <5>2. CASE k # Len(sections) + 1
          <6>1. k \in section_index + 1 .. Len(sections) /\ k \in 1 .. Len(sections)
            BY <3>1, <4>3, <5>2 DEF Sections
          <6>2. PICK q \in ReadSegments(CurrentElf) :
                  Describes(sections[k], q) /\ q.paddr \in DOMAIN mems
            BY <3>1, <6>1 DEF Sections, Expected
          <6> QED
            BY <3>1, <4>1, <4>3, <6>1, <6>2 DEF Expected, Describes
        <5> QED
          BY <5>1, <5>2
      <4> QED
        BY <3>1, <4>3, <4>4, <4>5 DEF Sections
    <3> QED
      BY <3>3, <3>4
  <2> QED
    BY <2>1, <2>2
<1>8. CASE ReadElfDone
  <2>1. CASE Stop("abort")
    BY <1>1, <2>1
  <2>2. CASE ~Stop("abort")
    <3>1. /\ phase = "segments" /\ phase' = "load" /\ request' = NoRequest
          /\ UNCHANGED <<env, mem, elfVars>>
      BY <1>8, <2>2 DEF ReadElfDone, Control, scriptVars
    <3>2. CurrentElf' = CurrentElf
      BY <3>1 DEF CurrentElf, ElfOf
    <3> QED
      BY <3>1, <3>2 DEF Sections, Expected, elfVars
  <2> QED
    BY <2>1, <2>2
<1>9. CASE LoadSection
  <2>1. /\ phase = "load" /\ phase' = "load" /\ UNCHANGED <<env, mem, sections, mems>>
        /\ section_index < Len(sections) /\ section_index' = section_index + 1
        /\ request' = [id |-> 0, addr |-> sections[section_index + 1].addr,
                       len |-> sections[section_index + 1].len]
    BY <1>9 DEF LoadSection, GetSection, MoreSegments, scriptVars
  <2>2. CurrentElf' = CurrentElf
    BY <2>1 DEF CurrentElf, ElfOf
  <2>3. Len(sections) \in Nat
    BY LenProperties DEF Sections
  <2>4. /\ section_index + 1 \in section_index + 1 .. Len(sections)
        /\ section_index' \in 0 .. Len(sections)
        /\ \A k \in section_index' + 1 .. Len(sections) :
             k \in section_index + 1 .. Len(sections)
    BY <2>1, <2>3 DEF Sections
  <2>5. Expected(sections[section_index + 1])
    BY <2>1, <2>4 DEF Sections
  <2>6. Expected(request)'
    BY <2>1, <2>2, <2>5 DEF Expected, Describes
  <2>7. \A k \in section_index' + 1 .. Len(sections') : Expected(sections[k])'
    BY <2>1, <2>2, <2>4 DEF Sections, Expected
  <2> QED
    BY <2>1, <2>4, <2>6, <2>7 DEF Sections
<1>10. CASE StoreSection
  <2>1. CASE \E how : Stop(how)
    BY <1>1, <2>1
  <2>2. CASE ~\E how : Stop(how)
    <3>1. /\ phase = "load" /\ phase' = "load" /\ request' = NoRequest
          /\ UNCHANGED <<env, mem, elfVars>>
      BY <1>10, <2>2 DEF StoreSection, scriptVars
    <3>2. CurrentElf' = CurrentElf
      BY <3>1 DEF CurrentElf, ElfOf
    <3> QED
      BY <3>1, <3>2 DEF Sections, Expected, elfVars
  <2> QED
    BY <2>1, <2>2
<1>11. CASE LoadDone
  <2>1. /\ phase = "load" /\ phase' = "lines" /\ UNCHANGED elfVars
        /\ ~(section_index < Len(sections))
    BY <1>11 DEF LoadDone, MoreSegments
  <2>2. section_index = Len(sections)
    BY <2>1, LenProperties DEF Sections
  <2> QED
    BY <2>1, <2>2 DEF Sections, elfVars
<1>12. CASE UNCHANGED vars
  <2>1. /\ UNCHANGED <<phase, env, mem, request, elfVars>>
    BY <1>12 DEF vars, scriptVars
  <2>2. CurrentElf' = CurrentElf
    BY <2>1 DEF CurrentElf, ElfOf
  <2> QED
    BY <2>1, <2>2 DEF Sections, Expected, elfVars
<1> QED
  BY <1>3, <1>4, <1>5, <1>6, <1>7, <1>8, <1>9, <1>10, <1>11, <1>12 DEF Next
-----------------------------------------------------------------------------
(* The contents of the memories. *)

\* Into the zeroed buffer go bytes, and those of the requested segment make its image.
LEMMA SegmentArrives ==
  ASSUME NEW elf, IsProgram(elf), NEW p \in ReadSegments(elf), mems[p.paddr] \in Seq(Nat),
         NEW a \in Addresses, Covers(p, a)
  PROVE  LET zeros == [j \in 1 .. p.memsz |-> Zero]
             stored == ReadSection(p.paddr, zeros)[a - p.paddr + 1]
         IN  stored \in Int /\ (Held(p) => stored = ByteOf(p, a))
<1> DEFINE zeros == [j \in 1 .. p.memsz |-> Zero]
           j == a - p.paddr + 1
           content == mems[p.paddr]
<1>1. /\ p.paddr \in Nat /\ p.memsz \in Nat /\ p.filesz \in Nat
      /\ p.data \in Seq(Nat) /\ Len(p.data) = p.filesz
  BY SegmentType
<1>2. Len(zeros) = p.memsz
  <2>1. zeros = [i \in 1 .. p.memsz |-> zeros[i]]
    OBVIOUS
  <2> HIDE DEF zeros
  <2> QED
    BY <1>1, <2>1, SequenceOf
<1>3. /\ a \in Int /\ j \in Int /\ j \in 1 .. p.memsz
      /\ j <= p.filesz <=> a - p.paddr < p.filesz
  <2>1. a \in Int /\ a - p.paddr \in 0 .. (p.memsz - 1)
    BY DEF Covers, Addresses
  <2> QED
    BY <1>1, <2>1
<1>4. zeros[j] = 0
  BY <1>3 DEF Zero
<1>5. content \in Seq(Nat) /\ Len(content) \in Nat
  BY LenProperties
<1>6. j <= Len(content) => content[j] \in Nat
  <2>1. j <= Len(content) => j \in 1 .. Len(content)
    BY <1>3, <1>5
  <2> HIDE DEF j, content
  <2> QED
    BY <1>5, <2>1, ElementOfSeq
<1> HIDE DEF zeros, j
<1>7. ReadSection(p.paddr, zeros)[j] = IF j <= Len(content) THEN content[j] ELSE 0
  BY <1>2, <1>3, <1>4 DEF ReadSection
<1>8. ByteOf(p, a) = IF j <= p.filesz THEN p.data[j] ELSE 0
  BY <1>3 DEF ByteOf, j, Zero
<1>9. ReadSection(p.paddr, zeros)[j] \in Int
  BY <1>6, <1>7
<1>10. Held(p) => ReadSection(p.paddr, zeros)[j] = ByteOf(p, a)
  BY <1>1, <1>7, <1>8 DEF Held
<1> QED
  BY <1>9, <1>10 DEF zeros, j

\* What is contested changes only when another memory is picked.
LEMMA ContestedKept ==
  ASSUME UNCHANGED <<env, mem, todo>>
  PROVE  \A m : Contested(m)' = Contested(m)
BY DEF Contested, ElfOf

LEMMA ContestedLast == ASSUME NEW m, m # mem \/ todo # {} PROVE Contested(m) = {}
BY DEF Contested

\* Storing a requested segment completes a partial image by it.
LEMMA StoreSegment ==
  ASSUME Control, Environment, Contents, Sections, Images,
         StoreSection, phase' # "stopped"
  PROVE  /\ IsPartialImage(CurrentElf, bytes[mem], Contested(mem))'
         /\ bytes' \in [Memories -> [Addresses -> Int]]
         /\ \A m \in Memories \ {mem} : bytes'[m] = bytes[m]
<1> DEFINE zeros == [j \in 1 .. request.len |-> Zero]
<1>1. /\ phase = "load" /\ request # NoRequest /\ request' = NoRequest
      /\ UNCHANGED <<env, mem, todo, elfVars>>
      /\ bytes' = [bytes EXCEPT ![mem] = Stored(@, ReadSection(request.addr, zeros))]
  BY DEF StoreSection, Stop, scriptVars
<1>2. mem \in Memories /\ IsProgram(CurrentElf) /\ CurrentElf' = CurrentElf
  BY <1>1, LaunchedCurrent DEF Filling, CurrentElf, ElfOf
<1>3. PICK p \in ReadSegments(CurrentElf) :
        Describes(request, p) /\ p.paddr \in DOMAIN mems
  BY <1>1 DEF Sections, Expected
<1>4. request.addr = p.paddr /\ request.len = p.memsz /\ IsRead(p)
  BY <1>2, <1>3, SegmentType DEF Describes
<1> DEFINE old == bytes[mem]
           new == Stored(old, ReadSection(request.addr, zeros))
<1>5. old \in [Addresses -> Int]
  BY <1>2 DEF Images
<1>6. \A a \in Addresses : Covers(p, a) <=> a - request.addr \in 0 .. (request.len - 1)
  BY <1>4 DEF Covers
<1>7. \A a \in Addresses :
        new[a] = IF Covers(p, a) THEN ReadSection(request.addr, zeros)[a - request.addr + 1]
                 ELSE old[a]
  BY <1>6 DEF Stored
<1>8. /\ mems[p.paddr] \in Seq(Nat)
      /\ p.paddr \notin Contested(mem) => Held(p)
  BY <1>1, <1>3, HeldSegment DEF Filling
<1>9. ASSUME NEW a \in Addresses, Covers(p, a)
      PROVE  new[a] \in Int /\ (Held(p) => new[a] = ByteOf(p, a))
  BY <1>2, <1>4, <1>7, <1>8, <1>9, SegmentArrives
<1>10. \A a \in Addresses : ~Covers(p, a) => new[a] = old[a]
  BY <1>7
<1>11. new \in [Addresses -> Int]
  <2>1. new = [a \in Addresses |-> new[a]]
    BY DEF Stored
  <2> HIDE DEF new, old
  <2> QED
    BY <1>5, <1>9, <1>10, <2>1
<1>12. bytes' = [bytes EXCEPT ![mem] = new]
  BY <1>1
<1> HIDE DEF new
<1>13. bytes'[mem] = new
  BY <1>2, <1>12 DEF Images
<1>14. /\ bytes' \in [Memories -> [Addresses -> Int]]
       /\ \A m \in Memories \ {mem} : bytes'[m] = bytes[m]
  BY <1>11, <1>12 DEF Images
<1>15. IsPartialImage(CurrentElf, old, Contested(mem))
  BY <1>1 DEF Images
<1>16. ASSUME NEW a \in Addresses, NEW q \in ReadSegments(CurrentElf), Covers(q, a),
              q.paddr \notin Contested(mem)
       PROVE  new[a] = ByteOf(q, a) \/ Waits(q)'
  <2>1. CASE q = p
    BY <1>8, <1>9, <1>16, <2>1
  <2>2. CASE q # p
    <3>1. q.paddr # p.paddr /\ ~Covers(p, a)
      BY <1>2, <1>16, <2>2, DisjointSegments
    <3>2. new[a] = old[a]
      BY <1>10, <3>1
    <3>3. old[a] = ByteOf(q, a) \/ Waits(q)
      BY <1>15, <1>16 DEF IsPartialImage
    <3>4. Waits(q) => Waits(q)'
      BY <1>1, <1>4, <3>1 DEF Waits, InTable, elfVars
    <3> QED
      BY <3>2, <3>3, <3>4
  <2> QED
    BY <2>1, <2>2
<1>17. ASSUME NEW a \in Addresses, \A q \in ReadSegments(CurrentElf) : ~Covers(q, a)
       PROVE  new[a] = Undefined
  BY <1>3, <1>10, <1>15, <1>17 DEF IsPartialImage
<1>18. IsPartialImage(CurrentElf, bytes[mem], Contested(mem))'
  <2>1. Contested(mem)' = Contested(mem)
    BY <1>1, ContestedKept
  <2> QED
    BY <1>1, <1>2, <1>13, <1>16, <1>17, <2>1
       DEF IsPartialImage, Covers, ByteOf, IsRead, ReadSegments, Waits, InTable
<1> QED
  BY <1>14, <1>18

\* Once no segment waits, the image is complete.
LEMMA WholeImage ==
  ASSUME NEW elf, IsProgram(elf), NEW content, NEW contested,
         IsPartialImage(elf, content, contested), \A p \in ReadSegments(elf) : ~Waits(p)
  PROVE  IsImage(elf, content, contested)
<1>1. ASSUME NEW a \in Addresses, NEW p \in Range(elf.ph), Occupies(p, a), p.filesz # 0
      PROVE  p \in ReadSegments(elf) /\ Covers(p, a)
  <2>1. elf.ph \in Seq(Segments)
    BY DEF IsProgram
  <2>2. p.memsz \in Nat
    <3>1. p \in Segments
      BY <2>1, LenProperties, ElementOfSeq DEF Range
    <3> QED
      BY <3>1 DEF Segments
  <2>3. p.memsz # 0
    BY <1>1, <2>2 DEF Occupies
  <2> QED
    BY <1>1, <2>3 DEF Occupies, Covers, ReadSegments, IsRead
<1>2. \A p \in ReadSegments(elf), a \in Addresses :
        Covers(p, a) => p \in Range(elf.ph) /\ Occupies(p, a)
  BY DEF ReadSegments, Covers, Occupies, IsRead
<1> QED
  BY <1>1, <1>2 DEF IsImage, IsPartialImage

LEMMA ImagesInit == Init => Images
BY DEF Init, Images, Empty, Undefined, Phases, Launched, Filling, Ticking

\* A step that fills nothing keeps the memories as they are.
LEMMA ImagesKept ==
  ASSUME Control, Images, UNCHANGED <<bytes, mem, todo>>,
         phase \notin {"parse", "construct", "add"} => UNCHANGED env,
         phase \in Launched \ {"segments", "load"} \/ todo = Memories,
         phase \in Phases,
         phase' \in Phases \ {"segments", "load"}
  PROVE  Images'
<1>1. \A m \in Memories \ todo : \A elf \in ElfOf(m) : IsImage(elf, bytes[m], Contested(m))
  BY DEF Images
<1>2. \A m \in Memories \ todo : phase \notin {"parse", "construct", "add"}
  BY DEF Control
<1>3. ASSUME NEW m \in Memories \ todo
      PROVE  \A elf \in ElfOf(m)' : IsImage(elf, bytes[m], Contested(m))'
  <2>1. Contested(m)' = Contested(m)
    BY <1>2, ContestedKept
  <2> QED
    BY <1>1, <1>2, <2>1 DEF ElfOf, IsImage
<1> QED
  BY <1>3 DEF Images, Empty

LEMMA ImagesStep ==
  Control /\ Environment /\ Contents /\ Sections /\ Images /\ [Next]_vars => Images'
<1> SUFFICES ASSUME Control, Environment, Contents, Sections, Images, [Next]_vars
             PROVE  Images'
  OBVIOUS
<1> USE DEF Phases, Launched, Filling, Ticking
<1>1. ASSUME NEW how, Stop(how) PROVE Images'
  BY <1>1 DEF Stop, Images, memVars
<1>2. CASE ParseLine \/ ParseDone \/ Construct \/ AddTaintbit \/ Launch \/ Main
  <2>1. CASE \E how : Stop(how)
    BY <1>1, <2>1
  <2>2. CASE ~\E how : Stop(how)
    <3>1. /\ UNCHANGED <<bytes, mem, todo>> /\ phase \in {"parse", "construct", "add", "main"}
          /\ phase = "main" => UNCHANGED env
          /\ phase' \in {"parse", "construct", "add", "main", "pick"}
      BY <1>2, <2>2
         DEF ParseLine, ParseDone, Construct, AddTaintbit, Launch, Main, memVars, scriptVars
    <3> QED
      BY <3>1, ImagesKept DEF Control
  <2> QED
    BY <2>1, <2>2
<1>3. CASE PickMemory
  <2>1. CASE \E how : Stop(how)
    BY <1>1, <2>1
  <2>2. CASE ~\E how : Stop(how)
    <3>1. PICK m \in todo :
            /\ phase = "pick" /\ phase' = "segments" /\ mem' = m /\ todo' = todo \ {m}
            /\ n' = 0 /\ UNCHANGED <<env, bytes>>
      BY <1>3, <2>2 DEF PickMemory, scriptVars, memVars
    <3>2. m \in Memories /\ Empty(bytes[m])
      BY <3>1 DEF Control, Images
    <3>3. IsProgram(CurrentElf)' /\ Len(CurrentElf'.ph) \in Nat
      <4>1. CurrentElf' \in env.ELF[m]
        <5>1. Environment'
          BY EnvironmentStep
        <5> QED
          BY <3>1, <5>1 DEF Environment, CurrentElf, ElfOf, Unset
      <4>2. IsProgram(CurrentElf')
        BY <3>1, <3>2, <4>1, LaunchedPrograms
      <4> QED
        BY <4>2, SegmentType DEF IsProgram, ReadSegments, IsRead
    <3>4. \A k \in Memories \ todo' : k # mem' =>
            k \in Memories \ todo /\ Contested(k) = {} /\ Contested(k)' = {}
      BY <3>1, ContestedLast DEF Contested
    <3>5. \A k \in Memories \ todo' : k # mem' =>
            \A elf \in ElfOf(k)' : IsImage(elf, bytes[k], Contested(k))'
      BY <3>1, <3>4 DEF Images, ElfOf, IsImage
    <3>6. bytes' \in [Memories -> [Addresses -> Int]] /\ \A k \in todo' : Empty(bytes[k])'
      BY <3>1 DEF Images, Empty
    <3>7. Empty(bytes[mem])' /\ n' <= Len(CurrentElf.ph)'
      BY <3>1, <3>2, <3>3 DEF Empty
    <3>8. \A i : i \notin 1 .. n'
      BY <3>1
    <3> QED
      BY <3>1, <3>5, <3>6, <3>7, <3>8 DEF Images
  <2> QED
    BY <2>1, <2>2
<1>4. CASE ReadElfSegment
  <2>1. CASE phase' = "stopped"
    BY <1>1, <1>4, <2>1 DEF ReadElfSegment
  <2>2. CASE phase' # "stopped"
    <3>1. /\ phase = "segments" /\ phase' = "segments"
          /\ UNCHANGED <<env, mem, todo, bytes, section_index, CurrentElf>>
          /\ n' = n + 1 /\ n + 1 \in 1 .. Len(CurrentElf.ph)
      BY <1>4, <2>2, SegmentRead
    <3>2. /\ n \in Nat /\ Len(sections) \in Nat /\ Len(CurrentElf.ph) \in Nat
          /\ section_index \in 0 .. Len(sections)
      BY <3>1, LaunchedCurrent, SegmentType, LenProperties DEF Control, Sections
    <3>3. ASSUME NEW i \in 1 .. n', IsRead(CurrentElf.ph[i])
          PROVE  \E k \in section_index + 1 .. Len(sections') :
                   sections'[k].addr = CurrentElf.ph[i].paddr
      <4>1. CASE ~IsRead(CurrentElf.ph[n + 1])
        <5>1. i # n + 1 /\ UNCHANGED sections
          BY <1>4, <2>2, <3>3, <4>1, SegmentRead
        <5>2. InTable(CurrentElf.ph[i])
          BY <3>1, <3>2, <3>3, <5>1 DEF Images
        <5> QED
          BY <5>1, <5>2 DEF InTable
      <4>2. CASE IsRead(CurrentElf.ph[n + 1])
        <5> DEFINE p == CurrentElf.ph[n + 1]
                   s == [addr |-> p.paddr, len |-> p.memsz]
        <5>1. p \in ReadSegments(CurrentElf) /\ sections' = Append(sections, s)
          BY <1>4, <2>2, <4>2, SegmentRead
        <5>2. s \in [addr : Nat, len : Nat]
          BY <3>1, <5>1, LaunchedCurrent, SegmentType
        <5>3. /\ Len(sections') = Len(sections) + 1
              /\ \A k \in 1 .. Len(sections) : sections'[k] = sections[k]
              /\ sections'[Len(sections) + 1] = s
          BY <5>1, <5>2 DEF Sections
        <5>4. CASE i = n + 1
          BY <3>2, <5>3, <5>4
        <5>5. CASE i # n + 1
          <6>1. InTable(CurrentElf.ph[i])
            BY <3>1, <3>2, <3>3, <5>5 DEF Images
          <6>2. PICK k \in section_index + 1 .. Len(sections) :
                  sections[k].addr = CurrentElf.ph[i].paddr
            BY <6>1 DEF InTable
          <6>3. k \in 1 .. Len(sections) /\ k \in section_index + 1 .. Len(sections')
            BY <3>2, <5>3, <6>2
          <6> QED
            BY <5>3, <6>2, <6>3
        <5> QED
          BY <5>4, <5>5
      <4> QED
        BY <4>1, <4>2
    <3>5. \A m \in Memories \ todo' : m # mem' =>
            \A elf \in ElfOf(m)' : IsImage(elf, bytes[m], Contested(m))'
      BY <3>1, ContestedKept DEF Images, ElfOf, IsImage
    <3>6. /\ bytes' \in [Memories -> [Addresses -> Int]]
          /\ \A m \in todo' : Empty(bytes[m])'
          /\ Empty(bytes[mem])' /\ n' <= Len(CurrentElf.ph)'
      BY <3>1, <3>2 DEF Images, Empty
    <3>7. \A i \in 1 .. n' : IsRead(CurrentElf.ph[i])' => InTable(CurrentElf.ph[i])'
      BY <3>1, <3>3 DEF InTable, IsRead
    <3> QED
      BY <3>1, <3>5, <3>6, <3>7 DEF Images
  <2> QED
    BY <2>1, <2>2
<1>5. CASE ReadElfDone
  <2>1. CASE Stop("abort")
    BY <1>1, <2>1
  <2>2. CASE ~Stop("abort")
    <3>1. /\ phase = "segments" /\ phase' = "load" /\ n = Len(CurrentElf.ph)
          /\ UNCHANGED <<env, mem, todo, bytes, request, elfVars>>
      BY <1>5, <2>2 DEF ReadElfDone, scriptVars, memVars
    <3>2. CurrentElf' = CurrentElf /\ IsProgram(CurrentElf)
      BY <3>1, LaunchedCurrent DEF CurrentElf, ElfOf
    <3>3. ASSUME NEW p \in ReadSegments(CurrentElf) PROVE InTable(p)
      <4>1. PICK i \in 1 .. n : p = CurrentElf.ph[i] /\ IsRead(p)
        BY <3>1, <3>2, SegmentType
      <4> QED
        BY <3>1, <4>1 DEF Images
    <3>4. Empty(bytes[mem])
      BY <3>1 DEF Images
    <3>5. IsPartialImage(CurrentElf, bytes[mem], Contested(mem))'
      <4>1. \A p \in ReadSegments(CurrentElf) : Waits(p)'
        BY <3>1, <3>3 DEF Waits, InTable, elfVars
      <4> QED
        BY <3>1, <3>2, <3>4, <4>1, ContestedKept
           DEF IsPartialImage, Empty, ReadSegments, IsRead, Covers
    <3>6. \A m \in Memories \ todo' : m # mem' =>
            \A elf \in ElfOf(m)' : IsImage(elf, bytes[m], Contested(m))'
      BY <3>1, ContestedKept DEF Images, ElfOf, IsImage
    <3> QED
      BY <3>1, <3>5, <3>6 DEF Images, Empty
  <2> QED
    BY <2>1, <2>2
<1>6. CASE LoadSection
  <2>1. /\ phase = "load" /\ phase' = "load" /\ request = NoRequest
        /\ UNCHANGED <<env, mem, todo, bytes, sections>>
        /\ section_index < Len(sections) /\ section_index' = section_index + 1
        /\ request' = [id |-> 0, addr |-> sections[section_index + 1].addr,
                       len |-> sections[section_index + 1].len]
    BY <1>6 DEF LoadSection, GetSection, MoreSegments, scriptVars, memVars
  <2>2. CurrentElf' = CurrentElf
    BY <2>1 DEF CurrentElf, ElfOf
  <2>3. Len(sections) \in Nat /\ section_index \in Nat
    BY LenProperties DEF Sections
  <2>4. request' # NoRequest
    BY <2>1 DEF NoRequest
  <2>5. ASSUME NEW p, Waits(p) PROVE Waits(p)'
    <3>1. PICK k \in section_index + 1 .. Len(sections) : sections[k].addr = p.paddr
      BY <2>1, <2>5 DEF Waits, InTable
    <3>2. CASE k = section_index + 1
      BY <2>1, <2>4, <3>1, <3>2 DEF Waits
    <3>3. CASE k # section_index + 1
      <4>1. k \in section_index' + 1 .. Len(sections)
        BY <2>1, <2>3, <3>3
      <4> QED
        BY <2>1, <3>1, <4>1 DEF Waits, InTable
    <3> QED
      BY <3>2, <3>3
  <2>6. IsPartialImage(CurrentElf, bytes[mem], Contested(mem))'
    <3>1. IsPartialImage(CurrentElf, bytes[mem], Contested(mem))
      BY <2>1 DEF Images
    <3> QED
      BY <2>1, <2>2, <2>5, <3>1, ContestedKept
         DEF IsPartialImage, ReadSegments, IsRead, Covers, ByteOf
  <2>7. \A m \in Memories \ todo' : m # mem' =>
          \A elf \in ElfOf(m)' : IsImage(elf, bytes[m], Contested(m))'
    BY <2>1, ContestedKept DEF Images, ElfOf, IsImage
  <2> QED
    BY <2>1, <2>6, <2>7 DEF Images, Empty
<1>7. CASE StoreSection
  <2>1. CASE phase' = "stopped"
    BY <1>1, <1>7, <2>1 DEF StoreSection
  <2>2. CASE phase' # "stopped"
    <3>1. /\ phase = "load" /\ phase' = "load" /\ UNCHANGED <<env, mem, todo>>
      BY <1>7, <2>2 DEF StoreSection, Stop, scriptVars
    <3>2. /\ IsPartialImage(CurrentElf, bytes[mem], Contested(mem))'
          /\ bytes' \in [Memories -> [Addresses -> Int]]
          /\ \A m \in Memories \ {mem} : bytes'[m] = bytes[m]
      BY <1>7, <2>2, StoreSegment
    <3>3. mem \notin todo /\ todo \subseteq Memories
      BY <3>1 DEF Control
    <3>4. \A m \in todo' : Empty(bytes[m])'
      BY <3>1, <3>2, <3>3 DEF Images, Empty
    <3>5. \A m \in Memories \ todo' : m # mem' =>
            \A elf \in ElfOf(m)' : IsImage(elf, bytes[m], Contested(m))'
      BY <3>1, <3>2, ContestedKept DEF Images, ElfOf, IsImage
    <3> QED
      BY <3>1, <3>2, <3>4, <3>5 DEF Images
  <2> QED
    BY <2>1, <2>2
<1>8. CASE LoadDone
  <2>1. /\ phase = "load" /\ phase' = "lines" /\ request = NoRequest
        /\ UNCHANGED <<env, mem, todo, bytes>> /\ ~(section_index < Len(sections))
    BY <1>8 DEF LoadDone, MoreSegments, scriptVars, memVars
  <2>2. \A p : ~Waits(p)
    BY <2>1, LenProperties DEF Waits, InTable, Sections
  <2>3. /\ IsProgram(CurrentElf) /\ \A elf \in ElfOf(mem) : elf = CurrentElf
    BY <2>1, LaunchedCurrent DEF ElfOf
  <2>4. \A elf \in ElfOf(mem) : IsImage(elf, bytes[mem], Contested(mem))
    BY <2>1, <2>2, <2>3, WholeImage DEF Images
  <2>5. \A m \in Memories \ todo : \A elf \in ElfOf(m) : IsImage(elf, bytes[m], Contested(m))
    BY <2>1, <2>4 DEF Images
  <2> QED
    BY <2>1, <2>5, ContestedKept DEF Images, Empty, ElfOf, IsImage
<1>9. CASE ReadLine \/ ReadDone \/ LoadTaint \/ StoreTaint \/ MemoryDone
  <2>1. CASE \E how : Stop(how)
    BY <1>1, <2>1
  <2>2. CASE ~\E how : Stop(how)
    <3>1. /\ UNCHANGED <<bytes, mem, todo, env>>
          /\ phase \in Launched \ {"segments", "load"}
          /\ phase' \in Launched \ {"segments", "load"}
      BY <1>9, <2>2
         DEF ReadLine, ReadDone, LoadTaint, StoreTaint, MemoryDone, memVars, scriptVars
    <3> QED
      BY <3>1, ImagesKept
  <2> QED
    BY <2>1, <2>2
<1>10. CASE Reset \/ TickSimlen \/ TickTrail
  <2>1. UNCHANGED <<bytes, mem, todo, env>> /\ phase \in Ticking /\ phase' \in Ticking
    BY <1>10 DEF Reset, TickSimlen, TickTrail, TickTo, memVars, scriptVars
  <2> QED
    BY <2>1, ImagesKept
<1>11. CASE Finish
  BY <1>1, <1>11 DEF Finish
<1>12. CASE UNCHANGED vars
  <2>1. UNCHANGED <<phase, n, env, mem, todo, request, bytes, elfVars>>
    BY <1>12 DEF vars, scriptVars, memVars
  <2>2. CurrentElf' = CurrentElf
    BY <2>1 DEF CurrentElf, ElfOf
  <2> QED
    BY <2>1, <2>2, ContestedKept
       DEF Images, Empty, IsPartialImage, ReadSegments, IsRead, Covers, ByteOf, Waits,
           InTable, ElfOf, IsImage, elfVars
<1> QED
  BY <1>2, <1>3, <1>4, <1>5, <1>6, <1>7, <1>8, <1>9, <1>10, <1>11, <1>12 DEF Next
-----------------------------------------------------------------------------
(* The tables of the taint loader. *)
NoneExpected ==
  \A id \in Ids : taint_section_index[id] = Len(taint_sections[id])
AllExpected ==
  \A id \in Ids :
    \A k \in taint_section_index[id] + 1 .. Len(taint_sections[id]) :
      TaintExpected(id, taint_sections[id][k])

LEMMA TaintTablesInit == Init => TaintTables
<1> SUFFICES ASSUME Init PROVE TaintTables
  OBVIOUS
<1>1. IsSequence(<<>>) /\ Len(<<>>) = 0
  BY EmptySeq DEF IsSequence
<1>2. /\ taint_sections = [id \in Ids |-> <<>>]
      /\ taint_assignments = [id \in Ids |-> [a \in {} |-> <<>>]]
      /\ taint_section_index = [id \in Ids |-> 0]
      /\ phase \in {"parse", "construct", "add", "main"}
  BY DEF Init, TaintInit
<1>3. \A id \in Ids : /\ taint_sections[id] = <<>> /\ taint_section_index[id] = 0
                     /\ DOMAIN taint_assignments[id] = {}
  BY <1>2
<1>4. taint_section_index \in [Ids -> Nat]
  BY <1>2
<1> QED
  BY <1>1, <1>2, <1>3, <1>4 DEF TaintTables

\* A step that leaves the tables alone while nothing is on its way.
LEMMA TaintTablesKept ==
  ASSUME Control, TaintTables, UNCHANGED <<taintVars, job>>,
         phase \in Phases \ {"lines", "taints"}, phase' # "taints"
  PROVE  TaintTables'
<1>1. NoneExpected
  BY DEF TaintTables, NoneExpected
<1>2. \A id \in Ids : taint_section_index[id] \in Nat
  BY DEF TaintTables
<1>3. \A id \in Ids : \A k :
        k \notin taint_section_index'[id] + 1 .. Len(taint_sections'[id])
  BY <1>1, <1>2 DEF NoneExpected, taintVars
<1> QED
  BY <1>1, <1>3 DEF TaintTables, NoneExpected, taintVars

\* What read_taints does to the tables for one line.
LEMMA LineRecorded ==
  ASSUME TaintTables, NEW line, line.id \in Ids, ReadTaintLine(line)
  PROVE  /\ taint_section_index' = taint_section_index
         /\ DOMAIN taint_sections' = Ids /\ DOMAIN taint_assignments' = Ids
         /\ \A id \in Ids : id # line.id =>
              /\ taint_sections'[id] = taint_sections[id]
              /\ taint_assignments'[id] = taint_assignments[id]
         /\ IsSequence(taint_sections'[line.id])
         /\ Len(taint_sections'[line.id]) = Len(taint_sections[line.id]) + 1
         /\ \A i \in 1 .. Len(taint_sections[line.id]) :
              taint_sections'[line.id][i] = taint_sections[line.id][i]
         /\ taint_sections'[line.id][Len(taint_sections[line.id]) + 1] =
              [addr |-> line.addr, len |-> line.nbytes]
         /\ DOMAIN taint_assignments'[line.id] =
              DOMAIN taint_assignments[line.id] \cup {line.addr}
         /\ taint_assignments'[line.id][line.addr].mask = line.mask
         /\ taint_assignments'[line.id][line.addr].digits = line.digits
         /\ \A a \in DOMAIN taint_assignments[line.id] : a # line.addr =>
              taint_assignments'[line.id][a] = taint_assignments[line.id][a]
<1>1. /\ taint_sections' = [taint_sections EXCEPT
            ![line.id] = Append(@, [addr |-> line.addr, len |-> line.nbytes])]
      /\ taint_assignments' = [taint_assignments EXCEPT
            ![line.id] = [a \in DOMAIN @ \cup {line.addr} |->
                            IF a = line.addr THEN [mask |-> line.mask, digits |-> line.digits]
                            ELSE @[a]]]
      /\ taint_section_index' = taint_section_index
  BY DEF ReadTaintLine
<1>2. DOMAIN taint_sections' = Ids /\ DOMAIN taint_assignments' = Ids
  BY <1>1 DEF TaintTables
<1>3. \A id \in Ids : id # line.id =>
        /\ taint_sections'[id] = taint_sections[id]
        /\ taint_assignments'[id] = taint_assignments[id]
  BY <1>1 DEF TaintTables
<1>4. /\ taint_sections'[line.id] =
           Append(taint_sections[line.id], [addr |-> line.addr, len |-> line.nbytes])
      /\ taint_assignments'[line.id] =
           [a \in DOMAIN taint_assignments[line.id] \cup {line.addr} |->
              IF a = line.addr THEN [mask |-> line.mask, digits |-> line.digits]
              ELSE taint_assignments[line.id][a]]
  BY <1>1 DEF TaintTables
<1>5. /\ IsSequence(taint_sections'[line.id])
      /\ Len(taint_sections'[line.id]) = Len(taint_sections[line.id]) + 1
      /\ \A i \in 1 .. Len(taint_sections[line.id]) :
           taint_sections'[line.id][i] = taint_sections[line.id][i]
      /\ taint_sections'[line.id][Len(taint_sections[line.id]) + 1] =
           [addr |-> line.addr, len |-> line.nbytes]
  <2>1. IsSequence(taint_sections[line.id])
    BY DEF TaintTables
  <2> QED
    BY <1>4, <2>1, SequenceAppend
<1>6. /\ DOMAIN taint_assignments'[line.id] =
           DOMAIN taint_assignments[line.id] \cup {line.addr}
      /\ taint_assignments'[line.id][line.addr].mask = line.mask
      /\ taint_assignments'[line.id][line.addr].digits = line.digits
      /\ \A a \in DOMAIN taint_assignments[line.id] : a # line.addr =>
           taint_assignments'[line.id][a] = taint_assignments[line.id][a]
  BY <1>4
<1> QED
  BY <1>1, <1>2, <1>3, <1>5, <1>6

\* A further line of the file.
LEMMA LineRead ==
  ASSUME Control, Environment, TaintTables, ReadLine
  PROVE  TaintTables'
<1>1. /\ phase = "lines" /\ phase' = "lines" /\ n < Len(TaintsOf(mem))
      /\ UNCHANGED <<env, job, mem>> /\ ReadTaintLine(TaintsOf(mem)[n + 1])
  BY DEF ReadLine, scriptVars
<1>2. mem \in Memories /\ phase \in Launched
  BY <1>1 DEF Control, Filling, Launched
<1>3. GoodLines(TaintsOf(mem))
  BY <1>2, LaunchedTaints
<1>4. n + 1 \in 1 .. Len(TaintsOf(mem))
  BY <1>1, <1>3 DEF Control, GoodLines
<1>5. PICK line : line = TaintsOf(mem)[n + 1]
  OBVIOUS
<1>6. line.id \in Ids /\ (job # NoJob => line.digits = "even")
  BY <1>2, <1>3, <1>4, <1>5, LaunchedTaints DEF GoodLines, FullLines
<1> DEFINE s == [addr |-> line.addr, len |-> line.nbytes]
<1>7. ReadTaintLine(line)
  BY <1>1, <1>5
<1>8. /\ taint_section_index' = taint_section_index
      /\ DOMAIN taint_sections' = Ids /\ DOMAIN taint_assignments' = Ids
  BY <1>6, <1>7, LineRecorded
<1>9. \A id \in Ids : id # line.id =>
        /\ taint_sections'[id] = taint_sections[id]
        /\ taint_assignments'[id] = taint_assignments[id]
  BY <1>6, <1>7, LineRecorded
<1>10. /\ IsSequence(taint_sections'[line.id])
       /\ Len(taint_sections'[line.id]) = Len(taint_sections[line.id]) + 1
       /\ \A i \in 1 .. Len(taint_sections[line.id]) :
            taint_sections'[line.id][i] = taint_sections[line.id][i]
       /\ taint_sections'[line.id][Len(taint_sections[line.id]) + 1] = s
  BY <1>6, <1>7, LineRecorded
<1>11. /\ DOMAIN taint_assignments'[line.id] =
            DOMAIN taint_assignments[line.id] \cup {line.addr}
       /\ taint_assignments'[line.id][line.addr].mask = line.mask
       /\ taint_assignments'[line.id][line.addr].digits = line.digits
       /\ \A a \in DOMAIN taint_assignments[line.id] : a # line.addr =>
            taint_assignments'[line.id][a] = taint_assignments[line.id][a]
  BY <1>6, <1>7, LineRecorded
<1>12. \A id \in Ids : /\ Len(taint_sections[id]) \in Nat /\ taint_section_index[id] \in Nat
                      /\ taint_section_index[id] <= Len(taint_sections[id])
  BY SequenceLength DEF TaintTables
<1>13. \A id \in Ids : /\ IsSequence(taint_sections'[id])
                      /\ taint_section_index'[id] <= Len(taint_sections'[id])
  BY <1>6, <1>8, <1>9, <1>10, <1>12 DEF TaintTables
<1>14. job # NoJob => \A id \in Ids : \A a \in DOMAIN taint_assignments'[id] :
         taint_assignments'[id][a].digits = "even"
  <2> SUFFICES ASSUME job # NoJob, NEW id \in Ids, NEW a \in DOMAIN taint_assignments'[id]
               PROVE  taint_assignments'[id][a].digits = "even"
    OBVIOUS
  <2>1. \A b \in DOMAIN taint_assignments[id] : taint_assignments[id][b].digits = "even"
    BY DEF TaintTables
  <2>2. CASE id = line.id /\ a = line.addr
    BY <1>6, <1>11, <2>2
  <2>3. CASE id = line.id /\ a # line.addr
    BY <1>11, <2>1, <2>3
  <2>4. CASE id # line.id
    BY <1>9, <2>1, <2>4
  <2> QED
    BY <2>2, <2>3, <2>4
<1>15. TaintsOf(mem)' = TaintsOf(mem)
  BY <1>1 DEF TaintsOf
<1>16. AllExpected
  BY <1>1 DEF TaintTables, AllExpected
<1>17. ASSUME NEW id \in Ids, NEW t, TaintExpected(id, t)
       PROVE  HasLine(id, t)' /\ HasMask(id, t.addr)'
  <2>1. HasLine(id, t)'
    BY <1>15, <1>17 DEF TaintExpected, HasLine
  <2>2. CASE id = line.id /\ t.addr = line.addr
    BY <1>4, <1>5, <1>11, <1>15, <2>1, <2>2 DEF HasMask, IsLineAt
  <2>3. CASE id = line.id /\ t.addr # line.addr
    BY <1>11, <1>15, <1>17, <2>1, <2>3 DEF TaintExpected, HasMask
  <2>4. CASE id # line.id
    BY <1>9, <1>15, <1>17, <2>1, <2>4 DEF TaintExpected, HasMask
  <2> QED
    BY <2>1, <2>2, <2>3, <2>4
<1>18. ASSUME NEW id \in Ids,
              NEW k \in taint_section_index'[id] + 1 .. Len(taint_sections'[id])
       PROVE  TaintExpected(id, taint_sections[id][k])'
  <2>1. CASE id = line.id /\ k = Len(taint_sections[id]) + 1
    <3>1. taint_sections'[id][k] = s
      BY <1>10, <2>1
    <3>2. HasMask(id, line.addr)'
      BY <1>4, <1>5, <1>11, <1>15, <2>1 DEF HasMask, IsLineAt
    <3>3. HasLine(id, s)'
      BY <1>4, <1>5, <1>15, <2>1 DEF HasLine, IsLineAt
    <3> QED
      BY <3>1, <3>2, <3>3 DEF TaintExpected, HasLine
  <2>2. CASE ~(id = line.id /\ k = Len(taint_sections[id]) + 1)
    <3>1. /\ k \in taint_section_index[id] + 1 .. Len(taint_sections[id])
          /\ k \in 1 .. Len(taint_sections[id])
      BY <1>8, <1>9, <1>10, <1>12, <2>2
    <3>2. PICK t : t = taint_sections[id][k]
      OBVIOUS
    <3>3. taint_sections'[id][k] = t
      BY <1>9, <1>10, <3>1, <3>2
    <3>4. HasLine(id, t)' /\ HasMask(id, t.addr)'
      BY <1>16, <1>17, <3>1, <3>2 DEF AllExpected
    <3> QED
      BY <3>3, <3>4 DEF TaintExpected, HasLine
  <2> QED
    BY <2>1, <2>2
<1>19. taint_section_index' \in [Ids -> Nat]
  BY <1>8 DEF TaintTables
<1> QED
  BY <1>1, <1>8, <1>13, <1>14, <1>18, <1>19 DEF TaintTables, Phases

\* The next section is asked for.
LEMMA TaintRequested ==
  ASSUME Control, TaintTables, LoadTaint
  PROVE  TaintTables'
<1>1. PICK id \in Ids :
        /\ phase = "taints" /\ phase' = "taints" /\ UNCHANGED <<env, job, mem>>
        /\ GetTaintSection(id)
        /\ request' = [id |-> id, addr |-> NextSection(id).addr, len |-> NextSection(id).len]
  BY DEF LoadTaint, scriptVars
<1>2. /\ taint_section_index[id] < Len(taint_sections[id])
      /\ taint_section_index' = [taint_section_index EXCEPT ![id] = @ + 1]
      /\ taint_sections' = taint_sections /\ taint_assignments' = taint_assignments
  BY <1>1 DEF GetTaintSection, MoreSections
<1>3. \A i \in Ids : Len(taint_sections[i]) \in Nat /\ taint_section_index[i] \in Nat
  BY SequenceLength DEF TaintTables
<1>4. /\ taint_section_index' \in [Ids -> Nat]
      /\ taint_section_index'[id] = taint_section_index[id] + 1
      /\ \A i \in Ids : i # id => taint_section_index'[i] = taint_section_index[i]
  BY <1>2, <1>3 DEF TaintTables
<1>5. AllExpected
  BY <1>1 DEF TaintTables, AllExpected
<1>6. TaintExpected(request.id, request)'
  <2>1. taint_section_index[id] + 1 \in taint_section_index[id] + 1 .. Len(taint_sections[id])
    BY <1>2, <1>3
  <2>2. TaintExpected(id, NextSection(id))
    BY <1>5, <2>1 DEF AllExpected, NextSection
  <2> QED
    BY <1>1, <1>2, <2>2 DEF TaintExpected, HasLine, HasMask, TaintsOf
<1>7. AllExpected'
  <2>1. ASSUME NEW i \in Ids,
               NEW k \in taint_section_index'[i] + 1 .. Len(taint_sections'[i])
        PROVE  TaintExpected(i, taint_sections[i][k])'
    <3>1. k \in taint_section_index[i] + 1 .. Len(taint_sections[i])
      BY <1>2, <1>3, <1>4
    <3>2. TaintExpected(i, taint_sections[i][k])
      BY <1>5, <3>1 DEF AllExpected
    <3>3. TaintsOf(mem)' = TaintsOf(mem)
      BY <1>1 DEF TaintsOf
    <3> QED
      BY <1>2, <3>2, <3>3 DEF TaintExpected, HasLine, HasMask
  <2> QED
    BY <2>1 DEF AllExpected
<1>8. \A i \in Ids : taint_section_index'[i] <= Len(taint_sections'[i])
  BY <1>2, <1>3, <1>4 DEF TaintTables
<1>9. request'.id = id
  BY <1>1
<1> QED
  BY <1>1, <1>2, <1>4, <1>6, <1>7, <1>8, <1>9 DEF TaintTables, AllExpected, Phases

LEMMA TaintTablesStep ==
  Control /\ Environment /\ TaintTables /\ [Next]_vars => TaintTables'
<1> SUFFICES ASSUME Control, Environment, TaintTables, [Next]_vars PROVE TaintTables'
  OBVIOUS
<1> USE DEF Phases, Launched, Filling, Ticking
<1>1. ASSUME NEW how, Stop(how) PROVE TaintTables'
  BY <1>1 DEF Stop, TaintTables, taintVars, scriptVars
<1>2. CASE ParseLine \/ ParseDone \/ Construct \/ AddTaintbit \/ Launch \/ Main \/ PickMemory
  <2>1. CASE \E how : Stop(how)
    BY <1>1, <2>1
  <2>2. CASE ~\E how : Stop(how)
    <3>1. /\ UNCHANGED <<taintVars, job>> /\ phase \in Phases \ {"lines", "taints"}
          /\ phase' # "taints"
      BY <1>2, <2>2
         DEF ParseLine, ParseDone, Construct, AddTaintbit, Launch, Main, PickMemory, scriptVars
    <3> QED
      BY <3>1, TaintTablesKept
  <2> QED
    BY <2>1, <2>2
<1>3. CASE ReadElfSegment \/ ReadElfDone \/ LoadSection \/ StoreSection \/ LoadDone
  <2>1. CASE \E how : Stop(how)
    BY <1>1, <2>1
  <2>2. CASE ~\E how : Stop(how)
    <3>1. /\ UNCHANGED <<taintVars, job>> /\ phase \in Phases \ {"lines", "taints"}
          /\ phase' # "taints"
      BY <1>3, <2>2
         DEF ReadElfSegment, ReadElfDone, LoadSection, StoreSection, LoadDone, scriptVars
    <3> QED
      BY <3>1, TaintTablesKept
  <2> QED
    BY <2>1, <2>2
<1>4. CASE ReadLine
  BY <1>4, LineRead
<1>5. CASE LoadTaint
  BY <1>5, TaintRequested
<1>6. CASE ReadDone \/ StoreTaint
  <2>1. CASE \E how : Stop(how)
    BY <1>1, <2>1
  <2>2. CASE ~\E how : Stop(how)
    <3>1. /\ phase \in {"lines", "taints"} /\ phase' = "taints" /\ request' = NoRequest
          /\ UNCHANGED <<env, job, mem, taintVars>>
      BY <1>6, <2>2 DEF ReadDone, StoreTaint, scriptVars, Control
    <3>2. TaintsOf(mem)' = TaintsOf(mem)
      BY <3>1 DEF TaintsOf
    <3>3. AllExpected
      BY <3>1 DEF TaintTables, AllExpected
    <3>4. \A id \in Ids : \A s : TaintExpected(id, s) <=> TaintExpected(id, s)'
      BY <3>1, <3>2 DEF TaintExpected, HasLine, HasMask, taintVars
    <3>5. AllExpected'
      BY <3>1, <3>3, <3>4 DEF AllExpected, taintVars
    <3> QED
      BY <3>1, <3>5 DEF TaintTables, AllExpected, taintVars
  <2> QED
    BY <2>1, <2>2
<1>7. CASE MemoryDone
  <2>1. /\ phase = "taints" /\ phase' \in {"reset", "pick"} /\ UNCHANGED <<taintVars, job>>
        /\ \A id \in Ids : ~(taint_section_index[id] < Len(taint_sections[id]))
    BY <1>7 DEF MemoryDone, MoreSections, scriptVars
  <2>2. \A id \in Ids : /\ Len(taint_sections[id]) \in Nat /\ taint_section_index[id] \in Nat
                       /\ taint_section_index[id] <= Len(taint_sections[id])
    BY SequenceLength DEF TaintTables
  <2>3. NoneExpected
    BY <2>1, <2>2 DEF NoneExpected
  <2> QED
    BY <2>1, <2>3 DEF TaintTables, NoneExpected, taintVars
<1>8. CASE Reset \/ TickSimlen \/ TickTrail
  <2>1. /\ UNCHANGED <<taintVars, job>> /\ phase \in Phases \ {"lines", "taints"}
        /\ phase' # "taints"
    BY <1>8 DEF Reset, TickSimlen, TickTrail, TickTo, scriptVars
  <2> QED
    BY <2>1, TaintTablesKept
<1>9. CASE Finish
  BY <1>1, <1>9 DEF Finish
<1>10. CASE UNCHANGED vars
  <2>1. UNCHANGED <<phase, env, job, mem, request, taintVars>>
    BY <1>10 DEF vars, scriptVars
  <2>2. TaintsOf(mem)' = TaintsOf(mem)
    BY <2>1 DEF TaintsOf
  <2>3. /\ \A id \in Ids : \A s : TaintExpected(id, s) <=> TaintExpected(id, s)'
        /\ request' = request
    BY <2>1, <2>2 DEF TaintExpected, HasLine, HasMask, taintVars
  <2>4. phase \in {"lines", "taints"} => AllExpected /\ AllExpected'
    BY <2>1, <2>3 DEF TaintTables, AllExpected, taintVars
  <2> QED
    BY <2>1, <2>3, <2>4 DEF TaintTables, AllExpected, taintVars
<1> QED
  BY <1>2, <1>3, <1>4, <1>5, <1>6, <1>7, <1>8, <1>9, <1>10 DEF Next
-----------------------------------------------------------------------------
(* The theorems. *)
IInv ==
  /\ Control /\ Environment /\ Clock /\ Contents /\ Sections /\ Images /\ TaintTables

THEOREM Invariance == Spec => []IInv
<1>1. Init => IInv
  BY ControlInit, EnvironmentInit, ClockInit, ContentsInit, SectionsInit, ImagesInit,
     TaintTablesInit DEF IInv
<1>2. IInv /\ [Next]_vars => IInv'
  BY ControlStep, EnvironmentStep, ClockStep, ContentsStep, SectionsStep, ImagesStep,
     TaintTablesStep DEF IInv
<1> QED
  BY <1>1, <1>2, PTL DEF Spec

\* However a run stops, the memories and the clock are left as they were; it stops with
\* status 0 at the end, or in a memory's loop over an unreadable taint section.
LEMMA StopKeeps ==
  ASSUME Control, [Next]_vars, phase' = "stopped"
  PROVE  /\ UNCHANGED <<ticks, bytes, taint, env, job, taintbits, mem, todo>>
         /\ \/ status' # "exit0" \/ UNCHANGED status \/ phase = "finish"
            \/ /\ phase = "taints" /\ request # NoRequest
               /\ Unreadable(request.id, request.addr)
<1> USE DEF scriptVars, memVars
<1>1. ASSUME NEW how, Stop(how)
      PROVE  /\ UNCHANGED <<ticks, bytes, taint, env, job, taintbits, mem, todo>>
             /\ status' = how
  BY <1>1 DEF Stop
<1>2. CASE ParseLine \/ ParseDone \/ Construct \/ AddTaintbit \/ Launch \/ Main \/ PickMemory
  BY <1>1, <1>2 DEF ParseLine, ParseDone, Construct, AddTaintbit, Launch, Main, PickMemory, Control
<1>3. CASE ReadElfSegment \/ ReadElfDone \/ LoadSection \/ StoreSection \/ LoadDone
  BY <1>1, <1>3
     DEF ReadElfSegment, ReadElfDone, LoadSection, StoreSection, LoadDone, Control
<1>4. CASE ReadLine \/ ReadDone \/ LoadTaint \/ StoreTaint \/ MemoryDone
  BY <1>1, <1>4 DEF ReadLine, ReadDone, LoadTaint, StoreTaint, MemoryDone, Control
<1>5. CASE Reset \/ TickSimlen \/ TickTrail \/ Finish
  BY <1>1, <1>5 DEF Reset, TickSimlen, TickTrail, TickTo, Finish, Control
<1>6. CASE UNCHANGED vars
  BY <1>6 DEF vars
<1> QED
  BY <1>2, <1>3, <1>4, <1>5, <1>6 DEF Next

\* What is copied into a buffer fits it, by whatever tables buffer and content are found
\* (read_section, read_taint_section): a job's masks fill it; a user's fit unless a line
\* of the file has more than another one makes room for; segments fit unless the address
\* is one at which the other memory's file has other contents.
THEOREM FilledBuffers == Spec => []SectionsFillTheirBuffers
<1>1. IInv => SectionsFillTheirBuffers
  <2> SUFFICES ASSUME IInv PROVE SectionsFillTheirBuffers
    OBVIOUS
  <2> USE DEF IInv
  <2>1. ASSUME phase = "load", request # NoRequest
        PROVE  /\ request.addr \in DOMAIN mems
               /\ request.addr \notin Contested(mem)
                    => ~ContentOverruns(request.addr, request.len)
    <3>1. IsProgram(CurrentElf)
      BY <2>1, LaunchedCurrent DEF Filling
    <3>2. PICK p \in ReadSegments(CurrentElf) :
            Describes(request, p) /\ p.paddr \in DOMAIN mems
      BY <2>1 DEF Sections, Expected
    <3>3. p.paddr \notin Contested(mem) => Held(p)
      BY <2>1, <3>2, HeldSegment DEF Filling
    <3>4. /\ p.memsz \in Nat /\ p.filesz \in Nat /\ p.filesz <= p.memsz
          /\ Len(p.data) = p.filesz
      BY <3>1, SegmentType
    <3> QED
      BY <3>2, <3>3, <3>4 DEF Describes, Held, ContentOverruns
  <2>2. ASSUME phase = "taints", request # NoRequest
        PROVE  /\ request.addr \in DOMAIN taint_assignments[request.id]
               /\ job # NoJob =>
                    Len(taint_assignments[request.id][request.addr].mask) = request.len
               /\ Fitting(TaintsOf(mem))
                    => ~MaskOverruns(request.id, request.addr, request.len)
    <3> DEFINE mask == taint_assignments[request.id][request.addr].mask
               lines == TaintsOf(mem)
    <3>1. HasLine(request.id, request) /\ HasMask(request.id, request.addr)
      BY <2>2 DEF TaintTables, TaintExpected
    <3>2. PICK i \in 1 .. Len(lines) :
            IsLineAt(lines[i], request.id, request.addr) /\ lines[i].nbytes = request.len
      BY <3>1 DEF HasLine
    <3>3. PICK j \in 1 .. Len(lines) :
            IsLineAt(lines[j], request.id, request.addr) /\ mask = lines[j].mask
      BY <3>1 DEF HasMask
    <3>4. GoodLines(lines) /\ (job # NoJob => FullLines(lines))
      BY <2>2, LaunchedTaints DEF Control, Launched, Filling
    <3>5. job # NoJob => Len(mask) = request.len
      BY <3>2, <3>3, <3>4 DEF FullLines
    <3>6. Fitting(lines) => Len(mask) <= request.len
      BY <3>2, <3>3 DEF Fitting, IsLineAt
    <3>7. Len(mask) \in Nat /\ request.len \in Nat
      BY <3>2, <3>3, <3>4 DEF GoodLines
    <3>8. request.addr \in DOMAIN taint_assignments[request.id]
      BY <3>1 DEF HasMask
    <3> QED
      BY <3>5, <3>6, <3>7, <3>8 DEF MaskOverruns
  <2> QED
    BY <2>1, <2>2 DEF SectionsFillTheirBuffers
<1> QED
  BY <1>1, Invariance, PTL

\* A simulation that starts has in each memory the image of the memory's own ELF file,
\* although both memories are filled through the same tables (elfloader.cc): the bytes of
\* every segment that has any in the file, with the zeros behind them, and nothing where
\* the file has no segment.  A segment without bytes in the file (.bss) is not loaded.
THEOREM CompleteImages == Spec => []MemoriesHoldTheirImages
<1>1. Init => MemoriesHoldTheirImages
  BY DEF Init, MemoriesHoldTheirImages, Simulating
<1>2. IInv /\ IInv' /\ MemoriesHoldTheirImages /\ [Next]_vars => MemoriesHoldTheirImages'
  <2> SUFFICES ASSUME IInv, IInv', MemoriesHoldTheirImages, [Next]_vars, Simulating'
               PROVE  \A m \in Memories : \A elf \in ElfOf(m)' : IsImage(elf, bytes[m], Contested(m))'
    BY DEF MemoriesHoldTheirImages
  <2>1. CASE phase' \in Ticking
    BY <2>1 DEF IInv, Control, Images, Launched, Ticking
  <2>2. CASE phase' \notin Ticking
    <3>1. phase' = "stopped" /\ ticks' > 0
      BY <2>2 DEF IInv, Clock, Simulating, Ticking
    <3>2. UNCHANGED <<ticks, bytes, env, mem, todo>>
      BY <3>1, StopKeeps DEF IInv
    <3>3. Simulating
      BY <3>1, <3>2 DEF Simulating
    <3> QED
      BY <3>2, <3>3, ContestedKept DEF MemoriesHoldTheirImages, ElfOf, IsImage
  <2> QED
    BY <2>1, <2>2
<1> QED
  BY <1>1, <1>2, Invariance, PTL DEF Spec

\* A job whose simulation ends with status 0 made all its ticks: the exit with status 0
\* in char_to_hex is never taken, as the script's masks are hexadecimal.
THEOREM SuccessfulRuns == Spec => []SuccessMeansSimulated
<1>1. Init => SuccessMeansSimulated
  BY DEF Init, SuccessMeansSimulated
<1>2. IInv /\ IInv' /\ SuccessMeansSimulated /\ [Next]_vars => SuccessMeansSimulated'
  <2> SUFFICES ASSUME IInv, IInv', SuccessMeansSimulated, [Next]_vars,
                      status' = "exit0", job' # NoJob
               PROVE  ticks' = job'.simtime + TrailTicks
    BY DEF SuccessMeansSimulated
  <2>1. phase' = "stopped"
    BY DEF IInv, Control
  <2>2. UNCHANGED <<ticks, job>> /\ Control
    BY <2>1, StopKeeps DEF IInv
  <2>3. CASE UNCHANGED status
    BY <2>2, <2>3 DEF SuccessMeansSimulated
  <2>4. CASE phase = "finish"
    BY <2>2, <2>4 DEF IInv, Clock
  <2>5. ~(phase = "taints" /\ request # NoRequest /\ Unreadable(request.id, request.addr))
    BY <2>2 DEF IInv, TaintTables, TaintExpected, HasMask, Unreadable
  <2> QED
    BY <2>1, <2>2, <2>3, <2>4, <2>5, StopKeeps
<1> QED
  BY <1>1, <1>2, Invariance, PTL DEF Spec
=============================================================================
