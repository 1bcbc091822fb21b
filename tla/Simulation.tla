----------------------------- MODULE Simulation -----------------------------
(***************************************************************************)
(* One simulation, from the parameters of a run to the last clock tick.    *)
(*   - The script (simulationrun.py, sim/verilator.py, sim/commonsim.py,   *)
(*     taintfile.py) may parse the taint file of a benchmark, collects the *)
(*     pairs `taintbits` into blocks, writes them to sram_taint_data.txt   *)
(*     and starts the simulation with an environment of its own.           *)
(*   - Or a user starts the simulation in a shell.                         *)
(*   - The simulation (common_functions.cc, ticks.h) reads its environment *)
(*     and fills two memories, the SRAM and the boot ROM, in either order: *)
(*     each reads its ELF file and asks ElfLoader for segment after        *)
(*     segment, then reads its taint file and asks TaintLoader for section *)
(*     after section.  The memories and main belong to the designs, which  *)
(*     are not part of the repository.                                     *)
(* An environment variable is the set of its value, empty when unset.      *)
(***************************************************************************)
EXTENDS TaintTuples, TaintLoader, ElfLoader

CONSTANTS
  Jobs,      \* what SimulationRun may be started with
  Shells,    \* the environments a user may start a simulation in
  MemSize,   \* a memory is the addresses below
  Defaults,  \* the taint file of each memory where none is named; maybe <<>>
  LeadTicks, TrailTicks

VARIABLES
  phase, status,  \* where the run is, and how it ended
  job,            \* the parameters of the script, or NoJob
  n,              \* how many items of the current phase's input are consumed
  tt,             \* the TaintTuples object of the phase
  taintbits,      \* the parameter taintbits of SimulationRun
  env,            \* the environment of the simulation
  mem,            \* the memory that is being filled
  todo,           \* the memories that are still to be filled
  request,        \* the section the memory is about to read, or NoRequest
  bytes, taint,   \* the contents of the memories and their taint
  ticks

scriptVars == <<job, tt, taintbits, env>>
memVars == <<bytes, taint>>
vars == <<phase, status, n, scriptVars, taintVars, elfVars, mem, todo, request,
          memVars, ticks>>

Memories == {"sram", "rom"}
Addresses == 0 .. (MemSize - 1)
Undefined == -1    \* what a memory holds before it is filled
NoRequest == [id |-> -1, addr |-> 0, len |-> 0]
NoJob == [parse |-> FALSE, vanilla |-> FALSE, file |-> <<>>]
Unset == {}
NoEnv == [VM_TRACE |-> FALSE, TRACEFILE |-> Unset, SIMLEN |-> Unset, ELF |-> <<>>,
          TAINT |-> <<>>]

\* The ELF files of a job: without a ROM of its own a design boots from the SRAM's.
ElfsOf(j) == [sram |-> {j.binary}, rom |-> IF j.bootrom = Unset THEN {j.binary} ELSE j.bootrom]
Programs == {ElfsOf(j) : j \in Jobs} \cup {e.ELF : e \in Shells}

\* The segments with bytes of one file, as a linker lays them out, do not overlap and are
\* not shorter in memory than in the file.
Segments == [load : BOOLEAN, paddr : Nat, offset : Nat, filesz : Nat, memsz : Nat, data : Seq(Nat)]
ReadSegments(elf) == {p \in Range(elf.ph) : IsRead(p)}
IsProgram(elf) ==
  /\ elf.size \in Nat /\ elf.ph \in Seq(Segments)
  /\ \A p \in ReadSegments(elf) : Len(p.data) = p.filesz /\ p.filesz <= p.memsz
  /\ \A p, q \in ReadSegments(elf) :
       p # q => p.paddr + p.memsz <= q.paddr \/ q.paddr + q.memsz <= p.paddr
ASSUME ProgramsAssumption ==
  \A pair \in Programs :
    \A m \in Memories : \A elf, other \in pair[m] : IsProgram(elf) /\ elf = other

\* A taint file of a user or a design: lines of four fields.  Nothing says that a mask is
\* as long as its line says.
FourFields(lines) ==
  \A i \in 1 .. Len(lines) : lines[i].mask = <<>> => lines[i].digits = "odd"
IsTaintFile(lines) ==
  /\ lines \in Seq([id : Ids, addr : Nat, nbytes : Nat, mask : Seq(Byte), digits : Digits])
  /\ FourFields(lines)
ASSUME TaintFilesAssumption ==
  /\ NumTaints \in Nat \ {0}
  /\ \A m \in Memories : IsTaintFile(Defaults[m])
  /\ \A e \in Shells, m \in Memories : \A lines \in e.TAINT[m] : IsTaintFile(lines)

\* A taint file of a benchmark and the parameter taintbits.
ASSUME JobsAssumption ==
  /\ NoJob \notin Jobs
  /\ \A j \in Jobs :
       /\ j.parse \in BOOLEAN /\ j.vanilla \in BOOLEAN
       /\ j.file \in Seq([id : Nat, addr : Nat, nbytes : Nat, mask : Seq(Byte),
                          digits : Digits])
       /\ FourFields(j.file)
       /\ j.taintbits \in Seq(Nat \X Byte)
ASSUME TicksAssumption ==
  /\ LeadTicks \in Int /\ TrailTicks \in Nat
  /\ \A j \in Jobs : j.simtime \in Int
  /\ \A e \in Shells : e.SIMLEN \subseteq Int /\ \A k, l \in e.SIMLEN : k = l

Init ==
  /\ TaintInit /\ ElfInit
  /\ \/ /\ job \in Jobs /\ env = NoEnv
        /\ phase = IF job.parse THEN "parse" ELSE "construct"
        /\ taintbits = IF job.parse THEN <<>> ELSE job.taintbits
     \/ /\ job = NoJob /\ env \in Shells
        /\ phase = "main" /\ taintbits = <<>>
  /\ status = "running"
  /\ n = 0 /\ tt = <<>> /\ mem = "none" /\ todo = Memories /\ request = NoRequest
  /\ bytes = [m \in Memories |-> [a \in Addresses |-> Undefined]]
  /\ taint = [m \in Memories |-> [a \in Addresses |-> {}]]
  /\ ticks = 0

\* The script raises, or the simulation exits, aborts or writes behind a buffer: of what
\* it does after that nothing is said.
Stop(how) ==
  /\ phase' = "stopped" /\ status' = how
  /\ UNCHANGED <<n, scriptVars, taintVars, elfVars, mem, todo, request, memVars, ticks>>
-----------------------------------------------------------------------------
\* parse_taintfile, one line.
ParseLine ==
  /\ phase = "parse" /\ n < Len(job.file)
  /\ \/ /\ LineFits(job.file[n + 1])
        /\ tt' = AddTaintLine(tt, job.file[n + 1])
        /\ n' = n + 1
        /\ UNCHANGED <<phase, status, job, taintbits, env, taintVars, elfVars, mem,
                       todo, request, memVars, ticks>>
     \/ ~LineFits(job.file[n + 1]) /\ Stop("raised")

\* Its `return tt.asbytes()`; gen_taintlines then starts from an empty object.
ParseDone ==
  /\ phase = "parse" /\ n = Len(job.file)
  /\ \/ /\ HasBytes(tt)
        /\ taintbits' = AsBytes(tt)
        /\ phase' = "construct" /\ n' = 0 /\ tt' = <<>>
        /\ UNCHANGED <<status, job, env, taintVars, elfVars, mem, todo, request,
                       memVars, ticks>>
     \/ ~HasBytes(tt) /\ Stop("raised")

\* SimulationRun's __init__: a design without instrumentation takes no taint.
Construct ==
  /\ phase = "construct"
  /\ \/ job.vanilla /\ taintbits # <<>> /\ Stop("raised")
     \/ /\ job.vanilla => taintbits = <<>>
        /\ phase' = "add"
        /\ UNCHANGED <<status, n, scriptVars, taintVars, elfVars, mem, todo, request,
                       memVars, ticks>>

\* gen_taintlines, one pair of taintbits.
AddTaintbit ==
  /\ phase = "add" /\ n < Len(taintbits)
  /\ tt' = AddTuple(tt, taintbits[n + 1])
  /\ n' = n + 1
  /\ UNCHANGED <<phase, status, job, taintbits, env, taintVars, elfVars, mem, todo,
                 request, memVars, ticks>>

\* setup_sim_env: both memories are tainted from the same file.
SetupSimEnv(taintfile) ==
  [VM_TRACE |-> job.dotrace,
   TRACEFILE |-> IF job.dotrace THEN {"trace.vcd"} ELSE Unset,
   SIMLEN |-> {job.simtime},
   ELF |-> ElfsOf(job),
   TAINT |-> [sram |-> {taintfile}, rom |-> {taintfile}]]

\* write_taintfile, setup_sim_env with its assertion that the caller's environment
\* names no trace file when none is wanted, and check_call.
Launch ==
  /\ phase = "add" /\ n = Len(taintbits)
  /\ \/ /\ job.dotrace \/ ~job.inheritsTracefile
        /\ env' = SetupSimEnv(GenTaintLines(tt))
        /\ phase' = "main"
        /\ UNCHANGED <<status, n, job, tt, taintbits, taintVars, elfVars, mem, todo,
                       request, memVars, ticks>>
     \/ ~job.dotrace /\ job.inheritsTracefile /\ Stop("raised")
-----------------------------------------------------------------------------
\* cl_get_tracefile and get_sim_length_cycles, called by main.
Main ==
  /\ phase = "main"
  /\ \/ /\ (env.VM_TRACE /\ env.TRACEFILE = Unset) \/ env.SIMLEN = Unset
        /\ Stop("exit1")
     \/ /\ env.VM_TRACE => env.TRACEFILE # Unset
        /\ \E simlen \in env.SIMLEN :
             \/ /\ LeadTicks >= 0 /\ simlen > 0 /\ simlen > LeadTicks
                /\ phase' = "pick"
                /\ UNCHANGED <<status, n, scriptVars, taintVars, elfVars, mem, todo,
                               request, memVars, ticks>>
             \/ ~(LeadTicks >= 0 /\ simlen > 0 /\ simlen > LeadTicks) /\ Stop("abort")

\* Get_SRAM_ELF_object_filename and Get_BootROM_ELF_object_filename (no value, no
\* simulation), and Get_SRAM_TaintsPath and Get_BootROM_TaintsPath (a default).
ElfOf(m) == env.ELF[m]
TaintsOf(m) == IF env.TAINT[m] = Unset THEN Defaults[m]
               ELSE CHOOSE file \in env.TAINT[m] : TRUE
CurrentElf == CHOOSE elf \in ElfOf(mem) : TRUE

\* The next memory starts read_elf, up to the loop over the program headers.
PickMemory ==
  /\ phase = "pick"
  /\ \E m \in todo :
       \/ ElfOf(m) = Unset /\ Stop("exit1")
       \/ \E elf \in ElfOf(m) :
            \/ ~HeadersFit(elf) /\ Stop("abort")
            \/ /\ HeadersFit(elf)
               /\ phase' = "segments" /\ mem' = m /\ todo' = todo \ {m} /\ n' = 0
               /\ UNCHANGED <<status, scriptVars, taintVars, elfVars, request, memVars,
                              ticks>>

ReadElfSegment ==
  /\ phase = "segments" /\ n < Len(CurrentElf.ph)
  /\ LET p == CurrentElf.ph[n + 1]
     IN  \/ ~SegmentFits(CurrentElf, p) /\ Stop("abort")
         \/ /\ SegmentFits(CurrentElf, p)
            /\ ReadSegment(CurrentElf, p)
            /\ n' = n + 1
            /\ UNCHANGED <<phase, status, scriptVars, taintVars, mem, todo, request,
                           memVars, ticks>>

\* The rest of read_elf.
ReadElfDone ==
  /\ phase = "segments" /\ n = Len(CurrentElf.ph)
  /\ \/ ~SectionTableFits(CurrentElf) /\ Stop("abort")
     \/ /\ SectionTableFits(CurrentElf)
        /\ phase' = "load"
        /\ UNCHANGED <<status, n, scriptVars, taintVars, elfVars, mem, todo, request,
                       memVars, ticks>>

\* The bytes of a request, as they are or in a buffer, at their addresses.
Stored(old, buffer) ==
  [a \in Addresses |-> IF a - request.addr \in 0 .. (request.len - 1)
                         THEN buffer[a - request.addr + 1] ELSE old[a]]

\* The memory's loop: get_section, then read_section into a new, zeroed buffer of
\* the length it was told, then a store.
LoadSection ==
  /\ phase = "load" /\ request = NoRequest
  /\ GetSection
  /\ request' = [id |-> 0, addr |-> sections[section_index + 1].addr,
                 len |-> sections[section_index + 1].len]
  /\ UNCHANGED <<phase, status, n, scriptVars, taintVars, mem, todo, memVars, ticks>>

StoreSection ==
  /\ phase = "load" /\ request # NoRequest
  /\ \/ request.addr \notin DOMAIN mems /\ Stop("abort")
     \/ /\ request.addr \in DOMAIN mems /\ ContentOverruns(request.addr, request.len)
        /\ Stop("overrun")
     \/ /\ request.addr \in DOMAIN mems /\ ~ContentOverruns(request.addr, request.len)
        /\ LET zeros == [j \in 1 .. request.len |-> Zero]
           IN  bytes' = [bytes EXCEPT
                           ![mem] = Stored(@, ReadSection(request.addr, zeros))]
        /\ request' = NoRequest
        /\ UNCHANGED <<phase, status, n, scriptVars, taintVars, elfVars, mem, todo,
                       taint, ticks>>

LoadDone ==
  /\ phase = "load" /\ request = NoRequest /\ ~MoreSegments
  /\ phase' = "lines" /\ n' = 0
  /\ UNCHANGED <<status, scriptVars, taintVars, elfVars, mem, todo, request, memVars,
                 ticks>>

\* read_taints, one line.  A file that cannot be opened has none.
ReadLine ==
  /\ phase = "lines" /\ n < Len(TaintsOf(mem))
  /\ ReadTaintLine(TaintsOf(mem)[n + 1])
  /\ n' = n + 1
  /\ UNCHANGED <<phase, status, scriptVars, elfVars, mem, todo, request, memVars, ticks>>

ReadDone ==
  /\ phase = "lines" /\ n = Len(TaintsOf(mem))
  /\ phase' = "taints"
  /\ UNCHANGED <<status, n, scriptVars, taintVars, elfVars, mem, todo, request, memVars,
                 ticks>>

\* The memory's loops over the taint ids: the same with get_taint_section,
\* read_taint_section and the taint of the memory.
LoadTaint ==
  /\ phase = "taints" /\ request = NoRequest
  /\ \E id \in Ids :
       /\ \A earlier \in Ids : earlier < id => ~MoreSections(earlier)
       /\ GetTaintSection(id)
       /\ request' = [id |-> id, addr |-> NextSection(id).addr,
                      len |-> NextSection(id).len]
  /\ UNCHANGED <<phase, status, n, scriptVars, elfVars, mem, todo, memVars, ticks>>

StoreTaint ==
  /\ phase = "taints" /\ request # NoRequest
  /\ \/ Unreadable(request.id, request.addr) /\ Stop("exit0")
     \/ MaskOverruns(request.id, request.addr, request.len) /\ Stop("overrun")
     \/ /\ ~Unreadable(request.id, request.addr)
        /\ ~MaskOverruns(request.id, request.addr, request.len)
        /\ LET zeros == [j \in 1 .. request.len |-> {}]
           IN  taint' = [taint EXCEPT
                 ![mem] = Stored(@, ReadTaintSection(request.id, request.addr, zeros))]
        /\ request' = NoRequest
        /\ UNCHANGED <<phase, status, n, scriptVars, taintVars, elfVars, mem, todo,
                       bytes, ticks>>

MemoryDone ==
  /\ phase = "taints" /\ request = NoRequest
  /\ \A id \in Ids : ~MoreSections(id)
  /\ phase' = IF todo = {} THEN "reset" ELSE "pick"
  /\ UNCHANGED <<status, n, scriptVars, taintVars, elfVars, mem, todo, request, memVars,
                 ticks>>
-----------------------------------------------------------------------------
TickTo(next, count) ==
  /\ ticks' = ticks + count
  /\ phase' = next
  /\ UNCHANGED <<status, n, scriptVars, taintVars, elfVars, mem, todo, request, memVars>>

\* tb_run_ticks with a reset, which takes the lead time; then the number of ticks
\* that get_sim_length_cycles returned; then the trailing ones.
WrongSimLengthCycles(simlen) == simlen
SimLengthCycles(simlen) == simlen - LeadTicks
Reset == phase = "reset" /\ TickTo("tick", LeadTicks)
TickSimlen ==
  /\ phase = "tick"
  /\ \E simlen \in env.SIMLEN : TickTo("trail", SimLengthCycles(simlen))
TickTrail == phase = "trail" /\ TickTo("finish", TrailTicks)
Finish == phase = "finish" /\ Stop("exit0")

Next ==
  \/ ParseLine \/ ParseDone \/ Construct \/ AddTaintbit \/ Launch
  \/ Main \/ PickMemory
  \/ ReadElfSegment \/ ReadElfDone \/ LoadSection \/ StoreSection \/ LoadDone
  \/ ReadLine \/ ReadDone \/ LoadTaint \/ StoreTaint \/ MemoryDone
  \/ Reset \/ TickSimlen \/ TickTrail \/ Finish

Spec == Init /\ [][Next]_vars /\ WF_vars(Next)
-----------------------------------------------------------------------------
\* What a sequence of pairs, of blocks or of lines says about an address.
BitsTaint(bits, a) == UNION {t[2] : t \in {u \in Range(bits) : u[1] = a}}
BlocksTaint(list, a) ==
  UNION {e.block[a - e.base] : e \in {f \in Range(list) : f.base = Base(a)}}
LinesTaint(lines, a) ==
  UNION {Pad(l.mask, l.nbytes)[a - l.addr + 1] :
           l \in {k \in Range(lines) : a - k.addr \in 0 .. (k.nbytes - 1)}}

\* The memory an ELF file describes: the bytes of its loadable segments, zero behind them
\* up to their size in memory.
Occupies(p, a) == p.load /\ a - p.paddr \in 0 .. (p.memsz - 1)
ByteOf(p, a) ==
  IF a - p.paddr < p.filesz THEN p.data[a - p.paddr + 1] ELSE Zero

\* A memory holds it, but for segments that have no bytes in the file at all, and for
\* those at the addresses `contested`; what no segment occupies is as it was.
IsImage(elf, content, contested) ==
  \A a \in Addresses :
    /\ \A p \in Range(elf.ph) :
         Occupies(p, a) /\ p.filesz # 0 /\ p.paddr \notin contested
           => content[a] = ByteOf(p, a)
    /\ (\A p \in Range(elf.ph) : ~Occupies(p, a)) => content[a] = Undefined

\* The memory that is filled last is given what the loader holds since the other one was:
\* where both files have a segment at one address, that of the other file.
Contested(m) ==
  {p.paddr : p \in {q \in UNION {ReadSegments(elf) : elf \in ElfOf(m)} :
     /\ m = mem /\ todo = {}
     /\ \E k \in Memories \ {m} : \E other \in ElfOf(k) : \E r \in ReadSegments(other) :
          r.paddr = q.paddr /\ r.data # q.data}}

Simulating == phase \in {"reset", "tick", "trail", "finish"} \/ ticks > 0

\* Every variable has its type.
TypeOK ==
  /\ phase \in {"parse", "construct", "add", "main", "pick", "segments", "load", "lines", "taints",
                "reset", "tick", "trail", "finish", "stopped"}
  /\ status \in {"running", "raised", "abort", "overrun", "exit0", "exit1"}
  /\ job = NoJob \/ job.parse \in BOOLEAN
  /\ n \in Nat
  /\ \A i \in 1 .. Len(tt) :
       tt[i].base % Alignment = 0 /\ tt[i].block \in [Offsets -> Byte]
  /\ \A i \in 1 .. Len(taintbits) : taintbits[i] \in Nat \X Byte
  /\ mem \in Memories \cup {"none"} /\ todo \subseteq Memories
  /\ request.id \in Ids \cup {-1}
  /\ section_index \in 0 .. Len(sections)
  /\ \A id \in Ids : taint_section_index[id] \in 0 .. Len(taint_sections[id])
  /\ \A m \in Memories : DOMAIN bytes[m] = Addresses /\ taint[m] \in [Addresses -> Byte]
  /\ ticks \in Nat

\* While lines are parsed and while pairs are added, the blocks hold exactly the
\* union of what went in: nothing is lost by alignment, padding or merging.
NothingLostInBlocks ==
  /\ phase = "parse" =>
       \A a \in Addresses :
         BlocksTaint(tt, a) = LinesTaint(SubSeq(job.file, 1, n), a)
  /\ phase = "add" =>
       \A a \in Addresses :
         BlocksTaint(tt, a) = BitsTaint(SubSeq(taintbits, 1, n), a)

\* No two lines for one place in a file disagree: none has more in its mask than another
\* of the same id and address makes room for.
Fitting(lines) ==
  \A i, j \in 1 .. Len(lines) :
    lines[i].id = lines[j].id /\ lines[i].addr = lines[j].addr
      => Len(lines[j].mask) <= lines[i].nbytes

\* What read_section and read_taint_section copy fits the buffer that was made for it
\* from the length of another table: always for a job's taint file, whose masks fill it,
\* and for a user's if no line of the file itself says otherwise; and for every segment
\* whose address the other memory's file has not given other contents.
SectionsFillTheirBuffers ==
  /\ phase = "load" /\ request # NoRequest =>
       /\ request.addr \in DOMAIN mems
       /\ request.addr \notin Contested(mem) => ~ContentOverruns(request.addr, request.len)
  /\ phase = "taints" /\ request # NoRequest =>
       /\ request.addr \in DOMAIN taint_assignments[request.id]
       /\ job # NoJob => Len(taint_assignments[request.id][request.addr].mask) = request.len
       /\ Fitting(TaintsOf(mem)) => ~MaskOverruns(request.id, request.addr, request.len)

\* A simulation that starts has each memory filled with the image of its own ELF file,
\* every byte of the file and every zero behind the bytes of a segment, although the
\* memories share sections, contents and index, and although the file may be cut off
\* where its writer has not finished it.  Excepted are the segments without any bytes in
\* the file, and in the memory filled last the contested ones.
MemoriesHoldTheirImages ==
  Simulating =>
    \A m \in Memories : \A elf \in ElfOf(m) : IsImage(elf, bytes[m], Contested(m))

\* No two lines of a taint file speak of the same byte, or start at one address.
Disjoint(lines) ==
  \A i, j \in 1 .. Len(lines) :
    \/ i = j
    \/ /\ lines[i].addr # lines[j].addr
       /\ \/ lines[i].addr + lines[i].nbytes <= lines[j].addr
          \/ lines[j].addr + lines[j].nbytes <= lines[i].addr

\* It has each memory tainted where taintbits, or the taint file of that memory, says
\* so, and nowhere else; of a user's file that says two things of a byte, the loader
\* keeps one.
TaintsReachMemories ==
  Simulating => \A m \in Memories, a \in Addresses :
    /\ job = NoJob /\ Disjoint(TaintsOf(m)) => taint[m][a] = LinesTaint(TaintsOf(m), a)
    /\ job # NoJob => taint[m][a] = BitsTaint(taintbits, a)

\* When the simulation of a job ends with status 0, it made the number of ticks it
\* was asked for, the lead time included, and the trailing ones: no way out of the
\* loaders is taken for a finished run.
SuccessMeansSimulated ==
  status = "exit0" /\ job # NoJob => ticks = job.simtime + TrailTicks

\* Every run ends: the memories' loops drain the loaders.
EveryRunEnds == <>(phase = "stopped")

\* "Parses a taintfile into taintbytes" (taintfile.py): the parameter taints what
\* the file taints.
ParsedTaintsAreTheFiles ==
  phase = "add" /\ job.file # <<>> => \A a \in Addresses :
    BitsTaint(taintbits, a) = LinesTaint(job.file, a)
=============================================================================
