----------------------------- MODULE ElfLoader -----------------------------
(***************************************************************************)
(* design-processing/common/dv/elfloader.cc: the DPI functions through     *)
(* which a simulation maps an ELF file and hands its loadable segments,    *)
(* one after the other, to a memory of the testbench.  All memories of a   *)
(* simulation share the globals below, which nothing ever resets.          *)
(*                                                                         *)
(* A file is a record of what the loader looks at: its size, magic, class  *)
(* and offsets, its program headers `ph` with the bytes they point to, its *)
(* section headers `sh` with what is to be known of their names, and for   *)
(* every symbol, whether its name ends inside .strtab.  A file that cannot *)
(* be opened is one of size 0: both end in an assertion.                   *)
(* (Definitions named Wrong... are the slips the properties must notice.)  *)
(***************************************************************************)
EXTENDS Integers, Sequences

VARIABLES
  sections,       \* the (address, memory size) pairs of the segments read
  mems,           \* a map from segment address to file content
  section_index

elfVars == <<sections, mems, section_index>>

Zero == 0
\* sizeof of the headers of the two classes.
Elf32 == [ehdr |-> 52, phdr |-> 32, shdr |-> 40, sym |-> 16]
Elf64 == [ehdr |-> 64, phdr |-> 56, shdr |-> 64, sym |-> 24]
Header(elf) == IF elf.class = 1 THEN Elf32 ELSE Elf64

ElfInit == sections = <<>> /\ mems = [a \in {} |-> <<>>] /\ section_index = 0

\* The assertions before the loop over the program headers.
HeadersFit(elf) ==
  /\ elf.size >= Elf64.ehdr
  /\ elf.magic /\ elf.class \in {1, 2}
  /\ elf.size >= elf.phoff + Len(elf.ph) * Header(elf).phdr

\* A segment that is read: one with bytes in the file.  A pure .bss is not.
IsRead(p) == p.load /\ p.memsz # 0 /\ p.filesz # 0
SegmentFits(elf, p) == IsRead(p) => elf.size >= p.offset + p.filesz

\* The bytes of the mapping; behind the end of the file it reads as zero.
FileBytes(elf, p) ==
  [k \in 1 .. p.filesz |-> IF p.offset + k <= elf.size THEN p.data[k] ELSE Zero]

\* The static write: insert keeps what an address was first given.
Write(addr, bytes) ==
  mems' = [a \in DOMAIN mems \cup {addr} |->
             IF a \in DOMAIN mems THEN mems[a] ELSE bytes]

WrongReadSegment(elf, p) ==
  \/ /\ IsRead(p)
     /\ sections' = Append(sections, [addr |-> p.paddr, len |-> p.filesz])
     /\ Write(p.paddr, FileBytes(elf, p))
     /\ UNCHANGED section_index
  \/ ~IsRead(p) /\ UNCHANGED elfVars

\* One iteration of that loop.
ReadSegment(elf, p) ==
  \/ /\ IsRead(p)
     /\ sections' = Append(sections, [addr |-> p.paddr, len |-> p.memsz])
     /\ Write(p.paddr, FileBytes(elf, p))
     /\ UNCHANGED section_index
  \/ ~IsRead(p) /\ UNCHANGED elfVars

\* The loop over the section names; SHT_GROUP is used as a bit mask.
InGroup(type) == type % 2 = 1 \/ (type \div 16) % 2 = 1
NamesEnd(elf) ==
  \A i \in 1 .. Len(elf.sh) :
    InGroup(elf.sh[i].type) /\ elf.sh[i].name \notin {".strtab", ".shstrtab"}
      => elf.sh[i].ends

\* The last section of that name which the loop does not skip for its odd type
\* (a string table has type 3), and the loop over the symbols if both are found.
Found(elf, name) ==
  \E i \in 2 .. Len(elf.sh) : elf.sh[i].name = name /\ elf.sh[i].type % 2 = 0
SymbolsEnd(elf) ==
  Found(elf, ".strtab") /\ Found(elf, ".symtab")
    => \A i \in 1 .. Len(elf.symbolEnds) : elf.symbolEnds[i]

\* The assertions behind the loop over the program headers.
SectionTableFits(elf) ==
  /\ elf.size >= elf.shoff + Len(elf.sh) * Header(elf).shdr
  /\ elf.shstrndx \in 1 .. Len(elf.sh)
  /\ elf.size >= elf.sh[elf.shstrndx].offset + elf.sh[elf.shstrndx].size
  /\ NamesEnd(elf)
  /\ SymbolsEnd(elf)

\* get_section: 1 with the next section, or 0.
MoreSegments == section_index < Len(sections)
GetSection ==
  /\ MoreSegments
  /\ section_index' = section_index + 1
  /\ UNCHANGED <<sections, mems>>

\* read_section: the content recorded for the address goes to the start of the
\* caller's buffer, however long that is.
ContentOverruns(addr, len) == Len(mems[addr]) > len
ReadSection(addr, buffer) ==
  [j \in 1 .. Len(buffer) |->
     IF j <= Len(mems[addr]) THEN mems[addr][j] ELSE buffer[j]]
=============================================================================
