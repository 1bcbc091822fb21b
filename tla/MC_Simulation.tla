--------------------------- MODULE MC_Simulation ---------------------------
(* Blocks of two bytes, memories of eight addresses.  Jobs with every taint file of
   up to three lines (lines that share a block, cross a block, are too long or partly
   tainted) and every parameter of up to two pairs, on one pair of programs; then
   every pair of programs, whole or cut off anywhere that matters, on one parameter;
   and shells in which variables are missing or taint files written by hand. *)
EXTENDS Simulation

MCBits == {"lo", "hi"}
MCMemSize == 8
Full == MCBits
Line(id, a, k, mask, digits) ==
  [id |-> id, addr |-> a, nbytes |-> k, mask |-> mask, digits |-> digits]

\* An ELF file the way a linker lays it out: headers, segments, section names,
\* section headers.  segs: tuples <<paddr, data, memsz>>.
Elf(class, segs, sections0, symbolEnds0) ==
  LET h == IF class = 1 THEN Elf32 ELSE Elf64
      start == h.ehdr + Len(segs) * h.phdr
      Offset(i) == start + 2 * (i - 1)
      names == Offset(Len(segs) + 1)
      table == names + 30
      full == table + Len(sections0) * h.shdr
  IN  [size |-> full, magic |-> TRUE, class |-> class, phoff |-> h.ehdr,
       ph |-> [i \in 1 .. Len(segs) |->
                 [load |-> segs[i][3] >= 0, paddr |-> segs[i][1], offset |-> Offset(i),
                  filesz |-> Len(segs[i][2]),
                  memsz |-> IF segs[i][3] >= 0 THEN segs[i][3] ELSE Len(segs[i][2]),
                  data |-> segs[i][2]]],
       shoff |-> table,
       sh |-> sections0,
       shstrndx |-> Len(sections0), symbolEnds |-> symbolEnds0]

Section(name, type, ends) ==
  [name |-> name, type |-> type, ends |-> ends, offset |-> 170, size |-> 20]
Linked == <<Section("", 0, TRUE), Section(".text", 1, TRUE), Section(".symtab", 2, TRUE),
            Section(".strtab", 3, TRUE), Section(".shstrtab", 3, TRUE)>>

Sram == Elf(2, << <<0, <<1, 2>>, 3>>, <<4, <<3>>, 1>>, <<6, <<>>, 1>> >>, Linked, <<FALSE>>)
Rom == Elf(1, << <<3, <<9>>, -1>>, <<5, <<4, 5>>, 3>> >>, Linked, <<>>)
Bare == Elf(2, <<>>, Linked, <<>>)
BadName == [Sram EXCEPT !.sh[2].ends = FALSE]
EvenStrtab == [Sram EXCEPT !.sh[4].type = 2]
Other == [Rom EXCEPT !.class = 3]
\* Its first segment has the address of one of Sram, its own contents and less or more of
\* them.
Clash == {Elf(1, << <<0, d, Len(d)>>, <<6, <<8>>, 2>> >>, Linked, <<>>) : d \in {<<7>>, <<7, 7, 7, 7>>}}

Cuts(elf) ==
  {0, Elf64.ehdr - 1, Elf64.ehdr, elf.phoff + Len(elf.ph) * Header(elf).phdr, elf.shoff,
   elf.size - 1}
    \cup UNION {{p.offset, p.offset + 1, p.offset + p.filesz} : p \in Range(elf.ph)}
Cut(elf) == {[elf EXCEPT !.size = k] : k \in {c \in Cuts(elf) : c < elf.size}}

Lines ==
  {Line(i, a, 1, <<Full>>, "even") : i \in {0, 1}, a \in {0, 1, 3}}
   \cup {Line(0, a, 2, m, "even") :
     a \in {2, 4}, m \in {<<Full, Full>>, <<Full>>, <<{}, Full>>}}
   \cup {Line(0, 0, 1, <<{"lo"}>>, "even"), Line(0, 5, 2, <<Full, Full>>, "even"),
         Line(0, 2, 1, <<Full, Full>>, "even"), Line(0, 3, 1, <<>>, "odd")}
Pairs == {0, 1, 2, 5} \X {{"lo"}, {"hi"}, Full}

Plain == [parse |-> FALSE, vanilla |-> FALSE, file |-> <<>>, taintbits |-> << <<1, Full>>, <<4, {"lo"}>> >>,
          binary |-> Sram, bootrom |-> {Rom}, simtime |-> 7, dotrace |-> TRUE,
          inheritsTracefile |-> TRUE]
MCJobs ==
  {[Plain EXCEPT !.parse = TRUE, !.taintbits = <<>>, !.file = f] :
     f \in UNION {[1 .. k -> Lines] : k \in 0 .. 3}}
   \cup {[Plain EXCEPT !.taintbits = t, !.bootrom = Unset] :
     t \in UNION {[1 .. k -> Pairs] : k \in 0 .. 2}}
   \cup {[Plain EXCEPT !.binary = b, !.bootrom = r] :
     b \in Cut(Sram) \cup {Sram, Bare, BadName, EvenStrtab},
     r \in {{e} : e \in Cut(Rom) \cup {Rom, Other} \cup Clash} \cup {Unset}}
   \cup {[Plain EXCEPT !.vanilla = TRUE, !.taintbits = t] : t \in {<<>>, << <<1, Full>> >>}}
   \cup {[Plain EXCEPT !.dotrace = d, !.inheritsTracefile = i, !.simtime = s] :
     d, i \in BOOLEAN, s \in {0, 5, 6}}

\* Files that fit; with a mask that is short, or long; with two lines for one address, the
\* second of which is longer, or shorter; and with characters that are no digits.
MCTaintFiles ==
  {<<Line(1, 2, 1, <<Full>>, "other")>>,
   <<Line(1, 2, 1, <<Full>>, "even"), Line(0, 6, 1, <<Full>>, "odd")>>,
   <<Line(0, 2, 2, <<Full>>, "even"), Line(1, 4, 1, <<Full, Full>>, "even")>>,
   <<Line(0, 2, 1, <<{"lo"}>>, "even"), Line(0, 2, 2, <<Full, Full>>, "even")>>,
   <<Line(0, 2, 2, <<Full, Full>>, "even"), Line(0, 2, 1, <<{"lo"}>>, "even")>>}
MCShells ==
  [VM_TRACE : BOOLEAN, TRACEFILE : {Unset, {"trace.fst"}}, SIMLEN : {Unset, {7}, {0}},
   ELF : [sram : {Unset, {Sram}}, rom : {Unset, {Rom}}],
   TAINT : [sram : {Unset} \cup {{f} : f \in MCTaintFiles}, rom : {Unset, {<<>>}}]]

MCDefaults == [sram |-> <<Line(0, 0, 2, <<Full, {"lo"}>>, "even"),
                          Line(1, 2, 1, <<{"hi"}>>, "even")>>,
               rom |-> <<Line(1, 2, 1, <<Full>>, "even"), Line(0, 6, 1, <<Full>>, "even")>>]
=============================================================================
