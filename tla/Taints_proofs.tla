---------------------------- MODULE Taints_proofs ----------------------------
(***************************************************************************)
(* What Simulation promises of taints, for any jobs, shells, taint files   *)
(* and memories: the blocks of the script hold what went into them, and    *)
(* the simulation taints its memories by them or by its user's files.      *)
(***************************************************************************)
EXTENDS Simulation_proofs, FiniteSetTheorems

\* The blocks of a TaintTuples object: aligned, complete, one for an address.
IsBlock(e) == e.base \in Nat /\ e.base % Alignment = 0 /\ e.block \in [Offsets -> Byte]
IsBlocks(list) ==
  /\ IsSequence(list)
  /\ \A i \in 1 .. Len(list) : IsBlock(list[i])
  /\ \A i, j \in 1 .. Len(list) : list[i].base = list[j].base => i = j

TaintBits == Nat \X Byte
Prefix(s, k) == SubSeq(s, 1, k)

\* The script: its blocks hold what it has read so far, and then go into the
\* environment of the simulation.
Collected ==
  /\ taintbits \in Seq(TaintBits)
  /\ IsBlocks(tt)
  /\ phase = "parse" =>
       /\ n <= Len(job.file)
       /\ \A a \in Nat : BlocksTaint(tt, a) = LinesTaint(Prefix(job.file, n), a)
  /\ phase \in {"construct", "add"} =>
       /\ n <= Len(taintbits)
       /\ \A a \in Nat : BlocksTaint(tt, a) = BitsTaint(Prefix(taintbits, n), a)
  /\ phase \in Launched /\ job # NoJob =>
       /\ env = SetupSimEnv(GenTaintLines(tt))
       /\ \A a \in Nat : BlocksTaint(tt, a) = BitsTaint(taintbits, a)

\* Past main, the number of ticks is sane.
Timed ==
  /\ ticks \in Nat
  /\ phase \in Launched \ {"main"} =>
       LeadTicks >= 0 /\ \A simlen \in env.SIMLEN : simlen > LeadTicks

\* A line of the current file waits if its section is in the table or requested.
TaintedBy(line, a) == a - line.addr \in 0 .. (line.nbytes - 1)
TaintOf(line, a) == Pad(line.mask, line.nbytes)[a - line.addr + 1]
Heard(line) ==
  \E k \in taint_section_index[line.id] + 1 .. Len(taint_sections[line.id]) :
    taint_sections[line.id][k].addr = line.addr
Requested(line) ==
  request # NoRequest /\ request.id = line.id /\ request.addr = line.addr
MaskKept(line) ==
  /\ line.addr \in DOMAIN taint_assignments[line.id]
  /\ taint_assignments[line.id][line.addr].mask = line.mask
MaskTypes ==
  \A id \in Ids : \A a \in DOMAIN taint_assignments[id] :
    taint_assignments[id][a].mask \in Seq(Byte)
Untainted(content) == \A a \in Addresses : content[a] = {}
IsTainted(lines, content) == \A a \in Addresses : content[a] = LinesTaint(lines, a)
IsPartlyTainted(lines, content) ==
  \A a \in Addresses :
    /\ \A i \in 1 .. Len(lines) : TaintedBy(lines[i], a) =>
         \/ content[a] = TaintOf(lines[i], a)
         \/ Heard(lines[i]) \/ Requested(lines[i])
    /\ (\A i \in 1 .. Len(lines) : ~TaintedBy(lines[i], a)) => content[a] = {}

\* Untouched memories are untainted, the current one is tainted up to the lines that
\* wait, the others are tainted by their files.
TaintImages ==
  /\ taint \in [Memories -> [Addresses -> Byte]]
  /\ phase \in Phases => \A m \in todo : Untainted(taint[m])
  /\ phase \in Filling \ {"taints"} => Untainted(taint[mem])
  /\ phase = "lines" =>
       /\ n <= Len(TaintsOf(mem))
       /\ Disjoint(TaintsOf(mem)) => \A i \in 1 .. n :
            LET line == TaintsOf(mem)[i]
            IN  line.nbytes # 0 => MaskKept(line) /\ Heard(line)
  /\ phase = "taints" /\ Disjoint(TaintsOf(mem)) =>
       /\ IsPartlyTainted(TaintsOf(mem), taint[mem])
       /\ \A i \in 1 .. Len(TaintsOf(mem)) :
            TaintsOf(mem)[i].nbytes # 0 => MaskKept(TaintsOf(mem)[i])
       /\ request # NoRequest => \E i \in 1 .. Len(TaintsOf(mem)) :
            Requested(TaintsOf(mem)[i]) /\ TaintsOf(mem)[i].nbytes = request.len
  /\ phase \in Launched => \A m \in Memories \ todo :
       (phase \in Filling => m # mem) /\ Disjoint(TaintsOf(m))
         => IsTainted(TaintsOf(m), taint[m])
-----------------------------------------------------------------------------
(* Blocks of addresses. *)
LEMMA BaseProperties ==
  ASSUME NEW a \in Nat
  PROVE  /\ Base(a) \in Nat /\ Base(a) % Alignment = 0
         /\ a % Alignment \in Offsets /\ a = Base(a) + (a % Alignment)
<1>1. a = (a \div Alignment) * Alignment + (a % Alignment)
  BY AlignmentAssumption
<1>2. a % Alignment \in 0 .. (Alignment - 1) /\ a - (a % Alignment) \in Nat
  BY AlignmentAssumption
<1>3. Base(a) = (a \div Alignment) * Alignment /\ a \div Alignment \in Nat
  BY <1>1, <1>2, AlignmentAssumption DEF Base
<1>4. Base(a) % Alignment = 0
  <2>1. \A q \in Nat : (q * Alignment + 0) % Alignment = 0
    BY AlignmentAssumption
  <2>2. Base(a) = (a \div Alignment) * Alignment + 0
    BY <1>2, <1>3 DEF Base
  <2> QED
    BY <1>3, <2>1, <2>2
<1> QED
  BY <1>2, <1>4 DEF Base, Offsets

LEMMA BaseOffset == ASSUME NEW a \in Nat PROVE Base(a) \in Nat /\ a - Base(a) \in Offsets
<1>1. Base(a) \in Nat /\ a % Alignment \in Offsets /\ a = Base(a) + (a % Alignment)
  BY BaseProperties
<1> QED
  BY <1>1 DEF Offsets

LEMMA BaseInBlock ==
  ASSUME NEW b \in Nat, b % Alignment = 0, NEW k \in Offsets
  PROVE  Base(b + k) = b
<1>1. (b + k) % Alignment = k
  BY AlignmentAssumption DEF Offsets
<1> QED
  BY <1>1 DEF Base, Offsets

\* The padded mask as a function of the address.
MaskAt(addr, mask, a) ==
  IF a - addr \in 0 .. (Len(mask) - 1) THEN mask[a - addr + 1] ELSE {}

LEMMA BlockByte ==
  ASSUME NEW addr \in Nat, NEW mask, Len(mask) \in Nat, Fits(addr, mask), NEW a \in Nat
  PROVE  IF Base(a) = Base(addr)
           THEN Block(addr, mask)[a - Base(a)] = MaskAt(addr, mask, a)
           ELSE MaskAt(addr, mask, a) = {}
<1>1. /\ Base(addr) \in Nat /\ Base(addr) % Alignment = 0
      /\ addr % Alignment \in Offsets /\ addr = Base(addr) + (addr % Alignment)
  BY BaseProperties
<1>2. Base(a) \in Nat /\ a % Alignment \in Offsets /\ a = Base(a) + (a % Alignment)
  BY BaseProperties
<1>3. CASE Base(a) = Base(addr)
  <2>1. a - Base(a) \in Offsets
    BY <1>2 DEF Offsets
  <2>2. (a - Base(a)) - (addr % Alignment) + 1 = a - addr + 1
    <3>1. PICK base, rest : base = Base(a) /\ rest = addr % Alignment
      OBVIOUS
    <3>2. base \in Int /\ rest \in Int /\ addr = base + rest
      BY <1>1, <1>2, <1>3, <3>1 DEF Offsets
    <3>3. (a - base) - rest + 1 = a - addr + 1
      BY <3>2
    <3> QED
      BY <3>1, <3>3
  <2>3. a - addr \in Int
    OBVIOUS
  <2>4. Block(addr, mask)[a - Base(a)] =
          IF a - addr + 1 \in 1 .. Len(mask) THEN mask[a - addr + 1] ELSE {}
    BY <2>1, <2>2 DEF Block
  <2>5. a - addr + 1 \in 1 .. Len(mask) <=> a - addr \in 0 .. (Len(mask) - 1)
    BY <2>3
  <2> QED
    BY <1>3, <2>4, <2>5 DEF MaskAt
<1>4. CASE Base(a) # Base(addr)
  <2>1. ASSUME a - addr \in 0 .. (Len(mask) - 1) PROVE FALSE
    <3>1. PICK k \in Offsets : a = Base(addr) + k
      <4>1. (addr % Alignment) + (a - addr) \in Offsets
        BY <1>1, <2>1, AlignmentAssumption DEF Fits, Offsets
      <4>2. a = Base(addr) + ((addr % Alignment) + (a - addr))
        BY <1>1 DEF Offsets
      <4> QED
        BY <4>1, <4>2
    <3> QED
      BY <1>1, <1>4, <3>1, BaseInBlock
  <2> QED
    BY <1>4, <2>1 DEF MaskAt
<1> QED
  BY <1>3, <1>4

LEMMA BlockTyped ==
  ASSUME NEW addr, NEW mask \in Seq(Byte)
  PROVE  Block(addr, mask) \in [Offsets -> Byte]
<1>1. {} \in Byte /\ \A j \in 1 .. Len(mask) : mask[j] \in Byte
  BY ElementOfSeq DEF Byte
<1> QED
  BY <1>1 DEF Block

\* What a list of blocks, of pairs or of lines says of an address.
LEMMA RangeOf ==
  ASSUME NEW s, IsSequence(s), NEW e
  PROVE  e \in Range(s) <=> \E i \in 1 .. Len(s) : e = s[i]
<1>1. DOMAIN s = 1 .. Len(s)
  BY LenProperties DEF IsSequence
<1> QED
  BY <1>1 DEF Range

LEMMA InBlocks ==
  ASSUME NEW list, IsSequence(list), NEW a, NEW x
  PROVE  x \in BlocksTaint(list, a) <=>
           \E i \in 1 .. Len(list) : list[i].base = Base(a) /\ x \in list[i].block[a - list[i].base]
<1>1. x \in BlocksTaint(list, a) <=>
        \E e \in Range(list) : e.base = Base(a) /\ x \in e.block[a - e.base]
  BY DEF BlocksTaint
<1> QED
  BY <1>1, RangeOf
\* private_add keeps the blocks aligned and apart, and adds its mask and no more.
LEMMA AddKeepsBlocks ==
  ASSUME NEW list, IsBlocks(list), NEW addr \in Nat, NEW mask \in Seq(Byte)
  PROVE  IsBlocks(PrivateAdd(list, addr, mask))
<1>1. PICK base : base = Base(addr)
  OBVIOUS
<1>2. PICK block : block = Block(addr, mask)
  OBVIOUS
<1>3. base \in Nat /\ base % Alignment = 0 /\ block \in [Offsets -> Byte]
  BY <1>1, <1>2, BaseProperties, BlockTyped
<1>4. Len(list) \in Nat /\ IsSequence(list)
  BY SequenceLength DEF IsBlocks
<1>5. PICK e : e = [base |-> base, block |-> block]
  OBVIOUS
<1>6. IsBlock(e) /\ e.base = base
  BY <1>3, <1>5 DEF IsBlock
<1>7. CASE \E i \in 1 .. Len(list) : list[i].base = base
  <2>1. PICK merged :
          merged = [i \in 1 .. Len(list) |->
                      IF list[i].base = base
                        THEN [base |-> base, block |-> Merge(list[i].block, block)]
                        ELSE list[i]]
    OBVIOUS
  <2>2. PrivateAdd(list, addr, mask) = merged
    BY <1>1, <1>2, <1>7, <2>1 DEF PrivateAdd
  <2>3. IsSequence(merged) /\ Len(merged) = Len(list)
    BY <1>4, <2>1, SequenceOf
  <2>4. ASSUME NEW i \in 1 .. Len(list)
        PROVE  IsBlock(merged[i]) /\ merged[i].base = list[i].base
    <3>1. IsBlock(list[i])
      BY DEF IsBlocks
    <3>2. Merge(list[i].block, block) \in [Offsets -> Byte]
      BY <1>3, <3>1 DEF IsBlock, Merge, Byte
    <3> QED
      BY <1>3, <2>1, <3>1, <3>2 DEF IsBlock
  <2> QED
    BY <2>2, <2>3, <2>4 DEF IsBlocks
<1>8. CASE ~\E i \in 1 .. Len(list) : list[i].base = base
  <2>1. PrivateAdd(list, addr, mask) = Append(list, e)
    BY <1>1, <1>2, <1>5, <1>8 DEF PrivateAdd
  <2>2. /\ IsSequence(Append(list, e)) /\ Len(Append(list, e)) = Len(list) + 1
        /\ \A i \in 1 .. Len(list) : Append(list, e)[i] = list[i]
        /\ Append(list, e)[Len(list) + 1] = e
    BY <1>4, SequenceAppend
  <2>3. \A i \in 1 .. Len(list) : IsBlock(list[i])
    BY DEF IsBlocks
  <2>4. \A i, j \in 1 .. Len(list) : list[i].base = list[j].base => i = j
    BY DEF IsBlocks
  <2>5. \A i \in 1 .. Len(list) + 1 : i \in 1 .. Len(list) \/ i = Len(list) + 1
    BY <1>4
  <2>6. PICK new : new = Append(list, e)
    OBVIOUS
  <2>7. \A i \in 1 .. Len(list) + 1 : IsBlock(new[i])
    BY <1>6, <2>2, <2>3, <2>5, <2>6
  <2>8. \A i, j \in 1 .. Len(list) + 1 : new[i].base = new[j].base => i = j
    BY <1>6, <1>8, <2>2, <2>4, <2>5, <2>6
  <2> QED
    BY <2>1, <2>2, <2>6, <2>7, <2>8 DEF IsBlocks
<1> QED
  BY <1>7, <1>8

LEMMA AddAddsTaint ==
  ASSUME NEW list, IsBlocks(list), NEW addr \in Nat, NEW mask \in Seq(Byte),
         Fits(addr, mask), NEW a \in Nat
  PROVE  BlocksTaint(PrivateAdd(list, addr, mask), a) =
           BlocksTaint(list, a) \cup MaskAt(addr, mask, a)
<1>1. PICK base : base = Base(addr)
  OBVIOUS
<1>2. PICK block : block = Block(addr, mask)
  OBVIOUS
<1>3. Len(list) \in Nat /\ IsSequence(list) /\ Len(mask) \in Nat
  BY SequenceLength, LenProperties DEF IsBlocks
<1>4. IF Base(a) = base THEN block[a - Base(a)] = MaskAt(addr, mask, a)
                        ELSE MaskAt(addr, mask, a) = {}
  BY <1>1, <1>2, <1>3, BlockByte
<1>5. Base(a) \in Nat /\ a - Base(a) \in Offsets
  BY BaseOffset
<1>6. IsSequence(PrivateAdd(list, addr, mask))
  BY <1>3, PrivateAddSequence
<1>7. PICK new : new = PrivateAdd(list, addr, mask)
  OBVIOUS
<1> SUFFICES ASSUME NEW x
             PROVE  x \in BlocksTaint(new, a) <=>
                      x \in BlocksTaint(list, a) \/ x \in MaskAt(addr, mask, a)
  BY <1>7
<1>8. x \in BlocksTaint(list, a) <=>
        \E i \in 1 .. Len(list) : list[i].base = Base(a) /\ x \in list[i].block[a - Base(a)]
  BY <1>3, InBlocks
<1>9. x \in BlocksTaint(new, a) <=>
        \E i \in 1 .. Len(new) : new[i].base = Base(a) /\ x \in new[i].block[a - Base(a)]
  BY <1>6, <1>7, InBlocks
<1>10. CASE \E i \in 1 .. Len(list) : list[i].base = base
  <2>1. new = [i \in 1 .. Len(list) |->
                 IF list[i].base = base
                   THEN [base |-> base, block |-> Merge(list[i].block, block)]
                   ELSE list[i]]
    BY <1>1, <1>2, <1>7, <1>10 DEF PrivateAdd
  <2>2. Len(new) = Len(list)
    BY <1>3, <2>1, SequenceOf
  <2>3. ASSUME NEW i \in 1 .. Len(list)
        PROVE  /\ new[i].base = list[i].base
               /\ list[i].base = base => x \in new[i].block[a - Base(a)] <=>
                    x \in list[i].block[a - Base(a)] \/ x \in block[a - Base(a)]
               /\ list[i].base # base => new[i] = list[i]
    BY <1>5, <2>1 DEF Merge
  <2>4. CASE Base(a) = base
    BY <1>4, <1>8, <1>9, <1>10, <2>2, <2>3, <2>4
  <2>5. CASE Base(a) # base
    BY <1>4, <1>8, <1>9, <2>2, <2>3, <2>5
  <2> QED
    BY <2>4, <2>5
<1>11. CASE ~\E i \in 1 .. Len(list) : list[i].base = base
  <2>1. PICK e : e = [base |-> base, block |-> block]
    OBVIOUS
  <2>2. new = Append(list, e) /\ e.base = base /\ e.block = block
    BY <1>1, <1>2, <1>7, <1>11, <2>1 DEF PrivateAdd
  <2>3. /\ Len(new) = Len(list) + 1 /\ new[Len(list) + 1] = e
        /\ \A i \in 1 .. Len(list) : new[i] = list[i]
    BY <1>3, <2>2, SequenceAppend
  <2>4. \A i : i \in 1 .. Len(new) <=> i \in 1 .. Len(list) \/ i = Len(list) + 1
    BY <1>3, <2>3
  <2>5. x \in BlocksTaint(new, a) <=>
          \/ x \in BlocksTaint(list, a)
          \/ base = Base(a) /\ x \in block[a - Base(a)]
    BY <1>8, <1>9, <2>2, <2>3, <2>4
  <2> QED
    BY <1>4, <2>5
<1> QED
  BY <1>10, <1>11

\* A prefix, grown by one element.
LEMMA PrefixGrows ==
  ASSUME NEW S, NEW s \in Seq(S), NEW k \in Nat, k < Len(s), NEW e
  PROVE  e \in Range(Prefix(s, k + 1)) <=> e \in Range(Prefix(s, k)) \/ e = s[k + 1]
<1>1. Len(s) \in Nat /\ 1 \in 1 .. Len(s) + 1 /\ k \in 0 .. Len(s) /\ k + 1 \in 0 .. Len(s)
  BY LenProperties
<1>2. PICK small : small = Prefix(s, k)
  OBVIOUS
<1>3. PICK large : large = Prefix(s, k + 1)
  OBVIOUS
<1>4. small \in Seq(S) /\ Len(small) = k /\ \A i \in 1 .. k : small[i] = s[i]
  BY <1>1, <1>2, SubSeqProperties DEF Prefix
<1>5. large \in Seq(S) /\ Len(large) = k + 1 /\ \A i \in 1 .. k + 1 : large[i] = s[i]
  BY <1>1, <1>3, SubSeqProperties DEF Prefix
<1>6. IsSequence(small) /\ IsSequence(large)
  BY <1>4, <1>5 DEF IsSequence
<1>7. e \in Range(small) <=> \E i \in 1 .. k : e = s[i]
  BY <1>4, <1>6, RangeOf
<1>8. e \in Range(large) <=> \E i \in 1 .. k + 1 : e = s[i]
  BY <1>5, <1>6, RangeOf
<1>9. \A i : i \in 1 .. k + 1 <=> i \in 1 .. k \/ i = k + 1
  OBVIOUS
<1> QED
  BY <1>2, <1>3, <1>7, <1>8, <1>9

LEMMA NoPrefix == ASSUME NEW S, NEW s \in Seq(S) PROVE Range(Prefix(s, 0)) = {}
<1>1. Len(s) \in Nat /\ 1 \in 1 .. Len(s) + 1 /\ 0 \in 0 .. Len(s)
  BY LenProperties
<1>2. PICK none : none = Prefix(s, 0)
  OBVIOUS
<1>3. none \in Seq(S) /\ Len(none) = 0
  BY <1>1, <1>2, SubSeqProperties DEF Prefix
<1>4. IsSequence(none)
  BY <1>3 DEF IsSequence
<1>5. ASSUME NEW e PROVE e \notin Range(none)
  BY <1>3, <1>4, RangeOf
<1> QED
  BY <1>2, <1>5

LEMMA WholePrefix == ASSUME NEW S, NEW s \in Seq(S) PROVE Prefix(s, Len(s)) = s
<1>1. Len(s) \in Nat /\ 1 \in 1 .. Len(s) + 1 /\ Len(s) \in 0 .. Len(s)
  BY LenProperties
<1>2. PICK t : t = Prefix(s, Len(s))
  OBVIOUS
<1>3. t \in Seq(S) /\ Len(t) = Len(s) /\ \A i \in 1 .. Len(s) : t[i] = s[i]
  BY <1>1, <1>2, SubSeqProperties DEF Prefix
<1> QED
  BY <1>2, <1>3, SeqEqual

\* A further pair and a further line say what their masks say.
LEMMA BitsGrow ==
  ASSUME NEW bits \in Seq(TaintBits), NEW k \in Nat, k < Len(bits), NEW a \in Nat,
         NEW next, next = k + 1, NEW t, t = bits[next], NEW mask, mask = <<t[2]>>
  PROVE  /\ t \in TaintBits
         /\ BitsTaint(Prefix(bits, next), a) =
              BitsTaint(Prefix(bits, k), a) \cup MaskAt(t[1], mask, a)
<1>1. t \in TaintBits
  <2>1. k + 1 \in 1 .. Len(bits)
    BY LenProperties
  <2> QED
    BY <2>1, ElementOfSeq
<1>2. t[1] \in Nat /\ t[2] \in Byte
  BY <1>1 DEF TaintBits
<1>3. MaskAt(t[1], mask, a) = IF t[1] = a THEN t[2] ELSE {}
  BY <1>2 DEF MaskAt
<1>4. ASSUME NEW u
      PROVE  u \in Range(Prefix(bits, k + 1)) <=> u \in Range(Prefix(bits, k)) \/ u = t
  BY PrefixGrows
<1>5. BitsTaint(Prefix(bits, k + 1), a) =
        BitsTaint(Prefix(bits, k), a) \cup MaskAt(t[1], mask, a)
  <2> SUFFICES ASSUME NEW x
               PROVE  x \in BitsTaint(Prefix(bits, k + 1), a) <=>
                        x \in BitsTaint(Prefix(bits, k), a) \/ x \in MaskAt(t[1], mask, a)
    OBVIOUS
  <2>1. \A s : x \in BitsTaint(s, a) <=> \E u \in Range(s) : u[1] = a /\ x \in u[2]
    BY DEF BitsTaint
  <2> QED
    BY <1>3, <1>4, <2>1
<1> QED
  BY <1>1, <1>5

LEMMA PadProperties ==
  ASSUME NEW mask \in Seq(Byte), NEW nbytes \in Nat
  PROVE  Pad(mask, nbytes) \in Seq(Byte) /\ Len(Pad(mask, nbytes)) = nbytes
<1>1. {} \in Byte /\ \A j \in 1 .. Len(mask) : mask[j] \in Byte
  BY ElementOfSeq DEF Byte
<1>2. Pad(mask, nbytes) \in [1 .. nbytes -> Byte]
  BY <1>1 DEF Pad
<1> QED
  BY <1>2, SeqDef, LenProperties

TaintLines == [id : Nat, addr : Nat, nbytes : Nat, mask : Seq(Byte), digits : Digits]
LEMMA LinesGrow ==
  ASSUME NEW lines \in Seq(TaintLines), NEW k \in Nat, k < Len(lines), NEW a \in Nat,
         NEW next, next = k + 1, NEW l, l = lines[next],
         NEW mask, mask = Pad(l.mask, l.nbytes)
  PROVE  /\ l.addr \in Nat /\ mask \in Seq(Byte)
         /\ LinesTaint(Prefix(lines, next), a) =
              LinesTaint(Prefix(lines, k), a) \cup MaskAt(l.addr, mask, a)
<1>1. l \in TaintLines
  <2>1. k + 1 \in 1 .. Len(lines)
    BY LenProperties
  <2> QED
    BY <2>1, ElementOfSeq
<1>2. l.addr \in Nat /\ l.mask \in Seq(Byte) /\ l.nbytes \in Nat
  BY <1>1 DEF TaintLines
<1>3. mask \in Seq(Byte) /\ Len(mask) = l.nbytes
  BY <1>2, PadProperties
<1>4. ASSUME NEW u
      PROVE  u \in Range(Prefix(lines, k + 1)) <=> u \in Range(Prefix(lines, k)) \/ u = l
  BY PrefixGrows
<1>5. LinesTaint(Prefix(lines, k + 1), a) =
        LinesTaint(Prefix(lines, k), a) \cup MaskAt(l.addr, mask, a)
  <2> SUFFICES ASSUME NEW x
               PROVE  x \in LinesTaint(Prefix(lines, k + 1), a) <=>
                        \/ x \in LinesTaint(Prefix(lines, k), a)
                        \/ x \in MaskAt(l.addr, mask, a)
    OBVIOUS
  <2>1. \A s : x \in LinesTaint(s, a) <=> \E u \in Range(s) :
          /\ a - u.addr \in 0 .. (u.nbytes - 1)
          /\ x \in Pad(u.mask, u.nbytes)[a - u.addr + 1]
    BY DEF LinesTaint
  <2>2. x \in MaskAt(l.addr, mask, a) <=>
          /\ a - l.addr \in 0 .. (l.nbytes - 1)
          /\ x \in Pad(l.mask, l.nbytes)[a - l.addr + 1]
    BY <1>3 DEF MaskAt
  <2> QED
    BY <1>4, <2>1, <2>2
<1> QED
  BY <1>2, <1>3, <1>5

\* The i-th smallest is there.
LEMMA NthIn ==
  ASSUME NEW S \in SUBSET Nat, IsFiniteSet(S), NEW i \in 1 .. Cardinality(S)
  PROVE  Nth(S, i) \in S
<1> DEFINE upTo(k) == {j \in S : j <= k}
<1>1. PICK rank : rank = [k \in S |-> Cardinality(upTo(k))]
  OBVIOUS
<1>2. ASSUME NEW k \in S
      PROVE  /\ IsFiniteSet(upTo(k)) /\ Cardinality(upTo(k)) \in 1 .. Cardinality(S)
  <2>1. upTo(k) \in SUBSET S /\ upTo(k) # {}
    OBVIOUS
  <2>2. IsFiniteSet(upTo(k)) /\ Cardinality(upTo(k)) <= Cardinality(S)
    BY <2>1, FS_Subset
  <2>3. Cardinality(upTo(k)) # 0
    BY <2>1, <2>2, FS_EmptySet
  <2>4. Cardinality(upTo(k)) \in Nat /\ Cardinality(S) \in Nat
    BY <2>2, FS_CardinalityType
  <2> QED
    BY <2>2, <2>3, <2>4
<1>3. ASSUME NEW j \in S, NEW k \in S, j < k PROVE rank[j] # rank[k]
  <2>1. upTo(j) \in SUBSET upTo(k) /\ k \in upTo(k) /\ k \notin upTo(j)
    <3>1. j \in Nat /\ k \in Nat /\ \A l \in S : l \in Nat
      OBVIOUS
    <3>2. \A l \in S : l <= j => l <= k
      BY <1>3, <3>1
    <3>3. ~(k <= j) /\ k <= k
      BY <1>3, <3>1
    <3> QED
      BY <3>1, <3>2, <3>3
  <2>2. Cardinality(upTo(k)) # Cardinality(upTo(j))
    BY <1>2, <2>1, FS_Subset
  <2> QED
    BY <1>1, <2>2
<1>4. \A j, k \in S : rank[j] = rank[k] => j = k
  <2> SUFFICES ASSUME NEW j \in S, NEW k \in S, j # k PROVE rank[j] # rank[k]
    OBVIOUS
  <2>1. j < k \/ k < j
    OBVIOUS
  <2> QED
    BY <1>3, <2>1
<1>5. rank \in [S -> 1 .. Cardinality(S)]
  BY <1>1, <1>2
<1>6. rank \in Injection(S, 1 .. Cardinality(S))
  BY <1>4, <1>5 DEF Injection, IsInjective
<1>7. Cardinality(S) \in Nat
  BY FS_CardinalityType
<1>8. IsFiniteSet(1 .. Cardinality(S)) /\ Cardinality(1 .. Cardinality(S)) = Cardinality(S)
  BY <1>7, FS_Interval
<1>9. rank \in Surjection(S, 1 .. Cardinality(S))
  BY <1>6, <1>8, FS_Injection
<1>10. PICK k \in S : rank[k] = i
  BY <1>9 DEF Surjection
<1>11. k \in S /\ Cardinality({j \in S : j <= k}) = i
  BY <1>1, <1>10
<1> QED
  BY <1>11 DEF Nth

LEMMA AsBytesTyped ==
  ASSUME NEW list, IsBlocks(list), HasBytes(list)
  PROVE  AsBytes(list) \in Seq(TaintBits)
<1>1. Len(list) \in Nat /\ Len(list) \in 1 .. Len(list)
  BY EmptySeq, LenProperties DEF IsBlocks, IsSequence, HasBytes
<1>2. PICK last : last = list[Len(list)]
  OBVIOUS
<1>3. last.base \in Nat /\ last.block \in [Offsets -> Byte]
  BY <1>1, <1>2 DEF IsBlocks, IsBlock
<1>4. PICK tainted : tainted = {k \in Offsets : last.block[k] # {}}
  OBVIOUS
<1>5. tainted \in SUBSET Offsets /\ Offsets \in SUBSET Nat /\ IsFiniteSet(tainted)
  <2>1. IsFiniteSet(Offsets)
    BY FS_Interval, AlignmentAssumption DEF Offsets
  <2>2. tainted \in SUBSET Offsets /\ Offsets \in SUBSET Nat
    BY <1>4 DEF Offsets
  <2> QED
    BY <2>1, <2>2, FS_Subset
<1>6. Cardinality(tainted) \in Nat
  BY <1>5, FS_CardinalityType
<1>7. \A i \in 1 .. Cardinality(tainted) : Nth(tainted, i) \in Offsets
  BY <1>5, NthIn
<1>8. AsBytes(list) = [i \in 1 .. Cardinality(tainted) |->
                         <<last.base + Nth(tainted, i), last.block[Nth(tainted, i)]>>]
  BY <1>2, <1>4 DEF AsBytes
<1>9. \A i \in 1 .. Cardinality(tainted) :
        <<last.base + Nth(tainted, i), last.block[Nth(tainted, i)]>> \in TaintBits
  <2> SUFFICES ASSUME NEW k \in Offsets
               PROVE  <<last.base + k, last.block[k]>> \in TaintBits
    BY <1>7
  <2>1. last.base + k \in Nat /\ last.block[k] \in Byte
    BY <1>3, <1>5
  <2> QED
    BY <2>1 DEF TaintBits
<1>10. AsBytes(list) \in [1 .. Cardinality(tainted) -> TaintBits]
  BY <1>8, <1>9
<1> QED
  BY <1>6, <1>10, SeqDef

\* The lines gen_taintlines writes say what the blocks say, one line for a byte.
LEMMA InLines ==
  ASSUME NEW lines, IsSequence(lines), NEW a, NEW x
  PROVE  x \in LinesTaint(lines, a) <=>
           \E i \in 1 .. Len(lines) :
             /\ TaintedBy(lines[i], a)
             /\ x \in Pad(lines[i].mask, lines[i].nbytes)[a - lines[i].addr + 1]
<1>1. x \in LinesTaint(lines, a) <=> \E l \in Range(lines) :
        TaintedBy(l, a) /\ x \in Pad(l.mask, l.nbytes)[a - l.addr + 1]
  BY DEF LinesTaint, TaintedBy
<1> QED
  BY <1>1, RangeOf

LEMMA GeneratedLine ==
  ASSUME NEW list, IsBlocks(list)
  PROVE  LET lines == GenTaintLines(list)
         IN  /\ IsSequence(lines) /\ Len(lines) = Len(list)
             /\ \A i \in 1 .. Len(list) :
                  /\ lines[i].addr = list[i].base /\ lines[i].nbytes = Alignment
                  /\ lines[i].mask \in Seq(Byte) /\ Len(lines[i].mask) = Alignment
                  /\ \A k \in Offsets : lines[i].mask[k + 1] = list[i].block[k]
<1>1. PICK lines : lines = GenTaintLines(list)
  OBVIOUS
<1>2. Len(list) \in Nat
  BY SequenceLength DEF IsBlocks
<1>3. lines = [i \in 1 .. Len(list) |->
                 [id |-> 0, addr |-> list[i].base, nbytes |-> Alignment, digits |-> "even",
                  mask |-> [j \in 1 .. Alignment |-> list[i].block[j - 1]]]]
  BY <1>1 DEF GenTaintLines
<1>4. lines = [i \in 1 .. Len(list) |-> lines[i]]
  BY <1>3
<1>5. IsSequence(lines) /\ Len(lines) = Len(list)
  BY <1>2, <1>4, SequenceOf
<1>6. ASSUME NEW i \in 1 .. Len(list)
      PROVE  /\ lines[i].addr = list[i].base /\ lines[i].nbytes = Alignment
             /\ lines[i].mask \in Seq(Byte) /\ Len(lines[i].mask) = Alignment
             /\ \A k \in Offsets : lines[i].mask[k + 1] = list[i].block[k]
  <2>1. PICK mask : mask = [j \in 1 .. Alignment |-> list[i].block[j - 1]]
    OBVIOUS
  <2>2. /\ lines[i].addr = list[i].base /\ lines[i].nbytes = Alignment
        /\ lines[i].mask = mask
    BY <1>3, <2>1
  <2>3. list[i].block \in [Offsets -> Byte]
    BY DEF IsBlocks, IsBlock
  <2>4. \A j \in 1 .. Alignment : j - 1 \in Offsets
    BY AlignmentAssumption DEF Offsets
  <2>5. mask \in [1 .. Alignment -> Byte]
    BY <2>1, <2>3, <2>4
  <2>6. mask \in Seq(Byte) /\ Len(mask) = Alignment
    BY <2>5, SeqDef, LenProperties, AlignmentAssumption
  <2>7. \A k \in Offsets : k + 1 \in 1 .. Alignment /\ (k + 1) - 1 = k
    BY AlignmentAssumption DEF Offsets
  <2> QED
    BY <2>1, <2>2, <2>6, <2>7
<1> QED
  BY <1>1, <1>5, <1>6

LEMMA GeneratedDisjoint ==
  ASSUME NEW list, IsBlocks(list) PROVE Disjoint(GenTaintLines(list))
<1>1. ASSUME NEW b \in Nat, NEW c \in Nat, b % Alignment = 0, c % Alignment = 0, b < c
      PROVE  b + Alignment <= c
  <2> SUFFICES ASSUME ~(b + Alignment <= c) PROVE FALSE
    OBVIOUS
  <2>1. c - b \in Offsets /\ c = b + (c - b)
    BY <1>1, AlignmentAssumption DEF Offsets
  <2>2. Base(c) = b
    BY <1>1, <2>1, BaseInBlock
  <2>3. Base(c) = c
    BY <1>1 DEF Base
  <2> QED
    BY <1>1, <2>2, <2>3
<1>2. PICK lines : lines = GenTaintLines(list)
  OBVIOUS
<1>3. /\ Len(lines) = Len(list)
      /\ \A i \in 1 .. Len(list) : lines[i].addr = list[i].base /\ lines[i].nbytes = Alignment
  BY <1>2, GeneratedLine
<1>4. ASSUME NEW i \in 1 .. Len(list), NEW j \in 1 .. Len(list), i # j
      PROVE  /\ list[i].base # list[j].base
             /\ \/ list[i].base + Alignment <= list[j].base
                \/ list[j].base + Alignment <= list[i].base
  <2>1. /\ list[i].base \in Nat /\ list[i].base % Alignment = 0
        /\ list[j].base \in Nat /\ list[j].base % Alignment = 0
        /\ list[i].base # list[j].base
    BY <1>4 DEF IsBlocks, IsBlock
  <2>2. list[i].base < list[j].base \/ list[j].base < list[i].base
    BY <2>1
  <2> QED
    BY <1>1, <2>1, <2>2
<1>5. Disjoint(lines)
  BY <1>3, <1>4 DEF Disjoint
<1> QED
  BY <1>2, <1>5

LEMMA GeneratedTaint ==
  ASSUME NEW list, IsBlocks(list), NEW a \in Nat
  PROVE  LinesTaint(GenTaintLines(list), a) = BlocksTaint(list, a)
<1>1. PICK lines : lines = GenTaintLines(list)
  OBVIOUS
<1>2. IsSequence(lines) /\ Len(lines) = Len(list)
  BY <1>1, GeneratedLine
<1>3. ASSUME NEW i \in 1 .. Len(list)
      PROVE  /\ TaintedBy(lines[i], a) <=> list[i].base = Base(a)
             /\ TaintedBy(lines[i], a) =>
                  Pad(lines[i].mask, lines[i].nbytes)[a - lines[i].addr + 1] =
                    list[i].block[a - list[i].base]
  <2>1. /\ lines[i].addr = list[i].base /\ lines[i].nbytes = Alignment
        /\ lines[i].mask \in Seq(Byte) /\ Len(lines[i].mask) = Alignment
        /\ \A k \in Offsets : lines[i].mask[k + 1] = list[i].block[k]
    BY <1>1, GeneratedLine
  <2>2. list[i].base \in Nat /\ list[i].base % Alignment = 0
    BY DEF IsBlocks, IsBlock
  <2>3. TaintedBy(lines[i], a) <=> a - list[i].base \in Offsets
    BY <2>1 DEF TaintedBy, Offsets
  <2>4. list[i].base = Base(a) => a - list[i].base \in Offsets
    BY BaseOffset
  <2>5. a - list[i].base \in Offsets => Base(a) = list[i].base
    <3>1. a = list[i].base + (a - list[i].base)
      BY <2>2
    <3> QED
      BY <2>2, <3>1, BaseInBlock
  <2>6. ASSUME a - list[i].base \in Offsets
        PROVE  Pad(lines[i].mask, Alignment)[a - list[i].base + 1] =
                 list[i].block[a - list[i].base]
    <3>1. PICK k \in Offsets : k = a - list[i].base
      BY <2>6
    <3>2. k + 1 \in 1 .. Alignment
      BY AlignmentAssumption DEF Offsets
    <3>3. Pad(lines[i].mask, Alignment)[k + 1] = lines[i].mask[k + 1]
      BY <2>1, <3>2 DEF Pad
    <3> QED
      BY <2>1, <3>1, <3>3
  <2> QED
    BY <2>1, <2>3, <2>4, <2>5, <2>6
<1> SUFFICES ASSUME NEW x PROVE x \in LinesTaint(lines, a) <=> x \in BlocksTaint(list, a)
  BY <1>1
<1>4. x \in LinesTaint(lines, a) <=>
        \E i \in 1 .. Len(lines) :
          /\ TaintedBy(lines[i], a)
          /\ x \in Pad(lines[i].mask, lines[i].nbytes)[a - lines[i].addr + 1]
  BY <1>2, InLines
<1>5. x \in BlocksTaint(list, a) <=>
        \E i \in 1 .. Len(list) : list[i].base = Base(a) /\ x \in list[i].block[a - list[i].base]
  BY InBlocks DEF IsBlocks
<1> QED
  BY <1>2, <1>3, <1>4, <1>5

-----------------------------------------------------------------------------
(* The script. *)
LEMMA NothingCollected ==
  /\ IsBlocks(<<>>)
  /\ \A a \in Nat : BlocksTaint(<<>>, a) = {}
  /\ \A bits \in Seq(TaintBits), a \in Nat : BitsTaint(Prefix(bits, 0), a) = {}
  /\ \A lines \in Seq(TaintLines), a \in Nat : LinesTaint(Prefix(lines, 0), a) = {}
<1>1. IsSequence(<<>>) /\ Len(<<>>) = 0
  BY EmptySeq DEF IsSequence
<1>2. IsBlocks(<<>>)
  BY <1>1 DEF IsBlocks
<1>3. ASSUME NEW a, NEW x PROVE x \notin BlocksTaint(<<>>, a)
  BY <1>1, InBlocks
<1>4. ASSUME NEW s, Range(s) = {}, NEW a PROVE BitsTaint(s, a) = {} /\ LinesTaint(s, a) = {}
  BY <1>4 DEF BitsTaint, LinesTaint
<1>5. ASSUME NEW bits \in Seq(TaintBits), NEW a PROVE BitsTaint(Prefix(bits, 0), a) = {}
  BY <1>4, NoPrefix
<1>6. ASSUME NEW lines \in Seq(TaintLines), NEW a PROVE LinesTaint(Prefix(lines, 0), a) = {}
  BY <1>4, NoPrefix
<1> QED
  BY <1>2, <1>3, <1>5, <1>6

LEMMA JobTyped ==
  ASSUME job \in Jobs
  PROVE  job.file \in Seq(TaintLines) /\ job.taintbits \in Seq(TaintBits)
BY JobsAssumption DEF TaintLines, TaintBits

LEMMA CollectedInit == Init => Collected
<1> SUFFICES ASSUME Init PROVE Collected
  OBVIOUS
<1>1. tt = <<>> /\ n = 0 /\ phase \in {"parse", "construct", "main"}
  BY DEF Init
<1>2. \/ job \in Jobs /\ taintbits = IF job.parse THEN <<>> ELSE job.taintbits
      \/ job = NoJob /\ taintbits = <<>> /\ phase = "main"
  BY DEF Init
<1>3. taintbits \in Seq(TaintBits)
  BY <1>2, JobTyped, EmptySeq
<1>4. phase \in Launched => job = NoJob
  BY DEF Init, Launched, Filling, Ticking
<1>5. ASSUME phase = "parse"
      PROVE  /\ n <= Len(job.file)
             /\ \A a \in Nat : BlocksTaint(tt, a) = LinesTaint(Prefix(job.file, n), a)
  <2>1. job.file \in Seq(TaintLines)
    BY <1>2, <1>5, JobTyped
  <2>2. 0 <= Len(job.file)
    BY <2>1, LenProperties
  <2>3. ASSUME NEW a \in Nat
        PROVE  BlocksTaint(<<>>, a) = LinesTaint(Prefix(job.file, 0), a)
    BY <2>1, NothingCollected
  <2> QED
    BY <1>1, <2>2, <2>3
<1>6. ASSUME phase = "construct"
      PROVE  /\ n <= Len(taintbits)
             /\ \A a \in Nat : BlocksTaint(tt, a) = BitsTaint(Prefix(taintbits, n), a)
  <2>1. 0 <= Len(taintbits)
    BY <1>3, LenProperties
  <2>2. ASSUME NEW a \in Nat
        PROVE  BlocksTaint(<<>>, a) = BitsTaint(Prefix(taintbits, 0), a)
    BY <1>3, NothingCollected
  <2> QED
    BY <1>1, <2>1, <2>2
<1> QED
  BY <1>1, <1>3, <1>4, <1>5, <1>6, NothingCollected DEF Collected

\* A step that collects nothing: it stops, or it comes after the launch.
LEMMA CollectedKept ==
  ASSUME Collected, UNCHANGED scriptVars,
         phase' = "stopped" \/ (phase \in Launched /\ phase' \in Launched)
  PROVE  Collected'
<1>1. UNCHANGED <<job, tt, taintbits, env>>
  BY DEF scriptVars
<1>2. phase' \notin {"parse", "construct", "add"} /\ (phase' \in Launched => phase \in Launched)
  BY DEF Launched, Filling, Ticking
<1>3. SetupSimEnv(GenTaintLines(tt))' = SetupSimEnv(GenTaintLines(tt))
  BY <1>1 DEF SetupSimEnv
<1> QED
  BY <1>1, <1>2, <1>3 DEF Collected

LEMMA LineParsed ==
  ASSUME Control, Environment, Collected, ParseLine, phase' # "stopped"
  PROVE  Collected'
<1>1. PICK line : line = job.file[n + 1]
  OBVIOUS
<1>2. /\ phase = "parse" /\ phase' = "parse" /\ n < Len(job.file) /\ n' = n + 1
      /\ LineFits(line) /\ tt' = AddTaintLine(tt, line) /\ UNCHANGED <<job, taintbits>>
  BY <1>1 DEF ParseLine, Stop
<1>3. job.file \in Seq(TaintLines) /\ n \in Nat /\ Len(job.file) \in Nat
  BY <1>2, JobTyped, LenProperties DEF Environment, Control
<1>4. PICK mask : mask = Pad(line.mask, line.nbytes)
  OBVIOUS
<1>5. /\ line.addr \in Nat /\ mask \in Seq(Byte)
      /\ \A a \in Nat : LinesTaint(Prefix(job.file, n + 1), a) =
           LinesTaint(Prefix(job.file, n), a) \cup MaskAt(line.addr, mask, a)
  <2>1. line.addr \in Nat /\ mask \in Seq(Byte)
    BY <1>1, <1>2, <1>3, <1>4, LinesGrow
  <2>2. ASSUME NEW a \in Nat
        PROVE  LinesTaint(Prefix(job.file, n + 1), a) =
                 LinesTaint(Prefix(job.file, n), a) \cup MaskAt(line.addr, mask, a)
    <3>1. PICK next : next = n + 1
      OBVIOUS
    <3>2. n < Len(job.file) /\ line = job.file[next]
      BY <1>1, <1>2, <3>1
    <3>3. PICK lines : lines = job.file
      OBVIOUS
    <3>4. lines \in Seq(TaintLines) /\ n \in Nat /\ n < Len(lines) /\ line = lines[next]
      BY <1>3, <3>2, <3>3
    <3>5. LinesTaint(Prefix(lines, next), a) =
            LinesTaint(Prefix(lines, n), a) \cup MaskAt(line.addr, mask, a)
      BY <1>4, <3>1, <3>4, LinesGrow
    <3> QED
      BY <3>1, <3>3, <3>5
  <2> QED
    BY <2>1, <2>2
<1>6. Fits(line.addr, mask) /\ tt' = PrivateAdd(tt, line.addr, mask)
  BY <1>2, <1>4 DEF LineFits, AddTaintLine
<1>7. IsBlocks(tt)
  BY DEF Collected
<1>8. IsBlocks(tt')
  BY <1>5, <1>6, <1>7, AddKeepsBlocks
<1>9. ASSUME NEW a \in Nat
      PROVE  BlocksTaint(tt', a) = LinesTaint(Prefix(job.file, n + 1), a)
  <2>1. BlocksTaint(tt', a) = BlocksTaint(tt, a) \cup MaskAt(line.addr, mask, a)
    BY <1>5, <1>6, <1>7, AddAddsTaint
  <2> QED
    BY <1>2, <1>5, <2>1 DEF Collected
<1>10. n' <= Len(job'.file) /\ taintbits' \in Seq(TaintBits)
  BY <1>2, <1>3 DEF Collected
<1>11. phase' \notin Launched
  BY <1>2 DEF Launched, Filling, Ticking
<1> QED
  BY <1>2, <1>8, <1>9, <1>10, <1>11 DEF Collected

LEMMA TaintbitAdded ==
  ASSUME Control, Environment, Collected, AddTaintbit
  PROVE  Collected'
<1>1. PICK t : t = taintbits[n + 1]
  OBVIOUS
<1>2. /\ phase = "add" /\ phase' = "add" /\ n < Len(taintbits) /\ n' = n + 1
      /\ tt' = AddTuple(tt, t) /\ UNCHANGED <<job, taintbits>>
  BY <1>1 DEF AddTaintbit
<1>3. taintbits \in Seq(TaintBits) /\ n \in Nat /\ Len(taintbits) \in Nat
  BY LenProperties DEF Collected, Control
<1>4. PICK mask : mask = <<t[2]>>
  OBVIOUS
<1>5. t[1] \in Nat /\ mask \in Seq(Byte) /\ Len(mask) = 1
  <2>1. n + 1 \in 1 .. Len(taintbits)
    BY <1>2, <1>3
  <2>2. t \in TaintBits
    BY <1>1, <1>3, <2>1, ElementOfSeq
  <2> QED
    BY <1>4, <2>2 DEF TaintBits
<1>6. ASSUME NEW a \in Nat
      PROVE  BitsTaint(Prefix(taintbits, n + 1), a) =
               BitsTaint(Prefix(taintbits, n), a) \cup MaskAt(t[1], mask, a)
  <2>1. PICK next : next = n + 1
    OBVIOUS
  <2>2. n < Len(taintbits) /\ t = taintbits[next]
    BY <1>1, <1>2, <2>1
  <2>3. BitsTaint(Prefix(taintbits, next), a) =
          BitsTaint(Prefix(taintbits, n), a) \cup MaskAt(t[1], mask, a)
    BY <1>3, <1>4, <2>1, <2>2, BitsGrow
  <2> QED
    BY <2>1, <2>3
<1>7. Fits(t[1], mask) /\ tt' = PrivateAdd(tt, t[1], mask)
  <2>1. t[1] % Alignment \in Offsets
    BY <1>5, BaseProperties
  <2>2. (t[1] % Alignment) + 1 <= Alignment
    BY <2>1, AlignmentAssumption DEF Offsets
  <2> QED
    BY <1>2, <1>4, <1>5, <2>2 DEF Fits, AddTuple
<1>8. IsBlocks(tt)
  BY DEF Collected
<1>9. IsBlocks(tt')
  BY <1>5, <1>7, <1>8, AddKeepsBlocks
<1>10. ASSUME NEW a \in Nat
       PROVE  BlocksTaint(tt', a) = BitsTaint(Prefix(taintbits, n + 1), a)
  <2>1. BlocksTaint(tt', a) = BlocksTaint(tt, a) \cup MaskAt(t[1], mask, a)
    BY <1>5, <1>7, <1>8, AddAddsTaint
  <2> QED
    BY <1>2, <1>6, <2>1 DEF Collected
<1>11. n' <= Len(taintbits')
  BY <1>2, <1>3
<1>12. phase' \notin Launched
  BY <1>2 DEF Launched, Filling, Ticking
<1> QED
  BY <1>2, <1>3, <1>9, <1>10, <1>11, <1>12 DEF Collected

LEMMA CollectedStep ==
  Control /\ Environment /\ Collected /\ [Next]_vars => Collected'
<1> SUFFICES ASSUME Control, Environment, Collected, [Next]_vars PROVE Collected'
  OBVIOUS
<1>1. ASSUME NEW how, Stop(how) PROVE Collected'
  BY <1>1, CollectedKept DEF Stop
<1>2. CASE ParseLine
  BY <1>1, <1>2, LineParsed DEF ParseLine
<1>3. CASE ParseDone
  <2>1. CASE Stop("raised")
    BY <1>1, <2>1
  <2>2. CASE ~Stop("raised")
    <3>1. /\ HasBytes(tt) /\ taintbits' = AsBytes(tt) /\ phase' = "construct" /\ n' = 0
          /\ tt' = <<>>
      BY <1>3, <2>2 DEF ParseDone
    <3>2. taintbits' \in Seq(TaintBits)
      BY <3>1, AsBytesTyped DEF Collected
    <3>3. n' <= Len(taintbits')
      BY <3>1, <3>2, LenProperties
    <3>4. phase' \notin Launched
      BY <3>1 DEF Launched, Filling, Ticking
    <3>5. \A a \in Nat : BlocksTaint(tt', a) = BitsTaint(Prefix(taintbits', 0), a)
      BY <3>1, <3>2, NothingCollected
    <3>6. IsBlocks(tt')
      BY <3>1, NothingCollected
    <3> QED
      BY <3>1, <3>2, <3>3, <3>4, <3>5, <3>6 DEF Collected
  <2> QED
    BY <2>1, <2>2
<1>4. CASE AddTaintbit
  BY <1>4, TaintbitAdded
<1>5. CASE Launch
  <2>1. CASE Stop("raised")
    BY <1>1, <2>1
  <2>2. CASE ~Stop("raised")
    <3>1. /\ phase = "add" /\ n = Len(taintbits) /\ phase' = "main"
          /\ env' = SetupSimEnv(GenTaintLines(tt)) /\ UNCHANGED <<job, tt, taintbits>>
      BY <1>5, <2>2 DEF Launch
    <3>2. SetupSimEnv(GenTaintLines(tt))' = SetupSimEnv(GenTaintLines(tt))
      BY <3>1 DEF SetupSimEnv
    <3>3. Prefix(taintbits, n) = taintbits
      BY <3>1, WholePrefix DEF Collected
    <3> QED
      BY <3>1, <3>2, <3>3 DEF Collected
  <2> QED
    BY <2>1, <2>2
<1>6. CASE Main \/ PickMemory \/ ReadElfSegment \/ ReadElfDone \/ StoreSection \/ StoreTaint
  <2>1. CASE \E how : Stop(how)
    BY <1>1, <2>1
  <2>2. CASE ~\E how : Stop(how)
    <3>1. UNCHANGED scriptVars /\ phase \in Launched /\ phase' \in Launched
      BY <1>6, <2>2 DEF Main, PickMemory, ReadElfSegment, ReadElfDone, StoreSection,
         StoreTaint, Launched, Filling
    <3> QED
      BY <3>1, CollectedKept
  <2> QED
    BY <2>1, <2>2
<1>7. CASE LoadSection \/ LoadDone \/ ReadLine \/ ReadDone \/ LoadTaint \/ MemoryDone
  <2>1. UNCHANGED scriptVars /\ phase \in Launched /\ phase' \in Launched
    BY <1>7 DEF LoadSection, LoadDone, ReadLine, ReadDone, LoadTaint, MemoryDone,
       Launched, Filling, Ticking
  <2> QED
    BY <2>1, CollectedKept
<1>8. CASE Reset \/ TickSimlen \/ TickTrail
  <2>1. UNCHANGED scriptVars /\ phase \in Launched /\ phase' \in Launched
    BY <1>8 DEF Reset, TickSimlen, TickTrail, TickTo, Launched, Ticking
  <2> QED
    BY <2>1, CollectedKept
<1>9. CASE Finish
  BY <1>1, <1>9 DEF Finish
<1>10. CASE Construct
  <2>1. CASE Stop("raised")
    BY <1>1, <2>1
  <2>2. CASE ~Stop("raised")
    <3>1. /\ phase = "construct" /\ phase' = "add"
          /\ UNCHANGED <<n, job, tt, taintbits, env>>
      BY <1>10, <2>2 DEF Construct, scriptVars
    <3> QED
      BY <3>1 DEF Collected, Launched, Filling, Ticking
  <2> QED
    BY <2>1, <2>2
<1>11. CASE UNCHANGED vars
  <2>1. UNCHANGED <<phase, n, job, tt, taintbits, env>>
    BY <1>11 DEF vars, scriptVars
  <2> QED
    BY <2>1 DEF Collected, SetupSimEnv
<1> QED
  BY <1>2, <1>3, <1>4, <1>5, <1>6, <1>7, <1>8, <1>9, <1>10, <1>11 DEF Next

-----------------------------------------------------------------------------
(* The taint files. *)
GoodFile(lines) ==
  /\ IsSequence(lines) /\ GoodLines(lines)
  /\ \A i \in 1 .. Len(lines) : lines[i].addr \in Nat /\ lines[i].mask \in Seq(Byte)

LEMMA LaunchedFiles ==
  ASSUME Environment, Collected, phase \in Launched, NEW m \in Memories
  PROVE  /\ GoodFile(TaintsOf(m))
         /\ job # NoJob => TaintsOf(m) = GenTaintLines(tt)
<1>1. GoodLines(TaintsOf(m))
  BY LaunchedTaints
<1>2. CASE job # NoJob
  <2>1. env.TAINT[m] = {GenTaintLines(tt)} /\ IsBlocks(tt)
    BY <1>2 DEF Collected, SetupSimEnv, Memories
  <2>2. TaintsOf(m) = GenTaintLines(tt)
    BY <2>1 DEF TaintsOf, Unset
  <2>3. ASSUME NEW i \in 1 .. Len(tt)
        PROVE  GenTaintLines(tt)[i].addr \in Nat /\ GenTaintLines(tt)[i].mask \in Seq(Byte)
    <3>1. tt[i].base \in Nat
      BY <2>1 DEF IsBlocks, IsBlock
    <3> QED
      BY <2>1, <3>1, GeneratedLine
  <2>4. IsSequence(GenTaintLines(tt)) /\ Len(GenTaintLines(tt)) = Len(tt)
    BY <2>1, GeneratedLine
  <2> QED
    BY <1>1, <2>2, <2>3, <2>4 DEF GoodFile
<1>3. CASE job = NoJob
  <2>1. env \in Shells
    BY <1>3, JobsAssumption DEF Environment, ScriptEnv, ShellEnv
  <2>2. IsTaintFile(TaintsOf(m))
    <3>1. CASE env.TAINT[m] = Unset
      BY <3>1, TaintFilesAssumption DEF TaintsOf
    <3>2. CASE env.TAINT[m] # Unset
      <4>1. TaintsOf(m) \in env.TAINT[m]
        BY <3>2 DEF TaintsOf, Unset
      <4> QED
        BY <2>1, <4>1, TaintFilesAssumption
    <3> QED
      BY <3>1, <3>2
  <2>3. PICK T : /\ T = [id : Ids, addr : Nat, nbytes : Nat, mask : Seq(Byte), digits : Digits]
                 /\ TaintsOf(m) \in Seq(T)
    BY <2>2 DEF IsTaintFile
  <2>4. \A i \in 1 .. Len(TaintsOf(m)) : TaintsOf(m)[i] \in T
    BY <2>3, ElementOfSeq
  <2>5. \A l \in T : l.addr \in Nat /\ l.mask \in Seq(Byte)
    BY <2>3
  <2>6. IsSequence(TaintsOf(m))
    BY <2>3 DEF IsSequence
  <2> QED
    BY <1>1, <1>3, <2>4, <2>5, <2>6 DEF GoodFile
<1> QED
  BY <1>2, <1>3

\* Where no two lines speak of a byte, one line says what there is to say of it.
LEMMA OneLine ==
  ASSUME NEW lines, GoodFile(lines), Disjoint(lines), NEW a \in Nat,
         NEW i \in 1 .. Len(lines), TaintedBy(lines[i], a),
         NEW j \in 1 .. Len(lines), TaintedBy(lines[j], a)
  PROVE  i = j
<1>1. /\ lines[i].addr \in Nat /\ lines[i].nbytes \in Nat
      /\ lines[j].addr \in Nat /\ lines[j].nbytes \in Nat
  BY DEF GoodFile, GoodLines
<1>2. /\ lines[i].addr <= a /\ a < lines[i].addr + lines[i].nbytes
      /\ lines[j].addr <= a /\ a < lines[j].addr + lines[j].nbytes
  <2>1. \A b, k \in Nat : a - b \in 0 .. (k - 1) => b <= a /\ a < b + k
    OBVIOUS
  <2> QED
    BY <1>1, <2>1 DEF TaintedBy
<1>3. \/ i = j
      \/ lines[i].addr + lines[i].nbytes <= lines[j].addr
      \/ lines[j].addr + lines[j].nbytes <= lines[i].addr
  BY DEF Disjoint
<1> QED
  BY <1>1, <1>2, <1>3

\* A line of a disjoint file shares its section with no other.
LEMMA OwnSection ==
  ASSUME NEW lines, Disjoint(lines), NEW i \in 1 .. Len(lines), NEW j \in 1 .. Len(lines),
         lines[i].addr = lines[j].addr
  PROVE  i = j
BY DEF Disjoint

LEMMA TaintOfLine ==
  ASSUME NEW lines, GoodFile(lines), NEW a \in Nat,
         NEW i \in 1 .. Len(lines), TaintedBy(lines[i], a)
  PROVE  lines[i].nbytes # 0
<1>1. lines[i].addr \in Nat /\ lines[i].nbytes \in Nat
  BY DEF GoodFile, GoodLines
<1> QED
  BY <1>1 DEF TaintedBy

LEMMA WholeTaint ==
  ASSUME NEW lines, GoodFile(lines), Disjoint(lines), NEW content,
         IsPartlyTainted(lines, content),
         \A i \in 1 .. Len(lines) : ~Heard(lines[i]) /\ ~Requested(lines[i])
  PROVE  IsTainted(lines, content)
<1> SUFFICES ASSUME NEW a \in Addresses, NEW x
             PROVE  x \in content[a] <=> x \in LinesTaint(lines, a)
  BY DEF IsTainted
<1>1. a \in Nat
  BY DEF Addresses
<1>2. x \in LinesTaint(lines, a) <=>
        \E i \in 1 .. Len(lines) :
          /\ TaintedBy(lines[i], a)
          /\ x \in Pad(lines[i].mask, lines[i].nbytes)[a - lines[i].addr + 1]
  BY InLines DEF GoodFile
<1>3. CASE \E i \in 1 .. Len(lines) : TaintedBy(lines[i], a)
  <2>1. PICK i \in 1 .. Len(lines) : TaintedBy(lines[i], a)
    BY <1>3
  <2>2. content[a] = TaintOf(lines[i], a)
    BY <2>1 DEF IsPartlyTainted
  <2>3. \A j \in 1 .. Len(lines) : TaintedBy(lines[j], a) => j = i
    BY <1>1, <2>1, OneLine
  <2> QED
    BY <1>2, <2>1, <2>2, <2>3 DEF TaintOf
<1>4. CASE ~\E i \in 1 .. Len(lines) : TaintedBy(lines[i], a)
  BY <1>2, <1>4 DEF IsPartlyTainted
<1> QED
  BY <1>3, <1>4
-----------------------------------------------------------------------------
(* The masks and the clock have their types. *)
LEMMA MaskTypesInit == Init => MaskTypes
BY DEF Init, TaintInit, MaskTypes

LEMMA MasksKept ==
  ASSUME [Next]_vars
  PROVE  ReadLine \/ UNCHANGED taint_assignments
<1> USE DEF taintVars
<1>1. CASE ParseLine \/ ParseDone \/ Construct \/ AddTaintbit \/ Launch \/ Main \/ PickMemory
  BY <1>1 DEF ParseLine, ParseDone, Construct, AddTaintbit, Launch, Main, PickMemory, Stop
<1>2. CASE ReadElfSegment \/ ReadElfDone \/ LoadSection \/ StoreSection \/ LoadDone
  BY <1>2 DEF ReadElfSegment, ReadElfDone, LoadSection, StoreSection, LoadDone, Stop
<1>3. CASE ReadDone \/ LoadTaint \/ StoreTaint \/ MemoryDone
  BY <1>3 DEF ReadDone, LoadTaint, GetTaintSection, StoreTaint, MemoryDone, Stop
<1>4. CASE Reset \/ TickSimlen \/ TickTrail \/ Finish
  BY <1>4 DEF Reset, TickSimlen, TickTrail, TickTo, Finish, Stop
<1>5. CASE UNCHANGED vars
  BY <1>5 DEF vars
<1> QED
  BY <1>1, <1>2, <1>3, <1>4, <1>5 DEF Next

LEMMA CurrentLine ==
  ASSUME Control, Environment, Collected, ReadLine
  PROVE  LET line == TaintsOf(mem)[n + 1]
         IN  /\ ReadTaintLine(line) /\ n + 1 \in 1 .. Len(TaintsOf(mem))
             /\ line.id \in Ids /\ line.addr \in Nat /\ line.mask \in Seq(Byte)
<1>1. phase = "lines" /\ n < Len(TaintsOf(mem)) /\ ReadTaintLine(TaintsOf(mem)[n + 1])
  BY DEF ReadLine
<1>2. mem \in Memories /\ phase \in Launched /\ n \in Nat
  BY <1>1 DEF Control, Filling, Launched
<1>3. GoodFile(TaintsOf(mem))
  BY <1>2, LaunchedFiles
<1>4. n + 1 \in 1 .. Len(TaintsOf(mem))
  BY <1>1, <1>2, <1>3 DEF GoodFile, GoodLines
<1> QED
  BY <1>1, <1>3, <1>4 DEF GoodFile, GoodLines

LEMMA MaskTypesStep ==
  Control /\ Environment /\ Collected /\ TaintTables /\ MaskTypes /\ [Next]_vars => MaskTypes'
<1> SUFFICES ASSUME Control, Environment, Collected, TaintTables, MaskTypes, [Next]_vars
             PROVE  MaskTypes'
  OBVIOUS
<1>1. CASE UNCHANGED taint_assignments
  BY <1>1 DEF MaskTypes
<1>2. CASE ReadLine
  <2>1. PICK line : line = TaintsOf(mem)[n + 1]
    OBVIOUS
  <2>2. ReadTaintLine(line) /\ line.id \in Ids /\ line.mask \in Seq(Byte)
    BY <1>2, <2>1, CurrentLine
  <2>3. \A id \in Ids : id # line.id => taint_assignments'[id] = taint_assignments[id]
    BY <2>2, LineRecorded
  <2>4. /\ DOMAIN taint_assignments'[line.id] =
             DOMAIN taint_assignments[line.id] \cup {line.addr}
        /\ taint_assignments'[line.id][line.addr].mask = line.mask
        /\ \A a \in DOMAIN taint_assignments[line.id] : a # line.addr =>
             taint_assignments'[line.id][a] = taint_assignments[line.id][a]
    BY <2>2, LineRecorded
  <2>5. ASSUME NEW a \in DOMAIN taint_assignments'[line.id]
        PROVE  taint_assignments'[line.id][a].mask \in Seq(Byte)
    BY <2>2, <2>4 DEF MaskTypes
  <2>6. ASSUME NEW id \in Ids, id # line.id, NEW a \in DOMAIN taint_assignments'[id]
        PROVE  taint_assignments'[id][a].mask \in Seq(Byte)
    BY <2>3, <2>6 DEF MaskTypes
  <2> QED
    BY <2>5, <2>6 DEF MaskTypes
<1> QED
  BY <1>1, <1>2, MasksKept

LEMMA TimedInit == Init => Timed
BY DEF Init, Timed, Launched, Filling, Ticking

LEMMA TimedStep == Control /\ Environment /\ Timed /\ [Next]_vars => Timed'
<1> SUFFICES ASSUME Control, Environment, Timed, [Next]_vars PROVE Timed'
  OBVIOUS
<1> USE DEF Launched, Filling, Ticking, scriptVars
<1>1. ASSUME UNCHANGED <<ticks, env>>, phase' \notin Launched \ {"main"}
             \/ phase \in Launched \ {"main"}
      PROVE  Timed'
  BY <1>1 DEF Timed
<1>2. ASSUME NEW how, Stop(how) PROVE Timed'
  BY <1>1, <1>2 DEF Stop
<1>3. CASE ParseLine \/ ParseDone \/ Construct \/ AddTaintbit \/ Launch
  <2>1. CASE \E how : Stop(how)
    BY <1>2, <2>1
  <2>2. CASE ~\E how : Stop(how)
    <3>1. UNCHANGED ticks /\ phase' \notin Launched \ {"main"}
      BY <1>3, <2>2 DEF ParseLine, ParseDone, Construct, AddTaintbit, Launch
    <3> QED
      BY <3>1 DEF Timed
  <2> QED
    BY <2>1, <2>2
<1>4. CASE Main
  <2>1. CASE \E how : Stop(how)
    BY <1>2, <2>1
  <2>2. CASE ~\E how : Stop(how)
    <3>1. PICK simlen \in env.SIMLEN :
            /\ LeadTicks >= 0 /\ simlen > LeadTicks /\ phase = "main"
            /\ UNCHANGED <<ticks, env>>
      BY <1>4, <2>2 DEF Main
    <3>2. \A k \in env.SIMLEN : k = simlen
      <4>1. CASE ScriptEnv
        BY <4>1 DEF ScriptEnv, SetupSimEnv
      <4>2. CASE ShellEnv
        BY <4>2, TicksAssumption DEF ShellEnv
      <4> QED
        BY <3>1, <4>1, <4>2 DEF Environment
    <3> QED
      BY <3>1, <3>2 DEF Timed
  <2> QED
    BY <2>1, <2>2
<1>5. CASE PickMemory \/ ReadElfSegment \/ ReadElfDone \/ StoreSection \/ StoreTaint
  <2>1. CASE \E how : Stop(how)
    BY <1>2, <2>1
  <2>2. CASE ~\E how : Stop(how)
    <3>1. UNCHANGED <<ticks, env>> /\ phase \in Launched \ {"main"}
      BY <1>5, <2>2 DEF PickMemory, ReadElfSegment, ReadElfDone, StoreSection, StoreTaint
    <3> QED
      BY <1>1, <3>1
  <2> QED
    BY <2>1, <2>2
<1>6. CASE LoadSection \/ LoadDone \/ ReadLine \/ ReadDone \/ LoadTaint \/ MemoryDone
  <2>1. UNCHANGED <<ticks, env>> /\ phase \in Launched \ {"main"}
    BY <1>6 DEF LoadSection, LoadDone, ReadLine, ReadDone, LoadTaint, MemoryDone
  <2> QED
    BY <1>1, <2>1
<1>7. CASE Reset \/ TickTrail
  <2>1. /\ UNCHANGED env /\ phase \in Launched \ {"main"}
        /\ ticks' = ticks + LeadTicks \/ ticks' = ticks + TrailTicks
    BY <1>7 DEF Reset, TickTrail, TickTo
  <2>2. ticks' \in Nat
    BY <2>1, TicksAssumption DEF Timed
  <2> QED
    BY <2>1, <2>2 DEF Timed
<1>8. CASE TickSimlen
  <2>1. PICK simlen \in env.SIMLEN :
          /\ ticks' = ticks + (simlen - LeadTicks) /\ UNCHANGED env /\ phase = "tick"
    BY <1>8 DEF TickSimlen, TickTo, SimLengthCycles
  <2>2. simlen \in Int /\ simlen > LeadTicks /\ LeadTicks \in Int /\ ticks \in Nat
    BY <2>1, LaunchedEnv, TicksAssumption DEF Timed
  <2>3. ticks' \in Nat
    BY <2>1, <2>2
  <2> QED
    BY <2>1, <2>3 DEF Timed
<1>9. CASE Finish
  BY <1>2, <1>9 DEF Finish
<1>10. CASE UNCHANGED vars
  BY <1>10 DEF vars, Timed
<1> QED
  BY <1>3, <1>4, <1>5, <1>6, <1>7, <1>8, <1>9, <1>10 DEF Next

-----------------------------------------------------------------------------
(* The taint of the memories. *)
LEMMA TaintImagesInit == Init => TaintImages
<1> SUFFICES ASSUME Init PROVE TaintImages
  OBVIOUS
<1>1. taint = [m \in Memories |-> [a \in Addresses |-> {}]] /\ {} \in Byte
  BY DEF Init, Byte
<1>2. taint \in [Memories -> [Addresses -> Byte]]
  BY <1>1
<1>3. \A m \in Memories : Untainted(taint[m])
  BY <1>1 DEF Untainted
<1>4. todo = Memories /\ phase \in {"parse", "construct", "main"}
  BY DEF Init
<1> QED
  BY <1>2, <1>3, <1>4 DEF TaintImages, Filling

\* The memories that are done stay as they are, whatever happens to the current one.
DoneTainted ==
  phase \in Launched => \A m \in Memories \ todo :
    (phase \in Filling => m # mem) /\ Disjoint(TaintsOf(m)) => IsTainted(TaintsOf(m), taint[m])

LEMMA DoneKept ==
  ASSUME Control, TaintImages, UNCHANGED env, phase \in Launched,
         \A m \in Memories \ todo' : (phase' \in Filling => m # mem') =>
           /\ m \in Memories \ todo /\ (phase \in Filling => m # mem)
           /\ taint'[m] = taint[m]
  PROVE  DoneTainted'
<1>1. ASSUME NEW m \in Memories \ todo', phase' \in Filling => m # mem',
             Disjoint(TaintsOf(m))'
      PROVE  IsTainted(TaintsOf(m), taint[m])'
  <2>1. TaintsOf(m)' = TaintsOf(m)
    BY DEF TaintsOf
  <2>2. Disjoint(TaintsOf(m)) /\ taint'[m] = taint[m]
    BY <1>1, <2>1 DEF Disjoint
  <2>3. IsTainted(TaintsOf(m), taint[m])
    BY <1>1, <2>2 DEF TaintImages
  <2> QED
    BY <2>1, <2>2, <2>3 DEF IsTainted
<1> QED
  BY <1>1 DEF DoneTainted

\* A step outside the taint files.
LEMMA TaintImagesKept ==
  ASSUME Control, TaintImages, UNCHANGED <<taint, todo>>,
         phase \notin {"parse", "construct", "add"} => UNCHANGED env,
         \/ phase \in Launched \ Filling /\ phase' \in Launched \ Filling
         \/ todo = Memories /\ phase \in Phases /\ phase' \in Phases \ Filling
         \/ phase \in {"segments", "load"} /\ phase' \in {"segments", "load"} /\ UNCHANGED mem
  PROVE  TaintImages'
<1> USE DEF Phases, Launched, Filling, Ticking
<1>1. DoneTainted'
  <2>1. CASE phase \in Launched
    BY <2>1, DoneKept DEF Control
  <2>2. CASE phase \notin Launched
    BY <2>2 DEF DoneTainted, Control
  <2> QED
    BY <2>1, <2>2
<1>2. /\ taint' \in [Memories -> [Addresses -> Byte]]
      /\ \A m \in todo' : Untainted(taint[m])'
      /\ phase' \in Filling => Untainted(taint[mem])'
  BY DEF TaintImages, Untainted
<1>3. phase' \notin {"lines", "taints"}
  OBVIOUS
<1> QED
  BY <1>1, <1>2, <1>3 DEF TaintImages, DoneTainted

\* A line of the file is recorded: it waits, with its mask.
LEMMA TaintLineRead ==
  ASSUME Control, Environment, Collected, TaintTables, TaintImages, ReadLine
  PROVE  TaintImages'
<1>1. /\ phase = "lines" /\ phase' = "lines" /\ n' = n + 1
      /\ UNCHANGED <<env, mem, todo, taint>>
  BY DEF ReadLine, scriptVars, memVars
<1>2. mem \in Memories /\ phase \in Launched /\ n \in Nat
  BY <1>1 DEF Control, Filling, Launched
<1>3. PICK lines : lines = TaintsOf(mem)
  OBVIOUS
<1>4. TaintsOf(mem)' = lines /\ GoodFile(lines)
  BY <1>1, <1>2, <1>3, LaunchedFiles DEF TaintsOf
<1>5. PICK line : line = lines[n + 1]
  OBVIOUS
<1>6. ReadTaintLine(line) /\ n + 1 \in 1 .. Len(lines) /\ line.id \in Ids
  BY <1>3, <1>5, CurrentLine
<1>7. /\ taint_section_index' = taint_section_index
      /\ \A id \in Ids : id # line.id =>
           /\ taint_sections'[id] = taint_sections[id]
           /\ taint_assignments'[id] = taint_assignments[id]
  BY <1>6, LineRecorded
<1>8. /\ Len(taint_sections'[line.id]) = Len(taint_sections[line.id]) + 1
      /\ \A i \in 1 .. Len(taint_sections[line.id]) :
           taint_sections'[line.id][i] = taint_sections[line.id][i]
      /\ taint_sections'[line.id][Len(taint_sections[line.id]) + 1].addr = line.addr
  <2>1. /\ Len(taint_sections'[line.id]) = Len(taint_sections[line.id]) + 1
        /\ \A i \in 1 .. Len(taint_sections[line.id]) :
             taint_sections'[line.id][i] = taint_sections[line.id][i]
        /\ taint_sections'[line.id][Len(taint_sections[line.id]) + 1] =
             [addr |-> line.addr, len |-> line.nbytes]
    BY <1>6, LineRecorded
  <2> QED
    BY <2>1
<1>9. /\ DOMAIN taint_assignments'[line.id] =
           DOMAIN taint_assignments[line.id] \cup {line.addr}
      /\ taint_assignments'[line.id][line.addr].mask = line.mask
      /\ \A a \in DOMAIN taint_assignments[line.id] : a # line.addr =>
           taint_assignments'[line.id][a] = taint_assignments[line.id][a]
  BY <1>6, LineRecorded
<1>10. \A id \in Ids : /\ Len(taint_sections[id]) \in Nat /\ taint_section_index[id] \in Nat
                      /\ taint_section_index[id] <= Len(taint_sections[id])
  BY SequenceLength DEF TaintTables
<1>11. MaskKept(line)'
  BY <1>9 DEF MaskKept
<1>12. Heard(line)'
  <2>1. Len(taint_sections[line.id]) + 1 \in
          taint_section_index'[line.id] + 1 .. Len(taint_sections'[line.id])
    BY <1>6, <1>7, <1>8, <1>10
  <2> QED
    BY <1>8, <2>1 DEF Heard
<1>13. ASSUME NEW l, l.id \in Ids, Heard(l) PROVE Heard(l)'
  <2>1. PICK k \in taint_section_index[l.id] + 1 .. Len(taint_sections[l.id]) :
          taint_sections[l.id][k].addr = l.addr
    BY <1>13 DEF Heard
  <2>2. CASE l.id # line.id
    BY <1>7, <1>13, <2>1, <2>2 DEF Heard
  <2>3. CASE l.id = line.id
    <3>1. /\ k \in taint_section_index'[l.id] + 1 .. Len(taint_sections'[l.id])
          /\ k \in 1 .. Len(taint_sections[l.id])
      BY <1>7, <1>8, <1>10, <1>13, <2>1, <2>3
    <3> QED
      BY <1>8, <2>1, <2>3, <3>1 DEF Heard
  <2> QED
    BY <2>2, <2>3
<1>14. ASSUME NEW l, l.id \in Ids, MaskKept(l), l.id # line.id \/ l.addr # line.addr
       PROVE  MaskKept(l)'
  BY <1>7, <1>9, <1>14 DEF MaskKept
<1>15. ASSUME Disjoint(lines), NEW i \in 1 .. n + 1, lines[i].nbytes # 0
       PROVE  MaskKept(lines[i])' /\ Heard(lines[i])'
  <2>1. CASE i = n + 1
    BY <1>5, <1>11, <1>12, <2>1
  <2>2. CASE i # n + 1
    <3>1. i \in 1 .. n /\ i \in 1 .. Len(lines)
      BY <1>2, <1>6, <2>2
    <3>2. MaskKept(lines[i]) /\ Heard(lines[i])
      BY <1>1, <1>3, <1>15, <3>1 DEF TaintImages
    <3>3. lines[i].id \in Ids
      BY <1>4, <3>1 DEF GoodFile, GoodLines
    <3>4. lines[i].addr # line.addr
      BY <1>5, <1>6, <1>15, <2>2, <3>1, OwnSection
    <3> QED
      BY <1>13, <1>14, <3>2, <3>3, <3>4
  <2> QED
    BY <2>1, <2>2
<1>16. n' <= Len(lines)
  BY <1>1, <1>2, <1>4, <1>6 DEF GoodFile, GoodLines
<1>17. DoneTainted'
  BY <1>1, <1>2, DoneKept DEF Control
<1>18. /\ taint' \in [Memories -> [Addresses -> Byte]]
       /\ \A m \in todo' : Untainted(taint[m])'
       /\ Untainted(taint[mem])'
  BY <1>1 DEF TaintImages, Untainted, Phases, Launched, Filling
<1>19. Disjoint(TaintsOf(mem))' => Disjoint(lines)
  BY <1>4 DEF Disjoint
<1> QED
  BY <1>1, <1>4, <1>15, <1>16, <1>17, <1>18, <1>19 DEF TaintImages, DoneTainted

\* The next section of the current file is asked for.
LEMMA TaintAskedFor ==
  ASSUME Control, Environment, Collected, TaintTables, TaintImages, LoadTaint
  PROVE  TaintImages'
<1>1. PICK id \in Ids :
        /\ phase = "taints" /\ phase' = "taints" /\ request = NoRequest
        /\ UNCHANGED <<env, mem, todo, taint>> /\ GetTaintSection(id)
        /\ request' = [id |-> id, addr |-> NextSection(id).addr, len |-> NextSection(id).len]
  BY DEF LoadTaint, scriptVars, memVars
<1>2. /\ taint_section_index[id] < Len(taint_sections[id])
      /\ taint_section_index' = [taint_section_index EXCEPT ![id] = @ + 1]
      /\ taint_sections' = taint_sections /\ taint_assignments' = taint_assignments
  BY <1>1 DEF GetTaintSection, MoreSections
<1>3. \A i \in Ids : Len(taint_sections[i]) \in Nat /\ taint_section_index[i] \in Nat
  BY SequenceLength DEF TaintTables
<1>4. /\ taint_section_index'[id] = taint_section_index[id] + 1
      /\ \A i \in Ids : i # id => taint_section_index'[i] = taint_section_index[i]
  BY <1>2, <1>3 DEF TaintTables
<1>5. request' # NoRequest
  <2>1. -1 \notin Ids
    BY DEF Ids
  <2> QED
    BY <1>1, <2>1 DEF NoRequest
<1>6. PICK lines : lines = TaintsOf(mem)
  OBVIOUS
<1>7. mem \in Memories /\ phase \in Launched
  BY <1>1 DEF Control, Filling, Launched
<1>8. TaintsOf(mem)' = lines /\ GoodFile(lines)
  BY <1>1, <1>6, <1>7, LaunchedFiles DEF TaintsOf
<1>9. ASSUME NEW l, l.id \in Ids, Heard(l) PROVE Heard(l)' \/ Requested(l)'
  <2>1. PICK k \in taint_section_index[l.id] + 1 .. Len(taint_sections[l.id]) :
          taint_sections[l.id][k].addr = l.addr
    BY <1>9 DEF Heard
  <2>2. CASE l.id = id /\ k = taint_section_index[id] + 1
    BY <1>1, <1>5, <2>1, <2>2 DEF Requested, NextSection
  <2>3. CASE l.id # id \/ k # taint_section_index[id] + 1
    <3>1. k \in taint_section_index'[l.id] + 1 .. Len(taint_sections'[l.id])
      BY <1>2, <1>3, <1>4, <1>9, <2>1, <2>3
    <3> QED
      BY <1>2, <2>1, <3>1 DEF Heard
  <2> QED
    BY <2>2, <2>3
<1>10. \E i \in 1 .. Len(lines) :
         Requested(lines[i])' /\ lines[i].nbytes = request'.len
  <2>1. taint_section_index[id] + 1 \in taint_section_index[id] + 1 .. Len(taint_sections[id])
    BY <1>2, <1>3
  <2>2. TaintExpected(id, NextSection(id))
    BY <1>1, <2>1 DEF TaintTables, NextSection
  <2>3. PICK i \in 1 .. Len(lines) : /\ lines[i].id = id /\ lines[i].addr = NextSection(id).addr
                                    /\ lines[i].nbytes = NextSection(id).len
    BY <1>6, <2>2 DEF TaintExpected, HasLine, IsLineAt
  <2> QED
    BY <1>1, <1>5, <2>3 DEF Requested
<1>11. ASSUME Disjoint(lines) PROVE IsPartlyTainted(lines, taint[mem])'
  <2>1. IsPartlyTainted(lines, taint[mem])
    BY <1>1, <1>6, <1>11 DEF TaintImages
  <2>2. ASSUME NEW a \in Addresses, NEW i \in 1 .. Len(lines), TaintedBy(lines[i], a)
        PROVE  \/ taint[mem][a] = TaintOf(lines[i], a)
               \/ Heard(lines[i])' \/ Requested(lines[i])'
    <3>1. lines[i].id \in Ids /\ ~Requested(lines[i])
      BY <1>1, <1>8 DEF GoodFile, GoodLines, Requested
    <3> QED
      BY <1>9, <2>1, <2>2, <3>1 DEF IsPartlyTainted
  <2>3. \A a \in Addresses : (\A i \in 1 .. Len(lines) : ~TaintedBy(lines[i], a))
                               => taint[mem][a] = {}
    BY <2>1 DEF IsPartlyTainted
  <2> QED
    BY <1>1, <2>2, <2>3 DEF IsPartlyTainted, TaintedBy, TaintOf
<1>12. ASSUME Disjoint(lines), NEW i \in 1 .. Len(lines), lines[i].nbytes # 0
       PROVE  MaskKept(lines[i])'
  BY <1>1, <1>2, <1>6, <1>12 DEF TaintImages, MaskKept
<1>13. DoneTainted'
  BY <1>1, <1>7, DoneKept DEF Control
<1>14. /\ taint' \in [Memories -> [Addresses -> Byte]]
       /\ \A m \in todo' : Untainted(taint[m])'
  BY <1>1 DEF TaintImages, Untainted, Phases, Launched, Filling
<1>15. Disjoint(TaintsOf(mem))' => Disjoint(lines)
  BY <1>8 DEF Disjoint
<1> QED
  BY <1>1, <1>8, <1>10, <1>11, <1>12, <1>13, <1>14, <1>15
     DEF TaintImages, DoneTainted, Filling

\* What read_taint_section puts into the buffer of a requested section.
LEMMA TaintArrives ==
  ASSUME Control, Environment, TaintTables, MaskTypes, phase = "taints", request # NoRequest
  PROVE  LET mask == taint_assignments[request.id][request.addr].mask
             zeros == [j \in 1 .. request.len |-> {}]
         IN  /\ request.len \in Nat
             /\ \A j \in 1 .. request.len :
                  /\ ReadTaintSection(request.id, request.addr, zeros)[j] =
                       Pad(mask, request.len)[j]
                  /\ Pad(mask, request.len)[j] \in Byte
<1>1. PICK mask : mask = taint_assignments[request.id][request.addr].mask
  OBVIOUS
<1>2. /\ request.id \in Ids /\ HasLine(request.id, request)
      /\ request.addr \in DOMAIN taint_assignments[request.id]
  BY DEF TaintTables, TaintExpected, HasMask
<1>3. mask \in Seq(Byte)
  BY <1>1, <1>2 DEF MaskTypes
<1>4. request.len \in Nat
  <2>1. GoodLines(TaintsOf(mem))
    BY LaunchedTaints DEF Control, Launched, Filling
  <2> QED
    BY <1>2, <2>1 DEF HasLine, GoodLines
<1>5. PICK zeros : zeros = [j \in 1 .. request.len |-> {}]
  OBVIOUS
<1>6. Len(zeros) = request.len
  <2>1. zeros = [j \in 1 .. request.len |-> zeros[j]]
    BY <1>5
  <2> QED
    BY <1>4, <2>1, SequenceOf
<1>7. ReadTaintSection(request.id, request.addr, zeros) =
        [j \in 1 .. request.len |-> IF j <= Len(mask) THEN mask[j] ELSE zeros[j]]
  BY <1>1, <1>6 DEF ReadTaintSection
<1>8. \A j \in 1 .. request.len :
        Pad(mask, request.len)[j] = IF j <= Len(mask) THEN mask[j] ELSE zeros[j]
  BY <1>3, <1>4, <1>5, LenProperties DEF Pad
<1>9. \A j \in 1 .. request.len : Pad(mask, request.len)[j] \in Byte
  BY <1>3, <1>4, PadProperties, ElementOfSeq
<1> QED
  BY <1>1, <1>4, <1>5, <1>7, <1>8, <1>9

\* The requested section is stored: its line no longer waits.
LEMMA TaintStored ==
  ASSUME Control, Environment, Collected, TaintTables, MaskTypes, TaintImages,
         StoreTaint, phase' # "stopped"
  PROVE  TaintImages'
<1>1. PICK zeros : zeros = [j \in 1 .. request.len |-> {}]
  OBVIOUS
<1>2. /\ phase = "taints" /\ phase' = "taints" /\ request # NoRequest
      /\ request' = NoRequest /\ UNCHANGED <<env, mem, todo, taintVars>>
      /\ taint' = [taint EXCEPT ![mem] =
                     Stored(@, ReadTaintSection(request.id, request.addr, zeros))]
  BY <1>1 DEF StoreTaint, Stop, scriptVars
<1>3. mem \in Memories /\ mem \notin todo /\ phase \in Launched
  BY <1>2 DEF Control, Filling, Launched
<1>4. PICK mask : mask = taint_assignments[request.id][request.addr].mask
  OBVIOUS
<1>5. /\ request.len \in Nat
      /\ \A j \in 1 .. request.len :
           /\ ReadTaintSection(request.id, request.addr, zeros)[j] =
                Pad(mask, request.len)[j]
           /\ Pad(mask, request.len)[j] \in Byte
  BY <1>1, <1>2, <1>4, TaintArrives
<1>6. PICK old : old = taint[mem]
  OBVIOUS
<1>7. PICK new : new = Stored(old, ReadTaintSection(request.id, request.addr, zeros))
  OBVIOUS
<1>8. taint \in [Memories -> [Addresses -> Byte]] /\ old \in [Addresses -> Byte]
  BY <1>3, <1>6 DEF TaintImages
<1>9. ASSUME NEW a \in Addresses
      PROVE  /\ a - request.addr \in 0 .. (request.len - 1) =>
                  /\ new[a] = Pad(mask, request.len)[a - request.addr + 1]
                  /\ new[a] \in Byte
             /\ a - request.addr \notin 0 .. (request.len - 1) => new[a] = old[a]
  <2>1. new[a] = IF a - request.addr \in 0 .. (request.len - 1)
                   THEN ReadTaintSection(request.id, request.addr, zeros)[a - request.addr + 1]
                   ELSE old[a]
    BY <1>7 DEF Stored
  <2>2. \A d \in 0 .. (request.len - 1) : d + 1 \in 1 .. request.len
    BY <1>5
  <2> QED
    BY <1>5, <2>1, <2>2
<1>10. new \in [Addresses -> Byte]
  <2>1. new = [a \in Addresses |-> new[a]]
    BY <1>7 DEF Stored
  <2>2. \A a \in Addresses : new[a] \in Byte
    BY <1>8, <1>9
  <2> QED
    BY <2>1, <2>2
<1>11. taint' = [taint EXCEPT ![mem] = new]
  BY <1>2, <1>6, <1>7
<1>12. /\ taint'[mem] = new
       /\ \A m \in Memories : m # mem => taint'[m] = taint[m]
       /\ taint' \in [Memories -> [Addresses -> Byte]]
  BY <1>3, <1>8, <1>10, <1>11
<1>13. PICK lines : lines = TaintsOf(mem)
  OBVIOUS
<1>14. TaintsOf(mem)' = lines /\ GoodFile(lines)
  BY <1>2, <1>3, <1>13, LaunchedFiles DEF TaintsOf
<1>15. ASSUME Disjoint(lines) PROVE IsPartlyTainted(lines, taint[mem])'
  <2>1. /\ IsPartlyTainted(lines, old)
        /\ \A i \in 1 .. Len(lines) : lines[i].nbytes # 0 => MaskKept(lines[i])
    BY <1>2, <1>6, <1>13, <1>15 DEF TaintImages
  <2>2. PICK i \in 1 .. Len(lines) : Requested(lines[i]) /\ lines[i].nbytes = request.len
    BY <1>2, <1>13, <1>15 DEF TaintImages
  <2>3. lines[i].id = request.id /\ lines[i].addr = request.addr
    BY <2>2 DEF Requested
  <2>4. \A a \in Addresses : TaintedBy(lines[i], a) <=>
                               a - request.addr \in 0 .. (request.len - 1)
    BY <2>2, <2>3 DEF TaintedBy
  <2>5. ASSUME NEW a \in Addresses, NEW q \in 1 .. Len(lines), TaintedBy(lines[q], a)
        PROVE  \/ new[a] = TaintOf(lines[q], a)
               \/ Heard(lines[q])'
    <3>1. a \in Nat
      BY DEF Addresses
    <3>2. CASE q = i
      <4>1. lines[i].nbytes # 0
        BY <1>14, <2>5, <3>1, <3>2, TaintOfLine
      <4>2. mask = lines[i].mask
        BY <1>4, <2>1, <2>3, <4>1 DEF MaskKept
      <4> QED
        BY <1>9, <2>2, <2>3, <2>4, <2>5, <3>2, <4>2 DEF TaintOf
    <3>3. CASE q # i
      <4>1. ~TaintedBy(lines[i], a)
        BY <1>14, <1>15, <2>5, <3>1, <3>3, OneLine
      <4>2. new[a] = old[a]
        BY <1>9, <2>4, <4>1
      <4>3. ~Requested(lines[q])
        <5>1. lines[q].addr # lines[i].addr
          BY <1>15, <3>3, OwnSection
        <5> QED
          BY <2>3, <5>1 DEF Requested
      <4>4. \/ old[a] = TaintOf(lines[q], a)
            \/ Heard(lines[q])
        BY <2>1, <2>5, <4>3 DEF IsPartlyTainted
      <4> QED
        BY <1>2, <4>2, <4>4 DEF Heard, taintVars
    <3> QED
      BY <3>2, <3>3
  <2>6. ASSUME NEW a \in Addresses, \A q \in 1 .. Len(lines) : ~TaintedBy(lines[q], a)
        PROVE  new[a] = {}
    BY <1>9, <2>1, <2>4, <2>6 DEF IsPartlyTainted
  <2>7. taint'[mem'] = new
    BY <1>2, <1>12
  <2> QED
    BY <2>5, <2>6, <2>7 DEF IsPartlyTainted, TaintedBy, TaintOf
<1>16. ASSUME Disjoint(lines), NEW i \in 1 .. Len(lines), lines[i].nbytes # 0
       PROVE  MaskKept(lines[i])'
  BY <1>2, <1>13, <1>16 DEF TaintImages, MaskKept, taintVars
<1>17. DoneTainted'
  BY <1>2, <1>3, <1>12, DoneKept DEF Filling
<1>18. \A m \in todo' : Untainted(taint[m])'
  <2>1. \A m \in todo : Untainted(taint[m])
    BY <1>3 DEF TaintImages, Phases
  <2>2. \A m \in todo : m \in Memories /\ m # mem
    BY <1>3 DEF Control
  <2> QED
    BY <1>2, <1>12, <2>1, <2>2 DEF Untainted
<1>19. Disjoint(TaintsOf(mem))' => Disjoint(lines)
  BY <1>14 DEF Disjoint
<1> QED
  BY <1>2, <1>12, <1>14, <1>15, <1>16, <1>17, <1>18, <1>19
     DEF TaintImages, DoneTainted, Filling

LEMMA TaintImagesStep ==
  /\ Control /\ Environment /\ Collected /\ TaintTables /\ MaskTypes /\ TaintImages
  /\ [Next]_vars
  => TaintImages'
<1> SUFFICES ASSUME Control, Environment, Collected, TaintTables, MaskTypes, TaintImages,
                    [Next]_vars
             PROVE  TaintImages'
  OBVIOUS
<1> USE DEF Launched, Filling, Ticking, scriptVars, memVars
<1>1. ASSUME NEW how, Stop(how) PROVE TaintImages'
  BY <1>1 DEF Stop, TaintImages, Phases
<1>2. CASE ParseLine \/ ParseDone \/ Construct \/ AddTaintbit \/ Launch \/ Main
  <2>1. CASE \E how : Stop(how)
    BY <1>1, <2>1
  <2>2. CASE ~\E how : Stop(how)
    <3>1. /\ UNCHANGED <<taint, todo>> /\ phase \in {"parse", "construct", "add", "main"}
          /\ phase = "main" => UNCHANGED env
          /\ phase' \in {"parse", "construct", "add", "main", "pick"}
      BY <1>2, <2>2 DEF ParseLine, ParseDone, Construct, AddTaintbit, Launch, Main
    <3> QED
      BY <3>1, TaintImagesKept DEF Control, Phases
  <2> QED
    BY <2>1, <2>2
<1>3. CASE PickMemory
  <2>1. CASE \E how : Stop(how)
    BY <1>1, <2>1
  <2>2. CASE ~\E how : Stop(how)
    <3>1. PICK m \in todo :
            /\ phase = "pick" /\ phase' = "segments" /\ mem' = m /\ todo' = todo \ {m}
            /\ UNCHANGED <<env, taint>>
      BY <1>3, <2>2 DEF PickMemory
    <3>2. DoneTainted'
      BY <3>1, DoneKept
    <3>3. /\ taint' \in [Memories -> [Addresses -> Byte]]
          /\ \A k \in todo' : Untainted(taint[k])' /\ Untainted(taint[mem])'
      BY <3>1 DEF TaintImages, Untainted, Phases
    <3>4. Untainted(taint[mem])'
      BY <3>1 DEF TaintImages, Untainted, Phases
    <3> QED
      BY <3>1, <3>2, <3>3, <3>4 DEF TaintImages, DoneTainted
  <2> QED
    BY <2>1, <2>2
<1>4. CASE ReadElfSegment \/ ReadElfDone \/ StoreSection \/ LoadSection
  <2>1. CASE \E how : Stop(how)
    BY <1>1, <1>4, <2>1
  <2>2. CASE ~\E how : Stop(how)
    <3>1. /\ UNCHANGED <<taint, todo, env, mem>>
          /\ phase \in {"segments", "load"} /\ phase' \in {"segments", "load"}
      BY <1>4, <2>2 DEF ReadElfSegment, ReadElfDone, StoreSection, LoadSection
    <3> QED
      BY <3>1, TaintImagesKept
  <2> QED
    BY <2>1, <2>2
<1>5. CASE LoadDone
  <2>1. /\ phase = "load" /\ phase' = "lines" /\ n' = 0 /\ UNCHANGED <<env, mem, todo, taint>>
    BY <1>5 DEF LoadDone
  <2>2. mem \in Memories
    BY <2>1 DEF Control
  <2>3. GoodFile(TaintsOf(mem)) /\ TaintsOf(mem)' = TaintsOf(mem)
    BY <2>1, <2>2, LaunchedFiles DEF TaintsOf
  <2>4. n' <= Len(TaintsOf(mem)) /\ \A i : i \notin 1 .. n'
    BY <2>1, <2>3 DEF GoodFile, GoodLines
  <2>5. DoneTainted'
    BY <2>1, DoneKept DEF Control
  <2>6. /\ taint' \in [Memories -> [Addresses -> Byte]]
        /\ \A m \in todo' : Untainted(taint[m])'
        /\ Untainted(taint[mem])'
    BY <2>1 DEF TaintImages, Untainted, Phases
  <2> QED
    BY <2>1, <2>3, <2>4, <2>5, <2>6 DEF TaintImages, DoneTainted
<1>6. CASE ReadLine
  BY <1>6, TaintLineRead
<1>7. CASE ReadDone
  <2>1. /\ phase = "lines" /\ phase' = "taints" /\ n = Len(TaintsOf(mem))
        /\ request' = NoRequest /\ UNCHANGED <<env, mem, todo, taint, taintVars>>
    BY <1>7 DEF ReadDone, Control
  <2>2. PICK lines : lines = TaintsOf(mem)
    OBVIOUS
  <2>3. mem \in Memories
    BY <2>1 DEF Control
  <2>4. TaintsOf(mem)' = lines /\ GoodFile(lines)
    <3>1. GoodFile(TaintsOf(mem))
      BY <2>1, <2>3, LaunchedFiles
    <3>2. TaintsOf(mem)' = TaintsOf(mem)
      BY <2>1 DEF TaintsOf
    <3> QED
      BY <2>2, <3>1, <3>2
  <2>5. ASSUME Disjoint(lines), NEW i \in 1 .. Len(lines), lines[i].nbytes # 0
        PROVE  MaskKept(lines[i])' /\ Heard(lines[i])'
    <3>1. MaskKept(lines[i]) /\ Heard(lines[i])
      BY <2>1, <2>2, <2>5 DEF TaintImages
    <3> QED
      BY <2>1, <3>1 DEF MaskKept, Heard, taintVars
  <2>6. ASSUME Disjoint(lines) PROVE IsPartlyTainted(lines, taint[mem])'
    <3>1. \A a \in Addresses, i \in 1 .. Len(lines) :
            TaintedBy(lines[i], a) => lines[i].nbytes # 0
      <4>1. \A a \in Addresses : a \in Nat
        BY DEF Addresses
      <4> QED
        BY <2>4, <4>1, TaintOfLine
    <3>2. Untainted(taint[mem])
      BY <2>1 DEF TaintImages
    <3> QED
      BY <2>1, <2>5, <2>6, <3>1, <3>2 DEF IsPartlyTainted, Untainted, TaintedBy
  <2>7. DoneTainted'
    BY <2>1, DoneKept DEF Control
  <2>8. /\ taint' \in [Memories -> [Addresses -> Byte]]
        /\ \A m \in todo' : Untainted(taint[m])'
    BY <2>1 DEF TaintImages, Untainted, Phases
  <2>9. Disjoint(TaintsOf(mem))' => Disjoint(lines)
    BY <2>4 DEF Disjoint
  <2> QED
    BY <2>1, <2>4, <2>5, <2>6, <2>7, <2>8, <2>9 DEF TaintImages, DoneTainted
<1>8. CASE LoadTaint
  BY <1>8, TaintAskedFor
<1>9. CASE StoreTaint
  BY <1>1, <1>9, TaintStored DEF StoreTaint
<1>10. CASE MemoryDone
  <2>1. /\ phase = "taints" /\ phase' \in {"reset", "pick"} /\ request = NoRequest
        /\ UNCHANGED <<env, todo, taint>>
        /\ \A id \in Ids : ~(taint_section_index[id] < Len(taint_sections[id]))
    BY <1>10 DEF MemoryDone, MoreSections
  <2>2. mem \in Memories
    BY <2>1 DEF Control
  <2>3. GoodFile(TaintsOf(mem))
    BY <2>1, <2>2, LaunchedFiles
  <2>4. \A id \in Ids : /\ Len(taint_sections[id]) \in Nat /\ taint_section_index[id] \in Nat
                       /\ taint_section_index[id] <= Len(taint_sections[id])
    BY SequenceLength DEF TaintTables
  <2>5. ASSUME NEW i \in 1 .. Len(TaintsOf(mem))
        PROVE  ~Heard(TaintsOf(mem)[i]) /\ ~Requested(TaintsOf(mem)[i])
    <3>1. TaintsOf(mem)[i].id \in Ids
      BY <2>3 DEF GoodFile, GoodLines
    <3> QED
      BY <2>1, <2>4, <3>1 DEF Heard, Requested
  <2>6. Disjoint(TaintsOf(mem)) => IsTainted(TaintsOf(mem), taint[mem])
    BY <2>1, <2>3, <2>5, WholeTaint DEF TaintImages
  <2>7. \A m \in Memories \ todo :
          Disjoint(TaintsOf(m)) => IsTainted(TaintsOf(m), taint[m])
    BY <2>1, <2>6 DEF TaintImages
  <2>8. \A m \in Memories : TaintsOf(m)' = TaintsOf(m)
    BY <2>1 DEF TaintsOf
  <2>9. DoneTainted'
    BY <2>1, <2>7, <2>8 DEF DoneTainted, IsTainted, Disjoint
  <2>10. /\ taint' \in [Memories -> [Addresses -> Byte]]
         /\ \A m \in todo' : Untainted(taint[m])'
    BY <2>1 DEF TaintImages, Untainted, Phases
  <2> QED
    BY <2>1, <2>9, <2>10 DEF TaintImages, DoneTainted
<1>11. CASE Reset \/ TickSimlen \/ TickTrail
  <2>1. /\ UNCHANGED <<taint, todo, env>> /\ phase \in Ticking /\ phase' \in Ticking
    BY <1>11 DEF Reset, TickSimlen, TickTrail, TickTo
  <2> QED
    BY <2>1, TaintImagesKept
<1>12. CASE Finish
  BY <1>1, <1>12 DEF Finish
<1>13. CASE UNCHANGED vars
  <2>1. UNCHANGED <<phase, n, env, mem, todo, request, taint, taintVars>>
    BY <1>13 DEF vars
  <2>2. \A m : TaintsOf(m)' = TaintsOf(m)
    BY <2>1 DEF TaintsOf
  <2>3. DoneTainted'
    BY <2>1, <2>2 DEF TaintImages, DoneTainted, IsTainted, Disjoint
  <2>4. /\ taint' \in [Memories -> [Addresses -> Byte]]
        /\ phase' \in Phases => \A m \in todo' : Untainted(taint[m])'
        /\ phase' \in Filling \ {"taints"} => Untainted(taint[mem])'
    BY <2>1 DEF TaintImages, Untainted, Phases
  <2>5. PICK lines : lines = TaintsOf(mem)
    OBVIOUS
  <2>6. TaintsOf(mem)' = lines /\ (Disjoint(TaintsOf(mem))' => Disjoint(lines))
    BY <2>1, <2>2, <2>5 DEF Disjoint
  <2>7. \A l : /\ MaskKept(l) => MaskKept(l)'
               /\ Heard(l) => Heard(l)'
               /\ Requested(l) <=> Requested(l)'
    BY <2>1 DEF MaskKept, Heard, Requested, taintVars
  <2>8. IsPartlyTainted(lines, taint[mem]) => IsPartlyTainted(lines, taint[mem])'
    BY <2>1, <2>7 DEF IsPartlyTainted, TaintedBy, TaintOf
  <2> QED
    BY <2>1, <2>3, <2>4, <2>5, <2>6, <2>7, <2>8 DEF TaintImages, DoneTainted
<1> QED
  BY <1>2, <1>3, <1>4, <1>5, <1>6, <1>7, <1>8, <1>9, <1>10, <1>11, <1>12, <1>13 DEF Next

-----------------------------------------------------------------------------
(* The theorems. *)
TaintInv == IInv /\ Collected /\ Timed /\ MaskTypes /\ TaintImages

\* The inductive invariant of the whole run, its taints included.
THEOREM TaintInvariance == Spec => []TaintInv
<1>1. Init => Collected /\ Timed /\ MaskTypes /\ TaintImages
  BY CollectedInit, TimedInit, MaskTypesInit, TaintImagesInit
<1>2. IInv /\ Collected /\ Timed /\ MaskTypes /\ TaintImages /\ [Next]_vars =>
        Collected' /\ Timed' /\ MaskTypes' /\ TaintImages'
  BY CollectedStep, TimedStep, MaskTypesStep, TaintImagesStep DEF IInv
<1>3. TaintInv <=> IInv /\ Collected /\ Timed /\ MaskTypes /\ TaintImages
  BY DEF TaintInv
<1> QED
  BY <1>1, <1>2, <1>3, Invariance, PTL DEF Spec

\* gen_taintlines and parse_taintfile lose no taint and invent none, however the lines
\* and pairs overlap, and however they lie across the blocks.
THEOREM CollectedInBlocks == Spec => []NothingLostInBlocks
<1>1. TaintInv => NothingLostInBlocks
  <2> SUFFICES ASSUME TaintInv PROVE NothingLostInBlocks
    OBVIOUS
  <2>1. \A a \in Addresses : a \in Nat
    BY DEF Addresses
  <2> QED
    BY <2>1 DEF TaintInv, Collected, NothingLostInBlocks, Prefix
<1> QED
  BY <1>1, TaintInvariance, PTL

\* While the clock ticks, both memories are loaded, and their taint is taintbits'.
LEMMA TickingTainted == TaintInv /\ phase \in Ticking => TaintsReachMemories
<1> SUFFICES ASSUME TaintInv, phase \in Ticking PROVE TaintsReachMemories
  OBVIOUS
<1>1. phase \in Launched /\ todo = {} /\ phase \notin Filling
  BY DEF TaintInv, IInv, Control, Launched, Filling, Ticking
<1>2. ASSUME NEW m \in Memories, NEW a \in Addresses, Disjoint(TaintsOf(m))
      PROVE  taint[m][a] = LinesTaint(TaintsOf(m), a)
  BY <1>1, <1>2 DEF TaintInv, TaintImages, IsTainted
<1>3. ASSUME NEW m \in Memories, NEW a \in Addresses, job # NoJob
      PROVE  taint[m][a] = BitsTaint(taintbits, a)
  <2>1. TaintsOf(m) = GenTaintLines(tt)
    BY <1>1, <1>3, LaunchedFiles DEF TaintInv, IInv
  <2>2. a \in Nat
    BY DEF Addresses
  <2>3. IsBlocks(tt) /\ BlocksTaint(tt, a) = BitsTaint(taintbits, a)
    BY <1>1, <1>3, <2>2 DEF TaintInv, Collected
  <2>4. Disjoint(TaintsOf(m)) /\ LinesTaint(TaintsOf(m), a) = BlocksTaint(tt, a)
    BY <2>1, <2>2, <2>3, GeneratedDisjoint, GeneratedTaint
  <2> QED
    BY <1>2, <2>3, <2>4
<1> QED
  BY <1>2, <1>3 DEF TaintsReachMemories

\* A simulation of a job has both its memories tainted by taintbits, exactly, although
\* they are written to a file in blocks, read back twice and loaded section after
\* section through shared tables; one that a user starts, by the user's files.
THEOREM ExactTaints == Spec => []TaintsReachMemories
<1>1. Init => TaintsReachMemories
  BY DEF Init, TaintsReachMemories, Simulating
<1>2. TaintInv /\ TaintInv' /\ TaintsReachMemories /\ [Next]_vars => TaintsReachMemories'
  <2>1. (TaintInv /\ phase \in Ticking => TaintsReachMemories)'
    BY TickingTainted, PTL
  <2> SUFFICES ASSUME TaintInv, TaintInv', TaintsReachMemories, [Next]_vars, Simulating',
                      phase' \notin Ticking
               PROVE  TaintsReachMemories'
    BY <2>1 DEF TaintsReachMemories
  <2>2. phase' = "stopped" /\ ticks' > 0
    BY DEF TaintInv, IInv, Clock, Simulating, Ticking
  <2>3. UNCHANGED <<ticks, taint, env, job, taintbits>>
    BY <2>2, StopKeeps DEF TaintInv, IInv
  <2>4. Simulating
    BY <2>2, <2>3 DEF Simulating
  <2>5. \A m : TaintsOf(m)' = TaintsOf(m)
    BY <2>3 DEF TaintsOf
  <2> QED
    BY <2>3, <2>4, <2>5 DEF TaintsReachMemories, Disjoint
<1> QED
  BY <1>1, <1>2, TaintInvariance, PTL DEF Spec

\* What TypeOK says beyond the parts of TaintInv.
Choices ==
  /\ status \in {"running", "raised", "abort", "overrun", "exit0", "exit1"}
  /\ job \in Jobs \cup {NoJob}
  /\ mem \in Memories \cup {"none"}
  /\ request.id \in Ids \cup {-1}

LEMMA ChoicesInit == Init => Choices
BY DEF Init, Choices, NoRequest

LEMMA ChoicesStep == Control /\ Choices /\ [Next]_vars => Choices'
<1> SUFFICES ASSUME Control, Choices, [Next]_vars PROVE Choices'
  OBVIOUS
<1> USE DEF Choices, scriptVars
<1>1. ASSUME NEW how \in {"raised", "abort", "overrun", "exit0", "exit1"}, Stop(how)
      PROVE  Choices'
  BY <1>1 DEF Stop
<1>2. CASE ParseLine \/ ParseDone \/ Construct \/ AddTaintbit \/ Launch \/ Main
  BY <1>1, <1>2 DEF ParseLine, ParseDone, Construct, AddTaintbit, Launch, Main
<1>3. CASE PickMemory
  BY <1>1, <1>3 DEF PickMemory, Control
<1>4. CASE ReadElfSegment \/ ReadElfDone \/ LoadDone
  BY <1>1, <1>4 DEF ReadElfSegment, ReadElfDone, LoadDone
<1>5. CASE LoadSection
  <2>1. 0 \in Ids
    BY TaintFilesAssumption DEF Ids
  <2> QED
    BY <1>5, <2>1 DEF LoadSection
<1>6. CASE StoreSection \/ StoreTaint
  BY <1>1, <1>6 DEF StoreSection, StoreTaint, NoRequest
<1>7. CASE ReadLine \/ ReadDone \/ LoadTaint \/ MemoryDone
  BY <1>7 DEF ReadLine, ReadDone, LoadTaint, MemoryDone
<1>8. CASE Reset \/ TickSimlen \/ TickTrail \/ Finish
  BY <1>1, <1>8 DEF Reset, TickSimlen, TickTrail, TickTo, Finish
<1>9. CASE UNCHANGED vars
  BY <1>9 DEF vars
<1> QED
  BY <1>2, <1>3, <1>4, <1>5, <1>6, <1>7, <1>8, <1>9 DEF Next

\* Every variable of the script, the loaders, the memories and the clock keeps its type.
THEOREM Typing == Spec => []TypeOK
<1>1. TaintInv /\ Choices => TypeOK
  <2> SUFFICES ASSUME TaintInv, Choices PROVE TypeOK
    OBVIOUS
  <2>1. /\ phase \in Phases \cup {"stopped"} /\ n \in Nat /\ todo \subseteq Memories
        /\ section_index \in 0 .. Len(sections) /\ ticks \in Nat
    BY DEF TaintInv, IInv, Control, Sections, Timed
  <2>2. job = NoJob \/ job.parse \in BOOLEAN
    BY JobsAssumption DEF Choices
  <2>3. ASSUME NEW i \in 1 .. Len(tt)
        PROVE  tt[i].base % Alignment = 0 /\ tt[i].block \in [Offsets -> Byte]
    BY DEF TaintInv, Collected, IsBlocks, IsBlock
  <2>4. \A i \in 1 .. Len(taintbits) : taintbits[i] \in Nat \X Byte
    BY ElementOfSeq DEF TaintInv, Collected, TaintBits
  <2>5. ASSUME NEW id \in Ids
        PROVE  taint_section_index[id] \in 0 .. Len(taint_sections[id])
    <3>1. IsSequence(taint_sections[id])
      BY DEF TaintInv, IInv, TaintTables
    <3>2. /\ taint_section_index[id] \in Nat
          /\ taint_section_index[id] <= Len(taint_sections[id])
      BY DEF TaintInv, IInv, TaintTables
    <3> QED
      BY <3>1, <3>2, SequenceLength
  <2>6. ASSUME NEW m \in Memories
        PROVE  DOMAIN bytes[m] = Addresses /\ taint[m] \in [Addresses -> Byte]
    BY DEF TaintInv, IInv, Images, TaintImages
  <2> QED
    BY <2>1, <2>2, <2>3, <2>4, <2>5, <2>6
       DEF TypeOK, Choices, Phases, Launched, Filling, Ticking
<1>2. TaintInv => Control
  BY DEF TaintInv, IInv
<1> QED
  BY <1>1, <1>2, ChoicesInit, ChoicesStep, TaintInvariance, PTL DEF Spec
=============================================================================
