---------------------------- MODULE TaintTuples ----------------------------
(***************************************************************************)
(* The class TaintTuples of python-experiments/common/taintfile.py: taint  *)
(* masks collected in blocks of `alignment` bytes.  A byte mask is the set *)
(* of its one bits, a taint line a record, the dict taintlist a sequence   *)
(* of its entries in insertion order.                                      *)
(* (Definitions named Wrong... are the slips the properties must notice.)  *)
(***************************************************************************)
EXTENDS Integers, Sequences, FiniteSets

CONSTANTS
  Alignment,  \* self.alignment, 32 in the code
  Bits        \* the bits of a byte

ASSUME AlignmentAssumption == Alignment \in Nat \ {0}

Byte == SUBSET Bits
Offsets == 0 .. (Alignment - 1)
WrongBase(addr) == addr
Base(addr) == addr - (addr % Alignment)

\* The block that holds mask from addr on, zero padded on both sides.
Block(addr, mask) ==
  [k \in Offsets |-> LET j == k - (addr % Alignment) + 1
                     IN  IF j \in 1 .. Len(mask) THEN mask[j] ELSE {}]

\* Otherwise private_add raises.
Fits(addr, mask) == (addr % Alignment) + Len(mask) <= Alignment

WrongMerge(prev, mask) == mask
Merge(prev, mask) == [k \in Offsets |-> prev[k] \cup mask[k]]

\* private_add: a new entry, or the mask merged into the entry of its block.
PrivateAdd(list, addr, mask) ==
  LET base == Base(addr)
      block == Block(addr, mask)
  IN  IF \E i \in 1 .. Len(list) : list[i].base = base
        THEN [i \in 1 .. Len(list) |->
                IF list[i].base = base
                  THEN [base |-> base, block |-> Merge(list[i].block, block)]
                  ELSE list[i]]
        ELSE Append(list, [base |-> base, block |-> block])

\* The digits of the mask of a line: byte after byte of hexadecimal digits ("even"),
\* half a byte more ("odd"), or something else among them ("other").
Digits == {"even", "odd", "other"}

\* add_taintline pads a short mask with zeros, and rejects a long one and one that is
\* not byte after byte of digits.
Pad(mask, nbytes) ==
  [j \in 1 .. nbytes |-> IF j \in 1 .. Len(mask) THEN mask[j] ELSE {}]
LineFits(line) ==
  /\ line.digits = "even"
  /\ Len(line.mask) <= line.nbytes /\ Fits(line.addr, Pad(line.mask, line.nbytes))
AddTaintLine(list, line) ==
  PrivateAdd(list, line.addr, Pad(line.mask, line.nbytes))

AddTuple(list, tuple) == PrivateAdd(list, tuple[1], <<tuple[2]>>)

\* asbytes raises on an empty dict (its result is never assigned) and on a byte
\* that is partly tainted.
HasBytes(list) ==
  /\ list # <<>>
  /\ \A i \in 1 .. Len(list), k \in Offsets : list[i].block[k] \in {{}, Bits}

\* The i-th smallest of a finite set of numbers.
Nth(S, i) == CHOOSE k \in S : Cardinality({j \in S : j <= k}) = i

\* asbytes empties its result at every entry: the last entry's bytes are left.
AsBytes(list) ==
  LET last == list[Len(list)]
      tainted == {k \in Offsets : last.block[k] # {}}
  IN  [i \in 1 .. Cardinality(tainted) |->
         <<last.base + Nth(tainted, i), last.block[Nth(tainted, i)]>>]

WrongGenTaintLines(list) ==
  [i \in 1 .. Len(list) |->
     [id |-> 0, addr |-> list[i].base, nbytes |-> 1, digits |-> "even",
      mask |-> [j \in 1 .. Alignment |-> list[i].block[j - 1]]]]

\* gen_taintlines: whatever ids were read, every line has id 0.
GenTaintLines(list) ==
  [i \in 1 .. Len(list) |->
     [id |-> 0, addr |-> list[i].base, nbytes |-> Alignment, digits |-> "even",
      mask |-> [j \in 1 .. Alignment |-> list[i].block[j - 1]]]]
=============================================================================
