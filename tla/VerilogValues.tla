--------------------------- MODULE VerilogValues ---------------------------
(***************************************************************************)
(* What a line means in Verilog, and that the passes keep it.  `wires`     *)
(* says what each made-up wire stands for: its terms, or its bits.         *)
(***************************************************************************)
EXTENDS VerilogPasses

\* The made-up wires that a line of the file drives, and the line.
Wires(f) ==
  {f[i].dst : i \in {j \in 1 .. Len(f) : f[j].k = "assign" /\ Made(f[j].dst)}}
DriverOf(f, w) == CHOOSE i \in 1 .. Len(f) : Drives(f[i], w)

NoWires == <<>>
-----------------------------------------------------------------------------
\* The terms of the elements, those of the made-up wires in their place.
TermsIn(wires, elems) ==
  FlattenSeq([i \in DOMAIN elems |->
    IF elems[i].k = "sig" /\ elems[i].sig \in DOMAIN wires
      THEN wires[elems[i].sig] ELSE <<elems[i]>>])

\* What a line assigns: the terms of a concatenation, or an operation on the terms of
\* its operands, for one term.
Operation(op, left, right) == [k |-> "operation", left |-> left, op |-> op, right |-> right]
LineTerms(wires, l) ==
  IF l.op = "none" THEN TermsIn(wires, l.left.elems)
  ELSE <<Operation(l.op, TermsIn(wires, l.left.elems), TermsIn(wires, l.right.elems))>>

WireTerms(f) ==
  LET terms[w \in Wires(f)] == LineTerms(terms, f[DriverOf(f, w)])
  IN  terms
-----------------------------------------------------------------------------
Zero == <<<<"zero", 0, 0>>, 0>>

\* The declaration of s in scope at line n; an undeclared net has one bit.
Undeclared(s) == Decl(s, 1, FALSE)
DeclAt(f, n, s) ==
  LET decls == {i \in 1 .. (n - 1) :
                  /\ f[i].k = "decl" /\ f[i].sig = s
                  /\ \A j \in i .. n : f[j].k # "module"}
  IN  IF decls = {} THEN Undeclared(s) ELSE f[CHOOSE i \in decls : \A j \in decls : j <= i]
WidthAt(f, n, s) == DeclAt(f, n, s).width

\* The w bits of s from hi down.
Down(s, hi, w) == [j \in 1 .. w |-> <<s, hi + 1 - j>>]

\* The bits of the elements of line n, those of the made-up wires in their place.
TermBits(wires, f, n, e) ==
  CASE e.k = "num" -> Down(<<"num", 0, 0>>, e.width - 1, e.width)
    [] e.k = "bit" -> Down(e.sig, e.at, 1)
    [] e.k = "slice" -> Down(e.sig, e.hi, e.hi - e.lo + 1)
    [] e.k = "sig" /\ e.sig \in DOMAIN wires -> wires[e.sig]
    [] OTHER -> Down(e.sig, WidthAt(f, n, e.sig) - 1, WidthAt(f, n, e.sig))
ElementBits(wires, f, n, e) ==
  IF e.k = "rep" THEN FlattenSeq([j \in 1 .. e.n |-> TermBits(wires, f, n, e.of)])
                 ELSE TermBits(wires, f, n, e)
BitsOf(wires, f, n, elems) ==
  FlattenSeq([i \in DOMAIN elems |-> ElementBits(wires, f, n, elems[i])])

\* Truncation and extension in an assignment to w bits.
Resize(bits, w) ==
  IF Len(bits) >= w THEN SubSeq(bits, Len(bits) - w + 1, Len(bits))
                    ELSE [i \in 1 .. (w - Len(bits)) |-> Zero] \o bits

WireBits(f) ==
  LET bits[w \in Wires(f)] ==
        LET n == DriverOf(f, w)
        IN  Resize(BitsOf(bits, f, n, f[n].left.elems), WidthAt(f, n, w))
  IN  bits

\* Does line m of f have the operands' bits, or their widths, that line n had before
\* any pass?
ValueLike(wires, f, m, n) ==
  /\ Drives(f[m], origin[n].dst) /\ f[m].op = origin[n].op
  /\ BitsOf(wires, f, m, f[m].left.elems) =
       BitsOf(NoWires, origin, n, origin[n].left.elems)
  /\ BitsOf(wires, f, m, f[m].right.elems) =
       BitsOf(NoWires, origin, n, origin[n].right.elems)
WidthLike(wires, f, m, n) ==
  /\ Drives(f[m], origin[n].dst) /\ f[m].op = origin[n].op
  /\ Len(BitsOf(wires, f, m, f[m].left.elems)) =
       Len(BitsOf(NoWires, origin, n, origin[n].left.elems))
  /\ Len(BitsOf(wires, f, m, f[m].right.elems)) =
       Len(BitsOf(NoWires, origin, n, origin[n].right.elems))
-----------------------------------------------------------------------------
Assignments(f) == {i \in 1 .. Len(f) : f[i].k = "assign"}

\* Bits of one signal in a row, from the higher index to the lower.
HasDecreasingRun(elems) == \E i \in 2 .. Len(elems) : Continues(elems[i - 1], elems[i])

CompressIsSafe ==
  "compress" \in applied =>
    \A n \in Assignments(origin) :
      ~HasDecreasingRun(origin[n].left.elems) /\ ~HasDecreasingRun(origin[n].right.elems)

\* The reduction pass declares one bit per element, which is enough for these.
OneBitElements ==
  \A n \in Assignments(origin) : \A i \in DOMAIN origin[n].right.elems :
    Len(ElementBits(NoWires, origin, n, origin[n].right.elems[i])) = 1

\* The signals that stand whole in an operand in braces.
WholeIn(o) == IF o.braces THEN {e.sig : e \in {x \in Range(o.elems) : x.k = "sig"}} ELSE {}
WholeSignals(l) == WholeIn(l.left) \cup WholeIn(l.right)

\* What the lookup of widths supposes of a line (concatbitwidth.py): its signals are
\* declared above, in its module, and in the form that is looked for.
Declared(n) == \A s \in WholeSignals(origin[n]) : DeclAt(origin, n, s) # Undeclared(s)
Supposed(n) == \A s \in WholeSignals(origin[n]) : DeclAt(origin, n, s).matches

\* Where its signals are declared as the script supposes, hoisting the operands of
\* an assignment and compressing its concatenations keep every bit of them and add
\* none, whatever the order of the passes: the width a wire is declared with is that
\* of its concatenation, and a group stands for the elements it replaces.
ValuesKept ==
  /\ pass = "none"
  /\ \/ applied \subseteq {"left", "right", "compress"} /\ CompressIsSafe
     \/ applied \subseteq {"left", "right", "reduction"} /\ OneBitElements
  => LET wires == WireBits(file)
     IN  \A n \in Assignments(origin) :
           Supposed(n) => \E m \in 1 .. Len(file) : ValueLike(wires, file, m, n)

\* Compression changes no operand's width, not even where it writes a slice.
WidthsKept ==
  pass = "none" /\ applied = {"compress"} =>
    LET wires == WireBits(file)
    IN  \A n \in Assignments(origin) : \E m \in 1 .. Len(file) :
          WidthLike(wires, file, m, n)

\* The dividing pass tears an operation on two operands in braces apart if the
\* operator is not in the first part: what part 0 has of the left operand is then put
\* before the operation on the rest, instead of in it.
Torn(l) ==
  IsOperation(l) /\ l.left.braces /\ l.right.braces /\ Len(l.left.elems) > MaxTerms

AssignsLike(wires, m, n) ==
  /\ Drives(file[m], origin[n].dst)
  /\ LineTerms(wires, file[m]) = LineTerms(NoWires, origin[n])

\* The passes that split and hoist concatenations lose, repeat and reorder no term of
\* an assignment, and apply the operator to the operands it had: also where a part
\* holds the operator, and in any order of the passes.  For the operations that the
\* dividing pass tears apart, see DivideKeepsOperations.
TermsKept ==
  pass = "none" /\ "compress" \notin applied =>
    LET wires == WireTerms(file)
    IN  \A n \in Assignments(origin) :
          ("divide" \in applied => ~Torn(origin[n])) =>
            \E m \in 1 .. Len(file) : AssignsLike(wires, m, n)

\* "Expands an expression `assign A = <long_concatenation> & B` by expanding
\* <long_concatenation> into a new signal" (divide_concat_into_subconcats.py, and the
\* same in expand_left_operand.py and expand_right_operand.py): the operation keeps its
\* operands.  The dividing pass keeps their terms, ...
DivideKeepsOperations ==
  applied = {"divide"} =>
    LET wires == WireTerms(file)
    IN  \A n \in Assignments(origin) :
          IsOperation(origin[n]) => \E m \in 1 .. Len(file) : AssignsLike(wires, m, n)

\* ... the others their bits, where each element is "a previously declared signal, with a
\* fixed width as a plain decimal number" (concatbitwidth.py) or not a whole signal.
ExpandKeepsDeclared ==
  applied \subseteq {"left", "right"} =>
    LET wires == WireBits(file)
    IN  \A n \in Assignments(origin) :
          Declared(n) => \E m \in 1 .. Len(file) : ValueLike(wires, file, m, n)

ExpandKeepsOperands == pass = "none" => DivideKeepsOperations /\ ExpandKeepsDeclared

\* "return the same array, but with decreasing sequences written as slices"
\* (compress_concats.py): a compressed concatenation has its bits.
CompressKeepsValues ==
  pass = "none" /\ applied = {"compress"} =>
    LET wires == WireBits(file)
    IN  \A n \in Assignments(origin) : \E m \in 1 .. Len(file) :
          ValueLike(wires, file, m, n)
=============================================================================
