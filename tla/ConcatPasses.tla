---------------------------- MODULE ConcatPasses ----------------------------
(***************************************************************************)
(* What the passes over concatenations do to one line of a Verilog file:   *)
(* compress_concats.py, divide_concat_into_subconcats.py,                  *)
(* expand_left_operand.py, expand_right_operand.py and                     *)
(* expand_reduction_operand.py, with concatbitwidth.py.                    *)
(*                                                                         *)
(* A file is a sequence of lines, a concatenation a sequence of elements,  *)
(* most significant first.  A name is a triple: <<pass, number, part>> if  *)
(* a pass made it up, <<name, 0, 0>> if it was in the file before.         *)
(*                                                                         *)
(* (Definitions named Wrong... are the slips the properties must notice.)  *)
(***************************************************************************)
EXTENDS Integers, Sequences, SequencesExt, FiniteSets

CONSTANT MaxTerms   \* MAX_TERMS_IN_BRACKET, 1000 in the code

ASSUME MaxTermsAssumption == MaxTerms \in Nat \ {0}

\* Elements: a signal, one of its bits or a slice, a number, a repetition.
Whole(s) == [k |-> "sig", sig |-> s]
Bit(s, i) == [k |-> "bit", sig |-> s, at |-> i]
Slice(s, hi, lo) == [k |-> "slice", sig |-> s, hi |-> hi, lo |-> lo]
Number(w) == [k |-> "num", width |-> w]
Rep(n, e) == [k |-> "rep", n |-> n, of |-> e]

\* Lines: `module`, a declaration, an assignment whose operands are in braces
\* or plain.  A declaration matches if SIGNAL_DECLARATION finds it: a list of
\* names, a port in a header or `output reg [1:0] q;` does not match.
ModuleLine == [k |-> "module"]
Decl(s, w, matches) == [k |-> "decl", sig |-> s, width |-> w, matches |-> matches]
Braced(c) == [braces |-> TRUE, elems |-> c]
Plain(s) == [braces |-> FALSE, elems |-> <<Whole(s)>>]
NoOperand == [braces |-> FALSE, elems |-> <<>>]
Assign(dst, left, op, right) ==
  [k |-> "assign", dst |-> dst, left |-> left, op |-> op, right |-> right]
Error == [k |-> "ValueError"]

\* The operators that the expressions of the expand passes look for; "==" stands for
\* the others.
BitwiseOps == {"&", "|", "^"}
ReductionOps == {"&", "|"}
Operators == BitwiseOps \cup {"none", "=="}
IsOperation(l) == l.k = "assign" /\ l.op # "none"
-----------------------------------------------------------------------------
\* compress_concats.py

\* The groups of elements that begin at the positions `starts`: the first element
\* and the length of each.
Nth(S, k) == CHOOSE i \in S : Cardinality({j \in S : j <= i}) = k
Groups(elems, starts) ==
  LET Begin(k) == IF k > Cardinality(starts) THEN Len(elems) + 1 ELSE Nth(starts, k)
  IN  [k \in 1 .. Cardinality(starts) |->
         [first |-> elems[Begin(k)], n |-> Begin(k + 1) - Begin(k)]]

\* replace_reps: a group is one of equal elements.
ReplaceReps(elems) ==
  LET RepOf(g) == IF g.n = 1 THEN g.first ELSE Rep(g.n, g.first)
      groups == Groups(elems, {i \in 1 .. Len(elems) : i = 1 \/ elems[i - 1] # elems[i]})
  IN  [k \in DOMAIN groups |-> RepOf(groups[k])]

\* replace_decr's commit_prev_elem: `start` is the run's first, highest index.
WrongCommit(sig, start, n) == Slice(sig, start + n, start)
Commit(sig, start, n) ==
  IF n = 1 THEN Bit(sig, start) ELSE Slice(sig, start + n - 1, start)

\* Is e the bit below d?
Continues(d, e) == d.k = "bit" /\ e.k = "bit" /\ e = Bit(d.sig, d.at - 1)

ReplaceDecr(elems) ==
  LET groups == Groups(elems, {i \in 1 .. Len(elems) :
                                 i = 1 \/ ~Continues(elems[i - 1], elems[i])})
      SliceOf(g) == IF g.first.k = "bit" THEN Commit(g.first.sig, g.first.at, g.n)
                                         ELSE g.first
  IN  [k \in DOMAIN groups |-> SliceOf(groups[k])]

\* reduce_bracket, on each bracket of a line.
CompressBracket(o) ==
  IF o.braces THEN Braced(ReplaceDecr(ReplaceReps(o.elems))) ELSE o

Compress(l) ==
  <<IF l.k = "assign" THEN [l EXCEPT !.left = CompressBracket(@),
                                     !.right = CompressBracket(@)]
                      ELSE l>>
-----------------------------------------------------------------------------
\* concatbitwidth.py: the width a name was last declared with above line n of
\* the file, in whichever module, and 1 when no such declaration matches.
DeclaredWidth(file, n, s) ==
  LET decls == {i \in 1 .. (n - 1) :
                  file[i].k = "decl" /\ file[i].sig = s /\ file[i].matches}
  IN  IF decls = {} THEN 1
      ELSE file[CHOOSE i \in decls : \A j \in decls : j <= i].width

WrongElementWidth(file, n, e) ==
  CASE e.k = "num" -> e.width
    [] e.k = "slice" -> e.hi - e.lo
    [] e.k = "sig" -> DeclaredWidth(file, n, e.sig)
    [] OTHER -> 1
ElementWidth(file, n, e) ==
  CASE e.k = "num" -> e.width
    [] e.k = "slice" -> e.hi - e.lo + 1
    [] e.k = "sig" -> DeclaredWidth(file, n, e.sig)
    [] OTHER -> 1

\* get_bracket_bit_width raises on a nested bracket and on an empty slice.
Measurable(e) == e.k # "rep" /\ (e.k = "slice" => e.hi >= e.lo)
BracketWidth(file, n, elems) ==
  LET width[i \in 0 .. Len(elems)] ==
        IF i = 0 THEN 0 ELSE width[i - 1] + ElementWidth(file, n, elems[i])
  IN  width[Len(elems)]
-----------------------------------------------------------------------------
\* The expand passes: a long operand in braces becomes a wire of its own.
Wire(pass, number) == <<pass, number, 0>>

\* The left and right passes declare their wire with its highest index, the reduction
\* pass as `[n-1:0]`, which does not match.
Hoist(l, file, n, pass, number, side, width) ==
  LET w == Wire(pass, number)
  IN  <<Decl(w, width, pass # "reduction"), Assign(w, l[side], "none", NoOperand),
        [l EXCEPT ![side] = Plain(w)]>>

Measured(l, file, n, pass, number, side) ==
  IF \E i \in 1 .. Len(l[side].elems) : ~Measurable(l[side].elems[i])
    THEN <<Error>>
    ELSE Hoist(l, file, n, pass, number, side, BracketWidth(file, n, l[side].elems))

Long(o) == o.braces /\ Len(o.elems) >= MaxTerms

ExpandsLeft(l) == IsOperation(l) /\ l.op \in BitwiseOps /\ Long(l.left)

\* What stands left of the operator has no index.  It may be a space, so that
\* the pass for right operands takes reductions as well.
Unindexed(e) ==
  LET term == IF e.k = "rep" THEN e.of ELSE e
  IN  term.k \in {"sig", "num"}
ExpandsRight(l) ==
  /\ IsOperation(l) /\ l.op \in BitwiseOps /\ Long(l.right)
  /\ \A i \in 1 .. Len(l.left.elems) : Unindexed(l.left.elems[i])

ExpandsReduction(l) ==
  IsOperation(l) /\ l.op \in ReductionOps /\ l.left = NoOperand /\ Long(l.right)
-----------------------------------------------------------------------------
\* divide_concat_into_subconcats: `assign dst = {` up to the last `};`.  Of
\* `{a, b} & {c, d}` the content is `a, b} & {c, d`; cut at the commas it has `b} & {c`
\* for one of its terms.
ContentLen(l) ==
  IF l.op = "none" THEN Len(l.left.elems) ELSE Len(l.left.elems) + Len(l.right.elems) - 1

Divides(l) ==
  /\ l.k = "assign" /\ l.left.braces /\ (IsOperation(l) => l.right.braces)
  /\ ContentLen(l) >= MaxTerms

Part(number, i) == <<"divide", number, i + 1>>

\* Part i holds MaxTerms terms and, unless it is the last, part i + 1.
WrongParts(len) == len \div MaxTerms
Parts(len) == (len + MaxTerms - 1) \div MaxTerms
FirstTerm(i) == i * MaxTerms + 1
LastTerm(len, i) == IF (i + 1) * MaxTerms < len THEN (i + 1) * MaxTerms ELSE len

\* A part that has the term with the operator is an operation again.
PartAssign(l, number, i) ==
  LET left == l.left.elems
      right == l.right.elems
      from == FirstTerm(i)
      to == LastTerm(ContentLen(l), i)
      cut == Len(left)
      next == IF i = Parts(ContentLen(l)) - 1 THEN <<>> ELSE <<Whole(Part(number, i + 1))>>
      Concat(terms) == Assign(Part(number, i), Braced(terms \o next), "none", NoOperand)
  IN  CASE l.op = "none" \/ to < cut -> Concat(SubSeq(left, from, to))
        [] l.op # "none" /\ cut < from ->
             Concat(SubSeq(right, from - cut + 1, to - cut + 1))
        [] OTHER ->
             Assign(Part(number, i), Braced(SubSeq(left, from, cut)), l.op,
                    Braced(SubSeq(right, 1, to - cut + 1) \o next))

Divide(l, number) ==
  LET len == ContentLen(l)
      parts == Parts(len)
      whole == <<"divide", number, 0>>
      Width(i) == IF i = parts - 1 THEN LastTerm(len, i) - FirstTerm(i) + 1 ELSE MaxTerms + 1
      PartDecls == [j \in 1 .. parts |-> Decl(Part(number, j - 1), Width(j - 1), FALSE)]
      PartAssigns == [j \in 1 .. parts |-> PartAssign(l, number, j - 1)]
  IN  <<Decl(whole, len, FALSE)>> \o PartDecls
        \o <<Assign(whole, Plain(Part(number, 0)), "none", NoOperand)>>
        \o PartAssigns
        \o <<Assign(l.dst, Plain(whole), "none", NoOperand)>>

\* Does the pass rewrite this line and count it in num_brackets_treated?
Treats(pass, l) ==
  CASE pass = "left"      -> ExpandsLeft(l)
    [] pass = "right"     -> ExpandsRight(l)
    [] pass = "reduction" -> ExpandsReduction(l)
    [] pass = "divide"    -> Divides(l)
    [] OTHER              -> FALSE

\* The lines that take the place of line n of the file.
Rewrite(pass, file, n, number) ==
  LET l == file[n]
  IN  CASE pass = "compress" -> Compress(l)
        [] ~Treats(pass, l) /\ pass # "compress" -> <<l>>
        [] pass = "left" /\ Treats(pass, l) ->
             Measured(l, file, n, pass, number, "left")
        [] pass = "right" /\ Treats(pass, l) ->
             Measured(l, file, n, pass, number, "right")
        [] pass = "reduction" /\ Treats(pass, l) ->
             Hoist(l, file, n, pass, number, "right", Len(l.right.elems))
        [] OTHER -> Divide(l, number)
=============================================================================
