------------------------ MODULE VerilogPasses_proofs ------------------------
(***************************************************************************)
(* For any files, any length of concatenations and any order of the        *)
(* passes: the wires that the passes introduce are declared once and       *)
(* driven once (IInv); no term is lost, repeated or moved (TermsInv); and  *)
(* the operands keep their widths and values (ValuesInv).                  *)
(*                                                                         *)
(* In order: the lines that take the place of one; the passes on a file;   *)
(* sequences of sequences; terms; groups, bits and widths; values.         *)
(***************************************************************************)
EXTENDS VerilogValues, SequenceTheorems, FiniteSetTheorems, WellFoundedInduction, TLAPS

IsSequence(s) == \E S : s \in Seq(S)

\* The lines a file may hold, with their parts.
IsLine(l) ==
  \/ l = ModuleLine
  \/ l = Decl(l.sig, l.width, l.matches)
  \/ /\ l = Assign(l.dst, l.left, l.op, l.right)
     /\ IsSequence(l.left.elems) /\ IsSequence(l.right.elems)
IsFile(f) == IsSequence(f) /\ \A i \in 1 .. Len(f) : IsLine(f[i])

\* A line declares or drives s; a file does so, or does so twice.
Kinds == {"decl", "assign"}
Says(l, k, s) == l.k = k /\ s = IF k = "decl" THEN l.sig ELSE l.dst
Said(f, k, s) == \E i \in 1 .. Len(f) : Says(f[i], k, s)
Twice(f, k, s) ==
  \E i, j \in 1 .. Len(f) : i # j /\ Says(f[i], k, s) /\ Says(f[j], k, s)

\* The file: made-up names come from the passes that were applied, and what is said
\* twice was driven twice before.
FileInv ==
  /\ IsFile(file)
  /\ \A k \in Kinds : \A s :
       /\ Said(file, k, s) /\ Made(s) => s[1] \in applied
       /\ Twice(file, k, s) => ~Made(s) /\ (k = "assign" => DrivenTwice(origin, s))

\* The output: what a line of it says is said by a line of the file that was read, and
\* by one for each, or the name is the pass's own, with a number that was counted.
OutInv ==
  pass # "none" =>
    /\ pass \in Passes \ applied
    /\ IsFile(out) /\ Len(out) >= at - 1
    /\ \A k \in Kinds : \A s :
         /\ Said(out, k, s) =>
              \/ Made(s) /\ s[1] = pass /\ s[2] \in 0 .. (treated - 1)
              \/ \E n \in 1 .. (at - 1) : Says(file[n], k, s)
         /\ Twice(out, k, s) =>
              \E m, n \in 1 .. (at - 1) :
                m # n /\ Says(file[m], k, s) /\ Says(file[n], k, s)

Counters ==
  /\ applied \subseteq Passes /\ pass \in Passes \cup {"none"} /\ raised \in BOOLEAN
  /\ at \in 0 .. (Len(file) + 1) /\ treated \in 0 .. Len(file)
  /\ pass # "none" => at >= 1 /\ treated <= at - 1

IInv == Counters /\ FileInv /\ OutInv
-----------------------------------------------------------------------------
(* Sequences of lines. *)
LEMMA SequenceLength == ASSUME NEW s, IsSequence(s) PROVE Len(s) \in Nat
BY LenProperties DEF IsSequence

LEMMA Concatenation ==
  ASSUME NEW s, IsSequence(s), NEW t, IsSequence(t)
  PROVE  /\ IsSequence(s \o t) /\ Len(s \o t) = Len(s) + Len(t)
         /\ \A i \in 1 .. Len(s) : (s \o t)[i] = s[i]
         /\ \A i \in 1 .. Len(t) : (s \o t)[Len(s) + i] = t[i]
<1>1. PICK S : s \in Seq(S)
  BY DEF IsSequence
<1>2. PICK T : t \in Seq(T)
  BY DEF IsSequence
<1>3. s \in Seq(S \cup T) /\ t \in Seq(S \cup T)
  <2>1. S \subseteq S \cup T /\ T \subseteq S \cup T
    OBVIOUS
  <2> QED
    BY <1>1, <1>2, <2>1, SeqDef
<1>4. PICK U : U = S \cup T
  OBVIOUS
<1>5. s \in Seq(U) /\ t \in Seq(U)
  BY <1>3, <1>4
<1>6. /\ s \o t \in Seq(U) /\ Len(s \o t) = Len(s) + Len(t)
      /\ \A i \in 1 .. (Len(s) + Len(t)) :
           (s \o t)[i] = IF i <= Len(s) THEN s[i] ELSE t[i - Len(s)]
  BY <1>5, ConcatProperties
<1>7. Len(s) \in Nat /\ Len(t) \in Nat
  BY SequenceLength
<1>8. ASSUME NEW i \in 1 .. Len(t) PROVE (s \o t)[Len(s) + i] = t[i]
  <2>1. Len(s) + i \in 1 .. (Len(s) + Len(t)) /\ ~(Len(s) + i <= Len(s))
        /\ (Len(s) + i) - Len(s) = i
    BY <1>7
  <2> QED
    BY <1>6, <2>1
<1> QED
  BY <1>6, <1>7, <1>8 DEF IsSequence

\* Where a position of a concatenation lies.
LEMMA InConcatenation ==
  ASSUME NEW s, IsSequence(s), NEW t, IsSequence(t), NEW i \in 1 .. Len(s \o t)
  PROVE  \/ i \in 1 .. Len(s) /\ (s \o t)[i] = s[i]
         \/ \E j \in 1 .. Len(t) : i = Len(s) + j /\ (s \o t)[i] = t[j]
<1>1. Len(s) \in Nat /\ Len(t) \in Nat /\ Len(s \o t) = Len(s) + Len(t)
  BY Concatenation, SequenceLength
<1>2. CASE i <= Len(s)
  BY <1>1, <1>2, Concatenation
<1>3. CASE ~(i <= Len(s))
  <2>1. i - Len(s) \in 1 .. Len(t) /\ i = Len(s) + (i - Len(s))
    BY <1>1, <1>3
  <2> QED
    BY <2>1, Concatenation
<1> QED
  BY <1>2, <1>3

LEMMA Joined ==
  ASSUME NEW f, IsFile(f), NEW g, IsFile(g), NEW k, NEW s
  PROVE  /\ IsFile(f \o g) /\ Len(f \o g) = Len(f) + Len(g)
         /\ Said(f \o g, k, s) => Said(f, k, s) \/ Said(g, k, s)
         /\ Twice(f \o g, k, s) =>
              Twice(f, k, s) \/ Twice(g, k, s) \/ (Said(f, k, s) /\ Said(g, k, s))
<1>1. IsSequence(f) /\ IsSequence(g)
  BY DEF IsFile
<1>2. IsSequence(f \o g) /\ Len(f \o g) = Len(f) + Len(g)
  BY <1>1, Concatenation
<1>3. PICK h : h = f \o g
  OBVIOUS
<1>4. ASSUME NEW i \in 1 .. Len(h)
      PROVE  \/ i \in 1 .. Len(f) /\ h[i] = f[i]
             \/ \E j \in 1 .. Len(g) : i = Len(f) + j /\ h[i] = g[j]
  BY <1>1, <1>3, InConcatenation
<1>5. IsFile(h)
  BY <1>2, <1>3, <1>4 DEF IsFile
<1>6. Said(h, k, s) => Said(f, k, s) \/ Said(g, k, s)
  BY <1>4 DEF Said
<1>7. ASSUME Twice(h, k, s)
      PROVE  Twice(f, k, s) \/ Twice(g, k, s) \/ (Said(f, k, s) /\ Said(g, k, s))
  <2>1. PICK i, j \in 1 .. Len(h) : i # j /\ Says(h[i], k, s) /\ Says(h[j], k, s)
    BY <1>7 DEF Twice
  <2> QED
    BY <1>4, <2>1 DEF Twice, Said
<1> QED
  BY <1>2, <1>3, <1>5, <1>6, <1>7

\* A file of one line says what the line says, once.
LEMMA OneLine ==
  ASSUME NEW l, IsLine(l), NEW k, NEW s
  PROVE  /\ IsFile(<<l>>) /\ Len(<<l>>) = 1
         /\ Said(<<l>>, k, s) <=> Says(l, k, s)
         /\ ~Twice(<<l>>, k, s)
<1>1. PICK f : f = <<l>>
  OBVIOUS
<1>2. f \in Seq({l}) /\ Len(f) = 1 /\ f[1] = l
  BY <1>1
<1>3. \A i : i \in 1 .. Len(f) <=> i = 1
  BY <1>2
<1>4. IsFile(f)
  BY <1>2, <1>3 DEF IsFile, IsSequence
<1>5. Said(f, k, s) <=> Says(l, k, s)
  BY <1>2, <1>3 DEF Said
<1>6. ~Twice(f, k, s)
  BY <1>3 DEF Twice
<1> QED
  BY <1>1, <1>2, <1>4, <1>5, <1>6

-----------------------------------------------------------------------------
(* The passes on one line. *)

\* A function on 1 .. n is a sequence.
LEMMA FunctionIsSequence ==
  ASSUME NEW n \in Nat, NEW f, f = [i \in 1 .. n |-> f[i]]
  PROVE  IsSequence(f) /\ Len(f) = n
<1>1. PICK S : S = {f[i] : i \in 1 .. n}
  OBVIOUS
<1>2. \A i \in 1 .. n : f[i] \in S
  BY <1>1
<1>3. f \in [1 .. n -> S]
  BY <1>2
<1>4. f \in Seq(S)
  BY <1>3, SeqDef
<1>5. Len(f) = n
  BY <1>3, <1>4, LenProperties
<1> QED
  BY <1>4, <1>5 DEF IsSequence

LEMMA GroupsAreSequence ==
  ASSUME NEW elems, NEW n \in Nat, NEW starts \in SUBSET (1 .. n)
  PROVE  /\ Cardinality(starts) \in Nat
         /\ DOMAIN Groups(elems, starts) = 1 .. Cardinality(starts)
<1>1. IsFiniteSet(1 .. n)
  BY FS_Interval
<1>2. IsFiniteSet(starts)
  BY <1>1, FS_Subset
<1>3. Cardinality(starts) \in Nat
  BY <1>2, FS_CardinalityType
<1> QED
  BY <1>3 DEF Groups

LEMMA CompressedIsSequence ==
  ASSUME NEW o, IsSequence(o.elems)
  PROVE  IsSequence(CompressBracket(o).elems)
<1>1. CASE o.braces
  <2>1. PICK elems : elems = o.elems
    OBVIOUS
  <2>2. IsSequence(ReplaceReps(elems))
    <3>1. Len(elems) \in Nat
      BY <2>1, SequenceLength
    <3>2. PICK starts : starts = {i \in 1 .. Len(elems) : i = 1 \/ elems[i - 1] # elems[i]}
      OBVIOUS
    <3>3. PICK groups : groups = Groups(elems, starts)
      OBVIOUS
    <3>4. Cardinality(starts) \in Nat /\ DOMAIN groups = 1 .. Cardinality(starts)
      BY <3>1, <3>2, <3>3, GroupsAreSequence
    <3>5. PICK f : f = ReplaceReps(elems)
      OBVIOUS
    <3>6. f = [k \in 1 .. Cardinality(starts) |-> f[k]]
      BY <3>2, <3>3, <3>4, <3>5 DEF ReplaceReps
    <3> QED
      BY <3>4, <3>5, <3>6, FunctionIsSequence
  <2>3. PICK reduced : reduced = ReplaceReps(elems)
    OBVIOUS
  <2>4. IsSequence(ReplaceDecr(reduced))
    <3>1. Len(reduced) \in Nat
      BY <2>2, <2>3, SequenceLength
    <3>2. PICK starts : starts = {i \in 1 .. Len(reduced) :
                                    i = 1 \/ ~Continues(reduced[i - 1], reduced[i])}
      OBVIOUS
    <3>3. PICK groups : groups = Groups(reduced, starts)
      OBVIOUS
    <3>4. Cardinality(starts) \in Nat /\ DOMAIN groups = 1 .. Cardinality(starts)
      BY <3>1, <3>2, <3>3, GroupsAreSequence
    <3>5. PICK f : f = ReplaceDecr(reduced)
      OBVIOUS
    <3>6. f = [k \in 1 .. Cardinality(starts) |-> f[k]]
      BY <3>2, <3>3, <3>4, <3>5 DEF ReplaceDecr
    <3> QED
      BY <3>4, <3>5, <3>6, FunctionIsSequence
  <2>5. CompressBracket(o).elems = ReplaceDecr(reduced)
    BY <1>1, <2>1, <2>3 DEF CompressBracket, Braced
  <2> QED
    BY <2>4, <2>5
<1>2. CASE ~o.braces
  BY <1>2 DEF CompressBracket
<1> QED
  BY <1>1, <1>2

\* What takes the place of line l says what l says, or names the pass has made up with
\* this number, and nothing twice.
Replaces(new, l, p, number) ==
  /\ IsFile(new) /\ Len(new) >= 1
  /\ \A k \in Kinds : \A s :
       /\ Said(new, k, s) =>
            Says(l, k, s) \/ (Treats(p, l) /\ Made(s) /\ s[1] = p /\ s[2] = number)
       /\ ~Twice(new, k, s)

LEMMA OneForOne ==
  ASSUME NEW l, NEW m, IsLine(m), \A k \in Kinds : \A s : Says(m, k, s) => Says(l, k, s),
         NEW p, NEW number
  PROVE  Replaces(<<m>>, l, p, number)
<1>1. IsFile(<<m>>) /\ Len(<<m>>) >= 1
  BY OneLine
<1>2. ASSUME NEW k \in Kinds, NEW s
      PROVE  (Said(<<m>>, k, s) => Says(l, k, s)) /\ ~Twice(<<m>>, k, s)
  BY OneLine
<1> QED
  BY <1>1, <1>2 DEF Replaces

\* An assignment is told from the other lines by its kind, and has its parts.
LEMMA AssignParts ==
  ASSUME NEW l, IsLine(l), l.k = "assign"
  PROVE  /\ l = Assign(l.dst, l.left, l.op, l.right)
         /\ IsSequence(l.left.elems) /\ IsSequence(l.right.elems)
BY DEF IsLine, ModuleLine, Decl

\* An assignment as a function of its fields.
Fields == {"k", "dst", "left", "op", "right"}
AssignField(dst, left, op, right, f) ==
  CASE f = "k" -> "assign" [] f = "dst" -> dst [] f = "left" -> left [] f = "op" -> op
    [] OTHER -> right

LEMMA AssignFunction ==
  ASSUME NEW dst, NEW left, NEW op, NEW right
  PROVE  Assign(dst, left, op, right) =
           [f \in Fields |-> AssignField(dst, left, op, right, f)]
BY DEF Assign, Fields, AssignField

LEMMA AssignIsLine ==
  ASSUME NEW dst, NEW left, IsSequence(left.elems), NEW op, NEW right, IsSequence(right.elems)
  PROVE  /\ IsLine(Assign(dst, left, op, right))
         /\ \A k \in Kinds : \A s :
              Says(Assign(dst, left, op, right), k, s) <=> k = "assign" /\ s = dst
<1>1. PICK l : l = Assign(dst, left, op, right)
  OBVIOUS
<1>2. l.k = "assign" /\ l.dst = dst /\ l.left = left /\ l.op = op /\ l.right = right
  BY <1>1 DEF Assign
<1>3. IsLine(l)
  BY <1>1, <1>2 DEF IsLine
<1>4. \A k \in Kinds : \A s : Says(l, k, s) <=> k = "assign" /\ s = dst
  BY <1>2 DEF Says, Kinds
<1> QED
  BY <1>1, <1>3, <1>4

LEMMA DeclIsLine ==
  ASSUME NEW sig, NEW width, NEW matches
  PROVE  /\ IsLine(Decl(sig, width, matches))
         /\ \A k \in Kinds : \A s :
              Says(Decl(sig, width, matches), k, s) <=> k = "decl" /\ s = sig
<1>1. PICK l : l = Decl(sig, width, matches)
  OBVIOUS
<1>2. l.k = "decl" /\ l.sig = sig /\ l.width = width /\ l.matches = matches
  BY <1>1 DEF Decl
<1>3. IsLine(l)
  BY <1>1, <1>2 DEF IsLine
<1>4. \A k \in Kinds : \A s : Says(l, k, s) <=> k = "decl" /\ s = sig
  BY <1>2 DEF Says, Kinds
<1> QED
  BY <1>1, <1>3, <1>4

LEMMA CompressReplaces ==
  ASSUME NEW l, IsLine(l), NEW number
  PROVE  Replaces(Compress(l), l, "compress", number)
<1>1. CASE l.k = "assign"
  <2>1. /\ l = Assign(l.dst, l.left, l.op, l.right)
        /\ IsSequence(l.left.elems) /\ IsSequence(l.right.elems)
    BY <1>1, AssignParts
  <2>2. PICK dst, left, op, right : dst = l.dst /\ left = l.left /\ op = l.op /\ right = l.right
    OBVIOUS
  <2>3. PICK m : m = Assign(dst, CompressBracket(left), op, CompressBracket(right))
    OBVIOUS
  <2>4. Compress(l) = <<m>>
    <3>1. PICK x, y : x = CompressBracket(l.left) /\ y = CompressBracket(l.right)
      OBVIOUS
    <3>2. [l EXCEPT !.left = x, !.right = y] = Assign(dst, x, op, y)
      <4>1. l = [f \in Fields |-> AssignField(dst, left, op, right, f)]
        BY <2>1, <2>2, AssignFunction
      <4>2. [l EXCEPT !.left = x, !.right = y] =
              [f \in Fields |-> AssignField(dst, x, op, y, f)]
        BY <4>1 DEF Fields, AssignField
      <4> QED
        BY <4>2, AssignFunction
    <3>3. m = Assign(dst, x, op, y)
      BY <2>2, <2>3, <3>1
    <3> QED
      BY <1>1, <3>1, <3>2, <3>3 DEF Compress
  <2>5. IsSequence(CompressBracket(left).elems) /\ IsSequence(CompressBracket(right).elems)
    BY <2>1, <2>2, CompressedIsSequence
  <2>6. IsLine(m) /\ \A k \in Kinds : \A s : Says(m, k, s) <=> k = "assign" /\ s = dst
    BY <2>3, <2>5, AssignIsLine
  <2>7. \A k \in Kinds : \A s : Says(m, k, s) => Says(l, k, s)
    BY <1>1, <2>2, <2>6 DEF Says
  <2> QED
    BY <2>4, <2>6, <2>7, OneForOne
<1>2. CASE l.k # "assign"
  <2>1. Compress(l) = <<l>>
    BY <1>2 DEF Compress
  <2> QED
    BY <2>1, OneForOne
<1> QED
  BY <1>1, <1>2

\* The three lines of an expand pass.
LEMMA ThreeLines ==
  ASSUME NEW a, IsLine(a), NEW b, IsLine(b), NEW c, IsLine(c)
  PROVE  /\ IsFile(<<a, b, c>>) /\ Len(<<a, b, c>>) >= 1
         /\ \A k, s : Said(<<a, b, c>>, k, s) =>
              Says(a, k, s) \/ Says(b, k, s) \/ Says(c, k, s)
         /\ \A k, s : Twice(<<a, b, c>>, k, s) =>
              \/ Says(a, k, s) /\ Says(b, k, s)
              \/ Says(a, k, s) /\ Says(c, k, s)
              \/ Says(b, k, s) /\ Says(c, k, s)
<1>1. PICK f : f = <<a, b, c>>
  OBVIOUS
<1>2. f \in Seq({a, b, c}) /\ Len(f) = 3 /\ f[1] = a /\ f[2] = b /\ f[3] = c
  BY <1>1
<1>3. \A i : i \in 1 .. Len(f) <=> i = 1 \/ i = 2 \/ i = 3
  BY <1>2
<1>4. IsFile(f)
  BY <1>2, <1>3 DEF IsFile, IsSequence
<1>5. ASSUME NEW k, NEW s, Said(f, k, s)
      PROVE  Says(a, k, s) \/ Says(b, k, s) \/ Says(c, k, s)
  BY <1>2, <1>3, <1>5 DEF Said
<1>6. ASSUME NEW k, NEW s, Twice(f, k, s)
      PROVE  \/ Says(a, k, s) /\ Says(b, k, s)
             \/ Says(a, k, s) /\ Says(c, k, s)
             \/ Says(b, k, s) /\ Says(c, k, s)
  <2>1. PICK i, j \in 1 .. Len(f) : i # j /\ Says(f[i], k, s) /\ Says(f[j], k, s)
    BY <1>6 DEF Twice
  <2> QED
    BY <1>2, <1>3, <2>1
<1> QED
  BY <1>1, <1>2, <1>4, <1>5, <1>6

Makers == {"left", "right", "reduction", "divide"}

\* What the passes that make wires ask of a line: its own name is none of theirs.
Foreign(l, p) == l.k = "assign" => l.dst[1] # p

LEMMA HoistReplaces ==
  ASSUME NEW l, IsLine(l), l.k = "assign", NEW p \in Makers, Foreign(l, p), Treats(p, l),
         NEW file0, NEW n, NEW number, NEW side \in {"left", "right"}, NEW width
  PROVE  Replaces(Hoist(l, file0, n, p, number, side, width), l, p, number)
<1>1. PICK dst, left, op, right : dst = l.dst /\ left = l.left /\ op = l.op /\ right = l.right
  OBVIOUS
<1>2. l = Assign(dst, left, op, right) /\ IsSequence(left.elems) /\ IsSequence(right.elems)
  BY <1>1, AssignParts
<1>3. PICK w : w = Wire(p, number)
  OBVIOUS
<1>4. w[1] = p /\ w[2] = number /\ Made(w) /\ w # dst
  BY <1>1, <1>3 DEF Wire, Made, Makers, Foreign
<1>5. IsSequence(Plain(w).elems) /\ IsSequence(NoOperand.elems) /\ IsSequence(l[side].elems)
  <2>1. <<Whole(w)>> \in Seq({Whole(w)}) /\ <<>> \in Seq({})
    OBVIOUS
  <2>2. Plain(w).elems = <<Whole(w)>> /\ NoOperand.elems = <<>>
    BY DEF Plain, NoOperand
  <2>3. l["left"] = left /\ l["right"] = right
    BY <1>1
  <2> QED
    BY <1>2, <2>1, <2>2, <2>3 DEF IsSequence
<1>6. PICK a, b, c : /\ a = Decl(w, width, p # "reduction")
                     /\ b = Assign(w, l[side], "none", NoOperand)
                     /\ c = [l EXCEPT ![side] = Plain(w)]
  OBVIOUS
<1>7. Hoist(l, file0, n, p, number, side, width) = <<a, b, c>>
  BY <1>3, <1>6 DEF Hoist
<1>8. IsLine(a) /\ \A k \in Kinds : \A s : Says(a, k, s) <=> k = "decl" /\ s = w
  BY <1>6, DeclIsLine
<1>9. IsLine(b) /\ \A k \in Kinds : \A s : Says(b, k, s) <=> k = "assign" /\ s = w
  BY <1>5, <1>6, AssignIsLine
<1>10. IsLine(c) /\ \A k \in Kinds : \A s : Says(c, k, s) <=> k = "assign" /\ s = dst
  <2>1. c = [f \in Fields |-> IF f = side THEN Plain(w)
                                          ELSE AssignField(dst, left, op, right, f)]
    <3>1. l = [f \in Fields |-> AssignField(dst, left, op, right, f)]
      BY <1>2, AssignFunction
    <3> QED
      BY <1>6, <3>1 DEF Fields
  <2>2. CASE side = "left"
    <3>1. c = Assign(dst, Plain(w), op, right)
      <4>1. c = [f \in Fields |-> AssignField(dst, Plain(w), op, right, f)]
        BY <2>2, <2>1 DEF Fields, AssignField
      <4> QED
        BY <4>1, AssignFunction
    <3> QED
      BY <1>2, <1>5, <3>1, AssignIsLine
  <2>3. CASE side = "right"
    <3>1. c = Assign(dst, left, op, Plain(w))
      <4>1. c = [f \in Fields |-> AssignField(dst, left, op, Plain(w), f)]
        BY <2>3, <2>1 DEF Fields, AssignField
      <4> QED
        BY <4>1, AssignFunction
    <3> QED
      BY <1>2, <1>5, <3>1, AssignIsLine
  <2> QED
    BY <2>2, <2>3
<1>11. \A k \in Kinds : \A s : Says(l, k, s) <=> k = "assign" /\ s = dst
  BY <1>2, AssignIsLine
<1>12. IsFile(<<a, b, c>>) /\ Len(<<a, b, c>>) >= 1
  BY <1>8, <1>9, <1>10, ThreeLines
<1>13. ASSUME NEW k \in Kinds, NEW s
       PROVE  /\ Said(<<a, b, c>>, k, s) =>
                   Says(l, k, s) \/ (Treats(p, l) /\ Made(s) /\ s[1] = p /\ s[2] = number)
              /\ ~Twice(<<a, b, c>>, k, s)
  <2>1. Said(<<a, b, c>>, k, s) => Says(a, k, s) \/ Says(b, k, s) \/ Says(c, k, s)
    BY <1>8, <1>9, <1>10, ThreeLines
  <2>2. Twice(<<a, b, c>>, k, s) => \/ Says(a, k, s) /\ Says(b, k, s)
                                    \/ Says(a, k, s) /\ Says(c, k, s)
                                    \/ Says(b, k, s) /\ Says(c, k, s)
    BY <1>8, <1>9, <1>10, ThreeLines
  <2> QED
    BY <1>4, <1>8, <1>9, <1>10, <1>11, <2>1, <2>2
<1> QED
  BY <1>7, <1>12, <1>13 DEF Replaces

\* The lines that declare the parts, or drive them, one for each.
IsForPart(l, kind, number, j) ==
  /\ IsLine(l)
  /\ \A k \in Kinds : \A s : Says(l, k, s) <=> k = kind /\ s = Part(number, j - 1)

AreForParts(f, kind, number) ==
  IsSequence(f) /\ \A j \in 1 .. Len(f) : IsForPart(f[j], kind, number, j)
SaysParts(f, kind, number) ==
  \A k \in Kinds : \A s :
    /\ Said(f, k, s) => k = kind /\ s[1] = "divide" /\ s[2] = number /\ s[3] # 0
    /\ ~Twice(f, k, s)

LEMMA OnePerPart ==
  ASSUME NEW f, NEW kind, NEW number, AreForParts(f, kind, number)
  PROVE  IsFile(f) /\ SaysParts(f, kind, number)
<1>1. IsFile(f)
  BY DEF IsFile, AreForParts, IsForPart
<1>2. ASSUME NEW j \in 1 .. Len(f), NEW k \in Kinds, NEW s, Says(f[j], k, s)
      PROVE  k = kind /\ s[1] = "divide" /\ s[2] = number /\ s[3] = j
  <2>1. k = kind /\ s = Part(number, j - 1)
    BY <1>2 DEF AreForParts, IsForPart
  <2> QED
    BY <2>1 DEF Part
<1>3. \A j \in 1 .. Len(f) : j # 0
  BY SequenceLength DEF AreForParts
<1>4. ASSUME NEW k \in Kinds, NEW s, Said(f, k, s)
      PROVE  k = kind /\ s[1] = "divide" /\ s[2] = number /\ s[3] # 0
  BY <1>2, <1>3, <1>4 DEF Said
<1>5. ASSUME NEW k \in Kinds, NEW s, Twice(f, k, s) PROVE FALSE
  <2>1. PICK i, j \in 1 .. Len(f) : i # j /\ Says(f[i], k, s) /\ Says(f[j], k, s)
    BY <1>5 DEF Twice
  <2>2. s[3] = i /\ s[3] = j
    BY <1>2, <2>1
  <2> QED
    BY <2>1, <2>2
<1> QED
  BY <1>1, <1>4, <1>5 DEF SaysParts

\* Every part has terms of the concatenation.
LEMMA PartsFit ==
  ASSUME NEW n \in Nat, NEW m \in Nat \ {0}, NEW parts, parts = (n + m - 1) \div m
  PROVE  parts \in Nat /\ \A i \in 0 .. (parts - 1) : i * m \in 0 .. (n - 1)
<1>1. n + m - 1 \in Nat
  OBVIOUS
<1>2. parts \in Nat /\ parts * m <= n + m - 1
  BY <1>1
<1>3. ASSUME NEW i \in 0 .. (parts - 1) PROVE i * m \in 0 .. (n - 1)
  <2>1. i * m \in Nat /\ i * m <= (parts - 1) * m
    BY <1>2
  <2>2. (parts - 1) * m = parts * m - m
    BY <1>2
  <2>3. parts * m \in Nat
    BY <1>2
  <2> QED
    BY <1>2, <2>1, <2>2, <2>3
<1> QED
  BY <1>2, <1>3

\* What is cut out of a sequence is one, wherever it is cut.
LEMMA SubSeqIsSequence ==
  ASSUME NEW s, NEW m \in Int, NEW n \in Int
  PROVE  IsSequence(SubSeq(s, m, n))
<1>1. PICK S : S = {s[i] : i \in m .. n}
  OBVIOUS
<1>2. \A i \in m .. n : s[i] \in S
  BY <1>1
<1>3. SubSeq(s, m, n) \in Seq(S)
  BY <1>2, SubSeqProperties
<1> QED
  BY <1>3 DEF IsSequence

LEMMA TermBounds ==
  ASSUME NEW len \in Nat, NEW i \in Nat
  PROVE  FirstTerm(i) \in Int /\ LastTerm(len, i) \in Int
<1>1. PICK a, b : a = i * MaxTerms /\ b = (i + 1) * MaxTerms
  OBVIOUS
<1>2. a \in Int /\ b \in Int
  BY <1>1, MaxTermsAssumption
<1>3. FirstTerm(i) = a + 1 /\ LastTerm(len, i) = IF b < len THEN b ELSE len
  BY <1>1 DEF FirstTerm, LastTerm
<1> QED
  BY <1>2, <1>3

LEMMA ContentLength ==
  ASSUME NEW l, IsLine(l), l.k = "assign", Divides(l)
  PROVE  ContentLen(l) \in Nat \ {0}
<1>1. Len(l.left.elems) \in Nat /\ Len(l.right.elems) \in Nat
  BY AssignParts, SequenceLength
<1>2. PICK a \in Nat, b \in Nat : a = Len(l.left.elems) /\ b = Len(l.right.elems)
  BY <1>1
<1>3. ContentLen(l) = a \/ ContentLen(l) = a + b - 1
  BY <1>2 DEF ContentLen
<1>4. ContentLen(l) >= MaxTerms
  BY DEF Divides
<1> QED
  BY <1>3, <1>4, MaxTermsAssumption

LEMMA PlainIsSequence ==
  ASSUME NEW s
  PROVE  IsSequence(Plain(s).elems) /\ IsSequence(NoOperand.elems)
<1>1. <<Whole(s)>> \in Seq({Whole(s)}) /\ <<>> \in Seq({})
  OBVIOUS
<1> QED
  BY <1>1 DEF Plain, NoOperand, IsSequence

\* The line that assigns a part.
LEMMA PartIsLine ==
  ASSUME NEW l, IsLine(l), l.k = "assign", Divides(l), NEW number, NEW i \in Nat
  PROVE  /\ IsLine(PartAssign(l, number, i))
         /\ \A k \in Kinds : \A s :
              Says(PartAssign(l, number, i), k, s) <=> k = "assign" /\ s = Part(number, i)
<1>1. PICK left, right, from, to, cut :
        /\ left = l.left.elems /\ right = l.right.elems /\ from = FirstTerm(i)
        /\ to = LastTerm(ContentLen(l), i) /\ cut = Len(left)
  OBVIOUS
<1>2. from \in Int /\ to \in Int /\ cut \in Nat
  BY <1>1, ContentLength, TermBounds, AssignParts, SequenceLength
<1>3. PICK next : next = IF i = Parts(ContentLen(l)) - 1 THEN <<>>
                         ELSE <<Whole(Part(number, i + 1))>>
  OBVIOUS
<1>4. IsSequence(next)
  <2>1. PICK w : w = Whole(Part(number, i + 1))
    OBVIOUS
  <2>2. <<>> \in Seq({w}) /\ <<w>> \in Seq({w})
    OBVIOUS
  <2> QED
    BY <1>3, <2>1, <2>2 DEF IsSequence
<1>5. PICK part : part = Part(number, i)
  OBVIOUS
<1>6. ASSUME NEW a, IsSequence(a), NEW op, NEW o, IsSequence(o.elems),
             NEW m, m = Assign(part, Braced(a), op, o)
      PROVE  IsLine(m) /\ \A k \in Kinds : \A s : Says(m, k, s) <=> k = "assign" /\ s = part
  <2>1. PICK x : x = Braced(a)
    OBVIOUS
  <2>2. IsSequence(x.elems)
    BY <1>6, <2>1 DEF Braced
  <2> QED
    BY <1>6, <2>1, <2>2, AssignIsLine
<1>7. PICK a, b, c, d : /\ a = SubSeq(left, from, to)
                        /\ b = SubSeq(right, from - cut + 1, to - cut + 1)
                        /\ c = SubSeq(left, from, cut) /\ d = SubSeq(right, 1, to - cut + 1)
  OBVIOUS
<1>8. /\ IsSequence(a \o next) /\ IsSequence(b \o next) /\ IsSequence(c)
      /\ IsSequence(d \o next)
  <2>1. from - cut + 1 \in Int /\ to - cut + 1 \in Int /\ 1 \in Int
    BY <1>2
  <2>2. IsSequence(a) /\ IsSequence(b) /\ IsSequence(c) /\ IsSequence(d)
    BY <1>2, <1>7, <2>1, SubSeqIsSequence
  <2> QED
    BY <1>4, <2>2, Concatenation
<1>9. \/ PartAssign(l, number, i) = Assign(part, Braced(a \o next), "none", NoOperand)
      \/ PartAssign(l, number, i) = Assign(part, Braced(b \o next), "none", NoOperand)
      \/ PartAssign(l, number, i) = Assign(part, Braced(c), l.op, Braced(d \o next))
  BY <1>1, <1>3, <1>5, <1>7 DEF PartAssign
<1>10. PICK m : m = PartAssign(l, number, i)
  OBVIOUS
<1>11. IsLine(m) /\ \A k \in Kinds : \A s : Says(m, k, s) <=> k = "assign" /\ s = part
  <2>1. PICK x, op, o : m = Assign(part, Braced(x), op, o) /\ IsSequence(x) /\ IsSequence(o.elems)
    <3>1. IsSequence(NoOperand.elems)
      BY PlainIsSequence
    <3>2. PICK e : e = Braced(d \o next)
      OBVIOUS
    <3>3. IsSequence(e.elems)
      BY <1>8, <3>2 DEF Braced
    <3> QED
      BY <1>8, <1>9, <1>10, <3>1, <3>2, <3>3
  <2> QED
    BY <1>6, <2>1
<1> QED
  BY <1>5, <1>10, <1>11

LEMMA DivideReplaces ==
  ASSUME NEW l, IsLine(l), l.k = "assign", Foreign(l, "divide"), Treats("divide", l),
         NEW number
  PROVE  Replaces(Divide(l, number), l, "divide", number)
<1>1. PICK len, parts, whole : /\ len = ContentLen(l) /\ parts = Parts(len)
                               /\ whole = <<"divide", number, 0>>
  OBVIOUS
<1> DEFINE Width(i) == IF i = parts - 1 THEN LastTerm(len, i) - FirstTerm(i) + 1
                       ELSE MaxTerms + 1
<1>2. Divides(l)
  BY DEF Treats
<1>3. len \in Nat
  BY <1>1, <1>2, ContentLength
<1>4. parts \in Nat
  BY <1>1, <1>3, MaxTermsAssumption, PartsFit DEF Parts
<1>5. PICK decls : decls = [j \in 1 .. parts |-> Decl(Part(number, j - 1), Width(j - 1), FALSE)]
  OBVIOUS
<1>6. PICK assigns : assigns = [j \in 1 .. parts |-> PartAssign(l, number, j - 1)]
  OBVIOUS
<1>7. PICK a, b, c : /\ a = Decl(whole, len, FALSE)
                     /\ b = Assign(whole, Plain(Part(number, 0)), "none", NoOperand)
                     /\ c = Assign(l.dst, Plain(whole), "none", NoOperand)
  OBVIOUS
<1>8. Divide(l, number) = <<a>> \o decls \o <<b>> \o assigns \o <<c>>
  BY <1>1, <1>5, <1>6, <1>7 DEF Divide
<1>9. IsFile(decls) /\ Len(decls) = parts /\ SaysParts(decls, "decl", number)
  <2>1. IsSequence(decls) /\ Len(decls) = parts
    BY <1>4, <1>5, FunctionIsSequence
  <2>2. ASSUME NEW j \in 1 .. parts
        PROVE  IsForPart(decls[j], "decl", number, j)
    <3>1. PICK width, no : decls[j] = Decl(Part(number, j - 1), width, no)
      BY <1>5
    <3>2. PICK part, m : part = Part(number, j - 1) /\ m = Decl(part, width, no)
      OBVIOUS
    <3>3. IsLine(m) /\ \A k \in Kinds : \A s : Says(m, k, s) <=> k = "decl" /\ s = part
      BY <3>2, DeclIsLine
    <3> QED
      BY <3>1, <3>2, <3>3 DEF IsForPart
  <2> QED
    BY <2>1, <2>2, OnePerPart DEF AreForParts
<1>10. IsFile(assigns) /\ Len(assigns) = parts /\ SaysParts(assigns, "assign", number)
  <2>1. IsSequence(assigns) /\ Len(assigns) = parts
    BY <1>4, <1>6, FunctionIsSequence
  <2>2. ASSUME NEW j \in 1 .. parts
        PROVE  IsForPart(assigns[j], "assign", number, j)
    <3>1. j - 1 \in Nat /\ assigns[j] = PartAssign(l, number, j - 1)
      BY <1>4, <1>6
    <3> QED
      BY <1>2, <3>1, PartIsLine DEF IsForPart
  <2> QED
    BY <2>1, <2>2, OnePerPart DEF AreForParts
<1>11. /\ IsLine(a) /\ \A k \in Kinds : \A s : Says(a, k, s) <=> k = "decl" /\ s = whole
       /\ IsLine(b) /\ \A k \in Kinds : \A s : Says(b, k, s) <=> k = "assign" /\ s = whole
       /\ IsLine(c) /\ \A k \in Kinds : \A s : Says(c, k, s) <=> k = "assign" /\ s = l.dst
  BY <1>7, PlainIsSequence, DeclIsLine, AssignIsLine
<1>12. \A k \in Kinds : \A s : Says(l, k, s) <=> k = "assign" /\ s = l.dst
  BY DEF Says, Kinds
<1>13. whole[1] = "divide" /\ whole[2] = number /\ whole[3] = 0 /\ l.dst[1] # "divide"
  BY <1>1 DEF Foreign
<1>14. PICK f, g, h : f = <<a>> \o decls /\ g = f \o <<b>> /\ h = g \o assigns
  OBVIOUS
<1>15. IsFile(f) /\ Len(f) >= 1 /\ IsFile(g) /\ Len(g) >= 1 /\ IsFile(h) /\ Len(h) >= 1
       /\ IsFile(h \o <<c>>) /\ Len(h \o <<c>>) >= 1
  <2>1. IsFile(<<a>>) /\ IsFile(<<b>>) /\ IsFile(<<c>>)
        /\ Len(<<a>>) = 1 /\ Len(<<b>>) = 1 /\ Len(<<c>>) = 1
    BY <1>11, OneLine
  <2>2. IsFile(f) /\ Len(f) = 1 + parts
    BY <1>9, <1>14, <2>1, Joined
  <2>3. IsFile(g) /\ Len(g) = Len(f) + 1
    BY <1>14, <2>1, <2>2, Joined
  <2>4. IsFile(h) /\ Len(h) = Len(g) + parts
    BY <1>10, <1>14, <2>3, Joined
  <2>5. IsFile(h \o <<c>>) /\ Len(h \o <<c>>) = Len(h) + 1
    BY <2>1, <2>4, Joined
  <2> QED
    BY <1>4, <2>2, <2>3, <2>4, <2>5
<1>16. ASSUME NEW k \in Kinds, NEW s
       PROVE  /\ Said(h \o <<c>>, k, s) =>
                   Says(l, k, s) \/ (Made(s) /\ s[1] = "divide" /\ s[2] = number)
              /\ ~Twice(h \o <<c>>, k, s)
  <2>1. /\ Said(f, k, s) => k = "decl" /\ s[1] = "divide" /\ s[2] = number
        /\ ~Twice(f, k, s)
    <3>1. /\ IsFile(<<a>>) /\ ~Twice(<<a>>, k, s)
          /\ Said(<<a>>, k, s) => k = "decl" /\ s = whole
      BY <1>11, OneLine
    <3>2. /\ Said(f, k, s) => Said(<<a>>, k, s) \/ Said(decls, k, s)
          /\ Twice(f, k, s) => Said(<<a>>, k, s) /\ Said(decls, k, s)
      <4>1. ~Twice(decls, k, s)
        BY <1>9 DEF SaysParts
      <4> QED
        BY <1>9, <1>14, <3>1, <4>1, Joined
    <3> QED
      BY <1>9, <1>13, <3>1, <3>2 DEF SaysParts
  <2>2. /\ Said(g, k, s) => /\ s[1] = "divide" /\ s[2] = number
                            /\ k = "decl" \/ (k = "assign" /\ s[3] = 0)
        /\ ~Twice(g, k, s)
    <3>1. /\ IsFile(<<b>>) /\ ~Twice(<<b>>, k, s)
          /\ Said(<<b>>, k, s) => k = "assign" /\ s = whole
      BY <1>11, OneLine
    <3>2. /\ Said(g, k, s) => Said(f, k, s) \/ Said(<<b>>, k, s)
          /\ Twice(g, k, s) => Said(f, k, s) /\ Said(<<b>>, k, s)
      BY <1>14, <1>15, <2>1, <3>1, Joined
    <3> QED
      BY <1>13, <2>1, <3>1, <3>2
  <2>3. /\ Said(h, k, s) => s[1] = "divide" /\ s[2] = number
        /\ ~Twice(h, k, s)
    BY <1>10, <1>14, <1>15, <2>2, Joined DEF SaysParts
  <2>4. /\ Said(h \o <<c>>, k, s) =>
             (s[1] = "divide" /\ s[2] = number) \/ (k = "assign" /\ s = l.dst)
        /\ ~Twice(h \o <<c>>, k, s)
    BY <1>11, <1>13, <1>15, <2>3, OneLine, Joined
  <2>5. s[1] = "divide" => Made(s)
    BY DEF Made
  <2> QED
    BY <1>12, <2>4, <2>5
<1> QED
  BY <1>8, <1>14, <1>15, <1>16 DEF Replaces

LEMMA RewriteReplaces ==
  ASSUME NEW f, NEW n, NEW p \in Makers \cup {"compress"}, NEW number,
         IsLine(f[n]), p \in Makers => Foreign(f[n], p),
         Rewrite(p, f, n, number) # <<Error>>
  PROVE  Replaces(Rewrite(p, f, n, number), f[n], p, number)
<1>1. PICK l : l = f[n]
  OBVIOUS
<1>2. IsLine(l) /\ (p \in Makers => Foreign(l, p))
  BY <1>1
<1>3. CASE p = "compress"
  <2>1. Rewrite(p, f, n, number) = Compress(l)
    BY <1>1, <1>3 DEF Rewrite
  <2> QED
    BY <1>1, <1>2, <1>3, <2>1, CompressReplaces
<1>4. CASE p # "compress" /\ ~Treats(p, l)
  <2>1. Rewrite(p, f, n, number) = <<l>>
    BY <1>1, <1>4 DEF Rewrite
  <2> QED
    BY <1>1, <1>2, <2>1, OneForOne
<1>5. CASE p # "compress" /\ Treats(p, l)
  <2>1. l.k = "assign" /\ p \in Makers
    BY <1>5 DEF Treats, Makers, ExpandsLeft, ExpandsRight, ExpandsReduction, Divides,
               IsOperation
  <2>2. CASE p \in {"left", "right"}
    <3>1. PICK side \in {"left", "right"} : side = p
      BY <2>2
    <3>2. Rewrite(p, f, n, number) = Measured(l, f, n, p, number, side)
      BY <1>1, <1>5, <3>1 DEF Rewrite
    <3>3. PICK width : Rewrite(p, f, n, number) = Hoist(l, f, n, p, number, side, width)
      BY <3>2 DEF Measured
    <3> QED
      BY <1>1, <1>2, <1>5, <2>1, <3>3, HoistReplaces
  <2>3. CASE p = "reduction"
    <3>1. PICK width : Rewrite(p, f, n, number) = Hoist(l, f, n, p, number, "right", width)
      BY <1>1, <1>5, <2>3 DEF Rewrite
    <3> QED
      BY <1>1, <1>2, <1>5, <2>1, <3>1, HoistReplaces
  <2>4. CASE p = "divide"
    <3>1. Rewrite(p, f, n, number) = Divide(l, number)
      BY <1>1, <1>5, <2>4 DEF Rewrite
    <3> QED
      BY <1>1, <1>2, <1>5, <2>1, <2>4, <3>1, DivideReplaces
  <2> QED
    BY <2>1, <2>2, <2>3, <2>4 DEF Makers
<1> QED
  BY <1>3, <1>4, <1>5

-----------------------------------------------------------------------------
(* The passes on a file. *)
LEMMA FileLength == FileInv => IsSequence(file) /\ Len(file) \in Nat
BY SequenceLength DEF FileInv, IsFile

LEMMA EmptyFile ==
  /\ IsFile(<<>>) /\ Len(<<>>) = 0
  /\ \A k, s : ~Said(<<>>, k, s) /\ ~Twice(<<>>, k, s)
<1>1. PICK f : f = <<>>
  OBVIOUS
<1>2. f \in Seq({}) /\ Len(f) = 0
  BY <1>1
<1>3. \A i : i \notin 1 .. Len(f)
  BY <1>2
<1>4. IsFile(f)
  BY <1>2, <1>3 DEF IsFile, IsSequence
<1>5. \A k, s : ~Said(f, k, s) /\ ~Twice(f, k, s)
  BY <1>3 DEF Said, Twice
<1> QED
  BY <1>1, <1>2, <1>4, <1>5

LEMMA InvInit == Init => IInv
<1> SUFFICES ASSUME Init PROVE IInv
  OBVIOUS
<1>1. origin \in Files /\ file = origin /\ pass = "none" /\ applied = {}
  BY DEF Init
<1>2. IsSequence(file)
  BY <1>1, FilesAssumption DEF IsSeq, IsSequence
<1>3. Len(file) \in Nat
  BY <1>2, SequenceLength
<1>4. ASSUME NEW i \in 1 .. Len(file)
      PROVE  IsLine(file[i]) /\ \A k \in Kinds : \A s : Says(file[i], k, s) => ~Made(s)
  <2>1. PICK l : l = file[i]
    OBVIOUS
  <2>2. \/ l = ModuleLine
        \/ l.k = "decl" /\ ~Made(l.sig) /\ l = Decl(l.sig, l.width, l.matches)
        \/ /\ l.k = "assign" /\ ~Made(l.dst) /\ l = Assign(l.dst, l.left, l.op, l.right)
           /\ IsSeq(l.left.elems) /\ IsSeq(l.right.elems)
    BY <1>1, <2>1, FilesAssumption
  <2>3. IsLine(l)
    BY <2>2 DEF IsLine, IsSeq, IsSequence
  <2>4. \A k \in Kinds : \A s : Says(l, k, s) => ~Made(s)
    BY <2>2 DEF Says, Kinds, ModuleLine
  <2> QED
    BY <2>1, <2>3, <2>4
<1>5. IsFile(file)
  BY <1>2, <1>4 DEF IsFile
<1>6. ASSUME NEW k \in Kinds, NEW s, Said(file, k, s) PROVE ~Made(s)
  BY <1>4, <1>6 DEF Said
<1>7. ASSUME NEW k \in Kinds, NEW s, Twice(file, k, s)
      PROVE  ~Made(s) /\ (k = "assign" => DrivenTwice(origin, s))
  <2>1. ~Made(s)
    BY <1>6, <1>7 DEF Twice, Said
  <2>2. k = "assign" => DrivenTwice(origin, s)
    BY <1>1, <1>7 DEF Twice, DrivenTwice, Drives, Says
  <2> QED
    BY <2>1, <2>2
<1>8. FileInv
  BY <1>5, <1>6, <1>7 DEF FileInv
<1>9. Counters
  <2>1. at = 0 /\ treated = 0 /\ raised \in BOOLEAN /\ applied \subseteq Passes
        /\ pass \in Passes \cup {"none"}
    BY DEF Init
  <2>2. at \in 0 .. (Len(file) + 1) /\ treated \in 0 .. Len(file)
    BY <1>3, <2>1
  <2> QED
    BY <1>1, <2>1, <2>2 DEF Counters
<1>10. OutInv
  BY <1>1 DEF OutInv
<1> QED
  BY <1>8, <1>9, <1>10 DEF IInv

LEMMA RunKeeps == ASSUME IInv, NEW p \in Passes, Run(p) PROVE IInv'
<1>1. /\ pass' = p /\ at' = 1 /\ out' = <<>> /\ treated' = 0 /\ p \notin applied
      /\ UNCHANGED <<origin, file, applied, raised>>
  BY DEF Run
<1>2. Len(file) \in Nat
  BY FileLength DEF IInv
<1>3. Counters'
  BY <1>1, <1>2 DEF IInv, Counters
<1>4. FileInv'
  BY <1>1 DEF IInv, FileInv
<1>5. OutInv'
  BY <1>1, EmptyFile DEF OutInv
<1> QED
  BY <1>3, <1>4, <1>5 DEF IInv

\* A made-up name in the file that is read is not one of the pass that reads it.
LEMMA LinesAreForeign ==
  ASSUME IInv, pass # "none", NEW n \in 1 .. Len(file)
  PROVE  /\ IsLine(file[n]) /\ (pass \in Makers => Foreign(file[n], pass))
         /\ \A k \in Kinds : \A s : Says(file[n], k, s) /\ Made(s) => s[1] # pass
<1>1. IsLine(file[n]) /\ pass \notin applied
  BY DEF IInv, FileInv, IsFile, OutInv
<1>2. ASSUME NEW k \in Kinds, NEW s, Says(file[n], k, s), Made(s) PROVE s[1] # pass
  <2>1. Said(file, k, s)
    BY <1>2 DEF Said
  <2>2. s[1] \in applied
    BY <1>2, <2>1 DEF IInv, FileInv
  <2> QED
    BY <1>1, <2>2
<1>3. ASSUME pass \in Makers, file[n].k = "assign", file[n].dst[1] = pass PROVE FALSE
  <2>1. Says(file[n], "assign", file[n].dst) /\ Made(file[n].dst)
    BY <1>3 DEF Says, Made, Makers
  <2> QED
    BY <1>2, <1>3, <2>1 DEF Kinds
<1> QED
  BY <1>1, <1>2, <1>3 DEF Foreign

LEMMA LineKeeps == ASSUME IInv, Line PROVE IInv'
<1>1. /\ pass # "none" /\ at <= Len(file) /\ at \in Nat /\ at >= 1
      /\ treated \in Nat /\ treated <= at - 1 /\ Len(file) \in Nat
      /\ pass \in Passes \ applied
  BY FileLength DEF Line, IInv, Counters, OutInv
<1>2. UNCHANGED <<origin, file, applied>>
  BY DEF Line
<1>3. FileInv'
  BY <1>2 DEF IInv, FileInv
<1>4. PICK new : new = Rewrite(pass, file, at, treated)
  OBVIOUS
<1>5. CASE new = <<Error>>
  <2>1. pass' = "none" /\ raised' = TRUE /\ UNCHANGED <<at, out, treated>>
    BY <1>4, <1>5 DEF Line
  <2>2. Counters'
    BY <1>1, <1>2, <2>1 DEF IInv, Counters
  <2>3. OutInv'
    BY <2>1 DEF OutInv
  <2> QED
    BY <1>3, <2>2, <2>3 DEF IInv
<1>6. CASE new # <<Error>>
  <2>1. /\ out' = out \o new /\ at' = at + 1 /\ UNCHANGED <<pass, raised>>
        /\ treated' = treated + IF Treats(pass, file[at]) THEN 1 ELSE 0
    BY <1>4, <1>6 DEF Line
  <2>2. Counters'
    BY <1>1, <1>2, <2>1 DEF IInv, Counters
  <2>3. PICK l : l = file[at]
    OBVIOUS
  <2>4. /\ IsLine(l) /\ (pass \in Makers => Foreign(l, pass))
        /\ \A k \in Kinds : \A s : Says(l, k, s) /\ Made(s) => s[1] # pass
    BY <1>1, <2>3, LinesAreForeign
  <2>5. Replaces(new, l, pass, treated)
    <3>1. pass \in Makers \cup {"compress"}
      BY <1>1, PassesAssumption DEF Makers
    <3> QED
      BY <1>4, <1>6, <2>3, <2>4, <3>1, RewriteReplaces
  <2>6. IsFile(out) /\ Len(out) >= at - 1 /\ IsFile(new) /\ Len(new) >= 1
    BY <1>1, <2>5 DEF IInv, OutInv, Replaces
  <2>7. IsFile(out \o new) /\ Len(out \o new) >= at
    <3>1. Len(out) \in Nat /\ Len(new) \in Nat
      BY <2>6, SequenceLength DEF IsFile
    <3> QED
      BY <1>1, <2>6, <3>1, Joined
  <2>8. ASSUME NEW k \in Kinds, NEW s
        PROVE  /\ Said(out \o new, k, s) =>
                    \/ Made(s) /\ s[1] = pass /\ s[2] \in 0 .. (treated' - 1)
                    \/ \E n \in 1 .. at : Says(file[n], k, s)
               /\ Twice(out \o new, k, s) =>
                    \E m, n \in 1 .. at :
                      m # n /\ Says(file[m], k, s) /\ Says(file[n], k, s)
    <3>1. /\ Said(out, k, s) =>
               \/ Made(s) /\ s[1] = pass /\ s[2] \in 0 .. (treated - 1)
               \/ \E n \in 1 .. (at - 1) : Says(file[n], k, s)
          /\ Twice(out, k, s) =>
               \E m, n \in 1 .. (at - 1) :
                 m # n /\ Says(file[m], k, s) /\ Says(file[n], k, s)
      BY <1>1 DEF IInv, OutInv
    <3>2. /\ Said(new, k, s) =>
               \/ Says(l, k, s)
               \/ Treats(pass, l) /\ Made(s) /\ s[1] = pass /\ s[2] = treated
          /\ ~Twice(new, k, s)
      BY <2>5 DEF Replaces
    <3>3. at \in 1 .. at /\ (\A n \in 1 .. (at - 1) : n \in 1 .. at /\ n # at)
          /\ (\A n \in 1 .. at : n \in 1 .. Len(file))
      BY <1>1
    <3>4. Said(out \o new, k, s) => Said(out, k, s) \/ Said(new, k, s)
      BY <2>6, Joined
    <3>5. Twice(out \o new, k, s) => Twice(out, k, s) \/ (Said(out, k, s) /\ Said(new, k, s))
      BY <2>6, <3>2, Joined
    <3>6. Treats(pass, l) => treated' = treated + 1
      BY <2>1, <2>3
    <3>7. treated' >= treated /\ treated' \in Nat
      BY <1>1, <2>1
    <3>8. ASSUME Said(out \o new, k, s)
          PROVE  \/ Made(s) /\ s[1] = pass /\ s[2] \in 0 .. (treated' - 1)
                 \/ \E n \in 1 .. at : Says(file[n], k, s)
      <4>1. CASE Said(out, k, s)
        <5>1. s[2] \in 0 .. (treated - 1) => s[2] \in 0 .. (treated' - 1)
          BY <1>1, <3>7
        <5> QED
          BY <3>1, <3>3, <4>1, <5>1
      <4>2. CASE Said(new, k, s)
        <5>1. CASE Says(l, k, s)
          BY <2>3, <3>3, <5>1
        <5>2. CASE Treats(pass, l) /\ Made(s) /\ s[1] = pass /\ s[2] = treated
          BY <1>1, <3>6, <5>2
        <5> QED
          BY <3>2, <4>2, <5>1, <5>2
      <4> QED
        BY <3>4, <3>8, <4>1, <4>2
    <3>9. ASSUME Said(out, k, s), Said(new, k, s)
          PROVE  \E n \in 1 .. (at - 1) : Says(file[n], k, s) /\ Says(l, k, s)
      <4>1. CASE Made(s) /\ s[1] = pass /\ s[2] \in 0 .. (treated - 1)
        <5>1. ~Says(l, k, s)
          BY <2>4, <4>1
        <5>2. s[2] # treated
          BY <1>1, <4>1
        <5> QED
          BY <3>2, <3>9, <5>1, <5>2
      <4>2. CASE \E n \in 1 .. (at - 1) : Says(file[n], k, s)
        <5>1. PICK n \in 1 .. (at - 1) : Says(file[n], k, s)
          BY <4>2
        <5>2. Made(s) => s[1] # pass
          BY <1>1, <3>3, <5>1, LinesAreForeign
        <5>3. Says(l, k, s)
          BY <3>2, <3>9, <5>2
        <5> QED
          BY <5>1, <5>3
      <4> QED
        BY <3>1, <3>9, <4>1, <4>2
    <3>10. Twice(out \o new, k, s) =>
             \E m, n \in 1 .. at : m # n /\ Says(file[m], k, s) /\ Says(file[n], k, s)
      BY <2>3, <3>1, <3>3, <3>5, <3>9
    <3> QED
      BY <3>8, <3>10
  <2>9. OutInv'
    <3>1. (at + 1) - 1 = at
      BY <1>1
    <3> QED
      BY <1>1, <1>2, <2>1, <2>7, <2>8, <3>1 DEF OutInv
  <2> QED
    BY <1>3, <2>2, <2>9 DEF IInv
<1> QED
  BY <1>5, <1>6

LEMMA WriteKeeps == ASSUME IInv, Write PROVE IInv'
<1>1. /\ pass # "none" /\ at > Len(file) /\ pass' = "none" /\ file' = out
      /\ applied' = applied \cup {pass} /\ UNCHANGED <<origin, at, out, treated, raised>>
  BY DEF Write
<1>2. /\ at \in 0 .. (Len(file) + 1) /\ at >= 1 /\ treated \in Nat /\ treated <= at - 1
      /\ Len(file) \in Nat /\ pass \in Passes \ applied
      /\ IsFile(out) /\ Len(out) >= at - 1
  BY <1>1, FileLength DEF IInv, Counters, OutInv
<1>3. Len(out) \in Nat
  BY <1>2, SequenceLength DEF IsFile
<1>4. Counters'
  BY <1>1, <1>2, <1>3 DEF IInv, Counters
<1>5. \A n \in 1 .. (at - 1) : n \in 1 .. Len(file)
  BY <1>1, <1>2
<1>6. ASSUME NEW k \in Kinds, NEW s
      PROVE  /\ Said(out, k, s) /\ Made(s) => s[1] \in applied \cup {pass}
             /\ Twice(out, k, s) => ~Made(s) /\ (k = "assign" => DrivenTwice(origin, s))
  <2>1. /\ Said(out, k, s) =>
             \/ Made(s) /\ s[1] = pass /\ s[2] \in 0 .. (treated - 1)
             \/ \E n \in 1 .. (at - 1) : Says(file[n], k, s)
        /\ Twice(out, k, s) =>
             \E m, n \in 1 .. (at - 1) :
               m # n /\ Says(file[m], k, s) /\ Says(file[n], k, s)
    BY <1>1 DEF IInv, OutInv
  <2>2. /\ Said(file, k, s) /\ Made(s) => s[1] \in applied
        /\ Twice(file, k, s) => ~Made(s) /\ (k = "assign" => DrivenTwice(origin, s))
    BY DEF IInv, FileInv
  <2>3. Said(out, k, s) => s[1] = pass \/ Said(file, k, s)
    BY <1>5, <2>1 DEF Said
  <2>4. Twice(out, k, s) => Twice(file, k, s)
    BY <1>5, <2>1 DEF Twice
  <2> QED
    BY <2>2, <2>3, <2>4
<1>7. FileInv'
  <2>1. \A s : DrivenTwice(origin, s)' = DrivenTwice(origin, s)
    BY <1>1 DEF DrivenTwice, Drives
  <2> QED
    BY <1>1, <1>2, <1>6, <2>1 DEF FileInv
<1>8. OutInv'
  BY <1>1 DEF OutInv
<1> QED
  BY <1>4, <1>7, <1>8 DEF IInv

\* The inductive invariant: at every line of every pass, the names in the file and in
\* what has been written so far are accounted for.
THEOREM Invariance == Spec => []IInv
<1>1. Init => IInv
  BY InvInit
<1>2. IInv /\ [Next]_vars => IInv'
  <2> SUFFICES ASSUME IInv, [Next]_vars PROVE IInv'
    OBVIOUS
  <2>1. CASE \E p \in Passes : Run(p)
    BY <2>1, RunKeeps
  <2>2. CASE Line
    BY <2>2, LineKeeps
  <2>3. CASE Write
    BY <2>3, WriteKeeps
  <2>4. CASE UNCHANGED vars
    BY <2>4 DEF IInv, Counters, FileInv, OutInv, vars
  <2> QED
    BY <2>1, <2>2, <2>3, <2>4 DEF Next
<1> QED
  BY <1>1, <1>2, PTL DEF Spec

\* A pass stays within its file, and never numbers more wires than lines it has read.
THEOREM Typing == Spec => []TypeOK
<1>1. IInv => TypeOK
  BY DEF IInv, Counters, TypeOK
<1> QED
  BY <1>1, Invariance, PTL

\* Whichever passes run, in whichever order, each wire that they introduce
\* (expand_left_operand.py, expand_right_operand.py, expand_reduction_operand.py,
\* divide_concat_into_subconcats.py) is declared once and driven once, and no other net
\* gets a driver more: num_brackets_treated never gives a number twice.
THEOREM WiresStayFresh == Spec => []FreshWires
<1>1. IInv => FreshWires
  <2> SUFFICES ASSUME IInv, pass = "none", NEW i \in 1 .. Len(file),
                      NEW j \in 1 .. Len(file), i # j
               PROVE  /\ file[i].k = "decl" /\ file[j].k = "decl" /\ Made(file[i].sig) =>
                           file[i].sig # file[j].sig
                      /\ file[i].k = "assign" /\ Drives(file[j], file[i].dst) =>
                           DrivenTwice(origin, file[i].dst)
    BY DEF FreshWires
  <2>1. ASSUME file[i].k = "decl", file[j].k = "decl", Made(file[i].sig),
               file[i].sig = file[j].sig
        PROVE  FALSE
    <3>1. Twice(file, "decl", file[i].sig)
      BY <2>1 DEF Twice, Says
    <3> QED
      BY <2>1, <3>1 DEF IInv, FileInv, Kinds
  <2>2. ASSUME file[i].k = "assign", Drives(file[j], file[i].dst)
        PROVE  DrivenTwice(origin, file[i].dst)
    <3>1. Twice(file, "assign", file[i].dst)
      BY <2>2 DEF Twice, Says, Drives
    <3> QED
      BY <3>1 DEF IInv, FileInv, Kinds
  <2> QED
    BY <2>1, <2>2
<1> QED
  BY <1>1, Invariance, PTL

LEMMA LessAsRelation == \A m, n \in Nat : <<m, n>> \in OpToRel(<, Nat) <=> m < n
BY DEF OpToRel

LEMMA LeastNumber ==
  ASSUME NEW T, T \subseteq Nat, T # {}
  PROVE  \E x \in T : \A y \in T : x <= y
<1>1. PICK R : R = OpToRel(<, Nat)
  OBVIOUS
<1>2. \A m, n \in Nat : <<m, n>> \in R <=> m < n
  BY <1>1, LessAsRelation
<1>3. IsWellFoundedOn(R, Nat)
  BY <1>1, NatLessThanWellFounded
<1>4. PICK x \in T : \A y \in T : ~ (<<y, x>> \in R)
  BY <1>3, WFMin
<1>5. ASSUME NEW y \in T PROVE x <= y
  <2>1. x \in Nat /\ y \in Nat /\ ~ (y < x)
    BY <1>2, <1>4
  <2> QED
    BY <2>1
<1> QED
  BY <1>5

\* Induction up to n, on a set of numbers.
LEMMA InductionTo ==
  ASSUME NEW n \in Nat, NEW S, 0 \in S, \A i \in 1 .. n : i - 1 \in S => i \in S
  PROVE  0 .. n \subseteq S
<1> SUFFICES ASSUME (0 .. n) \ S # {} PROVE FALSE
  OBVIOUS
<1>1. PICK T : T = (0 .. n) \ S
  OBVIOUS
<1>2. PICK x \in T : \A y \in T : x <= y
  <2>1. T \subseteq Nat /\ T # {}
    BY <1>1
  <2> QED
    BY <2>1, LeastNumber
<1>3. x \in 1 .. n /\ x - 1 \in 0 .. n
  BY <1>1, <1>2
<1>4. x - 1 \in S
  BY <1>1, <1>2, <1>3
<1> QED
  BY <1>1, <1>3, <1>4

\* A sequence of sequences, and the concatenation of its first elements.
AreSequences(s) == IsSequence(s) /\ \A i \in 1 .. Len(s) : IsSequence(s[i])
PrefixesOf(g, s) ==
  g[0] = <<>> /\ \A i \in 1 .. Len(s) : g[i] = g[i - 1] \o s[i]

IsFlat(g, s, n) == g = [i \in 1 .. n |-> IF i = 1 THEN s[i] ELSE g[i - 1] \o s[i]]

LEMMA FlatExists ==
  ASSUME NEW s, NEW n \in Nat
  PROVE  \E g : IsFlat(g, s, n)
<1>1. PICK S : S = {m \in Nat : \E g : IsFlat(g, s, m)}
  OBVIOUS
<1>2. 0 \in S
  <2>1. IsFlat([i \in 1 .. 0 |-> 0], s, 0)
    BY DEF IsFlat
  <2> QED
    BY <1>1, <2>1
<1>3. ASSUME NEW m \in 1 .. n, m - 1 \in S PROVE m \in S
  <2>1. PICK g : IsFlat(g, s, m - 1)
    BY <1>1, <1>3
  <2>2. PICK h : h = [i \in 1 .. m |-> IF i = 1 THEN s[i] ELSE g[i - 1] \o s[i]]
    OBVIOUS
  <2>3. ASSUME NEW i \in 1 .. m, i # 1 PROVE h[i - 1] = g[i - 1]
    <3>1. i - 1 \in 1 .. (m - 1) /\ i - 1 \in 1 .. m
      BY <2>3
    <3> QED
      BY <2>1, <2>2, <3>1 DEF IsFlat
  <2>4. IsFlat(h, s, m)
    BY <2>2, <2>3 DEF IsFlat
  <2> QED
    BY <1>1, <2>4
<1>4. 0 .. n \subseteq S
  BY <1>2, <1>3, InductionTo
<1> QED
  BY <1>1, <1>4

LEMMA FlatIsFlattenSeq ==
  ASSUME NEW s, Len(s) \in Nat, Len(s) # 0
  PROVE  \E g : IsFlat(g, s, Len(s)) /\ FlattenSeq(s) = g[Len(s)]
<1>1. PICK g : g = CHOOSE h : h = [i \in 1 .. Len(s) |-> IF i = 1 THEN s[i] ELSE h[i - 1] \o s[i]]
  OBVIOUS
<1>2. IsFlat(g, s, Len(s))
  BY <1>1, FlatExists DEF IsFlat
<1>3. FlattenSeq(s) = g[Len(s)]
  BY <1>1 DEF FlattenSeq
<1> QED
  BY <1>2, <1>3

\* Sequences with nothing in them, and the laws of concatenation, whatever the elements.
LEMMA NoElements ==
  /\ IsSequence(<<>>) /\ Len(<<>>) = 0
  /\ \A s : IsSequence(s) /\ Len(s) = 0 => s = <<>>
<1>1. <<>> \in Seq({}) /\ Len(<<>>) = 0
  OBVIOUS
<1>2. ASSUME NEW s, IsSequence(s), Len(s) = 0 PROVE s = <<>>
  <2>1. PICK S : s \in Seq(S)
    BY <1>2 DEF IsSequence
  <2> QED
    BY <1>2, <2>1, EmptySeq
<1> QED
  BY <1>1, <1>2 DEF IsSequence

LEMMA CommonElements ==
  ASSUME NEW s, IsSequence(s), NEW t, IsSequence(t), NEW u, IsSequence(u)
  PROVE  \E S : s \in Seq(S) /\ t \in Seq(S) /\ u \in Seq(S)
<1>1. PICK A : s \in Seq(A)
  BY DEF IsSequence
<1>2. PICK B : t \in Seq(B)
  BY DEF IsSequence
<1>3. PICK C : u \in Seq(C)
  BY DEF IsSequence
<1>4. PICK S : S = A \cup B \cup C
  OBVIOUS
<1>5. A \subseteq S /\ B \subseteq S /\ C \subseteq S
  BY <1>4
<1> QED
  BY <1>1, <1>2, <1>3, <1>5, SeqMonotonic

LEMMA ConcatenationLaws ==
  ASSUME NEW s, IsSequence(s), NEW t, IsSequence(t), NEW u, IsSequence(u)
  PROVE  s \o <<>> = s /\ <<>> \o s = s /\ (s \o t) \o u = s \o (t \o u)
BY CommonElements, ConcatEmptySeq, ConcatAssociative

Associates(s, t, u) == (s \o t) \o u = s \o (t \o u)

LEMMA Associative ==
  ASSUME NEW s, IsSequence(s), NEW t, IsSequence(t), NEW u, IsSequence(u)
  PROVE  Associates(s, t, u)
BY ConcatenationLaws, SMTT(30) DEF Associates

\* The concatenation of two sequences by its elements.
IsConcatenation(u, s, t) ==
  /\ IsSequence(u) /\ Len(u) = Len(s) + Len(t)
  /\ \A i \in 1 .. Len(s) : u[i] = s[i]
  /\ \A i \in 1 .. Len(t) : u[Len(s) + i] = t[i]

LEMMA ConcatenationElements ==
  ASSUME NEW s, IsSequence(s), NEW t, IsSequence(t)
  PROVE  IsConcatenation(s \o t, s, t)
BY Concatenation DEF IsConcatenation

LEMMA SequenceFunction ==
  ASSUME NEW s, IsSequence(s)
  PROVE  s = [i \in 1 .. Len(s) |-> s[i]]
<1>1. PICK S : s \in Seq(S)
  BY DEF IsSequence
<1> QED
  BY <1>1, LenProperties

LEMMA SameElements ==
  ASSUME NEW s, IsSequence(s), NEW t, IsSequence(t), Len(s) = Len(t),
         \A i \in 1 .. Len(s) : s[i] = t[i]
  PROVE  s = t
BY SequenceFunction

LEMMA ConcatenationUnique ==
  ASSUME NEW s, IsSequence(s), NEW t, IsSequence(t), NEW u, IsConcatenation(u, s, t),
         NEW v, IsConcatenation(v, s, t)
  PROVE  u = v
<1>1. Len(s) \in Nat /\ Len(t) \in Nat
  BY SequenceLength
<1>2. ASSUME NEW i \in 1 .. Len(u) PROVE u[i] = v[i]
  <2>1. CASE i <= Len(s)
    <3>1. i \in 1 .. Len(s)
      BY <1>1, <2>1 DEF IsConcatenation
    <3> QED
      BY <3>1 DEF IsConcatenation
  <2>2. CASE ~(i <= Len(s))
    <3>1. PICK j \in 1 .. Len(t) : i = Len(s) + j
      <4>1. i - Len(s) \in 1 .. Len(t) /\ i = Len(s) + (i - Len(s))
        BY <1>1, <2>2 DEF IsConcatenation
      <4> QED
        BY <4>1
    <3> QED
      BY <3>1 DEF IsConcatenation
  <2> QED
    BY <2>1, <2>2
<1>3. IsSequence(u) /\ IsSequence(v) /\ Len(u) = Len(v)
  BY DEF IsConcatenation
<1> QED
  BY <1>2, <1>3, SameElements

\* FlattenSeq by its prefixes.
LEMMA FlattenPrefixes ==
  ASSUME NEW s, AreSequences(s)
  PROVE  \E g : PrefixesOf(g, s) /\ FlattenSeq(s) = g[Len(s)]
<1>1. IsSequence(s) /\ Len(s) \in Nat
  BY SequenceLength DEF AreSequences
<1>2. CASE Len(s) = 0
  <2>1. s = <<>> /\ FlattenSeq(s) = s
    BY <1>1, <1>2, NoElements DEF FlattenSeq
  <2>2. PICK g : g = [i \in {0} |-> <<>>]
    OBVIOUS
  <2> QED
    BY <1>2, <2>1, <2>2 DEF PrefixesOf
<1>3. CASE Len(s) # 0
  <2>1. PICK g : IsFlat(g, s, Len(s)) /\ FlattenSeq(s) = g[Len(s)]
    BY <1>1, <1>3, FlatIsFlattenSeq
  <2>2. PICK h : h = [i \in 0 .. Len(s) |-> IF i = 0 THEN <<>> ELSE g[i]]
    OBVIOUS
  <2>3. h[0] = <<>> /\ \A i \in 1 .. Len(s) : h[i] = g[i]
    BY <1>1, <2>2
  <2>4. ASSUME NEW i \in 1 .. Len(s) PROVE h[i] = h[i - 1] \o s[i]
    <3>1. CASE i = 1
      <4>1. h[i] = s[i]
        BY <2>1, <2>3, <3>1 DEF IsFlat
      <4>2. h[i - 1] = <<>>
        BY <2>3, <3>1
      <4>3. IsSequence(s[i])
        BY DEF AreSequences
      <4> QED
        BY <4>1, <4>2, <4>3, ConcatenationLaws
    <3>2. CASE i # 1
      <4>1. i - 1 \in 1 .. Len(s)
        BY <3>2
      <4>2. h[i] = g[i - 1] \o s[i]
        BY <2>1, <2>3, <3>2 DEF IsFlat
      <4> QED
        BY <2>3, <4>1, <4>2
    <3> QED
      BY <3>1, <3>2
  <2>5. h[Len(s)] = g[Len(s)]
    BY <1>1, <1>3, <2>3
  <2> QED
    BY <2>1, <2>3, <2>4, <2>5 DEF PrefixesOf
<1> QED
  BY <1>2, <1>3

LEMMA PrefixesAreSequences ==
  ASSUME NEW s, AreSequences(s), NEW g, PrefixesOf(g, s)
  PROVE  \A i \in 0 .. Len(s) : IsSequence(g[i])
<1>1. Len(s) \in Nat
  BY SequenceLength DEF AreSequences
<1>2. PICK S : S = {i \in 0 .. Len(s) : IsSequence(g[i])}
  OBVIOUS
<1>3. 0 \in S
  BY <1>1, <1>2, NoElements DEF PrefixesOf
<1>4. ASSUME NEW i \in 1 .. Len(s), i - 1 \in S PROVE i \in S
  <2>1. g[i] = g[i - 1] \o s[i] /\ IsSequence(g[i - 1]) /\ IsSequence(s[i])
    BY <1>2, <1>4 DEF PrefixesOf, AreSequences
  <2>2. IsSequence(g[i])
    BY <2>1, Concatenation
  <2> QED
    BY <1>2, <2>2
<1>5. 0 .. Len(s) \subseteq S
  BY <1>1, <1>3, <1>4, InductionTo
<1> QED
  BY <1>2, <1>5

LEMMA FlattenUnique ==
  ASSUME NEW s, AreSequences(s), NEW g, PrefixesOf(g, s)
  PROVE  FlattenSeq(s) = g[Len(s)] /\ IsSequence(FlattenSeq(s))
<1>1. Len(s) \in Nat
  BY SequenceLength DEF AreSequences
<1>2. PICK h : PrefixesOf(h, s) /\ FlattenSeq(s) = h[Len(s)]
  BY FlattenPrefixes
<1>3. PICK S : S = {i \in 0 .. Len(s) : g[i] = h[i]}
  OBVIOUS
<1>4. 0 \in S
  BY <1>1, <1>2, <1>3 DEF PrefixesOf
<1>5. ASSUME NEW i \in 1 .. Len(s), i - 1 \in S PROVE i \in S
  <2>1. g[i] = h[i]
    BY <1>2, <1>3, <1>5 DEF PrefixesOf
  <2> QED
    BY <1>3, <2>1
<1>6. 0 .. Len(s) \subseteq S
  BY <1>1, <1>4, <1>5, InductionTo
<1> QED
  BY <1>1, <1>2, <1>3, <1>6, PrefixesAreSequences

LEMMA FlattenConcatenation ==
  ASSUME NEW s, AreSequences(s), NEW t, AreSequences(t)
  PROVE  AreSequences(s \o t) /\ FlattenSeq(s \o t) = FlattenSeq(s) \o FlattenSeq(t)
<1>1. /\ IsSequence(s) /\ IsSequence(t) /\ Len(s) \in Nat /\ Len(t) \in Nat
      /\ \A i \in 1 .. Len(s) : IsSequence(s[i])
      /\ \A i \in 1 .. Len(t) : IsSequence(t[i])
  BY SequenceLength DEF AreSequences
<1>2. PICK u : u = s \o t
  OBVIOUS
<1>3. /\ IsSequence(u) /\ Len(u) = Len(s) + Len(t)
      /\ \A i \in 1 .. Len(s) : u[i] = s[i]
      /\ \A i \in 1 .. Len(t) : u[Len(s) + i] = t[i]
  BY <1>1, <1>2, Concatenation
<1>4. ASSUME NEW i \in 1 .. Len(u), ~(i <= Len(s))
      PROVE  i - Len(s) \in 1 .. Len(t) /\ u[i] = t[i - Len(s)]
  <2>1. i - Len(s) \in 1 .. Len(t) /\ Len(s) + (i - Len(s)) = i
    BY <1>1, <1>3, <1>4
  <2> QED
    BY <1>3, <2>1
<1>5. AreSequences(u)
  <2>1. ASSUME NEW i \in 1 .. Len(u) PROVE IsSequence(u[i])
    <3>1. CASE i <= Len(s)
      <4>1. i \in 1 .. Len(s)
        BY <1>1, <1>3, <3>1
      <4> QED
        BY <1>1, <1>3, <4>1
    <3>2. CASE ~(i <= Len(s))
      BY <1>1, <1>4, <3>2
    <3> QED
      BY <3>1, <3>2
  <2> QED
    BY <1>3, <2>1 DEF AreSequences
<1>6. PICK g : PrefixesOf(g, s) /\ FlattenSeq(s) = g[Len(s)]
  BY FlattenPrefixes
<1>7. PICK h : PrefixesOf(h, t) /\ FlattenSeq(t) = h[Len(t)]
  BY FlattenPrefixes
<1>8. PICK k : k = [i \in 0 .. Len(u) |->
                      IF i <= Len(s) THEN g[i] ELSE g[Len(s)] \o h[i - Len(s)]]
  OBVIOUS
<1>9. (\A i \in 0 .. Len(s) : IsSequence(g[i])) /\ (\A i \in 0 .. Len(t) : IsSequence(h[i]))
  BY <1>6, <1>7, PrefixesAreSequences
<1>10. ASSUME NEW i \in 0 .. Len(t) PROVE k[Len(s) + i] = g[Len(s)] \o h[i]
  <2>1. Len(s) + i \in 0 .. Len(u) /\ (Len(s) + i) - Len(s) = i
    BY <1>1, <1>3
  <2>2. CASE i = 0
    <3>1. k[Len(s) + i] = g[Len(s)]
      BY <1>1, <1>8, <2>1, <2>2
    <3>2. h[i] = <<>> /\ IsSequence(g[Len(s)])
      BY <1>1, <1>7, <1>9, <2>2 DEF PrefixesOf
    <3> QED
      BY <3>1, <3>2, ConcatenationLaws
  <2>3. CASE i # 0
    <3>1. ~(Len(s) + i <= Len(s))
      BY <1>1, <2>3
    <3> QED
      BY <1>8, <2>1, <3>1
  <2> QED
    BY <2>2, <2>3
<1>11. PrefixesOf(k, u)
  <2>1. 0 \in 0 .. Len(u) /\ 0 <= Len(s)
    BY <1>1, <1>3
  <2>2. k[0] = <<>>
    BY <1>6, <1>8, <2>1 DEF PrefixesOf
  <2>3. ASSUME NEW i \in 1 .. Len(u) PROVE k[i] = k[i - 1] \o u[i]
    <3>1. CASE i <= Len(s)
      <4>1. i \in 1 .. Len(s) /\ i \in 0 .. Len(u) /\ i - 1 \in 0 .. Len(u) /\ i - 1 <= Len(s)
        BY <1>1, <1>3, <3>1
      <4>2. k[i] = g[i] /\ k[i - 1] = g[i - 1] /\ u[i] = s[i]
        BY <1>3, <1>8, <3>1, <4>1
      <4> QED
        BY <1>6, <4>1, <4>2 DEF PrefixesOf
    <3>2. CASE ~(i <= Len(s))
      <4>1. PICK j \in 1 .. Len(t) : j = i - Len(s) /\ u[i] = t[j]
        BY <1>4, <3>2
      <4>2. /\ j \in 0 .. Len(t) /\ j - 1 \in 0 .. Len(t)
            /\ i = Len(s) + j /\ i - 1 = Len(s) + (j - 1)
        BY <1>1, <4>1
      <4>3. k[i] = g[Len(s)] \o h[j] /\ k[i - 1] = g[Len(s)] \o h[j - 1]
        BY <1>10, <4>2
      <4>4. h[j] = h[j - 1] \o t[j]
        BY <1>7 DEF PrefixesOf
      <4>5. IsSequence(g[Len(s)]) /\ IsSequence(h[j - 1]) /\ IsSequence(t[j])
        <5>1. Len(s) \in 0 .. Len(s)
          BY <1>1
        <5> QED
          BY <1>1, <1>9, <4>2, <5>1
      <4>6. Associates(g[Len(s)], h[j - 1], t[j])
        BY <4>5, Associative
      <4> QED
        BY <4>1, <4>3, <4>4, <4>6 DEF Associates
    <3> QED
      BY <3>1, <3>2
  <2> QED
    BY <2>2, <2>3 DEF PrefixesOf
<1>12. FlattenSeq(u) = k[Len(u)]
  BY <1>5, <1>11, FlattenUnique
<1>13. k[Len(u)] = g[Len(s)] \o h[Len(t)]
  <2>1. Len(t) \in 0 .. Len(t)
    BY <1>1
  <2> QED
    BY <1>3, <1>10, <2>1
<1> QED
  BY <1>2, <1>5, <1>6, <1>7, <1>12, <1>13

\* The concatenation of one thing is that thing, whatever it is.
LEMMA FlattenOne == ASSUME NEW x PROVE FlattenSeq(<<x>>) = x
<1>1. PICK s : s = <<x>>
  OBVIOUS
<1>2. Len(s) = 1 /\ s[1] = x
  BY <1>1
<1>3. PICK g : IsFlat(g, s, 1) /\ FlattenSeq(s) = g[1]
  BY <1>2, FlatIsFlattenSeq
<1>4. g[1] = s[1]
  BY <1>3 DEF IsFlat
<1> QED
  BY <1>1, <1>2, <1>3, <1>4

LEMMA FlattenNothing == ASSUME NEW s, IsSequence(s), Len(s) = 0 PROVE FlattenSeq(s) = <<>>
BY NoElements DEF FlattenSeq

\* What is cut into its elements is put together again.
LEMMA FlattenSingles ==
  ASSUME NEW s, IsSequence(s), NEW t, IsSequence(t), Len(t) = Len(s),
         \A i \in 1 .. Len(s) : t[i] = <<s[i]>>
  PROVE  AreSequences(t) /\ FlattenSeq(t) = s
<1>1. PICK S : s \in Seq(S)
  BY DEF IsSequence
<1>2. Len(s) \in Nat /\ \A i \in 1 .. Len(s) : s[i] \in S
  BY <1>1, SequenceLength, ElementOfSeq
<1>3. AreSequences(t)
  <2>1. ASSUME NEW i \in 1 .. Len(t) PROVE IsSequence(t[i])
    <3>1. s[i] \in S /\ t[i] = <<s[i]>>
      BY <1>2
    <3>2. PICK x \in S : x = s[i]
      BY <3>1
    <3>3. <<x>> \in Seq(S)
      OBVIOUS
    <3> QED
      BY <3>1, <3>2, <3>3 DEF IsSequence
  <2> QED
    BY <2>1 DEF AreSequences
<1>4. PICK g : g = [i \in 0 .. Len(s) |-> SubSeq(s, 1, i)]
  OBVIOUS
<1>5. PrefixesOf(g, t)
  <2>1. g[0] = <<>>
    BY <1>2, <1>4, SubSeqEmpty
  <2>2. ASSUME NEW i \in 1 .. Len(t) PROVE g[i] = g[i - 1] \o t[i]
    <3>1. 1 \in 1 .. Len(s) /\ i \in 1 .. Len(s) /\ i \in 0 .. Len(s) /\ i - 1 \in 0 .. Len(s)
      BY <1>2
    <3>2. SubSeq(s, 1, i) = SubSeq(s, 1, i - 1) \o <<s[i]>>
      BY <1>1, <3>1, SubSeqRecursiveSecond
    <3>3. g[i] = SubSeq(s, 1, i) /\ g[i - 1] = SubSeq(s, 1, i - 1)
      BY <1>4, <3>1
    <3>4. t[i] = <<s[i]>>
      BY <3>1
    <3> QED
      BY <3>2, <3>3, <3>4
  <2> QED
    BY <2>1, <2>2 DEF PrefixesOf
<1>6. FlattenSeq(t) = g[Len(s)]
  BY <1>3, <1>5, FlattenUnique
<1>7. g[Len(s)] = SubSeq(s, 1, Len(s))
  BY <1>2, <1>4
<1> QED
  BY <1>1, <1>3, <1>6, <1>7, SubSeqFull

-----------------------------------------------------------------------------
(* The terms of a concatenation, with the wires in the place of which they stand. *)
TermSeq(wires, elems) ==
  [i \in DOMAIN elems |->
    IF elems[i].k = "sig" /\ elems[i].sig \in DOMAIN wires
      THEN wires[elems[i].sig] ELSE <<elems[i]>>]

\* No element is one of these wires.
Free(wires, elems) ==
  \A i \in 1 .. Len(elems) : elems[i].k = "sig" => elems[i].sig \notin DOMAIN wires

LEMMA SequenceDomain == ASSUME NEW s, IsSequence(s) PROVE DOMAIN s = 1 .. Len(s)
BY LenProperties DEF IsSequence

LEMMA TermSeqIsSequence ==
  ASSUME NEW wires, NEW elems, IsSequence(elems)
  PROVE  IsSequence(TermSeq(wires, elems)) /\ Len(TermSeq(wires, elems)) = Len(elems)
<1>1. Len(elems) \in Nat /\ DOMAIN elems = 1 .. Len(elems)
  BY SequenceLength, SequenceDomain
<1>2. PICK t : t = TermSeq(wires, elems)
  OBVIOUS
<1>3. t = [i \in 1 .. Len(elems) |-> t[i]]
  BY <1>1, <1>2 DEF TermSeq
<1> QED
  BY <1>1, <1>2, <1>3, FunctionIsSequence

\* A sequence of one element, untyped.
LEMMA OneElement ==
  ASSUME NEW x
  PROVE  /\ IsSequence(<<x>>) /\ Len(<<x>>) = 1 /\ <<x>>[1] = x
         /\ 1 .. Len(<<x>>) = {1} /\ DOMAIN <<x>> = {1}
<1>1. <<x>> \in Seq({x}) /\ Len(<<x>>) = 1 /\ <<x>>[1] = x
  OBVIOUS
<1>2. 1 .. Len(<<x>>) = {1}
  BY <1>1
<1> QED
  BY <1>1, <1>2, SequenceDomain DEF IsSequence

LEMMA TermsOfFree ==
  ASSUME NEW wires, NEW elems, IsSequence(elems), Free(wires, elems)
  PROVE  AreSequences(TermSeq(wires, elems)) /\ TermsIn(wires, elems) = elems
<1>1. PICK t : t = TermSeq(wires, elems)
  OBVIOUS
<1>2. IsSequence(t) /\ Len(t) = Len(elems) /\ DOMAIN elems = 1 .. Len(elems)
  BY <1>1, TermSeqIsSequence, SequenceDomain
<1>3. \A i \in 1 .. Len(elems) : t[i] = <<elems[i]>>
  BY <1>1, <1>2 DEF TermSeq, Free
<1>4. AreSequences(t) /\ FlattenSeq(t) = elems
  BY <1>2, <1>3, FlattenSingles
<1> QED
  BY <1>1, <1>4 DEF TermsIn, TermSeq

LEMMA WholeParts == ASSUME NEW s PROVE Whole(s).k = "sig" /\ Whole(s).sig = s
BY DEF Whole

LEMMA TermSeqOfWire ==
  ASSUME NEW wires, NEW w \in DOMAIN wires
  PROVE  TermSeq(wires, <<Whole(w)>>) = <<wires[w]>>
<1>1. PICK e, x : e = Whole(w) /\ x = wires[w]
  OBVIOUS
<1>2. PICK s : s = <<e>>
  OBVIOUS
<1>3. DOMAIN s = {1} /\ s[1].k = "sig" /\ s[1].sig = w
  BY <1>1, <1>2, OneElement, WholeParts
<1>4. TermSeq(wires, s) = [i \in {1} |-> x]
  BY <1>1, <1>3 DEF TermSeq
<1>5. [i \in {1} |-> x] = <<x>>
  <2>1. DOMAIN <<x>> = {1} /\ <<x>>[1] = x
    BY OneElement
  <2> QED
    BY <2>1
<1> QED
  BY <1>1, <1>2, <1>4, <1>5

LEMMA TermsOfWire ==
  ASSUME NEW wires, NEW w \in DOMAIN wires
  PROVE  TermsIn(wires, Plain(w).elems) = wires[w]
<1>1. Plain(w).elems = <<Whole(w)>>
  BY DEF Plain
<1>2. TermsIn(wires, <<Whole(w)>>) = FlattenSeq(TermSeq(wires, <<Whole(w)>>))
  BY DEF TermsIn, TermSeq
<1> QED
  BY <1>1, <1>2, TermSeqOfWire, FlattenOne

LEMMA TermSeqConcatenation ==
  ASSUME NEW wires, NEW s, IsSequence(s), NEW t, IsSequence(t)
  PROVE  TermSeq(wires, s \o t) = TermSeq(wires, s) \o TermSeq(wires, t)
<1>1. PICK u, a, b, c : /\ u = s \o t /\ a = TermSeq(wires, s) /\ b = TermSeq(wires, t)
                        /\ c = TermSeq(wires, u)
  OBVIOUS
<1>2. IsConcatenation(u, s, t)
  BY <1>1, ConcatenationElements
<1>3. /\ IsSequence(a) /\ Len(a) = Len(s) /\ IsSequence(b) /\ Len(b) = Len(t)
      /\ IsSequence(c) /\ Len(c) = Len(u)
  BY <1>1, <1>2, TermSeqIsSequence DEF IsConcatenation
<1>4. Len(s) \in Nat /\ Len(t) \in Nat
  BY SequenceLength
<1>5. /\ \A i \in 1 .. Len(s) : a[i] =
           IF s[i].k = "sig" /\ s[i].sig \in DOMAIN wires THEN wires[s[i].sig] ELSE <<s[i]>>
      /\ \A i \in 1 .. Len(t) : b[i] =
           IF t[i].k = "sig" /\ t[i].sig \in DOMAIN wires THEN wires[t[i].sig] ELSE <<t[i]>>
  BY <1>1, SequenceDomain DEF TermSeq
<1>6. \A i \in 1 .. Len(u) : c[i] =
        IF u[i].k = "sig" /\ u[i].sig \in DOMAIN wires THEN wires[u[i].sig] ELSE <<u[i]>>
  BY <1>1, <1>2, SequenceDomain DEF TermSeq, IsConcatenation
<1>7. ASSUME NEW i \in 1 .. Len(s) PROVE c[i] = a[i]
  <2>1. i \in 1 .. Len(u) /\ u[i] = s[i]
    BY <1>2, <1>4 DEF IsConcatenation
  <2> QED
    BY <1>5, <1>6, <2>1
<1>8. ASSUME NEW i \in 1 .. Len(t) PROVE c[Len(s) + i] = b[i]
  <2>1. Len(s) + i \in 1 .. Len(u) /\ u[Len(s) + i] = t[i]
    BY <1>2, <1>4 DEF IsConcatenation
  <2> QED
    BY <1>5, <1>6, <2>1
<1>9. IsConcatenation(c, a, b)
  BY <1>2, <1>3, <1>7, <1>8 DEF IsConcatenation
<1>10. IsConcatenation(a \o b, a, b)
  BY <1>3, ConcatenationElements
<1>11. c = a \o b
  BY <1>3, <1>9, <1>10, ConcatenationUnique
<1> QED
  BY <1>1, <1>11

LEMMA TermsOfFreeAndWire ==
  ASSUME NEW wires, NEW elems, IsSequence(elems), Free(wires, elems),
         NEW w \in DOMAIN wires, IsSequence(wires[w])
  PROVE  TermsIn(wires, elems \o <<Whole(w)>>) = elems \o wires[w]
<1>1. AreSequences(TermSeq(wires, elems)) /\ TermsIn(wires, elems) = elems
  BY TermsOfFree
<1>2. AreSequences(<<wires[w]>>)
  BY OneElement DEF AreSequences
<1>3. TermSeq(wires, elems \o <<Whole(w)>>) = TermSeq(wires, elems) \o <<wires[w]>>
  <2>1. PICK t : t = <<Whole(w)>>
    OBVIOUS
  <2>2. IsSequence(t) /\ TermSeq(wires, t) = <<wires[w]>>
    BY <2>1, OneElement, TermSeqOfWire
  <2>3. TermSeq(wires, elems \o t) = TermSeq(wires, elems) \o TermSeq(wires, t)
    BY <2>2, TermSeqConcatenation
  <2> QED
    BY <2>1, <2>2, <2>3
<1>4. FlattenSeq(TermSeq(wires, elems) \o <<wires[w]>>) =
        FlattenSeq(TermSeq(wires, elems)) \o FlattenSeq(<<wires[w]>>)
  BY <1>1, <1>2, FlattenConcatenation
<1>5. \A e : TermsIn(wires, e) = FlattenSeq(TermSeq(wires, e))
  BY DEF TermsIn, TermSeq
<1> QED
  BY <1>1, <1>3, <1>4, <1>5, FlattenOne

\* Wires that an operand does not name do not matter to it.
Agree(a, b, elems) ==
  \A i \in 1 .. Len(elems) : elems[i].k = "sig" =>
    /\ elems[i].sig \in DOMAIN a <=> elems[i].sig \in DOMAIN b
    /\ elems[i].sig \in DOMAIN a => a[elems[i].sig] = b[elems[i].sig]

LEMMA TermsAgree ==
  ASSUME NEW elems, IsSequence(elems), NEW a, NEW b, Agree(a, b, elems)
  PROVE  TermsIn(a, elems) = TermsIn(b, elems)
<1>1. DOMAIN elems = 1 .. Len(elems)
  BY SequenceDomain
<1>2. TermSeq(a, elems) = TermSeq(b, elems)
  BY <1>1 DEF TermSeq, Agree
<1> QED
  BY <1>2 DEF TermsIn, TermSeq

-----------------------------------------------------------------------------
(* What the wires of a set of lines stand for. *)
Lines(f) == {f[i] : i \in 1 .. Len(f)}
WiresOf(L) == {l.dst : l \in {m \in L : m.k = "assign" /\ Made(m.dst)}}

SolvesLine(wires, l) ==
  l.k = "assign" /\ Made(l.dst) =>
    l.dst \in DOMAIN wires /\ wires[l.dst] = LineTerms(wires, l)
Solves(wires, L) == \A l \in L : SolvesLine(wires, l)
OnlyMade(wires) == \A s \in DOMAIN wires : Made(s)

\* Does new have the terms of old?
SameTerms(wires, old, new) ==
  /\ Drives(new, old.dst) /\ LineTerms(wires, new) = LineTerms(wires, old)
  /\ Torn(new) => Torn(old)
Stays(wires, l, L) == l.k = "assign" => \E m \in L : SameTerms(wires, l, m)

\* Until the file is divided, no operand in braces is empty or names a made-up wire.
WireFree(elems) ==
  \A i \in 1 .. Len(elems) :
    /\ elems[i].k = "sig" => ~Made(elems[i].sig)
    /\ elems[i].k = "rep" /\ elems[i].of.k = "sig" => ~Made(elems[i].of.sig)
OperandShaped(o) == o.braces => WireFree(o.elems) /\ Len(o.elems) # 0
Shaped(l, divided) ==
  l.k = "assign" /\ ~divided =>
    /\ Made(l.dst) => l.op = "none"
    /\ OperandShaped(l.left) /\ OperandShaped(l.right)

Names(elems, s) == \E i \in 1 .. Len(elems) : elems[i].k = "sig" /\ elems[i].sig = s
Uses(l, s) == l.k = "assign" /\ (Names(l.left.elems, s) \/ Names(l.right.elems, s))

LEMMA LinesJoined ==
  ASSUME NEW f, IsSequence(f), NEW g, IsSequence(g)
  PROVE  Lines(f \o g) = Lines(f) \cup Lines(g)
<1>1. PICK h : h = f \o g
  OBVIOUS
<1>2. IsConcatenation(h, f, g) /\ Len(f) \in Nat /\ Len(g) \in Nat
  BY <1>1, ConcatenationElements, SequenceLength
<1>3. ASSUME NEW i \in 1 .. Len(h) PROVE h[i] \in Lines(f) \cup Lines(g)
  <2>1. CASE i \in 1 .. Len(f) /\ h[i] = f[i]
    BY <2>1 DEF Lines
  <2>2. CASE \E j \in 1 .. Len(g) : i = Len(f) + j /\ h[i] = g[j]
    BY <2>2 DEF Lines
  <2> QED
    BY <1>1, <2>1, <2>2, InConcatenation
<1>4. ASSUME NEW i \in 1 .. Len(f) PROVE f[i] \in Lines(h)
  <2>1. i \in 1 .. Len(h) /\ h[i] = f[i]
    BY <1>2 DEF IsConcatenation
  <2> QED
    BY <2>1 DEF Lines
<1>5. ASSUME NEW i \in 1 .. Len(g) PROVE g[i] \in Lines(h)
  <2>1. Len(f) + i \in 1 .. Len(h) /\ h[Len(f) + i] = g[i]
    BY <1>2 DEF IsConcatenation
  <2> QED
    BY <2>1 DEF Lines
<1> QED
  BY <1>1, <1>3, <1>4, <1>5 DEF Lines

JoinLines(h, f, g) == IsSequence(h) /\ Lines(h) = Lines(f) \cup Lines(g)

LEMMA JoinedLines ==
  ASSUME NEW f, IsSequence(f), NEW g, IsSequence(g)
  PROVE  JoinLines(f \o g, f, g)
BY LinesJoined, Concatenation DEF JoinLines

LEMMA LinesOfOne == ASSUME NEW l PROVE Lines(<<l>>) = {l}
<1>1. PICK f : f = <<l>>
  OBVIOUS
<1>2. 1 .. Len(f) = {1} /\ f[1] = l
  BY <1>1, OneElement
<1> QED
  BY <1>1, <1>2 DEF Lines

LEMMA LinesOfThree == ASSUME NEW a, NEW b, NEW c PROVE Lines(<<a, b, c>>) = {a, b, c}
<1>1. PICK f : f = <<a, b, c>>
  OBVIOUS
<1>2. Len(f) = 3 /\ f[1] = a /\ f[2] = b /\ f[3] = c
  BY <1>1
<1>3. \A i : i \in 1 .. Len(f) <=> i = 1 \/ i = 2 \/ i = 3
  BY <1>2
<1> QED
  BY <1>1, <1>2, <1>3 DEF Lines

LEMMA WiresAreThose == ASSUME NEW f PROVE Wires(f) = WiresOf(Lines(f))
BY DEF Wires, WiresOf, Lines

LEMMA WiresOfUnion ==
  ASSUME NEW L, NEW M PROVE WiresOf(L \cup M) = WiresOf(L) \cup WiresOf(M)
BY DEF WiresOf

LEMMA FreeOfMade ==
  ASSUME NEW wires, OnlyMade(wires), NEW elems, WireFree(elems)
  PROVE  Free(wires, elems)
BY DEF OnlyMade, WireFree, Free

LEMMA AssignFields ==
  ASSUME NEW dst, NEW left, NEW op, NEW right
  PROVE  /\ Assign(dst, left, op, right).k = "assign"
         /\ Assign(dst, left, op, right).dst = dst
         /\ Assign(dst, left, op, right).left = left
         /\ Assign(dst, left, op, right).op = op
         /\ Assign(dst, left, op, right).right = right
BY DEF Assign

LEMMA DeclIsNoAssignment ==
  ASSUME NEW sig, NEW width, NEW matches PROVE Decl(sig, width, matches).k = "decl"
BY DEF Decl

LEMMA SameTermsOfSame ==
  ASSUME NEW l, l.k = "assign", NEW wires PROVE SameTerms(wires, l, l)
BY DEF SameTerms, Drives

\* The wires with those of a pass added.
Extends(more, wires) ==
  DOMAIN wires \subseteq DOMAIN more /\ \A s \in DOMAIN wires : more[s] = wires[s]

\* An addition that a line does not use does not matter to it.
LEMMA LineTermsAgree ==
  ASSUME NEW l, IsLine(l), l.k = "assign", NEW wires, NEW more, Extends(more, wires),
         \A s \in DOMAIN more : Uses(l, s) => s \in DOMAIN wires
  PROVE  LineTerms(more, l) = LineTerms(wires, l)
<1>1. ASSUME NEW elems, IsSequence(elems), \A s : Names(elems, s) => Uses(l, s)
      PROVE  TermsIn(more, elems) = TermsIn(wires, elems)
  <2>1. Agree(more, wires, elems)
    BY <1>1 DEF Agree, Extends, Names
  <2> QED
    BY <1>1, <2>1, TermsAgree
<1>2. /\ TermsIn(more, l.left.elems) = TermsIn(wires, l.left.elems)
      /\ TermsIn(more, l.right.elems) = TermsIn(wires, l.right.elems)
  BY <1>1, AssignParts DEF Uses
<1> QED
  BY <1>2 DEF LineTerms

LEMMA StillSolves ==
  ASSUME NEW l, IsLine(l), NEW wires, SolvesLine(wires, l), NEW more, Extends(more, wires),
         \A s \in DOMAIN more : Uses(l, s) => s \in DOMAIN wires
  PROVE  SolvesLine(more, l)
BY LineTermsAgree DEF SolvesLine, Extends

\* What a pass does to an assignment l, with wires of its own, p and number; the
\* dividing pass to one that it does not tear apart.
Own(s, p, number) == Made(s) /\ s[1] = p /\ s[2] = number
KeepsTerms(L, l, p, number, divided) ==
  /\ \A m \in L : Shaped(m, divided)
  /\ \A m \in L : \A s : Uses(m, s) => Uses(l, s) \/ Own(s, p, number)
  /\ \A wires : OnlyMade(wires) /\ Solves(wires, L) /\ (p = "divide" => ~Torn(l)) =>
       Stays(wires, l, L)
  /\ \A wires :
       OnlyMade(wires) /\ SolvesLine(wires, l)
         /\ (\A s \in DOMAIN wires : ~Own(s, p, number)) =>
       \E more : /\ DOMAIN more = DOMAIN wires \cup WiresOf(L)
                 /\ Extends(more, wires) /\ Solves(more, L)

LEMMA HoistLines ==
  ASSUME NEW l, IsLine(l), l.k = "assign", NEW file0, NEW n, NEW p, NEW number, NEW width
  PROVE  /\ Hoist(l, file0, n, p, number, "left", width) =
              <<Decl(Wire(p, number), width, p # "reduction"),
                Assign(Wire(p, number), l.left, "none", NoOperand),
                Assign(l.dst, Plain(Wire(p, number)), l.op, l.right)>>
         /\ Hoist(l, file0, n, p, number, "right", width) =
              <<Decl(Wire(p, number), width, p # "reduction"),
                Assign(Wire(p, number), l.right, "none", NoOperand),
                Assign(l.dst, l.left, l.op, Plain(Wire(p, number)))>>
<1>1. PICK dst, left, op, right : dst = l.dst /\ left = l.left /\ op = l.op /\ right = l.right
  OBVIOUS
<1>2. l = Assign(dst, left, op, right)
  BY <1>1, AssignParts
<1>3. PICK w : w = Wire(p, number)
  OBVIOUS
<1>4. PICK o : o = Plain(w)
  OBVIOUS
<1>5. l = [f \in Fields |-> AssignField(dst, left, op, right, f)]
  BY <1>2, AssignFunction
<1>6. [l EXCEPT !["left"] = o] = Assign(dst, o, op, right)
  <2>1. [l EXCEPT !["left"] = o] = [f \in Fields |-> AssignField(dst, o, op, right, f)]
    BY <1>5 DEF Fields, AssignField
  <2> QED
    BY <2>1, AssignFunction
<1>7. [l EXCEPT !["right"] = o] = Assign(dst, left, op, o)
  <2>1. [l EXCEPT !["right"] = o] = [f \in Fields |-> AssignField(dst, left, op, o, f)]
    BY <1>5 DEF Fields, AssignField
  <2> QED
    BY <2>1, AssignFunction
<1>8. l["left"] = left /\ l["right"] = right
  BY <1>1
<1> QED
  BY <1>1, <1>3, <1>4, <1>6, <1>7, <1>8 DEF Hoist

\* A wire that is added stands for what its driver says.
Adds(more, wires, w) ==
  DOMAIN more = DOMAIN wires \cup {w} /\ Extends(more, wires) /\ OnlyMade(more)

LEMMA AddDriver ==
  ASSUME NEW wires, OnlyMade(wires), NEW b, IsLine(b), b.k = "assign", Made(b.dst),
         b.dst \notin DOMAIN wires, ~Uses(b, b.dst)
  PROVE  \E more : Adds(more, wires, b.dst) /\ SolvesLine(more, b)
<1>1. PICK w, x : w = b.dst /\ x = LineTerms(wires, b)
  OBVIOUS
<1>2. PICK more : more = [s \in DOMAIN wires \cup {w} |-> IF s = w THEN x ELSE wires[s]]
  OBVIOUS
<1>3. DOMAIN more = DOMAIN wires \cup {w} /\ more[w] = x
  BY <1>2
<1>4. \A s \in DOMAIN wires : more[s] = wires[s]
  BY <1>1, <1>2
<1>5. Adds(more, wires, w)
  BY <1>1, <1>3, <1>4 DEF Extends, OnlyMade, Adds
<1>6. LineTerms(more, b) = x
  BY <1>1, <1>3, <1>5, LineTermsAgree DEF Adds
<1> QED
  BY <1>1, <1>3, <1>5, <1>6 DEF SolvesLine

\* The operand is replaced on one side.
Operand(l, side) == IF side = "left" THEN l.left ELSE l.right

LEMMA PlainOperand ==
  ASSUME NEW w
  PROVE  /\ ~Plain(w).braces
         /\ \A s : Names(Plain(w).elems, s) <=> s = w
         /\ \A s : ~Names(NoOperand.elems, s)
         /\ ~NoOperand.braces
<1>1. PICK e : e = Whole(w)
  OBVIOUS
<1>2. Plain(w).elems = <<e>> /\ ~Plain(w).braces
  BY <1>1 DEF Plain
<1>3. PICK s1 : s1 = <<e>>
  OBVIOUS
<1>4. 1 .. Len(s1) = {1} /\ s1[1].k = "sig" /\ s1[1].sig = w
  BY <1>1, <1>3, OneElement, WholeParts
<1>5. \A s : Names(s1, s) <=> s = w
  BY <1>4 DEF Names
<1>6. NoOperand.elems = <<>> /\ ~NoOperand.braces
  BY DEF NoOperand
<1>7. \A i : i \notin 1 .. Len(<<>>)
  OBVIOUS
<1> QED
  BY <1>2, <1>3, <1>5, <1>6, <1>7 DEF Names

LEMMA HoistKeeps ==
  ASSUME NEW l, IsLine(l), IsOperation(l), NEW divided, Shaped(l, divided),
         NEW p \in Makers, NEW number, \A s : Uses(l, s) => ~Own(s, p, number),
         NEW side \in {"left", "right"}, Operand(l, side).braces,
         NEW file0, NEW n, NEW width
  PROVE  KeepsTerms(Lines(Hoist(l, file0, n, p, number, side, width)), l, p, number, divided)
<1>1. PICK w : w = Wire(p, number)
  OBVIOUS
<1>2. w[1] = p /\ w[2] = number /\ Made(w) /\ Own(w, p, number)
  BY <1>1 DEF Wire, Made, Makers, Own
<1>3. PICK old, left, right : /\ old = Operand(l, side)
                              /\ left = IF side = "left" THEN Plain(w) ELSE l.left
                              /\ right = IF side = "left" THEN l.right ELSE Plain(w)
  OBVIOUS
<1>4. PICK a, b, c : /\ a = Decl(w, width, p # "reduction")
                     /\ b = Assign(w, old, "none", NoOperand)
                     /\ c = Assign(l.dst, left, l.op, right)
  OBVIOUS
<1>5. l.k = "assign" /\ l.op # "none"
  BY DEF IsOperation
<1>6. Lines(Hoist(l, file0, n, p, number, side, width)) = {a, b, c}
  <2>1. Hoist(l, file0, n, p, number, side, width) = <<a, b, c>>
    <3>1. CASE side = "left"
      BY <1>1, <1>3, <1>4, <1>5, <3>1, HoistLines DEF Operand
    <3>2. CASE side = "right"
      BY <1>1, <1>3, <1>4, <1>5, <3>2, HoistLines DEF Operand
    <3> QED
      BY <3>1, <3>2
  <2> QED
    BY <2>1, LinesOfThree
<1>7. /\ a.k = "decl"
      /\ b.k = "assign" /\ b.dst = w /\ b.left = old /\ b.op = "none" /\ b.right = NoOperand
      /\ c.k = "assign" /\ c.dst = l.dst /\ c.left = left /\ c.op = l.op /\ c.right = right
  BY <1>4, AssignFields, DeclIsNoAssignment
<1>8. /\ ~left.braces \/ left = l.left
      /\ ~right.braces \/ right = l.right
      /\ ~left.braces \/ ~right.braces
  BY <1>3, PlainOperand
<1>9. \A m \in {a, b, c} : Shaped(m, divided)
  <2>1. CASE divided
    BY <2>1 DEF Shaped
  <2>2. CASE ~divided
    <3>1. /\ ~Made(l.dst) /\ OperandShaped(l.left) /\ OperandShaped(l.right)
          /\ OperandShaped(old)
      BY <1>3, <1>5, <2>2 DEF Shaped, Operand
    <3>2. OperandShaped(left) /\ OperandShaped(right) /\ OperandShaped(NoOperand)
      BY <1>8, <3>1, PlainOperand DEF OperandShaped
    <3> QED
      BY <1>7, <3>1, <3>2 DEF Shaped
  <2> QED
    BY <2>1, <2>2
<1>10. /\ \A s : Names(old.elems, s) => Uses(l, s)
       /\ \A s : Names(left.elems, s) => Uses(l, s) \/ s = w
       /\ \A s : Names(right.elems, s) => Uses(l, s) \/ s = w
       /\ \A s : ~Names(NoOperand.elems, s)
  <2>1. \A s : Names(old.elems, s) => Uses(l, s)
    BY <1>3, <1>5 DEF Uses, Operand
  <2>2. \A s : Names(left.elems, s) => Uses(l, s) \/ s = w
    BY <1>3, <1>5, PlainOperand DEF Uses
  <2>3. \A s : Names(right.elems, s) => Uses(l, s) \/ s = w
    BY <1>3, <1>5, PlainOperand DEF Uses
  <2> QED
    BY <2>1, <2>2, <2>3, PlainOperand
<1>11. \A m \in {a, b, c} : \A s : Uses(m, s) => Uses(l, s) \/ Own(s, p, number)
  BY <1>2, <1>7, <1>10 DEF Uses
<1>12. \A wires : SolvesLine(wires, b) => SameTerms(wires, l, c)
  <2> SUFFICES ASSUME NEW wires, SolvesLine(wires, b) PROVE SameTerms(wires, l, c)
    OBVIOUS
  <2>1. w \in DOMAIN wires /\ wires[w] = TermsIn(wires, old.elems)
    BY <1>2, <1>7 DEF SolvesLine, LineTerms
  <2>2. TermsIn(wires, Plain(w).elems) = TermsIn(wires, old.elems)
    BY <2>1, TermsOfWire
  <2>3. /\ TermsIn(wires, left.elems) = TermsIn(wires, l.left.elems)
        /\ TermsIn(wires, right.elems) = TermsIn(wires, l.right.elems)
    BY <1>3, <2>2 DEF Operand
  <2>4. LineTerms(wires, c) = LineTerms(wires, l)
    BY <1>7, <2>3 DEF LineTerms
  <2>5. ~Torn(c)
    BY <1>7, <1>8 DEF Torn
  <2> QED
    BY <1>7, <2>4, <2>5 DEF SameTerms, Drives
<1>13. \A wires : Solves(wires, {a, b, c}) => Stays(wires, l, {a, b, c})
  BY <1>12 DEF Stays, Solves
<1>14. ASSUME NEW wires, OnlyMade(wires), SolvesLine(wires, l),
              \A s \in DOMAIN wires : ~Own(s, p, number)
       PROVE  \E more : /\ DOMAIN more = DOMAIN wires \cup WiresOf({a, b, c})
                        /\ Extends(more, wires) /\ Solves(more, {a, b, c})
  <2>1. IsLine(b)
    <3>1. IsSequence(old.elems) /\ IsSequence(NoOperand.elems)
      BY <1>3, <1>5, AssignParts, PlainIsSequence DEF Operand
    <3> QED
      BY <1>4, <3>1, AssignIsLine
  <2>2. ~Uses(b, w) /\ w \notin DOMAIN wires
    BY <1>2, <1>7, <1>10, <1>14 DEF Uses
  <2>3. PICK more : Adds(more, wires, w) /\ SolvesLine(more, b)
    BY <1>2, <1>7, <1>14, <2>1, <2>2, AddDriver
  <2>4. SolvesLine(more, l)
    BY <1>2, <1>14, <2>3, StillSolves DEF Adds
  <2>5. SolvesLine(more, c)
    BY <1>5, <1>7, <1>12, <2>3, <2>4 DEF SolvesLine, SameTerms
  <2>6. Solves(more, {a, b, c})
    BY <1>7, <2>3, <2>5 DEF Solves, SolvesLine
  <2>7. WiresOf({a, b, c}) = {w} \cup {s \in {l.dst} : Made(s)}
    BY <1>2, <1>7 DEF WiresOf
  <2>8. Made(l.dst) => l.dst \in DOMAIN wires
    BY <1>5, <1>14 DEF SolvesLine
  <2> QED
    BY <2>3, <2>6, <2>7, <2>8 DEF Adds
<1> QED
  BY <1>6, <1>9, <1>11, <1>13, <1>14 DEF KeepsTerms

-----------------------------------------------------------------------------
(* The parts of a concatenation that is divided. *)
\* Where part i begins and ends, for a length of n and m terms to a part.
Bounds(n, m, parts, i) ==
  /\ parts \in Nat \ {0} /\ i * m \in 0 .. (n - 1) /\ (i + 1) * m = i * m + m
  /\ i # parts - 1 => i * m + m \in 1 .. (n - 1)
  /\ i = parts - 1 => ~(i * m + m < n)

LEMMA PartBounds ==
  ASSUME NEW n \in Nat \ {0}, NEW m \in Nat \ {0}, NEW parts, parts = (n + m - 1) \div m,
         NEW i \in 0 .. (parts - 1)
  PROVE  Bounds(n, m, parts, i)
<1>1. n + m - 1 \in Nat
  OBVIOUS
<1>2. parts \in Nat /\ parts * m <= n + m - 1
  BY <1>1
<1>3. parts \in Nat \ {0}
  BY <1>2
<1>4. i \in Nat /\ i * m \in Nat /\ i * m \in 0 .. (n - 1)
  BY PartsFit
<1>5. (i + 1) * m = i * m + m
  BY <1>4
<1>6. ASSUME i # parts - 1 PROVE i * m + m \in 1 .. (n - 1)
  <2>1. i + 1 \in 0 .. (parts - 1)
    BY <1>2, <1>6
  <2>2. (i + 1) * m \in 0 .. (n - 1)
    BY <2>1, PartsFit
  <2> QED
    BY <1>4, <1>5, <2>2
<1>7. ASSUME i = parts - 1 PROVE ~(i * m + m < n)
  <2>1. PICK q : q = n + m - 1
    OBVIOUS
  <2>2. q \in Nat /\ parts = q \div m
    BY <1>1, <2>1
  <2>3. q = m * (q \div m) + (q % m) /\ q % m \in 0 .. (m - 1)
    BY <2>2
  <2>4. q < m * parts + m
    BY <1>2, <2>2, <2>3
  <2>5. m * parts = i * m + m
    <3>1. i * m + m = (i + 1) * m
      BY <1>5
    <3>2. i + 1 = parts
      BY <1>2, <1>7
    <3> QED
      BY <1>2, <3>1, <3>2
  <2> QED
    BY <1>4, <2>1, <2>4, <2>5
<1> QED
  BY <1>3, <1>4, <1>5, <1>6, <1>7 DEF Bounds

\* A concatenation or an operation that the pass divides.
Divisible(l) == IsLine(l) /\ l.k = "assign" /\ Divides(l) /\ Shaped(l, FALSE)
NumbersOf(l) == 0 .. (Parts(ContentLen(l)) - 1)

LEMMA ContentOf ==
  ASSUME NEW l, Divisible(l)
  PROVE  /\ IsSequence(l.left.elems) /\ IsSequence(l.right.elems)
         /\ Len(l.left.elems) \in Nat \ {0} /\ WireFree(l.left.elems)
         /\ l.op = "none" => ContentLen(l) = Len(l.left.elems)
         /\ l.op # "none" => /\ Len(l.right.elems) \in Nat \ {0} /\ WireFree(l.right.elems)
                             /\ ContentLen(l) = Len(l.left.elems) + Len(l.right.elems) - 1
         /\ ContentLen(l) \in Nat \ {0}
<1>1. /\ IsSequence(l.left.elems) /\ IsSequence(l.right.elems)
      /\ Len(l.left.elems) \in Nat /\ Len(l.right.elems) \in Nat
  BY AssignParts, SequenceLength DEF Divisible
<1>2. /\ Len(l.left.elems) # 0 /\ WireFree(l.left.elems)
      /\ l.op # "none" => Len(l.right.elems) # 0 /\ WireFree(l.right.elems)
  BY DEF Divisible, Divides, IsOperation, Shaped, OperandShaped
<1>3. ContentLen(l) \in Nat \ {0}
  BY ContentLength DEF Divisible
<1> QED
  BY <1>1, <1>2, <1>3 DEF ContentLen

\* The content from part i on: where the part begins and ends.
Spans(n, m, parts, i, from, to) ==
  /\ parts \in Nat \ {0} /\ from \in 1 .. n /\ to \in from .. n
  /\ i = 0 => from = 1
  /\ i # 0 => from > m
  /\ i = parts - 1 => to = n
  /\ i # parts - 1 => to = from + m - 1 /\ FirstTerm(i + 1) = to + 1

LEMMA PartSpans ==
  ASSUME NEW n \in Nat \ {0}, NEW i \in 0 .. (Parts(n) - 1)
  PROVE  Spans(n, MaxTerms, Parts(n), i, FirstTerm(i), LastTerm(n, i))
<1>1. PICK m, parts : m = MaxTerms /\ parts = Parts(n)
  OBVIOUS
<1>2. m \in Nat \ {0} /\ parts = (n + m - 1) \div m
  BY <1>1, MaxTermsAssumption DEF Parts
<1>3. Bounds(n, m, parts, i)
  BY <1>1, <1>2, PartBounds
<1>4. PICK x : x = i * m
  OBVIOUS
<1>5. /\ parts \in Nat \ {0} /\ x \in 0 .. (n - 1) /\ (i + 1) * m = x + m
      /\ i # parts - 1 => x + m \in 1 .. (n - 1)
      /\ i = parts - 1 => ~(x + m < n)
  BY <1>3, <1>4 DEF Bounds
<1>6. FirstTerm(i) = x + 1 /\ FirstTerm(i + 1) = x + m + 1
  BY <1>1, <1>2, <1>4, <1>5 DEF FirstTerm
<1>7. LastTerm(n, i) = IF x + m < n THEN x + m ELSE n
  BY <1>1, <1>5 DEF LastTerm
<1>8. i = 0 => x = 0
  BY <1>2, <1>4
<1>9. i # 0 => x >= m
  <2>1. ASSUME i # 0 PROVE x >= m
    <3>1. i - 1 \in 0 .. (parts - 1) /\ (i - 1) + 1 = i
      BY <1>1, <1>5, <2>1
    <3>2. Bounds(n, m, parts, i - 1)
      BY <1>2, <3>1, PartBounds
    <3>3. i * m = (i - 1) * m + m /\ (i - 1) * m \in 0 .. (n - 1)
      BY <3>1, <3>2 DEF Bounds
    <3> QED
      BY <1>2, <1>4, <3>3
  <2> QED
    BY <2>1
<1> QED
  BY <1>1, <1>2, <1>5, <1>6, <1>7, <1>8, <1>9 DEF Spans

\* What is cut out of a sequence within its bounds has no other elements.
Within(t, s) ==
  IsSequence(t) /\ \A j \in 1 .. Len(t) : \E k \in 1 .. Len(s) : t[j] = s[k]

LEMMA SubSeqWithin ==
  ASSUME NEW s, IsSequence(s), NEW m \in Int, NEW n \in Int, 1 <= m, n <= Len(s)
  PROVE  Within(SubSeq(s, m, n), s)
<1>1. PICK S : s \in Seq(S)
  BY DEF IsSequence
<1>2. Len(s) \in Nat /\ \A k \in m .. n : s[k] \in S
  BY <1>1, SequenceLength, ElementOfSeq
<1>3. PICK t : t = SubSeq(s, m, n)
  OBVIOUS
<1>4. /\ t \in Seq(S) /\ Len(t) = IF m <= n THEN n - m + 1 ELSE 0
      /\ \A j \in 1 .. (n - m + 1) : t[j] = s[m + j - 1]
  BY <1>2, <1>3, SubSeqProperties
<1>5. ASSUME NEW j \in 1 .. Len(t) PROVE j \in 1 .. (n - m + 1) /\ m + j - 1 \in 1 .. Len(s)
  BY <1>2, <1>4
<1> QED
  BY <1>3, <1>4, <1>5 DEF IsSequence, Within

LEMMA NamesWithin ==
  ASSUME NEW s, NEW t, Within(t, s)
  PROVE  (WireFree(s) => WireFree(t)) /\ \A x : Names(t, x) => Names(s, x)
BY DEF WireFree, Names, Within

LEMMA NamesJoined ==
  ASSUME NEW s, IsSequence(s), NEW t, IsSequence(t), NEW x, Names(s \o t, x)
  PROVE  Names(s, x) \/ Names(t, x)
<1>1. PICK u : u = s \o t
  OBVIOUS
<1>2. PICK i \in 1 .. Len(u) : u[i].k = "sig" /\ u[i].sig = x
  BY <1>1 DEF Names
<1>3. \/ i \in 1 .. Len(s) /\ u[i] = s[i]
      \/ \E j \in 1 .. Len(t) : u[i] = t[j]
  BY <1>1, InConcatenation
<1> QED
  BY <1>2, <1>3 DEF Names

\* What the line of part i has of the next part.
Follows(l, number, i) ==
  IF i = Parts(ContentLen(l)) - 1 THEN <<>> ELSE <<Whole(Part(number, i + 1))>>

LEMMA FollowsNames ==
  ASSUME NEW l, NEW number, NEW i, NEW next, next = Follows(l, number, i)
  PROVE  IsSequence(next) /\ \A s : Names(next, s) => s = Part(number, i + 1)
<1>1. CASE next = <<>>
  BY <1>1, NoElements DEF Names
<1>2. CASE next = <<Whole(Part(number, i + 1))>>
  BY <1>2, OneElement, WholeParts DEF Names
<1> QED
  BY <1>1, <1>2 DEF Follows

\* The line of a part uses what its line used, and the next part.
LEMMA PartUses ==
  ASSUME NEW l, Divisible(l), NEW number, NEW i \in NumbersOf(l),
         NEW m, m = PartAssign(l, number, i), NEW s, Uses(m, s)
  PROVE  Uses(l, s) \/ s = Part(number, i + 1)
<1>1. PICK left, right, from, to, cut, len, next :
        /\ left = l.left.elems /\ right = l.right.elems /\ from = FirstTerm(i)
        /\ to = LastTerm(ContentLen(l), i) /\ cut = Len(left) /\ len = ContentLen(l)
        /\ next = Follows(l, number, i)
  OBVIOUS
<1>2. /\ IsSequence(left) /\ IsSequence(right) /\ cut \in Nat \ {0} /\ len \in Nat \ {0}
      /\ l.op = "none" => len = cut
      /\ l.op # "none" => Len(right) \in Nat \ {0} /\ len = cut + Len(right) - 1
  BY <1>1, ContentOf
<1>3. from \in 1 .. len /\ to \in from .. len
  <2>1. Spans(len, MaxTerms, Parts(len), i, from, to)
    BY <1>1, <1>2, PartSpans DEF NumbersOf
  <2> QED
    BY <2>1 DEF Spans
<1>4. IsSequence(next) /\ \A x : Names(next, x) => x = Part(number, i + 1)
  BY <1>1, FollowsNames
<1>5. /\ \A x : Names(left, x) => Uses(l, x)
      /\ \A x : Names(right, x) => Uses(l, x)
      /\ \A x : ~Names(NoOperand.elems, x)
  BY <1>1, PlainOperand DEF Uses, Divisible
<1>6. PICK a, b, c, d :
        /\ a = SubSeq(left, from, to) /\ b = SubSeq(right, from - cut + 1, to - cut + 1)
        /\ c = SubSeq(left, from, cut) /\ d = SubSeq(right, 1, to - cut + 1)
  OBVIOUS
<1>7. ASSUME NEW e, Within(e, left) \/ Within(e, right), NEW o, o = Braced(e \o next),
             Names(o.elems, s)
      PROVE  Uses(l, s) \/ s = Part(number, i + 1)
  <2>1. o.elems = e \o next
    BY <1>7 DEF Braced
  <2>2. IsSequence(e) /\ \A x : Names(e, x) => Uses(l, x)
    BY <1>5, <1>7, NamesWithin DEF Within
  <2> QED
    BY <1>4, <1>7, <2>1, <2>2, NamesJoined
<1>8. PICK part, none : part = Part(number, i) /\ none = "none"
  OBVIOUS
<1>9. CASE \E e : /\ m = Assign(part, Braced(e \o next), none, NoOperand)
                  /\ Within(e, left) \/ Within(e, right)
  <2>1. PICK e, o : /\ m = Assign(part, o, none, NoOperand) /\ o = Braced(e \o next)
                    /\ Within(e, left) \/ Within(e, right)
    BY <1>9
  <2>2. Names(o.elems, s)
    BY <1>5, <2>1, AssignFields DEF Uses
  <2> QED
    BY <1>7, <2>1, <2>2
<1>10. CASE l.op = "none" \/ to < cut
  <2>1. Within(a, left)
    <3>1. from \in Int /\ to \in Int /\ 1 <= from /\ to <= Len(left)
      BY <1>1, <1>2, <1>3, <1>10
    <3> QED
      BY <1>2, <1>6, <3>1, SubSeqWithin
  <2>2. ~(l.op # "none" /\ cut < from)
    BY <1>2, <1>3, <1>10
  <2>3. m = Assign(part, Braced(a \o next), none, NoOperand)
    BY <1>1, <1>6, <1>8, <1>10, <2>2 DEF PartAssign, Follows
  <2> QED
    BY <1>9, <2>1, <2>3
<1>11. CASE l.op # "none" /\ ~(to < cut) /\ cut < from
  <2>1. Within(b, right)
    <3>1. PICK x, y : x = from - cut + 1 /\ y = to - cut + 1
      OBVIOUS
    <3>2. x \in Int /\ y \in Int /\ 1 <= x /\ y <= Len(right)
      BY <1>2, <1>3, <1>11, <3>1
    <3> QED
      BY <1>2, <1>6, <3>1, <3>2, SubSeqWithin
  <2>2. m = Assign(part, Braced(b \o next), none, NoOperand)
    BY <1>1, <1>6, <1>8, <1>11 DEF PartAssign, Follows
  <2> QED
    BY <1>9, <2>1, <2>2
<1>12. CASE l.op # "none" /\ ~(to < cut) /\ ~(cut < from)
  <2>1. Within(c, left) /\ Within(d, right)
    <3>1. PICK y : y = to - cut + 1
      OBVIOUS
    <3>2. /\ from \in Int /\ cut \in Int /\ 1 <= from /\ cut <= Len(left)
          /\ y \in Int /\ y <= Len(right)
      <4>1. PICK r : r = Len(right)
        OBVIOUS
      <4>2. r \in Nat /\ to \in Int /\ to <= cut + r - 1
        BY <1>2, <1>3, <1>12, <4>1
      <4>3. y \in Int /\ y <= r
        BY <1>2, <3>1, <4>2
      <4> QED
        BY <1>1, <1>2, <1>3, <4>1, <4>3
    <3>3. Within(c, left)
      BY <1>2, <1>6, <3>2, SubSeqWithin
    <3>4. 1 \in Int /\ 1 <= 1
      OBVIOUS
    <3>5. Within(d, right)
      BY <1>2, <1>6, <3>1, <3>2, <3>4, SubSeqWithin
    <3> QED
      BY <3>3, <3>5
  <2>2. PICK x, y, op : /\ m = Assign(part, x, op, y)
                        /\ x = Braced(c) /\ y = Braced(d \o next)
    BY <1>1, <1>6, <1>8, <1>12 DEF PartAssign, Follows
  <2>3. x.elems = c
    BY <2>2 DEF Braced
  <2>4. Names(c, s) => Uses(l, s)
    BY <1>5, <2>1, NamesWithin
  <2>5. Names(x.elems, s) \/ Names(y.elems, s)
    BY <2>2, AssignFields DEF Uses
  <2> QED
    BY <1>7, <2>1, <2>2, <2>3, <2>4, <2>5
<1> QED
  BY <1>10, <1>11, <1>12

\* Of what is not torn apart the pass divides one operand; the operation on the other,
\* if there is one, stays in part 0.
CutOperand(l) == IF l.op = "none" THEN l.left.elems ELSE l.right.elems
Shift(l) == IF l.op = "none" THEN 0 ELSE Len(l.left.elems) - 1
Start(l, i) == IF i = 0 THEN 1 ELSE FirstTerm(i) - Shift(l)
End(l, i) == LastTerm(ContentLen(l), i) - Shift(l)
Piece(l, i) == SubSeq(CutOperand(l), Start(l, i), End(l, i))
Rest(l, i) == SubSeq(CutOperand(l), Start(l, i), Len(CutOperand(l)))

LEMMA PieceBounds ==
  ASSUME NEW l, Divisible(l), ~Torn(l), NEW i \in NumbersOf(l)
  PROVE  /\ IsSequence(CutOperand(l)) /\ WireFree(CutOperand(l)) /\ Len(CutOperand(l)) \in Nat \ {0}
         /\ Parts(ContentLen(l)) \in Nat \ {0}
         /\ Start(l, i) \in 1 .. Len(CutOperand(l)) /\ End(l, i) \in Start(l, i) .. Len(CutOperand(l))
         /\ i = Parts(ContentLen(l)) - 1 => End(l, i) = Len(CutOperand(l))
         /\ i # Parts(ContentLen(l)) - 1 => Start(l, i + 1) = End(l, i) + 1
         /\ l.op # "none" =>
              /\ Len(l.left.elems) <= LastTerm(ContentLen(l), i)
              /\ i = 0 => FirstTerm(i) = 1
              /\ i # 0 => Len(l.left.elems) < FirstTerm(i)
<1>1. PICK t, n, d, m, parts, cut :
        /\ t = Len(CutOperand(l)) /\ n = ContentLen(l) /\ d = Shift(l) /\ m = MaxTerms
        /\ parts = Parts(n) /\ cut = Len(l.left.elems)
  OBVIOUS
<1>2. PICK from, to : from = FirstTerm(i) /\ to = LastTerm(n, i)
  OBVIOUS
<1>3. /\ IsSequence(CutOperand(l)) /\ WireFree(CutOperand(l)) /\ n \in Nat \ {0} /\ t \in Nat \ {0}
      /\ d \in Nat /\ n = t + d /\ cut \in Nat
      /\ l.op = "none" => d = 0
      /\ l.op # "none" => d = cut - 1
  <2>1. CASE l.op = "none"
    <3>1. CutOperand(l) = l.left.elems /\ d = 0
      BY <1>1, <2>1 DEF CutOperand, Shift
    <3>2. cut \in Nat \ {0} /\ n = cut /\ t = cut
      BY <1>1, <2>1, <3>1, ContentOf
    <3>3. n = t + d
      BY <3>1, <3>2
    <3> QED
      BY <2>1, <3>1, <3>2, <3>3, ContentOf
  <2>2. CASE l.op # "none"
    <3>1. PICK r : r = Len(l.right.elems)
      OBVIOUS
    <3>2. /\ cut \in Nat \ {0} /\ r \in Nat \ {0} /\ n = cut + r - 1 /\ n \in Nat \ {0}
      BY <1>1, <2>2, <3>1, ContentOf
    <3>3. t = r /\ d = cut - 1
      BY <1>1, <2>2, <3>1 DEF CutOperand, Shift
    <3>4. IsSequence(CutOperand(l)) /\ WireFree(CutOperand(l))
      BY <2>2, ContentOf DEF CutOperand
    <3> QED
      BY <2>2, <3>2, <3>3, <3>4
  <2> QED
    BY <2>1, <2>2
<1>4. d < m
  <2>1. m \in Nat \ {0}
    BY <1>1, MaxTermsAssumption
  <2>2. ASSUME l.op # "none" PROVE cut <= m
    <3>1. ~(cut > m)
      BY <1>1, <2>2 DEF Torn, IsOperation, Divisible, Divides
    <3> QED
      BY <1>3, <2>1, <3>1
  <2> QED
    BY <1>3, <2>1, <2>2
<1>5. /\ parts \in Nat \ {0} /\ from \in 1 .. n /\ to \in from .. n
      /\ i = 0 => from = 1
      /\ i # 0 => from > m
      /\ i = parts - 1 => to = n
      /\ i # parts - 1 => to = from + m - 1 /\ FirstTerm(i + 1) = to + 1
  <2>1. Spans(n, m, parts, i, from, to)
    BY <1>1, <1>2, <1>3, PartSpans DEF NumbersOf
  <2> QED
    BY <2>1 DEF Spans
<1>6. m \in Nat \ {0} /\ i \in 0 .. (parts - 1)
  BY <1>1, MaxTermsAssumption DEF NumbersOf
<1>7. PICK start, end : start = Start(l, i) /\ end = End(l, i)
  OBVIOUS
<1>8. end = to - d /\ start = IF i = 0 THEN 1 ELSE from - d
  BY <1>1, <1>2, <1>7 DEF Start, End
<1>9. d < to
  BY <1>3, <1>4, <1>5, <1>6
<1>10. start \in 1 .. t /\ end \in start .. t
  BY <1>3, <1>4, <1>5, <1>6, <1>8, <1>9
<1>11. i = parts - 1 => end = t
  BY <1>3, <1>5, <1>8
<1>12. ASSUME i # parts - 1 PROVE Start(l, i + 1) = end + 1
  <2>1. i + 1 # 0
    BY <1>6
  <2>2. PICK j : j = i + 1
    OBVIOUS
  <2>3. FirstTerm(j) = to + 1 /\ j # 0
    BY <1>5, <1>12, <2>1, <2>2
  <2>4. Start(l, j) = FirstTerm(j) - d
    BY <1>1, <2>3 DEF Start
  <2> QED
    BY <1>3, <1>5, <1>8, <2>2, <2>3, <2>4
<1>13. ASSUME l.op # "none" PROVE cut <= to /\ (i = 0 => from = 1) /\ (i # 0 => cut < from)
  BY <1>3, <1>4, <1>5, <1>6, <1>9, <1>13
<1> QED
  BY <1>1, <1>2, <1>3, <1>5, <1>7, <1>10, <1>11, <1>12, <1>13

LEMMA PieceAndRest ==
  ASSUME NEW l, Divisible(l), ~Torn(l), NEW i \in NumbersOf(l)
  PROVE  /\ IsSequence(Piece(l, i)) /\ WireFree(Piece(l, i)) /\ IsSequence(Rest(l, i))
         /\ i = 0 => Rest(l, i) = CutOperand(l)
         /\ i = Parts(ContentLen(l)) - 1 => Piece(l, i) = Rest(l, i)
         /\ i # Parts(ContentLen(l)) - 1 => Rest(l, i) = Piece(l, i) \o Rest(l, i + 1)
<1>1. PICK s, t, start, end, parts :
        /\ s = CutOperand(l) /\ t = Len(s) /\ start = Start(l, i) /\ end = End(l, i)
        /\ parts = Parts(ContentLen(l))
  OBVIOUS
<1>2. /\ IsSequence(s) /\ WireFree(s) /\ t \in Nat \ {0}
      /\ start \in 1 .. t /\ end \in start .. t
      /\ i = parts - 1 => end = t
      /\ i # parts - 1 => Start(l, i + 1) = end + 1
  BY <1>1, PieceBounds
<1>3. PICK S : s \in Seq(S)
  BY <1>2 DEF IsSequence
<1>4. Piece(l, i) = SubSeq(s, start, end) /\ Rest(l, i) = SubSeq(s, start, t)
  BY <1>1 DEF Piece, Rest
<1>5. start \in Int /\ end \in Int /\ t \in Int /\ 1 <= start /\ end <= t /\ t <= t
  BY <1>2
<1>6. Within(SubSeq(s, start, end), s) /\ Within(SubSeq(s, start, t), s)
  BY <1>1, <1>2, <1>5, SubSeqWithin
<1>7. IsSequence(Piece(l, i)) /\ WireFree(Piece(l, i)) /\ IsSequence(Rest(l, i))
  BY <1>2, <1>4, <1>6, NamesWithin DEF Within
<1>8. i = 0 => Rest(l, i) = s
  BY <1>1, <1>3, <1>4, SubSeqFull DEF Start
<1>9. ASSUME i # parts - 1 PROVE Rest(l, i) = Piece(l, i) \o Rest(l, i + 1)
  <2>1. Rest(l, i + 1) = SubSeq(s, end + 1, t)
    BY <1>1, <1>2, <1>9 DEF Rest
  <2>2. start \in 1 .. Len(s) + 1 /\ end \in start - 1 .. Len(s) /\ t \in end .. Len(s)
    BY <1>1, <1>2
  <2>3. SubSeq(s, start, end) \o SubSeq(s, end + 1, t) = SubSeq(s, start, t)
    BY <1>3, <2>2, ConcatAdjacentSubSeq
  <2> QED
    BY <1>4, <2>1, <2>3
<1> QED
  BY <1>1, <1>2, <1>4, <1>7, <1>8, <1>9

\* What the line of part i says, by what its piece and the next part stand for.
PieceTerms(wires, l, number, i) == TermsIn(wires, Piece(l, i) \o Follows(l, number, i))

LEMMA PartTerms ==
  ASSUME NEW l, Divisible(l), ~Torn(l), NEW number, NEW i \in NumbersOf(l),
         NEW wires, OnlyMade(wires)
  PROVE  LineTerms(wires, PartAssign(l, number, i)) =
           IF l.op # "none" /\ i = 0
             THEN <<Operation(l.op, l.left.elems, PieceTerms(wires, l, number, i))>>
             ELSE PieceTerms(wires, l, number, i)
<1>1. PICK left, right, from, to, cut, next, x :
        /\ left = l.left.elems /\ right = l.right.elems /\ from = FirstTerm(i)
        /\ to = LastTerm(ContentLen(l), i) /\ cut = Len(left)
        /\ next = Follows(l, number, i) /\ x = Piece(l, i) \o next
  OBVIOUS
<1>2. TermsIn(wires, x) = PieceTerms(wires, l, number, i)
  BY <1>1 DEF PieceTerms
<1>3. IsSequence(left) /\ WireFree(left) /\ cut \in Nat
  BY <1>1, ContentOf
<1>4. /\ from \in Int /\ to \in Int
      /\ l.op # "none" => /\ cut <= to
                          /\ i = 0 => from = 1
                          /\ i # 0 => cut < from
      /\ l.op # "none" => ~(to < cut)
  <2>1. from \in Int /\ to \in Int
    <3>1. i \in Nat
      BY PieceBounds DEF NumbersOf
    <3> QED
      BY <1>1, <3>1, ContentOf, TermBounds
  <2>2. l.op # "none" => cut <= to /\ (i = 0 => from = 1) /\ (i # 0 => cut < from)
    BY <1>1, PieceBounds
  <2> QED
    BY <1>3, <2>1, <2>2
<1>5. PICK part, none, m : part = Part(number, i) /\ none = "none" /\ m = PartAssign(l, number, i)
  OBVIOUS
<1>6. PICK o : o = Braced(x) /\ o.elems = x
  <2>1. Braced(x).elems = x
    BY DEF Braced
  <2> QED
    BY <2>1
<1>7. ASSUME m = Assign(part, o, none, NoOperand)
      PROVE  LineTerms(wires, m) = TermsIn(wires, x)
  <2>1. m.op = "none" /\ m.left = o
    BY <1>5, <1>7, AssignFields
  <2> QED
    BY <1>6, <2>1 DEF LineTerms
<1>8. CASE l.op = "none"
  <2>1. x = SubSeq(left, from, to) \o next
    <3>2. to - 0 = to /\ from - 0 = from
      BY <1>4
    <3>3. End(l, i) = to
      BY <1>1, <1>8, <3>2 DEF End, Shift
    <3>4. Start(l, i) = from
      <4>1. i = 0 => from = 1
        <5>1. ASSUME i = 0 PROVE from = 0 * MaxTerms + 1
          BY <1>1, <5>1 DEF FirstTerm
        <5> QED
          BY <5>1, MaxTermsAssumption
      <4> QED
        BY <1>1, <1>8, <3>2, <4>1 DEF Start, Shift
    <3> QED
      BY <1>1, <1>8, <3>3, <3>4 DEF Piece, CutOperand
  <2>2. m = Assign(part, o, none, NoOperand)
    BY <1>1, <1>5, <1>6, <1>8, <2>1 DEF PartAssign, Follows
  <2> QED
    BY <1>2, <1>5, <1>7, <1>8, <2>2
<1>9. CASE l.op # "none" /\ i # 0
  <2>1. x = SubSeq(right, from - cut + 1, to - cut + 1) \o next
    <3>2. from - (cut - 1) = from - cut + 1 /\ to - (cut - 1) = to - cut + 1
      BY <1>3, <1>4
    <3>3. Start(l, i) = from - cut + 1 /\ End(l, i) = to - cut + 1
      BY <1>1, <1>9, <3>2 DEF Start, End, Shift
    <3> QED
      BY <1>1, <1>9, <3>3 DEF Piece, CutOperand
  <2>2. m = Assign(part, o, none, NoOperand)
    BY <1>1, <1>4, <1>5, <1>6, <1>9, <2>1 DEF PartAssign, Follows
  <2> QED
    BY <1>2, <1>5, <1>7, <1>9, <2>2
<1>10. CASE l.op # "none" /\ i = 0
  <2>1. from = 1
    BY <1>4, <1>10
  <2>2. x = SubSeq(right, 1, to - cut + 1) \o next
    <3>2. to - (cut - 1) = to - cut + 1
      BY <1>3, <1>4
    <3>3. Start(l, i) = 1 /\ End(l, i) = to - cut + 1
      BY <1>1, <1>10, <3>2 DEF Start, End, Shift
    <3> QED
      BY <1>1, <1>10, <3>3 DEF Piece, CutOperand
  <2>3. SubSeq(left, from, cut) = left
    <3>1. PICK S : left \in Seq(S)
      BY <1>3 DEF IsSequence
    <3> QED
      BY <1>1, <2>1, <3>1, SubSeqFull
  <2>4. PICK y : y = Braced(left) /\ y.elems = left
    <3>1. Braced(left).elems = left
      BY DEF Braced
    <3> QED
      BY <3>1
  <2>5. ~(cut < from)
    <3>1. cut \in Nat \ {0}
      BY <1>1, ContentOf
    <3> QED
      BY <2>1, <3>1
  <2>6. m = Assign(part, y, l.op, o)
    BY <1>1, <1>4, <1>5, <1>6, <1>10, <2>2, <2>3, <2>4, <2>5 DEF PartAssign, Follows
  <2>7. m.op = l.op /\ m.left = y /\ m.right = o
    BY <2>6, AssignFields
  <2>8. LineTerms(wires, m) = <<Operation(l.op, TermsIn(wires, left), TermsIn(wires, x))>>
    BY <1>6, <1>10, <2>4, <2>7 DEF LineTerms
  <2>9. TermsIn(wires, left) = left
    BY <1>3, FreeOfMade, TermsOfFree
  <2> QED
    BY <1>1, <1>2, <1>5, <1>10, <2>8, <2>9
<1> QED
  BY <1>8, <1>9, <1>10

LEMMA PartsPositive ==
  ASSUME NEW n \in Nat \ {0}, NEW m \in Nat \ {0}, NEW parts, parts = (n + m - 1) \div m
  PROVE  parts \in Nat \ {0}
<1>1. PICK q : q = n + m - 1
  OBVIOUS
<1>2. q \in Nat /\ q >= m
  BY <1>1
<1>3. q = m * (q \div m) + (q % m) /\ q % m \in 0 .. (m - 1) /\ q \div m \in Nat
  BY <1>2
<1>4. q \div m = 0 => q = q % m
  BY <1>2, <1>3
<1> QED
  BY <1>1, <1>2, <1>3, <1>4

\* Wires that solve the lines of the parts stand for the operand and its parts: by
\* induction from the last part back.
LEMMA PieceStands ==
  ASSUME NEW l, Divisible(l), ~Torn(l), NEW number, NEW i \in NumbersOf(l),
         NEW wires, OnlyMade(wires),
         i # Parts(ContentLen(l)) - 1 =>
           /\ Part(number, i + 1) \in DOMAIN wires
           /\ wires[Part(number, i + 1)] = Rest(l, i + 1)
  PROVE  PieceTerms(wires, l, number, i) = Rest(l, i)
<1>1. PICK piece, parts : piece = Piece(l, i) /\ parts = Parts(ContentLen(l))
  OBVIOUS
<1>2. /\ IsSequence(piece) /\ WireFree(piece) /\ parts \in Nat \ {0}
      /\ i = parts - 1 => piece = Rest(l, i)
      /\ i # parts - 1 => Rest(l, i) = piece \o Rest(l, i + 1)
  BY <1>1, PieceAndRest, PieceBounds
<1>3. Free(wires, piece)
  BY <1>2, FreeOfMade
<1>4. CASE i = parts - 1
  <2>1. Follows(l, number, i) = <<>>
    BY <1>1, <1>4 DEF Follows
  <2>2. piece \o <<>> = piece
    BY <1>2, ConcatenationLaws, SMTT(30)
  <2> QED
    BY <1>1, <1>2, <1>3, <1>4, <2>1, <2>2, TermsOfFree DEF PieceTerms
<1>5. CASE i # parts - 1
  <2>1. PICK w : w = Part(number, i + 1)
    OBVIOUS
  <2>2. Follows(l, number, i) = <<Whole(w)>>
    BY <1>1, <1>5, <2>1 DEF Follows
  <2>3. i + 1 \in NumbersOf(l)
    BY <1>1, <1>2, <1>5 DEF NumbersOf
  <2>4. w \in DOMAIN wires /\ wires[w] = Rest(l, i + 1) /\ IsSequence(wires[w])
    BY <1>1, <1>5, <2>1, <2>3, PieceAndRest
  <2>5. TermsIn(wires, piece \o <<Whole(w)>>) = piece \o wires[w]
    BY <1>2, <1>3, <2>4, TermsOfFreeAndWire
  <2> QED
    BY <1>1, <1>2, <1>5, <2>2, <2>4, <2>5 DEF PieceTerms
<1> QED
  BY <1>4, <1>5

LEMMA PartNames ==
  ASSUME NEW number
  PROVE  /\ \A i : /\ Own(Part(number, i), "divide", number) /\ Part(number, i)[3] = i + 1
         /\ Own(<<"divide", number, 0>>, "divide", number) /\ <<"divide", number, 0>>[3] = 0
BY DEF Part, Own, Made

LEMMA PartsStand ==
  ASSUME NEW l, Divisible(l), ~Torn(l), NEW number, NEW wires, OnlyMade(wires),
         \A i \in NumbersOf(l) : SolvesLine(wires, PartAssign(l, number, i))
  PROVE  /\ Part(number, 0) \in DOMAIN wires
         /\ wires[Part(number, 0)] = LineTerms(wires, l)
<1>1. PICK parts : parts = Parts(ContentLen(l))
  OBVIOUS
<1>2. ContentLen(l) \in Nat \ {0} /\ MaxTerms \in Nat \ {0}
  BY ContentOf, MaxTermsAssumption
<1>3. parts \in Nat \ {0} /\ NumbersOf(l) = 0 .. (parts - 1) /\ 0 \in NumbersOf(l)
  <2>1. PICK n, m : n = ContentLen(l) /\ m = MaxTerms
    OBVIOUS
  <2>2. n \in Nat \ {0} /\ m \in Nat \ {0} /\ parts = (n + m - 1) \div m
    BY <1>1, <1>2, <2>1 DEF Parts
  <2>3. parts \in Nat \ {0}
    BY <2>2, PartsPositive
  <2> QED
    BY <1>1, <2>3 DEF NumbersOf
<1>4. ASSUME NEW i \in NumbersOf(l)
      PROVE  /\ Part(number, i) \in DOMAIN wires
             /\ wires[Part(number, i)] = LineTerms(wires, PartAssign(l, number, i))
  <2>1. SolvesLine(wires, PartAssign(l, number, i)) /\ Made(Part(number, i))
    BY PartNames DEF Own
  <2>2. i \in Nat /\ IsLine(l) /\ l.k = "assign" /\ Divides(l)
    BY <1>3 DEF Divisible
  <2>3. Says(PartAssign(l, number, i), "assign", Part(number, i))
    BY <2>2, PartIsLine DEF Kinds
  <2>4. PartAssign(l, number, i).k = "assign" /\ PartAssign(l, number, i).dst = Part(number, i)
    BY <2>3 DEF Says
  <2> QED
    BY <2>1, <2>4 DEF SolvesLine
<1>5. PICK S : S = {j \in 0 .. (parts - 1) :
                      PieceTerms(wires, l, number, parts - 1 - j) = Rest(l, parts - 1 - j)}
  OBVIOUS
<1>6. ASSUME NEW i \in 0 .. (parts - 1), i # parts - 1,
             PieceTerms(wires, l, number, i + 1) = Rest(l, i + 1)
      PROVE  PieceTerms(wires, l, number, i) = Rest(l, i)
  <2>1. i \in NumbersOf(l) /\ i + 1 \in NumbersOf(l) /\ i + 1 # 0
    BY <1>3, <1>6
  <2>2. PICK j : j = i + 1
    OBVIOUS
  <2>3. LineTerms(wires, PartAssign(l, number, j)) = PieceTerms(wires, l, number, j)
    BY <2>1, <2>2, PartTerms
  <2>4. Part(number, j) \in DOMAIN wires /\ wires[Part(number, j)] = Rest(l, j)
    BY <1>4, <1>6, <2>1, <2>2, <2>3
  <2> QED
    BY <2>1, <2>2, <2>4, PieceStands
<1>7. 0 \in S
  <2>1. parts - 1 \in NumbersOf(l) /\ parts - 1 - 0 = parts - 1 /\ 0 \in 0 .. (parts - 1)
    BY <1>3
  <2>2. PieceTerms(wires, l, number, parts - 1) = Rest(l, parts - 1)
    BY <1>1, <2>1, PieceStands
  <2> QED
    BY <1>5, <2>1, <2>2
<1>8. ASSUME NEW j \in 1 .. (parts - 1), j - 1 \in S PROVE j \in S
  <2>1. /\ parts - 1 - j \in 0 .. (parts - 1) /\ j \in 0 .. (parts - 1)
        /\ parts - 1 - j # parts - 1 /\ (parts - 1 - j) + 1 = parts - 1 - (j - 1)
    BY <1>3
  <2> QED
    BY <1>5, <1>6, <1>8, <2>1
<1>9. PieceTerms(wires, l, number, 0) = CutOperand(l)
  <2>1. parts - 1 \in Nat /\ parts - 1 - (parts - 1) = 0 /\ parts - 1 \in 0 .. (parts - 1)
    BY <1>3
  <2>2. 0 .. (parts - 1) \subseteq S
    BY <1>7, <1>8, <2>1, InductionTo
  <2>3. parts - 1 \in S
    BY <2>1, <2>2
  <2>4. PieceTerms(wires, l, number, 0) = Rest(l, 0)
    BY <1>5, <2>1, <2>3
  <2> QED
    BY <1>3, <2>4, PieceAndRest
<1>10. LineTerms(wires, PartAssign(l, number, 0)) = LineTerms(wires, l)
  <2>1. /\ IsSequence(l.left.elems) /\ WireFree(l.left.elems)
        /\ l.op # "none" => WireFree(l.right.elems)
        /\ IsSequence(l.right.elems)
    BY ContentOf
  <2>2. /\ TermsIn(wires, l.left.elems) = l.left.elems
        /\ l.op # "none" => TermsIn(wires, l.right.elems) = l.right.elems
    BY <2>1, FreeOfMade, TermsOfFree
  <2>3. CASE l.op = "none"
    <3>1. LineTerms(wires, PartAssign(l, number, 0)) = CutOperand(l)
      BY <1>3, <1>9, <2>3, PartTerms
    <3> QED
      BY <2>2, <2>3, <3>1 DEF LineTerms, CutOperand
  <2>4. CASE l.op # "none"
    <3>1. LineTerms(wires, PartAssign(l, number, 0)) =
            <<Operation(l.op, l.left.elems, CutOperand(l))>>
      BY <1>3, <1>9, <2>4, PartTerms
    <3> QED
      BY <2>2, <2>4, <3>1 DEF LineTerms, CutOperand
  <2> QED
    BY <2>3, <2>4
<1> QED
  BY <1>3, <1>4, <1>10

LEMMA DivideLines ==
  ASSUME NEW l, IsLine(l), l.k = "assign", Divides(l), NEW number
  PROVE  \E whole, D :
           /\ whole = <<"divide", number, 0>> /\ \A d \in D : d.k = "decl"
           /\ Lines(Divide(l, number)) =
                D \cup {Assign(whole, Plain(Part(number, 0)), "none", NoOperand),
                        Assign(l.dst, Plain(whole), "none", NoOperand)}
                  \cup {PartAssign(l, number, i) : i \in NumbersOf(l)}
<1>1. PICK len, parts, whole : /\ len = ContentLen(l) /\ parts = Parts(len)
                               /\ whole = <<"divide", number, 0>>
  OBVIOUS
<1> DEFINE Width(i) == IF i = parts - 1 THEN LastTerm(len, i) - FirstTerm(i) + 1
                       ELSE MaxTerms + 1
<1>2. len \in Nat
  BY <1>1, ContentLength
<1>3. parts \in Nat
  BY <1>1, <1>2, MaxTermsAssumption, PartsFit DEF Parts
<1>4. PICK decls : decls = [j \in 1 .. parts |-> Decl(Part(number, j - 1), Width(j - 1), FALSE)]
  OBVIOUS
<1>5. PICK assigns : assigns = [j \in 1 .. parts |-> PartAssign(l, number, j - 1)]
  OBVIOUS
<1>6. PICK a, b, c : /\ a = Decl(whole, len, FALSE)
                     /\ b = Assign(whole, Plain(Part(number, 0)), "none", NoOperand)
                     /\ c = Assign(l.dst, Plain(whole), "none", NoOperand)
  OBVIOUS
<1>7. Divide(l, number) = <<a>> \o decls \o <<b>> \o assigns \o <<c>>
  BY <1>1, <1>4, <1>5, <1>6 DEF Divide
<1>8. IsSequence(decls) /\ Lines(decls) = {decls[j] : j \in 1 .. parts}
  <2>1. IsSequence(decls) /\ Len(decls) = parts
    BY <1>3, <1>4, FunctionIsSequence
  <2> QED
    BY <2>1 DEF Lines
<1>9. IsSequence(assigns) /\ Lines(assigns) = {assigns[j] : j \in 1 .. parts}
  <2>1. IsSequence(assigns) /\ Len(assigns) = parts
    BY <1>3, <1>5, FunctionIsSequence
  <2> QED
    BY <2>1 DEF Lines
<1>10. \A d \in Lines(decls) : d.k = "decl"
  <2>1. \A j \in 1 .. parts : decls[j].k = "decl"
    <3>1. PICK no : no = FALSE
      OBVIOUS
    <3>2. \A j \in 1 .. parts : decls[j] = Decl(Part(number, j - 1), Width(j - 1), no)
      BY <1>4, <3>1
    <3> QED
      BY <3>2, DeclIsNoAssignment
  <2> QED
    BY <1>8, <2>1
<1>11. Lines(assigns) = {PartAssign(l, number, i) : i \in NumbersOf(l)}
  <2>1. \A j \in 1 .. parts : assigns[j] = PartAssign(l, number, j - 1) /\ j - 1 \in 0 .. (parts - 1)
    BY <1>3, <1>5
  <2>2. ASSUME NEW i \in 0 .. (parts - 1) PROVE i + 1 \in 1 .. parts /\ (i + 1) - 1 = i
    BY <1>3
  <2>3. \A i \in 0 .. (parts - 1) : \E j \in 1 .. parts : PartAssign(l, number, i) = assigns[j]
    BY <2>1, <2>2
  <2>4. NumbersOf(l) = 0 .. (parts - 1)
    BY <1>1 DEF NumbersOf
  <2> QED
    BY <1>9, <2>1, <2>3, <2>4
<1>12. PICK pa, pb, pc : pa = <<a>> /\ pb = <<b>> /\ pc = <<c>>
  OBVIOUS
<1>13. /\ IsSequence(pa) /\ Lines(pa) = {a} /\ IsSequence(pb) /\ Lines(pb) = {b}
       /\ IsSequence(pc) /\ Lines(pc) = {c}
  BY <1>12, OneElement, LinesOfOne
<1>14. PICK f : f = pa \o decls /\ JoinLines(f, pa, decls)
  BY <1>8, <1>13, JoinedLines
<1>15. PICK g : g = f \o pb /\ JoinLines(g, f, pb)
  <2>1. IsSequence(f)
    BY <1>14 DEF JoinLines
  <2>2. JoinLines(f \o pb, f, pb)
    BY <1>13, <2>1, JoinedLines
  <2> QED
    BY <2>2
<1>16. PICK h : h = g \o assigns /\ JoinLines(h, g, assigns)
  <2>1. IsSequence(g)
    BY <1>15 DEF JoinLines
  <2>2. JoinLines(g \o assigns, g, assigns)
    BY <1>9, <2>1, JoinedLines
  <2> QED
    BY <2>2
<1>17. PICK new : new = h \o pc /\ JoinLines(new, h, pc)
  <2>1. IsSequence(h)
    BY <1>16 DEF JoinLines
  <2>2. JoinLines(h \o pc, h, pc)
    BY <1>13, <2>1, JoinedLines
  <2> QED
    BY <2>2
<1>18. PICK D : D = {a} \cup Lines(decls)
  OBVIOUS
<1>19. \A d \in D : d.k = "decl"
  <2>1. PICK no : no = FALSE
    OBVIOUS
  <2>2. a = Decl(whole, len, no)
    BY <1>6, <2>1
  <2>3. a.k = "decl"
    BY <2>2, DeclIsNoAssignment
  <2> QED
    BY <1>10, <1>18, <2>3
<1>20. Divide(l, number) = new
  BY <1>7, <1>12, <1>14, <1>15, <1>16, <1>17
<1>21. Lines(new) = D \cup {b, c} \cup Lines(assigns)
  BY <1>13, <1>14, <1>15, <1>16, <1>17, <1>18 DEF JoinLines
<1> QED
  BY <1>1, <1>6, <1>11, <1>19, <1>20, <1>21

\* The wires with those of the parts from k on added.
PartsAdded(more, wires, l, number, k) ==
  LET N == {i \in NumbersOf(l) : k <= i}
  IN  /\ DOMAIN more = DOMAIN wires \cup {Part(number, i) : i \in N}
      /\ Extends(more, wires) /\ OnlyMade(more)
      /\ \A i \in N : SolvesLine(more, PartAssign(l, number, i))

LEMMA PartLine ==
  ASSUME NEW l, Divisible(l), NEW number, NEW i \in NumbersOf(l),
         NEW m, m = PartAssign(l, number, i)
  PROVE  IsLine(m) /\ m.k = "assign" /\ m.dst = Part(number, i)
<1>1. i \in Nat
  <2>1. Parts(ContentLen(l)) \in Nat \ {0}
    BY ContentOf, MaxTermsAssumption, PartsPositive DEF Parts
  <2> QED
    BY <2>1 DEF NumbersOf
<1>2. IsLine(m) /\ Says(m, "assign", Part(number, i))
  BY <1>1, PartIsLine DEF Divisible, Kinds
<1> QED
  BY <1>2 DEF Says

LEMMA AddPart ==
  ASSUME NEW l, Divisible(l), NEW number, \A s : Uses(l, s) => ~Own(s, "divide", number),
         NEW wires, \A s \in DOMAIN wires : ~Own(s, "divide", number),
         NEW k \in NumbersOf(l), NEW more, PartsAdded(more, wires, l, number, k + 1)
  PROVE  \E most : PartsAdded(most, wires, l, number, k)
<1>1. PICK w, b : w = Part(number, k) /\ b = PartAssign(l, number, k)
  OBVIOUS
<1>2. \A i \in NumbersOf(l) : i \in Int
  <2>1. Parts(ContentLen(l)) \in Nat \ {0}
    BY ContentOf, MaxTermsAssumption, PartsPositive DEF Parts
  <2> QED
    BY <2>1 DEF NumbersOf
<1>3. PICK N, M : N = {i \in NumbersOf(l) : k + 1 <= i} /\ M = {i \in NumbersOf(l) : k <= i}
  OBVIOUS
<1>4. M = N \cup {k} /\ \A i \in N : k # i /\ k # i + 1 /\ i \in NumbersOf(l) /\ i \in Int
  BY <1>2, <1>3
<1>5. /\ DOMAIN more = DOMAIN wires \cup {Part(number, i) : i \in N}
      /\ Extends(more, wires) /\ OnlyMade(more)
      /\ \A i \in N : SolvesLine(more, PartAssign(l, number, i))
  BY <1>3 DEF PartsAdded
<1>6. /\ IsLine(b) /\ b.k = "assign" /\ b.dst = w
      /\ \A i : Own(Part(number, i), "divide", number) /\ Part(number, i)[3] = i + 1
  <2>1. IsLine(b) /\ b.k = "assign" /\ b.dst = w
    BY <1>1, PartLine
  <2> QED
    BY <2>1, PartNames
<1>7. Own(w, "divide", number) /\ Made(w) /\ ~Uses(l, w) /\ w \notin DOMAIN wires
  BY <1>1, <1>6 DEF Own
<1>8. \A i \in N : w # Part(number, i) /\ w # Part(number, i + 1)
  <2>1. ASSUME NEW i \in Int, i # k PROVE w # Part(number, i)
    <3>1. i + 1 # k + 1
      BY <1>2, <2>1
    <3> QED
      BY <1>1, <1>6, <3>1
  <2> QED
    BY <1>4, <2>1
<1>9. w \notin DOMAIN more /\ ~Uses(b, w)
  <2>1. w # Part(number, k + 1)
    <3>1. k + 1 # (k + 1) + 1
      BY <1>2
    <3> QED
      BY <1>1, <1>6, <3>1
  <2> QED
    BY <1>1, <1>5, <1>7, <1>8, <2>1, PartUses
<1>10. PICK most : Adds(most, more, w) /\ SolvesLine(most, b)
  BY <1>5, <1>6, <1>7, <1>9, AddDriver
<1>11. ASSUME NEW i \in N PROVE SolvesLine(most, PartAssign(l, number, i))
  <2>1. PICK m : m = PartAssign(l, number, i)
    OBVIOUS
  <2>2. IsLine(m) /\ SolvesLine(more, m)
    BY <1>4, <1>5, <2>1, PartLine
  <2>3. ~Uses(m, w)
    BY <1>4, <1>7, <1>8, <2>1, PartUses
  <2>4. SolvesLine(most, m)
    BY <1>10, <2>2, <2>3, StillSolves DEF Adds
  <2> QED
    BY <2>1, <2>4
<1>12. DOMAIN most = DOMAIN wires \cup {Part(number, i) : i \in M}
  BY <1>1, <1>4, <1>5, <1>10 DEF Adds
<1>13. Extends(most, wires) /\ OnlyMade(most)
  BY <1>5, <1>10 DEF Adds, Extends
<1>14. \A i \in M : SolvesLine(most, PartAssign(l, number, i))
  BY <1>1, <1>4, <1>10, <1>11
<1> QED
  BY <1>3, <1>12, <1>13, <1>14 DEF PartsAdded

LEMMA AddParts ==
  ASSUME NEW l, Divisible(l), NEW number, \A s : Uses(l, s) => ~Own(s, "divide", number),
         NEW wires, OnlyMade(wires), \A s \in DOMAIN wires : ~Own(s, "divide", number)
  PROVE  \E more : PartsAdded(more, wires, l, number, 0)
<1>1. PICK parts : parts = Parts(ContentLen(l))
  OBVIOUS
<1>2. parts \in Nat \ {0} /\ NumbersOf(l) = 0 .. (parts - 1)
  BY <1>1, ContentOf, MaxTermsAssumption, PartsPositive DEF Parts, NumbersOf
<1>3. PICK S : S = {j \in 0 .. parts : \E more : PartsAdded(more, wires, l, number, parts - j)}
  OBVIOUS
<1>4. 0 \in S
  <2>1. {i \in NumbersOf(l) : parts <= i} = {}
    BY <1>2
  <2>2. Extends(wires, wires) /\ DOMAIN wires = DOMAIN wires \cup {}
    BY DEF Extends
  <2>3. PartsAdded(wires, wires, l, number, parts)
    BY <2>1, <2>2 DEF PartsAdded
  <2>4. parts - 0 = parts /\ 0 \in 0 .. parts
    BY <1>2
  <2> QED
    BY <1>3, <2>3, <2>4
<1>5. ASSUME NEW j \in 1 .. parts, j - 1 \in S PROVE j \in S
  <2>1. PICK k : k = parts - j
    OBVIOUS
  <2>2. k \in NumbersOf(l) /\ parts - (j - 1) = k + 1 /\ j \in 0 .. parts
    BY <1>2, <2>1
  <2>3. PICK more : PartsAdded(more, wires, l, number, k + 1)
    BY <1>3, <1>5, <2>2
  <2>4. \E most : PartsAdded(most, wires, l, number, k)
    BY <2>2, <2>3, AddPart
  <2> QED
    BY <1>3, <2>1, <2>2, <2>4
<1>6. parts \in S /\ parts - parts = 0
  <2>1. parts \in Nat /\ parts \in 0 .. parts /\ parts - parts = 0
    BY <1>2
  <2> QED
    BY <1>4, <1>5, <2>1, InductionTo
<1> QED
  BY <1>3, <1>6

LEMMA DivideKeeps ==
  ASSUME NEW l, IsLine(l), l.k = "assign", Treats("divide", l), Shaped(l, FALSE), NEW number,
         \A s : Uses(l, s) => ~Own(s, "divide", number)
  PROVE  KeepsTerms(Lines(Divide(l, number)), l, "divide", number, TRUE)
<1>1. Divisible(l)
  BY DEF Divisible, Treats
<1>2. PICK whole, part0, parts, N :
        /\ whole = <<"divide", number, 0>> /\ part0 = Part(number, 0)
        /\ parts = Parts(ContentLen(l)) /\ N = NumbersOf(l)
  OBVIOUS
<1>3. parts \in Nat \ {0} /\ N = 0 .. (parts - 1) /\ 0 \in N
  <2>1. parts \in Nat \ {0} /\ N = 0 .. (parts - 1)
    BY <1>1, <1>2, ContentOf, MaxTermsAssumption, PartsPositive DEF Parts, NumbersOf
  <2> QED
    BY <2>1
<1>4. PICK b, c : /\ b = Assign(whole, Plain(part0), "none", NoOperand)
                  /\ c = Assign(l.dst, Plain(whole), "none", NoOperand)
  OBVIOUS
<1>5. PICK D : /\ \A d \in D : d.k = "decl"
               /\ Lines(Divide(l, number)) =
                    D \cup {b, c} \cup {PartAssign(l, number, i) : i \in N}
  <2>1. PICK same, D :
          /\ same = <<"divide", number, 0>> /\ \A d \in D : d.k = "decl"
          /\ Lines(Divide(l, number)) =
               D \cup {Assign(same, Plain(Part(number, 0)), "none", NoOperand),
                       Assign(l.dst, Plain(same), "none", NoOperand)}
                 \cup {PartAssign(l, number, i) : i \in NumbersOf(l)}
    BY <1>1, <1>2, DivideLines DEF Divisible
  <2> QED
    BY <1>2, <1>4, <2>1
<1>6. /\ b.k = "assign" /\ b.dst = whole /\ b.left = Plain(part0) /\ b.op = "none"
      /\ b.right = NoOperand
      /\ c.k = "assign" /\ c.dst = l.dst /\ c.left = Plain(whole) /\ c.op = "none"
      /\ c.right = NoOperand
  BY <1>4, AssignFields
<1>7. /\ Own(whole, "divide", number) /\ Made(whole) /\ whole[3] = 0
      /\ \A i : /\ Own(Part(number, i), "divide", number) /\ Made(Part(number, i))
                /\ Part(number, i)[3] = i + 1
  BY <1>2, PartNames DEF Own
<1>8. PICK L : L = Lines(Divide(l, number))
  OBVIOUS
<1>9. ASSUME NEW m \in L
      PROVE  \A s : Uses(m, s) => Uses(l, s) \/ Own(s, "divide", number)
  <2>1. CASE m \in D
    BY <1>5, <2>1 DEF Uses
  <2>2. CASE m = b \/ m = c
    <3>1. /\ \A s : Names(b.left.elems, s) => s = part0
          /\ \A s : Names(c.left.elems, s) => s = whole
          /\ \A s : ~Names(b.right.elems, s) /\ ~Names(c.right.elems, s)
      BY <1>6, PlainOperand
    <3>2. Own(part0, "divide", number)
      BY <1>2, <1>7
    <3> QED
      BY <1>7, <2>2, <3>1, <3>2 DEF Uses
  <2>3. CASE \E i \in N : m = PartAssign(l, number, i)
    BY <1>1, <1>2, <1>7, <2>3, PartUses
  <2> QED
    BY <1>5, <1>8, <2>1, <2>2, <2>3
<1>10. \A m \in L : Shaped(m, TRUE)
  BY DEF Shaped
<1>11. ASSUME NEW wires, OnlyMade(wires), SolvesLine(wires, b), ~Torn(l),
              \A i \in N : SolvesLine(wires, PartAssign(l, number, i))
       PROVE  /\ whole \in DOMAIN wires /\ wires[whole] = LineTerms(wires, l)
              /\ SameTerms(wires, l, c)
  <2>1. part0 \in DOMAIN wires /\ wires[part0] = LineTerms(wires, l)
    BY <1>1, <1>2, <1>11, PartsStand
  <2>2. whole \in DOMAIN wires /\ wires[whole] = LineTerms(wires, l)
    BY <1>6, <1>7, <1>11, <2>1, TermsOfWire DEF SolvesLine, LineTerms
  <2>3. LineTerms(wires, c) = LineTerms(wires, l)
    BY <1>6, <2>2, TermsOfWire DEF LineTerms
  <2>4. ~Torn(c)
    BY <1>6 DEF Torn, IsOperation
  <2> QED
    BY <1>6, <2>2, <2>3, <2>4 DEF SameTerms, Drives
<1>12. ASSUME NEW wires, OnlyMade(wires), Solves(wires, L), ~Torn(l)
       PROVE  Stays(wires, l, L)
  <2>1. SolvesLine(wires, b) /\ \A i \in N : SolvesLine(wires, PartAssign(l, number, i))
    BY <1>5, <1>8, <1>12 DEF Solves
  <2>2. SameTerms(wires, l, c) /\ c \in L
    BY <1>5, <1>8, <1>11, <1>12, <2>1
  <2> QED
    BY <2>2 DEF Stays
<1>13. ASSUME NEW wires, OnlyMade(wires), SolvesLine(wires, l),
              \A s \in DOMAIN wires : ~Own(s, "divide", number)
       PROVE  \E more : /\ DOMAIN more = DOMAIN wires \cup WiresOf(L)
                        /\ Extends(more, wires) /\ Solves(more, L)
  <2>1. PICK some : PartsAdded(some, wires, l, number, 0)
    BY <1>1, <1>13, AddParts
  <2>2. {i \in N : 0 <= i} = N
    BY <1>3
  <2>3. /\ DOMAIN some = DOMAIN wires \cup {Part(number, i) : i \in N}
        /\ Extends(some, wires) /\ OnlyMade(some)
        /\ \A i \in N : SolvesLine(some, PartAssign(l, number, i))
    BY <1>2, <2>1, <2>2 DEF PartsAdded
  <2>4. \A i \in N : whole # Part(number, i) /\ whole # Part(number, i + 1)
    <3>1. ASSUME NEW i \in Nat PROVE whole # Part(number, i)
      <4>1. i + 1 # 0
        OBVIOUS
      <4> QED
        BY <1>7, <4>1
    <3> QED
      BY <1>3, <3>1
  <2>5. whole \notin DOMAIN some /\ ~Uses(l, whole)
    BY <1>7, <1>13, <2>3, <2>4
  <2>6. IsLine(b) /\ ~Uses(b, whole)
    <3>1. part0 # whole
      BY <1>2, <1>3, <2>4
    <3>2. ~Uses(b, whole)
      BY <1>6, <3>1, PlainOperand DEF Uses
    <3> QED
      BY <1>4, <3>2, PlainIsSequence, AssignIsLine
  <2>7. PICK more : Adds(more, some, whole) /\ SolvesLine(more, b)
    BY <1>6, <1>7, <2>3, <2>5, <2>6, AddDriver
  <2>8. Extends(more, wires) /\ OnlyMade(more)
    BY <2>3, <2>7 DEF Adds, Extends
  <2>9. ASSUME NEW i \in N PROVE SolvesLine(more, PartAssign(l, number, i))
    <3>1. PICK m : m = PartAssign(l, number, i)
      OBVIOUS
    <3>2. IsLine(m) /\ SolvesLine(some, m)
      BY <1>1, <1>2, <2>3, <3>1, PartLine
    <3>3. ~Uses(m, whole)
      BY <1>1, <1>2, <2>4, <2>5, <3>1, PartUses
    <3>4. SolvesLine(more, m)
      BY <2>7, <3>2, <3>3, StillSolves DEF Adds
    <3> QED
      BY <3>1, <3>4
  <2>10. SolvesLine(more, c)
    <3>1. CASE Made(l.dst)
      <4>1. ~Torn(l)
        BY <3>1 DEF Shaped, Torn, IsOperation
      <4>2. SameTerms(more, l, c)
        BY <1>11, <2>7, <2>8, <2>9, <4>1
      <4>3. SolvesLine(more, l)
        <5>1. \A s \in DOMAIN more : Uses(l, s) => s \in DOMAIN wires
          BY <1>7, <2>3, <2>5, <2>7 DEF Adds
        <5> QED
          BY <1>13, <2>8, <5>1, StillSolves
      <4> QED
        BY <1>6, <3>1, <4>2, <4>3 DEF SolvesLine, SameTerms
    <3>2. CASE ~Made(l.dst)
      BY <1>6, <3>2 DEF SolvesLine
    <3> QED
      BY <3>1, <3>2
  <2>11. Solves(more, L)
    <3>1. \A d \in D : SolvesLine(more, d)
      BY <1>5 DEF SolvesLine
    <3> QED
      BY <1>5, <1>8, <2>7, <2>9, <2>10, <3>1 DEF Solves
  <2>12. WiresOf(L) = {Part(number, i) : i \in N} \cup {whole} \cup {s \in {l.dst} : Made(s)}
    <3>1. \A i \in N : /\ PartAssign(l, number, i).k = "assign"
                       /\ PartAssign(l, number, i).dst = Part(number, i)
      BY <1>1, <1>2, PartLine
    <3> QED
      BY <1>5, <1>6, <1>7, <1>8, <3>1 DEF WiresOf
  <2>13. Made(l.dst) => l.dst \in DOMAIN wires
    BY <1>13 DEF SolvesLine
  <2>14. DOMAIN more = DOMAIN wires \cup WiresOf(L)
    BY <2>3, <2>7, <2>12, <2>13 DEF Adds
  <2> QED
    BY <2>8, <2>11, <2>14
<1> QED
  BY <1>8, <1>9, <1>10, <1>12, <1>13 DEF KeepsTerms

LEMMA RewriteKeeps ==
  ASSUME NEW f, NEW n, NEW p \in Makers, NEW number, NEW divided \in BOOLEAN,
         IsLine(f[n]), Shaped(f[n], divided), p = "divide" => ~divided,
         Treats(p, f[n]), Rewrite(p, f, n, number) # <<Error>>,
         \A s : Uses(f[n], s) => ~Own(s, p, number)
  PROVE  KeepsTerms(Lines(Rewrite(p, f, n, number)), f[n], p, number, divided \/ p = "divide")
<1>1. PICK l : l = f[n]
  OBVIOUS
<1>2. /\ IsLine(l) /\ Shaped(l, divided) /\ Treats(p, l)
      /\ \A s : Uses(l, s) => ~Own(s, p, number)
  BY <1>1
<1>3. l.k = "assign" /\ (p # "divide" => IsOperation(l)) /\ p # "compress"
  BY <1>2 DEF Treats, Makers, ExpandsLeft, ExpandsRight, ExpandsReduction, Divides, IsOperation
<1>4. CASE p \in {"left", "right"}
  <2>1. PICK side \in {"left", "right"} : side = p
    BY <1>4
  <2>2. Rewrite(p, f, n, number) = Measured(l, f, n, p, number, side)
    BY <1>1, <1>2, <1>3, <2>1 DEF Rewrite
  <2>3. PICK width : Rewrite(p, f, n, number) = Hoist(l, f, n, p, number, side, width)
    BY <2>2 DEF Measured
  <2>4. Operand(l, side).braces
    BY <1>2, <2>1 DEF Treats, ExpandsLeft, ExpandsRight, Long, Operand
  <2>5. KeepsTerms(Lines(Hoist(l, f, n, p, number, side, width)), l, p, number, divided)
    BY <1>2, <1>3, <1>4, <2>4, HoistKeeps
  <2>6. (divided \/ p = "divide") = divided
    BY <1>4
  <2> QED
    BY <1>1, <2>3, <2>5, <2>6
<1>5. CASE p = "reduction"
  <2>1. PICK width : Rewrite(p, f, n, number) = Hoist(l, f, n, p, number, "right", width)
    BY <1>1, <1>2, <1>5 DEF Rewrite
  <2>2. Operand(l, "right").braces
    BY <1>2, <1>5 DEF Treats, ExpandsReduction, Long, Operand
  <2>3. KeepsTerms(Lines(Hoist(l, f, n, p, number, "right", width)), l, p, number, divided)
    BY <1>2, <1>3, <1>5, <2>2, HoistKeeps
  <2>4. (divided \/ p = "divide") = divided
    BY <1>5
  <2> QED
    BY <1>1, <2>1, <2>3, <2>4
<1>6. CASE p = "divide"
  <2>1. Rewrite(p, f, n, number) = Divide(l, number)
    BY <1>1, <1>2, <1>6 DEF Rewrite
  <2>2. Shaped(l, FALSE)
    BY <1>2, <1>6
  <2>3. KeepsTerms(Lines(Divide(l, number)), l, "divide", number, TRUE)
    BY <1>2, <1>3, <1>6, <2>2, DivideKeeps
  <2> QED
    BY <1>1, <1>6, <2>1, <2>3
<1> QED
  BY <1>4, <1>5, <1>6 DEF Makers

LEMMA StaysTransitive ==
  ASSUME NEW wires, NEW l, NEW L, Stays(wires, l, L), NEW M, NEW p,
         \A m \in L : (p = "divide" => ~Torn(m)) => Stays(wires, m, M),
         p = "divide" => ~Torn(l)
  PROVE  Stays(wires, l, M)
<1> SUFFICES ASSUME l.k = "assign" PROVE \E m \in M : SameTerms(wires, l, m)
  BY DEF Stays
<1>1. PICK m \in L : SameTerms(wires, l, m)
  BY DEF Stays
<1>2. m.k = "assign" /\ m.dst = l.dst /\ (p = "divide" => ~Torn(m))
  BY <1>1 DEF SameTerms, Drives
<1>3. PICK k \in M : SameTerms(wires, m, k)
  BY <1>2 DEF Stays
<1>4. SameTerms(wires, l, k)
  BY <1>1, <1>2, <1>3 DEF SameTerms
<1> QED
  BY <1>3, <1>4

LEMMA StaysMonotone ==
  ASSUME NEW wires, NEW l, NEW L, Stays(wires, l, L), NEW M, L \subseteq M
  PROVE  Stays(wires, l, M)
BY DEF Stays

-----------------------------------------------------------------------------
(* What the passes keep, as long as none compresses: in file f after the passes A, and
   in what pass p has written of it, g, when it has counted k lines and is at line n. *)
KeptShape(l, A) ==
  Shaped(l, "divide" \in A) /\ \A s : Uses(l, s) /\ Made(s) => s[1] \in A
OutShape(l, A, p, k) ==
  /\ Shaped(l, "divide" \in A \cup {p})
  /\ \A s : Uses(l, s) /\ Made(s) => s[1] \in A \/ (s[1] = p /\ s[2] \in 0 .. (k - 1))

\* Whatever the wires stand for, each line stays, but one that the dividing pass tears
\* apart; and they stand for something.
Kept(l, A) == "divide" \in A => ~Torn(l)
AllStay(o, f, A) ==
  \A wires : OnlyMade(wires) /\ Solves(wires, Lines(f)) =>
    \A l \in Lines(o) : Kept(l, A) => Stays(wires, l, Lines(f))
Solved(f) == \E wires : DOMAIN wires = WiresOf(Lines(f)) /\ Solves(wires, Lines(f))
FileTerms(o, f, A) ==
  (\A l \in Lines(f) : KeptShape(l, A)) /\ AllStay(o, f, A) /\ Solved(f)

ReadStay(f, g, n, p) ==
  \A wires : OnlyMade(wires) /\ Solves(wires, Lines(g)) =>
    \A i \in 1 .. (n - 1) : (p = "divide" => ~Torn(f[i])) => Stays(wires, f[i], Lines(g))
BothSolved(f, g) ==
  \E wires : /\ DOMAIN wires = WiresOf(Lines(f)) \cup WiresOf(Lines(g))
             /\ Solves(wires, Lines(f)) /\ Solves(wires, Lines(g))
OutTerms(f, A, p, g, k, n) ==
  (\A l \in Lines(g) : OutShape(l, A, p, k)) /\ ReadStay(f, g, n, p) /\ BothSolved(f, g)

TermsInv ==
  /\ origin \in Files
  /\ "compress" \notin applied => FileTerms(origin, file, applied)
  /\ pass # "none" /\ "compress" \notin applied \cup {pass} =>
       OutTerms(file, applied, pass, out, treated, at)

\* What an element of a line may be that no pass has seen.
LEMMA OriginLines ==
  ASSUME NEW f \in Files, NEW l \in Lines(f), l.k = "assign"
  PROVE  /\ IsLine(l) /\ ~Made(l.dst) /\ (l.op = "none" => l.right = NoOperand)
         /\ \A i \in 1 .. Len(l.left.elems) : IsElement(l.left.elems[i])
         /\ \A i \in 1 .. Len(l.right.elems) : IsElement(l.right.elems[i])
         /\ l.left.braces => Len(l.left.elems) # 0
         /\ l.right.braces => Len(l.right.elems) # 0
<1>1. PICK n \in 1 .. Len(f) : l = f[n]
  BY DEF Lines
<1>2. /\ ~Made(l.dst) /\ l = Assign(l.dst, l.left, l.op, l.right)
      /\ IsSeq(l.left.elems) /\ IsSeq(l.right.elems)
      /\ l.op = "none" => l.right = NoOperand
      /\ l.left.braces => Len(l.left.elems) # 0
      /\ l.right.braces => Len(l.right.elems) # 0
      /\ \A e \in Range(l.left.elems) \cup Range(l.right.elems) : IsElement(e)
  BY <1>1, FilesAssumption DEF ModuleLine
<1>3. IsLine(l)
  BY <1>2 DEF IsLine, IsSeq, IsSequence
<1>4. DOMAIN l.left.elems = 1 .. Len(l.left.elems) /\ DOMAIN l.right.elems = 1 .. Len(l.right.elems)
  BY <1>2, SequenceDomain DEF IsSeq, IsSequence
<1>5. /\ \A i \in 1 .. Len(l.left.elems) : l.left.elems[i] \in Range(l.left.elems)
      /\ \A i \in 1 .. Len(l.right.elems) : l.right.elems[i] \in Range(l.right.elems)
  BY <1>4 DEF Range
<1> QED
  BY <1>2, <1>3, <1>5

LEMMA ElementNamesNoWire ==
  ASSUME NEW elems, \A i \in 1 .. Len(elems) : IsElement(elems[i])
  PROVE  WireFree(elems) /\ \A s : Names(elems, s) => ~Made(s)
<1>1. ASSUME NEW i \in 1 .. Len(elems)
      PROVE  /\ elems[i].k = "sig" => ~Made(elems[i].sig)
             /\ elems[i].k # "rep"
  <2>1. PICK e : e = elems[i]
    OBVIOUS
  <2>2. IsElement(e)
    BY <2>1
  <2> QED
    BY <2>1, <2>2 DEF IsElement
<1> QED
  BY <1>1 DEF WireFree, Names

LEMMA TermsInit == Init => TermsInv
<1> SUFFICES ASSUME Init PROVE TermsInv
  OBVIOUS
<1>1. origin \in Files /\ file = origin /\ pass = "none" /\ applied = {}
  BY DEF Init
<1>2. ASSUME NEW l \in Lines(origin) PROVE KeptShape(l, {}) /\ ~(l.k = "assign" /\ Made(l.dst))
  <2>1. CASE l.k = "assign"
    <3>1. /\ ~Made(l.dst) /\ (l.op = "none" => l.right = NoOperand)
          /\ WireFree(l.left.elems) /\ WireFree(l.right.elems)
          /\ l.left.braces => Len(l.left.elems) # 0
          /\ l.right.braces => Len(l.right.elems) # 0
          /\ \A s : Names(l.left.elems, s) \/ Names(l.right.elems, s) => ~Made(s)
      BY <1>1, <2>1, OriginLines, ElementNamesNoWire
    <3> QED
      BY <3>1 DEF KeptShape, Shaped, OperandShaped, Uses
  <2>2. CASE l.k # "assign"
    BY <2>2 DEF KeptShape, Shaped, Uses
  <2> QED
    BY <2>1, <2>2
<1>3. \A l \in Lines(file) : KeptShape(l, applied)
  BY <1>1, <1>2
<1>4. AllStay(origin, file, applied)
  <2>1. ASSUME NEW wires, NEW l \in Lines(origin) PROVE Stays(wires, l, Lines(origin))
    BY SameTermsOfSame DEF Stays
  <2> QED
    BY <1>1, <2>1 DEF AllStay
<1>5. Solved(file)
  <2>1. PICK wires : wires = [s \in {} |-> 0]
    OBVIOUS
  <2>2. WiresOf(Lines(file)) = {}
    BY <1>1, <1>2 DEF WiresOf
  <2>3. Solves(wires, Lines(file))
    BY <1>1, <1>2 DEF Solves, SolvesLine
  <2>4. DOMAIN wires = {}
    BY <2>1
  <2> QED
    BY <2>2, <2>3, <2>4 DEF Solved
<1> QED
  BY <1>1, <1>3, <1>4, <1>5 DEF TermsInv, FileTerms

LEMMA NothingWritten ==
  ASSUME NEW o, NEW f, NEW A, FileTerms(o, f, A), NEW p
  PROVE  OutTerms(f, A, p, <<>>, 0, 1)
<1>1. PICK g : g = <<>>
  OBVIOUS
<1>2. Lines(g) = {}
  <2>1. Len(g) = 0
    BY <1>1
  <2>2. \A i : i \notin 1 .. Len(g)
    BY <2>1
  <2> QED
    BY <2>2 DEF Lines
<1>3. WiresOf(Lines(g)) = {} /\ \A wires : Solves(wires, Lines(g))
  BY <1>2 DEF WiresOf, Solves
<1>4. BothSolved(f, g)
  BY <1>3 DEF FileTerms, Solved, BothSolved
<1>5. ReadStay(f, g, 1, p)
  <2>1. \A i : i \notin 1 .. (1 - 1)
    OBVIOUS
  <2> QED
    BY <2>1 DEF ReadStay
<1>6. OutTerms(f, A, p, g, 0, 1)
  BY <1>2, <1>4, <1>5 DEF OutTerms
<1> QED
  BY <1>1, <1>6

LEMMA WiresAreMade == ASSUME NEW L, NEW s \in WiresOf(L) PROVE Made(s)
BY DEF WiresOf

LEMMA ShapedStays ==
  ASSUME NEW l, NEW A, NEW p, Shaped(l, "divide" \in A)
  PROVE  Shaped(l, "divide" \in A \cup {p})
BY DEF Shaped

\* The lines that take the place of line n of f are written.
Written(f, A, p, g, k, n, new, count) ==
  /\ IsFile(f) /\ IsFile(g) /\ IsFile(new) /\ n \in 1 .. Len(f) /\ k \in Nat /\ count \in Nat
  /\ p \in Makers \ A /\ count >= k
  /\ \A s \in WiresOf(Lines(f)) \cup WiresOf(Lines(g)) : ~Own(s, p, k)
  /\ \/ Treats(p, f[n]) /\ count = k + 1 /\ KeepsTerms(Lines(new), f[n], p, k, "divide" \in A \cup {p})
        /\ \A s \in WiresOf(Lines(new)) : s \in WiresOf(Lines(f)) \/ Own(s, p, k)
     \/ Lines(new) = {f[n]}

LEMMA LineShape ==
  ASSUME NEW o, NEW f, NEW A, FileTerms(o, f, A), NEW p, NEW g, NEW k, NEW n,
         OutTerms(f, A, p, g, k, n), NEW new, NEW count, Written(f, A, p, g, k, n, new, count),
         NEW l \in Lines(g) \cup Lines(new)
  PROVE  OutShape(l, A, p, count)
<1>1. k \in Nat /\ count \in Nat /\ count >= k /\ n \in 1 .. Len(f)
  BY DEF Written
<1>2. CASE l \in Lines(g)
  <2>1. OutShape(l, A, p, k)
    BY <1>2 DEF OutTerms
  <2>2. \A i \in 0 .. (k - 1) : i \in 0 .. (count - 1)
    BY <1>1
  <2> QED
    BY <2>1, <2>2 DEF OutShape
<1>3. CASE l \in Lines(new)
  <2>1. KeptShape(f[n], A)
    BY <1>1 DEF FileTerms, Lines
  <2>2. CASE l = f[n]
    <3>1. Shaped(l, "divide" \in A)
      BY <2>1, <2>2 DEF KeptShape
    <3>2. Shaped(l, "divide" \in A \cup {p})
      BY <3>1, ShapedStays
    <3> QED
      BY <2>1, <2>2, <3>2 DEF KeptShape, OutShape
  <2>3. CASE /\ count = k + 1 /\ KeepsTerms(Lines(new), f[n], p, k, "divide" \in A \cup {p})
    <3>1. Shaped(l, "divide" \in A \cup {p})
      BY <1>3, <2>3 DEF KeepsTerms
    <3>2. k \in 0 .. (count - 1)
      BY <1>1, <2>3
    <3>3. \A s : Uses(l, s) => Uses(f[n], s) \/ Own(s, p, k)
      BY <1>3, <2>3 DEF KeepsTerms
    <3> QED
      BY <2>1, <3>1, <3>2, <3>3 DEF KeptShape, OutShape, Own
  <2> QED
    BY <1>3, <2>2, <2>3 DEF Written
<1> QED
  BY <1>2, <1>3

LEMMA LineStays ==
  ASSUME NEW f, NEW A, NEW p, NEW g, NEW k, NEW n,
         OutTerms(f, A, p, g, k, n), NEW new, NEW count, Written(f, A, p, g, k, n, new, count),
         NEW h, Lines(h) = Lines(g) \cup Lines(new)
  PROVE  ReadStay(f, h, n + 1, p)
<1> SUFFICES ASSUME NEW wires, OnlyMade(wires), Solves(wires, Lines(h)),
                    NEW i \in 1 .. n, p = "divide" => ~Torn(f[i])
             PROVE  Stays(wires, f[i], Lines(h))
  <2>1. (n + 1) - 1 = n
    BY DEF Written
  <2> QED
    BY <2>1 DEF ReadStay
<1>1. Solves(wires, Lines(g)) /\ Solves(wires, Lines(new))
  BY DEF Solves
<1>2. CASE i \in 1 .. (n - 1)
  <2>1. Stays(wires, f[i], Lines(g))
    BY <1>1, <1>2 DEF OutTerms, ReadStay
  <2>2. Lines(g) \subseteq Lines(h)
    OBVIOUS
  <2> QED
    BY <2>1, <2>2, StaysMonotone
<1>3. CASE i = n
  <2>1. Stays(wires, f[n], Lines(new))
    <3>1. CASE KeepsTerms(Lines(new), f[n], p, k, "divide" \in A \cup {p})
      BY <1>1, <1>3, <3>1 DEF KeepsTerms
    <3>2. CASE Lines(new) = {f[n]}
      BY <3>2, SameTermsOfSame DEF Stays
    <3> QED
      BY <3>1, <3>2 DEF Written
  <2>2. Lines(new) \subseteq Lines(h)
    OBVIOUS
  <2> QED
    BY <1>3, <2>1, <2>2, StaysMonotone
<1>4. i \in 1 .. (n - 1) \/ i = n
  BY DEF Written
<1> QED
  BY <1>2, <1>3, <1>4

\* A wire that the pass adds is none that a line had a use for before.
LEMMA AddedUnused ==
  ASSUME NEW o, NEW f, NEW A, FileTerms(o, f, A), NEW p, p \notin A, NEW g, NEW k \in Nat, NEW n,
         OutTerms(f, A, p, g, k, n), NEW l \in Lines(f) \cup Lines(g), NEW s, Own(s, p, k)
  PROVE  ~Uses(l, s)
<1>1. Made(s) /\ s[1] = p /\ s[2] = k /\ s[1] \notin A /\ s[2] \notin 0 .. (k - 1)
  BY DEF Own
<1>2. CASE l \in Lines(f)
  <2>1. KeptShape(l, A)
    BY <1>2 DEF FileTerms
  <2> QED
    BY <1>1, <2>1 DEF KeptShape
<1>3. CASE l \in Lines(g)
  <2>1. OutShape(l, A, p, k)
    BY <1>3 DEF OutTerms
  <2> QED
    BY <1>1, <2>1 DEF OutShape
<1> QED
  BY <1>2, <1>3

LEMMA LineIsLine == ASSUME NEW f, IsFile(f), NEW l \in Lines(f) PROVE IsLine(l)
BY DEF IsFile, Lines

LEMMA LineSolved ==
  ASSUME NEW o, NEW f, NEW A, FileTerms(o, f, A), NEW p, NEW g, NEW k, NEW n,
         OutTerms(f, A, p, g, k, n), NEW new, NEW count, Written(f, A, p, g, k, n, new, count),
         NEW h, Lines(h) = Lines(g) \cup Lines(new)
  PROVE  BothSolved(f, h)
<1>1. PICK wires : /\ DOMAIN wires = WiresOf(Lines(f)) \cup WiresOf(Lines(g))
                   /\ Solves(wires, Lines(f)) /\ Solves(wires, Lines(g))
  BY DEF OutTerms, BothSolved
<1>2. /\ IsFile(f) /\ IsFile(g) /\ k \in Nat /\ p \notin A /\ f[n] \in Lines(f)
      /\ \A s \in DOMAIN wires : ~Own(s, p, k)
  BY <1>1 DEF Written, Lines
<1>3. WiresOf(Lines(h)) = WiresOf(Lines(g)) \cup WiresOf(Lines(new))
  BY WiresOfUnion
<1>4. CASE Lines(new) = {f[n]}
  <2>1. WiresOf(Lines(new)) \subseteq WiresOf(Lines(f))
    BY <1>2, <1>4 DEF WiresOf
  <2>2. Solves(wires, Lines(h))
    BY <1>1, <1>2, <1>4 DEF Solves
  <2>3. DOMAIN wires = WiresOf(Lines(f)) \cup WiresOf(Lines(h))
    BY <1>1, <1>3, <2>1
  <2> QED
    BY <1>1, <2>2, <2>3 DEF BothSolved
<1>5. CASE /\ KeepsTerms(Lines(new), f[n], p, k, "divide" \in A \cup {p})
           /\ \A s \in WiresOf(Lines(new)) : s \in WiresOf(Lines(f)) \/ Own(s, p, k)
  <2>1. OnlyMade(wires) /\ SolvesLine(wires, f[n])
    BY <1>1, <1>2, WiresAreMade DEF OnlyMade, Solves
  <2>2. PICK more : /\ DOMAIN more = DOMAIN wires \cup WiresOf(Lines(new))
                    /\ Extends(more, wires) /\ Solves(more, Lines(new))
    BY <1>2, <1>5, <2>1 DEF KeepsTerms
  <2>3. ASSUME NEW l \in Lines(f) \cup Lines(g) PROVE SolvesLine(more, l)
    <3>1. \A s \in DOMAIN more : s \in DOMAIN wires \/ Own(s, p, k)
      BY <1>1, <1>5, <2>2
    <3>2. \A s : Own(s, p, k) => ~Uses(l, s)
      BY <1>2, AddedUnused
    <3>3. IsLine(l) /\ SolvesLine(wires, l)
      BY <1>1, <1>2, LineIsLine DEF Solves
    <3> QED
      BY <2>2, <3>1, <3>2, <3>3, StillSolves
  <2>4. Solves(more, Lines(f)) /\ Solves(more, Lines(h))
    BY <2>2, <2>3 DEF Solves
  <2>5. DOMAIN more = WiresOf(Lines(f)) \cup WiresOf(Lines(h))
    BY <1>1, <1>3, <2>2
  <2> QED
    BY <2>4, <2>5 DEF BothSolved
<1> QED
  BY <1>4, <1>5 DEF Written

LEMMA NextTerms ==
  ASSUME NEW o, NEW f, NEW A, FileTerms(o, f, A), NEW p, NEW g, NEW k, NEW n,
         OutTerms(f, A, p, g, k, n), NEW new, NEW count, Written(f, A, p, g, k, n, new, count)
  PROVE  OutTerms(f, A, p, g \o new, count, n + 1)
<1>1. PICK h : h = g \o new
  OBVIOUS
<1>2. Lines(h) = Lines(g) \cup Lines(new)
  BY <1>1, LinesJoined DEF Written, IsFile
<1>3. \A l \in Lines(h) : OutShape(l, A, p, count)
  BY <1>2, LineShape
<1>4. ReadStay(f, h, n + 1, p)
  BY <1>2, LineStays
<1>5. BothSolved(f, h)
  BY <1>2, LineSolved
<1> QED
  BY <1>1, <1>3, <1>4, <1>5 DEF OutTerms

-----------------------------------------------------------------------------
\* What solves the output of a pass solves the file that it has read.
LEMMA SolvesRead ==
  ASSUME NEW o, NEW f, NEW A, FileTerms(o, f, A), NEW p, p \notin A,
         NEW g, ReadStay(f, g, Len(f) + 1, p),
         IsFile(f), NEW wires, OnlyMade(wires), Solves(wires, Lines(g))
  PROVE  /\ \A l \in Lines(f) : (p = "divide" => ~Torn(l)) => Stays(wires, l, Lines(g))
         /\ Solves(wires, Lines(f))
         /\ WiresOf(Lines(f)) \subseteq WiresOf(Lines(g))
<1>1. (Len(f) + 1) - 1 = Len(f)
  BY SequenceLength DEF IsFile
<1>2. ASSUME NEW l \in Lines(f), p = "divide" => ~Torn(l) PROVE Stays(wires, l, Lines(g))
  BY <1>1, <1>2 DEF ReadStay, Lines
<1>3. ASSUME NEW l \in Lines(f), l.k = "assign", Made(l.dst)
      PROVE  \E m \in Lines(g) : /\ m.k = "assign" /\ m.dst = l.dst
                                 /\ LineTerms(wires, m) = LineTerms(wires, l)
  <2>1. p = "divide" => ~Torn(l)
    <3>1. Shaped(l, "divide" \in A)
      BY DEF FileTerms, KeptShape
    <3> QED
      BY <1>3, <3>1 DEF Shaped, Torn, IsOperation
  <2>2. PICK m \in Lines(g) : SameTerms(wires, l, m)
    BY <1>2, <1>3, <2>1 DEF Stays
  <2> QED
    BY <2>2 DEF SameTerms, Drives
<1>4. Solves(wires, Lines(f))
  <2>1. ASSUME NEW l \in Lines(f), l.k = "assign", Made(l.dst)
        PROVE  l.dst \in DOMAIN wires /\ wires[l.dst] = LineTerms(wires, l)
    <3>1. PICK m \in Lines(g) : /\ m.k = "assign" /\ m.dst = l.dst
                                /\ LineTerms(wires, m) = LineTerms(wires, l)
      BY <1>3, <2>1
    <3>2. m.dst \in DOMAIN wires /\ wires[m.dst] = LineTerms(wires, m)
      BY <2>1, <3>1 DEF Solves, SolvesLine
    <3> QED
      BY <3>1, <3>2
  <2> QED
    BY <2>1 DEF Solves, SolvesLine
<1>5. WiresOf(Lines(f)) \subseteq WiresOf(Lines(g))
  BY <1>3 DEF WiresOf
<1> QED
  BY <1>2, <1>4, <1>5

LEMMA WriteTerms ==
  ASSUME NEW o, NEW f, NEW A, FileTerms(o, f, A), NEW p, p \notin A, NEW g, NEW k,
         OutTerms(f, A, p, g, k, Len(f) + 1), IsFile(f)
  PROVE  FileTerms(o, g, A \cup {p})
<1>1. ASSUME NEW l \in Lines(g) PROVE KeptShape(l, A \cup {p})
  BY DEF OutTerms, OutShape, KeptShape
<1>2. ReadStay(f, g, Len(f) + 1, p)
  BY DEF OutTerms
<1>3. AllStay(o, g, A \cup {p})
  <2>1. ASSUME NEW wires, OnlyMade(wires), Solves(wires, Lines(g)), NEW l \in Lines(o),
               Kept(l, A \cup {p})
        PROVE  Stays(wires, l, Lines(g))
    <3>1. /\ Solves(wires, Lines(f))
          /\ \A m \in Lines(f) : (p = "divide" => ~Torn(m)) => Stays(wires, m, Lines(g))
      BY <1>2, <2>1, SolvesRead
    <3>2. Stays(wires, l, Lines(f)) /\ (p = "divide" => ~Torn(l))
      BY <2>1, <3>1 DEF FileTerms, AllStay, Kept
    <3> QED
      BY <3>1, <3>2, StaysTransitive
  <2> QED
    BY <2>1 DEF AllStay
<1>4. Solved(g)
  <2>1. PICK wires : /\ DOMAIN wires = WiresOf(Lines(f)) \cup WiresOf(Lines(g))
                     /\ Solves(wires, Lines(g))
    BY DEF OutTerms, BothSolved
  <2>2. OnlyMade(wires)
    BY <2>1, WiresAreMade DEF OnlyMade
  <2>3. WiresOf(Lines(f)) \subseteq WiresOf(Lines(g))
    BY <1>2, <2>1, <2>2, SolvesRead
  <2>4. DOMAIN wires = WiresOf(Lines(g))
    BY <2>1, <2>3
  <2> QED
    BY <2>1, <2>4 DEF Solved
<1> QED
  BY <1>1, <1>3, <1>4 DEF FileTerms

LEMMA WiresAreSaid ==
  ASSUME NEW f, NEW s \in WiresOf(Lines(f)) PROVE Said(f, "assign", s)
BY DEF WiresOf, Lines, Said, Says

\* The line that a pass writes next is one of those that Written describes.
LEMMA LineWrites ==
  ASSUME IInv, TermsInv, "compress" \notin applied \cup {pass}, pass # "none", at <= Len(file),
         NEW new, new = Rewrite(pass, file, at, treated), new # <<Error>>,
         NEW count, count = treated + IF Treats(pass, file[at]) THEN 1 ELSE 0
  PROVE  Written(file, applied, pass, out, treated, at, new, count)
<1>1. /\ at \in 1 .. Len(file) /\ treated \in Nat /\ IsFile(file) /\ IsFile(out)
      /\ pass \in Passes \ applied
  <2>1. Len(file) \in Nat /\ at >= 1 /\ at \in Nat /\ treated \in Nat
    BY FileLength DEF IInv, Counters
  <2> QED
    BY <2>1 DEF IInv, FileInv, OutInv
<1>2. count \in Nat /\ count >= treated /\ (Treats(pass, file[at]) => count = treated + 1)
  BY <1>1
<1>3. pass \in Makers
  BY <1>1, PassesAssumption DEF Makers
<1>4. PICK l : l = file[at]
  OBVIOUS
<1>5. IsLine(l) /\ Foreign(l, pass)
  BY <1>1, <1>3, <1>4, LinesAreForeign
<1>6. Replaces(new, l, pass, treated)
  BY <1>3, <1>4, <1>5, RewriteReplaces
<1>7. ASSUME NEW s \in WiresOf(Lines(file)) \cup WiresOf(Lines(out))
      PROVE  ~Own(s, pass, treated)
  <2>1. CASE s \in WiresOf(Lines(file))
    <3>1. s[1] \in applied
      BY <2>1, WiresAreSaid, WiresAreMade DEF IInv, FileInv, Kinds
    <3> QED
      BY <1>1, <3>1 DEF Own
  <2>2. CASE s \in WiresOf(Lines(out))
    <3>1. \/ s[2] \in 0 .. (treated - 1)
          \/ \E n \in 1 .. (at - 1) : Says(file[n], "assign", s)
      BY <2>2, WiresAreSaid DEF IInv, OutInv, Kinds
    <3>2. CASE s[2] \in 0 .. (treated - 1)
      <4>1. s[2] # treated
        BY <1>1, <3>2
      <4> QED
        BY <4>1 DEF Own
    <3>3. CASE \E n \in 1 .. (at - 1) : Says(file[n], "assign", s)
      <4>1. Said(file, "assign", s)
        <5>1. \A n \in 1 .. (at - 1) : n \in 1 .. Len(file)
          BY <1>1, FileLength DEF IInv
        <5> QED
          BY <3>3, <5>1 DEF Said
      <4>2. s[1] \in applied
        BY <2>2, <4>1, WiresAreMade DEF IInv, FileInv, Kinds
      <4> QED
        BY <1>1, <4>2 DEF Own
    <3> QED
      BY <3>1, <3>2, <3>3
  <2> QED
    BY <2>1, <2>2
<1>8. CASE Treats(pass, l)
  <2>1. KeptShape(l, applied)
    BY <1>1, <1>4 DEF TermsInv, FileTerms, Lines
  <2>2. PICK divided \in BOOLEAN : divided <=> "divide" \in applied
    OBVIOUS
  <2>3. Shaped(l, divided)
    <3>1. CASE divided
      BY <2>1, <2>2, <3>1 DEF KeptShape, Shaped
    <3>2. CASE ~divided
      BY <2>1, <2>2, <3>2 DEF KeptShape, Shaped
    <3> QED
      BY <3>1, <3>2
  <2>4. pass = "divide" => ~divided
    BY <1>1, <2>2
  <2>5. KeepsTerms(Lines(new), l, pass, treated, divided \/ pass = "divide")
    <3>1. \A s : Uses(l, s) => ~Own(s, pass, treated)
      BY <1>1, <2>1 DEF KeptShape, Own
    <3> QED
      BY <1>3, <1>4, <1>5, <1>8, <2>3, <2>4, <3>1, RewriteKeeps
  <2>6. (divided \/ pass = "divide") = ("divide" \in applied \cup {pass})
    BY <2>2
  <2>7. KeepsTerms(Lines(new), l, pass, treated, "divide" \in applied \cup {pass})
    BY <2>5, <2>6
  <2>8. ASSUME NEW s \in WiresOf(Lines(new))
        PROVE  s \in WiresOf(Lines(file)) \/ Own(s, pass, treated)
    <3>1. Said(new, "assign", s) /\ Made(s)
      BY WiresAreSaid, WiresAreMade
    <3>2. Says(l, "assign", s) \/ (s[1] = pass /\ s[2] = treated)
      BY <1>6, <3>1 DEF Replaces, Kinds
    <3>3. CASE Says(l, "assign", s)
      BY <1>1, <1>4, <3>1, <3>3 DEF WiresOf, Lines, Says
    <3> QED
      BY <3>1, <3>2, <3>3 DEF Own
  <2> QED
    BY <1>1, <1>2, <1>3, <1>4, <1>6, <1>7, <1>8, <2>7, <2>8 DEF Written, Replaces
<1>9. CASE ~Treats(pass, l)
  <2>1. new = <<l>>
    BY <1>3, <1>4, <1>9 DEF Rewrite, Makers
  <2>2. Lines(new) = {l}
    BY <2>1, LinesOfOne
  <2> QED
    BY <1>1, <1>2, <1>3, <1>4, <1>6, <1>7, <2>2 DEF Written, Replaces
<1> QED
  BY <1>8, <1>9

LEMMA TermsStep == ASSUME IInv, TermsInv, [Next]_vars PROVE TermsInv'
<1>1. origin' = origin /\ origin \in Files
  BY DEF TermsInv, Next, Run, Line, Write, vars
<1>2. CASE \E p \in Passes : Run(p)
  <2>1. PICK p \in Passes : Run(p)
    BY <1>2
  <2>2. pass' = p /\ at' = 1 /\ out' = <<>> /\ treated' = 0 /\ UNCHANGED <<file, applied>>
    BY <2>1 DEF Run
  <2>3. "compress" \notin applied => FileTerms(origin, file, applied)
    BY DEF TermsInv
  <2>4. "compress" \notin applied => OutTerms(file, applied, p, <<>>, 0, 1)
    BY <2>3, NothingWritten
  <2> QED
    BY <1>1, <2>2, <2>3, <2>4 DEF TermsInv
<1>3. CASE Line
  <2>1. UNCHANGED <<file, applied>> /\ pass # "none" /\ at <= Len(file)
    BY <1>3 DEF Line
  <2>2. "compress" \notin applied => FileTerms(origin, file, applied)
    BY DEF TermsInv
  <2>3. PICK new : new = Rewrite(pass, file, at, treated)
    OBVIOUS
  <2>4. CASE new = <<Error>>
    <3>1. pass' = "none"
      BY <1>3, <2>3, <2>4 DEF Line
    <3> QED
      BY <1>1, <2>1, <2>2, <3>1 DEF TermsInv
  <2>5. CASE new # <<Error>>
    <3>1. PICK count : count = treated + IF Treats(pass, file[at]) THEN 1 ELSE 0
      OBVIOUS
    <3>2. /\ out' = out \o new /\ at' = at + 1 /\ pass' = pass /\ treated' = count
      BY <1>3, <2>3, <2>5, <3>1 DEF Line
    <3>3. ASSUME "compress" \notin applied \cup {pass}
          PROVE  OutTerms(file, applied, pass, out \o new, count, at + 1)
      <4>1. Written(file, applied, pass, out, treated, at, new, count)
        BY <2>1, <2>3, <2>5, <3>1, <3>3, LineWrites
      <4>2. OutTerms(file, applied, pass, out, treated, at)
        BY <2>1, <3>3 DEF TermsInv
      <4>3. FileTerms(origin, file, applied)
        BY <2>2, <3>3
      <4> QED
        BY <4>1, <4>2, <4>3, NextTerms
    <3> QED
      BY <1>1, <2>1, <2>2, <3>2, <3>3 DEF TermsInv
  <2> QED
    BY <2>4, <2>5
<1>4. CASE Write
  <2>1. /\ pass # "none" /\ at > Len(file) /\ pass' = "none" /\ file' = out
        /\ applied' = applied \cup {pass}
    BY <1>4 DEF Write
  <2>2. at = Len(file) + 1 /\ IsFile(file)
    BY <2>1, FileLength DEF IInv, Counters, FileInv
  <2>3. ASSUME "compress" \notin applied \cup {pass}
        PROVE  FileTerms(origin, out, applied \cup {pass})
    <3>1. /\ FileTerms(origin, file, applied) /\ pass \notin applied
          /\ OutTerms(file, applied, pass, out, treated, at)
      BY <2>1, <2>3 DEF TermsInv, IInv, OutInv
    <3> QED
      BY <2>2, <3>1, WriteTerms
  <2> QED
    BY <1>1, <2>1, <2>3 DEF TermsInv
<1>5. CASE UNCHANGED vars
  BY <1>5 DEF TermsInv, vars
<1> QED
  BY <1>2, <1>3, <1>4, <1>5 DEF Next

\* The terms that WireTerms gives the wires are a solution.
LEMMA WireTermsSolve ==
  ASSUME NEW f, IsFile(f), Solved(f),
         \A s : Made(s) => ~Twice(f, "assign", s)
  PROVE  DOMAIN WireTerms(f) = WiresOf(Lines(f)) /\ Solves(WireTerms(f), Lines(f))
<1>1. PICK W : W = WiresOf(Lines(f))
  OBVIOUS
<1>2. W = Wires(f)
  BY <1>1, WiresAreThose
<1>3. PICK driver : driver = [w \in W |-> f[DriverOf(f, w)]]
  OBVIOUS
<1>4. ASSUME NEW w \in W
      PROVE  driver[w] \in Lines(f) /\ driver[w].k = "assign" /\ driver[w].dst = w /\ Made(w)
  <2>1. PICK i \in 1 .. Len(f) : f[i].k = "assign" /\ Made(f[i].dst) /\ w = f[i].dst
    BY <1>2 DEF Wires
  <2>2. DriverOf(f, w) \in 1 .. Len(f) /\ Drives(f[DriverOf(f, w)], w)
    <3>1. \E j \in 1 .. Len(f) : Drives(f[j], w)
      BY <2>1 DEF Drives
    <3> QED
      BY <3>1 DEF DriverOf
  <2> QED
    BY <1>3, <2>1, <2>2 DEF Lines, Drives
<1>5. ASSUME NEW l \in Lines(f), l.k = "assign", Made(l.dst)
      PROVE  l.dst \in W /\ driver[l.dst] = l
  <2>1. PICK i \in 1 .. Len(f) : l = f[i]
    BY DEF Lines
  <2>2. l.dst \in W
    BY <1>1, <1>5 DEF WiresOf
  <2>3. DriverOf(f, l.dst) \in 1 .. Len(f) /\ Drives(f[DriverOf(f, l.dst)], l.dst)
    <3>1. \E j \in 1 .. Len(f) : Drives(f[j], l.dst)
      BY <1>5, <2>1 DEF Drives
    <3> QED
      BY <3>1 DEF DriverOf
  <2>4. DriverOf(f, l.dst) = i
    BY <1>5, <2>1, <2>3 DEF Twice, Says, Drives
  <2> QED
    BY <1>3, <2>1, <2>2, <2>4
<1>6. \E T : T = [w \in W |-> LineTerms(T, driver[w])]
  <2>1. PICK wires : DOMAIN wires = W /\ Solves(wires, Lines(f))
    BY <1>1 DEF Solved
  <2>2. PICK T : T = [w \in W |-> wires[w]]
    OBVIOUS
  <2>3. ASSUME NEW w \in W PROVE wires[w] = LineTerms(T, driver[w])
    <3>1. PICK l : l = driver[w]
      OBVIOUS
    <3>2. l \in Lines(f) /\ l.k = "assign" /\ l.dst = w /\ Made(w)
      BY <1>4, <3>1
    <3>3. wires[w] = LineTerms(wires, l)
      BY <2>1, <3>2 DEF Solves, SolvesLine
    <3>4. IsLine(l)
      BY <3>2, LineIsLine
    <3>5. Extends(T, wires) /\ DOMAIN T = DOMAIN wires
      BY <2>1, <2>2 DEF Extends
    <3>6. LineTerms(T, l) = LineTerms(wires, l)
      BY <3>2, <3>4, <3>5, LineTermsAgree
    <3> QED
      BY <3>1, <3>3, <3>6
  <2>4. T = [w \in W |-> LineTerms(T, driver[w])]
    BY <2>2, <2>3
  <2> QED
    BY <2>4
<1>7. PICK T : T = WireTerms(f)
  OBVIOUS
<1>8. T = [w \in W |-> LineTerms(T, driver[w])]
  <2>1. WireTerms(f) = CHOOSE U : U = [w \in W |-> LineTerms(U, driver[w])]
    <3>1. ASSUME NEW U
          PROVE  [w \in Wires(f) |-> LineTerms(U, f[DriverOf(f, w)])] =
                   [w \in W |-> LineTerms(U, driver[w])]
      BY <1>2, <1>3
    <3> QED
      BY <3>1 DEF WireTerms
  <2> QED
    BY <1>6, <1>7, <2>1
<1>9. DOMAIN T = W /\ \A w \in W : T[w] = LineTerms(T, driver[w])
  BY <1>8
<1>10. Solves(T, Lines(f))
  BY <1>5, <1>9 DEF Solves, SolvesLine
<1> QED
  BY <1>1, <1>7, <1>9, <1>10

\* What a pass leaves in the place of an assignment has its terms in their order, and its
\* operator between the operands it had: the passes that split a concatenation
\* (divide_concat_into_subconcats.py) or hoist one (expand_*_operand.py) lose none,
\* repeat none and move none, for any files, any number of terms in a bracket and any
\* order of the passes.  Once the file is divided, this is said of the concatenations,
\* and of the operations whose left operand has at most MaxTerms terms: the others are
\* torn apart, see DivideKeepsOperations.
THEOREM TermsStayInPlace == Spec => []TermsKept
<1>1. IInv /\ TermsInv => TermsKept
  <2> SUFFICES ASSUME IInv, TermsInv, pass = "none", "compress" \notin applied,
                      NEW wires, wires = WireTerms(file), NEW n \in Assignments(origin),
                      "divide" \in applied => ~Torn(origin[n])
               PROVE  \E m \in 1 .. Len(file) : AssignsLike(wires, m, n)
    BY DEF TermsKept
  <2>1. FileTerms(origin, file, applied) /\ origin \in Files
    BY DEF TermsInv
  <2>2. IsFile(file) /\ \A s : Made(s) => ~Twice(file, "assign", s)
    BY DEF IInv, FileInv, Kinds
  <2>3. DOMAIN wires = WiresOf(Lines(file)) /\ Solves(wires, Lines(file))
    BY <2>1, <2>2, WireTermsSolve DEF FileTerms
  <2>4. OnlyMade(wires)
    BY <2>3, WiresAreMade DEF OnlyMade
  <2>5. PICK l : l = origin[n]
    OBVIOUS
  <2>6. l \in Lines(origin) /\ l.k = "assign" /\ Kept(l, applied)
    BY <2>5 DEF Lines, Assignments, Kept
  <2>7. PICK m \in Lines(file) : SameTerms(wires, l, m)
    BY <2>1, <2>3, <2>4, <2>6 DEF FileTerms, AllStay, Stays
  <2>8. PICK i \in 1 .. Len(file) : m = file[i]
    BY DEF Lines
  <2>9. LineTerms(wires, l) = LineTerms(NoWires, l)
    <3>1. /\ IsLine(l)
          /\ \A j \in 1 .. Len(l.left.elems) : IsElement(l.left.elems[j])
          /\ \A j \in 1 .. Len(l.right.elems) : IsElement(l.right.elems[j])
      BY <2>1, <2>6, OriginLines
    <3>2. \A s : Uses(l, s) => ~Made(s)
      BY <3>1, ElementNamesNoWire DEF Uses
    <3>3. PICK none : none = NoWires /\ DOMAIN none = {}
      <4>1. DOMAIN NoWires = {}
        BY DEF NoWires
      <4> QED
        BY <4>1
    <3>4. Extends(wires, none) /\ \A s \in DOMAIN wires : Uses(l, s) => s \in DOMAIN none
      BY <2>4, <3>2, <3>3 DEF Extends, OnlyMade
    <3> QED
      BY <2>6, <3>1, <3>3, <3>4, LineTermsAgree
  <2> QED
    BY <2>5, <2>7, <2>8, <2>9 DEF SameTerms, AssignsLike
<1>2. Init => TermsInv
  BY TermsInit
<1>3. IInv /\ TermsInv /\ [Next]_vars => TermsInv'
  BY TermsStep
<1> QED
  BY <1>1, <1>2, <1>3, Invariance, PTL DEF Spec

-----------------------------------------------------------------------------
(* The groups of a concatenation: where they begin, by the rank of a position. *)
Rank(S, i) == Cardinality({j \in S : j <= i})

LEMMA FiniteRanks ==
  ASSUME NEW n \in Nat, NEW S, S \subseteq 1 .. n
  PROVE  /\ IsFiniteSet(S) /\ Cardinality(S) \in Nat
         /\ \A i : IsFiniteSet({j \in S : j <= i}) /\ Rank(S, i) \in Nat
<1>1. IsFiniteSet(1 .. n)
  BY FS_Interval
<1>2. IsFiniteSet(S)
  BY <1>1, FS_Subset
<1>3. ASSUME NEW i PROVE IsFiniteSet({j \in S : j <= i})
  <2>1. {j \in S : j <= i} \subseteq S
    OBVIOUS
  <2> QED
    BY <1>2, <2>1, FS_Subset
<1> QED
  BY <1>2, <1>3, FS_CardinalityType DEF Rank

\* The rank counts the positions one by one.
RankAfter(S, i) == Rank(S, i) = Rank(S, i - 1) + IF i \in S THEN 1 ELSE 0

LEMMA RankStep ==
  ASSUME NEW n \in Nat, NEW S, S \subseteq 1 .. n, NEW i \in 1 .. n
  PROVE  RankAfter(S, i)
<1>1. PICK before : before = {j \in S : j <= i - 1}
  OBVIOUS
<1>2. IsFiniteSet(before) /\ Cardinality(before) = Rank(S, i - 1) /\ Rank(S, i - 1) \in Nat
  BY <1>1, FiniteRanks DEF Rank
<1>3. \A j \in S : j <= i <=> j <= i - 1 \/ j = i
  OBVIOUS
<1>4. CASE i \in S
  <2>1. {j \in S : j <= i} = before \cup {i}
    BY <1>1, <1>3, <1>4
  <2>2. i \notin before
    BY <1>1
  <2>3. Cardinality(before \cup {i}) = Cardinality(before) + 1
    BY <1>2, <2>2, FS_AddElement
  <2> QED
    BY <1>2, <1>4, <2>1, <2>3 DEF Rank, RankAfter
<1>5. CASE i \notin S
  <2>1. {j \in S : j <= i} = before
    BY <1>1, <1>3, <1>5
  <2> QED
    BY <1>2, <1>5, <2>1 DEF Rank, RankAfter
<1> QED
  BY <1>4, <1>5

LEMMA RankEnds ==
  ASSUME NEW n \in Nat, NEW S, S \subseteq 1 .. n
  PROVE  Rank(S, 0) = 0 /\ Rank(S, n) = Cardinality(S)
<1>1. {j \in S : j <= 0} = {}
  <2>1. \A j \in S : ~(j <= 0)
    OBVIOUS
  <2> QED
    BY <2>1
<1>2. {j \in S : j <= n} = S
  <2>1. \A j \in S : j <= n
    OBVIOUS
  <2> QED
    BY <2>1
<1> QED
  BY <1>1, <1>2, FS_EmptySet DEF Rank

LEMMA RankGrows ==
  ASSUME NEW n \in Nat, NEW S, S \subseteq 1 .. n, NEW i \in 0 .. n, NEW j \in 0 .. n, i < j
  PROVE  Rank(S, i) <= Rank(S, j) /\ (j \in S => Rank(S, i) < Rank(S, j))
<1>1. ASSUME NEW a \in 0 .. n, NEW b \in 0 .. n, a <= b PROVE Rank(S, a) <= Rank(S, b)
  <2>1. PICK A, B : A = {x \in S : x <= a} /\ B = {x \in S : x <= b}
    OBVIOUS
  <2>2. A \subseteq B
    <3>1. \A x \in S : x <= a => x <= b
      BY <1>1
    <3> QED
      BY <2>1, <3>1
  <2>3. IsFiniteSet(B)
    BY <2>1, FiniteRanks
  <2>4. Cardinality(A) <= Cardinality(B)
    BY <2>2, <2>3, FS_Subset
  <2> QED
    BY <2>1, <2>4 DEF Rank
<1>2. Rank(S, i) <= Rank(S, j)
  BY <1>1
<1>3. ASSUME j \in S PROVE Rank(S, i) < Rank(S, j)
  <2>1. j \in 1 .. n /\ j - 1 \in 0 .. n /\ i <= j - 1
    OBVIOUS
  <2>2. Rank(S, j) = Rank(S, j - 1) + 1
    <3>1. RankAfter(S, j)
      BY <2>1, RankStep
    <3> QED
      BY <1>3, <3>1 DEF RankAfter
  <2>3. Rank(S, i) <= Rank(S, j - 1)
    BY <1>1, <2>1
  <2>4. Rank(S, i) \in Nat /\ Rank(S, j - 1) \in Nat
    BY FiniteRanks
  <2> QED
    BY <2>2, <2>3, <2>4
<1> QED
  BY <1>2, <1>3

\* There is a member of every rank.
LEMMA Ranked ==
  ASSUME NEW n \in Nat, NEW S, S \subseteq 1 .. n, NEW k \in 1 .. Cardinality(S)
  PROVE  \E i \in S : Rank(S, i) = k
<1>1. PICK T : T = {i \in 0 .. n : \A r \in 1 .. Rank(S, i) : \E j \in S : Rank(S, j) = r}
  OBVIOUS
<1>2. 0 \in T
  <2>1. 0 \in 0 .. n /\ \A r : r \notin 1 .. 0
    OBVIOUS
  <2>2. Rank(S, 0) = 0
    BY RankEnds
  <2> QED
    BY <1>1, <2>1, <2>2
<1>3. ASSUME NEW i \in 1 .. n, i - 1 \in T PROVE i \in T
  <2>1. Rank(S, i - 1) \in Nat /\ Rank(S, i) = Rank(S, i - 1) + IF i \in S THEN 1 ELSE 0
    <3>1. Rank(S, i - 1) \in Nat
      BY FiniteRanks
    <3>2. RankAfter(S, i)
      BY RankStep
    <3> QED
      BY <3>1, <3>2 DEF RankAfter
  <2>2. ASSUME NEW r \in 1 .. Rank(S, i) PROVE \E j \in S : Rank(S, j) = r
    <3>1. r \in 1 .. Rank(S, i - 1) \/ (i \in S /\ r = Rank(S, i))
      BY <2>1
    <3> QED
      BY <1>1, <1>3, <3>1
  <2>3. i \in 0 .. n
    OBVIOUS
  <2> QED
    BY <1>1, <2>2, <2>3
<1>4. 0 .. n \subseteq T
  BY <1>2, <1>3, InductionTo
<1>5. n \in T
  BY <1>4
<1> QED
  BY <1>1, <1>5, RankEnds

LEMMA NthHasRank ==
  ASSUME NEW n \in Nat, NEW S, S \subseteq 1 .. n, NEW k \in 1 .. Cardinality(S)
  PROVE  Nth(S, k) \in S /\ Rank(S, Nth(S, k)) = k
<1>1. \E i \in S : Rank(S, i) = k
  BY Ranked
<1>2. Nth(S, k) = CHOOSE i \in S : Rank(S, i) = k
  BY DEF Nth, Rank
<1> QED
  BY <1>1, <1>2

\* Where group k begins, and the one after the last one would.
Begin(S, n, k) == IF k > Cardinality(S) THEN n + 1 ELSE Nth(S, k)

\* Group k: from a up to b, with nothing beginning between.
Group(S, n, a, b) ==
  /\ a \in S /\ a \in 1 .. n /\ b \in 2 .. (n + 1) /\ a < b
  /\ \A m \in (a + 1) .. (b - 1) : m \notin S

LEMMA GroupsInOrder ==
  ASSUME NEW n \in Nat, NEW S, S \subseteq 1 .. n, NEW k \in 1 .. Cardinality(S)
  PROVE  Group(S, n, Begin(S, n, k), Begin(S, n, k + 1))
<1>1. PICK K : K = Cardinality(S) /\ K \in Nat
  BY FiniteRanks
<1>2. PICK a : a = Begin(S, n, k)
  OBVIOUS
<1>3. a \in S /\ Rank(S, a) = k
  <2>1. a = Nth(S, k)
    BY <1>1, <1>2 DEF Begin
  <2> QED
    BY <2>1, NthHasRank
<1>4. a \in 1 .. n /\ a \in 0 .. n
  BY <1>3
<1>5. CASE k = K
  <2>1. Begin(S, n, k + 1) = n + 1
    BY <1>1, <1>5 DEF Begin
  <2>2. ASSUME NEW m \in (a + 1) .. ((n + 1) - 1) PROVE m \notin S
    <3>1. m \in 0 .. n /\ a < m /\ (m < n \/ m = n) /\ n \in 0 .. n
      BY <1>4
    <3>2. m \in S => Rank(S, a) < Rank(S, m)
      BY <1>4, <3>1, RankGrows
    <3>3. Rank(S, m) <= K
      <4>3. Rank(S, n) = K
        BY <1>1, RankEnds
      <4>1. CASE m < n
        <5>1. Rank(S, m) <= Rank(S, n)
          BY <3>1, <4>1, RankGrows
        <5> QED
          BY <4>3, <5>1
      <4>2. CASE m = n
        BY <1>1, <4>3, <4>2
      <4> QED
        BY <3>1, <4>1, <4>2
    <3>4. Rank(S, m) \in Nat
      BY FiniteRanks
    <3> QED
      BY <1>1, <1>3, <1>5, <3>2, <3>3, <3>4
  <2>3. n + 1 \in 2 .. (n + 1) /\ a < n + 1
    BY <1>4
  <2> QED
    BY <1>2, <1>3, <1>4, <2>1, <2>2, <2>3 DEF Group
<1>6. CASE k < K
  <2>1. PICK b : b = Begin(S, n, k + 1)
    OBVIOUS
  <2>2. k + 1 \in 1 .. Cardinality(S)
    BY <1>1, <1>6
  <2>3. b \in S /\ Rank(S, b) = k + 1
    <3>1. b = Nth(S, k + 1)
      BY <2>1, <2>2, <1>1 DEF Begin
    <3> QED
      BY <2>2, <3>1, NthHasRank
  <2>4. b \in 1 .. n /\ b \in 0 .. n
    BY <2>3
  <2>5. a < b
    <3>1. ASSUME b < a PROVE FALSE
      <4>1. Rank(S, b) < Rank(S, a)
        BY <1>3, <1>4, <2>4, <3>1, RankGrows
      <4> QED
        BY <1>3, <2>3, <4>1
    <3>2. a # b
      BY <1>3, <2>3
    <3> QED
      BY <1>4, <2>4, <3>1, <3>2
  <2>6. ASSUME NEW m \in (a + 1) .. (b - 1) PROVE m \notin S
    <3>1. m \in 0 .. n /\ a < m /\ m < b
      BY <1>4, <2>4
    <3>2. m \in S => Rank(S, a) < Rank(S, m)
      BY <1>4, <3>1, RankGrows
    <3>3. Rank(S, m) < Rank(S, b)
      BY <2>3, <2>4, <3>1, RankGrows
    <3>4. Rank(S, m) \in Nat
      BY FiniteRanks
    <3> QED
      BY <1>3, <2>3, <3>2, <3>3, <3>4
  <2>7. b \in 2 .. (n + 1)
    BY <1>4, <2>4, <2>5
  <2> QED
    BY <1>2, <1>3, <1>4, <2>1, <2>5, <2>6, <2>7 DEF Group
<1> QED
  BY <1>1, <1>5, <1>6

LEMMA GroupEnds ==
  ASSUME NEW n \in Nat, NEW S, S \subseteq 1 .. n, n # 0 => 1 \in S
  PROVE  Begin(S, n, 1) = 1 /\ Begin(S, n, Cardinality(S) + 1) = n + 1
<1>1. PICK K : K = Cardinality(S) /\ K \in Nat
  BY FiniteRanks
<1>2. Begin(S, n, K + 1) = n + 1
  BY <1>1 DEF Begin
<1>3. CASE n = 0
  <2>1. S = {}
    BY <1>3
  <2>2. K = 0
    BY <1>1, <2>1, FS_EmptySet
  <2> QED
    BY <1>1, <1>2, <1>3, <2>2
<1>4. CASE n # 0
  <2>1. Rank(S, 1) = 1
    <3>1. RankAfter(S, 1)
      BY <1>4, RankStep
    <3>2. Rank(S, 0) = 0
      BY RankEnds
    <3> QED
      BY <1>4, <3>1, <3>2 DEF RankAfter
  <2>2. K >= 1
    <3>1. Rank(S, n) = K
      BY <1>1, RankEnds
    <3>2. CASE n = 1
      BY <2>1, <3>1, <3>2
    <3>3. CASE n > 1
      <4>1. 1 \in 0 .. n /\ n \in 0 .. n /\ 1 < n
        BY <3>3
      <4>2. Rank(S, 1) <= Rank(S, n)
        BY <4>1, RankGrows
      <4> QED
        BY <1>1, <2>1, <3>1, <4>2
    <3> QED
      BY <1>4, <3>2, <3>3
  <2>3. 1 \in 1 .. Cardinality(S)
    BY <1>1, <2>2
  <2>4. PICK a : a = Nth(S, 1)
    OBVIOUS
  <2>5. a \in S /\ Rank(S, a) = 1
    BY <2>3, <2>4, NthHasRank
  <2>6. a \in 0 .. n /\ 1 \in 0 .. n /\ a >= 1
    BY <1>4, <2>5
  <2>7. ASSUME 1 < a PROVE FALSE
    <3>1. Rank(S, 1) < Rank(S, a)
      BY <2>5, <2>6, <2>7, RankGrows
    <3> QED
      BY <2>1, <2>5, <3>1
  <2>8. a = 1
    BY <2>6, <2>7
  <2> QED
    BY <1>1, <1>2, <2>2, <2>4, <2>8 DEF Begin
<1> QED
  BY <1>3, <1>4

\* The elements from a up to b, without b.
Segment(s, a, b) == [j \in 1 .. (b - a) |-> s[(a - 1) + j]]

LEMMA SegmentElements ==
  ASSUME NEW s, NEW a \in Nat, NEW b \in Nat, a < b
  PROVE  /\ IsSequence(Segment(s, a, b)) /\ Len(Segment(s, a, b)) = b - a
         /\ \A j \in 1 .. (b - a) : Segment(s, a, b)[j] = s[(a - 1) + j]
<1>1. PICK f : f = Segment(s, a, b)
  OBVIOUS
<1>2. PICK n \in Nat : n = b - a
  OBVIOUS
<1>3. f = [j \in 1 .. n |-> s[(a - 1) + j]]
  BY <1>1, <1>2 DEF Segment
<1>4. f = [j \in 1 .. n |-> f[j]]
  BY <1>3
<1>5. IsSequence(f) /\ Len(f) = n
  BY <1>4, FunctionIsSequence
<1> QED
  BY <1>1, <1>2, <1>3, <1>5

\* c is that segment of a sequence of sequences.
IsSegment(s, a, b, c) ==
  /\ AreSequences(c) /\ Len(c) = b - a
  /\ \A j \in 1 .. (b - a) : c[j] = s[(a - 1) + j]

LEMMA SegmentIsOne ==
  ASSUME NEW s, AreSequences(s), NEW a \in Nat \ {0}, NEW b \in Nat, a < b, b <= Len(s) + 1
  PROVE  IsSegment(s, a, b, Segment(s, a, b))
<1>1. PICK c : c = Segment(s, a, b)
  OBVIOUS
<1>2. /\ IsSequence(c) /\ Len(c) = b - a
      /\ \A j \in 1 .. (b - a) : c[j] = s[(a - 1) + j]
  BY <1>1, SegmentElements, ZenonT(30)
<1>3. Len(s) \in Nat
  BY SequenceLength DEF AreSequences
<1>4. \A j \in 1 .. (b - a) : (a - 1) + j \in 1 .. Len(s)
  BY <1>3
<1>5. AreSequences(c)
  BY <1>2, <1>4 DEF AreSequences
<1> QED
  BY <1>1, <1>2, <1>5 DEF IsSegment

\* The prefixes grow by a segment.
Grows(x, y, z) == x = y \o z

Lengths(x, y, z) == Len(x) = Len(y) + Len(z)

LEMMA GrowsByLength ==
  ASSUME NEW x, NEW y, IsSequence(y), NEW z, IsSequence(z), Grows(x, y, z)
  PROVE  Lengths(x, y, z)
BY Concatenation DEF Grows, Lengths

LEMMA SegmentGrows ==
  ASSUME NEW s, AreSequences(s), NEW a \in Nat \ {0}, NEW b \in Nat, a < b, b <= Len(s) + 1,
         NEW g, PrefixesOf(g, s), NEW c, IsSegment(s, a, b, c)
  PROVE  Grows(g[b - 1], g[a - 1], FlattenSeq(c))
<1>1. Len(s) \in Nat
  BY SequenceLength DEF AreSequences
<1>2. PICK n \in Nat : n = b - a
  OBVIOUS
<1>3. PICK h : PrefixesOf(h, c) /\ FlattenSeq(c) = h[Len(c)]
  BY FlattenPrefixes DEF IsSegment
<1>4. /\ AreSequences(c) /\ Len(c) = n
      /\ \A j \in 1 .. n : c[j] = s[(a - 1) + j]
  BY <1>2 DEF IsSegment
<1>5. /\ \A i \in 0 .. Len(s) : IsSequence(g[i])
      /\ \A i \in 0 .. n : IsSequence(h[i])
  BY <1>3, <1>4, PrefixesAreSequences
<1>6. a - 1 \in 0 .. Len(s)
  BY <1>1
<1>7. PICK base : base = g[a - 1] /\ IsSequence(base)
  BY <1>5, <1>6
<1>8. PICK T : T = {j \in 0 .. n : Grows(g[(a - 1) + j], base, h[j])}
  OBVIOUS
<1>9. 0 \in T
  <2>1. 0 \in 0 .. n /\ (a - 1) + 0 = a - 1
    BY <1>1
  <2>2. Grows(base, base, <<>>)
    BY <1>7, ConcatenationLaws DEF Grows
  <2>3. h[0] = <<>>
    BY <1>3 DEF PrefixesOf
  <2> QED
    BY <1>7, <1>8, <2>1, <2>2, <2>3
<1>10. ASSUME NEW j \in 1 .. n, j - 1 \in T PROVE j \in T
  <2>1. PICK i : i = (a - 1) + j
    OBVIOUS
  <2>2. i \in 1 .. Len(s) /\ i - 1 = (a - 1) + (j - 1) /\ j - 1 \in 0 .. n /\ j \in 0 .. n
    BY <1>1, <1>2, <2>1
  <2>3. Grows(g[i - 1], base, h[j - 1])
    BY <1>8, <1>10, <2>2
  <2>4. Grows(g[i], g[i - 1], s[i])
    BY <2>2 DEF PrefixesOf, Grows
  <2>5. Grows(h[j], h[j - 1], s[i])
    <3>1. j \in 1 .. Len(c) /\ c[j] = s[i]
      BY <1>4, <2>1
    <3>2. h[j] = h[j - 1] \o c[j]
      BY <1>3, <3>1 DEF PrefixesOf
    <3> QED
      BY <3>1, <3>2 DEF Grows
  <2>6. IsSequence(h[j - 1]) /\ IsSequence(s[i])
    BY <1>5, <2>2 DEF AreSequences
  <2>7. Associates(base, h[j - 1], s[i])
    BY <1>7, <2>6, Associative
  <2>8. Grows(g[i], base, h[j])
    BY <2>3, <2>4, <2>5, <2>7 DEF Grows, Associates
  <2> QED
    BY <1>8, <2>1, <2>2, <2>8
<1>11. 0 .. n \subseteq T
  BY <1>9, <1>10, InductionTo
<1>12. n \in T
  BY <1>11
<1>13. (a - 1) + n = b - 1
  BY <1>2
<1> QED
  BY <1>3, <1>4, <1>7, <1>8, <1>12, <1>13

\* A concatenation that is cut into groups, each put together by itself.
Regroups(s, S, t) ==
  /\ S \subseteq 1 .. Len(s) /\ (Len(s) # 0 => 1 \in S)
  /\ AreSequences(t) /\ Len(t) = Cardinality(S)

LEMMA GroupGrows ==
  ASSUME NEW s, AreSequences(s), NEW S, NEW t, Regroups(s, S, t), NEW k \in 1 .. Len(t),
         NEW g, PrefixesOf(g, s), NEW a, a = Begin(S, Len(s), k), NEW b, b = Begin(S, Len(s), k + 1)
  PROVE  /\ Group(S, Len(s), a, b) /\ a \in Nat \ {0} /\ b \in Nat /\ a < b /\ b <= Len(s) + 1
         /\ IsSegment(s, a, b, Segment(s, a, b))
         /\ Grows(g[b - 1], g[a - 1], FlattenSeq(Segment(s, a, b)))
<1>1. Len(s) \in Nat /\ S \subseteq 1 .. Len(s) /\ k \in 1 .. Cardinality(S)
  BY SequenceLength DEF AreSequences, Regroups
<1>2. Group(S, Len(s), a, b)
  BY <1>1, GroupsInOrder
<1>3. a \in Nat \ {0} /\ b \in Nat /\ a < b /\ b <= Len(s) + 1
  BY <1>1, <1>2 DEF Group
<1>4. IsSegment(s, a, b, Segment(s, a, b))
  BY <1>3, SegmentIsOne
<1> QED
  BY <1>2, <1>3, <1>4, SegmentGrows

LEMMA RegroupedBounds ==
  ASSUME NEW s, AreSequences(s), NEW S, NEW t, Regroups(s, S, t)
  PROVE  /\ Len(s) \in Nat /\ Len(t) \in Nat
         /\ Begin(S, Len(s), 1) = 1 /\ Begin(S, Len(s), Len(t) + 1) = Len(s) + 1
<1>1. Len(s) \in Nat /\ Len(t) \in Nat
  BY SequenceLength DEF AreSequences, Regroups
<1> QED
  BY <1>1, GroupEnds DEF Regroups

LEMMA RegroupedSame ==
  ASSUME NEW s, AreSequences(s), NEW S, NEW t, Regroups(s, S, t),
         \A k \in 1 .. Len(t) :
           t[k] = FlattenSeq(Segment(s, Begin(S, Len(s), k), Begin(S, Len(s), k + 1)))
  PROVE  FlattenSeq(t) = FlattenSeq(s)
<1>1. PICK g : PrefixesOf(g, s) /\ FlattenSeq(s) = g[Len(s)]
  BY FlattenPrefixes
<1>2. PICK h : PrefixesOf(h, t) /\ FlattenSeq(t) = h[Len(t)]
  BY FlattenPrefixes DEF Regroups
<1>3. PICK n, K \in Nat : n = Len(s) /\ K = Len(t)
  BY RegroupedBounds
<1>4. Begin(S, n, 1) = 1 /\ Begin(S, n, K + 1) = n + 1 /\ n \in Nat
  BY <1>3, RegroupedBounds
<1>5. PICK T : T = {k \in 0 .. K : h[k] = g[Begin(S, n, k + 1) - 1]}
  OBVIOUS
<1>6. 0 \in T
  <2>1. 0 \in 0 .. K /\ 0 + 1 = 1 /\ 1 - 1 = 0
    BY <1>3
  <2>2. h[0] = <<>> /\ g[0] = <<>>
    BY <1>1, <1>2 DEF PrefixesOf
  <2> QED
    BY <1>4, <1>5, <2>1, <2>2
<1>7. ASSUME NEW k \in 1 .. K, k - 1 \in T PROVE k \in T
  <2>1. k \in 0 .. K /\ (k - 1) + 1 = k
    BY <1>3
  <2>2. PICK a, b : a = Begin(S, n, k) /\ b = Begin(S, n, k + 1)
    OBVIOUS
  <2>3. h[k - 1] = g[a - 1]
    BY <1>5, <1>7, <2>1, <2>2
  <2>4. Grows(g[b - 1], g[a - 1], FlattenSeq(Segment(s, a, b)))
    BY <1>1, <1>3, <2>2, GroupGrows
  <2>5. t[k] = FlattenSeq(Segment(s, a, b))
    BY <1>3, <2>2
  <2>6. Grows(h[k], h[k - 1], t[k])
    BY <1>2, <1>3 DEF PrefixesOf, Grows
  <2>7. h[k] = g[b - 1]
    BY <2>3, <2>4, <2>5, <2>6 DEF Grows
  <2> QED
    BY <1>5, <2>1, <2>2, <2>7
<1>8. 0 .. K \subseteq T
  BY <1>6, <1>7, InductionTo
<1>9. K \in T /\ (n + 1) - 1 = n
  BY <1>4, <1>8
<1> QED
  BY <1>1, <1>2, <1>3, <1>4, <1>5, <1>9

LEMMA RegroupedLength ==
  ASSUME NEW s, AreSequences(s), NEW S, NEW t, Regroups(s, S, t),
         \A k \in 1 .. Len(t) :
           Len(t[k]) = Len(FlattenSeq(Segment(s, Begin(S, Len(s), k), Begin(S, Len(s), k + 1))))
  PROVE  Len(FlattenSeq(t)) = Len(FlattenSeq(s))
<1>1. PICK g : PrefixesOf(g, s) /\ FlattenSeq(s) = g[Len(s)]
  BY FlattenPrefixes
<1>2. PICK h : PrefixesOf(h, t) /\ FlattenSeq(t) = h[Len(t)]
  BY FlattenPrefixes DEF Regroups
<1>3. PICK n, K \in Nat : n = Len(s) /\ K = Len(t)
  BY RegroupedBounds
<1>4. Begin(S, n, 1) = 1 /\ Begin(S, n, K + 1) = n + 1 /\ n \in Nat
  BY <1>3, RegroupedBounds
<1>5. PICK T : T = {k \in 0 .. K : Len(h[k]) = Len(g[Begin(S, n, k + 1) - 1])}
  OBVIOUS
<1>6. 0 \in T
  <2>1. 0 \in 0 .. K /\ 0 + 1 = 1 /\ 1 - 1 = 0
    BY <1>3
  <2>2. h[0] = <<>> /\ g[0] = <<>>
    BY <1>1, <1>2 DEF PrefixesOf
  <2> QED
    BY <1>4, <1>5, <2>1, <2>2
<1>7. ASSUME NEW k \in 1 .. K, k - 1 \in T PROVE k \in T
  <2>1. k \in 0 .. K /\ (k - 1) + 1 = k /\ k - 1 \in 0 .. K
    BY <1>3
  <2>2. PICK a, b : a = Begin(S, n, k) /\ b = Begin(S, n, k + 1)
    OBVIOUS
  <2>3. Len(h[k - 1]) = Len(g[a - 1])
    BY <1>5, <1>7, <2>1, <2>2
  <2>4. /\ Grows(g[b - 1], g[a - 1], FlattenSeq(Segment(s, a, b)))
        /\ a \in Nat \ {0} /\ b \in Nat /\ a < b /\ b <= n + 1
        /\ IsSegment(s, a, b, Segment(s, a, b))
    BY <1>1, <1>3, <2>2, GroupGrows
  <2>5. PICK c : c = FlattenSeq(Segment(s, a, b))
    OBVIOUS
  <2>6. IsSequence(c)
    <3>1. AreSequences(Segment(s, a, b))
      BY <2>4 DEF IsSegment
    <3>2. \E d : PrefixesOf(d, Segment(s, a, b))
      BY <3>1, FlattenPrefixes
    <3> QED
      BY <2>5, <3>1, <3>2, FlattenUnique
  <2>7. Len(t[k]) = Len(c)
    BY <1>3, <2>2, <2>5
  <2>8. Grows(h[k], h[k - 1], t[k])
    BY <1>2, <1>3 DEF PrefixesOf, Grows
  <2>9. IsSequence(h[k - 1]) /\ IsSequence(t[k]) /\ IsSequence(g[a - 1])
    <3>1. a - 1 \in 0 .. n
      BY <1>4, <2>4
    <3> QED
      BY <1>1, <1>2, <1>3, <2>1, <3>1, PrefixesAreSequences DEF Regroups, AreSequences
  <2>10. Len(h[k]) = Len(h[k - 1]) + Len(t[k])
    BY <2>8, <2>9, GrowsByLength, ZenonT(30) DEF Lengths
  <2>11. Len(g[b - 1]) = Len(g[a - 1]) + Len(c)
    <3>1. PICK x, y : x = g[b - 1] /\ y = g[a - 1]
      OBVIOUS
    <3>2. Grows(x, y, c)
      BY <2>4, <2>5, <3>1
    <3>3. Lengths(x, y, c)
      BY <2>6, <2>9, <3>1, <3>2, GrowsByLength
    <3> QED
      BY <3>1, <3>3 DEF Lengths
  <2>12. Len(h[k]) = Len(g[b - 1])
    BY <2>3, <2>7, <2>10, <2>11
  <2> QED
    BY <1>5, <2>1, <2>2, <2>12
<1>8. 0 .. K \subseteq T
  BY <1>6, <1>7, InductionTo
<1>9. K \in T /\ (n + 1) - 1 = n
  BY <1>4, <1>8
<1> QED
  BY <1>1, <1>2, <1>3, <1>4, <1>5, <1>9

\* What is put together of sequences of one element each has as many elements.
LEMMA OneEach ==
  ASSUME NEW c, AreSequences(c), \A i \in 1 .. Len(c) : Len(c[i]) = 1
  PROVE  Len(FlattenSeq(c)) = Len(c)
<1>1. PICK h : PrefixesOf(h, c) /\ FlattenSeq(c) = h[Len(c)]
  BY FlattenPrefixes
<1>2. PICK n \in Nat : n = Len(c)
  BY SequenceLength DEF AreSequences
<1>3. PICK T : T = {i \in 0 .. n : Len(h[i]) = i}
  OBVIOUS
<1>4. 0 \in T
  <2>1. 0 \in 0 .. n
    BY <1>2
  <2>2. Len(h[0]) = 0
    BY <1>1, NoElements DEF PrefixesOf
  <2> QED
    BY <1>3, <2>1, <2>2
<1>5. ASSUME NEW i \in 1 .. n, i - 1 \in T PROVE i \in T
  <2>1. Grows(h[i], h[i - 1], c[i])
    BY <1>1, <1>2 DEF PrefixesOf, Grows
  <2>2. i - 1 \in 0 .. n /\ i \in 0 .. n
    BY <1>2
  <2>3. IsSequence(h[i - 1]) /\ IsSequence(c[i]) /\ Len(c[i]) = 1 /\ Len(h[i - 1]) = i - 1
    BY <1>1, <1>2, <1>3, <1>5, <2>2, PrefixesAreSequences DEF AreSequences
  <2>4. Lengths(h[i], h[i - 1], c[i])
    BY <2>1, <2>3, GrowsByLength
  <2> QED
    BY <1>3, <2>2, <2>3, <2>4 DEF Lengths
<1>6. 0 .. n \subseteq T
  BY <1>4, <1>5, InductionTo
<1>7. n \in T
  BY <1>6
<1> QED
  BY <1>1, <1>2, <1>3, <1>7

-----------------------------------------------------------------------------
(* The bits of the elements, and what compression does to them. *)

\* What an element of a compressed concatenation may be.
IsPacked(e) ==
  \/ IsElement(e)
  \/ e = Rep(e.n, e.of) /\ e.n \in Nat /\ IsElement(e.of)
AllPacked(elems) == IsSequence(elems) /\ \A i \in 1 .. Len(elems) : IsPacked(elems[i])
AllElements(elems) == IsSequence(elems) /\ \A i \in 1 .. Len(elems) : IsElement(elems[i])

\* Every declaration has a width, one of a net that no pass has made up at least one.
Widths(f) ==
  \A i \in 1 .. Len(f) : f[i].k = "decl" =>
    f[i].width \in Nat /\ (~Made(f[i].sig) => f[i].width >= 1)

LEMMA ElementKinds ==
  ASSUME NEW e, IsElement(e)
  PROVE  /\ e.k \in {"num", "sig", "bit", "slice"}
         /\ e.k = "num" => e.width \in Nat
         /\ e.k # "num" => ~Made(e.sig)
         /\ e.k = "bit" => e = Bit(e.sig, e.at) /\ e.at \in Nat
         /\ e.k = "slice" => e.hi \in Nat /\ e.lo \in Nat
<1>1. CASE e.k = "num" /\ e = Number(e.width) /\ e.width \in Nat
  BY <1>1
<1>2. CASE e.k \in {"sig", "bit", "slice"} /\ ~Made(e.sig) /\ e = Whole(e.sig)
  <2>1. Whole(e.sig).k = "sig"
    BY DEF Whole
  <2>2. e.k = "sig"
    BY <1>2, <2>1
  <2> QED
    BY <1>2, <2>2
<1>3. CASE ~Made(e.sig) /\ e.k = "bit" /\ e = Bit(e.sig, e.at) /\ e.at \in Nat
  BY <1>3
<1>4. CASE ~Made(e.sig) /\ e.k = "slice" /\ e.hi \in Nat /\ e.lo \in Nat
  BY <1>4
<1> QED
  BY <1>1, <1>2, <1>3, <1>4 DEF IsElement

LEMMA RepIsNone == ASSUME NEW e, IsElement(e) PROVE e.k # "rep"
BY ElementKinds

LEMMA RepFields ==
  ASSUME NEW n, NEW e PROVE Rep(n, e).k = "rep" /\ Rep(n, e).n = n /\ Rep(n, e).of = e
BY DEF Rep

LEMMA PackedKinds ==
  ASSUME NEW e, IsPacked(e)
  PROVE  IsElement(e) \/ (e.k = "rep" /\ e.n \in Nat /\ IsElement(e.of))
BY RepFields DEF IsPacked

\* As many bits as the width says, none for a negative one.
LEMMA DownBits ==
  ASSUME NEW s, NEW hi, NEW w \in Int
  PROVE  IsSequence(Down(s, hi, w)) /\ Len(Down(s, hi, w)) = IF w > 0 THEN w ELSE 0
<1>1. PICK f : f = Down(s, hi, w)
  OBVIOUS
<1>2. PICK n \in Nat : n = IF w > 0 THEN w ELSE 0
  OBVIOUS
<1>3. 1 .. w = 1 .. n
  <2>1. \A i : i \in 1 .. w <=> i \in 1 .. n
    BY <1>2
  <2> QED
    BY <2>1
<1>4. f = [j \in 1 .. n |-> <<s, hi + 1 - j>>]
  BY <1>1, <1>3 DEF Down
<1>5. f = [j \in 1 .. n |-> f[j]]
  BY <1>4
<1>6. IsSequence(f) /\ Len(f) = n
  BY <1>5, FunctionIsSequence
<1> QED
  BY <1>1, <1>2, <1>6

\* The last of some positions.
LEMMA LastOfSome ==
  ASSUME NEW n \in Nat, NEW D, D \subseteq 1 .. n, D # {}
  PROVE  \E x \in D : \A j \in D : j <= x
<1>1. PICK T : T = {n - i : i \in D}
  OBVIOUS
<1>2. T \subseteq Nat /\ T # {}
  <2>1. \A i \in D : n - i \in Nat
    OBVIOUS
  <2> QED
    BY <1>1, <2>1
<1>3. PICK x \in T : \A y \in T : x <= y
  BY <1>2, LeastNumber
<1>4. PICK i \in D : x = n - i
  BY <1>1
<1>5. ASSUME NEW j \in D PROVE j <= i
  <2>1. n - i <= n - j
    BY <1>1, <1>3, <1>4
  <2>2. i \in Int /\ j \in Int /\ n \in Int
    OBVIOUS
  <2> QED
    BY <2>1, <2>2
<1> QED
  BY <1>5

\* A declaration in scope is one of the file's.
LEMMA UndeclaredIs ==
  ASSUME NEW s PROVE Undeclared(s).width = 1 /\ ~Undeclared(s).matches
<1>1. PICK no : no = FALSE
  OBVIOUS
<1>2. Undeclared(s) = [k |-> "decl", sig |-> s, width |-> 1, matches |-> no]
  BY <1>1 DEF Undeclared, Decl
<1>3. Undeclared(s).width = 1 /\ Undeclared(s).matches = no
  BY <1>2
<1> QED
  BY <1>1, <1>3

LEMMA WidthIsOne ==
  ASSUME NEW f, Widths(f), Len(f) \in Nat, NEW n \in 1 .. Len(f), NEW s
  PROVE  WidthAt(f, n, s) \in Nat /\ (~Made(s) => WidthAt(f, n, s) >= 1)
<1>1. PICK decls : decls = {i \in 1 .. (n - 1) : /\ f[i].k = "decl" /\ f[i].sig = s
                                                 /\ \A j \in i .. n : f[j].k # "module"}
  OBVIOUS
<1>2. CASE decls = {}
  BY <1>1, <1>2, UndeclaredIs DEF WidthAt, DeclAt
<1>3. CASE decls # {}
  <2>1. PICK last : last = CHOOSE i \in decls : \A j \in decls : j <= i
    OBVIOUS
  <2>2. \E i \in decls : \A j \in decls : j <= i
    <3>1. decls \subseteq 1 .. Len(f)
      BY <1>1
    <3> QED
      BY <1>3, <3>1, LastOfSome
  <2>3. last \in decls
    BY <2>1, <2>2
  <2>4. last \in 1 .. Len(f) /\ f[last].k = "decl" /\ f[last].sig = s
    BY <1>1, <2>3
  <2>5. WidthAt(f, n, s) = f[last].width
    BY <1>1, <1>3, <2>1 DEF WidthAt, DeclAt
  <2> QED
    BY <2>4, <2>5 DEF Widths
<1> QED
  BY <1>2, <1>3

\* Line n of a file whose declarations have widths.
InFile(f, n) == Widths(f) /\ Len(f) \in Nat /\ n \in 1 .. Len(f)

LEMMA TermBitsAre ==
  ASSUME NEW wires, OnlyMade(wires), NEW f, NEW n, InFile(f, n), NEW e, IsElement(e)
  PROVE  /\ IsSequence(TermBits(wires, f, n, e)) /\ ElementBits(wires, f, n, e) = TermBits(wires, f, n, e)
         /\ e.k = "bit" => Len(TermBits(wires, f, n, e)) = 1
         /\ e.k = "num" => Len(TermBits(wires, f, n, e)) = e.width
         /\ e.k = "slice" => TermBits(wires, f, n, e) = Down(e.sig, e.hi, e.hi - e.lo + 1)
         /\ e.k = "sig" => /\ Len(TermBits(wires, f, n, e)) = WidthAt(f, n, e.sig)
                           /\ WidthAt(f, n, e.sig) \in Nat
<1>1. PICK bits : bits = TermBits(wires, f, n, e)
  OBVIOUS
<1>2. e.k \in {"num", "sig", "bit", "slice"} /\ (e.k # "num" => ~Made(e.sig))
  BY ElementKinds
<1>3. ElementBits(wires, f, n, e) = bits
  BY <1>1, <1>2 DEF ElementBits
<1>4. CASE e.k = "num"
  <2>1. bits = Down(<<"num", 0, 0>>, e.width - 1, e.width) /\ e.width \in Nat
    BY <1>1, <1>4, ElementKinds DEF TermBits
  <2> QED
    BY <1>1, <1>3, <1>4, <2>1, DownBits
<1>5. CASE e.k = "bit"
  <2>1. bits = Down(e.sig, e.at, 1)
    BY <1>1, <1>5 DEF TermBits
  <2>2. IsSequence(bits) /\ Len(bits) = 1
    <3>1. PICK w \in Int : w = 1
      OBVIOUS
    <3>2. bits = Down(e.sig, e.at, w)
      BY <2>1, <3>1
    <3>3. IsSequence(bits) /\ Len(bits) = IF w > 0 THEN w ELSE 0
      BY <3>2, DownBits
    <3> QED
      BY <3>1, <3>3
  <2> QED
    BY <1>1, <1>3, <1>5, <2>2
<1>6. CASE e.k = "slice"
  <2>1. bits = Down(e.sig, e.hi, e.hi - e.lo + 1) /\ e.hi - e.lo + 1 \in Int
    BY <1>1, <1>6, ElementKinds DEF TermBits
  <2>2. IsSequence(bits)
    BY <2>1, DownBits
  <2> QED
    BY <1>1, <1>3, <1>6, <2>1, <2>2
<1>7. CASE e.k = "sig"
  <2>1. e.sig \notin DOMAIN wires
    BY <1>2, <1>7 DEF OnlyMade
  <2>2. bits = Down(e.sig, WidthAt(f, n, e.sig) - 1, WidthAt(f, n, e.sig))
    BY <1>1, <1>7, <2>1 DEF TermBits
  <2>3. WidthAt(f, n, e.sig) \in Nat
    BY WidthIsOne DEF InFile
  <2> QED
    BY <1>1, <1>3, <1>7, <2>2, <2>3, DownBits
<1> QED
  BY <1>2, <1>4, <1>5, <1>6, <1>7

\* The bits of a concatenation, element by element.
BitSeq(wires, f, n, elems) == [i \in DOMAIN elems |-> ElementBits(wires, f, n, elems[i])]

LEMMA PackedBitsAre ==
  ASSUME NEW wires, OnlyMade(wires), NEW f, NEW n, InFile(f, n), NEW e, IsPacked(e)
  PROVE  IsSequence(ElementBits(wires, f, n, e))
<1>1. CASE IsElement(e)
  BY <1>1, TermBitsAre
<1>2. CASE e.k = "rep" /\ e.n \in Nat /\ IsElement(e.of)
  <2>1. PICK c : c = [j \in 1 .. e.n |-> TermBits(wires, f, n, e.of)]
    OBVIOUS
  <2>2. c = [j \in 1 .. e.n |-> c[j]]
    BY <2>1
  <2>3. IsSequence(c) /\ Len(c) = e.n
    BY <1>2, <2>2, FunctionIsSequence
  <2>4. AreSequences(c)
    BY <1>2, <2>1, <2>3, TermBitsAre DEF AreSequences
  <2>5. IsSequence(FlattenSeq(c))
    BY <2>4, FlattenPrefixes, FlattenUnique
  <2> QED
    BY <1>2, <2>1, <2>5 DEF ElementBits
<1> QED
  BY <1>1, <1>2, PackedKinds

LEMMA BitSeqIs ==
  ASSUME NEW wires, OnlyMade(wires), NEW f, NEW n, InFile(f, n), NEW elems, AllPacked(elems)
  PROVE  /\ AreSequences(BitSeq(wires, f, n, elems))
         /\ Len(BitSeq(wires, f, n, elems)) = Len(elems) /\ Len(elems) \in Nat
         /\ \A i \in 1 .. Len(elems) :
              BitSeq(wires, f, n, elems)[i] = ElementBits(wires, f, n, elems[i])
         /\ BitsOf(wires, f, n, elems) = FlattenSeq(BitSeq(wires, f, n, elems))
         /\ IsSequence(BitsOf(wires, f, n, elems))
<1>1. PICK s : s = BitSeq(wires, f, n, elems)
  OBVIOUS
<1>2. DOMAIN elems = 1 .. Len(elems) /\ Len(elems) \in Nat
  BY SequenceDomain, SequenceLength DEF AllPacked
<1>3. s = [i \in 1 .. Len(elems) |-> ElementBits(wires, f, n, elems[i])]
  BY <1>1, <1>2 DEF BitSeq
<1>4. s = [i \in 1 .. Len(elems) |-> s[i]]
  BY <1>3
<1>5. IsSequence(s) /\ Len(s) = Len(elems)
  BY <1>2, <1>4, FunctionIsSequence
<1>6. AreSequences(s)
  BY <1>3, <1>5, PackedBitsAre DEF AreSequences, AllPacked
<1>7. BitsOf(wires, f, n, elems) = FlattenSeq(s)
  BY <1>1 DEF BitsOf, BitSeq
<1>8. IsSequence(FlattenSeq(s))
  BY <1>6, FlattenPrefixes, FlattenUnique
<1> QED
  BY <1>1, <1>2, <1>3, <1>5, <1>6, <1>7, <1>8

\* Group k of the groups that begin at the positions S.
GroupIs(groups, elems, S, k) ==
  /\ groups[k].first = elems[Begin(S, Len(elems), k)]
  /\ groups[k].n = Begin(S, Len(elems), k + 1) - Begin(S, Len(elems), k)

LEMMA GroupsAre ==
  ASSUME NEW elems, Len(elems) \in Nat, NEW S, S \subseteq 1 .. Len(elems)
  PROVE  /\ Cardinality(S) \in Nat /\ DOMAIN Groups(elems, S) = 1 .. Cardinality(S)
         /\ \A k \in 1 .. Cardinality(S) : GroupIs(Groups(elems, S), elems, S, k)
<1>1. Cardinality(S) \in Nat /\ DOMAIN Groups(elems, S) = 1 .. Cardinality(S)
  <2>1. S \in SUBSET (1 .. Len(elems))
    OBVIOUS
  <2> QED
    BY <2>1, GroupsAreSequence
<1>2. Groups(elems, S) =
        [k \in 1 .. Cardinality(S) |->
           [first |-> elems[Begin(S, Len(elems), k)],
            n |-> Begin(S, Len(elems), k + 1) - Begin(S, Len(elems), k)]]
  BY DEF Groups, Begin
<1>3. ASSUME NEW k \in 1 .. Cardinality(S) PROVE GroupIs(Groups(elems, S), elems, S, k)
  <2>1. PICK x, m : x = elems[Begin(S, Len(elems), k)]
                 /\ m = Begin(S, Len(elems), k + 1) - Begin(S, Len(elems), k)
    OBVIOUS
  <2>2. Groups(elems, S)[k] = [first |-> x, n |-> m]
    BY <1>2, <2>1
  <2>3. Groups(elems, S)[k].first = x /\ Groups(elems, S)[k].n = m
    BY <2>2
  <2> QED
    BY <2>1, <2>3 DEF GroupIs
<1> QED
  BY <1>1, <1>3

\* Where the groups begin that replace_reps and replace_decr form.
RepStarts(elems) == {i \in 1 .. Len(elems) : i = 1 \/ elems[i - 1] # elems[i]}
RunStarts(elems) == {i \in 1 .. Len(elems) : i = 1 \/ ~Continues(elems[i - 1], elems[i])}

\* Element k of what replace_reps and replace_decr return, from the group from a to b.
RepOfGroup(elems, a, b, e) ==
  e = IF b - a = 1 THEN elems[a] ELSE Rep(b - a, elems[a])
RunOfGroup(elems, a, b, e) ==
  e = IF elems[a].k = "bit" THEN Commit(elems[a].sig, elems[a].at, b - a) ELSE elems[a]

LEMMA RepsReplaced ==
  ASSUME NEW elems, IsSequence(elems), NEW S, S = RepStarts(elems)
  PROVE  /\ IsSequence(ReplaceReps(elems)) /\ Len(ReplaceReps(elems)) = Cardinality(S)
         /\ S \subseteq 1 .. Len(elems) /\ (Len(elems) # 0 => 1 \in S)
         /\ \A k \in 1 .. Cardinality(S) :
              RepOfGroup(elems, Begin(S, Len(elems), k), Begin(S, Len(elems), k + 1),
                         ReplaceReps(elems)[k])
<1>1. PICK n \in Nat : n = Len(elems)
  BY SequenceLength
<1>2. S \subseteq 1 .. n
  BY <1>1 DEF RepStarts
<1>3. n # 0 => 1 \in S
  BY <1>1 DEF RepStarts
<1>4. PICK groups : groups = Groups(elems, S)
  OBVIOUS
<1>5. PICK K \in Nat : K = Cardinality(S)
  BY <1>1, <1>2, GroupsAre
<1>6. DOMAIN groups = 1 .. K /\ \A k \in 1 .. K : GroupIs(groups, elems, S, k)
  BY <1>1, <1>2, <1>4, <1>5, GroupsAre
<1>7. PICK r : r = ReplaceReps(elems)
  OBVIOUS
<1>8. r = [k \in 1 .. K |-> IF groups[k].n = 1 THEN groups[k].first
                                              ELSE Rep(groups[k].n, groups[k].first)]
  BY <1>4, <1>6, <1>7 DEF ReplaceReps, RepStarts
<1>9. IsSequence(r) /\ Len(r) = K
  <2>1. r = [k \in 1 .. K |-> r[k]]
    BY <1>8
  <2> QED
    BY <2>1, FunctionIsSequence
<1>10. ASSUME NEW k \in 1 .. K
       PROVE  RepOfGroup(elems, Begin(S, n, k), Begin(S, n, k + 1), r[k])
  <2>1. PICK m : m = Begin(S, n, k + 1) - Begin(S, n, k)
    OBVIOUS
  <2>2. groups[k].n = m /\ groups[k].first = elems[Begin(S, n, k)]
    BY <1>1, <1>6, <2>1 DEF GroupIs
  <2>3. r[k] = IF m = 1 THEN elems[Begin(S, n, k)] ELSE Rep(m, elems[Begin(S, n, k)])
    BY <1>8, <2>2
  <2> QED
    BY <2>1, <2>3 DEF RepOfGroup
<1> QED
  BY <1>1, <1>2, <1>3, <1>5, <1>7, <1>9, <1>10

LEMMA RunsReplaced ==
  ASSUME NEW elems, IsSequence(elems), NEW S, S = RunStarts(elems)
  PROVE  /\ IsSequence(ReplaceDecr(elems)) /\ Len(ReplaceDecr(elems)) = Cardinality(S)
         /\ S \subseteq 1 .. Len(elems) /\ (Len(elems) # 0 => 1 \in S)
         /\ \A k \in 1 .. Cardinality(S) :
              RunOfGroup(elems, Begin(S, Len(elems), k), Begin(S, Len(elems), k + 1),
                         ReplaceDecr(elems)[k])
<1>1. PICK n \in Nat : n = Len(elems)
  BY SequenceLength
<1>2. S \subseteq 1 .. n
  BY <1>1 DEF RunStarts
<1>3. n # 0 => 1 \in S
  BY <1>1 DEF RunStarts
<1>4. PICK groups : groups = Groups(elems, S)
  OBVIOUS
<1>5. PICK K \in Nat : K = Cardinality(S)
  BY <1>1, <1>2, GroupsAre
<1>6. DOMAIN groups = 1 .. K /\ \A k \in 1 .. K : GroupIs(groups, elems, S, k)
  BY <1>1, <1>2, <1>4, <1>5, GroupsAre
<1>7. PICK d : d = ReplaceDecr(elems)
  OBVIOUS
<1>8. d = [k \in 1 .. K |->
             IF groups[k].first.k = "bit"
               THEN Commit(groups[k].first.sig, groups[k].first.at, groups[k].n)
               ELSE groups[k].first]
  BY <1>4, <1>6, <1>7 DEF ReplaceDecr, RunStarts
<1>9. IsSequence(d) /\ Len(d) = K
  <2>1. d = [k \in 1 .. K |-> d[k]]
    BY <1>8
  <2> QED
    BY <2>1, FunctionIsSequence
<1>10. ASSUME NEW k \in 1 .. K
       PROVE  RunOfGroup(elems, Begin(S, n, k), Begin(S, n, k + 1), d[k])
  <2>1. PICK m : m = Begin(S, n, k + 1) - Begin(S, n, k)
    OBVIOUS
  <2>2. PICK e : e = elems[Begin(S, n, k)]
    OBVIOUS
  <2>3. groups[k].n = m /\ groups[k].first = e
    BY <1>1, <1>6, <2>1, <2>2 DEF GroupIs
  <2>4. d[k] = IF e.k = "bit" THEN Commit(e.sig, e.at, m) ELSE e
    BY <1>8, <2>3
  <2> QED
    BY <2>1, <2>2, <2>4 DEF RunOfGroup
<1> QED
  BY <1>1, <1>2, <1>3, <1>5, <1>7, <1>9, <1>10

-----------------------------------------------------------------------------
\* The elements of a group of equal ones are equal to its first.
LEMMA GroupIsEqual ==
  ASSUME NEW elems, IsSequence(elems), NEW S, S = RepStarts(elems), NEW a, NEW b,
         Group(S, Len(elems), a, b), Len(elems) \in Nat, NEW j \in 1 .. (b - a)
  PROVE  elems[(a - 1) + j] = elems[a]
<1>1. a \in Nat \ {0} /\ b \in Nat /\ a < b /\ b <= Len(elems) + 1
  BY DEF Group
<1>2. PICK m \in Nat : m = (b - a) - 1
  BY <1>1
<1>3. PICK T : T = {i \in 0 .. m : elems[a + i] = elems[a]}
  OBVIOUS
<1>4. 0 \in T
  BY <1>1, <1>3
<1>5. ASSUME NEW i \in 1 .. m, i - 1 \in T PROVE i \in T
  <2>1. PICK p : p = a + i
    OBVIOUS
  <2>2. p \in (a + 1) .. (b - 1) /\ p \in 1 .. Len(elems) /\ p - 1 = a + (i - 1)
    BY <1>1, <1>2, <2>1
  <2>3. p \notin S
    BY <2>2 DEF Group
  <2>4. elems[p - 1] = elems[p]
    BY <2>2, <2>3 DEF RepStarts
  <2>5. i \in 0 .. m
    BY <1>2
  <2> QED
    BY <1>3, <1>5, <2>1, <2>2, <2>4, <2>5
<1>6. 0 .. m \subseteq T
  BY <1>4, <1>5, InductionTo
<1>7. j - 1 \in 0 .. m /\ (a - 1) + j = a + (j - 1)
  BY <1>1, <1>2
<1>8. j - 1 \in T
  BY <1>6, <1>7
<1> QED
  BY <1>3, <1>7, <1>8

\* Those of a group of more than one bit in a row are bits.
\* A group that begins with a bit is one of bits.
OfBits(elems, a, b) ==
  elems[a].k = "bit" => \A j \in 1 .. (b - a) : elems[(a - 1) + j].k = "bit"

LEMMA GroupIsRun ==
  ASSUME NEW elems, IsSequence(elems), NEW S, S = RunStarts(elems), NEW a, NEW b,
         Group(S, Len(elems), a, b), Len(elems) \in Nat
  PROVE  OfBits(elems, a, b) /\ (elems[a].k # "bit" => b - a = 1)
<1>1. a \in Nat \ {0} /\ b \in Nat /\ a < b /\ b <= Len(elems) + 1
  BY DEF Group
<1>2. ASSUME NEW p \in (a + 1) .. (b - 1)
      PROVE  elems[p - 1].k = "bit" /\ elems[p].k = "bit"
  <2>1. p \in 1 .. Len(elems) /\ p # 1
    BY <1>1
  <2>2. p \notin S
    BY DEF Group
  <2>3. Continues(elems[p - 1], elems[p])
    BY <2>1, <2>2 DEF RunStarts
  <2> QED
    BY <2>3 DEF Continues
<1>3. ASSUME elems[a].k = "bit", NEW j \in 1 .. (b - a) PROVE elems[(a - 1) + j].k = "bit"
  <2>1. CASE j = 1
    BY <1>1, <1>3, <2>1
  <2>2. CASE j # 1
    <3>1. (a - 1) + j \in (a + 1) .. (b - 1)
      BY <1>1, <2>2
    <3> QED
      BY <1>2, <3>1
  <2> QED
    BY <2>1, <2>2
<1>4. ASSUME elems[a].k # "bit" PROVE b - a = 1
  <2>1. CASE a + 1 \in (a + 1) .. (b - 1)
    <3>1. (a + 1) - 1 = a
      BY <1>1
    <3> QED
      BY <1>2, <1>4, <2>1, <3>1
  <2>2. CASE a + 1 \notin (a + 1) .. (b - 1)
    BY <1>1, <2>2
  <2> QED
    BY <2>1, <2>2
<1> QED
  BY <1>3, <1>4 DEF OfBits

-----------------------------------------------------------------------------
(* What compression keeps of the bits. *)

LEMMA CutIsRegrouped ==
  ASSUME NEW wires, OnlyMade(wires), NEW f, NEW n, InFile(f, n), NEW elems, AllPacked(elems),
         NEW new, AllPacked(new), NEW S, S \subseteq 1 .. Len(elems), Len(elems) # 0 => 1 \in S,
         Len(new) = Cardinality(S)
  PROVE  /\ AreSequences(BitSeq(wires, f, n, elems))
         /\ Regroups(BitSeq(wires, f, n, elems), S, BitSeq(wires, f, n, new))
BY BitSeqIs DEF Regroups

\* A group of one element is that element's bits.
LEMMA SegmentOfOne ==
  ASSUME NEW s, NEW a \in Nat, NEW b, b = a + 1, IsSequence(s[a])
  PROVE  FlattenSeq(Segment(s, a, b)) = s[a]
<1>1. PICK c : c = Segment(s, a, b)
  OBVIOUS
<1>2. IsSequence(c) /\ Len(c) = 1 /\ c[1] = s[a]
  <2>1. b - a = 1 /\ (a - 1) + 1 = a
    OBVIOUS
  <2>2. c = [j \in 1 .. 1 |-> s[(a - 1) + j]]
    BY <1>1, <2>1 DEF Segment
  <2>3. c = [j \in 1 .. 1 |-> c[j]] /\ c[1] = s[a]
    BY <2>1, <2>2
  <2> QED
    BY <2>3, FunctionIsSequence
<1>3. c = <<s[a]>>
  <2>1. PICK d : d = <<s[a]>>
    OBVIOUS
  <2>2. IsSequence(d) /\ Len(d) = 1 /\ d[1] = s[a]
    BY <2>1, OneElement
  <2>3. \A i \in 1 .. Len(c) : c[i] = d[i]
    BY <1>2, <2>2
  <2>4. c = d
    BY <1>2, <2>2, <2>3, SameElements
  <2> QED
    BY <2>1, <2>4
<1> QED
  BY <1>1, <1>3, FlattenOne

LEMMA RepsArePacked ==
  ASSUME NEW elems, AllElements(elems)
  PROVE  AllPacked(ReplaceReps(elems))
<1>1. PICK S : S = RepStarts(elems)
  OBVIOUS
<1>2. PICK r : r = ReplaceReps(elems)
  OBVIOUS
<1>3. /\ IsSequence(r) /\ Len(r) = Cardinality(S) /\ S \subseteq 1 .. Len(elems)
      /\ \A k \in 1 .. Cardinality(S) :
           RepOfGroup(elems, Begin(S, Len(elems), k), Begin(S, Len(elems), k + 1), r[k])
  BY <1>1, <1>2, RepsReplaced DEF AllElements
<1>4. Len(elems) \in Nat
  BY SequenceLength DEF AllElements
<1>5. ASSUME NEW k \in 1 .. Cardinality(S) PROVE IsPacked(r[k])
  <2>1. PICK a, b : a = Begin(S, Len(elems), k) /\ b = Begin(S, Len(elems), k + 1)
    OBVIOUS
  <2>2. Group(S, Len(elems), a, b)
    BY <1>3, <1>4, <2>1, GroupsInOrder
  <2>3. a \in 1 .. Len(elems) /\ b \in Nat /\ a < b
    BY <1>4, <2>2 DEF Group
  <2>4. PICK e, m : e = elems[a] /\ m = b - a
    OBVIOUS
  <2>5. IsElement(e) /\ m \in Nat
    BY <2>3, <2>4 DEF AllElements
  <2>6. r[k] = IF m = 1 THEN e ELSE Rep(m, e)
    BY <1>3, <2>1, <2>4 DEF RepOfGroup
  <2>7. CASE r[k] = e
    BY <2>5, <2>7 DEF IsPacked
  <2>8. CASE r[k] = Rep(m, e)
    <3>1. r[k].n = m /\ r[k].of = e
      BY <2>8, RepFields
    <3> QED
      BY <2>5, <2>8, <3>1 DEF IsPacked
  <2> QED
    BY <2>6, <2>7, <2>8
<1> QED
  BY <1>2, <1>3, <1>5 DEF AllPacked

\* replace_reps keeps the bits.
LEMMA RepsKeepBits ==
  ASSUME NEW wires, OnlyMade(wires), NEW f, NEW n, InFile(f, n), NEW elems, AllElements(elems)
  PROVE  BitsOf(wires, f, n, ReplaceReps(elems)) = BitsOf(wires, f, n, elems)
<1>1. PICK S : S = RepStarts(elems)
  OBVIOUS
<1>2. PICK r : r = ReplaceReps(elems)
  OBVIOUS
<1>3. /\ IsSequence(r) /\ Len(r) = Cardinality(S) /\ S \subseteq 1 .. Len(elems)
      /\ Len(elems) # 0 => 1 \in S
      /\ \A k \in 1 .. Cardinality(S) :
           RepOfGroup(elems, Begin(S, Len(elems), k), Begin(S, Len(elems), k + 1), r[k])
  BY <1>1, <1>2, RepsReplaced DEF AllElements
<1>4. AllPacked(elems) /\ AllPacked(r)
  BY <1>2, RepsArePacked DEF AllElements, AllPacked, IsPacked
<1>5. PICK s, t : s = BitSeq(wires, f, n, elems) /\ t = BitSeq(wires, f, n, r)
  OBVIOUS
<1>6. AreSequences(s) /\ Regroups(s, S, t)
  BY <1>3, <1>4, <1>5, CutIsRegrouped
<1>7. /\ Len(s) = Len(elems) /\ Len(elems) \in Nat
      /\ \A i \in 1 .. Len(elems) : s[i] = ElementBits(wires, f, n, elems[i])
      /\ BitsOf(wires, f, n, elems) = FlattenSeq(s)
  BY <1>4, <1>5, BitSeqIs
<1>8. /\ Len(t) = Len(r)
      /\ \A i \in 1 .. Len(r) : t[i] = ElementBits(wires, f, n, r[i])
      /\ BitsOf(wires, f, n, r) = FlattenSeq(t)
  BY <1>4, <1>5, BitSeqIs
<1>9. ASSUME NEW k \in 1 .. Len(t)
      PROVE  t[k] = FlattenSeq(Segment(s, Begin(S, Len(s), k), Begin(S, Len(s), k + 1)))
  <2>1. PICK a, b : a = Begin(S, Len(s), k) /\ b = Begin(S, Len(s), k + 1)
    OBVIOUS
  <2>2. Group(S, Len(elems), a, b)
    BY <1>3, <1>7, <1>8, <2>1, GroupsInOrder
  <2>3. a \in 1 .. Len(elems) /\ b \in Nat /\ a \in Nat /\ a < b /\ b <= Len(elems) + 1
    BY <1>7, <2>2 DEF Group
  <2>4. PICK e, m : e = elems[a] /\ m = b - a
    OBVIOUS
  <2>5. IsElement(e) /\ m \in Nat
    BY <2>3, <2>4 DEF AllElements
  <2>6. r[k] = IF m = 1 THEN e ELSE Rep(m, e)
    BY <1>3, <1>7, <1>8, <2>1, <2>4 DEF RepOfGroup
  <2>7. ElementBits(wires, f, n, e) = TermBits(wires, f, n, e) /\ s[a] = TermBits(wires, f, n, e)
        /\ IsSequence(s[a])
    BY <1>7, <2>3, <2>4, <2>5, TermBitsAre
  <2>8. CASE m = 1
    <3>1. t[k] = s[a]
      BY <1>8, <2>6, <2>7, <2>8
    <3>2. b = a + 1
      BY <2>3, <2>4, <2>8
    <3>3. FlattenSeq(Segment(s, a, b)) = s[a]
      BY <2>3, <2>7, <3>2, SegmentOfOne
    <3> QED
      BY <2>1, <3>1, <3>3
  <2>9. CASE m # 1
    <3>1. PICK x : x = TermBits(wires, f, n, e)
      OBVIOUS
    <3>2. t[k] = FlattenSeq([j \in 1 .. m |-> x])
      <4>1. r[k] = Rep(m, e)
        BY <2>6, <2>9
      <4>2. r[k].k = "rep" /\ r[k].n = m /\ r[k].of = e
        BY <4>1, RepFields
      <4>3. t[k] = ElementBits(wires, f, n, r[k])
        BY <1>8
      <4> QED
        BY <3>1, <4>2, <4>3 DEF ElementBits
    <3>3. Segment(s, a, b) = [j \in 1 .. m |-> x]
      <4>1. ASSUME NEW j \in 1 .. m PROVE s[(a - 1) + j] = x
        <5>1. j \in 1 .. (b - a) /\ (a - 1) + j \in 1 .. Len(elems)
          BY <1>7, <2>3, <2>4
        <5>2. elems[(a - 1) + j] = e
          BY <1>1, <1>7, <2>2, <2>4, <5>1, GroupIsEqual DEF AllElements
        <5>3. s[(a - 1) + j] = ElementBits(wires, f, n, elems[(a - 1) + j])
          BY <1>7, <5>1
        <5> QED
          BY <2>7, <3>1, <5>2, <5>3
      <4> QED
        BY <2>4, <4>1 DEF Segment
    <3> QED
      BY <2>1, <3>2, <3>3
  <2> QED
    BY <2>8, <2>9
<1>10. FlattenSeq(t) = FlattenSeq(s)
  BY <1>6, <1>9, RegroupedSame
<1> QED
  BY <1>2, <1>7, <1>8, <1>10

\* An element of what replace_decr returns, with as many bits as its group has.
LEMMA CommitBits ==
  ASSUME NEW wires, OnlyMade(wires), NEW f, NEW n, InFile(f, n), NEW d, IsElement(d), d.k = "bit",
         NEW m \in Nat \ {0}, NEW e, e = Commit(d.sig, d.at, m)
  PROVE  IsElement(e) /\ Len(ElementBits(wires, f, n, e)) = m /\ (m = 1 => e = d)
<1>1. d = Bit(d.sig, d.at) /\ d.at \in Nat /\ ~Made(d.sig)
  BY ElementKinds
<1>2. CASE m = 1
  <2>1. e = d
    BY <1>1, <1>2 DEF Commit
  <2> QED
    BY <1>2, <2>1, TermBitsAre
<1>3. CASE m # 1
  <2>1. PICK hi \in Nat : hi = d.at + m - 1
    BY <1>1
  <2>2. e = Slice(d.sig, hi, d.at)
    BY <1>3, <2>1 DEF Commit
  <2>3. e.k = "slice" /\ e.sig = d.sig /\ e.hi = hi /\ e.lo = d.at
    BY <2>2 DEF Slice
  <2>4. IsElement(e)
    BY <1>1, <2>1, <2>2, <2>3 DEF IsElement
  <2>5. ElementBits(wires, f, n, e) = Down(d.sig, hi, hi - d.at + 1)
    BY <2>3, <2>4, TermBitsAre
  <2>6. hi - d.at + 1 = m
    BY <1>1, <2>1
  <2>7. ElementBits(wires, f, n, e) = Down(d.sig, hi, m) /\ m \in Int /\ m > 0
    BY <2>5, <2>6
  <2>8. Len(Down(d.sig, hi, m)) = IF m > 0 THEN m ELSE 0
    BY <2>7, DownBits
  <2> QED
    BY <1>3, <2>4, <2>7, <2>8
<1> QED
  BY <1>2, <1>3

\* Where the group is, what its first element is, and what stands for it.
LEMMA RunGroup ==
  ASSUME NEW elems, AllPacked(elems), NEW S, S = RunStarts(elems), NEW k \in 1 .. Cardinality(S),
         NEW a, NEW b, a = Begin(S, Len(elems), k), b = Begin(S, Len(elems), k + 1)
  PROVE  /\ Group(S, Len(elems), a, b) /\ a \in 1 .. Len(elems) /\ a \in Nat \ {0} /\ b \in Nat
         /\ a < b /\ b <= Len(elems) + 1 /\ IsPacked(elems[a])
         /\ RunOfGroup(elems, a, b, ReplaceDecr(elems)[k])
         /\ elems[a].k = "bit" => IsElement(elems[a])
<1>1. Len(elems) \in Nat /\ IsSequence(elems)
  BY SequenceLength DEF AllPacked
<1>2. /\ S \subseteq 1 .. Len(elems)
      /\ RunOfGroup(elems, a, b, ReplaceDecr(elems)[k])
  BY <1>1, RunsReplaced
<1>3. Group(S, Len(elems), a, b)
  BY <1>1, <1>2, GroupsInOrder
<1>4. a \in 1 .. Len(elems) /\ a \in Nat \ {0} /\ b \in Nat /\ a < b /\ b <= Len(elems) + 1
  BY <1>1, <1>3 DEF Group
<1>5. IsPacked(elems[a])
  BY <1>4 DEF AllPacked
<1>6. elems[a].k = "bit" => IsElement(elems[a])
  BY <1>5, PackedKinds
<1> QED
  BY <1>2, <1>3, <1>4, <1>5, <1>6

LEMMA RunsArePacked ==
  ASSUME NEW elems, AllPacked(elems)
  PROVE  AllPacked(ReplaceDecr(elems))
<1>1. PICK S : S = RunStarts(elems)
  OBVIOUS
<1>2. IsSequence(ReplaceDecr(elems)) /\ Len(ReplaceDecr(elems)) = Cardinality(S)
  BY <1>1, RunsReplaced DEF AllPacked
<1>3. ASSUME NEW k \in 1 .. Cardinality(S) PROVE IsPacked(ReplaceDecr(elems)[k])
  <2>1. PICK e : e = ReplaceDecr(elems)[k]
    OBVIOUS
  <2>2. PICK a, b : a = Begin(S, Len(elems), k) /\ b = Begin(S, Len(elems), k + 1)
    OBVIOUS
  <2>3. /\ a \in Nat /\ b \in Nat /\ a < b /\ IsPacked(elems[a])
        /\ RunOfGroup(elems, a, b, e) /\ (elems[a].k = "bit" => IsElement(elems[a]))
    BY <1>1, <2>1, <2>2, RunGroup
  <2>4. PICK d, m : d = elems[a] /\ m = b - a
    OBVIOUS
  <2>5. m \in Nat \ {0}
    BY <2>3, <2>4
  <2>6. CASE d.k # "bit"
    BY <2>1, <2>3, <2>4, <2>6 DEF RunOfGroup
  <2>7. CASE d.k = "bit"
    <3>1. e = Commit(d.sig, d.at, m) /\ d = Bit(d.sig, d.at) /\ d.at \in Nat /\ ~Made(d.sig)
      BY <2>3, <2>4, <2>7, ElementKinds DEF RunOfGroup
    <3>2. CASE m = 1
      BY <2>1, <2>3, <2>4, <3>1, <3>2 DEF Commit
    <3>3. CASE m # 1
      <4>1. PICK hi \in Nat : hi = d.at + m - 1
        BY <2>5, <3>1
      <4>2. e = Slice(d.sig, hi, d.at)
        BY <3>1, <3>3, <4>1 DEF Commit
      <4>3. e.k = "slice" /\ e.sig = d.sig /\ e.hi = hi /\ e.lo = d.at
        BY <4>2 DEF Slice
      <4>4. IsElement(e)
        BY <3>1, <4>1, <4>2, <4>3 DEF IsElement
      <4> QED
        BY <2>1, <4>4 DEF IsPacked
    <3> QED
      BY <3>2, <3>3
  <2> QED
    BY <2>6, <2>7
<1> QED
  BY <1>2, <1>3 DEF AllPacked

\* What a group of replace_decr stands for has as many bits as the group has.
LEMMA RunBits ==
  ASSUME NEW wires, OnlyMade(wires), NEW f, NEW n, InFile(f, n), NEW elems, AllPacked(elems),
         NEW s, s = BitSeq(wires, f, n, elems),
         NEW S, S = RunStarts(elems), NEW k \in 1 .. Cardinality(S),
         NEW a, NEW b, a = Begin(S, Len(elems), k), b = Begin(S, Len(elems), k + 1),
         NEW e, e = ReplaceDecr(elems)[k]
  PROVE  /\ Len(ElementBits(wires, f, n, e)) = Len(FlattenSeq(Segment(s, a, b)))
         /\ b - a = 1 => ElementBits(wires, f, n, e) = FlattenSeq(Segment(s, a, b))
<1>1. /\ Group(S, Len(elems), a, b) /\ a \in 1 .. Len(elems) /\ a \in Nat \ {0} /\ b \in Nat
      /\ a < b /\ b <= Len(elems) + 1 /\ IsPacked(elems[a])
      /\ RunOfGroup(elems, a, b, e)
      /\ elems[a].k = "bit" => IsElement(elems[a])
  BY RunGroup
<1>2. PICK d, m : d = elems[a] /\ m = b - a
  OBVIOUS
<1>3. m \in Nat \ {0}
  BY <1>1, <1>2
<1>4. /\ AreSequences(s) /\ Len(s) = Len(elems) /\ Len(elems) \in Nat /\ IsSequence(elems)
      /\ \A i \in 1 .. Len(elems) : s[i] = ElementBits(wires, f, n, elems[i])
  BY BitSeqIs DEF AllPacked
<1>5. s[a] = ElementBits(wires, f, n, d) /\ IsSequence(s[a])
  BY <1>1, <1>2, <1>4 DEF AreSequences
<1>6. m = 1 => FlattenSeq(Segment(s, a, b)) = s[a]
  <2>1. m = 1 => b = a + 1
    BY <1>1, <1>2
  <2>2. a \in Nat
    BY <1>1
  <2> QED
    BY <1>5, <2>1, <2>2, SegmentOfOne
<1>7. CASE d.k # "bit"
  <2>1. m = 1
    BY <1>1, <1>2, <1>4, <1>7, GroupIsRun
  <2>2. e = d
    BY <1>1, <1>2, <1>7 DEF RunOfGroup
  <2> QED
    BY <1>5, <1>6, <2>1, <2>2
<1>8. CASE d.k = "bit"
  <2>1. IsElement(d) /\ e = Commit(d.sig, d.at, m)
    BY <1>1, <1>2, <1>8 DEF RunOfGroup
  <2>2. Len(ElementBits(wires, f, n, e)) = m /\ (m = 1 => e = d)
    BY <1>3, <1>8, <2>1, CommitBits
  <2>3. PICK c : c = Segment(s, a, b)
    OBVIOUS
  <2>4. IsSegment(s, a, b, c)
    BY <1>1, <1>4, <2>3, SegmentIsOne
  <2>5. AreSequences(c) /\ Len(c) = m /\ \A j \in 1 .. m : c[j] = s[(a - 1) + j]
    BY <1>2, <2>4 DEF IsSegment
  <2>6. ASSUME NEW j \in 1 .. m PROVE Len(c[j]) = 1
    <3>1. PICK i \in 1 .. Len(elems) : i = (a - 1) + j
      BY <1>1, <1>2, <1>4
    <3>2. elems[i].k = "bit"
      <4>1. j \in 1 .. (b - a)
        BY <1>2
      <4>2. elems[a].k = "bit"
        BY <1>2, <1>8
      <4>3. \A x \in 1 .. (b - a) : elems[(a - 1) + x].k = "bit"
        <5>1. OfBits(elems, a, b)
          BY <1>1, <1>4, GroupIsRun
        <5> QED
          BY <4>2, <5>1 DEF OfBits
      <4> QED
        BY <3>1, <4>1, <4>3
    <3>3. IsElement(elems[i])
      <4>1. IsPacked(elems[i])
        BY DEF AllPacked
      <4> QED
        BY <3>2, <4>1, PackedKinds
    <3>4. Len(ElementBits(wires, f, n, elems[i])) = 1
      <4>1. PICK x : x = elems[i]
        OBVIOUS
      <4>2. ElementBits(wires, f, n, x) = TermBits(wires, f, n, x)
        BY <3>3, <4>1, TermBitsAre
      <4>3. Len(TermBits(wires, f, n, x)) = 1
        BY <3>2, <3>3, <4>1, TermBitsAre
      <4> QED
        BY <4>1, <4>2, <4>3
    <3>5. c[j] = ElementBits(wires, f, n, elems[i])
      BY <1>4, <2>5, <3>1
    <3> QED
      BY <3>4, <3>5
  <2>7. Len(FlattenSeq(c)) = m
    BY <2>5, <2>6, OneEach
  <2>8. Len(ElementBits(wires, f, n, e)) = Len(FlattenSeq(Segment(s, a, b)))
    BY <2>2, <2>3, <2>7
  <2>9. b - a = 1 => ElementBits(wires, f, n, e) = FlattenSeq(Segment(s, a, b))
    BY <1>2, <1>5, <1>6, <2>2
  <2> QED
    BY <2>8, <2>9
<1> QED
  BY <1>7, <1>8

\* replace_decr keeps the width, and the bits where no bits come in decreasing order.
LEMMA RunsKeepWidth ==
  ASSUME NEW wires, OnlyMade(wires), NEW f, NEW n, InFile(f, n), NEW elems, AllPacked(elems)
  PROVE  /\ Len(BitsOf(wires, f, n, ReplaceDecr(elems))) = Len(BitsOf(wires, f, n, elems))
         /\ ~HasDecreasingRun(elems) =>
              BitsOf(wires, f, n, ReplaceDecr(elems)) = BitsOf(wires, f, n, elems)
<1>1. PICK S : S = RunStarts(elems)
  OBVIOUS
<1>2. PICK r : r = ReplaceDecr(elems)
  OBVIOUS
<1>3. /\ Len(r) = Cardinality(S) /\ S \subseteq 1 .. Len(elems) /\ (Len(elems) # 0 => 1 \in S)
  BY <1>1, <1>2, RunsReplaced DEF AllPacked
<1>4. AllPacked(r)
  BY <1>2, RunsArePacked
<1>5. PICK s, t : s = BitSeq(wires, f, n, elems) /\ t = BitSeq(wires, f, n, r)
  OBVIOUS
<1>6. AreSequences(s) /\ Regroups(s, S, t)
  BY <1>3, <1>4, <1>5, CutIsRegrouped
<1>7. /\ Len(s) = Len(elems) /\ Len(elems) \in Nat
      /\ BitsOf(wires, f, n, elems) = FlattenSeq(s)
  BY <1>5, BitSeqIs
<1>8. /\ Len(t) = Len(r)
      /\ \A i \in 1 .. Len(r) : t[i] = ElementBits(wires, f, n, r[i])
      /\ BitsOf(wires, f, n, r) = FlattenSeq(t)
  BY <1>4, <1>5, BitSeqIs
<1>9. ASSUME NEW k \in 1 .. Len(t)
      PROVE  /\ Len(t[k]) = Len(FlattenSeq(Segment(s, Begin(S, Len(s), k), Begin(S, Len(s), k + 1))))
             /\ Begin(S, Len(s), k + 1) - Begin(S, Len(s), k) = 1 =>
                  t[k] = FlattenSeq(Segment(s, Begin(S, Len(s), k), Begin(S, Len(s), k + 1)))
  <2>1. PICK a, b : a = Begin(S, Len(elems), k) /\ b = Begin(S, Len(elems), k + 1)
    OBVIOUS
  <2>2. t[k] = ElementBits(wires, f, n, r[k]) /\ k \in 1 .. Cardinality(S)
    BY <1>3, <1>8
  <2>3. /\ Len(t[k]) = Len(FlattenSeq(Segment(s, a, b)))
        /\ b - a = 1 => t[k] = FlattenSeq(Segment(s, a, b))
    BY <1>1, <1>2, <1>5, <2>1, <2>2, RunBits
  <2> QED
    BY <1>7, <2>1, <2>3
<1>10. Len(FlattenSeq(t)) = Len(FlattenSeq(s))
  BY <1>6, <1>9, RegroupedLength
<1>11. ASSUME ~HasDecreasingRun(elems) PROVE FlattenSeq(t) = FlattenSeq(s)
  <2>1. ASSUME NEW k \in 1 .. Len(t)
        PROVE  Begin(S, Len(s), k + 1) - Begin(S, Len(s), k) = 1
    <3>1. PICK a, b : a = Begin(S, Len(elems), k) /\ b = Begin(S, Len(elems), k + 1)
      OBVIOUS
    <3>2. Group(S, Len(elems), a, b)
      BY <1>3, <1>7, <1>8, <3>1, GroupsInOrder
    <3>3. a \in 1 .. Len(elems) /\ b \in Nat /\ a < b /\ b <= Len(elems) + 1
      BY <1>7, <3>2 DEF Group
    <3>4. CASE a + 1 \in (a + 1) .. (b - 1)
      <4>1. a + 1 \notin S /\ a + 1 \in 2 .. Len(elems) /\ a + 1 \in 1 .. Len(elems)
        BY <1>7, <3>2, <3>3, <3>4 DEF Group
      <4>2. PICK i : i = a + 1
        OBVIOUS
      <4>3. Continues(elems[i - 1], elems[i]) /\ i \in 2 .. Len(elems)
        BY <1>1, <4>1, <4>2 DEF RunStarts
      <4> QED
        BY <1>11, <4>3 DEF HasDecreasingRun
    <3>5. CASE a + 1 \notin (a + 1) .. (b - 1)
      BY <1>7, <3>1, <3>3, <3>5
    <3> QED
      BY <3>4, <3>5
  <2> QED
    BY <1>6, <1>9, <2>1, RegroupedSame
<1> QED
  BY <1>2, <1>7, <1>8, <1>10, <1>11

\* Where no bits come in decreasing order, none do after the repetitions are replaced.
LEMMA RepsMakeNoRun ==
  ASSUME NEW elems, AllElements(elems), ~HasDecreasingRun(elems)
  PROVE  ~HasDecreasingRun(ReplaceReps(elems))
<1> SUFFICES ASSUME HasDecreasingRun(ReplaceReps(elems)) PROVE FALSE
  OBVIOUS
<1>1. PICK S : S = RepStarts(elems)
  OBVIOUS
<1>2. PICK r : r = ReplaceReps(elems)
  OBVIOUS
<1>3. /\ Len(r) = Cardinality(S) /\ S \subseteq 1 .. Len(elems)
      /\ \A k \in 1 .. Cardinality(S) :
           RepOfGroup(elems, Begin(S, Len(elems), k), Begin(S, Len(elems), k + 1), r[k])
  BY <1>1, <1>2, RepsReplaced DEF AllElements
<1>4. Len(elems) \in Nat /\ Cardinality(S) \in Nat
  BY <1>3, SequenceLength, FiniteRanks DEF AllElements
<1>5. PICK i \in 2 .. Len(r) : Continues(r[i - 1], r[i])
  BY <1>2 DEF HasDecreasingRun
<1>6. PICK k : k = i - 1 /\ k \in 1 .. Cardinality(S) /\ i = k + 1 /\ i \in 1 .. Cardinality(S)
  BY <1>3, <1>4
<1>7. r[k].k = "bit" /\ r[i].k = "bit" /\ Continues(r[k], r[i])
  BY <1>5, <1>6 DEF Continues
<1>8. ASSUME NEW j \in 1 .. Cardinality(S), r[j].k = "bit",
             NEW a, NEW b, a = Begin(S, Len(elems), j), b = Begin(S, Len(elems), j + 1)
      PROVE  a \in 1 .. Len(elems) /\ b = a + 1 /\ r[j] = elems[a]
  <2>1. Group(S, Len(elems), a, b)
    BY <1>3, <1>4, <1>8, GroupsInOrder
  <2>2. a \in 1 .. Len(elems) /\ a \in Nat /\ b \in Nat
    BY <1>4, <2>1 DEF Group
  <2>3. RepOfGroup(elems, a, b, r[j])
    BY <1>3, <1>8
  <2>4. PICK m : m = b - a
    OBVIOUS
  <2>5. m = 1 /\ r[j] = elems[a]
    <3>1. r[j] = IF m = 1 THEN elems[a] ELSE Rep(m, elems[a])
      BY <2>3, <2>4 DEF RepOfGroup
    <3>2. r[j] # Rep(m, elems[a])
      BY <1>8, RepFields
    <3> QED
      BY <3>1, <3>2
  <2> QED
    BY <2>2, <2>4, <2>5
<1>9. PICK a, b, c : /\ a = Begin(S, Len(elems), k) /\ b = Begin(S, Len(elems), i)
                     /\ c = Begin(S, Len(elems), i + 1)
  OBVIOUS
<1>10. a \in 1 .. Len(elems) /\ b = a + 1 /\ r[k] = elems[a]
  BY <1>6, <1>7, <1>8, <1>9
<1>11. b \in 1 .. Len(elems) /\ r[i] = elems[b]
  BY <1>6, <1>7, <1>8, <1>9
<1>12. b \in 2 .. Len(elems) /\ b - 1 = a
  BY <1>4, <1>10, <1>11
<1>13. Continues(elems[b - 1], elems[b])
  BY <1>7, <1>10, <1>11, <1>12
<1> QED
  BY <1>12, <1>13 DEF HasDecreasingRun

\* A bracket that is compressed keeps its width, and its value if it is safe.
LEMMA CompressionKeeps ==
  ASSUME NEW wires, OnlyMade(wires), NEW f, NEW n, InFile(f, n), NEW o, AllElements(o.elems)
  PROVE  /\ AllPacked(CompressBracket(o).elems)
         /\ Len(BitsOf(wires, f, n, CompressBracket(o).elems)) = Len(BitsOf(wires, f, n, o.elems))
         /\ ~HasDecreasingRun(o.elems) =>
              BitsOf(wires, f, n, CompressBracket(o).elems) = BitsOf(wires, f, n, o.elems)
<1>1. CASE o.braces
  <2>1. PICK elems : elems = o.elems
    OBVIOUS
  <2>2. PICK r : r = ReplaceReps(elems)
    OBVIOUS
  <2>3. CompressBracket(o).elems = ReplaceDecr(r)
    BY <1>1, <2>1, <2>2 DEF CompressBracket, Braced
  <2>4. AllElements(elems) /\ AllPacked(r)
    BY <2>1, <2>2, RepsArePacked
  <2>5. BitsOf(wires, f, n, r) = BitsOf(wires, f, n, elems)
    BY <2>2, <2>4, RepsKeepBits
  <2>6. ~HasDecreasingRun(elems) => ~HasDecreasingRun(r)
    BY <2>2, <2>4, RepsMakeNoRun
  <2>7. AllPacked(ReplaceDecr(r))
    BY <2>4, RunsArePacked
  <2>8. /\ Len(BitsOf(wires, f, n, ReplaceDecr(r))) = Len(BitsOf(wires, f, n, r))
        /\ ~HasDecreasingRun(r) => BitsOf(wires, f, n, ReplaceDecr(r)) = BitsOf(wires, f, n, r)
    BY <2>4, RunsKeepWidth
  <2> QED
    BY <2>1, <2>3, <2>5, <2>6, <2>7, <2>8
<1>2. CASE ~o.braces
  <2>1. CompressBracket(o) = o
    BY <1>2 DEF CompressBracket
  <2> QED
    BY <2>1 DEF AllPacked, AllElements, IsPacked
<1> QED
  BY <1>1, <1>2

-----------------------------------------------------------------------------
(* The declaration of a name line by line. *)
InScope(f, n, s) ==
  {i \in 1 .. n : f[i].k = "decl" /\ f[i].sig = s /\ \A j \in i .. n : f[j].k # "module"}
DeclAfter(f, n, s) ==
  IF InScope(f, n, s) = {} THEN Undeclared(s)
  ELSE f[CHOOSE i \in InScope(f, n, s) : \A j \in InScope(f, n, s) : j <= i]

LEMMA DeclAtIsAfter ==
  ASSUME NEW f, NEW n \in Nat \ {0}, f[n].k # "module", NEW s
  PROVE  DeclAt(f, n, s) = DeclAfter(f, n - 1, s)
<1>1. PICK decls : decls = {i \in 1 .. (n - 1) : /\ f[i].k = "decl" /\ f[i].sig = s
                                                 /\ \A j \in i .. n : f[j].k # "module"}
  OBVIOUS
<1>2. decls = InScope(f, n - 1, s)
  <2>1. ASSUME NEW i \in 1 .. (n - 1)
        PROVE  (\A j \in i .. n : f[j].k # "module") <=> (\A j \in i .. (n - 1) : f[j].k # "module")
    <3>1. \A j : j \in i .. n <=> j \in i .. (n - 1) \/ j = n
      OBVIOUS
    <3> QED
      BY <3>1
  <2> QED
    BY <1>1, <2>1 DEF InScope
<1>3. DeclAt(f, n, s) =
        IF decls = {} THEN Undeclared(s) ELSE f[CHOOSE i \in decls : \A j \in decls : j <= i]
  BY <1>1 DEF DeclAt
<1>4. DeclAfter(f, n - 1, s) =
        IF decls = {} THEN Undeclared(s) ELSE f[CHOOSE i \in decls : \A j \in decls : j <= i]
  BY <1>2 DEF DeclAfter
<1> QED
  BY <1>3, <1>4

LEMMA DeclAfterNothing == ASSUME NEW f, NEW s PROVE DeclAfter(f, 0, s) = Undeclared(s)
<1>1. InScope(f, 0, s) = {}
  <2>1. \A i : i \notin 1 .. 0
    OBVIOUS
  <2> QED
    BY <2>1 DEF InScope
<1> QED
  BY <1>1 DEF DeclAfter

\* What line l makes of the declaration that s has before it.
Scoped(l, s, decl) ==
  IF l.k = "module" THEN Undeclared(s) ELSE IF l.k = "decl" /\ l.sig = s THEN l ELSE decl

LEMMA DeclAfterLine ==
  ASSUME NEW f, NEW n \in Nat \ {0}, NEW s
  PROVE  DeclAfter(f, n, s) = Scoped(f[n], s, DeclAfter(f, n - 1, s))
<1>1. PICK l : l = f[n]
  OBVIOUS
<1>2. \A i : i \in 1 .. n <=> i \in 1 .. (n - 1) \/ i = n
  OBVIOUS
<1>3. CASE l.k = "module"
  <2>1. \A i \in 1 .. n : n \in i .. n
    OBVIOUS
  <2>2. InScope(f, n, s) = {}
    BY <1>1, <1>3, <2>1 DEF InScope
  <2> QED
    BY <1>1, <1>3, <2>2 DEF DeclAfter, Scoped
<1>4. CASE l.k = "decl" /\ l.sig = s
  <2>1. n \in InScope(f, n, s)
    <3>1. \A j \in n .. n : j = n
      OBVIOUS
    <3>2. n \in 1 .. n
      OBVIOUS
    <3> QED
      BY <1>1, <1>4, <3>1, <3>2 DEF InScope
  <2>2. \A j \in InScope(f, n, s) : j <= n
    BY DEF InScope
  <2>3. PICK i : i = CHOOSE x \in InScope(f, n, s) : \A j \in InScope(f, n, s) : j <= x
    OBVIOUS
  <2>4. i \in InScope(f, n, s) /\ \A j \in InScope(f, n, s) : j <= i
    BY <2>1, <2>2, <2>3
  <2>5. i = n
    <3>1. n <= i /\ i <= n
      BY <2>1, <2>2, <2>4
    <3>2. i \in 1 .. n
      BY <2>4 DEF InScope
    <3> QED
      BY <3>1, <3>2
  <2>6. DeclAfter(f, n, s) = f[i]
    BY <2>1, <2>3 DEF DeclAfter
  <2> QED
    BY <1>1, <1>4, <2>5, <2>6 DEF Scoped
<1>5. CASE l.k # "module" /\ ~(l.k = "decl" /\ l.sig = s)
  <2>1. ASSUME NEW i \in 1 .. (n - 1)
        PROVE  (\A j \in i .. n : f[j].k # "module") <=> (\A j \in i .. (n - 1) : f[j].k # "module")
    <3>1. \A j : j \in i .. n <=> j \in i .. (n - 1) \/ j = n
      OBVIOUS
    <3> QED
      BY <1>1, <1>5, <3>1
  <2>2. InScope(f, n, s) = InScope(f, n - 1, s)
    BY <1>1, <1>2, <1>5, <2>1 DEF InScope
  <2> QED
    BY <1>1, <1>5, <2>2 DEF DeclAfter, Scoped
<1> QED
  BY <1>3, <1>4, <1>5

\* What follows does not matter.
LEMMA DeclOfPrefix ==
  ASSUME NEW f, NEW g, NEW n \in Nat, \A i \in 1 .. n : f[i] = g[i], NEW s
  PROVE  /\ DeclAfter(f, n, s) = DeclAfter(g, n, s)
         /\ n # 0 => DeclAt(f, n, s) = DeclAt(g, n, s)
<1>1. \A i \in 1 .. n : \A j \in i .. n : j \in 1 .. n
  OBVIOUS
<1>2. InScope(f, n, s) = InScope(g, n, s)
  BY <1>1 DEF InScope
<1>3. DeclAfter(f, n, s) = DeclAfter(g, n, s)
  <2>1. PICK D : D = InScope(f, n, s)
    OBVIOUS
  <2>2. CASE D = {}
    BY <1>2, <2>1, <2>2 DEF DeclAfter
  <2>3. CASE D # {}
    <3>1. PICK i : i = CHOOSE x \in D : \A j \in D : j <= x
      OBVIOUS
    <3>2. DeclAfter(f, n, s) = f[i] /\ DeclAfter(g, n, s) = g[i]
      BY <1>2, <2>1, <2>3, <3>1 DEF DeclAfter
    <3>3. D \subseteq 1 .. n
      BY <2>1 DEF InScope
    <3>4. \E x \in D : \A j \in D : j <= x
      BY <2>3, <3>3, LastOfSome
    <3>5. i \in 1 .. n
      BY <3>1, <3>3, <3>4
    <3> QED
      BY <3>2, <3>5
  <2> QED
    BY <2>2, <2>3
<1>4. ASSUME n # 0 PROVE DeclAt(f, n, s) = DeclAt(g, n, s)
  <2>1. PICK D : D = {i \in 1 .. (n - 1) : /\ f[i].k = "decl" /\ f[i].sig = s
                                           /\ \A j \in i .. n : f[j].k # "module"}
    OBVIOUS
  <2>2. \A i \in 1 .. (n - 1) : i \in 1 .. n
    OBVIOUS
  <2>3. D = {i \in 1 .. (n - 1) : /\ g[i].k = "decl" /\ g[i].sig = s
                                  /\ \A j \in i .. n : g[j].k # "module"}
    BY <1>1, <2>1, <2>2
  <2>4. CASE D = {}
    BY <2>1, <2>3, <2>4 DEF DeclAt
  <2>5. CASE D # {}
    <3>1. PICK i : i = CHOOSE x \in D : \A j \in D : j <= x
      OBVIOUS
    <3>2. DeclAt(f, n, s) = f[i] /\ DeclAt(g, n, s) = g[i]
      BY <2>1, <2>3, <2>5, <3>1 DEF DeclAt
    <3>3. D \subseteq 1 .. n
      BY <2>1, <2>2
    <3>4. \E x \in D : \A j \in D : j <= x
      BY <2>5, <3>3, LastOfSome
    <3>5. i \in 1 .. n
      BY <3>1, <3>3, <3>4
    <3> QED
      BY <3>2, <3>5
  <2> QED
    BY <2>4, <2>5
<1> QED
  BY <1>3, <1>4

-----------------------------------------------------------------------------
\* Where the nets of a file have the same declarations, elements that name no made-up wire
\* have the same bits.
Native(g, m, f, n) == \A s : ~Made(s) => DeclAt(g, m, s) = DeclAt(f, n, s)

LEMMA TermBitsAgree ==
  ASSUME NEW a, OnlyMade(a), NEW b, OnlyMade(b), NEW f, NEW n, NEW g, NEW m,
         Native(g, m, f, n), NEW e, IsElement(e)
  PROVE  TermBits(a, g, m, e) = TermBits(b, f, n, e)
<1>1. e.k \in {"num", "sig", "bit", "slice"} /\ (e.k # "num" => ~Made(e.sig))
  BY ElementKinds
<1>2. CASE e.k = "num"
  BY <1>2 DEF TermBits
<1>3. CASE e.k = "bit"
  BY <1>3 DEF TermBits
<1>4. CASE e.k = "slice"
  BY <1>4 DEF TermBits
<1>5. CASE e.k = "sig"
  <2>1. e.sig \notin DOMAIN a /\ e.sig \notin DOMAIN b
    BY <1>1, <1>5 DEF OnlyMade
  <2>2. WidthAt(g, m, e.sig) = WidthAt(f, n, e.sig)
    BY <1>1, <1>5 DEF Native, WidthAt
  <2> QED
    BY <1>5, <2>1, <2>2 DEF TermBits
<1> QED
  BY <1>1, <1>2, <1>3, <1>4, <1>5

LEMMA BitsAgree ==
  ASSUME NEW a, OnlyMade(a), NEW b, OnlyMade(b), NEW f, NEW n, NEW g, NEW m,
         Native(g, m, f, n), NEW elems, AllPacked(elems)
  PROVE  /\ \A i \in 1 .. Len(elems) :
              ElementBits(a, g, m, elems[i]) = ElementBits(b, f, n, elems[i])
         /\ BitsOf(a, g, m, elems) = BitsOf(b, f, n, elems)
<1>1. ASSUME NEW i \in 1 .. Len(elems)
      PROVE  ElementBits(a, g, m, elems[i]) = ElementBits(b, f, n, elems[i])
  <2>1. PICK e : e = elems[i] /\ IsPacked(e)
    BY DEF AllPacked
  <2>2. CASE IsElement(e)
    <3>1. e.k # "rep"
      BY <2>2, RepIsNone
    <3> QED
      BY <2>1, <2>2, <3>1, TermBitsAgree DEF ElementBits
  <2>3. CASE e.k = "rep" /\ IsElement(e.of)
    <3>1. TermBits(a, g, m, e.of) = TermBits(b, f, n, e.of)
      BY <2>3, TermBitsAgree
    <3> QED
      BY <2>1, <2>3, <3>1 DEF ElementBits
  <2> QED
    BY <2>1, <2>2, <2>3, PackedKinds
<1>2. DOMAIN elems = 1 .. Len(elems)
  BY SequenceDomain DEF AllPacked
<1>3. BitsOf(a, g, m, elems) = BitsOf(b, f, n, elems)
  <2>1. [i \in DOMAIN elems |-> ElementBits(a, g, m, elems[i])] =
          [i \in DOMAIN elems |-> ElementBits(b, f, n, elems[i])]
    BY <1>1, <1>2
  <2> QED
    BY <2>1 DEF BitsOf
<1> QED
  BY <1>1, <1>3

-----------------------------------------------------------------------------
(* The width that is declared for a concatenation is its width. *)
SumAt(g, w, i) == IF i = 0 THEN 0 ELSE g[i - 1] + w[i]
IsSum(g, w, n) == g = [i \in 0 .. n |-> SumAt(g, w, i)]

LEMMA SumExists ==
  ASSUME NEW w, NEW n \in Nat
  PROVE  \E g : IsSum(g, w, n)
<1>1. PICK T : T = {m \in 0 .. n : \E g : IsSum(g, w, m)}
  OBVIOUS
<1>2. 0 \in T
  <2>1. PICK g : g = [i \in 0 .. 0 |-> 0]
    OBVIOUS
  <2>2. g = [i \in 0 .. 0 |-> SumAt(g, w, i)]
    BY <2>1 DEF SumAt
  <2>3. 0 \in 0 .. n
    OBVIOUS
  <2> QED
    BY <1>1, <2>2, <2>3 DEF IsSum
<1>3. ASSUME NEW m \in 1 .. n, m - 1 \in T PROVE m \in T
  <2>1. PICK g : IsSum(g, w, m - 1)
    BY <1>1, <1>3
  <2>2. PICK h : h = [i \in 0 .. m |-> IF i = m THEN SumAt(g, w, m) ELSE g[i]]
    OBVIOUS
  <2>3. ASSUME NEW i \in 0 .. m PROVE h[i] = SumAt(h, w, i)
    <3>1. CASE i = m
      <4>1. m - 1 \in 0 .. m /\ m - 1 # m
        OBVIOUS
      <4>2. h[m - 1] = g[m - 1] /\ h[m] = SumAt(g, w, m)
        BY <2>2, <4>1
      <4> QED
        BY <3>1, <4>2 DEF SumAt
    <3>2. CASE i # m
      <4>1. i \in 0 .. (m - 1)
        BY <3>2
      <4>2. h[i] = g[i] /\ g[i] = SumAt(g, w, i)
        BY <2>1, <2>2, <3>2, <4>1 DEF IsSum
      <4>3. i # 0 => h[i - 1] = g[i - 1]
        <5>1. i # 0 => i - 1 \in 0 .. m /\ i - 1 # m
          BY <4>1
        <5> QED
          BY <2>2, <5>1
      <4> QED
        BY <4>2, <4>3 DEF SumAt
    <3> QED
      BY <3>1, <3>2
  <2>4. h = [i \in 0 .. m |-> SumAt(h, w, i)]
    BY <2>2, <2>3
  <2>5. m \in 0 .. n
    OBVIOUS
  <2> QED
    BY <1>1, <2>4, <2>5 DEF IsSum
<1>4. 0 .. n \subseteq T
  BY <1>2, <1>3, InductionTo
<1>5. n \in T
  BY <1>4
<1> QED
  BY <1>1, <1>5

\* BracketWidth as such a sum.
LEMMA BracketWidthIsSum ==
  ASSUME NEW f, NEW n, NEW elems, Len(elems) \in Nat
  PROVE  \E g, w : /\ w = [i \in 1 .. Len(elems) |-> ElementWidth(f, n, elems[i])]
                   /\ IsSum(g, w, Len(elems)) /\ BracketWidth(f, n, elems) = g[Len(elems)]
<1>1. PICK w : w = [i \in 1 .. Len(elems) |-> ElementWidth(f, n, elems[i])]
  OBVIOUS
<1>2. PICK m \in Nat : m = Len(elems)
  OBVIOUS
<1>3. PICK g : g = CHOOSE h : IsSum(h, w, m)
  OBVIOUS
<1>4. IsSum(g, w, m)
  BY <1>3, SumExists
<1>5. ASSUME NEW h
      PROVE  [i \in 0 .. m |-> IF i = 0 THEN 0 ELSE h[i - 1] + ElementWidth(f, n, elems[i])] =
               [i \in 0 .. m |-> SumAt(h, w, i)]
  <2>1. ASSUME NEW i \in 0 .. m, i # 0 PROVE w[i] = ElementWidth(f, n, elems[i])
    <3>1. i \in 1 .. Len(elems)
      BY <1>2, <2>1
    <3> QED
      BY <1>1, <3>1
  <2> QED
    BY <2>1 DEF SumAt
<1>6. BracketWidth(f, n, elems) = g[m]
  BY <1>2, <1>3, <1>5, ZenonT(30) DEF BracketWidth, IsSum
<1> QED
  BY <1>1, <1>2, <1>4, <1>6

\* If the declaration in scope has the form that is looked for, it is the last one of
\* that form above the line, in whichever module.
LEMMA DeclaredHolds ==
  ASSUME NEW f, NEW n, InFile(f, n), NEW s, ~Made(s)
  PROVE  /\ DeclaredWidth(f, n, s) \in Nat
         /\ DeclAt(f, n, s).matches => DeclaredWidth(f, n, s) = WidthAt(f, n, s)
<1>1. PICK all : all = {i \in 1 .. (n - 1) : f[i].k = "decl" /\ f[i].sig = s /\ f[i].matches}
  OBVIOUS
<1>2. PICK scope : scope = {i \in 1 .. (n - 1) : /\ f[i].k = "decl" /\ f[i].sig = s
                                                 /\ \A j \in i .. n : f[j].k # "module"}
  OBVIOUS
<1>3. n \in Nat /\ n >= 1 /\ (\A i \in 1 .. (n - 1) : i \in 1 .. Len(f)) /\ Widths(f)
  BY DEF InFile
<1>4. scope \subseteq 1 .. (n - 1) /\ all \subseteq 1 .. (n - 1) /\ n - 1 \in Nat
  BY <1>1, <1>2, <1>3
<1>5. PICK last : last = CHOOSE i \in all : \A j \in all : j <= i
  OBVIOUS
<1>6. all # {} => /\ last \in all /\ (\A j \in all : j <= last)
                  /\ DeclaredWidth(f, n, s) = f[last].width
  <2>1. ASSUME all # {} PROVE \E i \in all : \A j \in all : j <= i
    BY <1>4, <2>1, LastOfSome
  <2> QED
    BY <1>1, <1>5, <2>1 DEF DeclaredWidth
<1>7. DeclaredWidth(f, n, s) \in Nat
  <2>1. CASE all = {}
    BY <1>1, <2>1 DEF DeclaredWidth
  <2>2. CASE all # {}
    BY <1>1, <1>3, <1>6, <2>2 DEF Widths
  <2> QED
    BY <2>1, <2>2
<1>8. ASSUME DeclAt(f, n, s).matches PROVE DeclaredWidth(f, n, s) = WidthAt(f, n, s)
  <2>1. PICK x : x = CHOOSE y \in scope : \A j \in scope : j <= y
    OBVIOUS
  <2>2. scope # {} /\ DeclAt(f, n, s) = f[x]
    <3>1. DeclAt(f, n, s) = IF scope = {} THEN Undeclared(s) ELSE f[x]
      BY <1>2, <2>1 DEF DeclAt
    <3>2. scope # {}
      BY <1>8, <3>1, UndeclaredIs
    <3> QED
      BY <3>1, <3>2
  <2>3. x \in scope /\ \A j \in scope : j <= x
    <3>1. \E y \in scope : \A j \in scope : j <= y
      BY <1>4, <2>2, LastOfSome
    <3> QED
      BY <2>1, <3>1
  <2>4. x \in all
    BY <1>1, <1>2, <1>8, <2>2, <2>3
  <2>5. last \in all /\ x <= last
    BY <1>6, <2>4
  <2>6. last \in scope
    <3>1. last \in 1 .. (n - 1) /\ x \in 1 .. (n - 1) /\ f[last].k = "decl" /\ f[last].sig = s
      BY <1>1, <2>4, <2>5
    <3>2. \A j \in last .. n : j \in x .. n
      BY <1>3, <2>5, <3>1
    <3> QED
      BY <1>2, <2>3, <3>1, <3>2
  <2>7. x = last
    BY <1>4, <2>3, <2>5, <2>6
  <2> QED
    BY <1>6, <2>2, <2>4, <2>7 DEF WidthAt
<1> QED
  BY <1>7, <1>8

LEMMA NoWiresIsEmpty == DOMAIN NoWires = {} /\ OnlyMade(NoWires)
<1>1. \A i : i \notin 1 .. 0
  OBVIOUS
<1>2. DOMAIN NoWires = {}
  BY <1>1 DEF NoWires
<1> QED
  BY <1>2 DEF OnlyMade

LEMMA ElementHolds ==
  ASSUME NEW f, NEW n, InFile(f, n), NEW e, IsElement(e), Measurable(e)
  PROVE  /\ ElementWidth(f, n, e) \in Nat
         /\ Len(ElementBits(NoWires, f, n, e)) \in Nat
         /\ (e.k = "sig" => DeclAt(f, n, e.sig).matches) =>
              Len(ElementBits(NoWires, f, n, e)) = ElementWidth(f, n, e)
<1>1. PICK bits : bits = ElementBits(NoWires, f, n, e)
  OBVIOUS
<1>2. bits = TermBits(NoWires, f, n, e) /\ IsSequence(bits) /\ Len(bits) \in Nat
  BY <1>1, NoWiresIsEmpty, TermBitsAre, SequenceLength
<1>3. e.k \in {"num", "sig", "bit", "slice"} /\ (e.k # "num" => ~Made(e.sig))
  BY ElementKinds
<1>4. CASE e.k = "num"
  <2>1. Len(bits) = e.width /\ e.width \in Nat
    BY <1>2, <1>4, NoWiresIsEmpty, TermBitsAre, ElementKinds
  <2>2. ElementWidth(f, n, e) = e.width
    BY <1>4 DEF ElementWidth
  <2> QED
    BY <1>1, <2>1, <2>2
<1>5. CASE e.k = "bit"
  <2>1. Len(bits) = 1
    BY <1>2, <1>5, NoWiresIsEmpty, TermBitsAre
  <2>2. ElementWidth(f, n, e) = 1
    BY <1>5 DEF ElementWidth
  <2> QED
    BY <1>1, <2>1, <2>2
<1>6. CASE e.k = "slice"
  <2>1. e.hi \in Nat /\ e.lo \in Nat /\ e.hi >= e.lo
    BY <1>6, ElementKinds DEF Measurable
  <2>2. PICK w \in Nat : w = e.hi - e.lo + 1
    BY <2>1
  <2>3. bits = Down(e.sig, e.hi, w)
    BY <1>2, <1>6, <2>2, NoWiresIsEmpty, TermBitsAre
  <2>4. Len(bits) = IF w > 0 THEN w ELSE 0
    BY <2>3, DownBits
  <2>5. ElementWidth(f, n, e) = w
    BY <1>6, <2>2 DEF ElementWidth
  <2> QED
    BY <1>1, <2>4, <2>5
<1>7. CASE e.k = "sig"
  <2>1. Len(bits) = WidthAt(f, n, e.sig)
    BY <1>2, <1>7, NoWiresIsEmpty, TermBitsAre
  <2>2. ElementWidth(f, n, e) = DeclaredWidth(f, n, e.sig)
    BY <1>7 DEF ElementWidth
  <2>3. /\ DeclaredWidth(f, n, e.sig) \in Nat
        /\ DeclAt(f, n, e.sig).matches => DeclaredWidth(f, n, e.sig) = WidthAt(f, n, e.sig)
    BY <1>3, <1>7, DeclaredHolds
  <2> QED
    BY <1>1, <1>2, <1>7, <2>1, <2>2, <2>3
<1> QED
  BY <1>3, <1>4, <1>5, <1>6, <1>7

\* The signals that stand whole are declared in the form that is looked for.
Matching(f, n, elems) ==
  \A i \in 1 .. Len(elems) : elems[i].k = "sig" => DeclAt(f, n, elems[i].sig).matches

\* The wire that an expand pass declares is as wide as what it stands for.
LEMMA BracketWidthHolds ==
  ASSUME NEW f, NEW n, InFile(f, n), NEW elems, AllPacked(elems),
         \A i \in 1 .. Len(elems) : Measurable(elems[i])
  PROVE  /\ BracketWidth(f, n, elems) \in Nat
         /\ Matching(f, n, elems) =>
              Len(BitsOf(NoWires, f, n, elems)) = BracketWidth(f, n, elems)
<1>1. PICK m \in Nat : m = Len(elems)
  BY SequenceLength DEF AllPacked
<1>2. PICK g, w : /\ w = [i \in 1 .. m |-> ElementWidth(f, n, elems[i])]
                  /\ IsSum(g, w, m) /\ BracketWidth(f, n, elems) = g[m]
  BY <1>1, BracketWidthIsSum
<1>3. PICK s : s = BitSeq(NoWires, f, n, elems)
  OBVIOUS
<1>4. /\ AreSequences(s) /\ Len(s) = m
      /\ \A i \in 1 .. m : s[i] = ElementBits(NoWires, f, n, elems[i])
      /\ BitsOf(NoWires, f, n, elems) = FlattenSeq(s)
  BY <1>1, <1>3, BitSeqIs, NoWiresIsEmpty
<1>5. PICK h : PrefixesOf(h, s) /\ FlattenSeq(s) = h[Len(s)]
  BY <1>4, FlattenPrefixes
<1>6. PICK T : T = {i \in 0 .. m : g[i] \in Nat /\ (Matching(f, n, elems) => Len(h[i]) = g[i])}
  OBVIOUS
<1>7. 0 \in T
  <2>1. 0 \in 0 .. m
    BY <1>1
  <2>2. Len(h[0]) = 0
    BY <1>5, NoElements DEF PrefixesOf
  <2>3. g[0] = 0
    BY <1>2, <2>1 DEF IsSum, SumAt
  <2> QED
    BY <1>6, <2>1, <2>2, <2>3
<1>8. ASSUME NEW i \in 1 .. m, i - 1 \in T PROVE i \in T
  <2>1. i \in 0 .. m /\ i - 1 \in 0 .. m /\ i # 0
    BY <1>1
  <2>2. PICK e : /\ e = elems[i] /\ Measurable(e) /\ IsPacked(e)
                 /\ Matching(f, n, elems) => (e.k = "sig" => DeclAt(f, n, e.sig).matches)
    BY <1>1 DEF AllPacked, Matching
  <2>3. IsElement(e)
    BY <2>2, PackedKinds DEF Measurable
  <2>4. PICK width, bits : width = ElementWidth(f, n, e) /\ bits = ElementBits(NoWires, f, n, e)
    OBVIOUS
  <2>5. width \in Nat /\ Len(bits) \in Nat /\ (Matching(f, n, elems) => Len(bits) = width)
    BY <2>2, <2>3, <2>4, ElementHolds
  <2>6. g[i] = SumAt(g, w, i)
    BY <1>2, <2>1 DEF IsSum
  <2>7. g[i] = g[i - 1] + width
    BY <1>2, <2>1, <2>2, <2>4, <2>6 DEF SumAt
  <2>8. Grows(h[i], h[i - 1], bits)
    BY <1>4, <1>5, <2>2, <2>4 DEF PrefixesOf, Grows
  <2>9. IsSequence(h[i - 1]) /\ IsSequence(bits)
    BY <1>4, <1>5, <2>1, <2>2, <2>4, PrefixesAreSequences DEF AreSequences
  <2>10. Lengths(h[i], h[i - 1], bits)
    BY <2>8, <2>9, GrowsByLength
  <2>11. Len(h[i]) = Len(h[i - 1]) + Len(bits) /\ Len(h[i - 1]) \in Nat
    BY <2>9, <2>10, SequenceLength DEF Lengths
  <2>12. g[i - 1] \in Nat /\ (Matching(f, n, elems) => Len(h[i - 1]) = g[i - 1])
    BY <1>6, <1>8
  <2>13. g[i] \in Nat /\ (Matching(f, n, elems) => Len(h[i]) = g[i])
    BY <2>5, <2>7, <2>11, <2>12
  <2> QED
    BY <1>6, <2>1, <2>13
<1>9. 0 .. m \subseteq T
  BY <1>7, <1>8, InductionTo
<1>10. m \in T
  BY <1>9
<1> QED
  BY <1>2, <1>4, <1>5, <1>6, <1>10

-----------------------------------------------------------------------------
(* What a pass keeps of the values of a line: where line i of f was, line m of g has the
   operand or a wire of the pass that holds it. *)
Alien(s, p) == ~(Made(s) /\ s[1] = p)
SameScope(g, m, f, i, p) == \A s : Alien(s, p) => DeclAt(g, m, s) = DeclAt(f, i, s)

\* An operand that pass p leaves where it is.
PassedOperand(p, o) == IF p = "compress" THEN CompressBracket(o) ELSE o

\* Every element has one bit.
OneBits(f, n, elems) ==
  \A i \in 1 .. Len(elems) : Len(ElementBits(NoWires, f, n, elems[i])) = 1

\* What pass p supposes of a concatenation that it hoists.
Presumed(p, f, n, elems) ==
  IF p = "reduction" THEN OneBits(f, n, elems) ELSE Matching(f, n, elems)

\* The wire that line j of g drives is as wide as what it stands for.
Fits(g, j) == Len(BitsOf(NoWires, g, j, g[j].left.elems)) = WidthAt(g, j, g[j].dst)
Holds(g, j, p) == Presumed(p, g, j, g[j].left.elems) => Fits(g, j)

\* Line j of g drives the wire that stands for an operand of line i of f in line m of g.
Hoisted(f, i, g, m, p, side, j) ==
  /\ Made(g[j].dst) /\ g[j].dst[1] = p /\ g[m][side] = Plain(g[j].dst)
  /\ g[j] = Assign(g[j].dst, f[i][side], "none", NoOperand)
  /\ SameScope(g, j, f, i, p) /\ Holds(g, j, p)
  /\ p = "reduction" => side = "right"
SidePassed(f, i, g, m, p, side) ==
  \/ g[m][side] = PassedOperand(p, f[i][side])
  \/ /\ IsOperation(f[i]) /\ f[i][side].braces
     /\ \E j \in 1 .. Len(g) : Hoisted(f, i, g, m, p, side, j)
LinePassed(f, i, g, m, p) ==
  /\ g[m].k = "assign" /\ g[m].dst = f[i].dst /\ g[m].op = f[i].op
  /\ SameScope(g, m, f, i, p)
  /\ \A side \in {"left", "right"} : SidePassed(f, i, g, m, p, side)

\* What is in braces is made of elements; a made-up wire is driven by a bracket.
OperandSound(o) == o.braces => AllPacked(o.elems)
LineSound(l) ==
  l.k = "assign" =>
    /\ OperandSound(l.left) /\ OperandSound(l.right)
    /\ Made(l.dst) => l.op = "none" /\ l.left.braces
Sound(f) == IsFile(f) /\ Widths(f) /\ \A i \in 1 .. Len(f) : LineSound(f[i])

\* What pass p has written, g, before line n of f.
OutPassed(f, p, g, n) ==
  /\ Sound(g)
  /\ \A s : Alien(s, p) => DeclAfter(g, Len(g), s) = DeclAfter(f, n - 1, s)
  /\ \A i \in 1 .. (n - 1) : f[i].k = "assign" =>
       \E m \in 1 .. Len(g) : LinePassed(f, i, g, m, p)

\* Lines that follow do not matter to what is there.
Starts(g, h) == /\ Len(g) \in Nat /\ Len(h) \in Nat /\ Len(g) <= Len(h)
                /\ \A i \in 1 .. Len(g) : h[i] = g[i]

LEMMA StartOfJoined ==
  ASSUME NEW g, IsSequence(g), NEW new, IsSequence(new)
  PROVE  Starts(g, g \o new)
<1>1. PICK h : h = g \o new
  OBVIOUS
<1>2. IsConcatenation(h, g, new) /\ Len(g) \in Nat /\ Len(new) \in Nat
  BY <1>1, ConcatenationElements, SequenceLength
<1>3. Starts(g, h)
  BY <1>2 DEF IsConcatenation, Starts
<1> QED
  BY <1>1, <1>3

LEMMA StartDecls ==
  ASSUME NEW g, NEW h, Starts(g, h), NEW n \in 0 .. Len(g), NEW s
  PROVE  /\ DeclAfter(h, n, s) = DeclAfter(g, n, s)
         /\ n # 0 => DeclAt(h, n, s) = DeclAt(g, n, s)
<1>1. n \in Nat /\ \A i \in 1 .. n : h[i] = g[i]
  BY DEF Starts
<1> QED
  BY <1>1, DeclOfPrefix

LEMMA BitsAtStart ==
  ASSUME NEW g, NEW h, NEW j, \A s : DeclAt(h, j, s) = DeclAt(g, j, s), NEW elems
  PROVE  /\ BitsOf(NoWires, h, j, elems) = BitsOf(NoWires, g, j, elems)
         /\ OneBits(h, j, elems) <=> OneBits(g, j, elems)
         /\ Matching(h, j, elems) <=> Matching(g, j, elems)
<1>1. ASSUME NEW e PROVE TermBits(NoWires, h, j, e) = TermBits(NoWires, g, j, e)
  BY DEF TermBits, WidthAt
<1>2. ASSUME NEW e PROVE ElementBits(NoWires, h, j, e) = ElementBits(NoWires, g, j, e)
  <2>1. TermBits(NoWires, h, j, e) = TermBits(NoWires, g, j, e)
    BY <1>1
  <2>2. TermBits(NoWires, h, j, e.of) = TermBits(NoWires, g, j, e.of)
    BY <1>1
  <2> QED
    BY <2>1, <2>2 DEF ElementBits
<1>3. [i \in DOMAIN elems |-> ElementBits(NoWires, h, j, elems[i])] =
        [i \in DOMAIN elems |-> ElementBits(NoWires, g, j, elems[i])]
  BY <1>2
<1>4. BitsOf(NoWires, h, j, elems) = BitsOf(NoWires, g, j, elems)
  BY <1>3 DEF BitsOf
<1>5. OneBits(h, j, elems) <=> OneBits(g, j, elems)
  BY <1>2 DEF OneBits
<1>6. Matching(h, j, elems) <=> Matching(g, j, elems)
  BY DEF Matching
<1> QED
  BY <1>4, <1>5, <1>6

LEMMA StillPassed ==
  ASSUME NEW f, NEW i, NEW g, NEW m \in 1 .. Len(g), NEW p, LinePassed(f, i, g, m, p),
         NEW h, Starts(g, h)
  PROVE  m \in 1 .. Len(h) /\ LinePassed(f, i, h, m, p)
<1>1. /\ \A j \in 1 .. Len(g) : j \in 1 .. Len(h) /\ h[j] = g[j]
      /\ \A j \in 1 .. Len(g) : \A s : DeclAt(h, j, s) = DeclAt(g, j, s)
  <2>1. ASSUME NEW j \in 1 .. Len(g) PROVE j \in 1 .. Len(h) /\ h[j] = g[j]
    BY DEF Starts
  <2>2. ASSUME NEW j \in 1 .. Len(g), NEW s PROVE DeclAt(h, j, s) = DeclAt(g, j, s)
    <3>1. j \in 0 .. Len(g) /\ j # 0
      BY DEF Starts
    <3> QED
      BY <3>1, StartDecls
  <2> QED
    BY <2>1, <2>2
<1>2. SameScope(h, m, f, i, p)
  BY <1>1 DEF LinePassed, SameScope
<1>3. ASSUME NEW side \in {"left", "right"} PROVE SidePassed(f, i, h, m, p, side)
  <2>1. CASE g[m][side] = PassedOperand(p, f[i][side])
    BY <1>1, <2>1 DEF SidePassed
  <2>2. CASE /\ IsOperation(f[i]) /\ f[i][side].braces
             /\ \E j \in 1 .. Len(g) : Hoisted(f, i, g, m, p, side, j)
    <3>1. PICK j \in 1 .. Len(g) : Hoisted(f, i, g, m, p, side, j)
      BY <2>2
    <3>2. j \in 1 .. Len(h) /\ h[j] = g[j] /\ h[m] = g[m] /\ \A s : DeclAt(h, j, s) = DeclAt(g, j, s)
      BY <1>1
    <3>3. SameScope(h, j, f, i, p)
      BY <3>1, <3>2 DEF Hoisted, SameScope
    <3>4. Holds(h, j, p)
      <4>1. PICK elems : elems = g[j].left.elems
        OBVIOUS
      <4>2. /\ BitsOf(NoWires, h, j, elems) = BitsOf(NoWires, g, j, elems)
            /\ OneBits(h, j, elems) <=> OneBits(g, j, elems)
            /\ Matching(h, j, elems) <=> Matching(g, j, elems)
        BY <3>2, BitsAtStart
      <4> QED
        BY <3>1, <3>2, <4>1, <4>2 DEF Hoisted, Holds, Presumed, Fits, WidthAt
    <3>5. Hoisted(f, i, h, m, p, side, j)
      BY <3>1, <3>2, <3>3, <3>4 DEF Hoisted
    <3> QED
      BY <2>2, <3>2, <3>5 DEF SidePassed
  <2> QED
    BY <2>1, <2>2 DEF LinePassed, SidePassed
<1> QED
  BY <1>1, <1>2, <1>3 DEF LinePassed

\* Soundness of what is joined.
LEMMA SoundJoined ==
  ASSUME NEW g, Sound(g), NEW new, Sound(new)
  PROVE  Sound(g \o new)
<1>1. PICK h : h = g \o new
  OBVIOUS
<1>2. IsFile(h) /\ IsSequence(g) /\ IsSequence(new)
  BY <1>1, Joined DEF Sound, IsFile
<1>3. ASSUME NEW i \in 1 .. Len(h)
      PROVE  \/ \E j \in 1 .. Len(g) : h[i] = g[j]
             \/ \E j \in 1 .. Len(new) : h[i] = new[j]
  BY <1>1, <1>2, InConcatenation
<1>4. Widths(h)
  BY <1>3 DEF Sound, Widths
<1>5. \A i \in 1 .. Len(h) : LineSound(h[i])
  BY <1>3 DEF Sound
<1> QED
  BY <1>1, <1>2, <1>4, <1>5 DEF Sound

\* What a declaration must have, for a sound file.
DeclSound(l) == l.k = "decl" => l.width \in Nat /\ (~Made(l.sig) => l.width >= 1)

LEMMA SoundLines ==
  ASSUME NEW f, Sound(f), NEW i \in 1 .. Len(f)
  PROVE  IsLine(f[i]) /\ LineSound(f[i]) /\ DeclSound(f[i])
BY DEF Sound, IsFile, Widths, DeclSound

LEMMA SoundOne ==
  ASSUME NEW l, IsLine(l), LineSound(l), DeclSound(l)
  PROVE  Sound(<<l>>)
<1>1. PICK f : f = <<l>>
  OBVIOUS
<1>2. Len(f) = 1 /\ f[1] = l /\ IsFile(f)
  BY <1>1, OneLine
<1>3. \A i : i \in 1 .. Len(f) <=> i = 1
  BY <1>2
<1> QED
  BY <1>1, <1>2, <1>3 DEF Sound, Widths, DeclSound

-----------------------------------------------------------------------------
(* The line that a pass other than divide writes next. *)

\* One line for one: an assignment may have been compressed.
Carried(l, m, p) ==
  /\ IsLine(m) /\ m.k = l.k /\ (l.k # "assign" => m = l)
  /\ l.k = "assign" =>
       /\ m.dst = l.dst /\ m.op = l.op
       /\ m.left = PassedOperand(p, l.left) /\ m.right = PassedOperand(p, l.right)

\* The declarations after the file grows by one line.
AddsLine(h, g, m) == h = g \o <<m>>

LEMMA OneMore ==
  ASSUME NEW g, IsFile(g), NEW m, NEW h, AddsLine(h, g, m), IsLine(m)
  PROVE  /\ Len(h) = Len(g) + 1 /\ Len(g) \in Nat /\ h[Len(g) + 1] = m /\ Starts(g, h)
         /\ \A s : DeclAfter(h, Len(h), s) = Scoped(m, s, DeclAfter(g, Len(g), s))
         /\ m.k # "module" =>
              \A s : DeclAt(h, Len(h), s) = DeclAfter(g, Len(g), s)
<1>1. IsSequence(g) /\ Len(g) \in Nat
  BY SequenceLength DEF IsFile
<1>2. PICK one : one = <<m>>
  OBVIOUS
<1>3. IsSequence(one) /\ Len(one) = 1 /\ one[1] = m
  BY <1>2, OneElement
<1>4. Starts(g, h) /\ IsConcatenation(h, g, one)
  BY <1>1, <1>2, <1>3, StartOfJoined, ConcatenationElements DEF AddsLine
<1>5. Len(h) = Len(g) + 1 /\ h[Len(g) + 1] = m
  <2>1. 1 \in 1 .. Len(one)
    BY <1>3
  <2> QED
    BY <1>3, <1>4, <2>1 DEF IsConcatenation
<1>6. PICK n : n = Len(h)
  OBVIOUS
<1>7. n \in Nat \ {0} /\ n - 1 = Len(g) /\ h[n] = m
  BY <1>1, <1>5, <1>6
<1>8. ASSUME NEW s PROVE DeclAfter(h, n - 1, s) = DeclAfter(g, Len(g), s)
  <2>1. Len(g) \in 0 .. Len(g)
    BY <1>1
  <2> QED
    BY <1>4, <1>7, <2>1, StartDecls
<1>9. ASSUME NEW s PROVE DeclAfter(h, n, s) = Scoped(m, s, DeclAfter(g, Len(g), s))
  <2>1. DeclAfter(h, n, s) = Scoped(h[n], s, DeclAfter(h, n - 1, s))
    BY <1>7, DeclAfterLine
  <2> QED
    BY <1>7, <1>8, <2>1
<1>10. ASSUME m.k # "module", NEW s PROVE DeclAt(h, n, s) = DeclAfter(g, Len(g), s)
  <2>1. DeclAt(h, n, s) = DeclAfter(h, n - 1, s)
    BY <1>7, <1>10, DeclAtIsAfter
  <2> QED
    BY <1>8, <2>1
<1> QED
  BY <1>1, <1>4, <1>5, <1>6, <1>9, <1>10

\* The declarations before line n of the file that is read.
LEMMA ReadDecls ==
  ASSUME NEW f, NEW n \in 1 .. Len(f), NEW s
  PROVE  /\ DeclAfter(f, n, s) = Scoped(f[n], s, DeclAfter(f, n - 1, s))
         /\ f[n].k # "module" => DeclAt(f, n, s) = DeclAfter(f, n - 1, s)
<1>1. n \in Nat \ {0}
  OBVIOUS
<1> QED
  BY <1>1, DeclAfterLine, DeclAtIsAfter

\* No concatenation of the line has been compressed.
LineElemental(l) ==
  l.k = "assign" =>
    /\ l.left.braces => AllElements(l.left.elems)
    /\ l.right.braces => AllElements(l.right.elems)

LEMMA PassedSound ==
  ASSUME NEW p, NEW o, OperandSound(o),
         p = "compress" /\ o.braces => AllElements(o.elems)
  PROVE  /\ OperandSound(PassedOperand(p, o)) /\ (PassedOperand(p, o).braces <=> o.braces)
         /\ ~o.braces \/ p # "compress" => PassedOperand(p, o) = o
<1>1. CASE p = "compress" /\ o.braces
  <2>1. PICK reps : reps = ReplaceReps(o.elems)
    OBVIOUS
  <2>2. PICK new : new = ReplaceDecr(reps)
    OBVIOUS
  <2>3. AllPacked(reps)
    BY <1>1, <2>1, RepsArePacked
  <2>4. AllPacked(new)
    BY <2>2, <2>3, RunsArePacked
  <2>5. PassedOperand(p, o) = Braced(new)
    BY <1>1, <2>1, <2>2 DEF PassedOperand, CompressBracket
  <2>6. Braced(new).braces = TRUE /\ Braced(new).elems = new
    BY DEF Braced
  <2> QED
    BY <1>1, <2>4, <2>5, <2>6 DEF OperandSound
<1>2. CASE p # "compress" \/ ~o.braces
  <2>1. PassedOperand(p, o) = o
    BY <1>2 DEF PassedOperand, CompressBracket
  <2> QED
    BY <1>2, <2>1
<1> QED
  BY <1>1, <1>2

LEMMA CarriedSound ==
  ASSUME NEW l, NEW m, NEW p, Carried(l, m, p), IsLine(l), LineSound(l), DeclSound(l),
         p = "compress" => LineElemental(l)
  PROVE  /\ LineSound(m) /\ DeclSound(m)
         /\ p # "compress" /\ LineElemental(l) => LineElemental(m)
<1>1. CASE l.k # "assign"
  BY <1>1 DEF Carried
<1>2. CASE l.k = "assign"
  <2>1. /\ m.k = "assign" /\ m.dst = l.dst /\ m.op = l.op
        /\ m.left = PassedOperand(p, l.left) /\ m.right = PassedOperand(p, l.right)
    BY <1>2 DEF Carried
  <2>2. ASSUME NEW o \in {l.left, l.right}
        PROVE  /\ OperandSound(PassedOperand(p, o)) /\ (PassedOperand(p, o).braces <=> o.braces)
               /\ p # "compress" => PassedOperand(p, o) = o
    <3>1. OperandSound(o) /\ (p = "compress" /\ o.braces => AllElements(o.elems))
      BY <1>2 DEF LineSound, LineElemental
    <3> QED
      BY <3>1, PassedSound
  <2>3. LineSound(m)
    BY <1>2, <2>1, <2>2 DEF LineSound
  <2>4. DeclSound(m)
    BY <2>1 DEF DeclSound
  <2>5. p # "compress" /\ LineElemental(l) => LineElemental(m)
    BY <1>2, <2>1, <2>2 DEF LineElemental
  <2> QED
    BY <2>3, <2>4, <2>5
<1> QED
  BY <1>1, <1>2

\* One line more, of the pass's own or for line n of f.
LEMMA SoundMore ==
  ASSUME NEW g, Sound(g), NEW m, IsLine(m), LineSound(m), DeclSound(m), NEW h, AddsLine(h, g, m)
  PROVE  /\ Sound(h) /\ Len(h) = Len(g) + 1 /\ Len(g) \in Nat /\ h[Len(g) + 1] = m /\ Starts(g, h)
         /\ \A s : DeclAfter(h, Len(h), s) = Scoped(m, s, DeclAfter(g, Len(g), s))
         /\ m.k # "module" =>
              \A s : DeclAt(h, Len(h), s) = DeclAfter(g, Len(g), s)
<1>1. Sound(h)
  <2>1. PICK one : one = <<m>>
    OBVIOUS
  <2>2. Sound(one) /\ h = g \o one
    BY <2>1, SoundOne DEF AddsLine
  <2> QED
    BY <2>2, SoundJoined
<1>2. IsFile(g)
  BY DEF Sound
<1> QED
  BY <1>1, <1>2, OneMore

LEMMA OwnLine ==
  ASSUME NEW f, NEW p, NEW g, NEW n, OutPassed(f, p, g, n),
         NEW m, IsLine(m), LineSound(m), DeclSound(m), NEW h, AddsLine(h, g, m),
         m.k = "assign" \/ (m.k = "decl" /\ ~Alien(m.sig, p))
  PROVE  OutPassed(f, p, h, n)
<1>1. Sound(g)
  BY DEF OutPassed
<1>2. /\ Sound(h) /\ Starts(g, h)
      /\ \A s : DeclAfter(h, Len(h), s) = Scoped(m, s, DeclAfter(g, Len(g), s))
  BY <1>1, SoundMore
<1>3. ASSUME NEW s, Alien(s, p) PROVE DeclAfter(h, Len(h), s) = DeclAfter(f, n - 1, s)
  <2>1. DeclAfter(h, Len(h), s) = DeclAfter(g, Len(g), s)
    BY <1>2, <1>3 DEF Scoped
  <2> QED
    BY <1>3, <2>1 DEF OutPassed
<1>4. ASSUME NEW i \in 1 .. (n - 1), f[i].k = "assign"
      PROVE  \E j \in 1 .. Len(h) : LinePassed(f, i, h, j, p)
  <2>1. PICK j \in 1 .. Len(g) : LinePassed(f, i, g, j, p)
    BY <1>4 DEF OutPassed
  <2> QED
    BY <1>2, <2>1, StillPassed
<1> QED
  BY <1>2, <1>3, <1>4 DEF OutPassed

LEMMA NextLine ==
  ASSUME NEW f, NEW p, NEW g, NEW n \in Nat \ {0}, NEW h,
         OutPassed(f, p, h, n),
         f[n].k # "module" /\ f[n].k # "decl",
         f[n].k = "assign" => \E m \in 1 .. Len(h) : LinePassed(f, n, h, m, p)
  PROVE  OutPassed(f, p, h, n + 1)
<1>1. (n + 1) - 1 = n
  OBVIOUS
<1>2. \A i \in 1 .. n : i \in 1 .. (n - 1) \/ i = n
  OBVIOUS
<1>3. ASSUME NEW s PROVE DeclAfter(f, n, s) = DeclAfter(f, n - 1, s)
  <2>1. DeclAfter(f, n, s) = Scoped(f[n], s, DeclAfter(f, n - 1, s))
    BY DeclAfterLine
  <2> QED
    BY <2>1 DEF Scoped
<1>4. \A s : Alien(s, p) => DeclAfter(h, Len(h), s) = DeclAfter(f, n, s)
  BY <1>3 DEF OutPassed
<1>5. \A i \in 1 .. n : f[i].k = "assign" => \E m \in 1 .. Len(h) : LinePassed(f, i, h, m, p)
  BY <1>2 DEF OutPassed
<1> QED
  BY <1>1, <1>4, <1>5 DEF OutPassed

\* The passes carry a line over, or hoist an operand of it: line n is passed.
LEMMA CarriedStep ==
  ASSUME NEW f, Sound(f), NEW n \in 1 .. Len(f), NEW p, NEW g, OutPassed(f, p, g, n),
         NEW m, Carried(f[n], m, p), p = "compress" => LineElemental(f[n]),
         NEW h, AddsLine(h, g, m)
  PROVE  OutPassed(f, p, h, n + 1)
<1>1. IsLine(f[n]) /\ LineSound(f[n]) /\ DeclSound(f[n])
  BY SoundLines
<1>2. IsLine(m) /\ LineSound(m) /\ DeclSound(m)
  BY <1>1, CarriedSound DEF Carried
<1>3. PICK l : l = f[n]
  OBVIOUS
<1>4. Sound(g)
  BY DEF OutPassed
<1>5. PICK k : k = Len(h)
  OBVIOUS
<1>6. /\ Sound(h) /\ k = Len(g) + 1 /\ Len(g) \in Nat /\ h[k] = m /\ Starts(g, h)
      /\ \A s : DeclAfter(h, k, s) = Scoped(m, s, DeclAfter(g, Len(g), s))
      /\ m.k # "module" => \A s : DeclAt(h, k, s) = DeclAfter(g, Len(g), s)
  BY <1>2, <1>4, <1>5, SoundMore
<1>7. (n + 1) - 1 = n /\ (\A i \in 1 .. n : i \in 1 .. (n - 1) \/ i = n) /\ k \in 1 .. Len(h)
  BY <1>5, <1>6
<1>8. ASSUME NEW s, Alien(s, p) PROVE DeclAfter(h, k, s) = DeclAfter(f, n, s)
  <2>1. DeclAfter(g, Len(g), s) = DeclAfter(f, n - 1, s)
    BY <1>8 DEF OutPassed
  <2>2. DeclAfter(f, n, s) = Scoped(l, s, DeclAfter(f, n - 1, s))
    BY <1>3, ReadDecls
  <2>3. \A w : Scoped(l, s, w) = Scoped(m, s, w)
    <3>1. CASE l.k = "assign"
      BY <1>3, <3>1 DEF Carried, Scoped
    <3>2. CASE l.k # "assign"
      BY <1>3, <3>2 DEF Carried
    <3> QED
      BY <3>1, <3>2
  <2> QED
    BY <1>6, <2>1, <2>2, <2>3
<1>9. ASSUME NEW i \in 1 .. n, f[i].k = "assign"
      PROVE  \E j \in 1 .. Len(h) : LinePassed(f, i, h, j, p)
  <2>1. CASE i \in 1 .. (n - 1)
    <3>1. PICK j \in 1 .. Len(g) : LinePassed(f, i, g, j, p)
      BY <1>9, <2>1 DEF OutPassed
    <3> QED
      BY <1>6, <3>1, StillPassed
  <2>2. CASE i = n
    <3>1. /\ m.k = "assign" /\ m.dst = l.dst /\ m.op = l.op
          /\ m.left = PassedOperand(p, l.left) /\ m.right = PassedOperand(p, l.right)
      BY <1>3, <1>9, <2>2 DEF Carried
    <3>2. SameScope(h, k, f, n, p)
      <4>1. ASSUME NEW s, Alien(s, p) PROVE DeclAt(h, k, s) = DeclAt(f, n, s)
        <5>1. DeclAt(h, k, s) = DeclAfter(g, Len(g), s)
          BY <1>6, <3>1
        <5>2. DeclAt(f, n, s) = DeclAfter(f, n - 1, s)
          BY <1>9, <2>2, ReadDecls
        <5>3. DeclAfter(g, Len(g), s) = DeclAfter(f, n - 1, s)
          BY <4>1 DEF OutPassed
        <5> QED
          BY <5>1, <5>2, <5>3
      <4> QED
        BY <4>1 DEF SameScope
    <3>3. ASSUME NEW side \in {"left", "right"} PROVE SidePassed(f, n, h, k, p, side)
      <4>1. m[side] = PassedOperand(p, l[side])
        BY <3>1, <3>3
      <4> QED
        BY <1>3, <1>6, <4>1 DEF SidePassed
    <3>4. LinePassed(f, n, h, k, p)
      BY <1>3, <1>6, <3>1, <3>2, <3>3 DEF LinePassed
    <3> QED
      BY <1>7, <2>2, <3>4
  <2> QED
    BY <1>7, <2>1, <2>2
<1> QED
  BY <1>5, <1>6, <1>7, <1>8, <1>9 DEF OutPassed

\* The three lines of a hoisted operand.
LEMMA HoistedLines ==
  ASSUME NEW l, IsLine(l), LineSound(l), l.k = "assign", ~Made(l.dst),
         NEW p \in {"left", "right", "reduction"}, NEW number, NEW w, w = Wire(p, number),
         NEW side \in {"left", "right"}, l[side].braces, NEW width \in Nat,
         NEW a, a = Decl(w, width, p # "reduction"), NEW b, b = Assign(w, l[side], "none", NoOperand),
         NEW c, c = Assign(l.dst, IF side = "left" THEN Plain(w) ELSE l.left, l.op,
                           IF side = "left" THEN l.right ELSE Plain(w))
  PROVE  /\ IsLine(a) /\ LineSound(a) /\ DeclSound(a) /\ a.k = "decl" /\ a.sig = w /\ a.width = width
         /\ IsLine(b) /\ LineSound(b) /\ DeclSound(b) /\ b.k = "assign" /\ b.dst = w
         /\ b.left = l[side]
         /\ IsLine(c) /\ LineSound(c) /\ DeclSound(c) /\ c.k = "assign" /\ c.dst = l.dst
         /\ c.op = l.op /\ c[side] = Plain(w)
         /\ \A other \in {"left", "right"} : other # side => c[other] = l[other]
         /\ Made(w) /\ w[1] = p /\ ~Alien(w, p)
         /\ LineElemental(l) => LineElemental(a) /\ LineElemental(b) /\ LineElemental(c)
<1>1. Made(w) /\ w[1] = p /\ ~Alien(w, p)
  BY DEF Wire, Made, Alien
<1>2. /\ OperandSound(l.left) /\ OperandSound(l.right)
      /\ IsSequence(l.left.elems) /\ IsSequence(l.right.elems)
  BY AssignParts DEF LineSound
<1>3. PICK o : o = l[side]
  OBVIOUS
<1>4. OperandSound(o) /\ IsSequence(o.elems) /\ o.braces /\ (LineElemental(l) => AllElements(o.elems))
  BY <1>2, <1>3 DEF LineElemental
<1>5. PICK plain : plain = Plain(w)
  OBVIOUS
<1>6. ~plain.braces /\ IsSequence(plain.elems) /\ ~NoOperand.braces /\ IsSequence(NoOperand.elems)
  <2>1. <<Whole(w)>> \in Seq({Whole(w)}) /\ <<>> \in Seq({})
    OBVIOUS
  <2>2. Plain(w).elems = <<Whole(w)>> /\ NoOperand.elems = <<>>
    BY DEF Plain, NoOperand
  <2>3. IsSequence(<<Whole(w)>>) /\ IsSequence(<<>>)
    BY <2>1 DEF IsSequence
  <2> QED
    BY <1>5, <2>2, <2>3, PlainOperand
<1>7. /\ IsLine(a) /\ a.k = "decl" /\ a.sig = w /\ a.width = width
  BY DeclIsLine DEF Decl
<1>8. LineSound(a) /\ DeclSound(a) /\ LineElemental(a)
  BY <1>1, <1>7 DEF LineSound, DeclSound, LineElemental
<1>9. IsLine(b) /\ b.k = "assign" /\ b.dst = w /\ b.left = o /\ b.op = "none" /\ b.right = NoOperand
  <2>1. b = Assign(w, o, "none", NoOperand)
    BY <1>3
  <2>2. IsLine(b)
    <3>1. PICK op, right : op = "none" /\ right = NoOperand
      OBVIOUS
    <3>2. b = Assign(w, o, op, right) /\ IsSequence(right.elems)
      BY <1>6, <2>1, <3>1
    <3> QED
      BY <1>4, <3>2, AssignIsLine
  <2> QED
    BY <2>1, <2>2, AssignFields
<1>10. LineSound(b) /\ DeclSound(b) /\ (LineElemental(l) => LineElemental(b))
  BY <1>4, <1>6, <1>9 DEF LineSound, DeclSound, LineElemental, OperandSound
<1>11. PICK left, right : /\ left = IF side = "left" THEN plain ELSE l.left
                          /\ right = IF side = "left" THEN l.right ELSE plain
  OBVIOUS
<1>12. IsSequence(left.elems) /\ IsSequence(right.elems)
  BY <1>2, <1>6, <1>11
<1>13. /\ IsLine(c) /\ c.k = "assign" /\ c.dst = l.dst /\ c.op = l.op
       /\ c.left = left /\ c.right = right
  <2>1. c = Assign(l.dst, left, l.op, right)
    BY <1>5, <1>11
  <2>2. IsLine(c)
    BY <1>12, <2>1, AssignIsLine
  <2> QED
    BY <2>1, <2>2, AssignFields
<1>14. OperandSound(left) /\ OperandSound(right)
  BY <1>2, <1>6, <1>11 DEF OperandSound
<1>15. LineElemental(l) => LineElemental(c)
  BY <1>6, <1>11, <1>13 DEF LineElemental
<1>16. LineSound(c) /\ DeclSound(c)
  BY <1>13, <1>14 DEF LineSound, DeclSound
<1>17. c[side] = plain /\ \A other \in {"left", "right"} : other # side => c[other] = l[other]
  BY <1>11, <1>13
<1> QED
  BY <1>1, <1>3, <1>5, <1>7, <1>8, <1>9, <1>10, <1>13, <1>15, <1>16, <1>17

\* No line of the file has been compressed.
Elemental(f) == \A i \in 1 .. Len(f) : LineElemental(f[i])

LEMMA ElementalMore ==
  ASSUME NEW g, Sound(g), NEW m, IsLine(m), LineSound(m), DeclSound(m), NEW h, AddsLine(h, g, m),
         Elemental(g), LineElemental(m)
  PROVE  Elemental(h)
<1>1. Len(h) = Len(g) + 1 /\ Len(g) \in Nat /\ h[Len(g) + 1] = m /\ Starts(g, h)
  BY SoundMore
<1>2. \A i \in 1 .. Len(h) : i \in 1 .. Len(g) \/ i = Len(g) + 1
  BY <1>1
<1>3. \A i \in 1 .. Len(g) : h[i] = g[i]
  BY <1>1 DEF Starts
<1> QED
  BY <1>1, <1>2, <1>3 DEF Elemental

LEMMA OneByOne ==
  ASSUME NEW g, IsSequence(g), NEW a, NEW b, NEW c
  PROVE  \E x, y, z : /\ AddsLine(x, g, a) /\ AddsLine(y, x, b) /\ AddsLine(z, y, c)
                      /\ z = g \o <<a, b, c>>
<1>1. PICK x, y, z : x = g \o <<a>> /\ y = x \o <<b>> /\ z = y \o <<c>>
  OBVIOUS
<1>2. PICK s, t, u, v : s = <<a>> /\ t = <<b>> /\ u = <<c>> /\ v = <<b, c>>
  OBVIOUS
<1>3. IsSequence(s) /\ IsSequence(t) /\ IsSequence(u)
  BY <1>2, OneElement
<1>4. v = t \o u /\ <<a, b, c>> = s \o v
  <2>1. PICK r : r = <<a, b, c>>
    OBVIOUS
  <2>2. /\ v \in Seq({b, c}) /\ Len(v) = 2 /\ v[1] = b /\ v[2] = c
        /\ r \in Seq({a, b, c}) /\ Len(r) = 3 /\ r[1] = a /\ r[2] = b /\ r[3] = c
        /\ Len(s) = 1 /\ s[1] = a /\ Len(t) = 1 /\ t[1] = b /\ Len(u) = 1 /\ u[1] = c
    BY <1>2, <2>1
  <2>3. IsSequence(v) /\ IsSequence(r)
    BY <2>2 DEF IsSequence
  <2>4. IsConcatenation(v, t, u)
    BY <2>2, <2>3 DEF IsConcatenation
  <2>5. \A i \in 1 .. Len(v) : r[Len(s) + i] = v[i]
    BY <2>2
  <2>6. \A i \in 1 .. Len(s) : r[i] = s[i]
    BY <2>2
  <2>7. IsConcatenation(r, s, v)
    BY <2>2, <2>3, <2>5, <2>6 DEF IsConcatenation
  <2>8. v = t \o u
    BY <1>3, <2>4, ConcatenationElements, ConcatenationUnique
  <2>9. r = s \o v
    BY <1>3, <2>3, <2>7, ConcatenationElements, ConcatenationUnique
  <2> QED
    BY <2>1, <2>8, <2>9
<1>5. IsSequence(v) /\ IsSequence(x)
  <2>1. IsConcatenation(v, t, u) /\ IsConcatenation(x, g, s)
    BY <1>1, <1>2, <1>3, <1>4, ConcatenationElements
  <2> QED
    BY <2>1 DEF IsConcatenation
<1>6. Associates(g, s, t) /\ Associates(x, t, u) /\ Associates(g, s, v)
  BY <1>3, <1>5, Associative
<1>7. y \o u = x \o v
  BY <1>1, <1>2, <1>4, <1>6 DEF Associates
<1>8. x \o v = g \o (s \o v)
  BY <1>1, <1>2, <1>6 DEF Associates
<1>9. z = g \o <<a, b, c>>
  BY <1>1, <1>2, <1>4, <1>7, <1>8
<1> QED
  BY <1>1, <1>9 DEF AddsLine

LEMMA NativeOfScope ==
  ASSUME NEW g, NEW m, NEW f, NEW i, NEW p \in Makers \cup {"compress"}, SameScope(g, m, f, i, p)
  PROVE  Native(g, m, f, i)
BY DEF SameScope, Native, Alien

\* As many bits as elements, where each has one.
LEMMA BitsOfOnes ==
  ASSUME NEW f, NEW n, InFile(f, n), NEW elems, AllPacked(elems), OneBits(f, n, elems)
  PROVE  Len(BitsOf(NoWires, f, n, elems)) = Len(elems)
<1>1. PICK c : c = BitSeq(NoWires, f, n, elems)
  OBVIOUS
<1>2. /\ AreSequences(c) /\ Len(c) = Len(elems) /\ BitsOf(NoWires, f, n, elems) = FlattenSeq(c)
      /\ \A i \in 1 .. Len(elems) : c[i] = ElementBits(NoWires, f, n, elems[i])
  BY <1>1, NoWiresIsEmpty, BitSeqIs
<1>3. \A i \in 1 .. Len(c) : Len(c[i]) = 1
  BY <1>2 DEF OneBits
<1> QED
  BY <1>2, <1>3, OneEach

\* Whole signals of a concatenation are the file's own.
LEMMA MatchingAgrees ==
  ASSUME NEW g, NEW m, NEW f, NEW n, Native(g, m, f, n), NEW elems, AllPacked(elems)
  PROVE  Matching(g, m, elems) <=> Matching(f, n, elems)
<1>1. ASSUME NEW i \in 1 .. Len(elems), elems[i].k = "sig"
      PROVE  DeclAt(g, m, elems[i].sig) = DeclAt(f, n, elems[i].sig)
  <2>1. PICK e : e = elems[i] /\ IsPacked(e)
    BY DEF AllPacked
  <2>2. IsElement(e)
    BY <1>1, <2>1, PackedKinds
  <2>3. ~Made(e.sig)
    BY <1>1, <2>1, <2>2, ElementKinds
  <2> QED
    BY <2>1, <2>3 DEF Native
<1> QED
  BY <1>1 DEF Matching

\* The width that a hoisted concatenation is declared with.
Suffices(f, n, elems, p, width) ==
  /\ width \in Nat
  /\ IF p = "reduction" THEN width = Len(elems)
     ELSE Matching(f, n, elems) => Len(BitsOf(NoWires, f, n, elems)) = width

LEMMA WidthHolds ==
  ASSUME NEW f, Sound(f), NEW n \in 1 .. Len(f), NEW p \in {"left", "right", "reduction"},
         NEW elems, AllPacked(elems), NEW width, Suffices(f, n, elems, p, width),
         NEW h, Sound(h), NEW j \in 1 .. Len(h), SameScope(h, j, f, n, p),
         h[j].left.elems = elems, WidthAt(h, j, h[j].dst) = width
  PROVE  Holds(h, j, p)
<1>1. Native(h, j, f, n)
  BY NativeOfScope DEF Makers
<1>2. InFile(h, j)
  <2>1. Len(h) \in Nat
    BY SequenceLength DEF Sound, IsFile
  <2> QED
    BY <2>1 DEF InFile, Sound
<1>3. Fits(h, j) <=> Len(BitsOf(NoWires, h, j, elems)) = width
  BY DEF Fits
<1>4. CASE p = "reduction"
  <2>1. OneBits(h, j, elems) => Len(BitsOf(NoWires, h, j, elems)) = Len(elems)
    BY <1>2, BitsOfOnes
  <2>2. width = Len(elems) /\ width \in Nat
    BY <1>4 DEF Suffices
  <2> QED
    BY <1>4, <1>3, <2>1, <2>2 DEF Holds, Presumed
<1>5. CASE p # "reduction"
  <2>1. BitsOf(NoWires, h, j, elems) = BitsOf(NoWires, f, n, elems)
    BY <1>1, NoWiresIsEmpty, BitsAgree
  <2>2. Matching(f, n, elems) => Len(BitsOf(NoWires, f, n, elems)) = width
    BY <1>5 DEF Suffices
  <2>3. Matching(h, j, elems) <=> Matching(f, n, elems)
    BY <1>1, MatchingAgrees
  <2> QED
    BY <1>5, <1>3, <2>1, <2>2, <2>3 DEF Holds, Presumed
<1> QED
  BY <1>4, <1>5

\* Line n of f is passed as well; a pass other than compress compresses nothing.
Stepped(f, p, g, n, h) ==
  /\ OutPassed(f, p, h, n + 1)
  /\ p # "compress" /\ Elemental(g) /\ LineElemental(f[n]) => Elemental(h)

\* h is g with the new lines.
JoinOf(h, g, new) == h = g \o new

LEMMA HoistStep ==
  ASSUME NEW f, Sound(f), NEW n \in 1 .. Len(f), NEW p \in {"left", "right", "reduction"},
         NEW g, OutPassed(f, p, g, n), NEW l, l = f[n], IsOperation(l),
         NEW side \in {"left", "right"}, p = "reduction" => side = "right",
         l[side].braces, NEW number, NEW width, Suffices(f, n, l[side].elems, p, width),
         NEW new, new = Hoist(l, f, n, p, number, side, width), NEW h, JoinOf(h, g, new)
  PROVE  Stepped(f, p, g, n, h)
<1>1. /\ IsLine(l) /\ LineSound(l) /\ l.k = "assign" /\ ~Made(l.dst) /\ width \in Nat
      /\ n \in Nat \ {0}
  <2>1. IsLine(l) /\ LineSound(l)
    BY SoundLines
  <2> QED
    BY <2>1 DEF IsOperation, LineSound, Suffices
<1>2. PICK w, a, b, c :
        /\ w = Wire(p, number) /\ a = Decl(w, width, p # "reduction")
        /\ b = Assign(w, l[side], "none", NoOperand)
        /\ c = Assign(l.dst, IF side = "left" THEN Plain(w) ELSE l.left, l.op,
                      IF side = "left" THEN l.right ELSE Plain(w))
  OBVIOUS
<1>3. /\ IsLine(a) /\ LineSound(a) /\ DeclSound(a) /\ a.k = "decl" /\ a.sig = w /\ a.width = width
      /\ IsLine(b) /\ LineSound(b) /\ DeclSound(b) /\ b.k = "assign" /\ b.dst = w
      /\ b.left = l[side]
      /\ IsLine(c) /\ LineSound(c) /\ DeclSound(c) /\ c.k = "assign" /\ c.dst = l.dst
      /\ c.op = l.op /\ c[side] = Plain(w)
      /\ \A other \in {"left", "right"} : other # side => c[other] = l[other]
      /\ Made(w) /\ w[1] = p /\ ~Alien(w, p)
      /\ LineElemental(l) => LineElemental(a) /\ LineElemental(b) /\ LineElemental(c)
  BY <1>1, <1>2, HoistedLines
<1>4. Hoist(l, f, n, p, number, side, width) = <<a, b, c>>
  <2>1. CASE side = "left"
    BY <1>1, <1>2, <2>1, HoistLines
  <2>2. CASE side = "right"
    BY <1>1, <1>2, <2>2, HoistLines
  <2> QED
    BY <2>1, <2>2
<1>5. Sound(g) /\ IsSequence(g)
  BY DEF OutPassed, Sound, IsFile
<1>6. PICK x, y : AddsLine(x, g, a) /\ AddsLine(y, x, b) /\ AddsLine(h, y, c)
  <2>1. h = g \o <<a, b, c>>
    BY <1>4 DEF JoinOf
  <2>2. PICK x, y, z : /\ AddsLine(x, g, a) /\ AddsLine(y, x, b) /\ AddsLine(z, y, c)
                       /\ z = g \o <<a, b, c>>
    BY <1>5, OneByOne
  <2>3. z = h
    BY <2>1, <2>2
  <2> QED
    BY <2>2, <2>3
<1>7. OutPassed(f, p, x, n) /\ OutPassed(f, p, y, n) /\ OutPassed(f, p, h, n)
  <2>1. OutPassed(f, p, x, n)
    BY <1>3, <1>6, OwnLine
  <2>2. OutPassed(f, p, y, n)
    BY <1>3, <1>6, <2>1, OwnLine
  <2> QED
    BY <1>3, <1>6, <2>2, OwnLine
<1>8. Sound(x) /\ Sound(y) /\ Sound(h)
  BY <1>7 DEF OutPassed
<1>9. PICK j, m : j = Len(y) /\ m = Len(h)
  OBVIOUS
<1>10. /\ \A s : DeclAfter(x, Len(x), s) = Scoped(a, s, DeclAfter(g, Len(g), s))
       /\ j = Len(x) + 1 /\ Len(x) \in Nat /\ y[j] = b
       /\ \A s : DeclAt(y, j, s) = DeclAfter(x, Len(x), s)
  BY <1>3, <1>5, <1>6, <1>8, <1>9, SoundMore
<1>11. /\ m = j + 1 /\ Starts(y, h) /\ h[m] = c
       /\ \A s : DeclAt(h, m, s) = DeclAfter(y, Len(y), s)
  <2>1. /\ Len(h) = Len(y) + 1 /\ h[Len(y) + 1] = c /\ Starts(y, h)
        /\ \A s : DeclAt(h, Len(h), s) = DeclAfter(y, Len(y), s)
    <3>1. /\ IsLine(c) /\ LineSound(c) /\ DeclSound(c) /\ c.k # "module"
          /\ Sound(y) /\ AddsLine(h, y, c)
      BY <1>3, <1>6, <1>8
    <3> QED
      BY <3>1, SoundMore
  <2> QED
    BY <1>9, <2>1
<1>12. j \in Nat \ {0} /\ j \in 0 .. Len(y) /\ j \in 1 .. Len(y) /\ j \in 1 .. Len(h) /\ m \in 1 .. Len(h)
  BY <1>9, <1>10, <1>11
<1>13. h[j] = b /\ \A s : DeclAt(h, j, s) = DeclAt(y, j, s)
  <2>1. h[j] = y[j]
    BY <1>9, <1>11, <1>12 DEF Starts
  <2> QED
    BY <1>10, <1>11, <1>12, <2>1, StartDecls
<1>14. WidthAt(h, j, w) = width
  BY <1>3, <1>10, <1>13 DEF Scoped, WidthAt
<1>15. ASSUME NEW s, Alien(s, p)
       PROVE  DeclAt(h, j, s) = DeclAt(f, n, s) /\ DeclAt(h, m, s) = DeclAt(f, n, s)
  <2>1. DeclAt(f, n, s) = DeclAfter(f, n - 1, s)
    BY <1>1, ReadDecls
  <2>2. /\ DeclAfter(x, Len(x), s) = DeclAfter(f, n - 1, s)
        /\ DeclAfter(y, Len(y), s) = DeclAfter(f, n - 1, s)
    BY <1>7, <1>15 DEF OutPassed
  <2> QED
    BY <1>10, <1>11, <1>13, <2>1, <2>2
<1>16. SameScope(h, j, f, n, p) /\ SameScope(h, m, f, n, p)
  BY <1>15 DEF SameScope
<1>17. Holds(h, j, p)
  <2>1. PICK elems : elems = l[side].elems
    OBVIOUS
  <2>2. AllPacked(elems)
    BY <1>1, <2>1 DEF LineSound, OperandSound
  <2>3. h[j].left.elems = elems /\ WidthAt(h, j, h[j].dst) = width
    BY <1>3, <1>13, <1>14, <2>1
  <2> QED
    BY <1>8, <1>12, <1>16, <2>1, <2>2, <2>3, WidthHolds
<1>18. Hoisted(f, n, h, m, p, side, j)
  BY <1>2, <1>3, <1>11, <1>13, <1>16, <1>17 DEF Hoisted
<1>19. ASSUME NEW other \in {"left", "right"} PROVE SidePassed(f, n, h, m, p, other)
  <2>1. CASE other = side
    BY <1>12, <1>18, <2>1 DEF SidePassed
  <2>2. CASE other # side
    <3>1. h[m][other] = f[n][other]
      BY <1>3, <1>11, <2>2
    <3> QED
      BY <3>1 DEF SidePassed, PassedOperand
  <2> QED
    BY <2>1, <2>2
<1>20. LinePassed(f, n, h, m, p)
  BY <1>1, <1>3, <1>11, <1>16, <1>19 DEF LinePassed
<1>21. OutPassed(f, p, h, n + 1)
  BY <1>1, <1>7, <1>12, <1>20, NextLine
<1>22. ASSUME Elemental(g), LineElemental(l) PROVE Elemental(h)
  <2>1. Elemental(x)
    BY <1>3, <1>5, <1>6, <1>22, ElementalMore
  <2>2. Elemental(y)
    BY <1>3, <1>6, <1>8, <1>22, <2>1, ElementalMore
  <2> QED
    BY <1>3, <1>6, <1>8, <1>22, <2>2, ElementalMore
<1> QED
  BY <1>21, <1>22 DEF Stepped

\* Compression writes one line for one.
LEMMA CompressCarries ==
  ASSUME NEW l, IsLine(l)
  PROVE  \E m : Compress(l) = <<m>> /\ Carried(l, m, "compress")
<1>1. CASE l.k = "assign"
  <2>1. /\ l = Assign(l.dst, l.left, l.op, l.right)
        /\ IsSequence(l.left.elems) /\ IsSequence(l.right.elems)
    BY <1>1, AssignParts
  <2>2. PICK dst, left, op, right : dst = l.dst /\ left = l.left /\ op = l.op /\ right = l.right
    OBVIOUS
  <2>3. PICK x, y : x = CompressBracket(left) /\ y = CompressBracket(right)
    OBVIOUS
  <2>4. PICK m : m = Assign(dst, x, op, y)
    OBVIOUS
  <2>5. [l EXCEPT !.left = x, !.right = y] = m
    <3>1. l = [f \in Fields |-> AssignField(dst, left, op, right, f)]
      BY <2>1, <2>2, AssignFunction
    <3>2. [l EXCEPT !.left = x, !.right = y] = [f \in Fields |-> AssignField(dst, x, op, y, f)]
      BY <3>1 DEF Fields, AssignField
    <3> QED
      BY <2>4, <3>2, AssignFunction
  <2>6. Compress(l) = <<m>>
    BY <1>1, <2>2, <2>3, <2>5 DEF Compress
  <2>7. IsSequence(x.elems) /\ IsSequence(y.elems)
    BY <2>1, <2>2, <2>3, CompressedIsSequence
  <2>8. IsLine(m) /\ m.k = "assign" /\ m.dst = dst /\ m.left = x /\ m.op = op /\ m.right = y
    <3>1. IsLine(m)
      BY <2>4, <2>7, AssignIsLine
    <3> QED
      BY <2>4, <3>1, AssignFields
  <2>9. Carried(l, m, "compress")
    BY <1>1, <2>2, <2>3, <2>8 DEF Carried, PassedOperand
  <2> QED
    BY <2>6, <2>9
<1>2. CASE l.k # "assign"
  <2>1. Compress(l) = <<l>>
    BY <1>2 DEF Compress
  <2>2. Carried(l, l, "compress")
    BY <1>2 DEF Carried
  <2> QED
    BY <2>1, <2>2
<1> QED
  BY <1>1, <1>2

\* An expand pass measures what it hoists; the reduction pass counts its elements.
LEMMA HoistSuffices ==
  ASSUME NEW f, Sound(f), NEW n \in 1 .. Len(f), NEW p \in {"left", "right", "reduction"},
         NEW number, Treats(p, f[n]), NEW new, new = Rewrite(p, f, n, number), new # <<Error>>
  PROVE  \E side \in {"left", "right"} : \E width :
           /\ IsOperation(f[n]) /\ f[n][side].braces /\ (p = "reduction" => side = "right")
           /\ Suffices(f, n, f[n][side].elems, p, width)
           /\ new = Hoist(f[n], f, n, p, number, side, width)
<1>1. PICK l : l = f[n]
  OBVIOUS
<1>2. LineSound(l) /\ IsLine(l) /\ InFile(f, n)
  BY <1>1, SoundLines, SequenceLength DEF InFile, Sound, IsFile
<1>3. ASSUME NEW side \in {"left", "right"}, IsOperation(l), l[side].braces,
             new = Measured(l, f, n, p, number, side), p # "reduction"
      PROVE  \E width : /\ Suffices(f, n, l[side].elems, p, width)
                        /\ new = Hoist(l, f, n, p, number, side, width)
  <2>1. PICK elems : elems = l[side].elems
    OBVIOUS
  <2>2. AllPacked(elems)
    BY <1>2, <1>3, <2>1 DEF LineSound, OperandSound, IsOperation
  <2>3. \A i \in 1 .. Len(elems) : Measurable(elems[i])
    BY <1>3, <2>1 DEF Measured
  <2>4. PICK width : width = BracketWidth(f, n, elems)
    OBVIOUS
  <2>5. width \in Nat /\ (Matching(f, n, elems) => Len(BitsOf(NoWires, f, n, elems)) = width)
    BY <1>2, <2>2, <2>3, <2>4, BracketWidthHolds
  <2>6. Suffices(f, n, elems, p, width)
    BY <1>3, <2>5 DEF Suffices
  <2>7. new = Hoist(l, f, n, p, number, side, width)
    BY <1>3, <2>1, <2>3, <2>4 DEF Measured
  <2> QED
    BY <2>1, <2>6, <2>7
<1>4. CASE p = "left"
  <2>1. IsOperation(l) /\ l["left"].braces
    BY <1>1, <1>4 DEF Treats, ExpandsLeft, Long
  <2>2. new = Measured(l, f, n, p, number, "left")
    BY <1>1, <1>4 DEF Rewrite
  <2>3. PICK side \in {"left", "right"} : side = "left"
    OBVIOUS
  <2>4. \E width : /\ Suffices(f, n, l[side].elems, p, width)
                   /\ new = Hoist(l, f, n, p, number, side, width)
    BY <1>3, <1>4, <2>1, <2>2, <2>3
  <2> QED
    BY <1>1, <1>4, <2>1, <2>3, <2>4
<1>5. CASE p = "right"
  <2>1. IsOperation(l) /\ l["right"].braces
    BY <1>1, <1>5 DEF Treats, ExpandsRight, Long
  <2>2. new = Measured(l, f, n, p, number, "right")
    BY <1>1, <1>5 DEF Rewrite
  <2>3. PICK side \in {"left", "right"} : side = "right"
    OBVIOUS
  <2>4. \E width : /\ Suffices(f, n, l[side].elems, p, width)
                   /\ new = Hoist(l, f, n, p, number, side, width)
    BY <1>3, <1>5, <2>1, <2>2, <2>3
  <2> QED
    BY <1>1, <1>5, <2>1, <2>3, <2>4
<1>6. CASE p = "reduction"
  <2>1. IsOperation(l) /\ l["right"].braces
    BY <1>1, <1>6 DEF Treats, ExpandsReduction, Long
  <2>2. PICK width : width = Len(l.right.elems)
    OBVIOUS
  <2>3. new = Hoist(l, f, n, p, number, "right", width)
    BY <1>1, <1>6, <2>2 DEF Rewrite
  <2>4. width \in Nat
    BY <1>2, <2>1, <2>2, AssignParts, SequenceLength DEF IsOperation
  <2>5. Suffices(f, n, l["right"].elems, p, width)
    BY <1>6, <2>2, <2>4 DEF Suffices
  <2> QED
    BY <1>1, <2>1, <2>3, <2>5
<1> QED
  BY <1>4, <1>5, <1>6

\* Whatever the pass does to line n, it keeps its values and those of the lines before.
LEMMA StepPassed ==
  ASSUME NEW f, Sound(f), NEW n \in 1 .. Len(f), NEW p \in {"left", "right", "reduction", "compress"},
         NEW number, NEW g, OutPassed(f, p, g, n), NEW new, new = Rewrite(p, f, n, number),
         new # <<Error>>, NEW h, JoinOf(h, g, new), p = "compress" => LineElemental(f[n])
  PROVE  Stepped(f, p, g, n, h)
<1>1. PICK l : l = f[n]
  OBVIOUS
<1>2. IsLine(l) /\ LineSound(l) /\ DeclSound(l) /\ Sound(g)
  BY <1>1, SoundLines DEF OutPassed
<1>3. CASE p = "compress"
  <2>1. PICK m : Compress(l) = <<m>> /\ Carried(l, m, "compress")
    BY <1>2, CompressCarries
  <2>2. new = Compress(l)
    BY <1>1, <1>3 DEF Rewrite
  <2>3. AddsLine(h, g, m) /\ Carried(f[n], m, p)
    BY <1>1, <1>3, <2>1, <2>2 DEF AddsLine, JoinOf
  <2>4. OutPassed(f, p, h, n + 1)
    BY <2>3, CarriedStep
  <2> QED
    BY <1>3, <2>4 DEF Stepped
<1>4. CASE p # "compress" /\ ~Treats(p, l)
  <2>1. new = <<l>>
    BY <1>1, <1>4 DEF Rewrite
  <2>2. Carried(f[n], l, p)
    BY <1>1, <1>2, <1>4 DEF Carried, PassedOperand
  <2>3. AddsLine(h, g, l)
    BY <2>1 DEF AddsLine, JoinOf
  <2>4. OutPassed(f, p, h, n + 1)
    BY <2>2, <2>3, CarriedStep
  <2>5. Elemental(g) /\ LineElemental(l) => Elemental(h)
    BY <1>2, <2>3, ElementalMore
  <2> QED
    BY <1>1, <2>4, <2>5 DEF Stepped
<1>5. CASE p # "compress" /\ Treats(p, l)
  <2>1. p \in {"left", "right", "reduction"}
    BY <1>5
  <2>2. PICK side \in {"left", "right"} : \E width :
           /\ IsOperation(l) /\ l[side].braces /\ (p = "reduction" => side = "right")
           /\ Suffices(f, n, l[side].elems, p, width)
           /\ new = Hoist(l, f, n, p, number, side, width)
    BY <1>1, <1>5, <2>1, HoistSuffices
  <2>3. PICK width :
           /\ IsOperation(l) /\ l[side].braces /\ (p = "reduction" => side = "right")
           /\ Suffices(f, n, l[side].elems, p, width)
           /\ new = Hoist(l, f, n, p, number, side, width)
    BY <2>2
  <2> QED
    BY <1>1, <2>1, <2>3, HoistStep
<1> QED
  BY <1>3, <1>4, <1>5

-----------------------------------------------------------------------------
(* What the passes A keep of the values of line n of o, a file that no pass has seen. *)
Packed(A, x) == IF "compress" \in A THEN CompressBracket(x) ELSE x

\* Line j of f drives a wire that stands for an operand of line n of o.
Stands(o, n, f, A, side, j) ==
  /\ Made(f[j].dst) /\ f[j].dst[1] \in A
  /\ f[j] = Assign(f[j].dst, Packed(A, o[n][side]), "none", NoOperand)
  /\ Native(f, j, o, n) /\ o[n][side].braces
  /\ Presumed(f[j].dst[1], o, n, o[n][side].elems) => Fits(f, j)
  /\ f[j].dst[1] = "reduction" => side = "right"
KeptSide(o, n, f, m, A, side) ==
  \/ f[m][side] = Packed(A, o[n][side])
  \/ \E j \in 1 .. Len(f) : f[m][side] = Plain(f[j].dst) /\ Stands(o, n, f, A, side, j)
KeptLine(o, n, f, m, A) ==
  /\ f[m].k = "assign" /\ f[m].dst = o[n].dst /\ f[m].op = o[n].op
  /\ Native(f, m, o, n)
  /\ \A side \in {"left", "right"} : KeptSide(o, n, f, m, A, side)

\* The passes that keep values, by themselves.
Valued == {"left", "right", "reduction", "compress"}

\* The passes that keep values, as long as they are not combined to lose them.
Good(A) == "divide" \notin A /\ ~("reduction" \in A /\ "compress" \in A)

\* Pass p has gone through f, to which A have been applied, and written g; B are those
\* applied now.
Through(f, A, p, g, B) ==
  /\ Sound(f) /\ Sound(g) /\ p \in Valued /\ p \notin A /\ B = A \cup {p} /\ Good(B)
  /\ OutPassed(f, p, g, Len(f) + 1)

LEMMA PackedMore ==
  ASSUME NEW A, NEW p, p \notin A, NEW B, B = A \cup {p}, NEW x
  PROVE  Packed(B, x) = PassedOperand(p, Packed(A, x))
BY DEF Packed, PassedOperand

LEMMA PassedThrough ==
  ASSUME NEW f, NEW A, NEW p, NEW g, NEW B, Through(f, A, p, g, B), NEW i \in 1 .. Len(f), f[i].k = "assign"
  PROVE  \E m \in 1 .. Len(g) : LinePassed(f, i, g, m, p)
<1>1. Len(f) \in Nat
  BY SequenceLength DEF Through, Sound, IsFile
<1>2. (Len(f) + 1) - 1 = Len(f)
  BY <1>1
<1> QED
  BY <1>2 DEF Through, OutPassed

LEMMA NativeThrough ==
  ASSUME NEW o, NEW n, NEW f, NEW m, NEW g, NEW i, NEW p \in Makers \cup {"compress"},
         Native(f, m, o, n), SameScope(g, i, f, m, p)
  PROVE  Native(g, i, o, n)
<1>1. Native(g, i, f, m)
  BY NativeOfScope
<1> QED
  BY <1>1 DEF Native

LEMMA ElementsArePacked ==
  ASSUME NEW elems, AllElements(elems) PROVE AllPacked(elems)
BY DEF AllElements, AllPacked, IsPacked

LEMMA InSound ==
  ASSUME NEW f, Sound(f), NEW n \in 1 .. Len(f) PROVE InFile(f, n)
BY SequenceLength DEF Sound, IsFile, InFile

\* The signals that stand whole in a packed concatenation did so before.
LEMMA WholeAfterRuns ==
  ASSUME NEW elems, AllPacked(elems), NEW k \in 1 .. Len(ReplaceDecr(elems)),
         ReplaceDecr(elems)[k].k = "sig"
  PROVE  \E i \in 1 .. Len(elems) : ReplaceDecr(elems)[k] = elems[i]
<1>1. PICK S : S = RunStarts(elems)
  OBVIOUS
<1>2. k \in 1 .. Cardinality(S)
  BY <1>1, RunsReplaced DEF AllPacked
<1>3. PICK e, a, b : /\ e = ReplaceDecr(elems)[k] /\ a = Begin(S, Len(elems), k)
                     /\ b = Begin(S, Len(elems), k + 1)
  OBVIOUS
<1>4. /\ a \in 1 .. Len(elems) /\ RunOfGroup(elems, a, b, e)
      /\ elems[a].k = "bit" => IsElement(elems[a])
  BY <1>1, <1>2, <1>3, RunGroup
<1>5. CASE elems[a].k = "bit"
  <2>1. PICK sig, start, n : e = Commit(sig, start, n)
    BY <1>4, <1>5 DEF RunOfGroup
  <2>2. e = Bit(sig, start) \/ e = Slice(sig, start + n - 1, start)
    BY <2>1 DEF Commit
  <2>3. Bit(sig, start).k = "bit" /\ Slice(sig, start + n - 1, start).k = "slice"
    BY DEF Bit, Slice
  <2> QED
    BY <1>3, <2>2, <2>3
<1>6. CASE elems[a].k # "bit"
  BY <1>3, <1>4, <1>6 DEF RunOfGroup
<1> QED
  BY <1>5, <1>6

LEMMA WholeAfterReps ==
  ASSUME NEW elems, AllElements(elems), NEW k \in 1 .. Len(ReplaceReps(elems)),
         ReplaceReps(elems)[k].k = "sig"
  PROVE  \E i \in 1 .. Len(elems) : ReplaceReps(elems)[k] = elems[i]
<1>1. PICK S : S = RepStarts(elems)
  OBVIOUS
<1>2. PICK e, a, b : /\ e = ReplaceReps(elems)[k] /\ a = Begin(S, Len(elems), k)
                     /\ b = Begin(S, Len(elems), k + 1)
  OBVIOUS
<1>3. /\ k \in 1 .. Cardinality(S) /\ S \subseteq 1 .. Len(elems) /\ Len(elems) \in Nat
      /\ RepOfGroup(elems, a, b, e)
  BY <1>1, <1>2, RepsReplaced, SequenceLength DEF AllElements
<1>4. Group(S, Len(elems), a, b)
  BY <1>2, <1>3, GroupsInOrder
<1>5. a \in 1 .. Len(elems)
  BY <1>3, <1>4 DEF Group
<1>6. e = elems[a] \/ e = Rep(b - a, elems[a])
  BY <1>3 DEF RepOfGroup
<1>7. Rep(b - a, elems[a]).k = "rep"
  BY RepFields
<1> QED
  BY <1>2, <1>5, <1>6, <1>7

LEMMA WholeBefore ==
  ASSUME NEW A, NEW x, AllElements(x.elems), NEW new, new = Packed(A, x).elems,
         NEW k \in 1 .. Len(new), new[k].k = "sig"
  PROVE  \E i \in 1 .. Len(x.elems) : new[k] = x.elems[i]
<1>1. CASE "compress" \in A /\ x.braces
  <2>1. PICK r : r = ReplaceReps(x.elems)
    OBVIOUS
  <2>2. AllPacked(r)
    BY <2>1, RepsArePacked
  <2>3. new = ReplaceDecr(r)
    BY <1>1, <2>1 DEF Packed, CompressBracket, Braced
  <2>4. PICK j \in 1 .. Len(r) : new[k] = r[j]
    BY <2>2, <2>3, WholeAfterRuns
  <2>5. r[j].k = "sig"
    BY <2>4
  <2>6. \E i \in 1 .. Len(x.elems) : r[j] = x.elems[i]
    BY <2>1, <2>5, WholeAfterReps
  <2> QED
    BY <2>4, <2>6
<1>2. CASE ~("compress" \in A /\ x.braces)
  <2>1. new = x.elems
    BY <1>2 DEF Packed, CompressBracket
  <2> QED
    BY <2>1
<1> QED
  BY <1>1, <1>2

\* What a pass supposes of an operand, it finds in what the other passes have left of it.
LEMMA PresumedPacked ==
  ASSUME NEW p, NEW o, NEW n, NEW A, p = "reduction" => "compress" \notin A,
         NEW x, AllElements(x.elems), Presumed(p, o, n, x.elems),
         NEW g, NEW j, Native(g, j, o, n)
  PROVE  Presumed(p, g, j, Packed(A, x).elems)
<1>1. PICK new : new = Packed(A, x).elems
  OBVIOUS
<1>2. CASE p = "reduction"
  <2>1. new = x.elems /\ OneBits(o, n, x.elems)
    BY <1>1, <1>2 DEF Packed, Presumed
  <2>2. \A i \in 1 .. Len(x.elems) :
          ElementBits(NoWires, g, j, x.elems[i]) = ElementBits(NoWires, o, n, x.elems[i])
    BY ElementsArePacked, NoWiresIsEmpty, BitsAgree
  <2>3. OneBits(g, j, new)
    BY <2>1, <2>2 DEF OneBits
  <2> QED
    BY <1>1, <1>2, <2>3 DEF Presumed
<1>3. CASE p # "reduction"
  <2>1. ASSUME NEW k \in 1 .. Len(new), new[k].k = "sig" PROVE DeclAt(g, j, new[k].sig).matches
    <3>1. PICK i \in 1 .. Len(x.elems) : new[k] = x.elems[i]
      BY <1>1, <2>1, WholeBefore
    <3>2. PICK e : e = x.elems[i] /\ IsElement(e)
      BY DEF AllElements
    <3>3. e.k = "sig" /\ ~Made(e.sig)
      BY <2>1, <3>1, <3>2, ElementKinds
    <3>4. DeclAt(o, n, e.sig).matches
      BY <1>3, <3>2, <3>3 DEF Presumed, Matching
    <3>5. DeclAt(g, j, e.sig) = DeclAt(o, n, e.sig)
      BY <3>3 DEF Native
    <3> QED
      BY <3>1, <3>2, <3>4, <3>5
  <2>2. Matching(g, j, new)
    BY <2>1 DEF Matching
  <2> QED
    BY <1>1, <1>3, <2>2 DEF Presumed
<1> QED
  BY <1>2, <1>3

\* A wire that fits an operand fits it after a pass.
LEMMA FitsThrough ==
  ASSUME NEW f, NEW A, NEW p, NEW g, NEW B, Through(f, A, p, g, B),
         NEW x, AllElements(x.elems), NEW j \in 1 .. Len(f), NEW i \in 1 .. Len(g),
         NEW w, Made(w), w[1] \in A, f[j].dst = w, g[i].dst = w,
         f[j].left = Packed(A, x), g[i].left = Packed(B, x),
         AllPacked(f[j].left.elems), SameScope(g, i, f, j, p), Fits(f, j)
  PROVE  Fits(g, i)
<1>1. /\ p \in Makers \cup {"compress"} /\ p \notin A /\ B = A \cup {p} /\ InFile(f, j) /\ InFile(g, i)
  BY InSound DEF Through, Valued, Makers
<1>2. Native(g, i, f, j)
  BY <1>1, NativeOfScope
<1>3. WidthAt(g, i, w) = WidthAt(f, j, w)
  BY <1>1 DEF SameScope, Alien, WidthAt
<1>4. PICK old, new : old = f[j].left.elems /\ new = g[i].left.elems
  OBVIOUS
<1>5. BitsOf(NoWires, g, i, old) = BitsOf(NoWires, f, j, old)
  BY <1>2, <1>4, NoWiresIsEmpty, BitsAgree
<1>6. Len(BitsOf(NoWires, g, i, new)) = Len(BitsOf(NoWires, g, i, old))
  <2>1. CASE p # "compress"
    BY <1>1, <1>4, <2>1 DEF Packed
  <2>2. CASE p = "compress"
    <3>1. old = x.elems /\ new = CompressBracket(x).elems
      BY <1>1, <1>4, <2>2 DEF Packed
    <3> QED
      BY <1>1, <3>1, NoWiresIsEmpty, CompressionKeeps
  <2> QED
    BY <2>1, <2>2
<1> QED
  BY <1>3, <1>4, <1>5, <1>6 DEF Fits

\* The operand is made of elements.
OfElements(o, n, side) == AllElements(o[n][side].elems)

\* A wire, an operand and a line stay what they are when a later pass goes through.
LEMMA StandsThrough ==
  ASSUME NEW o, NEW n, NEW f, NEW A, NEW p, NEW g, NEW B, Through(f, A, p, g, B),
         NEW side, OfElements(o, n, side),
         NEW j \in 1 .. Len(f), Stands(o, n, f, A, side, j)
  PROVE  \E i \in 1 .. Len(g) : g[i].dst = f[j].dst /\ Stands(o, n, g, B, side, i)
<1>1. PICK w, x : w = f[j].dst /\ x = o[n][side]
  OBVIOUS
<1>2. PICK old, none : old = Packed(A, x) /\ none = "none"
  OBVIOUS
<1>3. f[j] = Assign(w, old, none, NoOperand) /\ Made(w) /\ w[1] \in A
  BY <1>1, <1>2 DEF Stands
<1>4. /\ f[j].k = "assign" /\ f[j].left = old /\ f[j].op = none /\ f[j].right = NoOperand
      /\ ~IsOperation(f[j])
  <2>1. /\ f[j].k = "assign" /\ f[j].left = old /\ f[j].op = none /\ f[j].right = NoOperand
    BY <1>3, AssignFields
  <2> QED
    BY <1>2, <2>1 DEF IsOperation
<1>5. p \in Makers \cup {"compress"} /\ p \notin A /\ B = A \cup {p}
  BY DEF Through, Valued, Makers
<1>6. PICK i \in 1 .. Len(g) : LinePassed(f, j, g, i, p)
  BY <1>4, PassedThrough
<1>7. /\ g[i].k = "assign" /\ g[i].dst = w /\ g[i].op = none /\ SameScope(g, i, f, j, p)
      /\ g[i]["left"] = PassedOperand(p, f[j]["left"])
      /\ g[i]["right"] = PassedOperand(p, f[j]["right"])
  BY <1>1, <1>4, <1>6 DEF LinePassed, SidePassed
<1>8. PICK new : new = Packed(B, x)
  OBVIOUS
<1>9. g[i].left = new
  BY <1>2, <1>4, <1>5, <1>7, <1>8, PackedMore
<1>10. g[i].right = NoOperand
  <2>1. ~NoOperand.braces
    BY PlainOperand
  <2>2. PassedOperand(p, NoOperand) = NoOperand
    BY <2>1 DEF PassedOperand, CompressBracket
  <2> QED
    BY <1>4, <1>7, <2>2
<1>11. g[i] = Assign(w, new, none, NoOperand)
  <2>1. IsLine(g[i])
    BY DEF Through, Sound, IsFile
  <2> QED
    BY <1>7, <1>9, <1>10, <2>1, AssignParts
<1>12. Native(g, i, o, n)
  BY <1>5, <1>7, NativeThrough DEF Stands
<1>13. AllPacked(f[j].left.elems)
  <2>1. LineSound(f[j])
    BY DEF Through, Sound
  <2> QED
    BY <1>1, <1>3, <1>4, <2>1 DEF LineSound, OperandSound
<1>14. AllElements(x.elems)
  BY <1>1 DEF OfElements
<1>15. Fits(f, j) => Fits(g, i)
  BY <1>1, <1>2, <1>3, <1>4, <1>7, <1>8, <1>9, <1>13, <1>14, FitsThrough
<1>16. Stands(o, n, g, B, side, i)
  BY <1>1, <1>2, <1>3, <1>5, <1>7, <1>8, <1>11, <1>12, <1>15 DEF Stands
<1> QED
  BY <1>1, <1>7, <1>16

LEMMA PackedBraces ==
  ASSUME NEW A, NEW x PROVE Packed(A, x).braces <=> x.braces
BY DEF Packed, CompressBracket, Braced

LEMMA SideThrough ==
  ASSUME NEW o, NEW n, NEW f, NEW A, NEW p, NEW g, NEW B, Through(f, A, p, g, B),
         NEW side \in {"left", "right"}, OfElements(o, n, side),
         NEW m \in 1 .. Len(f), NEW i \in 1 .. Len(g), Native(f, m, o, n),
         KeptSide(o, n, f, m, A, side), SidePassed(f, m, g, i, p, side)
  PROVE  KeptSide(o, n, g, i, B, side)
<1>1. p \in Makers \cup {"compress"} /\ p \notin A /\ B = A \cup {p}
  BY DEF Through, Valued, Makers
<1>2. PICK x : x = o[n][side]
  OBVIOUS
<1>3. CASE f[m][side] = Packed(A, x)
  <2>1. CASE g[i][side] = PassedOperand(p, f[m][side])
    <3>1. g[i][side] = Packed(B, x)
      BY <1>1, <1>3, <2>1, PackedMore
    <3> QED
      BY <1>2, <3>1 DEF KeptSide
  <2>2. CASE f[m][side].braces /\ \E j \in 1 .. Len(g) : Hoisted(f, m, g, i, p, side, j)
    <3>1. PICK j \in 1 .. Len(g) : Hoisted(f, m, g, i, p, side, j)
      BY <2>2
    <3>2. PICK w : w = g[j].dst
      OBVIOUS
    <3>3. /\ Made(w) /\ w[1] = p /\ g[i][side] = Plain(w)
          /\ g[j] = Assign(w, f[m][side], "none", NoOperand)
          /\ SameScope(g, j, f, m, p) /\ Holds(g, j, p) /\ (p = "reduction" => side = "right")
      BY <3>1, <3>2 DEF Hoisted
    <3>4. p # "compress"
      BY <3>3 DEF Made
    <3>5. Packed(B, x) = Packed(A, x)
      BY <1>1, <3>4 DEF Packed
    <3>6. g[j] = Assign(w, Packed(B, x), "none", NoOperand)
      BY <1>3, <3>3, <3>5
    <3>7. Native(g, j, o, n)
      BY <1>1, <3>3, NativeThrough
    <3>8. x.braces
      BY <1>3, <2>2, PackedBraces
    <3>9. g[j].left = Packed(B, x)
      BY <3>6, AssignFields
    <3>10. ASSUME Presumed(p, o, n, x.elems) PROVE Fits(g, j)
      <4>1. p = "reduction" => "compress" \notin B
        BY <1>1 DEF Through, Good
      <4>2. AllElements(x.elems)
        BY <1>2 DEF OfElements
      <4>3. Presumed(p, g, j, g[j].left.elems)
        BY <3>7, <3>9, <3>10, <4>1, <4>2, PresumedPacked
      <4> QED
        BY <3>3, <4>3 DEF Holds
    <3>11. Stands(o, n, g, B, side, j)
      BY <1>1, <1>2, <3>2, <3>3, <3>6, <3>7, <3>8, <3>10 DEF Stands
    <3> QED
      BY <3>2, <3>3, <3>11 DEF KeptSide
  <2> QED
    BY <2>1, <2>2 DEF SidePassed
<1>4. CASE \E j \in 1 .. Len(f) : f[m][side] = Plain(f[j].dst) /\ Stands(o, n, f, A, side, j)
  <2>1. PICK j \in 1 .. Len(f) : f[m][side] = Plain(f[j].dst) /\ Stands(o, n, f, A, side, j)
    BY <1>4
  <2>2. PICK w, plain : w = f[j].dst /\ plain = Plain(w)
    OBVIOUS
  <2>3. ~plain.braces
    BY <2>2, PlainOperand
  <2>4. g[i][side] = PassedOperand(p, plain)
    BY <2>1, <2>2, <2>3 DEF SidePassed
  <2>5. g[i][side] = plain
    BY <2>3, <2>4 DEF PassedOperand, CompressBracket
  <2>6. PICK k \in 1 .. Len(g) : g[k].dst = w /\ Stands(o, n, g, B, side, k)
    <3>1. Stands(o, n, f, A, side, j)
      BY <2>1
    <3>2. PICK k \in 1 .. Len(g) : g[k].dst = f[j].dst /\ Stands(o, n, g, B, side, k)
      BY <3>1, StandsThrough
    <3> QED
      BY <2>2, <3>2
  <2>7. g[i][side] = Plain(g[k].dst)
    BY <2>2, <2>5, <2>6
  <2> QED
    BY <2>6, <2>7 DEF KeptSide
<1> QED
  BY <1>2, <1>3, <1>4 DEF KeptSide

LEMMA LineThrough ==
  ASSUME NEW o, NEW n, \A side \in {"left", "right"} : OfElements(o, n, side),
         NEW f, NEW A, NEW p, NEW g, NEW B, Through(f, A, p, g, B),
         NEW m \in 1 .. Len(f), KeptLine(o, n, f, m, A)
  PROVE  \E i \in 1 .. Len(g) : KeptLine(o, n, g, i, B)
<1>1. f[m].k = "assign" /\ Native(f, m, o, n)
  BY DEF KeptLine
<1>2. PICK i \in 1 .. Len(g) : LinePassed(f, m, g, i, p)
  BY <1>1, PassedThrough
<1>3. Native(g, i, o, n)
  BY <1>1, <1>2, NativeThrough DEF LinePassed, Through, Valued, Makers
<1>4. ASSUME NEW side \in {"left", "right"} PROVE KeptSide(o, n, g, i, B, side)
  <2>1. SidePassed(f, m, g, i, p, side) /\ KeptSide(o, n, f, m, A, side)
    BY <1>2 DEF LinePassed, KeptLine
  <2>2. OfElements(o, n, side)
    OBVIOUS
  <2> QED
    BY <1>1, <2>1, <2>2, SideThrough
<1>5. KeptLine(o, n, g, i, B)
  BY <1>2, <1>3, <1>4 DEF LinePassed, KeptLine
<1> QED
  BY <1>5

-----------------------------------------------------------------------------
(* The invariant. *)
FileValues(o, f, A) ==
  Good(A) =>
    /\ Sound(f) /\ ("compress" \notin A => Elemental(f))
    /\ \A n \in Assignments(o) : \E m \in 1 .. Len(f) : KeptLine(o, n, f, m, A)
OutValues(f, A, p, g, n) ==
  Good(A \cup {p}) =>
    /\ OutPassed(f, p, g, n) /\ ("compress" \notin A \cup {p} => Elemental(g))

LEMMA OriginElements ==
  ASSUME NEW f \in Files, NEW n \in Assignments(f)
  PROVE  /\ \A side \in {"left", "right"} : OfElements(f, n, side)
         /\ LineSound(f[n]) /\ LineElemental(f[n])
<1>1. PICK l : l = f[n]
  OBVIOUS
<1>2. l \in Lines(f) /\ l.k = "assign"
  BY <1>1 DEF Lines, Assignments
<1>3. /\ IsLine(l) /\ ~Made(l.dst)
      /\ \A i \in 1 .. Len(l.left.elems) : IsElement(l.left.elems[i])
      /\ \A i \in 1 .. Len(l.right.elems) : IsElement(l.right.elems[i])
  BY <1>2, OriginLines
<1>4. AllElements(l.left.elems) /\ AllElements(l.right.elems)
  BY <1>2, <1>3, AssignParts DEF AllElements
<1>5. AllPacked(l.left.elems) /\ AllPacked(l.right.elems)
  BY <1>4, ElementsArePacked
<1>6. LineSound(l) /\ LineElemental(l)
  BY <1>3, <1>4, <1>5 DEF LineSound, LineElemental, OperandSound
<1>7. ASSUME NEW side \in {"left", "right"} PROVE OfElements(f, n, side)
  BY <1>1, <1>4 DEF OfElements
<1> QED
  BY <1>1, <1>6, <1>7

LEMMA ValuesStart ==
  ASSUME NEW o \in Files, IsFile(o) PROVE FileValues(o, o, {})
<1>1. ASSUME NEW i \in 1 .. Len(o)
      PROVE  LineSound(o[i]) /\ LineElemental(o[i]) /\ DeclSound(o[i])
  <2>1. PICK l : l = o[i]
    OBVIOUS
  <2>2. CASE l.k = "assign"
    <3>1. i \in Assignments(o)
      BY <2>1, <2>2 DEF Assignments
    <3> QED
      BY <2>1, <2>2, <3>1, OriginElements DEF DeclSound
  <2>3. CASE l.k # "assign"
    <3>1. l = ModuleLine \/ (l.k = "decl" /\ l.width \in Nat \ {0})
      BY <2>1, <2>3, FilesAssumption
    <3> QED
      BY <2>1, <2>3, <3>1 DEF LineSound, LineElemental, DeclSound, ModuleLine
  <2> QED
    BY <2>2, <2>3
<1>2. Widths(o)
  BY <1>1 DEF Widths, DeclSound
<1>3. Sound(o) /\ Elemental(o)
  BY <1>1, <1>2 DEF Sound, Elemental
<1>4. ASSUME NEW n \in Assignments(o) PROVE n \in 1 .. Len(o) /\ KeptLine(o, n, o, n, {})
  <2>1. n \in 1 .. Len(o) /\ o[n].k = "assign"
    BY DEF Assignments
  <2>2. Native(o, n, o, n)
    BY DEF Native
  <2>3. \A x : Packed({}, x) = x
    BY DEF Packed
  <2> QED
    BY <2>1, <2>2, <2>3 DEF KeptLine, KeptSide
<1> QED
  BY <1>3, <1>4 DEF FileValues

LEMMA NothingPassed ==
  ASSUME NEW f, NEW p, Sound(f)
  PROVE  OutPassed(f, p, <<>>, 1) /\ Elemental(<<>>)
<1>1. PICK g : g = <<>>
  OBVIOUS
<1>2. IsFile(g) /\ Len(g) = 0
  BY <1>1, EmptyFile
<1>3. \A i : i \notin 1 .. Len(g)
  BY <1>2
<1>4. Sound(g) /\ Elemental(g)
  BY <1>2, <1>3 DEF Sound, Widths, Elemental
<1>5. \A s : DeclAfter(g, Len(g), s) = DeclAfter(f, 1 - 1, s)
  <2>1. 1 - 1 = 0
    OBVIOUS
  <2> QED
    BY <1>2, <2>1, DeclAfterNothing
<1>6. \A i : i \notin 1 .. (1 - 1)
  OBVIOUS
<1>7. OutPassed(f, p, g, 1)
  BY <1>4, <1>5, <1>6 DEF OutPassed
<1> QED
  BY <1>1, <1>4, <1>7

\* What the passes keep of the values; the file and what a pass has written of it.
ValuesInv ==
  /\ origin \in Files
  /\ FileValues(origin, file, applied)
  /\ pass # "none" => OutValues(file, applied, pass, out, at)

LEMMA ValuesInit == Init => ValuesInv
<1> SUFFICES ASSUME Init PROVE ValuesInv
  OBVIOUS
<1>1. origin \in Files /\ file = origin /\ pass = "none" /\ applied = {}
  BY DEF Init
<1>2. IsFile(origin)
  BY <1>1, InvInit DEF IInv, FileInv
<1>3. FileValues(origin, origin, {})
  BY <1>1, <1>2, ValuesStart
<1> QED
  BY <1>1, <1>3 DEF ValuesInv

LEMMA GoodBefore ==
  ASSUME NEW A, NEW p, Good(A \cup {p})
  PROVE  Good(A) /\ p # "divide"
BY DEF Good

LEMMA RunValues ==
  ASSUME NEW o, NEW f, NEW A, FileValues(o, f, A), NEW p
  PROVE  OutValues(f, A, p, <<>>, 1)
<1>1. ASSUME Good(A \cup {p}) PROVE OutPassed(f, p, <<>>, 1) /\ Elemental(<<>>)
  <2>1. Sound(f)
    BY <1>1, GoodBefore DEF FileValues
  <2> QED
    BY <2>1, NothingPassed
<1> QED
  BY <1>1 DEF OutValues

LEMMA LineValues ==
  ASSUME NEW o, NEW f, NEW A, FileValues(o, f, A), NEW p \in Passes, NEW g, NEW n \in 1 .. Len(f),
         OutValues(f, A, p, g, n), NEW k, NEW new, new = Rewrite(p, f, n, k), new # <<Error>>,
         NEW h, JoinOf(h, g, new), p \notin A
  PROVE  OutValues(f, A, p, h, n + 1)
<1> SUFFICES ASSUME Good(A \cup {p})
             PROVE  /\ OutPassed(f, p, h, n + 1)
                    /\ "compress" \notin A \cup {p} => Elemental(h)
  BY DEF OutValues
<1>1. Good(A) /\ p \in {"left", "right", "reduction", "compress"}
  BY GoodBefore, PassesAssumption
<1>2. Sound(f) /\ ("compress" \notin A => Elemental(f))
  BY <1>1 DEF FileValues
<1>3. OutPassed(f, p, g, n) /\ ("compress" \notin A \cup {p} => Elemental(g))
  BY DEF OutValues
<1>4. "compress" \notin A => LineElemental(f[n])
  BY <1>2 DEF Elemental
<1>5. p = "compress" => LineElemental(f[n])
  BY <1>4
<1>6. Stepped(f, p, g, n, h)
  BY <1>1, <1>2, <1>3, <1>5, StepPassed
<1>7. ASSUME "compress" \notin A \cup {p} PROVE Elemental(h)
  <2>1. p # "compress" /\ Elemental(g) /\ LineElemental(f[n])
    BY <1>3, <1>4, <1>7
  <2> QED
    BY <1>6, <2>1 DEF Stepped
<1> QED
  BY <1>6, <1>7 DEF Stepped

LEMMA WriteValues ==
  ASSUME NEW o \in Files, NEW f, NEW A, FileValues(o, f, A), NEW p \in Passes, p \notin A,
         NEW g, NEW n, n = Len(f) + 1, OutValues(f, A, p, g, n), NEW B, B = A \cup {p}
  PROVE  FileValues(o, g, B)
<1> SUFFICES ASSUME Good(B)
             PROVE  /\ Sound(g) /\ ("compress" \notin B => Elemental(g))
                    /\ \A i \in Assignments(o) : \E m \in 1 .. Len(g) : KeptLine(o, i, g, m, B)
  BY DEF FileValues
<1>1. Good(A \cup {p})
  OBVIOUS
<1>2. Good(A) /\ p \in {"left", "right", "reduction", "compress"}
  BY <1>1, GoodBefore, PassesAssumption
<1>3. Sound(f) /\ \A i \in Assignments(o) : \E m \in 1 .. Len(f) : KeptLine(o, i, f, m, A)
  BY <1>2 DEF FileValues
<1>4. OutPassed(f, p, g, n) /\ ("compress" \notin B => Elemental(g))
  BY <1>1 DEF OutValues
<1>5. Sound(g)
  BY <1>4 DEF OutPassed
<1>6. Through(f, A, p, g, B)
  BY <1>2, <1>3, <1>4, <1>5 DEF Through, Valued
<1>7. ASSUME NEW i \in Assignments(o) PROVE \E m \in 1 .. Len(g) : KeptLine(o, i, g, m, B)
  <2>1. \A side \in {"left", "right"} : OfElements(o, i, side)
    BY OriginElements
  <2>2. PICK m \in 1 .. Len(f) : KeptLine(o, i, f, m, A)
    BY <1>3
  <2> QED
    BY <1>6, <2>1, <2>2, LineThrough
<1> QED
  BY <1>4, <1>5, <1>7

LEMMA ValuesStep == ASSUME IInv, ValuesInv, [Next]_vars PROVE ValuesInv'
<1>1. origin' = origin /\ origin \in Files /\ FileValues(origin, file, applied)
  BY DEF ValuesInv, Next, Run, Line, Write, vars
<1>2. CASE \E p \in Passes : Run(p)
  <2>1. PICK p \in Passes : Run(p)
    BY <1>2
  <2>2. pass' = p /\ at' = 1 /\ out' = <<>> /\ UNCHANGED <<file, applied>>
    BY <2>1 DEF Run
  <2>3. OutValues(file, applied, p, <<>>, 1)
    BY <1>1, RunValues
  <2> QED
    BY <1>1, <2>2, <2>3 DEF ValuesInv
<1>3. CASE Line
  <2>1. UNCHANGED <<file, applied>> /\ pass # "none" /\ at <= Len(file)
    BY <1>3 DEF Line
  <2>2. PICK new : new = Rewrite(pass, file, at, treated)
    OBVIOUS
  <2>3. CASE new = <<Error>>
    <3>1. pass' = "none"
      BY <1>3, <2>2, <2>3 DEF Line
    <3> QED
      BY <1>1, <2>1, <3>1 DEF ValuesInv
  <2>4. CASE new # <<Error>>
    <3>1. out' = out \o new /\ at' = at + 1 /\ pass' = pass
      BY <1>3, <2>2, <2>4 DEF Line
    <3>2. at \in 1 .. Len(file) /\ pass \in Passes /\ pass \notin applied
      <4>1. Len(file) \in Nat /\ at >= 1 /\ at \in Nat
        BY <2>1, FileLength DEF IInv, Counters
      <4> QED
        BY <2>1, <4>1 DEF IInv, OutInv
    <3>3. PICK h : h = out \o new
      OBVIOUS
    <3>4. JoinOf(h, out, new)
      BY <3>3 DEF JoinOf
    <3>5. OutValues(file, applied, pass, out, at)
      BY <2>1 DEF ValuesInv
    <3>6. OutValues(file, applied, pass, h, at + 1)
      BY <1>1, <2>2, <2>4, <3>2, <3>4, <3>5, LineValues
    <3> QED
      BY <1>1, <2>1, <3>1, <3>3, <3>6 DEF ValuesInv
  <2> QED
    BY <2>3, <2>4
<1>4. CASE Write
  <2>1. /\ pass # "none" /\ at > Len(file) /\ pass' = "none" /\ file' = out
        /\ applied' = applied \cup {pass}
    BY <1>4 DEF Write
  <2>2. at = Len(file) + 1 /\ pass \in Passes /\ pass \notin applied
    BY <2>1, FileLength DEF IInv, Counters, OutInv
  <2>3. OutValues(file, applied, pass, out, at)
    BY <2>1 DEF ValuesInv
  <2>4. PICK B : B = applied \cup {pass}
    OBVIOUS
  <2>5. FileValues(origin, out, B)
    BY <1>1, <2>2, <2>3, <2>4, WriteValues
  <2> QED
    BY <1>1, <2>1, <2>4, <2>5 DEF ValuesInv
<1>5. CASE UNCHANGED vars
  BY <1>5 DEF ValuesInv, vars
<1> QED
  BY <1>2, <1>3, <1>4, <1>5 DEF Next

-----------------------------------------------------------------------------
(* What WireBits gives the wires, and what becomes of an operand with it. *)
\* The bits that line j gives the wire it drives.
BitsFor(T, f, j) == Resize(BitsOf(T, f, j, f[j].left.elems), WidthAt(f, j, f[j].dst))

LEMMA DriverIs ==
  ASSUME NEW f, NEW w \in Wires(f)
  PROVE  /\ DriverOf(f, w) \in 1 .. Len(f) /\ f[DriverOf(f, w)].k = "assign"
         /\ f[DriverOf(f, w)].dst = w /\ Made(w)
<1>1. PICK i \in 1 .. Len(f) : f[i].k = "assign" /\ Made(f[i].dst) /\ w = f[i].dst
  BY DEF Wires
<1>2. \E j \in 1 .. Len(f) : Drives(f[j], w)
  BY <1>1 DEF Drives
<1>3. DriverOf(f, w) \in 1 .. Len(f) /\ Drives(f[DriverOf(f, w)], w)
  BY <1>2 DEF DriverOf
<1> QED
  BY <1>1, <1>3 DEF Drives

LEMMA BitsForAny ==
  ASSUME NEW f, Sound(f), NEW j \in 1 .. Len(f), f[j].k = "assign", Made(f[j].dst),
         NEW T, OnlyMade(T)
  PROVE  BitsFor(T, f, j) = BitsFor(NoWires, f, j)
<1>1. PICK elems : elems = f[j].left.elems
  OBVIOUS
<1>2. AllPacked(elems)
  BY <1>1 DEF Sound, LineSound, OperandSound
<1>3. BitsOf(T, f, j, elems) = BitsOf(NoWires, f, j, elems)
  <2>1. Native(f, j, f, j)
    BY DEF Native
  <2> QED
    BY <1>2, <2>1, NoWiresIsEmpty, BitsAgree
<1> QED
  BY <1>1, <1>3 DEF BitsFor

LEMMA WireBitsSolve ==
  ASSUME NEW f, Sound(f), \A s : Made(s) => ~Twice(f, "assign", s), NEW wires, wires = WireBits(f)
  PROVE  /\ OnlyMade(wires)
         /\ \A j \in 1 .. Len(f) : f[j].k = "assign" /\ Made(f[j].dst) =>
              f[j].dst \in DOMAIN wires /\ wires[f[j].dst] = BitsFor(NoWires, f, j)
<1>1. PICK W : W = Wires(f)
  OBVIOUS
<1>2. \A w \in W : Made(w)
  BY <1>1, DriverIs
<1>3. PICK driver : driver = [w \in W |-> DriverOf(f, w)]
  OBVIOUS
<1>4. \A w \in W : /\ driver[w] \in 1 .. Len(f) /\ f[driver[w]].k = "assign"
                   /\ f[driver[w]].dst = w /\ driver[w] = DriverOf(f, w)
  BY <1>1, <1>3, DriverIs
<1>5. ASSUME NEW T, OnlyMade(T), NEW w \in W
      PROVE  BitsFor(T, f, driver[w]) = BitsFor(NoWires, f, driver[w])
  BY <1>2, <1>4, <1>5, BitsForAny
<1>6. \E T : T = [w \in W |-> BitsFor(T, f, driver[w])]
  <2>1. PICK T : T = [w \in W |-> BitsFor(NoWires, f, driver[w])]
    OBVIOUS
  <2>2. OnlyMade(T)
    BY <1>2, <2>1 DEF OnlyMade
  <2>3. T = [w \in W |-> BitsFor(T, f, driver[w])]
    BY <1>5, <2>1, <2>2
  <2> QED
    BY <2>3
<1>7. wires = CHOOSE T : T = [w \in W |-> BitsFor(T, f, driver[w])]
  <2>1. ASSUME NEW T
        PROVE  [w \in Wires(f) |->
                  LET n == DriverOf(f, w)
                  IN  Resize(BitsOf(T, f, n, f[n].left.elems), WidthAt(f, n, w))] =
                 [w \in W |-> BitsFor(T, f, driver[w])]
    BY <1>1, <1>4 DEF BitsFor
  <2> QED
    BY <2>1 DEF WireBits
<1>8. wires = [w \in W |-> BitsFor(wires, f, driver[w])]
  BY <1>6, <1>7
<1>9. DOMAIN wires = W /\ \A w \in W : wires[w] = BitsFor(wires, f, driver[w])
  BY <1>8
<1>10. OnlyMade(wires)
  BY <1>2, <1>9 DEF OnlyMade
<1>11. ASSUME NEW j \in 1 .. Len(f), f[j].k = "assign", Made(f[j].dst)
       PROVE  f[j].dst \in DOMAIN wires /\ wires[f[j].dst] = BitsFor(NoWires, f, j)
  <2>1. f[j].dst \in W
    BY <1>1, <1>11 DEF Wires
  <2>2. driver[f[j].dst] = j
    BY <1>4, <1>11, <2>1 DEF Twice, Says
  <2>3. wires[f[j].dst] = BitsFor(wires, f, j)
    BY <1>9, <2>1, <2>2
  <2> QED
    BY <1>9, <1>10, <1>11, <2>1, <2>3, BitsForAny
<1> QED
  BY <1>10, <1>11

\* A wire in the place of an operand has the wire's bits.
LEMMA BitsOfWire ==
  ASSUME NEW wires, NEW w \in DOMAIN wires, NEW f, NEW n
  PROVE  BitsOf(wires, f, n, Plain(w).elems) = wires[w]
<1>1. PICK e, x : e = Whole(w) /\ x = wires[w]
  OBVIOUS
<1>2. PICK s : s = <<e>>
  OBVIOUS
<1>3. DOMAIN s = {1} /\ s[1] = e /\ e.k = "sig" /\ e.sig = w
  BY <1>1, <1>2, OneElement, WholeParts
<1>4. ElementBits(wires, f, n, e) = x
  BY <1>1, <1>3 DEF ElementBits, TermBits
<1>5. [i \in DOMAIN s |-> ElementBits(wires, f, n, s[i])] = <<x>>
  <2>1. DOMAIN <<x>> = {1} /\ <<x>>[1] = x
    BY OneElement
  <2> QED
    BY <1>3, <1>4, <2>1
<1>6. BitsOf(wires, f, n, s) = x
  BY <1>5, FlattenOne DEF BitsOf
<1>7. Plain(w).elems = s
  BY <1>1, <1>2 DEF Plain
<1> QED
  BY <1>1, <1>6, <1>7

\* As many bits as there are stay what they are.
LEMMA ResizeKeeps ==
  ASSUME NEW b, IsSequence(b), NEW w, Len(b) = w
  PROVE  Resize(b, w) = b
<1>1. PICK n \in Nat : n = Len(b)
  BY SequenceLength
<1>2. n >= n /\ n - n + 1 = 1
  OBVIOUS
<1>3. Resize(b, w) = SubSeq(b, 1, n)
  BY <1>1, <1>2 DEF Resize
<1>4. SubSeq(b, 1, n) = b
  <2>1. PICK S : b \in Seq(S)
    BY DEF IsSequence
  <2> QED
    BY <1>1, <2>1, SubSeqFull
<1> QED
  BY <1>3, <1>4

\* An operand that has been packed, in its place or in a wire.
LEMMA PackedBits ==
  ASSUME NEW wires, OnlyMade(wires), NEW f, NEW m, InFile(f, m), NEW o, NEW n, Native(f, m, o, n),
         NEW A, NEW x, AllElements(x.elems), NEW y, y = Packed(A, x)
  PROVE  /\ Len(BitsOf(wires, f, m, y.elems)) = Len(BitsOf(NoWires, o, n, x.elems))
         /\ ("compress" \in A => ~HasDecreasingRun(x.elems)) =>
              BitsOf(wires, f, m, y.elems) = BitsOf(NoWires, o, n, x.elems)
<1>1. BitsOf(wires, f, m, x.elems) = BitsOf(NoWires, o, n, x.elems)
  BY ElementsArePacked, NoWiresIsEmpty, BitsAgree
<1>2. CASE "compress" \in A
  <2>1. y = CompressBracket(x)
    BY <1>2 DEF Packed
  <2>2. /\ Len(BitsOf(wires, f, m, y.elems)) = Len(BitsOf(wires, f, m, x.elems))
        /\ ~HasDecreasingRun(x.elems) =>
             BitsOf(wires, f, m, y.elems) = BitsOf(wires, f, m, x.elems)
    BY <2>1, CompressionKeeps
  <2> QED
    BY <1>1, <1>2, <2>2
<1>3. CASE "compress" \notin A
  BY <1>1, <1>3 DEF Packed
<1> QED
  BY <1>2, <1>3

\* The script finds the declarations of the signals that stand whole in braces.
Found(o, n, x) == x.braces => Matching(o, n, x.elems)

\* Line j of f gives its wire the bits of x, an operand of line n of o.
HasBits(f, j, o, n, x) == BitsFor(NoWires, f, j) = BitsOf(NoWires, o, n, x.elems)

\* A wire that stands for an operand has its bits: none is cut off, none added.
LEMMA WireHolds ==
  ASSUME NEW o, NEW n, NEW f, Sound(f), NEW A, Good(A), NEW side, NEW x, x = o[n][side],
         AllElements(x.elems), "compress" \in A => ~HasDecreasingRun(x.elems),
         "reduction" \in A /\ side = "right" => OneBits(o, n, x.elems),
         Found(o, n, x),
         NEW j \in 1 .. Len(f), Stands(o, n, f, A, side, j)
  PROVE  HasBits(f, j, o, n, x)
<1>1. PICK w, old, none : w = f[j].dst /\ old = Packed(A, x) /\ none = "none"
  OBVIOUS
<1>2. /\ f[j] = Assign(w, old, none, NoOperand) /\ Made(w) /\ w[1] \in A /\ Native(f, j, o, n)
      /\ x.braces /\ (Presumed(w[1], o, n, x.elems) => Fits(f, j))
      /\ w[1] = "reduction" => side = "right"
  BY <1>1 DEF Stands
<1>3. f[j].left = old
  BY <1>2, AssignFields
<1>4. InFile(f, j)
  BY InSound
<1>5. PICK bits : bits = BitsOf(NoWires, f, j, old.elems)
  OBVIOUS
<1>6. bits = BitsOf(NoWires, o, n, x.elems)
  BY <1>1, <1>2, <1>4, <1>5, NoWiresIsEmpty, PackedBits
<1>7. AllPacked(x.elems) /\ f[j].k = "assign"
  BY <1>2, ElementsArePacked, AssignFields
<1>8. AllPacked(old.elems)
  <2>1. LineSound(f[j])
    BY DEF Sound
  <2> QED
    BY <1>1, <1>2, <1>3, <1>7, <2>1 DEF LineSound, OperandSound
<1>9. IsSequence(bits)
  BY <1>4, <1>5, <1>8, NoWiresIsEmpty, BitSeqIs
<1>10. Presumed(w[1], o, n, x.elems)
  BY <1>2 DEF Presumed, Found
<1>11. PICK width : width = WidthAt(f, j, w)
  OBVIOUS
<1>12. Len(bits) = width
  BY <1>1, <1>2, <1>3, <1>5, <1>10, <1>11 DEF Fits
<1>13. BitsFor(NoWires, f, j) = Resize(bits, width)
  BY <1>1, <1>3, <1>5, <1>11 DEF BitsFor
<1> QED
  BY <1>6, <1>9, <1>12, <1>13, ResizeKeeps DEF HasBits

\* The bits of an operand, wherever it has gone.
LEMMA OperandBits ==
  ASSUME NEW o, NEW n, NEW f, Sound(f), NEW A, Good(A), NEW side, NEW x, x = o[n][side],
         AllElements(x.elems), "compress" \in A => ~HasDecreasingRun(x.elems),
         "reduction" \in A /\ side = "right" => OneBits(o, n, x.elems),
         Found(o, n, x),
         NEW m \in 1 .. Len(f), Native(f, m, o, n), KeptSide(o, n, f, m, A, side),
         NEW wires, OnlyMade(wires),
         \A j \in 1 .. Len(f) : f[j].k = "assign" /\ Made(f[j].dst) =>
           f[j].dst \in DOMAIN wires /\ wires[f[j].dst] = BitsFor(NoWires, f, j)
  PROVE  BitsOf(wires, f, m, f[m][side].elems) = BitsOf(NoWires, o, n, x.elems)
<1>1. InFile(f, m)
  BY InSound
<1>2. CASE f[m][side] = Packed(A, x)
  <2>1. PICK y : y = f[m][side]
    OBVIOUS
  <2>2. BitsOf(wires, f, m, y.elems) = BitsOf(NoWires, o, n, x.elems)
    BY <1>1, <1>2, <2>1, PackedBits
  <2> QED
    BY <2>1, <2>2
<1>3. CASE \E j \in 1 .. Len(f) : f[m][side] = Plain(f[j].dst) /\ Stands(o, n, f, A, side, j)
  <2>1. PICK j \in 1 .. Len(f) : f[m][side] = Plain(f[j].dst) /\ Stands(o, n, f, A, side, j)
    BY <1>3
  <2>2. PICK w : w = f[j].dst
    OBVIOUS
  <2>3. Made(w) /\ f[j].k = "assign"
    BY <2>1, <2>2, AssignFields DEF Stands
  <2>4. w \in DOMAIN wires /\ wires[w] = BitsFor(NoWires, f, j)
    BY <2>2, <2>3
  <2>5. BitsOf(wires, f, m, Plain(w).elems) = BitsFor(NoWires, f, j)
    BY <2>4, BitsOfWire
  <2>6. BitsFor(NoWires, f, j) = BitsOf(NoWires, o, n, x.elems)
    <3>1. Stands(o, n, f, A, side, j)
      BY <2>1
    <3>2. HasBits(f, j, o, n, x)
      BY <3>1, WireHolds
    <3> QED
      BY <3>2 DEF HasBits
  <2> QED
    BY <2>1, <2>2, <2>5, <2>6
<1> QED
  BY <1>2, <1>3 DEF KeptSide

-----------------------------------------------------------------------------
LEMMA WiresOfFile ==
  ASSUME IInv, Sound(file), NEW wires, wires = WireBits(file)
  PROVE  /\ OnlyMade(wires)
         /\ \A j \in 1 .. Len(file) : file[j].k = "assign" /\ Made(file[j].dst) =>
              file[j].dst \in DOMAIN wires /\ wires[file[j].dst] = BitsFor(NoWires, file, j)
<1>1. \A s : Made(s) => ~Twice(file, "assign", s)
  BY DEF IInv, FileInv, Kinds
<1> QED
  BY <1>1, WireBitsSolve

\* Compression changes no operand's width (compress_concats.py, replace_reps and
\* replace_decr), for any files and whatever the concatenations hold.
THEOREM WidthsStay == Spec => []WidthsKept
<1>1. IInv /\ ValuesInv => WidthsKept
  <2> SUFFICES ASSUME IInv, ValuesInv, pass = "none", applied = {"compress"},
                      NEW wires, wires = WireBits(file), NEW n \in Assignments(origin)
               PROVE  \E m \in 1 .. Len(file) : WidthLike(wires, file, m, n)
    BY DEF WidthsKept
  <2>1. Good(applied) /\ FileValues(origin, file, applied) /\ origin \in Files
    BY DEF Good, ValuesInv
  <2>2. Sound(file)
    BY <2>1 DEF FileValues
  <2>3. PICK m \in 1 .. Len(file) : KeptLine(origin, n, file, m, applied)
    BY <2>1 DEF FileValues
  <2>4. OnlyMade(wires) /\ InFile(file, m)
    BY <2>2, WiresOfFile, InSound
  <2>5. ASSUME NEW side \in {"left", "right"}
        PROVE  Len(BitsOf(wires, file, m, file[m][side].elems)) =
                 Len(BitsOf(NoWires, origin, n, origin[n][side].elems))
    <3>1. KeptSide(origin, n, file, m, applied, side) /\ Native(file, m, origin, n)
      BY <2>3 DEF KeptLine
    <3>2. PICK x, y : x = origin[n][side] /\ y = file[m][side]
      OBVIOUS
    <3>3. y = Packed(applied, x)
      BY <3>1, <3>2 DEF KeptSide, Stands, Made
    <3>4. AllElements(x.elems)
      BY <2>1, <3>2, OriginElements DEF OfElements
    <3>5. Len(BitsOf(wires, file, m, y.elems)) = Len(BitsOf(NoWires, origin, n, x.elems))
      BY <2>4, <3>1, <3>3, <3>4, PackedBits
    <3> QED
      BY <3>2, <3>5
  <2>6. /\ Len(BitsOf(wires, file, m, file[m].left.elems)) =
             Len(BitsOf(NoWires, origin, n, origin[n].left.elems))
        /\ Len(BitsOf(wires, file, m, file[m].right.elems)) =
             Len(BitsOf(NoWires, origin, n, origin[n].right.elems))
    <3>1. "left" \in {"left", "right"} /\ "right" \in {"left", "right"}
      OBVIOUS
    <3> QED
      BY <2>5, <3>1
  <2>7. Drives(file[m], origin[n].dst) /\ file[m].op = origin[n].op
    BY <2>3 DEF KeptLine, Drives
  <2> QED
    BY <2>6, <2>7 DEF WidthLike
<1>2. Init => ValuesInv
  BY ValuesInit
<1>3. IInv /\ ValuesInv /\ [Next]_vars => ValuesInv'
  BY ValuesStep
<1> QED
  BY <1>1, <1>2, <1>3, Invariance, PTL DEF Spec

\* The passes that hoist an operand (expand_left_operand.py, expand_right_operand.py,
\* expand_reduction_operand.py) and compression keep every bit of an operand and add
\* none, in any order and for any files: the wire has the width of what it stands for.
\* Nothing is said of lines with a signal that concatbitwidth.py does not find declared,
\* nor where compression or the reduction pass is known to lose a value.
THEOREM ValuesStay == Spec => []ValuesKept
<1>1. IInv /\ ValuesInv => ValuesKept
  <2> SUFFICES ASSUME IInv, ValuesInv, pass = "none",
                      \/ applied \subseteq {"left", "right", "compress"} /\ CompressIsSafe
                      \/ applied \subseteq {"left", "right", "reduction"} /\ OneBitElements,
                      NEW wires, wires = WireBits(file), NEW n \in Assignments(origin),
                      Supposed(n)
               PROVE  \E m \in 1 .. Len(file) : ValueLike(wires, file, m, n)
    BY DEF ValuesKept
  <2>1. Good(applied) /\ FileValues(origin, file, applied) /\ origin \in Files
    BY DEF Good, ValuesInv
  <2>2. Sound(file)
    BY <2>1 DEF FileValues
  <2>3. PICK m \in 1 .. Len(file) : KeptLine(origin, n, file, m, applied)
    BY <2>1 DEF FileValues
  <2>4. /\ OnlyMade(wires)
        /\ \A j \in 1 .. Len(file) : file[j].k = "assign" /\ Made(file[j].dst) =>
             file[j].dst \in DOMAIN wires /\ wires[file[j].dst] = BitsFor(NoWires, file, j)
    BY <2>2, WiresOfFile
  <2>5. ASSUME NEW side \in {"left", "right"}, NEW x, x = origin[n][side]
        PROVE  /\ AllElements(x.elems)
               /\ "compress" \in applied => ~HasDecreasingRun(x.elems)
               /\ "reduction" \in applied /\ side = "right" => OneBits(origin, n, x.elems)
               /\ Found(origin, n, x)
    <3>1. AllElements(x.elems)
      BY <2>1, <2>5, OriginElements DEF OfElements
    <3>2. "compress" \in applied => ~HasDecreasingRun(x.elems)
      <4>1. "compress" \in applied => CompressIsSafe
        OBVIOUS
      <4> QED
        BY <2>5, <4>1 DEF CompressIsSafe
    <3>3. ASSUME "reduction" \in applied, side = "right" PROVE OneBits(origin, n, x.elems)
      <4>1. OneBitElements
        BY <3>3
      <4>2. DOMAIN x.elems = 1 .. Len(x.elems)
        BY <3>1, SequenceDomain DEF AllElements
      <4>3. x = origin[n].right
        BY <2>5, <3>3
      <4> QED
        BY <4>1, <4>2, <4>3 DEF OneBitElements, OneBits
    <3>4. Found(origin, n, x)
      <4> SUFFICES ASSUME x.braces PROVE Matching(origin, n, x.elems)
        BY DEF Found
      <4>1. ASSUME NEW i \in 1 .. Len(x.elems), x.elems[i].k = "sig"
            PROVE  DeclAt(origin, n, x.elems[i].sig).matches
        <5>1. PICK s : s = x.elems[i].sig
          OBVIOUS
        <5>2. i \in DOMAIN x.elems
          BY <3>1, SequenceDomain DEF AllElements
        <5>3. x.elems[i] \in Range(x.elems)
          BY <5>2 DEF Range
        <5>4. s \in WholeIn(x)
          BY <4>1, <5>1, <5>3 DEF WholeIn
        <5>5. s \in WholeSignals(origin[n])
          BY <2>5, <5>4 DEF WholeSignals
        <5> QED
          BY <5>1, <5>5 DEF Supposed
      <4> QED
        BY <4>1 DEF Matching
    <3> QED
      BY <3>1, <3>2, <3>3, <3>4
  <2>6. ASSUME NEW side \in {"left", "right"}
        PROVE  BitsOf(wires, file, m, file[m][side].elems) =
                 BitsOf(NoWires, origin, n, origin[n][side].elems)
    <3>1. PICK x : x = origin[n][side]
      OBVIOUS
    <3>2. /\ AllElements(x.elems)
          /\ "compress" \in applied => ~HasDecreasingRun(x.elems)
          /\ "reduction" \in applied /\ side = "right" => OneBits(origin, n, x.elems)
          /\ Found(origin, n, x)
      BY <2>5, <3>1
    <3>3. Native(file, m, origin, n) /\ KeptSide(origin, n, file, m, applied, side)
      BY <2>3 DEF KeptLine
    <3>4. BitsOf(wires, file, m, file[m][side].elems) = BitsOf(NoWires, origin, n, x.elems)
      BY <2>1, <2>2, <2>4, <3>1, <3>2, <3>3, OperandBits
    <3> QED
      BY <3>1, <3>4
  <2>7. /\ BitsOf(wires, file, m, file[m].left.elems) =
             BitsOf(NoWires, origin, n, origin[n].left.elems)
        /\ BitsOf(wires, file, m, file[m].right.elems) =
             BitsOf(NoWires, origin, n, origin[n].right.elems)
    <3>1. "left" \in {"left", "right"} /\ "right" \in {"left", "right"}
      OBVIOUS
    <3> QED
      BY <2>6, <3>1
  <2>8. Drives(file[m], origin[n].dst) /\ file[m].op = origin[n].op
    BY <2>3 DEF KeptLine, Drives
  <2> QED
    BY <2>7, <2>8 DEF ValueLike
<1>2. Init => ValuesInv
  BY ValuesInit
<1>3. IInv /\ ValuesInv /\ [Next]_vars => ValuesInv'
  BY ValuesStep
<1> QED
  BY <1>1, <1>2, <1>3, Invariance, PTL DEF Spec
=============================================================================
