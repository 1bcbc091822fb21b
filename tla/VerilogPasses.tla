--------------------------- MODULE VerilogPasses ---------------------------
(***************************************************************************)
(* The passes of ConcatPasses run on a file one after the other, each at   *)
(* most once and in any order; a pass goes through the file line by line   *)
(* and writes its output when it is through.                               *)
(***************************************************************************)
EXTENDS ConcatPasses

CONSTANTS
  Passes,     \* subset of left, right, reduction, divide, compress
  MaxPasses,  \* how many of them are run (bound)
  Files       \* the files to start from

\* A name that one of the passes makes up.
Made(s) == s[1] \in {"left", "right", "reduction", "divide"}

IsSeq(s) == s \in Seq(Range(s))

ASSUME PassesAssumption ==
  Passes \subseteq {"left", "right", "reduction", "divide", "compress"}

IsElement(e) ==
  \/ e.k = "num" /\ e = Number(e.width) /\ e.width \in Nat \ {0}
  \/ /\ e.k \in {"sig", "bit", "slice"} /\ ~Made(e.sig)
     /\ \/ e = Whole(e.sig)
        \/ e.k = "bit" /\ e = Bit(e.sig, e.at) /\ e.at \in Nat
        \/ /\ e.k = "slice" /\ e = Slice(e.sig, e.hi, e.lo)
           /\ e.hi \in Nat /\ e.lo \in Nat

\* What no pass has seen has none of their names in it, and no net, number or braces
\* without a bit.  A file with repetitions is left out: the expression of compression
\* ends at the first closing brace, so that it treats a concatenation with a repetition
\* piece by piece.
ASSUME FilesAssumption ==
  \A f \in Files :
    /\ IsSeq(f)
    /\ \A i \in 1 .. Len(f) :
         \/ f[i] = ModuleLine
         \/ /\ f[i].k = "decl" /\ ~Made(f[i].sig)
            /\ f[i] = Decl(f[i].sig, f[i].width, f[i].matches)
            /\ f[i].width \in Nat \ {0} /\ f[i].matches \in BOOLEAN
         \/ /\ f[i].k = "assign" /\ ~Made(f[i].dst)
            /\ f[i] = Assign(f[i].dst, f[i].left, f[i].op, f[i].right)
            /\ IsSeq(f[i].left.elems) /\ IsSeq(f[i].right.elems)
            /\ f[i].op \in Operators /\ (f[i].op = "none" => f[i].right = NoOperand)
            /\ f[i].left.braces => Len(f[i].left.elems) # 0
            /\ f[i].right.braces => Len(f[i].right.elems) # 0
            /\ \A e \in Range(f[i].left.elems) \cup Range(f[i].right.elems) : IsElement(e)

VARIABLES
  origin,   \* the file before any pass
  file,     \* the file that the next pass reads
  applied,  \* the passes that have written their output
  pass,     \* the pass that runs, or "none"
  at,       \* the line it is at
  out,      \* new_lines
  treated,  \* num_brackets_treated
  raised    \* a pass has raised a ValueError

vars == <<origin, file, applied, pass, at, out, treated, raised>>

Init ==
  /\ origin \in Files /\ file = origin
  /\ applied = {} /\ pass = "none"
  /\ at = 0 /\ out = <<>> /\ treated = 0
  /\ raised = FALSE

Run(p) ==
  /\ pass = "none" /\ ~raised
  /\ p \in Passes \ applied /\ Cardinality(applied) < MaxPasses
  /\ pass' = p /\ at' = 1 /\ out' = <<>> /\ treated' = 0
  /\ UNCHANGED <<origin, file, applied, raised>>

WrongLine ==
  /\ pass # "none" /\ at <= Len(file)
  /\ LET new == Rewrite(pass, file, at, treated)
     IN  IF new = <<Error>>
           THEN /\ raised' = TRUE /\ pass' = "none"
                /\ UNCHANGED <<at, out>>
           ELSE /\ out' = out \o new
                /\ at' = at + 1
                /\ UNCHANGED <<pass, raised>>
  /\ UNCHANGED <<origin, file, applied, treated>>
WrongCount ==
  /\ pass # "none" /\ at <= Len(file)
  /\ LET new == Rewrite(pass, file, at, treated)
     IN  IF new = <<Error>>
           THEN /\ raised' = TRUE /\ pass' = "none"
                /\ UNCHANGED <<at, out, treated>>
           ELSE /\ out' = out \o new
                /\ treated' = treated + Len(new)
                /\ at' = at + 1
                /\ UNCHANGED <<pass, raised>>
  /\ UNCHANGED <<origin, file, applied>>
\* Rewrite one line; an exception ends the pass with nothing written.
Line ==
  /\ pass # "none" /\ at <= Len(file)
  /\ LET new == Rewrite(pass, file, at, treated)
     IN  IF new = <<Error>>
           THEN /\ raised' = TRUE /\ pass' = "none"
                /\ UNCHANGED <<at, out, treated>>
           ELSE /\ out' = out \o new
                /\ treated' = treated + IF Treats(pass, file[at]) THEN 1 ELSE 0
                /\ at' = at + 1
                /\ UNCHANGED <<pass, raised>>
  /\ UNCHANGED <<origin, file, applied>>

Write ==
  /\ pass # "none" /\ at > Len(file)
  /\ file' = out
  /\ applied' = applied \cup {pass}
  /\ pass' = "none"
  /\ UNCHANGED <<origin, at, out, treated, raised>>

Next == (\E p \in Passes : Run(p)) \/ Line \/ Write

Spec == Init /\ [][Next]_vars
-----------------------------------------------------------------------------
\* Every variable has its type.
TypeOK ==
  /\ applied \subseteq Passes /\ pass \in Passes \cup {"none"}
  /\ at \in 0 .. (Len(file) + 1)
  /\ treated \in 0 .. Len(file)
  /\ raised \in BOOLEAN

Drives(l, s) == l.k = "assign" /\ l.dst = s
DrivenTwice(f, s) ==
  \E i, j \in 1 .. Len(f) : i # j /\ Drives(f[i], s) /\ Drives(f[j], s)

\* The wires that the passes introduce are declared once and driven once, and no
\* other net gets a driver that it did not have.
FreshWires ==
  pass = "none" =>
    \A i, j \in 1 .. Len(file) :
      i # j =>
        /\ file[i].k = "decl" /\ file[j].k = "decl" /\ Made(file[i].sig) =>
             file[i].sig # file[j].sig
        /\ file[i].k = "assign" /\ Drives(file[j], file[i].dst) =>
             DrivenTwice(origin, file[i].dst)
=============================================================================
