------------------------- MODULE MC_VerilogPasses -------------------------
(* Concatenations of up to four elements with MAX_TERMS_IN_BRACKET = 2: up to
   two parts, with and without remainder, and up to three where two operands
   are divided as one; the operator in the first part or in the second.  `w` has
   two bits in the module of the assignments and one in the module before, `u`
   is declared in the module before only, `q` in a form that is not looked for. *)
EXTENDS VerilogValues

a == <<"a", 0, 0>>
w == <<"w", 0, 0>>
u == <<"u", 0, 0>>
q == <<"q", 0, 0>>

MCElements == {Bit(a, 1), Bit(a, 0), Whole(w)}
Concats ==
  UNION {[1 .. n -> MCElements] : n \in 1 .. 4}
    \cup {<<Slice(a, 2, 1), Number(2)>>, <<Number(2), Whole(u)>>, <<Whole(q), Bit(a, 1)>>,
          <<Whole(u), Slice(a, 2, 0), Bit(a, 2)>>}
Short == {<<Bit(a, 1), Whole(w)>>, <<Whole(w), Whole(w)>>, <<Bit(a, 1), Bit(a, 0)>>}

y(n) == <<"y", n, 0>>
Lines(n, concats) ==
  UNION {{Assign(y(n), Braced(c), "none", NoOperand),
          Assign(y(n), Braced(c), "&", Plain(u)),
          Assign(y(n), Plain(u), "^", Braced(c)),
          Assign(y(n), NoOperand, "&", Braced(c)),
          Assign(y(n), NoOperand, "^", Braced(c)),
          Assign(y(n), Braced(c), "|", Braced(<<Whole(w), Number(2)>>)),
          Assign(y(n), Braced(c), "==", Braced(<<Whole(w), Bit(a, 0), Number(2)>>))} :
         c \in concats}

Header ==
  <<ModuleLine, Decl(w, 1, TRUE), Decl(u, 2, TRUE),
    ModuleLine, Decl(w, 2, TRUE), Decl(q, 2, FALSE)>>
MCFiles ==
  {Header \o <<x>> : x \in Lines(1, Concats)}
    \cup {Header \o <<x, z>> : x \in Lines(1, Short), z \in Lines(2, Short)}

MCPasses == {"left", "right", "reduction", "divide", "compress"}
=============================================================================
