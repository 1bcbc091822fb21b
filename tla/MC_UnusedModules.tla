------------------------- MODULE MC_UnusedModules -------------------------
(* UnusedModules on three modules: chains of two rounds, cycles of two. *)
EXTENDS UnusedModules

CONSTANTS m1, m2, m3
MCModules == {m1, m2, m3}

\* Files without instances of a module in itself; echoed lines, labels and odd
\* names in one module each, package imports in two.
MCInit ==
  /\ instances \in [Modules -> SUBSET Modules]
  /\ \A m \in Modules : m \notin instances[m]
  /\ echoed \in [Modules -> SUBSET Modules]
  /\ \A m \in Modules \ {m1} : echoed[m] = {}
  /\ importing \in SUBSET {m2, m3}
  /\ labelled \in SUBSET {m3} /\ odd \in SUBSET {m2}
  /\ Init
MCSpec == MCInit /\ [][Next]_vars /\ WF_vars(Next)
=============================================================================
