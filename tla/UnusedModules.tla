--------------------------- MODULE UnusedModules ---------------------------
(***************************************************************************)
(* remove_unused_modules.py: remove from a SystemVerilog file, round after *)
(* round, the modules nothing refers to any more.                          *)
(*                                                                         *)
(* The text is the set of the modules it still defines.  What the regular  *)
(* expressions see of a module is in five sets chosen at the start: whom   *)
(* it instantiates, on which of these lines the name comes again in a      *)
(* trailing comment, whether its header imports a package, whether its     *)
(* endmodule repeats its name, and whether there is a `$` or a backslash   *)
(* in the name.                                                            *)
(*                                                                         *)
(* (Definitions named Wrong... are the slips the properties must notice.)  *)
(***************************************************************************)
EXTENDS FiniteSets

CONSTANT Modules

VARIABLES
  instances,  \* whom each module instantiates
  echoed,     \* those of them whose name is repeated in a comment on the line
  importing,  \* modules whose header is `module m import ...`
  labelled,   \* modules that end in `endmodule : m`
  odd,        \* modules with `$` or a backslash in their names
  keep,       \* modules_to_keep
  present,    \* verilog_content
  names,      \* all_modulenames
  unused,     \* remove_modules: the modules of this round that p.map found unused
  todo,       \* those of them the loop has not removed yet
  pc          \* "find", "remove" or "done"

vars == <<instances, echoed, importing, labelled, odd, keep,
          present, names, unused, todo, pc>>
file == <<instances, echoed, importing, labelled, odd, keep>>

\* The lines of p that count as a reference to m: a line with "//" before the
\* last occurrence of m on it does not.
Mentions(p, m) == m \in instances[p] \ echoed[p]

\* is_single_ref, for a module the file defines: no line but its header.  With an odd
\* name the regular expression finds not even that one: `$` is the end of a line there,
\* and no word ends where a backslash begins.
SingleRef(m) ==
  /\ m \notin labelled \cup odd
  /\ \A p \in present : ~Mentions(p, m)

WrongCandidates == Modules
Candidates == Modules \ keep

Init ==
  /\ instances \in [Modules -> SUBSET Modules]
  /\ echoed \in [Modules -> SUBSET Modules]
  /\ \A m \in Modules : echoed[m] \subseteq instances[m]
  /\ importing \in SUBSET Modules /\ labelled \in SUBSET Modules
  /\ odd \in SUBSET Modules
  /\ keep \in SUBSET Modules
  /\ present = Modules
  /\ names = Candidates
  /\ unused = {} /\ todo = {}
  /\ pc = "find"

WrongFind ==
  /\ pc = "find"
  /\ unused' = IF names = Candidates THEN {m \in names : SingleRef(m)} ELSE {}
  /\ todo' = unused'
  /\ pc' = IF unused' = {} THEN "done" ELSE "remove"
  /\ UNCHANGED <<file, present, names>>

\* A pool made for this round looks for the references to every module that is
\* left, all in the same text.
Find ==
  /\ pc = "find"
  /\ unused' = {m \in names : SingleRef(m)}
  /\ todo' = unused'
  /\ pc' = IF unused' = {} THEN "done" ELSE "remove"
  /\ UNCHANGED <<file, present, names>>

\* re.subn on the definition, which it only finds behind `#` or `(`.
Remove(m) ==
  /\ pc = "remove" /\ m \in todo
  /\ present' = IF m \in importing THEN present ELSE present \ {m}
  /\ todo' = todo \ {m}
  /\ UNCHANGED <<file, names, unused, pc>>

WrongEndRound ==
  /\ pc = "remove" /\ todo = {}
  /\ pc' = "find"
  /\ UNCHANGED <<file, names, present, unused, todo>>
EndRound ==
  /\ pc = "remove" /\ todo = {}
  /\ names' = names \ unused
  /\ pc' = "find"
  /\ UNCHANGED <<file, present, unused, todo>>

Done == pc = "done" /\ UNCHANGED vars

Next ==
  \/ Find
  \/ \E m \in todo : Remove(m)
  \/ EndRound
  \/ Done

Spec == Init /\ [][Next]_vars
FairSpec == Spec /\ WF_vars(Next)
-----------------------------------------------------------------------------
\* Every variable has its type.
TypeOK ==
  /\ instances \in [Modules -> SUBSET Modules]
  /\ echoed \in [Modules -> SUBSET Modules]
  /\ importing \subseteq Modules /\ labelled \subseteq Modules
  /\ odd \subseteq Modules
  /\ keep \subseteq Modules
  /\ present \subseteq Modules
  /\ names \subseteq Modules \ keep
  /\ unused \subseteq Modules \ keep /\ todo \subseteq unused
  /\ pc \in {"find", "remove", "done"}

\* Each module of S is to be kept or is instantiated by a module of S.
Needed(S) == \A m \in S : m \in keep \/ \E p \in S : m \in instances[p]

\* No instance of a module of S in another is on a line whose comment repeats its name.
Unechoed(S) == \A p \in S : echoed[p] \cap S = {}

\* The script removes no module that the modules to keep need, directly or through
\* others, unless a comment repeats the name of one of these behind its instance: then
\* it may, as UnusedIffUnreferenced shows.
NeededStay == \A S \in SUBSET Modules : Needed(S) /\ Unechoed(S) => S \subseteq present

\* When it is done, every module still there is kept, or mentioned, or one
\* whose definition the regular expressions cannot remove.
NothingUnusedLeft ==
  pc = "done" =>
    \A m \in present :
      \/ m \in keep \cup labelled \cup importing \cup odd
      \/ \E p \in present : Mentions(p, m)

\* The rounds come to an end.
Terminates == <>(pc = "done")

\* "Return True iff the module is never referenced except in its own definition
\* and in comments.": what a round finds unused nothing else instantiates.
UnusedIffUnreferenced ==
  [][pc = "find" =>
       \A m \in names :
         m \in unused' <=> \A p \in present \ {m} : m \notin instances[p]]_vars
=============================================================================
