------------------------ MODULE UnusedModules_proofs ------------------------
(***************************************************************************)
(* For any modules and any file: remove_unused_modules removes no module   *)
(* that the modules to keep need, and leaves none that nothing uses.       *)
(***************************************************************************)
EXTENDS UnusedModules, TLAPS

\* What the script can see to be needed: the instances without an echo.
Supported(S) ==
  \A m \in S : m \in keep \/ \E p \in S : Mentions(p, m)

\* No module that a supported set needs is scheduled for removal or removed.
ScheduledAreFree ==
  \A S \in SUBSET Modules : Supported(S) => S \cap todo = {}
SupportedStay ==
  \A S \in SUBSET Modules : Supported(S) => S \subseteq present

IInv == TypeOK /\ SupportedStay /\ ScheduledAreFree

\* What is supported depends on the file only.
LEMMA SupportedKept ==
  ASSUME UNCHANGED file, NEW S PROVE Supported(S)' <=> Supported(S)
BY DEF file, Supported, Mentions

\* A round finds unused only modules no supported set contains: a member of one
\* is kept, and then no candidate, or another member, still in the text,
\* mentions it.
LEMMA UnusedAreFree ==
  ASSUME IInv, NEW S \in SUBSET Modules, Supported(S),
         NEW m \in names, SingleRef(m)
  PROVE  m \notin S
<1> SUFFICES ASSUME m \in S PROVE FALSE OBVIOUS
<1>1. m \notin keep BY DEF IInv, TypeOK
<1>2. PICK p \in S : Mentions(p, m) BY <1>1 DEF Supported
<1>3. p \in present BY DEF IInv, SupportedStay
<1> QED BY <1>2, <1>3 DEF SingleRef

\* Who is still in the file is kept, could not be removed, or has yet to be
\* judged; when the script is done, all candidates left have been found in use.
LeftForAReason ==
  /\ present \subseteq keep \cup importing \cup names
  /\ present \cap (unused \ todo) \subseteq importing
  /\ pc = "done" => \A m \in names : ~SingleRef(m)

\* The inductive invariant holds in every reachable state.
THEOREM Invariance == Spec => []IInv
<1>1. Init => IInv
  BY DEF Init, IInv, TypeOK, SupportedStay, ScheduledAreFree, Candidates
<1>2. IInv /\ [Next]_vars => IInv'
  <2> SUFFICES ASSUME IInv, [Next]_vars PROVE IInv' OBVIOUS
  <2>1. CASE Find
    <3>1. UNCHANGED file /\ UNCHANGED <<present, names>> BY <2>1 DEF Find
    <3>2. todo' = {m \in names : SingleRef(m)} /\ unused' = todo' BY <2>1 DEF Find
    <3>3. TypeOK'
      <4>1. pc' \in {"find", "remove", "done"} BY <2>1 DEF Find
      <4> QED BY <3>1, <3>2, <4>1 DEF IInv, TypeOK, file
    <3>4. SupportedStay' BY <3>1, SupportedKept DEF IInv, SupportedStay
    <3>5. ScheduledAreFree'
      BY <3>1, <3>2, SupportedKept, UnusedAreFree DEF ScheduledAreFree
    <3> QED BY <3>3, <3>4, <3>5 DEF IInv
  <2>2. ASSUME NEW m \in todo, Remove(m) PROVE IInv'
    <3>1. UNCHANGED file /\ UNCHANGED <<names, unused, pc>> BY <2>2 DEF Remove
    <3>2. todo' = todo \ {m} /\ present \ {m} \subseteq present' /\ present' \subseteq present
      BY <2>2 DEF Remove
    <3>3. TypeOK' BY <3>1, <3>2 DEF IInv, TypeOK, file
    <3>4. SupportedStay'
      BY <3>1, <3>2, SupportedKept DEF IInv, SupportedStay, ScheduledAreFree
    <3>5. ScheduledAreFree'
      BY <3>1, <3>2, SupportedKept DEF IInv, ScheduledAreFree
    <3> QED BY <3>3, <3>4, <3>5 DEF IInv
  <2>3. CASE EndRound
    <3>1. UNCHANGED file /\ UNCHANGED <<present, unused, todo>> BY <2>3 DEF EndRound
    <3>2. TypeOK' BY <2>3, <3>1 DEF EndRound, IInv, TypeOK, file
    <3> QED
      BY <3>1, <3>2, SupportedKept DEF IInv, SupportedStay, ScheduledAreFree
  <2>4. CASE UNCHANGED vars
    BY <2>4 DEF vars, IInv, TypeOK, SupportedStay, ScheduledAreFree, Supported, Mentions
  <2> QED BY <2>1, <2>2, <2>3, <2>4 DEF Next, Done
<1> QED BY <1>1, <1>2, PTL DEF Spec

\* The script keeps every variable in its type.
THEOREM Typing == Spec => []TypeOK
<1>1. IInv => TypeOK BY DEF IInv
<1> QED BY <1>1, Invariance, PTL

\* Without echoes, every instance is one the script sees.
LEMMA NeededIsSupported ==
  ASSUME NEW S \in SUBSET Modules, Needed(S), Unechoed(S)
  PROVE  Supported(S)
<1> SUFFICES ASSUME NEW m \in S, m \notin keep
             PROVE  \E p \in S : Mentions(p, m)
  BY DEF Supported
<1>1. PICK p \in S : m \in instances[p] BY DEF Needed
<1>2. m \notin echoed[p] BY DEF Unechoed
<1> QED BY <1>1, <1>2 DEF Mentions

\* No module that the modules to keep need by their instances, directly or through
\* others, is removed, unless a comment echoes the name of one of them.
THEOREM NeededModulesStay == Spec => []NeededStay
<1>1. IInv => NeededStay BY NeededIsSupported DEF IInv, SupportedStay, NeededStay
<1> QED BY <1>1, Invariance, PTL
-----------------------------------------------------------------------------
\* Each step leaves only modules it has a reason to leave.
LEMMA ReasonKept ==
  ASSUME TypeOK, LeftForAReason, [Next]_vars
  PROVE  LeftForAReason'
<1> USE DEF LeftForAReason
<1>1. CASE Find
  <2>1. /\ UNCHANGED <<instances, echoed, importing, labelled, odd, keep, present, names>>
        /\ unused' = {m \in names : SingleRef(m)} /\ todo' = unused'
        /\ pc' = IF unused' = {} THEN "done" ELSE "remove"
    BY <1>1 DEF Find, file
  <2>2. \A m \in Modules : SingleRef(m)' = SingleRef(m)
    BY <2>1 DEF SingleRef, Mentions
  <2>3. pc' = "done" => \A m \in names : ~SingleRef(m)'
    BY <2>1, <2>2 DEF TypeOK
  <2> QED BY <2>1, <2>3
<1>2. ASSUME NEW m \in todo, Remove(m) PROVE LeftForAReason'
  <2>1. /\ UNCHANGED <<importing, keep, names, unused, pc>> /\ pc = "remove"
        /\ todo' = todo \ {m}
        /\ present' = IF m \in importing THEN present ELSE present \ {m}
    BY <1>2 DEF Remove, file
  <2>2. present' \subseteq present /\ (m \in importing \/ m \notin present')
    BY <2>1
  <2>3. present' \cap (unused' \ todo') \subseteq importing'
    BY <2>1, <2>2
  <2> QED BY <2>1, <2>2, <2>3
<1>3. CASE EndRound
  <2>1. /\ UNCHANGED <<importing, keep, present, unused, todo>>
        /\ todo = {} /\ names' = names \ unused /\ pc' = "find"
    BY <1>3 DEF EndRound, file
  <2>2. \A m \in present : m \in unused => m \in importing
    BY <2>1
  <2> QED BY <2>1, <2>2
<1>4. CASE UNCHANGED vars
  BY <1>4 DEF vars, SingleRef, Mentions
<1> QED BY <1>1, <1>2, <1>3, <1>4 DEF Next, Done

\* The rounds end only when every module that is left is kept, or mentioned by
\* another that is left, or out of the regular expressions' reach.
THEOREM NothingUnusedStays == Spec => []NothingUnusedLeft
<1>1. Init => LeftForAReason
  BY DEF Init, LeftForAReason, Candidates
<1>2. TypeOK /\ LeftForAReason /\ [Next]_vars => LeftForAReason'
  BY ReasonKept
<1>3. LeftForAReason => NothingUnusedLeft
  BY DEF LeftForAReason, NothingUnusedLeft, SingleRef
<1> QED BY <1>1, <1>2, <1>3, Typing, PTL DEF Spec
=============================================================================
