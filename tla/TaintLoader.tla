---------------------------- MODULE TaintLoader ----------------------------
(***************************************************************************)
(* design-processing/common/dv/taintloader.cc: the DPI functions through   *)
(* which a simulation reads a taint file and hands its sections, one taint *)
(* id after the other, to the testbench.                                   *)
(* (Definitions named Wrong... are the slips the properties must notice.)  *)
(***************************************************************************)
EXTENDS Integers, Sequences, Functions

CONSTANT NumTaints    \* the argument of init_taint_vectors

VARIABLES
  taint_sections,      \* per id, the (address, length) pairs in order
  taint_assignments,   \* per id, a map from address to the digits of a mask
  taint_section_index

taintVars == <<taint_sections, taint_assignments, taint_section_index>>
Ids == 0 .. (NumTaints - 1)

TaintInit ==
  /\ taint_sections = [id \in Ids |-> <<>>]
  /\ taint_assignments = [id \in Ids |-> [a \in {} |-> <<>>]]
  /\ taint_section_index = [id \in Ids |-> 0]

\* One line of read_taints.  A second line for an address replaces its mask only.
ReadTaintLine(line) ==
  /\ taint_sections' =
       [taint_sections EXCEPT
          ![line.id] = Append(@, [addr |-> line.addr, len |-> line.nbytes])]
  /\ taint_assignments' =
       [taint_assignments EXCEPT
          ![line.id] = [a \in DOMAIN @ \cup {line.addr} |->
                          IF a = line.addr THEN [mask |-> line.mask, digits |-> line.digits]
                          ELSE @[a]]]
  /\ UNCHANGED taint_section_index

WrongMoreSections(id) == taint_section_index[id] + 1 < Len(taint_sections[id])

\* get_taint_section: 1 with the next section of id, or 0.
MoreSections(id) == taint_section_index[id] < Len(taint_sections[id])
NextSection(id) == taint_sections[id][taint_section_index[id] + 1]
WrongGetTaintSection(id) == MoreSections(id) /\ UNCHANGED taintVars
GetTaintSection(id) ==
  /\ MoreSections(id)
  /\ taint_section_index' = [taint_section_index EXCEPT ![id] = @ + 1]
  /\ UNCHANGED <<taint_sections, taint_assignments>>

\* char_to_hex ends the process, with status 0, at a character it does not know; half a
\* byte at the end is not looked at.
Unreadable(id, addr) == taint_assignments[id][addr].digits = "other"

\* read_taint_section: the bytes of the mask recorded for the address go to the
\* start of the caller's buffer, however long that is.
MaskOverruns(id, addr, len) == Len(taint_assignments[id][addr].mask) > len
ReadTaintSection(id, addr, buffer) ==
  LET mask == taint_assignments[id][addr].mask
  IN  [j \in 1 .. Len(buffer) |-> IF j <= Len(mask) THEN mask[j] ELSE buffer[j]]
=============================================================================
