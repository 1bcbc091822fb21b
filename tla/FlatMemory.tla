----------------------------- MODULE FlatMemory -----------------------------
(***************************************************************************)
(* What the "v" environment promises to a test program: a memory that      *)
(* starts as the program's image and whose pages keep what was stored in   *)
(* them for as long as the program runs, and an exit code that reaches     *)
(* tohost.  Demand paging, frames and PTE bits are invisible.              *)
(***************************************************************************)
EXTENDS Integers

CONSTANTS CodePages, DataPages, Pages, Values, EndCodes

VARIABLES
  umem,    \* the contents of every page, as the program sees them
  obs,     \* the page and the value of the last load or fetch
  mode,    \* "running", or "ended" once the program has left user mode
  due,     \* the code with which it ended
  result   \* tohost

vars == <<umem, obs, mode, due, result>>

Init ==
  /\ umem \in [Pages -> Values]
  /\ obs = <<>>
  /\ mode = "running" /\ due = 0 /\ result = 0

Read(p) ==
  /\ mode = "running"
  /\ obs' = <<p, umem[p]>>
  /\ UNCHANGED <<umem, mode, due, result>>

Store(p, v) ==
  /\ mode = "running"
  /\ umem' = [umem EXCEPT ![p] = v]
  /\ UNCHANGED <<obs, mode, due, result>>

\* By an ecall, a wild access or an illegal instruction.
End(c) ==
  /\ mode = "running"
  /\ mode' = "ended" /\ due' = c
  /\ UNCHANGED <<umem, obs, result>>

\* The memory is no longer the program's: eviction does not write it back.
Forget ==
  /\ mode = "ended"
  /\ umem' \in [Pages -> Values]
  /\ UNCHANGED <<obs, mode, due, result>>

Deliver ==
  /\ mode = "ended" /\ result = 0
  /\ result' = due
  /\ UNCHANGED <<umem, obs, mode, due>>

Next ==
  \/ \E p \in CodePages \cup DataPages : Read(p)
  \/ \E p \in DataPages, v \in Values : Store(p, v)
  \/ \E c \in EndCodes : End(c)
  \/ Forget
  \/ Deliver

Spec == Init /\ [][Next]_vars

\* Once the program has ended, its code is delivered.
Delivered == mode = "ended" ~> result = due
=============================================================================
