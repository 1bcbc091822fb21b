------------------------------- MODULE VmBoot -------------------------------
(***************************************************************************)
(* The v environment from its start: vm_boot fills the freelist from the   *)
(* LFSR, one iteration of its loop a step, and enters the program, which   *)
(* then runs on the pager of VmPager.                                      *)
(***************************************************************************)
EXTENDS VmPager

VARIABLES i, random

bootVars == <<vars, i, random>>

WrongSeeds == 0 .. (N - 1)
\* ENTROPY is any number: random = 1 + (random % MAX_TEST_PAGES).
Seeds == 1 .. N

\* bss is clear and the program loaded; freelist_head and freelist_tail are set before
\* the loop.
BootInit ==
  /\ hart \in [svadu : BOOLEAN, fpu : BOOLEAN]
  /\ pc = "boot" /\ cause = "none" /\ access = NoAccess
  /\ pte = [p \in Pages |-> NoPte] /\ tlb = [p \in Pages |-> {NoPte}]
  /\ node = [n \in Nodes |-> [addr |-> 0, next |-> Null]]
  /\ head = FreeNode(0) /\ tail = FreeNode(N - 1)
  /\ \E image \in [Pages -> Values], junk \in Values :
       mem = [pp \in PhysPages |-> IF pp \in Pages THEN image[pp] ELSE junk]
  /\ unfenced = {} /\ turn = 1 /\ code = 0 /\ put = 0 /\ tohost = 0 /\ obs = <<>>
  /\ i = 0
  /\ random \in Seeds

othersUnchanged == UNCHANGED <<hart, cause, access, pte, tlb, head, tail, mem, unfenced,
                               turn, code, put, tohost, obs>>

FillNode ==
  /\ pc = "boot" /\ i < N
  /\ node' = [node EXCEPT ![FreeNode(i)] =
                [addr |-> N + random, next |-> FreeNode(i + 1)]]
  /\ random' = LfsrNext(random)
  /\ i' = i + 1
  /\ UNCHANGED pc /\ othersUnchanged

\* freelist_nodes[MAX_TEST_PAGES-1].next = 0; pop_tf(&tf)
WrongEnterUser ==
  /\ pc = "boot" /\ i = N
  /\ pc' = "user"
  /\ UNCHANGED <<node, i, random>> /\ othersUnchanged
EnterUser ==
  /\ pc = "boot" /\ i = N
  /\ node' = [node EXCEPT ![FreeNode(N - 1)].next = Null]
  /\ pc' = "user"
  /\ UNCHANGED <<i, random>> /\ othersUnchanged

BootNext == FillNode \/ EnterUser
RunNext == Next /\ UNCHANGED <<i, random>>

BootSpec == BootInit /\ [][BootNext \/ RunNext]_bootVars
FairBootSpec ==
  /\ BootSpec
  /\ WF_bootVars(BootNext)
  /\ WF_bootVars(HandleFault /\ UNCHANGED <<i, random>>)
  /\ WF_bootVars(Shutdown /\ UNCHANGED <<i, random>>)
  /\ WF_bootVars(Retry /\ UNCHANGED <<i, random>>)
  /\ WF_bootVars(HostReads /\ UNCHANGED <<i, random>>)
-----------------------------------------------------------------------------
\* The program is always entered, and in an initial state of VmPager: each frame is on
\* the freelist once, since the LFSR does not return to a value before the loop is over.
BootReachesInit == pc = "boot" ~> Init
=============================================================================
