------------------------------ MODULE VmPager ------------------------------
(***************************************************************************)
(* The demand pager of the "v" test environment (benchmarks/env/v): a test *)
(* program runs in user mode, every page it touches is mapped on its first *)
(* page fault, the accessed and dirty bits are set by further faults (or   *)
(* by the hardware), and its ecall evicts every page and ends the          *)
(* simulation through tohost.                                              *)
(*                                                                         *)
(* A physical page is its number relative to DRAM_BASE: page p < N is the  *)
(* image of user page p, pages N+1 .. 2N are the frames of the freelist    *)
(* (N = MAX_TEST_PAGES).  The contents of a page are one value.            *)
(*                                                                         *)
(* Definitions whose names begin with Wrong are not used by the            *)
(* specification.  Each is a plausible slip in the definition that follows *)
(* it, kept to show that a property notices when it is put in its place.   *)
(***************************************************************************)
EXTENDS Integers, FiniteSets

CONSTANTS
  MaxTestPages,   \* MAX_TEST_PAGES
  LfsrBits,       \* the width of the register LFSR_NEXT steps (6 in the code)
  CodePages,      \* the pages the test program executes from
  DataPages,      \* the pages it loads from and stores to
  Values,         \* what a page can contain
  ExitCodes,      \* what the program passes to ecall in a0
  Message         \* how many characters an assertion prints when it fails

VARIABLES
  hart,      \* how this hart is built: does it set A/D itself, has it an FPU
  pc,        \* where the hart executes: boot, user code, or a point of the handlers
  cause,     \* scause or mcause of the last trap
  access,    \* the user access that trapped and will be executed again
  pte,       \* user_llpt
  tlb,       \* per page, the PTEs a translation may still use
  node,      \* freelist_nodes and user_mapping, the two arrays of freelist_t
  head,      \* freelist_head
  tail,      \* freelist_tail
  mem,       \* the contents of the physical pages
  unfenced,  \* the frames written since the last fence.i
  turn,      \* the page the eviction loop has reached
  code,      \* the argument of terminate
  put,       \* how many characters a failed assertion has written to tohost
  tohost,
  obs        \* the last value a user load or fetch returned, and its page

N == MaxTestPages
Pages == 1 .. (N - 1)
Frames == (N + 1) .. (2 * N)
PhysPages == 0 .. (2 * N)
Null == 0
Nodes == 1 .. (2 * N)

\* freelist_nodes[i] and user_mapping[p] as members of Nodes.
FreeNode(i) == i + 1
MapNode(p) == N + 1 + p

LfsrNext(x) == ((x + x \div 2) % 2) * 2 ^ (LfsrBits - 1) + x \div 2

\* What `random` may be, iteration by iteration, in the loop that fills the freelist.
LfsrRuns ==
  {x \in [0 .. (N - 1) -> 1 .. N] :
     \A i \in 1 .. (N - 1) : x[i] = LfsrNext(x[i - 1])}

ASSUME PagesAssumption ==
  /\ N \in Nat \ {0, 1}
  /\ CodePages \cup DataPages \subseteq Pages
  /\ CodePages \cap DataPages = {}

ASSUME CodesAssumption == ExitCodes \subseteq Nat \ {0}

ASSUME MessageAssumption == Message \in Nat

\* "this must be the period of the LFSR below" (riscv_test.h)
ASSUME MaxTestPagesIsLfsrPeriod ==
  /\ \A r \in 1 .. N : LfsrNext(r) \in 1 .. N
  /\ \A x \in LfsrRuns :
       \A i, j \in 0 .. (N - 1) : i # j => x[i] # x[j]

-----------------------------------------------------------------------------
PTE == [v : BOOLEAN, ppn : PhysPages, a : BOOLEAN, d : BOOLEAN]
NoPte == [v |-> FALSE, ppn |-> 0, a |-> FALSE, d |-> FALSE]
NewPte(f) == [v |-> TRUE, ppn |-> f, a |-> FALSE, d |-> FALSE]

\* A program may also touch page 0 or N, which are outside the test's pages.
Accesses ==
  [page : CodePages, kind : {"fetch"}, val : {Null}]
    \cup [page : DataPages \cup {0, N}, kind : {"load"}, val : {Null}]
    \cup [page : DataPages, kind : {"store"}, val : Values]
NoAccess == [page |-> 0, kind |-> "none", val |-> Null]

Medeleg == {"ecall", "fetch", "load", "store"}

vars == <<hart, pc, cause, access, pte, tlb, node, head, tail, mem, unfenced,
          turn, code, put, tohost, obs>>
listVars == <<node, head, tail>>
ctlVars == <<hart, turn, code, put, tohost>>

\* What vm_boot leaves behind when it enters the program (VmBoot checks it).
BootNode(x, n) ==
  IF n <= N
    THEN [addr |-> N + x[n - 1],
          next |-> IF n < N THEN n + 1 ELSE Null]
    ELSE [addr |-> 0, next |-> Null]

Init ==
  /\ hart \in [svadu : BOOLEAN, fpu : BOOLEAN]
  /\ pc = "user" /\ cause = "none" /\ access = NoAccess
  /\ pte = [p \in Pages |-> NoPte]
  /\ tlb = [p \in Pages |-> {NoPte}]
  /\ \E x \in LfsrRuns : node = [n \in Nodes |-> BootNode(x, n)]
  /\ head = FreeNode(0) /\ tail = FreeNode(N - 1)
  /\ \E image \in [Pages -> Values], junk \in Values :
       mem = [pp \in PhysPages |-> IF pp \in Pages THEN image[pp] ELSE junk]
  /\ unfenced = {}
  /\ turn = 1 /\ code = 0 /\ put = 0 /\ tohost = 0
  /\ obs = <<>>
-----------------------------------------------------------------------------
\* The hardware.  A translation may use any PTE that page has had since the
\* last sfence.vma for it: tlb[p] collects them.
SetPte(p, x) ==
  /\ pte' = [pte EXCEPT ![p] = x]
  /\ tlb' = [tlb EXCEPT ![p] = @ \cup {x}]

WrongFlushPage(p) == UNCHANGED <<pte, tlb>>
FlushPage(p) ==
  /\ tlb' = [tlb EXCEPT ![p] = {pte[p]}]
  /\ UNCHANGED pte

Permits(e, kind) == e.v /\ e.a /\ (kind = "store" => e.d)
Faults(e, kind) == ~Permits(e, kind) /\ ~(hart.svadu /\ e.v)

\* The instructions the program may execute next.
Ready == IF access = NoAccess THEN Accesses ELSE {access}

Trap(why) ==
  /\ cause' = why
  /\ pc' = CASE why \notin Medeleg -> "wtf"
             [] why = "ecall"      -> "evict"
             [] OTHER              -> "fault"

\* A user access through a translation that permits it.  A fetch from a frame
\* written since the last fence.i may return anything.
UserHit(acc, e) ==
  /\ pc = "user" /\ Permits(e, acc.kind)
  /\ access' = NoAccess
  /\ \/ /\ acc.kind = "store"
        /\ mem' = [mem EXCEPT ![e.ppn] = acc.val]
        /\ UNCHANGED obs
     \/ /\ acc.kind = "load"
        /\ obs' = <<acc.page, mem[e.ppn]>>
        /\ UNCHANGED mem
     \/ /\ acc.kind = "fetch"
        /\ \E v \in IF e.ppn \in unfenced THEN Values ELSE {mem[e.ppn]} :
             obs' = <<acc.page, v>>
        /\ UNCHANGED mem
  /\ UNCHANGED <<ctlVars, pc, cause, pte, tlb, listVars, unfenced>>

\* Svadu hardware sets the bits an access needs in the PTE in memory.
HardwareUpdate(acc, e) ==
  /\ pc = "user" /\ hart.svadu /\ e.v /\ ~Permits(e, acc.kind)
  /\ SetPte(acc.page, [pte[acc.page] EXCEPT !.a = TRUE,
                                            !.d = @ \/ acc.kind = "store"])
  /\ access' = acc
  /\ UNCHANGED <<ctlVars, pc, cause, listVars, mem, unfenced, obs>>

UserFault(acc) ==
  /\ pc = "user"
  /\ acc.page \in Pages => \E e \in tlb[acc.page] : Faults(e, acc.kind)
  /\ access' = acc
  /\ Trap(acc.kind)
  /\ UNCHANGED <<ctlVars, pte, tlb, listVars, mem, unfenced, obs>>

\* RVTEST_PASS and RVTEST_FAIL.
ECall(n) ==
  /\ pc = "user" /\ access = NoAccess
  /\ Trap("ecall")
  /\ code' = n
  /\ UNCHANGED <<hart, access, pte, tlb, listVars, mem, unfenced, turn,
                 put, tohost, obs>>

\* RVTEST_FP_ENABLE, `fssr x0`: an illegal instruction without an FPU.
FpEnable ==
  /\ pc = "user" /\ access = NoAccess /\ ~hart.fpu
  /\ Trap("illegal")
  /\ UNCHANGED <<ctlVars, access, pte, tlb, listVars, mem, unfenced, obs>>
-----------------------------------------------------------------------------
\* handle_fault.  A failing assert goes to "panic", a page fault taken by the
\* handler itself to "nested".
FaultPage == access.page

WrongMark(p) == [pte[p] EXCEPT !.a = TRUE]
Mark(p) == IF pte[p].a THEN [pte[p] EXCEPT !.d = TRUE]
                       ELSE [pte[p] EXCEPT !.a = TRUE]

MarkPte ==
  LET p == FaultPage IN
  /\ pc = "fault" /\ p \in Pages /\ pte[p].v
  /\ IF pte[p].a => ~pte[p].d /\ cause = "store"
       THEN SetPte(p, Mark(p)) /\ pc' = "flush"
       ELSE UNCHANGED <<pte, tlb>> /\ pc' = "panic"
  /\ UNCHANGED <<ctlVars, cause, access, listVars, mem, unfenced, obs>>

\* flush_page after marking, return, pop_tf.
FlushMarked ==
  /\ pc = "flush"
  /\ FlushPage(FaultPage)
  /\ pc' = "user"
  /\ UNCHANGED <<ctlVars, cause, access, listVars, mem, unfenced, obs>>

\* Take the first node of the freelist and map its frame, A and D set.  The
\* user_mapping entry is written here: the flush in between does not read it.
WrongRest(n) == n
Rest(n) == node[n].next

PopFrame ==
  LET p == FaultPage
      rest == Rest(head) IN
  /\ pc = "fault" /\ p \in Pages /\ ~pte[p].v
  /\ IF head = Null
       THEN /\ pc' = "panic"
            /\ UNCHANGED <<pte, tlb, node, head, tail>>
       ELSE /\ head' = rest
            /\ tail' = IF rest = tail THEN Null ELSE tail
            /\ SetPte(p, [NewPte(node[head].addr) EXCEPT !.a = TRUE, !.d = TRUE])
            /\ pc' = IF node[MapNode(p)].addr = 0 THEN "mapflush" ELSE "panic"
            /\ node' = [node EXCEPT ![MapNode(p)] =
                          IF @.addr = 0 THEN node[head] ELSE @]
  /\ UNCHANGED <<ctlVars, cause, access, mem, unfenced, obs>>

FlushMapped ==
  /\ pc = "mapflush"
  /\ FlushPage(FaultPage)
  /\ pc' = "copy"
  /\ UNCHANGED <<ctlVars, cause, access, listVars, mem, unfenced, obs>>

\* memcpy((void* )addr, uva2kva(addr), PGSIZE), through the user mapping.
CopyIn ==
  LET p == FaultPage IN
  /\ pc = "copy"
  /\ \E e \in tlb[p] :
       IF Faults(e, "store")
         THEN /\ pc' = "nested"
              /\ UNCHANGED <<mem, unfenced>>
         ELSE /\ mem' = [mem EXCEPT ![e.ppn] = mem[p]]
              /\ unfenced' = unfenced \cup {e.ppn}
              /\ pc' = "clean"
  /\ UNCHANGED <<ctlVars, cause, access, pte, tlb, listVars, obs>>

\* user_llpt[addr/PGSIZE] = new_pte, with A and D clear again.
CleanPte ==
  /\ pc = "clean"
  /\ SetPte(FaultPage, NewPte(pte[FaultPage].ppn))
  /\ pc' = "cleanflush"
  /\ UNCHANGED <<ctlVars, cause, access, listVars, mem, unfenced, obs>>

WrongNoFlush ==
  /\ pc = "cleanflush"
  /\ unfenced' = {}
  /\ pc' = "user"
  /\ UNCHANGED <<ctlVars, cause, access, pte, tlb, listVars, mem, obs>>
WrongNoFence ==
  /\ pc = "cleanflush"
  /\ FlushPage(FaultPage)
  /\ pc' = "user"
  /\ UNCHANGED <<ctlVars, cause, access, listVars, mem, unfenced, obs>>

\* flush_page, fence.i, pop_tf.
FlushCleaned ==
  /\ pc = "cleanflush"
  /\ FlushPage(FaultPage)
  /\ unfenced' = {}
  /\ pc' = "user"
  /\ UNCHANGED <<ctlVars, cause, access, listVars, mem, obs>>

\* The assert on the range of the faulting address.
BadAddress ==
  /\ pc = "fault" /\ FaultPage \notin Pages
  /\ pc' = "panic"
  /\ UNCHANGED <<ctlVars, cause, access, pte, tlb, listVars, mem, unfenced, obs>>
-----------------------------------------------------------------------------
\* The ecall branch of handle_trap: evict every page, then terminate.
\* `dirty` is the memcmp, done through the user mapping like the memcpy.
EvictChecks(p, e, dirty) ==
  IF ~pte[p].a \/ (dirty /\ ~pte[p].d)
    THEN "panic"
    ELSE IF Faults(e, IF dirty THEN "store" ELSE "load") THEN "nested" ELSE "evict"

AppendNode(n) ==
  /\ tail' = n
  /\ head' = IF tail = Null THEN n ELSE head
  /\ node' = [m \in Nodes |->
                [addr |-> IF m = n THEN 0 ELSE node[m].addr,
                 next |-> IF m = tail THEN n ELSE node[m].next]]

Evict ==
  LET p == turn IN
  /\ pc = "evict" /\ p \in Pages /\ node[MapNode(p)].addr # 0
  /\ \E e \in tlb[p] :
       LET next == EvictChecks(p, e, mem[e.ppn] # mem[p]) IN
       /\ pc' = next
       /\ IF next = "evict"
            THEN /\ mem' = [mem EXCEPT ![e.ppn] = mem[p]]
                 /\ AppendNode(MapNode(p))
                 /\ turn' = turn + 1
            ELSE UNCHANGED <<mem, listVars, turn>>
  /\ UNCHANGED <<hart, cause, access, pte, tlb, unfenced, code, put, tohost, obs>>

WrongEvictSkip ==
  /\ pc = "evict" /\ turn \in Pages /\ node[MapNode(turn)].addr = 0
  /\ UNCHANGED vars
EvictSkip ==
  /\ pc = "evict" /\ turn \in Pages /\ node[MapNode(turn)].addr = 0
  /\ turn' = turn + 1
  /\ UNCHANGED <<hart, pc, cause, access, pte, tlb, listVars, mem, unfenced,
                 code, put, tohost, obs>>

EvictDone ==
  /\ pc = "evict" /\ turn = N
  /\ pc' = "terminate"
  /\ UNCHANGED <<ctlVars, cause, access, pte, tlb, listVars, mem, unfenced, obs>>

\* A character in tohost: 0x0101000000000000 | c, which is no exit code.
Console == -1

\* assert's cputstring: do_tohost spins while tohost is set, then sets it.
PutChar ==
  /\ pc = "panic" /\ put < Message /\ tohost = 0
  /\ tohost' = Console
  /\ put' = put + 1
  /\ UNCHANGED <<hart, turn, code, pc, cause, access, pte, tlb, listVars, mem,
                 unfenced, obs>>

\* A failed assertion ends in terminate(3), wtf in terminate(841).
Die ==
  /\ \/ pc = "panic" /\ put = Message /\ code' = 3
     \/ pc = "wtf" /\ code' = 841
  /\ pc' = "terminate"
  /\ UNCHANGED <<hart, turn, put, tohost, cause, access, pte, tlb, listVars, mem,
                 unfenced, obs>>

\* do_tohost again, with the exit code.
Terminate ==
  /\ pc = "terminate" /\ tohost = 0
  /\ tohost' = code
  /\ pc' = "halt"
  /\ UNCHANGED <<hart, turn, code, put, cause, access, pte, tlb, listVars, mem,
                 unfenced, obs>>

\* The host, which is not code of the environment: it takes a character and clears tohost.
HostReads ==
  /\ tohost = Console
  /\ tohost' = 0
  /\ UNCHANGED <<hart, turn, code, put, pc, cause, access, pte, tlb, listVars, mem,
                 unfenced, obs>>

\* while (1);
Spin == pc = "halt" /\ UNCHANGED vars

User ==
  \/ \E acc \in Ready : UserFault(acc)
  \/ \E acc \in Ready :
       acc.page \in Pages /\ \E e \in tlb[acc.page] :
         UserHit(acc, e) \/ HardwareUpdate(acc, e)

HandleFault ==
  \/ BadAddress \/ MarkPte \/ FlushMarked
  \/ PopFrame \/ FlushMapped \/ CopyIn \/ CleanPte \/ FlushCleaned

Shutdown == Evict \/ EvictSkip \/ EvictDone \/ PutChar \/ Die \/ Terminate

Next ==
  \/ User
  \/ \E n \in ExitCodes : ECall(n)
  \/ FpEnable
  \/ HandleFault
  \/ Shutdown
  \/ HostReads
  \/ Spin

Spec == Init /\ [][Next]_vars

\* The hart runs on: a trapped access is retried, the handlers execute.  The host polls
\* tohost: do_tohost leaves the hart no other way out of its loop.
Retry == access # NoAccess /\ User
FairSpec ==
  /\ Spec
  /\ WF_vars(HandleFault) /\ WF_vars(Shutdown)
  /\ WF_vars(Retry)
  /\ WF_vars(HostReads)
-----------------------------------------------------------------------------
Mapped(p) == node[MapNode(p)].addr # 0
Running == pc \notin {"boot", "panic", "nested", "wtf", "evict", "terminate", "halt"}

\* The page a fault is bringing in is not the program's yet.
Filling(p) == FaultPage = p /\ pc \in {"mapflush", "copy"}

UserView ==
  [p \in Pages |-> IF Mapped(p) /\ ~Filling(p)
                     THEN mem[node[MapNode(p)].addr] ELSE mem[p]]

Flat == INSTANCE FlatMemory WITH
  umem <- UserView,
  mode <- IF Running \/ pc = "boot" THEN "running" ELSE "ended",
  due <- CASE pc = "panic" -> 3 [] pc = "wtf" -> 841 [] OTHER -> code,
  result <- IF tohost = Console THEN 0 ELSE tohost,
  EndCodes <- ExitCodes \cup {3, 841}

\* The pager implements flat memory: whatever faults, frames and TLB entries
\* come between, a load or fetch returns what the program last stored in that
\* page, or its image, and tohost is set once, to the code the program ended with.
FlatMemory == Flat!Spec

\* However the program ends, its code reaches tohost (terminate in vm.c): after eviction, or
\* behind every character of a failed assertion's message, each of which waits for the host.
CodeArrives == Flat!Delivered

PCs == {"boot", "user", "fault", "flush", "mapflush", "copy", "clean", "cleanflush",
        "evict", "terminate", "halt", "panic", "nested", "wtf"}

\* Every variable has its type.
TypeOK ==
  /\ hart \in [svadu : BOOLEAN, fpu : BOOLEAN]
  /\ pc \in PCs
  /\ cause \in Medeleg \cup {"none", "illegal"}
  /\ access \in Accesses \cup {NoAccess}
  /\ pte \in [Pages -> PTE]
  /\ tlb \in [Pages -> SUBSET PTE]
  /\ node \in [Nodes -> [addr : Frames \cup {0}, next : Nodes \cup {Null}]]
  /\ head \in Nodes \cup {Null} /\ tail \in Nodes \cup {Null}
  /\ mem \in [PhysPages -> Values]
  /\ unfenced \subseteq Frames
  /\ turn \in 1 .. N
  /\ code \in ExitCodes \cup {0, 3, 841}
  /\ put \in 0 .. Message
  /\ tohost \in ExitCodes \cup {0, 3, 841, Console}
  /\ obs = <<>> \/ obs \in Pages \X Values

\* The nodes the freelist holds, in the code's own order, until eviction.
OnFreelist == {n \in 1 .. N : head # Null /\ n >= head}

\* While the program runs, each frame is either free or backs exactly one page,
\* and the PTE of a page names the frame its user_mapping entry records.
FramesConserved ==
  Running =>
    /\ \A p \in Pages : pte[p].v = Mapped(p)
    /\ \A p \in Pages : Mapped(p) => pte[p].ppn = node[MapNode(p)].addr
    /\ \A p, q \in Pages : Mapped(p) /\ pte[p] = pte[q] => p = q
    /\ \A f \in Frames :
         (\E p \in Pages : node[MapNode(p)].addr = f)
           # (\E n \in OnFreelist : node[n].addr = f)

\* No handler assertion fails and no handler takes a page fault, except the
\* range assert on an address outside the test's pages.
OnlyWildAccessesPanic ==
  /\ pc # "nested"
  /\ pc = "panic" => access # NoAccess /\ FaultPage \notin Pages

\* The program leaves user mode with every mapped page accessed, and with the
\* dirty bit set on every page that differs from its image: what evict asserts.
DirtyPagesAreMarked ==
  \A p \in Pages :
    pc = "user" /\ access = NoAccess /\ Mapped(p) =>
      /\ pte[p].a
      /\ mem[pte[p].ppn] # mem[p] => pte[p].d

\* A user access that traps is executed in the end, unless it was wild.
AccessCompletes ==
  \A acc \in Accesses :
    access = acc /\ acc.page \in Pages ~> access = NoAccess
=============================================================================
