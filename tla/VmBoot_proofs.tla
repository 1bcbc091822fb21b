--------------------------- MODULE VmBoot_proofs ---------------------------
(***************************************************************************)
(* The v environment from its start, for any number of pages, values and   *)
(* exit codes: vm_boot sets up what the pager's proofs begin with, so that *)
(* what they show of the pager holds of every run of the environment; and  *)
(* each of its steps is a step of the flat memory the program is promised, *)
(* or one that the program cannot see.                                     *)
(***************************************************************************)
EXTENDS VmBoot, VmPager_proofs

\* The program's frames are fenced before it runs again, and it has no exit
\* code before it ends.
EndInv ==
  /\ pc # "boot"
  /\ pc \in {"user", "fault", "flush", "mapflush", "copy"} => unfenced = {}
  /\ Running => code = 0

\* The loop has filled the first i nodes from a run of the LFSR, which goes on
\* with random, and touched nothing else.
Filled(x) ==
  /\ x \in [0 .. (N - 1) -> 1 .. N]
  /\ \A k \in 1 .. (i - 1) : x[k] = LfsrNext(x[k - 1])
  /\ i > 0 => random = LfsrNext(x[i - 1])
  /\ node = [n \in Nodes |->
               IF n <= i THEN [addr |-> N + x[n - 1], next |-> n + 1]
                         ELSE [addr |-> 0, next |-> Null]]

\* What no iteration of the loop changes is as the program finds it.
Untouched ==
  /\ hart \in [svadu : BOOLEAN, fpu : BOOLEAN]
  /\ cause = "none" /\ access = NoAccess
  /\ pte = [p \in Pages |-> NoPte] /\ tlb = [p \in Pages |-> {NoPte}]
  /\ head = FreeNode(0) /\ tail = FreeNode(N - 1)
  /\ \E image \in [Pages -> Values], junk \in Values :
       mem = [pp \in PhysPages |-> IF pp \in Pages THEN image[pp] ELSE junk]
  /\ unfenced = {} /\ turn = 1 /\ code = 0 /\ put = 0 /\ tohost = 0 /\ obs = <<>>

Booting ==
  /\ pc = "boot"
  /\ i \in 0 .. N /\ random \in 1 .. N
  /\ Untouched
  /\ \E x : Filled(x)

\* The environment is in its boot loop or the pager's invariants hold.
BootInv == Booting \/ (IInv /\ EndInv)
-----------------------------------------------------------------------------
(* The invariant on the exit code and the fence. *)

\* The program is entered with everything fenced and no exit code.
LEMMA InitEnd == Init => EndInv
  BY DEF Init, EndInv

\* Every step keeps the invariant: CopyIn leaves a frame unfenced and
\* FlushCleaned fences it, and only the way to tohost sets a code.
LEMMA EndKept ==
  ASSUME IInv, EndInv, [Next]_vars
  PROVE  EndInv'
  <1> USE DEF EndInv, Running
  <1>1. CASE User
    <2>1. ASSUME NEW acc \in Ready, UserFault(acc)
          PROVE  EndInv'
      BY <2>1 DEF UserFault, Trap, ctlVars
    <2>2. ASSUME NEW acc \in Ready, NEW e \in tlb[acc.page],
                 UserHit(acc, e) \/ HardwareUpdate(acc, e)
          PROVE  EndInv'
      BY <2>2 DEF UserHit, HardwareUpdate, ctlVars
    <2>3. QED
      BY <1>1, <2>1, <2>2 DEF User
  <1>2. CASE \E n \in ExitCodes : ECall(n)
    BY <1>2 DEF ECall, Trap, Medeleg
  <1>3. CASE FpEnable
    BY <1>3 DEF FpEnable, Trap, ctlVars
  <1>4. CASE HandleFault
    BY <1>4 DEF HandleFault, BadAddress, MarkPte, FlushMarked, PopFrame,
                FlushMapped, CopyIn, CleanPte, FlushCleaned, ctlVars
  <1>5. CASE Evict
    <2>1. pc = "evict" /\ pc' = "evict" /\ UNCHANGED <<unfenced, code, put, tohost>>
      BY <1>5, EvictKeeps DEF Evict
    <2>2. QED
      BY <2>1
  <1>6. CASE EvictSkip \/ EvictDone \/ PutChar \/ Die \/ Terminate \/ HostReads
    BY <1>6 DEF EvictSkip, EvictDone, PutChar, Die, Terminate, HostReads, ctlVars
  <1>7. CASE Spin \/ UNCHANGED vars
    BY <1>7 DEF Spin, vars
  <1>8. QED
    BY <1>1, <1>2, <1>3, <1>4, <1>5, <1>6, <1>7 DEF Next, Shutdown
-----------------------------------------------------------------------------
(* The boot loop. *)

\* Before the first iteration no node is filled.
LEMMA BootInitHolds == BootInit => Booting
  <1> SUFFICES ASSUME BootInit PROVE Booting
    OBVIOUS
  <1>1. pc = "boot" /\ i = 0 /\ i \in 0 .. N /\ random \in 1 .. N
    BY Layout DEF BootInit, Seeds
  <1>2. Untouched
    BY DEF BootInit, Untouched
  <1>3. Filled([k \in 0 .. (N - 1) |-> 1])
    <2>1. [k \in 0 .. (N - 1) |-> 1] \in [0 .. (N - 1) -> 1 .. N]
      BY Layout
    <2>2. \A n \in Nodes : ~(n <= i)
      BY <1>1, Layout DEF Nodes
    <2>3. node = [n \in Nodes |-> [addr |-> 0, next |-> Null]]
      BY DEF BootInit
    <2>4. 1 .. (i - 1) = {}
      BY <1>1
    <2>5. QED
      BY <1>1, <2>1, <2>2, <2>3, <2>4 DEF Filled
  <1>4. QED
    BY <1>1, <1>2, <1>3 DEF Booting

\* An iteration fills the next node and steps the LFSR.
LEMMA FillNodeKeeps ==
  ASSUME Booting, FillNode
  PROVE  Booting'
  <1>1. /\ pc' = "boot" /\ i \in 0 .. (N - 1) /\ i' = i + 1
        /\ random' = LfsrNext(random) /\ random \in 1 .. N
    BY Layout DEF FillNode, Booting
  <1>2. Untouched'
    BY DEF FillNode, Booting, Untouched, othersUnchanged
  <1>3. i' \in 0 .. N /\ random' \in 1 .. N
    BY <1>1, MaxTestPagesIsLfsrPeriod, Layout
  <1>4. PICK x : Filled(x)
    BY DEF Booting
  <1>5. PICK y : y = [x EXCEPT ![i] = random]
    OBVIOUS
  <1>6. /\ y \in [0 .. (N - 1) -> 1 .. N]
        /\ y[i] = random
        /\ \A k \in 0 .. (N - 1) : k # i => y[k] = x[k]
    BY <1>1, <1>4, <1>5 DEF Filled
  <1>7. \A k \in 1 .. i : y[k] = LfsrNext(y[k - 1])
    <2> SUFFICES ASSUME NEW k \in 1 .. i PROVE y[k] = LfsrNext(y[k - 1])
      OBVIOUS
    <2>1. k - 1 \in 0 .. (N - 1) /\ k - 1 # i /\ k \in 0 .. (N - 1)
      BY <1>1, Layout
    <2>2. y[k - 1] = x[k - 1]
      BY <1>6, <2>1
    <2>3. CASE k = i
      <3>1. i > 0
        BY <1>1, <2>3
      <3>2. QED
        BY <1>4, <1>6, <2>2, <2>3, <3>1 DEF Filled
    <2>4. CASE k # i
      <3>1. k \in 1 .. (i - 1)
        BY <1>1, <2>4
      <3>2. QED
        BY <1>4, <1>6, <2>1, <2>2, <2>4, <3>1 DEF Filled
    <2>5. QED
      BY <2>3, <2>4
  <1>8. node' = [n \in Nodes |->
                   IF n <= i + 1 THEN [addr |-> N + y[n - 1], next |-> n + 1]
                                 ELSE [addr |-> 0, next |-> Null]]
    <2>1. /\ node' = [node EXCEPT ![i + 1] = [addr |-> N + random, next |-> i + 2]]
          /\ i + 1 \in Nodes
      BY <1>1, Layout DEF FillNode, FreeNode, Nodes
    <2>2. node = [n \in Nodes |->
                    IF n <= i THEN [addr |-> N + x[n - 1], next |-> n + 1]
                              ELSE [addr |-> 0, next |-> Null]]
      BY <1>4 DEF Filled
    <2>3. ASSUME NEW n \in Nodes
          PROVE  node'[n] = IF n <= i + 1 THEN [addr |-> N + y[n - 1], next |-> n + 1]
                                          ELSE [addr |-> 0, next |-> Null]
      <3>1. n \in Nat /\ n >= 1
        BY Layout DEF Nodes
      <3>2. CASE n = i + 1
        <4>1. n - 1 = i /\ n + 1 = i + 2 /\ n <= i + 1
          BY <1>1, <3>2
        <4>2. QED
          BY <1>6, <2>1, <2>2, <3>2, <4>1
      <3>3. CASE n <= i
        <4>1. n - 1 \in 0 .. (N - 1) /\ n - 1 # i /\ n # i + 1 /\ n <= i + 1
          BY <1>1, <3>1, <3>3, Layout
        <4>2. y[n - 1] = x[n - 1]
          BY <1>6, <4>1
        <4>3. QED
          BY <2>1, <2>2, <3>3, <4>1, <4>2
      <3>4. CASE n > i + 1
        <4>1. ~(n <= i) /\ ~(n <= i + 1) /\ n # i + 1
          BY <1>1, <3>1, <3>4
        <4>2. QED
          BY <2>1, <2>2, <4>1
      <3>5. QED
        BY <1>1, <3>1, <3>2, <3>3, <3>4
    <2>4. node' = [n \in Nodes |-> node'[n]]
      BY <2>1, <2>2
    <2>5. QED
      BY <2>3, <2>4
  <1>9. Filled(y)'
    <2>1. i' > 0 /\ i' - 1 = i
      BY <1>1
    <2>2. random' = LfsrNext(y[i])
      BY <1>1, <1>6
    <2>3. QED
      BY <1>1, <1>6, <1>7, <1>8, <2>1, <2>2 DEF Filled
  <1>10. QED
    BY <1>1, <1>2, <1>3, <1>9 DEF Booting

\* After the last iteration, and the end of the chain, the pager starts as its
\* own specification says.
LEMMA EnterUserInit ==
  ASSUME Booting, EnterUser
  PROVE  Init'
  <1>1. PICK x : Filled(x)
    BY DEF Booting
  <1>2. i = N /\ pc' = "user"
    BY DEF EnterUser
  <1>3. x \in LfsrRuns
    BY <1>1, <1>2 DEF Filled, LfsrRuns
  <1>4. node' = [n \in Nodes |-> BootNode(x, n)]
    <2>1. node = [n \in Nodes |->
                    IF n <= N THEN [addr |-> N + x[n - 1], next |-> n + 1]
                              ELSE [addr |-> 0, next |-> Null]]
      BY <1>1, <1>2 DEF Filled
    <2>2. /\ node' = [node EXCEPT ![N].next = Null]
          /\ N \in Nodes
      <3>1. FreeNode(N - 1) = N /\ N \in Nodes
        BY Layout DEF FreeNode, Nodes
      <3>2. QED
        BY <3>1 DEF EnterUser
    <2>3. ASSUME NEW n \in Nodes
          PROVE  node'[n] = BootNode(x, n)
      <3>1. n \in Nat
        BY Layout DEF Nodes
      <3>2. CASE n = N
        <4>1. node[n] = [addr |-> N + x[N - 1], next |-> N + 1]
          BY <2>1, <3>2, Layout
        <4>2. node'[n] = [node[n] EXCEPT !.next = Null]
          BY <2>1, <2>2, <3>2
        <4>3. node'[n] = [addr |-> N + x[n - 1], next |-> Null]
          BY <3>2, <4>1, <4>2
        <4>4. QED
          BY <3>2, <4>3, Layout DEF BootNode
      <3>3. CASE n < N
        BY <2>1, <2>2, <3>1, <3>3, Layout DEF BootNode
      <3>4. CASE n > N
        BY <2>1, <2>2, <3>1, <3>4, Layout DEF BootNode
      <3>5. QED
        BY <3>1, <3>2, <3>3, <3>4, Layout
    <2>4. node' = [n \in Nodes |-> node'[n]]
      BY <2>1, <2>2
    <2>5. QED
      BY <2>3, <2>4
  <1>5. Untouched'
    BY DEF EnterUser, Booting, Untouched, othersUnchanged
  <1>6. QED
    BY <1>2, <1>3, <1>4, <1>5 DEF Init, Untouched

\* In the loop every variable has its type.
LEMMA BootTyped == Booting => TypeOK
  <1> SUFFICES ASSUME Booting PROVE TypeOK
    OBVIOUS
  <1>1. NoPte \in PTE
    BY Layout DEF NoPte, PTE
  <1>2. pte \in [Pages -> PTE] /\ tlb \in [Pages -> SUBSET PTE]
    BY <1>1 DEF Booting, Untouched
  <1>3. node \in [Nodes -> [addr : Frames \cup {0}, next : Nodes \cup {Null}]]
    <2>1. PICK x : Filled(x)
      BY DEF Booting
    <2>2. ASSUME NEW n \in Nodes
          PROVE  (IF n <= i THEN [addr |-> N + x[n - 1], next |-> n + 1]
                            ELSE [addr |-> 0, next |-> Null])
                   \in [addr : Frames \cup {0}, next : Nodes \cup {Null}]
      <3>1. CASE n <= i
        <4>1. n - 1 \in 0 .. (N - 1) /\ n + 1 \in Nodes
          BY <3>1, Layout DEF Nodes, Booting
        <4>2. x[n - 1] \in 1 .. N
          BY <2>1, <4>1 DEF Filled
        <4>3. N + x[n - 1] \in Frames
          BY <4>2, Layout DEF Frames
        <4>4. QED
          BY <3>1, <4>1, <4>3
      <3>2. CASE ~(n <= i)
        BY <3>2
      <3>3. QED
        BY <3>1, <3>2
    <2>3. QED
      BY <2>1, <2>2 DEF Filled
  <1>4. /\ head \in Nodes /\ tail \in Nodes
        /\ turn \in 1 .. N
    BY Layout DEF Booting, Untouched, FreeNode, Nodes
  <1>5. mem \in [PhysPages -> Values]
    BY DEF Booting, Untouched
  <1>6. QED
    BY <1>2, <1>3, <1>4, <1>5, MessageAssumption DEF Booting, Untouched, TypeOK, PCs
-----------------------------------------------------------------------------
(* The loop and the program. *)

\* The pager, the program and the host do nothing during the boot loop.
LEMMA NothingRuns ==
  ASSUME pc = "boot", tohost = 0, Next
  PROVE  FALSE
  <1>1. ~User
    BY DEF User, UserFault, UserHit, HardwareUpdate
  <1>2. ~(\E n \in ExitCodes : ECall(n)) /\ ~FpEnable
    BY DEF ECall, FpEnable
  <1>3. ~HandleFault
    BY DEF HandleFault, BadAddress, MarkPte, FlushMarked, PopFrame, FlushMapped,
           CopyIn, CleanPte, FlushCleaned
  <1>4. ~Shutdown /\ ~Spin /\ ~HostReads
    BY DEF HostReads, Console, Shutdown, Evict, EvictSkip, EvictDone, PutChar, Die, Terminate, Spin
  <1>5. QED
    BY <1>1, <1>2, <1>3, <1>4 DEF Next

\* Booting depends on the variables only.
LEMMA BootStutters ==
  ASSUME Booting, UNCHANGED bootVars
  PROVE  Booting'
  <1>1. /\ UNCHANGED <<hart, pc, cause, access, pte, tlb, node, head, tail, mem,
                       unfenced, turn, code, put, tohost, obs, i, random>>
    BY DEF bootVars, vars
  <1>2. PICK x : Filled(x)
    BY DEF Booting
  <1>3. Filled(x)'
    BY <1>1, <1>2 DEF Filled
  <1>4. Untouched'
    BY <1>1 DEF Booting, Untouched
  <1>5. QED
    BY <1>1, <1>3, <1>4 DEF Booting

\* Every step stays in the loop, enters the program or is a step of the pager.
LEMMA BootKeeps ==
  ASSUME BootInv, [BootNext \/ RunNext]_bootVars
  PROVE  BootInv'
  <1>1. CASE Booting
    <2>1. CASE BootNext
      <3>1. CASE FillNode
        BY <1>1, <3>1, FillNodeKeeps DEF BootInv
      <3>2. CASE EnterUser
        <4>1. Init'
          BY <1>1, <3>2, EnterUserInit
        <4>2. (Init => IInv /\ EndInv)'
          BY InitHolds, InitEnd, PTL
        <4>3. QED
          BY <4>1, <4>2 DEF BootInv
      <3>3. QED
        BY <2>1, <3>1, <3>2 DEF BootNext
    <2>2. CASE RunNext
      BY <1>1, <2>2, NothingRuns DEF RunNext, Booting, Untouched
    <2>3. CASE UNCHANGED bootVars
      BY <1>1, <2>3, BootStutters DEF BootInv
    <2>4. QED
      BY <2>1, <2>2, <2>3
  <1>2. CASE IInv /\ EndInv
    <2>1. CASE BootNext
      BY <1>2, <2>1 DEF BootNext, FillNode, EnterUser, EndInv
    <2>2. CASE RunNext \/ UNCHANGED bootVars
      <3>1. [Next]_vars
        BY <2>2 DEF RunNext, bootVars
      <3>2. QED
        BY <1>2, <3>1, NextKeeps, EndKept DEF BootInv
    <2>3. QED
      BY <2>1, <2>2
  <1>3. QED
    BY <1>1, <1>2 DEF BootInv

\* From every seed, the loop's invariant holds until the program is entered and
\* the pager's from then on.
THEOREM BootInvariance == BootSpec => []BootInv
  <1>1. BootInit => BootInv
    BY BootInitHolds DEF BootInv
  <1>2. BootInv /\ [BootNext \/ RunNext]_bootVars => BootInv'
    BY BootKeeps
  <1>3. QED
    BY <1>1, <1>2, PTL DEF BootSpec

\* Every variable has its type, from the first iteration of the boot loop on.
THEOREM Typing == BootSpec => []TypeOK
  <1>1. BootInv => TypeOK
    BY BootTyped DEF BootInv, IInv
  <1>2. QED
    BY <1>1, BootInvariance, PTL

\* No assert of evict and handle_fault fails other than the range check, and
\* the handlers take no page fault of their own.
THEOREM HandlersSucceed == BootSpec => []OnlyWildAccessesPanic
  <1>1. BootInv => OnlyWildAccessesPanic
    BY DEF BootInv, IInv, Booting, OnlyWildAccessesPanic
  <1>2. QED
    BY <1>1, BootInvariance, PTL

\* A page that differs from its image is marked dirty whenever the program can
\* make its ecall: what the assert in evict relies on.
THEOREM DirtyPages == BootSpec => []DirtyPagesAreMarked
  <1>1. BootInv => DirtyPagesAreMarked
    BY DirtyFollows DEF BootInv, Booting, DirtyPagesAreMarked
  <1>2. QED
    BY <1>1, BootInvariance, PTL

\* While the program runs, each frame is on the freelist or backs one page.
THEOREM NoFrameLost == BootSpec => []FramesConserved
  <1>1. BootInv => FramesConserved
    BY FramesFollow DEF BootInv, Booting, FramesConserved, Running
  <1>2. QED
    BY <1>1, BootInvariance, PTL
-----------------------------------------------------------------------------
(* What the program sees. *)

FlatDue == CASE pc = "panic" -> 3 [] pc = "wtf" -> 841 [] OTHER -> code
FlatMode == IF Running \/ pc = "boot" THEN "running" ELSE "ended"

\* The program's memory has a value in every page.
LEMMA ViewTyped == TypeOK => UserView \in [Pages -> Values]
  <1> SUFFICES ASSUME TypeOK, NEW p \in Pages
               PROVE  (IF Mapped(p) /\ ~Filling(p)
                         THEN mem[node[MapNode(p)].addr] ELSE mem[p]) \in Values
    BY DEF UserView
  <1>1. mem \in [PhysPages -> Values]
    BY DEF TypeOK
  <1>2. MapNode(p) \in Nodes
    BY Layout
  <1>3. node[MapNode(p)].addr \in Frames \cup {0}
    BY <1>2 DEF TypeOK
  <1>4. p \in PhysPages /\ node[MapNode(p)].addr \in PhysPages
    BY <1>3, Layout
  <1>5. QED
    BY <1>1, <1>4

\* Memory and mappings alone decide what the program sees, and the handler's
\* position for the page it is filling.
LEMMA ViewKept ==
  ASSUME UNCHANGED <<mem, node>>, \A p \in Pages : Filling(p)' = Filling(p)
  PROVE  UserView' = UserView
  BY DEF UserView, Mapped
-----------------------------------------------------------------------------
(* The steps of the flat memory, in terms of the pager. *)

FlatStep == [Flat!Next]_(Flat!vars)

\* Nothing the program sees changes.
LEMMA Stutters ==
  ASSUME UserView' = UserView, FlatMode' = FlatMode, FlatDue' = FlatDue,
         UNCHANGED <<obs, tohost>>
  PROVE  FlatStep
  BY DEF FlatStep, Flat!vars, FlatMode, FlatDue

\* A load or fetch returns what the program sees in the page.
LEMMA Reads ==
  ASSUME NEW p \in CodePages \cup DataPages, FlatMode = "running",
         obs' = <<p, UserView[p]>>, UserView' = UserView, FlatMode' = FlatMode,
         FlatDue' = FlatDue, tohost' = tohost
  PROVE  FlatStep
  BY DEF FlatStep, Flat!Next, Flat!Read, FlatMode, FlatDue

\* A store changes the page it names.
LEMMA Stores ==
  ASSUME NEW p \in DataPages, NEW v \in Values, FlatMode = "running",
         UserView' = [UserView EXCEPT ![p] = v], FlatMode' = FlatMode,
         FlatDue' = FlatDue, UNCHANGED <<obs, tohost>>
  PROVE  FlatStep
  BY DEF FlatStep, Flat!Next, Flat!Store, FlatMode, FlatDue

\* The program ends with a code.
LEMMA Ends ==
  ASSUME FlatMode = "running", FlatMode' = "ended",
         FlatDue' \in ExitCodes \cup {3, 841},
         UserView' = UserView, UNCHANGED <<obs, tohost>>
  PROVE  FlatStep
  BY DEF FlatStep, Flat!Next, Flat!End, FlatMode, FlatDue

\* After its end the program's memory is forgotten.
LEMMA Forgets ==
  ASSUME FlatMode = "ended", FlatMode' = "ended", TypeOK', FlatDue' = FlatDue,
         UNCHANGED <<obs, tohost>>
  PROVE  FlatStep
  <1>1. (TypeOK => UserView \in [Pages -> Values])'
    BY ViewTyped, PTL
  <1>2. QED
    BY <1>1 DEF FlatStep, Flat!Next, Flat!Forget, FlatMode, FlatDue

\* A character written to tohost, or taken from it, is no result.
LEMMA Prints ==
  ASSUME UserView' = UserView, FlatMode' = FlatMode, FlatDue' = FlatDue,
         obs' = obs, tohost \in {0, Console}, tohost' \in {0, Console}
  PROVE  FlatStep
  BY DEF FlatStep, Flat!vars, FlatMode, FlatDue, Console

\* The code is delivered once.
LEMMA Delivers ==
  ASSUME FlatMode = "ended", FlatMode' = "ended", tohost = 0, tohost' = FlatDue,
         FlatDue' = FlatDue, FlatDue # Console, UserView' = UserView, obs' = obs
  PROVE  FlatStep
  BY DEF FlatStep, Flat!Next, Flat!Deliver, FlatMode, FlatDue, Console
-----------------------------------------------------------------------------
(* The program's own steps. *)

\* Through a translation that permits it, an access reads or writes what the
\* program sees in its page; a fetch finds every frame fenced.
LEMMA UserHitFlat ==
  ASSUME IInv, EndInv, NEW acc \in Ready, acc.page \in Pages,
         NEW e \in tlb[acc.page], UserHit(acc, e)
  PROVE  FlatStep
  <1> DEFINE p == acc.page
  <1>1. /\ pc = "user" /\ pc' = "user" /\ Permits(e, acc.kind)
        /\ UNCHANGED <<code, put, tohost, pte, node>>
    BY DEF UserHit, ctlVars, listVars
  <1>2. Running /\ Running' /\ Active /\ \A q \in Pages : Ahead(q)
    BY <1>1 DEF Running, Active, Ahead
  <1>3. FlatMode = "running" /\ FlatMode' = FlatMode /\ FlatDue' = FlatDue
    BY <1>1, <1>2 DEF FlatMode, FlatDue
  <1>4. acc \in Accesses
    BY ReadyTyped DEF IInv
  <1>5. Coherent(p)
    BY <1>1, <1>2 DEF IInv, TlbInv
  <1>6. pte[p].v /\ e.ppn = pte[p].ppn
    BY <1>1, <1>5 DEF Coherent, Permits
  <1>7. Mapped(p) /\ pte[p].ppn = node[MapNode(p)].addr
    BY <1>2, <1>6, OwnFrame DEF IInv
  <1>8. \A q \in Pages : Filling(q) = FALSE /\ Filling(q)' = FALSE
    BY <1>1 DEF Filling
  <1>9. UserView[p] = mem[e.ppn]
    BY <1>6, <1>7, <1>8 DEF UserView
  <1>10. /\ acc.kind \in {"fetch", "load"} => p \in CodePages \cup DataPages
         /\ acc.kind = "store" => p \in DataPages /\ acc.val \in Values
    BY <1>4, Layout DEF Accesses
  <1>11. CASE acc.kind = "store"
    <2>1. mem' = [mem EXCEPT ![pte[p].ppn] = acc.val] /\ obs' = obs
      BY <1>6, <1>11 DEF UserHit
    <2>2. /\ \A q \in Pages : mem'[q] = mem[q]
          /\ \A q \in Pages \ {p} : Mapped(q) => mem'[pte[q].ppn] = mem[pte[q].ppn]
          /\ mem'[pte[p].ppn] = acc.val
      BY <1>2, <1>6, <2>1, FrameWrite DEF IInv
    <2>3. \A q \in Pages : Mapped(q) => pte[q].ppn = node[MapNode(q)].addr
      BY <1>2 DEF IInv, MappingInv
    <2>4. \A q \in Pages : Mapped(q)' = Mapped(q)
      BY <1>1 DEF Mapped
    <2>5. ASSUME NEW q \in Pages
          PROVE  UserView'[q] = [UserView EXCEPT ![p] = acc.val][q]
      <3>1. CASE q = p
        BY <1>1, <1>7, <1>8, <2>2, <2>4, <3>1 DEF UserView
      <3>2. CASE q # p
        BY <1>1, <1>8, <2>2, <2>3, <2>4, <3>2 DEF UserView
      <3>3. QED
        BY <3>1, <3>2
    <2>6. UserView' = [UserView EXCEPT ![p] = acc.val]
      BY <2>5 DEF UserView
    <2>7. QED
      BY <1>1, <1>3, <1>10, <1>11, <2>1, <2>6, Stores
  <1>12. CASE acc.kind \in {"fetch", "load"}
    <2>1. mem' = mem /\ obs' = <<p, mem[e.ppn]>>
      BY <1>1, <1>12 DEF UserHit, EndInv
    <2>2. UserView' = UserView
      BY <1>1, <1>8, <2>1, ViewKept
    <2>3. QED
      BY <1>1, <1>3, <1>9, <1>10, <1>12, <2>1, <2>2, Reads
  <1>13. QED
    BY <1>4, <1>11, <1>12, AccessesTyped

\* The hardware's own update of a PTE is invisible.
LEMMA HardwareUpdateFlat ==
  ASSUME NEW acc \in Ready, NEW e \in tlb[acc.page], HardwareUpdate(acc, e)
  PROVE  FlatStep
  <1>1. pc = "user" /\ UNCHANGED <<pc, mem, node, code, put, tohost, obs>>
    BY DEF HardwareUpdate, ctlVars, listVars
  <1>2. UserView' = UserView
    BY <1>1, ViewKept DEF Filling
  <1>3. FlatMode' = FlatMode /\ FlatDue' = FlatDue
    BY <1>1 DEF FlatMode, FlatDue, Running
  <1>4. QED
    BY <1>1, <1>2, <1>3, Stutters

\* A page fault is invisible.
LEMMA UserFaultFlat ==
  ASSUME IInv, NEW acc \in Ready, UserFault(acc)
  PROVE  FlatStep
  <1>1. pc = "user" /\ UNCHANGED <<mem, node, code, put, tohost, obs>>
    BY DEF UserFault, ctlVars, listVars
  <1>2. pc' = "fault"
    <2>1. acc.kind \in {"fetch", "load", "store"}
      BY ReadyTyped, AccessesTyped DEF IInv
    <2>2. QED
      BY <2>1 DEF UserFault, Trap, Medeleg
  <1>3. UserView' = UserView
    BY <1>1, <1>2, ViewKept DEF Filling
  <1>4. FlatMode' = FlatMode /\ FlatDue' = FlatDue
    BY <1>1, <1>2 DEF FlatMode, FlatDue, Running
  <1>5. QED
    BY <1>1, <1>3, <1>4, Stutters

\* The ecall ends the program with its argument, an illegal instruction with
\* the code of wtf.
LEMMA LeaveFlat ==
  ASSUME (\E n \in ExitCodes : ECall(n)) \/ FpEnable
  PROVE  FlatStep
  <1>1. pc = "user" /\ UNCHANGED <<mem, node, tohost, obs>>
    BY DEF ECall, FpEnable, ctlVars, listVars
  <1>2. \/ pc' = "evict" /\ code' \in ExitCodes
        \/ pc' = "wtf"
    BY DEF ECall, FpEnable, Trap, Medeleg
  <1>3. UserView' = UserView
    BY <1>1, <1>2, ViewKept DEF Filling
  <1>4. FlatMode = "running" /\ FlatMode' = "ended"
    BY <1>1, <1>2 DEF FlatMode, Running
  <1>5. FlatDue' \in ExitCodes \cup {3, 841}
    BY <1>2 DEF FlatDue
  <1>6. QED
    BY <1>1, <1>3, <1>4, <1>5, Ends
-----------------------------------------------------------------------------
(* The fault handler. *)

\* The range assertion ends the program with the code of a failed assertion.
LEMMA BadAddressFlat ==
  ASSUME BadAddress
  PROVE  FlatStep
  <1>1. pc = "fault" /\ pc' = "panic" /\ UNCHANGED <<mem, node, tohost, obs>>
    BY DEF BadAddress, ctlVars, listVars
  <1>2. UserView' = UserView
    BY <1>1, ViewKept DEF Filling
  <1>3. FlatMode = "running" /\ FlatMode' = "ended" /\ FlatDue' = 3
    BY <1>1 DEF FlatMode, FlatDue, Running
  <1>4. QED
    BY <1>1, <1>2, <1>3, Ends

\* Marking a PTE, cleaning it and the flushes are invisible, for no assertion
\* fails on the way.
LEMMA BookkeepingFlat ==
  ASSUME IInv, MarkPte \/ FlushMarked \/ FlushMapped \/ CleanPte \/ FlushCleaned
  PROVE  FlatStep
  <1>1. /\ pc \in {"fault", "flush", "mapflush", "clean", "cleanflush"}
        /\ pc' \in {"flush", "panic", "user", "copy", "cleanflush"}
        /\ pc = "mapflush" <=> pc' = "copy"
        /\ pc' = "panic" => FaultPage \in Pages
        /\ UNCHANGED <<mem, node, access, code, put, tohost, obs>>
    BY DEF MarkPte, FlushMarked, FlushMapped, CleanPte, FlushCleaned, ctlVars, listVars
  <1>2. pc' # "panic"
    <2>1. IInv'
      BY MarkPteKeeps, FlushMarkedKeeps, FlushMappedKeeps, CleanPteKeeps,
         FlushCleanedKeeps
    <2>2. QED
      BY <1>1, <2>1 DEF IInv, OnlyWildAccessesPanic, FaultPage
  <1>3. \A p \in Pages : Filling(p)' = Filling(p)
    BY <1>1, <1>2 DEF Filling, FaultPage
  <1>4. UserView' = UserView
    BY <1>1, <1>3, ViewKept
  <1>5. FlatMode' = FlatMode /\ FlatDue' = FlatDue
    BY <1>1, <1>2 DEF FlatMode, FlatDue, Running
  <1>6. QED
    BY <1>1, <1>4, <1>5, Stutters

\* Taking a frame is invisible: until its contents are copied the program's
\* page is the image.
LEMMA PopFrameFlat ==
  ASSUME IInv, PopFrame
  PROVE  FlatStep
  <1>1. PICK p : p = FaultPage
    OBVIOUS
  <1>2. /\ pc = "fault" /\ p \in Pages /\ ~pte[p].v
        /\ pc' \in {"panic", "mapflush"}
        /\ UNCHANGED <<mem, access, code, put, tohost, obs>>
    BY <1>1 DEF PopFrame, ctlVars
  <1>3. pc' = "mapflush"
    <2>1. IInv'
      BY PopFrameKeeps
    <2>2. FaultPage' \in Pages
      BY <1>1, <1>2 DEF FaultPage
    <2>3. QED
      BY <1>2, <2>1, <2>2 DEF IInv, OnlyWildAccessesPanic
  <1>4. Active /\ \A q \in Pages : Ahead(q)
    BY <1>2 DEF Active, Running, Ahead
  <1>5. ~Mapped(p)
    BY <1>2, <1>4 DEF IInv, MappingInv
  <1>6. \A q \in Pages \ {p} : node'[MapNode(q)] = node[MapNode(q)]
    <2> SUFFICES ASSUME NEW q \in Pages \ {p}
                 PROVE  node'[MapNode(q)] = node[MapNode(q)]
      OBVIOUS
    <2>1. MapNode(q) \in Nodes /\ MapNode(q) # MapNode(p)
      BY <1>2, Layout
    <2>2. node \in [Nodes -> [addr : Frames \cup {0}, next : Nodes \cup {Null}]]
      BY DEF IInv, TypeOK
    <2>3. QED
      BY <1>1, <2>1, <2>2 DEF PopFrame
  <1>7. /\ \A q \in Pages : Filling(q) = FALSE
        /\ \A q \in Pages : Filling(q)' = (q = p)
    BY <1>1, <1>2, <1>3 DEF Filling, FaultPage
  <1>8. \A q \in Pages : UserView'[q] = UserView[q]
    BY <1>2, <1>5, <1>6, <1>7 DEF UserView, Mapped
  <1>9. UserView' = UserView
    BY <1>8 DEF UserView
  <1>10. FlatMode' = FlatMode /\ FlatDue' = FlatDue
    BY <1>2, <1>3 DEF FlatMode, FlatDue, Running
  <1>11. QED
    BY <1>2, <1>9, <1>10, Stutters

\* Copying the image into the frame is invisible: the page keeps its contents
\* while it moves.
LEMMA CopyInFlat ==
  ASSUME IInv, CopyIn
  PROVE  FlatStep
  <1>1. PICK p : p = FaultPage
    OBVIOUS
  <1>2. /\ pc = "copy" /\ p \in Pages /\ pte[p].v /\ tlb[p] = {pte[p]}
        /\ UNCHANGED <<access, pte, node, code, put, tohost, obs>>
    BY <1>1 DEF CopyIn, IInv, FaultInv, ctlVars, listVars
  <1>3. pc' = "clean" /\ mem' = [mem EXCEPT ![pte[p].ppn] = mem[p]]
    <2>1. IInv'
      BY CopyInKeeps
    <2>2. pc' # "nested"
      BY <2>1 DEF IInv, OnlyWildAccessesPanic
    <2>3. QED
      BY <1>1, <1>2, <2>2 DEF CopyIn
  <1>4. Active /\ \A q \in Pages : Ahead(q)
    BY <1>2 DEF Active, Running, Ahead
  <1>5. /\ \A q \in Pages : mem'[q] = mem[q]
        /\ \A q \in Pages \ {p} : Mapped(q) => mem'[pte[q].ppn] = mem[pte[q].ppn]
        /\ mem'[pte[p].ppn] = mem[p]
    BY <1>2, <1>3, <1>4, FrameWrite DEF IInv
  <1>6. \A q \in Pages : Mapped(q) => pte[q].ppn = node[MapNode(q)].addr
    BY <1>4 DEF IInv, MappingInv
  <1>7. Mapped(p) /\ \A q \in Pages : Mapped(q)' = Mapped(q)
    BY <1>2, <1>4, OwnFrame DEF IInv, Mapped
  <1>8. /\ \A q \in Pages : Filling(q) = (q = p)
        /\ \A q \in Pages : Filling(q)' = FALSE
    BY <1>1, <1>2, <1>3 DEF Filling
  <1>9. \A q \in Pages : UserView'[q] = UserView[q]
    <2> SUFFICES ASSUME NEW q \in Pages PROVE UserView'[q] = UserView[q]
      OBVIOUS
    <2>1. CASE q = p
      BY <1>2, <1>5, <1>6, <1>7, <1>8, <2>1 DEF UserView
    <2>2. CASE q # p
      <3>1. Filling(q) = FALSE /\ Filling(q)' = FALSE /\ Mapped(q)' = Mapped(q)
        BY <1>7, <1>8, <2>2
      <3>2. /\ mem'[q] = mem[q]
            /\ Mapped(q) => mem'[node[MapNode(q)].addr] = mem[node[MapNode(q)].addr]
        BY <1>5, <1>6, <2>2
      <3>3. node' = node
        BY <1>2
      <3>4. QED
        BY <3>1, <3>2, <3>3 DEF UserView
    <2>3. QED
      BY <2>1, <2>2
  <1>10. UserView' = UserView
    BY <1>9 DEF UserView
  <1>11. FlatMode' = FlatMode /\ FlatDue' = FlatDue
    BY <1>2, <1>3 DEF FlatMode, FlatDue, Running
  <1>12. QED
    BY <1>2, <1>10, <1>11, Stutters
-----------------------------------------------------------------------------
(* The end. *)

\* Eviction loses the program's memory, which has ended, and no assertion of it
\* fails.
LEMMA EvictionFlat ==
  ASSUME IInv, Evict \/ EvictSkip \/ EvictDone
  PROVE  FlatStep
  <1>1. /\ pc = "evict" /\ pc' \in {"evict", "terminate"}
        /\ UNCHANGED <<code, put, tohost, obs>>
    BY EvictKeeps DEF Evict, EvictSkip, EvictDone, ctlVars
  <1>2. TypeOK'
    BY EvictKeeps, EvictSkipKeeps, EndKeeps DEF IInv
  <1>3. FlatMode = "ended" /\ FlatMode' = "ended" /\ FlatDue' = FlatDue
    BY <1>1 DEF FlatMode, FlatDue, Running
  <1>4. QED
    BY <1>1, <1>2, <1>3, Forgets

\* terminate delivers the code, once, behind the message of a failed assertion.
LEMMA TerminateFlat ==
  ASSUME IInv, PutChar \/ Die \/ Terminate
  PROVE  FlatStep
  <1>1. /\ pc \in {"panic", "wtf", "terminate"} /\ pc' \in {"panic", "terminate", "halt"}
        /\ UNCHANGED <<mem, node, obs>>
    BY DEF PutChar, Die, Terminate, listVars
  <1>2. UserView' = UserView
    BY <1>1, ViewKept DEF Filling
  <1>3. FlatMode = "ended" /\ FlatMode' = "ended"
    BY <1>1 DEF FlatMode, Running
  <1>4. CASE PutChar
    <2>1. FlatDue' = FlatDue /\ tohost = 0 /\ tohost' = Console
      BY <1>4 DEF PutChar, FlatDue
    <2>2. QED
      BY <1>1, <1>2, <1>3, <2>1, Prints
  <1>5. CASE Die
    <2>1. FlatDue' = FlatDue /\ tohost' = tohost
      BY <1>5 DEF Die, FlatDue
    <2>2. QED
      BY <1>1, <1>2, <1>3, <2>1, Stutters
  <1>6. CASE Terminate
    <2>1. tohost = 0 /\ tohost' = FlatDue /\ FlatDue' = FlatDue
      BY <1>6 DEF Terminate, FlatDue
    <2>2. FlatDue # Console
      BY <1>6, CodesAssumption DEF Terminate, FlatDue, IInv, TypeOK, Console
    <2>3. QED
      BY <1>1, <1>2, <1>3, <2>1, <2>2, Delivers
  <1>7. QED
    BY <1>4, <1>5, <1>6

\* The host takes a character.
LEMMA HostReadsFlat ==
  ASSUME HostReads
  PROVE  FlatStep
  <1>1. /\ UNCHANGED <<pc, mem, node, access, code, obs>>
        /\ tohost = Console /\ tohost' = 0
    BY DEF HostReads, listVars
  <1>2. UserView' = UserView
    BY <1>1, ViewKept DEF Filling, FaultPage
  <1>3. FlatMode' = FlatMode /\ FlatDue' = FlatDue
    BY <1>1 DEF FlatMode, FlatDue, Running
  <1>4. QED
    BY <1>1, <1>2, <1>3, Prints

\* A step that changes nothing is invisible.
LEMMA StutterFlat ==
  ASSUME UNCHANGED vars
  PROVE  FlatStep
  <1>1. UNCHANGED <<pc, mem, node, access, code, put, tohost, obs>>
    BY DEF vars
  <1>2. UserView' = UserView
    BY <1>1, ViewKept DEF Filling, FaultPage
  <1>3. FlatMode' = FlatMode /\ FlatDue' = FlatDue
    BY <1>1 DEF FlatMode, FlatDue, Running
  <1>4. QED
    BY <1>1, <1>2, <1>3, Stutters
-----------------------------------------------------------------------------
\* Every step of the pager is a step of the flat memory or invisible.
LEMMA NextFlat ==
  ASSUME IInv, EndInv, [Next]_vars
  PROVE  FlatStep
  <1>1. CASE User
    <2>1. ASSUME NEW acc \in Ready, UserFault(acc)
          PROVE  FlatStep
      BY <2>1, UserFaultFlat
    <2>2. ASSUME NEW acc \in Ready, acc.page \in Pages, NEW e \in tlb[acc.page],
                 UserHit(acc, e) \/ HardwareUpdate(acc, e)
          PROVE  FlatStep
      BY <2>2, UserHitFlat, HardwareUpdateFlat
    <2>3. QED
      BY <1>1, <2>1, <2>2 DEF User
  <1>2. CASE (\E n \in ExitCodes : ECall(n)) \/ FpEnable
    BY <1>2, LeaveFlat
  <1>3. CASE HandleFault
    BY <1>3, BadAddressFlat, BookkeepingFlat, PopFrameFlat, CopyInFlat DEF HandleFault
  <1>4. CASE Shutdown
    BY <1>4, EvictionFlat, TerminateFlat DEF Shutdown
  <1>5. CASE HostReads \/ Spin \/ UNCHANGED vars
    BY <1>5, HostReadsFlat, StutterFlat DEF Spin
  <1>6. QED
    BY <1>1, <1>2, <1>3, <1>4, <1>5 DEF Next
-----------------------------------------------------------------------------
(* The boot loop and the theorem. *)

\* During the boot loop no page has a frame: the program's memory is its image.
LEMMA BootMaps ==
  ASSUME Booting
  PROVE  \A p \in Pages : ~Mapped(p)
  <1>1. PICK x : Filled(x)
    BY DEF Booting
  <1> SUFFICES ASSUME NEW p \in Pages PROVE node[MapNode(p)].addr = 0
    BY DEF Mapped
  <1>2. MapNode(p) \in Nodes /\ ~(MapNode(p) <= i)
    BY Layout DEF Booting, MapNode, Nodes, Pages
  <1>3. QED
    BY <1>1, <1>2 DEF Filled

\* The loop and the entry of the program are invisible.
LEMMA BootFlat ==
  ASSUME Booting, BootNext
  PROVE  FlatStep
  <1>1. /\ pc = "boot" /\ pc' \in {"boot", "user"} /\ code = 0
        /\ UNCHANGED <<mem, access, code, put, tohost, obs>>
    BY DEF BootNext, FillNode, EnterUser, othersUnchanged, Booting, Untouched
  <1>2. \A p \in Pages : node'[MapNode(p)].addr = node[MapNode(p)].addr
    <2> SUFFICES ASSUME NEW p \in Pages
                 PROVE  node'[MapNode(p)].addr = node[MapNode(p)].addr
      OBVIOUS
    <2>1. MapNode(p) \in Nodes /\ MapNode(p) \notin 1 .. N
      BY Layout
    <2>2. node \in [Nodes -> [addr : Frames \cup {0}, next : Nodes \cup {Null}]]
      BY BootTyped DEF TypeOK
    <2>3. CASE FillNode
      <3>1. FreeNode(i) \in 1 .. N
        BY <2>3, Layout DEF FillNode, FreeNode, Booting
      <3>2. QED
        BY <2>1, <2>2, <2>3, <3>1 DEF FillNode
    <2>4. CASE EnterUser
      <3>1. FreeNode(N - 1) \in 1 .. N
        BY Layout DEF FreeNode
      <3>2. QED
        BY <2>1, <2>2, <2>4, <3>1 DEF EnterUser
    <2>5. QED
      BY <2>3, <2>4 DEF BootNext
  <1>3. \A p \in Pages : ~Mapped(p) /\ ~Mapped(p)'
    BY <1>2, BootMaps DEF Mapped
  <1>4. UserView' = UserView
    BY <1>1, <1>3 DEF UserView
  <1>5. FlatMode' = FlatMode /\ FlatDue' = FlatDue
    BY <1>1 DEF FlatMode, FlatDue, Running
  <1>6. QED
    BY <1>1, <1>4, <1>5, Stutters

\* The environment implements the flat memory from its start: whatever the
\* seed, the faults, the frames and the translations, a load or fetch returns
\* what the program last stored in the page, or its image, and tohost is set
\* once, to the program's exit code or that of the failed range check or trap.
THEOREM EnvironmentIsFlat == BootSpec => FlatMemory
  <1>1. BootInit => Flat!Init
    <2> SUFFICES ASSUME BootInit PROVE Flat!Init
      OBVIOUS
    <2>1. Booting
      BY BootInitHolds
    <2>2. UserView \in [Pages -> Values]
      BY <2>1, BootTyped, ViewTyped
    <2>3. FlatMode = "running" /\ FlatDue = 0
      BY DEF BootInit, FlatMode, FlatDue
    <2>4. QED
      BY <2>2, <2>3 DEF BootInit, Flat!Init, FlatMode, FlatDue
  <1>2. BootInv /\ [BootNext \/ RunNext]_bootVars => [Flat!Next]_(Flat!vars)
    <2> SUFFICES ASSUME BootInv, [BootNext \/ RunNext]_bootVars PROVE FlatStep
      BY DEF FlatStep
    <2>1. CASE BootNext
      BY <2>1, BootFlat DEF BootInv, EndInv, BootNext, FillNode, EnterUser
    <2>2. CASE RunNext
      BY <2>2, NextFlat, NothingRuns DEF BootInv, Booting, Untouched, RunNext
    <2>3. CASE UNCHANGED bootVars
      BY <2>3, StutterFlat DEF bootVars
    <2>4. QED
      BY <2>1, <2>2, <2>3
  <1>3. QED
    BY <1>1, <1>2, BootInvariance, PTL DEF BootSpec, FlatMemory, Flat!Spec
=============================================================================
