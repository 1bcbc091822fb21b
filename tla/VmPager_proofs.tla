--------------------------- MODULE VmPager_proofs ---------------------------
(***************************************************************************)
(* For any number of pages, values and exit codes: the pager never runs    *)
(* out of frames or loses one, no assertion of its handlers fails but the  *)
(* range check, and no handler takes a page fault.                         *)
(***************************************************************************)
EXTENDS VmPager, FiniteSetTheorems, TLAPS

\* The states in which the mappings are in use.
Active == Running \/ pc = "evict"

\* The eviction loop has not passed page p.
Ahead(p) == pc = "evict" => p >= turn

MappedPages == {p \in Pages : Mapped(p)}
Popped == IF head = Null THEN N ELSE head - 1

\* The freelist is what vm_boot built, without its first Popped nodes; the
\* frames of those are the ones in use, one per mapped page.
FreelistInv ==
  Running =>
    /\ \A n \in 1 .. N : /\ node[n].addr \in Frames
                         /\ node[n].next = IF n < N THEN n + 1 ELSE Null
    /\ \A m, n \in 1 .. N : node[m].addr = node[n].addr => m = n
    /\ \A f \in Frames : \E n \in 1 .. N : node[n].addr = f
    /\ head \in 1 .. N \cup {Null}
    /\ Cardinality(MappedPages) = Popped
    /\ \A n \in 1 .. N \ OnFreelist :
         \E p \in Pages : node[MapNode(p)].addr = node[n].addr
    /\ \A n \in OnFreelist, p \in Pages : node[MapNode(p)].addr # node[n].addr

\* A page is valid in the page table when user_mapping has a frame for it, and
\* no other page has that frame.
MappingInv ==
  Active =>
    \A p \in Pages : Ahead(p) =>
      /\ pte[p].v <=> Mapped(p)
      /\ Mapped(p) => /\ node[MapNode(p)].addr \in Frames
                      /\ pte[p].ppn = node[MapNode(p)].addr
      /\ \A q \in Pages :
           Ahead(q) /\ Mapped(p) /\ node[MapNode(p)].addr = node[MapNode(q)].addr
             => p = q

\* A translation names the page's frame and grants no more than the PTE; only
\* where the hardware sets the bits itself may it grant less.
Coherent(p) ==
  \A e \in tlb[p] :
    /\ e.v <=> pte[p].v
    /\ e.ppn = pte[p].ppn
    /\ e.a => pte[p].a
    /\ e.d => pte[p].d
    /\ ~hart.svadu => e = pte[p]

TlbInv ==
  Active =>
    \A p \in Pages :
      Ahead(p) /\ ~(FaultPage = p /\ pc \in {"flush", "mapflush", "cleanflush"})
        => Coherent(p)

\* Where the fault handler is.
FaultInv ==
  /\ Running => turn = 1
  /\ pc = "fault" =>
       /\ access \in Accesses /\ cause = access.kind
       /\ FaultPage \in Pages /\ pte[FaultPage].v =>
            ~hart.svadu /\ ~Permits(pte[FaultPage], cause)
  /\ pc \in {"flush", "mapflush", "copy", "clean", "cleanflush"} =>
       /\ access # NoAccess /\ FaultPage \in Pages /\ pte[FaultPage].v
  /\ pc \in {"mapflush", "copy", "clean"} => pte[FaultPage].a /\ pte[FaultPage].d
  /\ pc \in {"copy", "clean"} => tlb[FaultPage] = {pte[FaultPage]}
  /\ pc = "clean" => mem[pte[FaultPage].ppn] = mem[FaultPage]

\* A page that differs from its image is dirty; a page that has not been
\* accessed waits for the access that brought it in.
DirtyInv ==
  Active =>
    \A p \in Pages : Ahead(p) /\ Mapped(p) =>
      /\ ~Filling(p) /\ mem[pte[p].ppn] # mem[p] => pte[p].d
      /\ ~pte[p].a => pc # "evict" /\ access # NoAccess /\ access.page = p

IInv ==
  /\ TypeOK /\ FreelistInv /\ MappingInv /\ TlbInv /\ FaultInv /\ DirtyInv
  /\ OnlyWildAccessesPanic
-----------------------------------------------------------------------------
(* Pages, frames and nodes. *)

\* The pages and the frames are disjoint sets of physical pages, and no page
\* shares its node with another page or with the freelist.
LEMMA Layout ==
  /\ N \in Nat /\ N >= 2
  /\ Pages \subseteq PhysPages /\ Frames \subseteq PhysPages
  /\ Pages \cap Frames = {} /\ 0 \notin Pages /\ 0 \notin Frames
  /\ N \notin Pages /\ 0 \in PhysPages
  /\ 1 .. N \subseteq Nodes /\ Null \notin Nodes
  /\ \A p \in Pages : MapNode(p) \in Nodes /\ MapNode(p) \notin 1 .. N
  /\ \A p, q \in Pages : MapNode(p) = MapNode(q) => p = q
  BY PagesAssumption DEF N, Pages, Frames, PhysPages, Nodes, Null, MapNode

\* What an instruction of the program can be.
LEMMA AccessesTyped ==
  ASSUME NEW acc \in Accesses
  PROVE  /\ acc.kind \in {"fetch", "load", "store"}
         /\ acc.page \in Pages \cup {0, N}
         /\ acc.kind = "store" => acc.val \in Values /\ acc.page \in Pages
         /\ acc # NoAccess
  <1>1. CodePages \subseteq Pages /\ DataPages \subseteq Pages
    BY PagesAssumption
  <1>2. CASE acc \in [page : CodePages, kind : {"fetch"}, val : {Null}]
    BY <1>1, <1>2 DEF NoAccess
  <1>3. CASE acc \in [page : DataPages \cup {0, N}, kind : {"load"}, val : {Null}]
    BY <1>1, <1>3 DEF NoAccess
  <1>4. CASE acc \in [page : DataPages, kind : {"store"}, val : Values]
    BY <1>1, <1>4 DEF NoAccess
  <1>5. QED
    BY <1>2, <1>3, <1>4 DEF Accesses

\* The next instruction is an access of the program, the trapped one if there
\* is one.
LEMMA ReadyTyped ==
  ASSUME TypeOK, NEW acc \in Ready
  PROVE  /\ acc \in Accesses
         /\ access # NoAccess => acc = access
  BY DEF TypeOK, Ready

\* A handler runs with the access that trapped.
LEMMA TrappedAccess ==
  ASSUME TypeOK, access # NoAccess
  PROVE  access \in Accesses
  BY DEF TypeOK

\* Page table and translations hold PTEs.
LEMMA PteTyped ==
  ASSUME TypeOK, NEW p \in Pages
  PROVE  /\ pte[p] \in PTE
         /\ \A e \in tlb[p] : e \in PTE
  BY DEF TypeOK

\* The LFSR yields every number below its period once.
LEMMA LfsrCovers ==
  ASSUME NEW x \in LfsrRuns
  PROVE  /\ \A k \in 0 .. (N - 1) : x[k] \in 1 .. N
         /\ \A j, k \in 0 .. (N - 1) : j # k => x[j] # x[k]
         /\ \A v \in 1 .. N : \E k \in 0 .. (N - 1) : x[k] = v
  <1>1. x \in [0 .. (N - 1) -> 1 .. N]
    BY DEF LfsrRuns
  <1>2. \A j, k \in 0 .. (N - 1) : j # k => x[j] # x[k]
    BY MaxTestPagesIsLfsrPeriod
  <1>3. x \in Injection(0 .. (N - 1), 1 .. N)
    BY <1>1, <1>2 DEF Injection, IsInjective
  <1>4. /\ IsFiniteSet(1 .. N) /\ Cardinality(1 .. N) = N
        /\ Cardinality(0 .. (N - 1)) = N
    BY FS_Interval, Layout
  <1>5. x \in Surjection(0 .. (N - 1), 1 .. N)
    BY <1>3, <1>4, FS_Injection
  <1>6. \A v \in 1 .. N : \E k \in 0 .. (N - 1) : x[k] = v
    BY <1>5 DEF Surjection
  <1>7. QED
    BY <1>1, <1>2, <1>6

\* What vm_boot leaves behind has the right types.
LEMMA InitTyped == Init => TypeOK
  <1> SUFFICES ASSUME Init PROVE TypeOK
    OBVIOUS
  <1>1. NoPte \in PTE
    BY Layout DEF NoPte, PTE
  <1>2. pte \in [Pages -> PTE] /\ tlb \in [Pages -> SUBSET PTE]
    BY <1>1 DEF Init
  <1>3. node \in [Nodes -> [addr : Frames \cup {0}, next : Nodes \cup {Null}]]
    <2>1. PICK x \in LfsrRuns : node = [n \in Nodes |-> BootNode(x, n)]
      BY DEF Init
    <2>2. ASSUME NEW n \in Nodes
          PROVE  BootNode(x, n) \in [addr : Frames \cup {0}, next : Nodes \cup {Null}]
      <3>1. CASE n <= N
        <4>1. n - 1 \in 0 .. (N - 1)
          BY <3>1, Layout DEF Nodes
        <4>2. x[n - 1] \in 1 .. N
          BY <4>1, LfsrCovers
        <4>3. N + x[n - 1] \in Frames
          BY <4>2, Layout DEF Frames
        <4>4. QED
          BY <3>1, <4>3, Layout DEF BootNode, Nodes
      <3>2. CASE ~(n <= N)
        BY <3>2 DEF BootNode
      <3>3. QED
        BY <3>1, <3>2
    <2>3. QED
      BY <2>1, <2>2
  <1>4. /\ head \in Nodes /\ tail \in Nodes
        /\ turn \in 1 .. N
    BY Layout DEF Init, FreeNode, Nodes
  <1>5. mem \in [PhysPages -> Values]
    BY DEF Init
  <1>6. QED
    BY <1>2, <1>3, <1>4, <1>5, MessageAssumption DEF Init, TypeOK, PCs

\* What vm_boot leaves in freelist_nodes: every frame once, in a chain.
LEMMA InitFreelist == Init => FreelistInv
  <1> SUFFICES ASSUME Init PROVE FreelistInv
    OBVIOUS
  <1>1. PICK run \in LfsrRuns : node = [n \in Nodes |-> BootNode(run, n)]
    BY DEF Init
  <1> DEFINE x(n) == run[n - 1]
  <1>2. \A n \in 1 .. N : /\ node[n].addr = N + x(n)
                          /\ node[n].next = IF n < N THEN n + 1 ELSE Null
    BY <1>1, Layout DEF BootNode, Nodes
  <1>3. \A p \in Pages : node[MapNode(p)].addr = 0
    BY <1>1, Layout DEF BootNode, Nodes, MapNode, Pages
  <1>4. \A n \in 1 .. N : x(n) \in 1 .. N
    <2> SUFFICES ASSUME NEW n \in 1 .. N PROVE x(n) \in 1 .. N
      OBVIOUS
    <2>1. n - 1 \in 0 .. (N - 1)
      BY Layout
    <2>2. QED
      BY <2>1, LfsrCovers
  <1>5. \A m, n \in 1 .. N : node[m].addr = node[n].addr => m = n
    <2> SUFFICES ASSUME NEW m \in 1 .. N, NEW n \in 1 .. N, m # n
                 PROVE  node[m].addr # node[n].addr
      OBVIOUS
    <2>1. m - 1 \in 0 .. (N - 1) /\ n - 1 \in 0 .. (N - 1) /\ m - 1 # n - 1
      BY Layout
    <2>2. x(m) # x(n)
      BY <2>1, LfsrCovers
    <2>3. x(m) \in 1 .. N /\ x(n) \in 1 .. N
      BY <1>4
    <2>4. node[m].addr = N + x(m) /\ node[n].addr = N + x(n)
      BY <1>2
    <2> HIDE DEF x
    <2>5. N + x(m) # N + x(n)
      BY <2>2, <2>3, Layout
    <2>6. QED
      BY <2>4, <2>5
  <1>6. \A f \in Frames : \E n \in 1 .. N : node[n].addr = f
    <2> SUFFICES ASSUME NEW f \in Frames
                 PROVE  \E n \in 1 .. N : node[n].addr = f
      OBVIOUS
    <2>1. f - N \in 1 .. N /\ f = N + (f - N)
      BY Layout DEF Frames
    <2>2. PICK k \in 0 .. (N - 1) : run[k] = f - N
      BY <2>1, LfsrCovers
    <2>3. k + 1 \in 1 .. N /\ (k + 1) - 1 = k
      BY Layout
    <2>4. x(k + 1) = f - N
      BY <2>2, <2>3
    <2>5. node[k + 1].addr = N + x(k + 1)
      BY <1>2, <2>3
    <2> HIDE DEF x
    <2>6. QED
      BY <2>1, <2>3, <2>4, <2>5
  <1>7. \A n \in 1 .. N : node[n].addr \in Frames
    <2> HIDE DEF x
    <2>1. QED
      BY <1>2, <1>4, Layout DEF Frames
  <1>8. head = 1 /\ OnFreelist = 1 .. N /\ Popped = 0
    BY Layout DEF Init, FreeNode, OnFreelist, Popped, Null
  <1>9. Cardinality(MappedPages) = 0
    <2>1. MappedPages = {}
      BY <1>3 DEF MappedPages, Mapped
    <2>2. QED
      BY <2>1, FS_EmptySet
  <1>10. \A n \in OnFreelist, p \in Pages : node[MapNode(p)].addr # node[n].addr
    BY <1>3, <1>7, <1>8, Layout
  <1>11. head \in 1 .. N /\ 1 .. N \ OnFreelist = {}
    BY <1>8, Layout
  <1> HIDE DEF x
  <1>12. QED
    BY <1>2, <1>5, <1>6, <1>7, <1>8, <1>9, <1>10, <1>11 DEF FreelistInv

\* The program is entered with the invariant true: all frames are free.
LEMMA InitHolds == Init => IInv
  <1> SUFFICES ASSUME Init PROVE IInv
    OBVIOUS
  <1>1. TypeOK /\ FreelistInv
    BY InitTyped, InitFreelist
  <1>2. \A p \in Pages : ~Mapped(p)
    BY Layout DEF Init, Mapped, BootNode, MapNode, Nodes, Pages
  <1>3. MappingInv
    BY <1>2 DEF Init, MappingInv, NoPte
  <1>4. TlbInv
    BY DEF Init, TlbInv, Coherent, NoPte
  <1>5. DirtyInv
    BY <1>2 DEF Init, DirtyInv
  <1>6. FaultInv /\ OnlyWildAccessesPanic
    BY DEF Init, FaultInv, OnlyWildAccessesPanic
  <1>7. QED
    BY <1>1, <1>3, <1>4, <1>5, <1>6 DEF IInv
-----------------------------------------------------------------------------
(* What every action uses. *)

\* Steps that leave list and mappings alone keep the freelist invariant.
LEMMA FreelistKept ==
  ASSUME FreelistInv, Running' => Running, UNCHANGED <<node, head>>
  PROVE  FreelistInv'
  <1>1. \A p \in Pages : Mapped(p)' = Mapped(p)
    BY DEF Mapped
  <1>2. MappedPages' = MappedPages
    BY <1>1 DEF MappedPages
  <1>3. OnFreelist' = OnFreelist /\ Popped' = Popped
    BY DEF OnFreelist, Popped
  <1>4. QED
    BY <1>2, <1>3 DEF FreelistInv

\* Steps that change neither user_mapping nor which PTEs are valid, nor their
\* frames, keep the mapping invariant.
LEMMA MappingKept ==
  ASSUME MappingInv, Active' => Active, UNCHANGED node,
         \A p \in Pages : Ahead(p)' => Ahead(p),
         \A p \in Pages : pte'[p].v = pte[p].v /\ pte'[p].ppn = pte[p].ppn
  PROVE  MappingInv'
  BY DEF MappingInv, Mapped

\* While the program runs the eviction loop has not passed any page.
LEMMA RunningIsAhead ==
  ASSUME Running
  PROVE  Active /\ \A p \in Pages : Ahead(p)
  BY DEF Running, Active, Ahead

\* A PTE or a translation that is valid leads to the page's own frame.
LEMMA OwnFrame ==
  ASSUME MappingInv, Active, NEW p \in Pages, Ahead(p), pte[p].v
  PROVE  Mapped(p) /\ pte[p].ppn = node[MapNode(p)].addr /\ pte[p].ppn \in Frames
  BY DEF MappingInv

\* Two mapped pages have different frames.
LEMMA OtherFrames ==
  ASSUME MappingInv, Active, NEW p \in Pages, NEW q \in Pages, p # q,
         Ahead(p), Ahead(q), Mapped(p), Mapped(q)
  PROVE  pte[p].ppn # pte[q].ppn
  BY DEF MappingInv

\* Writing into the frame of page p leaves every other page and every image.
LEMMA FrameWrite ==
  ASSUME TypeOK, MappingInv, Active, NEW p \in Pages, Ahead(p), pte[p].v, NEW v,
         mem' = [mem EXCEPT ![pte[p].ppn] = v]
  PROVE  /\ \A q \in Pages : mem'[q] = mem[q]
         /\ \A q \in Pages \ {p} :
              Ahead(q) /\ Mapped(q) => mem'[pte[q].ppn] = mem[pte[q].ppn]
         /\ mem'[pte[p].ppn] = v
  <1>1. pte[p].ppn \in Frames /\ Mapped(p)
    BY OwnFrame
  <1>2. mem \in [PhysPages -> Values]
    BY DEF TypeOK
  <1>3. \A q \in Pages : q # pte[p].ppn /\ q \in PhysPages
    BY <1>1, Layout
  <1>4. \A q \in Pages \ {p} : Ahead(q) /\ Mapped(q) =>
          pte[q].ppn # pte[p].ppn /\ pte[q].ppn \in PhysPages
    <2> SUFFICES ASSUME NEW q \in Pages, q # p, Ahead(q), Mapped(q)
                 PROVE  pte[q].ppn # pte[p].ppn /\ pte[q].ppn \in PhysPages
      OBVIOUS
    <2>1. pte[q].ppn # pte[p].ppn
      BY <1>1, OtherFrames
    <2>2. pte[q].v
      BY DEF MappingInv
    <2>3. QED
      BY <2>1, <2>2, OwnFrame, Layout
  <1>5. QED
    BY <1>1, <1>2, <1>3, <1>4, Layout

\* Once the mappings are out of use, only the types are left to keep.
LEMMA Leaving ==
  ASSUME TypeOK', pc' \in {"panic", "wtf", "terminate", "halt"},
         pc' = "panic" => (access # NoAccess /\ FaultPage \notin Pages)'
  PROVE  IInv'
  BY DEF IInv, FreelistInv, MappingInv, TlbInv, FaultInv, DirtyInv, Running,
         Active, OnlyWildAccessesPanic
-----------------------------------------------------------------------------
(* The program. *)

\* A user access through a translation writes only the frame of its page, and
\* only where the PTE is dirty.
LEMMA UserHitKeeps ==
  ASSUME IInv, NEW acc \in Ready, acc.page \in Pages, NEW e \in tlb[acc.page],
         UserHit(acc, e)
  PROVE  IInv'
  <1> USE DEF IInv
  <1> DEFINE p == acc.page
  <1>1. /\ pc = "user" /\ pc' = "user" /\ Permits(e, acc.kind)
        /\ access' = NoAccess
        /\ UNCHANGED <<hart, turn, code, put, tohost, cause, pte, tlb, node, head,
                       tail, unfenced>>
    BY DEF UserHit, ctlVars, listVars
  <1>2. Running /\ Running' /\ Active /\ \A q \in Pages : Ahead(q)
    BY <1>1 DEF Running, Active, Ahead
  <1>3. acc \in Accesses /\ (access # NoAccess => acc = access)
    BY ReadyTyped
  <1>4. e \in PTE
    BY PteTyped
  <1>5. Coherent(p)
    BY <1>1, <1>2 DEF TlbInv
  <1>6. /\ pte[p].v /\ pte[p].a /\ e.ppn = pte[p].ppn
        /\ acc.kind = "store" => pte[p].d
    BY <1>1, <1>5 DEF Coherent, Permits
  <1>7. TypeOK'
    <2>1. e.ppn \in PhysPages
      BY <1>4 DEF PTE
    <2>2. mem[e.ppn] \in Values
      BY <2>1 DEF TypeOK
    <2>3. mem' \in [PhysPages -> Values]
      BY <1>3, <2>1, AccessesTyped DEF UserHit, TypeOK
    <2>4. obs' = <<>> \/ obs' \in Pages \X Values
      BY <2>2 DEF UserHit, TypeOK
    <2>5. QED
      BY <1>1, <2>3, <2>4 DEF TypeOK
  <1>8. FreelistInv'
    BY <1>1, <1>2, FreelistKept
  <1>9. MappingInv'
    BY <1>1, <1>2, MappingKept
  <1>10. TlbInv'
    BY <1>1, <1>2 DEF TlbInv, Coherent, Ahead
  <1>11. FaultInv'
    BY <1>1, <1>2 DEF FaultInv
  <1>12. DirtyInv'
    <2>1. \A q \in Pages : Mapped(q) => pte[q].a
      BY <1>1, <1>2, <1>3, <1>6 DEF DirtyInv
    <2>2. ASSUME NEW q \in Pages, Mapped(q), mem'[pte[q].ppn] # mem'[q]
          PROVE  pte[q].d
      <3>1. CASE mem' = mem
        BY <1>1, <1>2, <2>2, <3>1 DEF DirtyInv, Filling
      <3>2. CASE acc.kind = "store" /\ mem' = [mem EXCEPT ![e.ppn] = acc.val]
        <4>1. CASE q = p
          BY <1>6, <3>2, <4>1
        <4>2. CASE q # p
          <5>1. mem[pte[q].ppn] # mem[q]
            BY <1>2, <1>6, <2>2, <3>2, <4>2, FrameWrite
          <5>2. QED
            BY <1>1, <1>2, <2>2, <5>1 DEF DirtyInv, Filling
        <4>3. QED
          BY <4>1, <4>2
      <3>3. QED
        BY <3>1, <3>2 DEF UserHit
    <2>3. QED
      BY <1>1, <2>1, <2>2 DEF DirtyInv, Mapped
  <1>13. QED
    BY <1>1, <1>7, <1>8, <1>9, <1>10, <1>11, <1>12 DEF OnlyWildAccessesPanic

\* A hart that sets A and D itself only adds to what the PTE grants.
LEMMA HardwareUpdateKeeps ==
  ASSUME IInv, NEW acc \in Ready, acc.page \in Pages, NEW e \in tlb[acc.page],
         HardwareUpdate(acc, e)
  PROVE  IInv'
  <1> USE DEF IInv
  <1> DEFINE p == acc.page
             new == [pte[p] EXCEPT !.a = TRUE, !.d = @ \/ acc.kind = "store"]
  <1>1. /\ pc = "user" /\ pc' = "user" /\ hart.svadu
        /\ access' = acc
        /\ UNCHANGED <<hart, turn, code, put, tohost, cause, node, head, tail, mem,
                       unfenced, obs>>
    BY DEF HardwareUpdate, ctlVars, listVars
  <1>2. Running /\ Running' /\ Active /\ \A q \in Pages : Ahead(q)
    BY <1>1 DEF Running, Active, Ahead
  <1>3. acc \in Accesses /\ (access # NoAccess => acc = access)
    BY ReadyTyped
  <1>4. /\ pte' = [pte EXCEPT ![p] = new]
        /\ tlb' = [tlb EXCEPT ![p] = @ \cup {new}]
    BY DEF HardwareUpdate, SetPte
  <1>5. /\ pte[p] \in PTE /\ new \in PTE
        /\ new.v = pte[p].v /\ new.ppn = pte[p].ppn
        /\ new.a /\ (pte[p].d => new.d)
    BY PteTyped DEF PTE
  <1> HIDE DEF new
  <1>6. TypeOK'
    BY <1>1, <1>3, <1>4, <1>5 DEF TypeOK
  <1>7. /\ pte'[p] = new /\ tlb'[p] = tlb[p] \cup {new}
        /\ \A q \in Pages \ {p} : pte'[q] = pte[q] /\ tlb'[q] = tlb[q]
    BY <1>4 DEF TypeOK
  <1>8. FreelistInv'
    BY <1>1, <1>2, FreelistKept
  <1>9. MappingInv'
    <2>1. \A q \in Pages : pte'[q].v = pte[q].v /\ pte'[q].ppn = pte[q].ppn
      BY <1>5, <1>7
    <2>2. QED
      BY <1>1, <1>2, <2>1, MappingKept
  <1>10. TlbInv'
    <2> SUFFICES ASSUME NEW q \in Pages PROVE Coherent(q)'
      BY DEF TlbInv
    <2>1. Coherent(q)
      BY <1>1, <1>2 DEF TlbInv
    <2>2. CASE q = p
      BY <1>1, <1>5, <1>7, <2>1, <2>2 DEF Coherent
    <2>3. CASE q # p
      BY <1>1, <1>7, <2>1, <2>3 DEF Coherent
    <2>4. QED
      BY <2>2, <2>3
  <1>11. FaultInv'
    BY <1>1, <1>2 DEF FaultInv
  <1>12. DirtyInv'
    <2>1. \A q \in Pages : Mapped(q)' = Mapped(q) /\ ~Filling(q) /\ ~Filling(q)'
      BY <1>1 DEF Mapped, Filling
    <2>2. \A q \in Pages : pte'[q].ppn = pte[q].ppn /\ (pte[q].d => pte'[q].d)
      BY <1>5, <1>7
    <2>3. \A q \in Pages : Mapped(q) => pte'[q].a
      BY <1>1, <1>2, <1>3, <1>5, <1>7 DEF DirtyInv
    <2>4. QED
      BY <1>1, <1>2, <2>1, <2>2, <2>3 DEF DirtyInv
  <1>13. QED
    BY <1>1, <1>6, <1>8, <1>9, <1>10, <1>11, <1>12 DEF OnlyWildAccessesPanic

\* Without Svadu a translation is the PTE itself, so an access that faults
\* through a valid translation lacks a bit in the PTE.
LEMMA UserFaultKeeps ==
  ASSUME IInv, NEW acc \in Ready, UserFault(acc)
  PROVE  IInv'
  <1> USE DEF IInv
  <1> DEFINE p == acc.page
  <1>1. acc \in Accesses /\ (access # NoAccess => acc = access)
    BY ReadyTyped
  <1>2. acc.kind \in {"fetch", "load", "store"} /\ acc # NoAccess
    BY <1>1, AccessesTyped
  <1>3. /\ pc = "user" /\ pc' = "fault" /\ access' = acc /\ cause' = acc.kind
        /\ UNCHANGED <<hart, turn, code, put, tohost, pte, tlb, node, head, tail, mem,
                       unfenced, obs>>
    BY <1>2 DEF UserFault, Trap, Medeleg, ctlVars, listVars
  <1>4. Running /\ Running' /\ Active /\ \A q \in Pages : Ahead(q)
    BY <1>3 DEF Running, Active, Ahead
  <1>5. TypeOK'
    BY <1>1, <1>2, <1>3 DEF TypeOK, PCs, Medeleg
  <1>6. FreelistInv'
    BY <1>3, <1>4, FreelistKept
  <1>7. MappingInv'
    BY <1>3, <1>4, MappingKept
  <1>8. TlbInv'
    BY <1>3, <1>4 DEF TlbInv, Coherent, Ahead
  <1>9. FaultInv'
    <2>1. ASSUME p \in Pages, pte[p].v
          PROVE  ~hart.svadu /\ ~Permits(pte[p], acc.kind)
      <3>1. PICK e \in tlb[p] : Faults(e, acc.kind)
        BY <2>1 DEF UserFault
      <3>2. Coherent(p)
        BY <1>3, <1>4, <2>1 DEF TlbInv
      <3>3. QED
        BY <2>1, <3>1, <3>2 DEF Coherent, Faults
    <2>2. FaultPage' = p
      BY <1>3 DEF FaultPage
    <2>3. (FaultPage \in Pages /\ pte[FaultPage].v =>
             ~hart.svadu /\ ~Permits(pte[FaultPage], cause))'
      BY <1>3, <2>1, <2>2 DEF Permits
    <2>4. turn' = 1
      BY <1>3, <1>4 DEF FaultInv
    <2>5. access' \in Accesses /\ cause' = access'.kind
      BY <1>1, <1>3
    <2>6. QED
      BY <1>3, <2>3, <2>4, <2>5 DEF FaultInv
  <1>10. DirtyInv'
    BY <1>1, <1>2, <1>3, <1>4 DEF DirtyInv, Filling, Mapped
  <1>11. QED
    BY <1>3, <1>5, <1>6, <1>7, <1>8, <1>9, <1>10 DEF OnlyWildAccessesPanic

\* The program ends with every mapped page accessed.
LEMMA ECallKeeps ==
  ASSUME IInv, NEW n \in ExitCodes, ECall(n)
  PROVE  IInv'
  <1> USE DEF IInv
  <1>1. /\ pc = "user" /\ access = NoAccess /\ pc' = "evict" /\ cause' = "ecall"
        /\ code' = n
        /\ UNCHANGED <<hart, access, pte, tlb, node, head, tail, mem, unfenced,
                       turn, put, tohost, obs>>
    BY DEF ECall, Trap, Medeleg, listVars
  <1>2. Running /\ ~Running' /\ Active /\ \A q \in Pages : Ahead(q)
    BY <1>1 DEF Running, Active, Ahead
  <1>3. TypeOK'
    BY <1>1 DEF TypeOK, PCs, Medeleg
  <1>4. FreelistInv'
    BY <1>2 DEF FreelistInv
  <1>5. MappingInv'
    BY <1>1, <1>2, MappingKept
  <1>6. TlbInv'
    BY <1>1, <1>2 DEF TlbInv, Coherent
  <1>7. FaultInv'
    BY <1>1, <1>2 DEF FaultInv
  <1>8. DirtyInv'
    BY <1>1, <1>2 DEF DirtyInv, Filling, Mapped
  <1>9. QED
    BY <1>1, <1>3, <1>4, <1>5, <1>6, <1>7, <1>8 DEF OnlyWildAccessesPanic

\* An illegal instruction leaves the handlers out altogether.
LEMMA FpEnableKeeps ==
  ASSUME IInv, FpEnable
  PROVE  IInv'
  <1>1. pc' = "wtf"
    BY DEF FpEnable, Trap, Medeleg
  <1>2. TypeOK'
    BY <1>1 DEF IInv, TypeOK, FpEnable, Trap, Medeleg, PCs, ctlVars, listVars
  <1>3. QED
    BY <1>1, <1>2, Leaving
-----------------------------------------------------------------------------
(* The fault handler. *)

\* The range assertion fails only on an address outside the pages.
LEMMA BadAddressKeeps ==
  ASSUME IInv, BadAddress
  PROVE  IInv'
  <1>1. pc' = "panic" /\ (access # NoAccess /\ FaultPage \notin Pages)'
    <2>1. access \in Accesses
      BY DEF BadAddress, IInv, FaultInv
    <2>2. QED
      BY <2>1, AccessesTyped DEF BadAddress, FaultPage
  <1>2. TypeOK'
    BY <1>1 DEF IInv, TypeOK, BadAddress, PCs, ctlVars, listVars
  <1>3. QED
    BY <1>1, <1>2, Leaving

\* The assert on the bits holds: the access faulted because one is missing.
LEMMA MarkPteKeeps ==
  ASSUME IInv, MarkPte
  PROVE  IInv'
  <1> USE DEF IInv
  <1> DEFINE p == FaultPage
  <1>1. /\ pc = "fault" /\ p \in Pages /\ pte[p].v
        /\ UNCHANGED <<hart, turn, code, put, tohost, cause, access, node, head, tail,
                       mem, unfenced, obs>>
    BY DEF MarkPte, ctlVars, listVars
  <1>2. Running /\ Active /\ \A q \in Pages : Ahead(q)
    BY <1>1 DEF Running, Active, Ahead
  <1>3. pte[p].a => ~pte[p].d /\ cause = "store"
    BY <1>1 DEF FaultInv, Permits
  <1>4. /\ pc' = "flush" /\ pte' = [pte EXCEPT ![p] = Mark(p)]
        /\ tlb' = [tlb EXCEPT ![p] = @ \cup {Mark(p)}]
    BY <1>3 DEF MarkPte, SetPte
  <1>5. FaultPage' = p
    BY <1>1 DEF FaultPage
  <1>6. /\ Mark(p) \in PTE /\ Mark(p).v = pte[p].v /\ Mark(p).ppn = pte[p].ppn
        /\ Mark(p).a /\ (pte[p].d => Mark(p).d)
    BY <1>1, PteTyped DEF Mark, PTE
  <1> HIDE DEF p
  <1>7. /\ pte'[p] = Mark(p)
        /\ \A q \in Pages \ {p} : pte'[q] = pte[q] /\ tlb'[q] = tlb[q]
    BY <1>1, <1>4 DEF TypeOK
  <1>8. TypeOK'
    BY <1>1, <1>4, <1>6 DEF TypeOK, PCs
  <1>9. FreelistInv'
    BY <1>1, <1>2, FreelistKept
  <1>10. MappingInv'
    <2>1. \A q \in Pages : pte'[q].v = pte[q].v /\ pte'[q].ppn = pte[q].ppn
      BY <1>6, <1>7
    <2>2. QED
      BY <1>1, <1>2, <2>1, MappingKept
  <1>11. TlbInv'
    <2> SUFFICES ASSUME NEW q \in Pages, q # p PROVE Coherent(q)'
      BY <1>4, <1>5 DEF TlbInv
    <2>1. Coherent(q)
      BY <1>1, <1>2 DEF TlbInv
    <2>2. QED
      BY <1>1, <1>7, <2>1 DEF Coherent
  <1>12. FaultInv'
    <2>1. access # NoAccess /\ turn = 1
      BY <1>1, <1>2, AccessesTyped DEF FaultInv
    <2>2. QED
      BY <1>1, <1>4, <1>5, <1>6, <1>7, <2>1 DEF FaultInv
  <1>13. DirtyInv'
    <2>1. \A q \in Pages : Mapped(q)' = Mapped(q) /\ ~Filling(q) /\ ~Filling(q)'
      BY <1>1, <1>4 DEF Mapped, Filling
    <2>2. \A q \in Pages : pte'[q].ppn = pte[q].ppn /\ (pte[q].d => pte'[q].d)
      BY <1>6, <1>7
    <2>3. \A q \in Pages : Mapped(q) => pte'[q].a
      BY <1>1, <1>2, <1>6, <1>7 DEF DirtyInv, FaultPage, p
    <2>4. QED
      BY <1>1, <1>2, <2>1, <2>2, <2>3 DEF DirtyInv
  <1>14. QED
    BY <1>4, <1>8, <1>9, <1>10, <1>11, <1>12, <1>13 DEF OnlyWildAccessesPanic

\* After a flush the only translation left is the PTE.
LEMMA FlushCoherent ==
  ASSUME TypeOK, NEW p \in Pages, FlushPage(p), UNCHANGED hart
  PROVE  /\ pte' = pte /\ tlb' \in [Pages -> SUBSET PTE]
         /\ tlb'[p] = {pte[p]}
         /\ Coherent(p)'
         /\ \A q \in Pages \ {p} : Coherent(q) => Coherent(q)'
  <1>1. /\ pte' = pte /\ tlb' \in [Pages -> SUBSET PTE]
        /\ tlb'[p] = {pte[p]}
        /\ \A q \in Pages \ {p} : tlb'[q] = tlb[q]
    BY PteTyped DEF FlushPage, TypeOK
  <1>2. QED
    BY <1>1 DEF Coherent

\* After marking, the flush makes the translations agree with the PTE again.
LEMMA FlushMarkedKeeps ==
  ASSUME IInv, FlushMarked
  PROVE  IInv'
  <1> USE DEF IInv
  <1>0. PICK p : p = FaultPage
    OBVIOUS
  <1>1. /\ pc = "flush" /\ pc' = "user" /\ FlushPage(p)
        /\ UNCHANGED <<hart, turn, code, put, tohost, cause, access, node, head, tail,
                       mem, unfenced, obs>>
    BY <1>0 DEF FlushMarked, ctlVars, listVars
  <1>2. Running /\ Active /\ \A q \in Pages : Ahead(q)
    BY <1>1 DEF Running, Active, Ahead
  <1>3. p \in Pages
    BY <1>0, <1>1 DEF FaultInv
  <1>4. /\ pte' = pte /\ tlb' \in [Pages -> SUBSET PTE]
        /\ Coherent(p)'
        /\ \A q \in Pages \ {p} : Coherent(q) => Coherent(q)'
    BY <1>1, <1>3, FlushCoherent
  <1>5. TypeOK'
    BY <1>1, <1>4 DEF TypeOK, PCs
  <1>6. FreelistInv'
    BY <1>1, <1>2, FreelistKept
  <1>7. MappingInv'
    BY <1>1, <1>2, <1>4, MappingKept
  <1>8. TlbInv'
    <2>1. \A q \in Pages \ {p} : Coherent(q)
      BY <1>0, <1>2 DEF TlbInv
    <2>2. QED
      BY <1>4, <2>1 DEF TlbInv
  <1>9. FaultInv'
    BY <1>1, <1>2 DEF FaultInv
  <1>10. DirtyInv'
    BY <1>1, <1>2, <1>4 DEF DirtyInv, Filling, Mapped
  <1>11. QED
    BY <1>1, <1>5, <1>6, <1>7, <1>8, <1>9, <1>10 DEF OnlyWildAccessesPanic

\* One page is always left without a frame while a frame is left: there are
\* N frames for N - 1 pages.
LEMMA FrameAvailable ==
  ASSUME FreelistInv, Running
  PROVE  head # Null
  <1> SUFFICES ASSUME head = Null PROVE FALSE
    OBVIOUS
  <1>1. Cardinality(MappedPages) = N
    BY DEF FreelistInv, Popped
  <1>2. IsFiniteSet(Pages) /\ Cardinality(Pages) = N - 1
    BY FS_Interval, Layout DEF Pages
  <1>3. Cardinality(MappedPages) <= Cardinality(Pages)
    BY <1>2, FS_Subset DEF MappedPages
  <1>4. QED
    BY <1>1, <1>2, <1>3, Layout

\* handle_fault takes the first node of a list that is not empty, and gives its
\* frame to a page that has none.
LEMMA PopFrameKeeps ==
  ASSUME IInv, PopFrame
  PROVE  IInv'
  <1> USE DEF IInv
  <1>0. PICK p : p = FaultPage
    OBVIOUS
  <1> DEFINE new == [NewPte(node[head].addr) EXCEPT !.a = TRUE, !.d = TRUE]
  <1>1. /\ pc = "fault" /\ p \in Pages /\ ~pte[p].v
        /\ UNCHANGED <<hart, turn, code, put, tohost, cause, access, mem, unfenced, obs>>
    BY <1>0 DEF PopFrame, ctlVars
  <1>2. Running /\ Active /\ \A q \in Pages : Ahead(q)
    BY <1>1 DEF Running, Active, Ahead
  <1>3. head # Null /\ head \in 1 .. N /\ head \in OnFreelist
    BY <1>2, FrameAvailable DEF FreelistInv, OnFreelist
  <1>4. node[MapNode(p)].addr = 0
    BY <1>1, <1>2 DEF MappingInv, Mapped
  <1>5. /\ head' = node[head].next
        /\ tail' = IF head' = tail THEN Null ELSE tail
        /\ node' = [node EXCEPT ![MapNode(p)] = node[head]]
    BY <1>0, <1>3, <1>4 DEF PopFrame, Rest
  <1>6. /\ pte' = [pte EXCEPT ![p] = new]
        /\ tlb' = [tlb EXCEPT ![p] = @ \cup {new}]
        /\ pc' = "mapflush"
    BY <1>0, <1>3, <1>4 DEF PopFrame, SetPte
  <1>7. FaultPage' = p
    BY <1>0, <1>1 DEF FaultPage
  <1>8. Running'
    BY <1>6 DEF Running
  <1>9. node[head].addr \in Frames /\ head' = IF head < N THEN head + 1 ELSE Null
    BY <1>2, <1>3, <1>5 DEF FreelistInv
  <1>10. /\ new \in PTE /\ new.v /\ new.ppn = node[head].addr /\ new.a /\ new.d
    BY <1>9, Layout DEF NewPte, PTE
  <1>11. access \in Accesses /\ access # NoAccess /\ turn = 1
    BY <1>1, <1>2, AccessesTyped DEF FaultInv
  <1> HIDE DEF new
  <1>12. /\ pte'[p] = new
         /\ \A q \in Pages \ {p} : pte'[q] = pte[q] /\ tlb'[q] = tlb[q]
    BY <1>1, <1>6 DEF TypeOK
  <1>13. /\ node'[MapNode(p)] = node[head]
         /\ \A n \in 1 .. N : node'[n] = node[n]
         /\ \A q \in Pages \ {p} : node'[MapNode(q)] = node[MapNode(q)]
    BY <1>1, <1>5, Layout DEF TypeOK
  <1>14. TypeOK'
    <2>1. head \in Nodes
      BY <1>3, Layout
    <2>2. node[head] \in [addr : Frames \cup {0}, next : Nodes \cup {Null}]
      BY <2>1 DEF TypeOK
    <2>3. node' \in [Nodes -> [addr : Frames \cup {0}, next : Nodes \cup {Null}]]
      <3>1. node \in [Nodes -> [addr : Frames \cup {0}, next : Nodes \cup {Null}]]
        BY DEF TypeOK
      <3>2. QED
        BY <1>5, <2>2, <3>1
    <2>4. node[head].next \in Nodes \cup {Null}
      BY <2>2
    <2>5. head' \in Nodes \cup {Null} /\ tail' \in Nodes \cup {Null}
      BY <1>5, <2>4 DEF TypeOK
    <2>6. pte' \in [Pages -> PTE]
      <3>1. pte \in [Pages -> PTE]
        BY DEF TypeOK
      <3>2. QED
        BY <1>10, <1>6, <3>1
    <2>7. tlb' \in [Pages -> SUBSET PTE]
      <3>1. tlb \in [Pages -> SUBSET PTE]
        BY DEF TypeOK
      <3>2. QED
        BY <1>10, <1>6, <3>1
    <2>8. QED
      BY <1>1, <1>6, <2>3, <2>5, <2>6, <2>7 DEF TypeOK, PCs
  <1>15. FreelistInv'
    <2>1. OnFreelist' = OnFreelist \ {head}
      BY <1>3, <1>9, Layout DEF OnFreelist, Null
    <2>2. Popped' = Popped + 1
      BY <1>3, <1>9, Layout DEF Popped, Null
    <2>3. Cardinality(MappedPages') = Popped'
      <3>1. MappedPages' = MappedPages \cup {p} /\ p \notin MappedPages
        BY <1>1, <1>4, <1>9, <1>13, Layout DEF MappedPages, Mapped
      <3>2. IsFiniteSet(MappedPages)
        <4>1. IsFiniteSet(Pages)
          BY FS_Interval, Layout DEF Pages
        <4>2. QED
          BY <4>1, FS_Subset DEF MappedPages
      <3>3. Cardinality(MappedPages') = Cardinality(MappedPages) + 1
        BY <3>1, <3>2, FS_AddElement
      <3>4. QED
        BY <1>2, <2>2, <3>3 DEF FreelistInv
    <2>4. head' \in 1 .. N \cup {Null}
      BY <1>3, <1>9, Layout
    <2>5. ASSUME NEW n \in 1 .. N, n \notin OnFreelist'
          PROVE  \E q \in Pages : node'[MapNode(q)].addr = node'[n].addr
      <3>1. CASE n = head
        BY <1>1, <1>13, <3>1
      <3>2. CASE n # head
        <4>1. PICK q \in Pages : node[MapNode(q)].addr = node[n].addr
          BY <1>2, <2>1, <2>5, <3>2 DEF FreelistInv
        <4>2. q # p
          BY <1>2, <1>4, <4>1, Layout DEF FreelistInv
        <4>3. QED
          BY <1>13, <4>1, <4>2
      <3>3. QED
        BY <3>1, <3>2
    <2>6. ASSUME NEW n \in OnFreelist', NEW q \in Pages
          PROVE  node'[MapNode(q)].addr # node'[n].addr
      <3>1. n \in OnFreelist /\ n # head /\ n \in 1 .. N
        BY <2>1, <2>6 DEF OnFreelist
      <3>2. node[head].addr # node[n].addr
        BY <1>2, <1>3, <3>1 DEF FreelistInv
      <3>3. node[MapNode(q)].addr # node[n].addr
        BY <1>2, <3>1 DEF FreelistInv
      <3>4. QED
        BY <1>13, <3>1, <3>2, <3>3
    <2>7. QED
      BY <1>2, <1>13, <2>3, <2>4, <2>5, <2>6 DEF FreelistInv
  <1>16. MappingInv'
    <2>1. \A q \in Pages \ {p} : node[MapNode(q)].addr # node[head].addr
      BY <1>2, <1>3 DEF FreelistInv
    <2>2. \A q \in Pages : q # p => Mapped(q)' = Mapped(q)
      BY <1>13 DEF Mapped
    <2>3. Mapped(p)'
      BY <1>9, <1>13, Layout DEF Mapped
    <2>4. \A q \in Pages :
            /\ pte'[q].v <=> Mapped(q)'
            /\ Mapped(q)' => /\ node'[MapNode(q)].addr \in Frames
                             /\ pte'[q].ppn = node'[MapNode(q)].addr
      BY <1>2, <1>9, <1>10, <1>12, <1>13, <2>2, <2>3 DEF MappingInv
    <2>5. ASSUME NEW q \in Pages, NEW r \in Pages, Mapped(q)',
                 node'[MapNode(q)].addr = node'[MapNode(r)].addr
          PROVE  q = r
      <3>1. CASE q = p \/ r = p
        BY <1>13, <2>1, <2>5, <3>1
      <3>2. CASE q # p /\ r # p
        BY <1>2, <1>13, <2>2, <2>5, <3>2 DEF MappingInv
      <3>3. QED
        BY <3>1, <3>2
    <2>6. QED
      BY <2>4, <2>5 DEF MappingInv
  <1>17. TlbInv'
    <2> SUFFICES ASSUME NEW q \in Pages, q # p PROVE Coherent(q)'
      BY <1>7, <1>6 DEF TlbInv
    <2>1. Coherent(q)
      BY <1>1, <1>2 DEF TlbInv
    <2>2. QED
      BY <1>1, <1>12, <2>1 DEF Coherent
  <1>18. FaultInv'
    BY <1>1, <1>7, <1>10, <1>11, <1>12, <1>6 DEF FaultInv
  <1>19. DirtyInv'
    <2>1. Filling(p)' /\ pte'[p].a
      BY <1>7, <1>10, <1>12, <1>6 DEF Filling
    <2>2. ASSUME NEW q \in Pages \ {p}, Mapped(q)'
          PROVE  (mem'[pte'[q].ppn] # mem'[q] => pte'[q].d) /\ pte'[q].a
      <3>1. Mapped(q) /\ ~Filling(q)
        BY <1>1, <1>13, <2>2 DEF Mapped, Filling
      <3>2. access.page # q
        BY <1>0, <2>2 DEF FaultPage
      <3>3. QED
        BY <1>1, <1>2, <1>12, <3>1, <3>2 DEF DirtyInv
    <2>3. QED
      BY <2>1, <2>2 DEF DirtyInv
  <1>20. QED
    BY <1>6, <1>14, <1>15, <1>16, <1>17, <1>18, <1>19 DEF OnlyWildAccessesPanic

\* The flush leaves the one translation the copy-in may use.
LEMMA FlushMappedKeeps ==
  ASSUME IInv, FlushMapped
  PROVE  IInv'
  <1> USE DEF IInv
  <1>0. PICK p : p = FaultPage
    OBVIOUS
  <1>1. /\ pc = "mapflush" /\ pc' = "copy" /\ FlushPage(p)
        /\ UNCHANGED <<hart, turn, code, put, tohost, cause, access, node, head, tail,
                       mem, unfenced, obs>>
    BY <1>0 DEF FlushMapped, ctlVars, listVars
  <1>2. Running /\ Active /\ \A q \in Pages : Ahead(q)
    BY <1>1 DEF Running, Active, Ahead
  <1>3. /\ p \in Pages /\ access # NoAccess /\ turn = 1
        /\ pte[p].v /\ pte[p].a /\ pte[p].d
    BY <1>0, <1>1, <1>2 DEF FaultInv
  <1>4. /\ pte' = pte /\ tlb' \in [Pages -> SUBSET PTE]
        /\ tlb'[p] = {pte[p]}
        /\ Coherent(p)'
        /\ \A q \in Pages \ {p} : Coherent(q) => Coherent(q)'
    BY <1>1, <1>3, FlushCoherent
  <1>5. FaultPage' = p
    BY <1>0, <1>1 DEF FaultPage
  <1>6. TypeOK'
    BY <1>1, <1>4 DEF TypeOK, PCs
  <1>7. FreelistInv'
    BY <1>1, <1>2, FreelistKept
  <1>8. MappingInv'
    BY <1>1, <1>2, <1>4, MappingKept
  <1>9. TlbInv'
    <2>1. \A q \in Pages \ {p} : Coherent(q)
      BY <1>0, <1>2 DEF TlbInv
    <2>2. QED
      BY <1>4, <2>1 DEF TlbInv
  <1>10. FaultInv'
    BY <1>1, <1>3, <1>4, <1>5 DEF FaultInv
  <1>11. DirtyInv'
    BY <1>1, <1>2, <1>4 DEF DirtyInv, Filling, Mapped, FaultPage
  <1>12. QED
    BY <1>1, <1>6, <1>7, <1>8, <1>9, <1>10, <1>11 DEF OnlyWildAccessesPanic

\* The copy cannot fault: the translation was flushed with all bits set.
LEMMA CopyInKeeps ==
  ASSUME IInv, CopyIn
  PROVE  IInv'
  <1> USE DEF IInv
  <1>0. PICK p : p = FaultPage
    OBVIOUS
  <1>1. /\ pc = "copy"
        /\ UNCHANGED <<hart, turn, code, put, tohost, cause, access, pte, tlb, node,
                       head, tail, obs>>
    BY DEF CopyIn, ctlVars, listVars
  <1>2. Running /\ Active /\ \A q \in Pages : Ahead(q)
    BY <1>1 DEF Running, Active, Ahead
  <1>3. /\ p \in Pages /\ access # NoAccess /\ turn = 1
        /\ pte[p].v /\ pte[p].a /\ pte[p].d
        /\ tlb[p] = {pte[p]}
    BY <1>0, <1>1, <1>2 DEF FaultInv
  <1>4. ~Faults(pte[p], "store")
    BY <1>3 DEF Faults, Permits
  <1>5. /\ pc' = "clean"
        /\ mem' = [mem EXCEPT ![pte[p].ppn] = mem[p]]
        /\ unfenced' = unfenced \cup {pte[p].ppn}
    BY <1>0, <1>3, <1>4 DEF CopyIn
  <1>6. FaultPage' = p
    BY <1>0, <1>1 DEF FaultPage
  <1>7. pte[p].ppn \in Frames
    BY <1>2, <1>3, OwnFrame
  <1>8. /\ \A q \in Pages : mem'[q] = mem[q]
        /\ \A q \in Pages \ {p} :
             Ahead(q) /\ Mapped(q) => mem'[pte[q].ppn] = mem[pte[q].ppn]
        /\ mem'[pte[p].ppn] = mem[p]
    BY <1>2, <1>3, <1>5, FrameWrite
  <1>9. TypeOK'
    <2>1. mem[p] \in Values
      BY <1>3, Layout DEF TypeOK
    <2>2. mem' \in [PhysPages -> Values]
      <3>1. mem \in [PhysPages -> Values]
        BY DEF TypeOK
      <3>2. QED
        BY <1>5, <2>1, <3>1
    <2>3. QED
      BY <1>1, <1>5, <1>7, <2>2 DEF TypeOK, PCs
  <1>10. FreelistInv'
    BY <1>1, <1>2, FreelistKept
  <1>11. MappingInv'
    BY <1>1, <1>2, MappingKept
  <1>12. TlbInv'
    BY <1>1, <1>2 DEF TlbInv, Coherent
  <1>13. FaultInv'
    BY <1>1, <1>3, <1>5, <1>6, <1>8 DEF FaultInv
  <1>14. DirtyInv'
    <2>1. ASSUME NEW q \in Pages, Mapped(q), mem'[pte[q].ppn] # mem'[q]
          PROVE  pte[q].d
      <3>1. q # p
        BY <1>8, <2>1
      <3>2. mem[pte[q].ppn] # mem[q] /\ ~Filling(q)
        BY <1>0, <1>2, <1>8, <2>1, <3>1 DEF Filling
      <3>3. QED
        BY <1>2, <2>1, <3>2 DEF DirtyInv
    <2>2. \A q \in Pages : Mapped(q) /\ ~pte[q].a => access # NoAccess /\ access.page = q
      BY <1>2 DEF DirtyInv
    <2>3. \A q \in Pages : Mapped(q)' = Mapped(q)
      BY <1>1 DEF Mapped
    <2>4. QED
      BY <1>1, <1>5, <2>1, <2>2, <2>3 DEF DirtyInv
  <1>15. QED
    BY <1>5, <1>9, <1>10, <1>11, <1>12, <1>13, <1>14 DEF OnlyWildAccessesPanic

\* Clearing the dirty bit is right: the frame still holds the image.
LEMMA CleanPteKeeps ==
  ASSUME IInv, CleanPte
  PROVE  IInv'
  <1> USE DEF IInv
  <1>0. PICK p : p = FaultPage
    OBVIOUS
  <1> DEFINE new == NewPte(pte[p].ppn)
  <1>1. /\ pc = "clean" /\ pc' = "cleanflush"
        /\ pte' = [pte EXCEPT ![p] = new]
        /\ tlb' = [tlb EXCEPT ![p] = @ \cup {new}]
        /\ UNCHANGED <<hart, turn, code, put, tohost, cause, access, node, head, tail,
                       mem, unfenced, obs>>
    BY <1>0 DEF CleanPte, SetPte, ctlVars, listVars
  <1>2. Running /\ Active /\ \A q \in Pages : Ahead(q)
    BY <1>1 DEF Running, Active, Ahead
  <1>3. /\ p \in Pages /\ access # NoAccess /\ turn = 1
        /\ pte[p].v /\ mem[pte[p].ppn] = mem[p]
    BY <1>0, <1>1, <1>2 DEF FaultInv
  <1>4. new \in PTE /\ new.v /\ new.ppn = pte[p].ppn
    BY <1>3, PteTyped DEF NewPte, PTE
  <1>5. FaultPage' = p
    BY <1>0, <1>1 DEF FaultPage
  <1> HIDE DEF new
  <1>6. /\ pte'[p] = new
        /\ \A q \in Pages \ {p} : pte'[q] = pte[q] /\ tlb'[q] = tlb[q]
    BY <1>1, <1>3 DEF TypeOK
  <1>7. TypeOK'
    <2>1. pte' \in [Pages -> PTE]
      <3>1. pte \in [Pages -> PTE]
        BY DEF TypeOK
      <3>2. QED
        BY <1>1, <1>4, <3>1
    <2>2. tlb' \in [Pages -> SUBSET PTE]
      <3>1. tlb \in [Pages -> SUBSET PTE]
        BY DEF TypeOK
      <3>2. QED
        BY <1>1, <1>4, <3>1
    <2>3. QED
      BY <1>1, <2>1, <2>2 DEF TypeOK, PCs
  <1>8. FreelistInv'
    BY <1>1, <1>2, FreelistKept
  <1>9. MappingInv'
    <2>1. \A q \in Pages : pte'[q].v = pte[q].v /\ pte'[q].ppn = pte[q].ppn
      <3> SUFFICES ASSUME NEW q \in Pages
                   PROVE  pte'[q].v = pte[q].v /\ pte'[q].ppn = pte[q].ppn
        OBVIOUS
      <3>1. CASE q = p
        <4>1. pte[p].v \in BOOLEAN /\ new.v \in BOOLEAN
          BY <1>3, <1>4, PteTyped DEF PTE
        <4>2. QED
          BY <1>3, <1>4, <1>6, <3>1, <4>1
      <3>2. CASE q # p
        BY <1>6, <3>2
      <3>3. QED
        BY <3>1, <3>2
    <2>2. QED
      BY <1>1, <1>2, <2>1, MappingKept
  <1>10. TlbInv'
    <2> SUFFICES ASSUME NEW q \in Pages, q # p PROVE Coherent(q)'
      BY <1>1, <1>5 DEF TlbInv
    <2>1. Coherent(q)
      BY <1>1, <1>2 DEF TlbInv
    <2>2. QED
      BY <1>1, <1>6, <2>1 DEF Coherent
  <1>11. FaultInv'
    BY <1>1, <1>3, <1>4, <1>5, <1>6 DEF FaultInv
  <1>12. DirtyInv'
    <2>1. mem'[pte'[p].ppn] = mem'[p] /\ access'.page = p /\ access' # NoAccess
      BY <1>0, <1>1, <1>3, <1>4, <1>6 DEF FaultPage
    <2>2. ASSUME NEW q \in Pages \ {p}, Mapped(q)'
          PROVE  (mem'[pte'[q].ppn] # mem'[q] => pte'[q].d) /\ pte'[q].a
      <3>1. Mapped(q) /\ ~Filling(q)
        BY <1>1, <2>2 DEF Mapped, Filling
      <3>2. access.page # q
        BY <1>0, <2>2 DEF FaultPage
      <3>3. QED
        BY <1>1, <1>2, <1>6, <3>1, <3>2 DEF DirtyInv
    <2>3. QED
      BY <1>1, <2>1, <2>2 DEF DirtyInv
  <1>13. QED
    BY <1>1, <1>7, <1>8, <1>9, <1>10, <1>11, <1>12 DEF OnlyWildAccessesPanic

\* The second flush leaves no translation with A or D set: later stores fault.
LEMMA FlushCleanedKeeps ==
  ASSUME IInv, FlushCleaned
  PROVE  IInv'
  <1> USE DEF IInv
  <1>0. PICK p : p = FaultPage
    OBVIOUS
  <1>1. /\ pc = "cleanflush" /\ pc' = "user" /\ FlushPage(p) /\ unfenced' = {}
        /\ UNCHANGED <<hart, turn, code, put, tohost, cause, access, node, head, tail,
                       mem, obs>>
    BY <1>0 DEF FlushCleaned, ctlVars, listVars
  <1>2. Running /\ Active /\ \A q \in Pages : Ahead(q)
    BY <1>1 DEF Running, Active, Ahead
  <1>3. p \in Pages
    BY <1>0, <1>1 DEF FaultInv
  <1>4. /\ pte' = pte /\ tlb' \in [Pages -> SUBSET PTE]
        /\ Coherent(p)'
        /\ \A q \in Pages \ {p} : Coherent(q) => Coherent(q)'
    BY <1>1, <1>3, FlushCoherent
  <1>5. TypeOK'
    BY <1>1, <1>4 DEF TypeOK, PCs
  <1>6. FreelistInv'
    BY <1>1, <1>2, FreelistKept
  <1>7. MappingInv'
    BY <1>1, <1>2, <1>4, MappingKept
  <1>8. TlbInv'
    <2>1. \A q \in Pages \ {p} : Coherent(q)
      BY <1>0, <1>2 DEF TlbInv
    <2>2. QED
      BY <1>4, <2>1 DEF TlbInv
  <1>9. FaultInv'
    BY <1>1, <1>2 DEF FaultInv
  <1>10. DirtyInv'
    BY <1>1, <1>2, <1>4 DEF DirtyInv, Filling, Mapped
  <1>11. QED
    BY <1>1, <1>5, <1>6, <1>7, <1>8, <1>9, <1>10 DEF OnlyWildAccessesPanic
-----------------------------------------------------------------------------
(* The end. *)

\* Neither assert of evict fails and the copy back cannot fault: a page that
\* differs from its image is dirty.
LEMMA EvictKeeps ==
  ASSUME IInv, Evict
  PROVE  IInv' /\ pc' = "evict"
  <1> USE DEF IInv
  <1>0. PICK p : p = turn
    OBVIOUS
  <1>1. /\ pc = "evict" /\ p \in Pages /\ Mapped(p)
        /\ UNCHANGED <<hart, cause, access, pte, tlb, unfenced, code, put, tohost, obs>>
    BY <1>0 DEF Evict, Mapped
  <1>2. Active /\ Ahead(p) /\ \A q \in Pages : Ahead(q) <=> q >= p
    BY <1>0, <1>1, Layout DEF Active, Ahead, Pages
  <1>3. /\ pte[p].v /\ pte[p].ppn \in Frames
    BY <1>1, <1>2 DEF MappingInv
  <1>4. PICK e \in tlb[p] :
          LET next == EvictChecks(p, e, mem[e.ppn] # mem[p]) IN
          /\ pc' = next
          /\ IF next = "evict"
               THEN /\ mem' = [mem EXCEPT ![e.ppn] = mem[p]]
                    /\ AppendNode(MapNode(p))
                    /\ turn' = turn + 1
               ELSE UNCHANGED <<mem, listVars, turn>>
    BY <1>0 DEF Evict
  <1>5. Coherent(p)
    BY <1>1, <1>2 DEF TlbInv
  <1>6. EvictChecks(p, e, mem[e.ppn] # mem[p]) = "evict"
    <2>1. e.v /\ e.ppn = pte[p].ppn /\ (~hart.svadu => e = pte[p])
      BY <1>3, <1>5 DEF Coherent
    <2>2. pte[p].a /\ (mem[e.ppn] # mem[p] => pte[p].d)
      BY <1>1, <1>2, <2>1 DEF DirtyInv, Filling
    <2>3. ~Faults(e, IF mem[e.ppn] # mem[p] THEN "store" ELSE "load")
      BY <2>1, <2>2 DEF Faults, Permits
    <2>4. QED
      BY <2>2, <2>3 DEF EvictChecks
  <1>7. e.ppn = pte[p].ppn
    BY <1>5 DEF Coherent
  <1>8. /\ pc' = "evict" /\ turn' = p + 1
        /\ mem' = [mem EXCEPT ![pte[p].ppn] = mem[p]]
        /\ AppendNode(MapNode(p))
    BY <1>0, <1>4, <1>6, <1>7
  <1>9. /\ \A q \in Pages : mem'[q] = mem[q]
        /\ \A q \in Pages \ {p} :
             Ahead(q) /\ Mapped(q) => mem'[pte[q].ppn] = mem[pte[q].ppn]
    BY <1>2, <1>3, <1>8, <1>1, FrameWrite
  <1>10. /\ p + 1 \in 1 .. N /\ Active' /\ ~Running'
         /\ \A q \in Pages : Ahead(q)' => Ahead(q) /\ q # p
    <2>1. p \in Int /\ Pages \subseteq Int /\ p + 1 \in 1 .. N
      BY <1>1, Layout DEF Pages
    <2>2. Active' /\ ~Running'
      BY <1>8 DEF Active, Running
    <2>3. \A q \in Pages : Ahead(q)' => q >= p + 1
      BY <1>8 DEF Ahead
    <2>4. ASSUME NEW q \in Pages, Ahead(q)'
          PROVE  Ahead(q) /\ q # p
      <3>1. q >= p + 1 /\ q \in Int /\ p \in Int
        BY <2>1, <2>3, <2>4
      <3>2. q >= p /\ q # p
        BY <3>1
      <3>3. QED
        BY <1>2, <3>2
    <2>5. QED
      BY <2>1, <2>2, <2>4
  <1>11. \A q \in Pages \ {p} : node'[MapNode(q)].addr = node[MapNode(q)].addr
    <2> SUFFICES ASSUME NEW q \in Pages, q # p
                 PROVE  node'[MapNode(q)].addr = node[MapNode(q)].addr
      OBVIOUS
    <2>1. MapNode(q) \in Nodes /\ MapNode(q) # MapNode(p)
      BY <1>1, Layout
    <2>2. QED
      BY <1>8, <2>1 DEF AppendNode
  <1>12. TypeOK'
    <2>1. MapNode(p) \in Nodes
      BY <1>1, Layout
    <2>2. head' \in Nodes \cup {Null} /\ tail' \in Nodes \cup {Null}
      BY <1>8, <2>1 DEF AppendNode, TypeOK
    <2>3. node' \in [Nodes -> [addr : Frames \cup {0}, next : Nodes \cup {Null}]]
      <3>1. ASSUME NEW m \in Nodes
            PROVE  [addr |-> IF m = MapNode(p) THEN 0 ELSE node[m].addr,
                    next |-> IF m = tail THEN MapNode(p) ELSE node[m].next]
                     \in [addr : Frames \cup {0}, next : Nodes \cup {Null}]
        <4>1. node[m] \in [addr : Frames \cup {0}, next : Nodes \cup {Null}]
          BY DEF TypeOK
        <4>2. QED
          BY <2>1, <4>1
      <3>2. QED
        BY <1>8, <3>1 DEF AppendNode
    <2>4. mem' \in [PhysPages -> Values]
      <3>1. mem[p] \in Values
        BY <1>1, Layout DEF TypeOK
      <3>2. mem \in [PhysPages -> Values]
        BY DEF TypeOK
      <3>3. QED
        BY <1>8, <3>1, <3>2
    <2>5. QED
      BY <1>1, <1>8, <1>10, <2>2, <2>3, <2>4 DEF TypeOK, PCs
  <1>13. FreelistInv'
    BY <1>10 DEF FreelistInv
  <1>14. MappingInv'
    <2>1. \A q \in Pages : Ahead(q)' => Mapped(q)' = Mapped(q)
      BY <1>10, <1>11 DEF Mapped
    <2>2. QED
      BY <1>1, <1>2, <1>10, <1>11, <2>1 DEF MappingInv
  <1>15. TlbInv'
    BY <1>1, <1>2, <1>10 DEF TlbInv, Coherent
  <1>16. FaultInv'
    BY <1>8, <1>10 DEF FaultInv
  <1>17. DirtyInv'
    <2> SUFFICES ASSUME NEW q \in Pages, Ahead(q)', Mapped(q)'
                 PROVE  (mem'[pte'[q].ppn] # mem'[q] => pte'[q].d) /\ pte'[q].a
      BY DEF DirtyInv
    <2>1. q # p /\ Ahead(q) /\ Mapped(q) /\ ~Filling(q)
      BY <1>1, <1>10, <1>11 DEF Mapped, Filling
    <2>2. QED
      BY <1>1, <1>2, <1>9, <2>1 DEF DirtyInv
  <1>18. QED
    BY <1>8, <1>12, <1>13, <1>14, <1>15, <1>16, <1>17 DEF OnlyWildAccessesPanic

\* Eviction passes over a page without a frame.
LEMMA EvictSkipKeeps ==
  ASSUME IInv, EvictSkip
  PROVE  IInv'
  <1> USE DEF IInv
  <1>1. /\ pc = "evict" /\ turn \in Pages /\ turn' = turn + 1
        /\ UNCHANGED <<hart, pc, cause, access, pte, tlb, node, head, tail, mem,
                       unfenced, code, put, tohost, obs>>
    BY DEF EvictSkip, listVars
  <1>2. Active /\ Active' /\ ~Running'
    BY <1>1 DEF Active, Running
  <1>3. turn' \in 1 .. N /\ \A q \in Pages : Ahead(q)' => Ahead(q)
    BY <1>1, Layout DEF Ahead, Pages
  <1>4. TypeOK'
    BY <1>1, <1>3 DEF TypeOK
  <1>5. FreelistInv'
    BY <1>2 DEF FreelistInv
  <1>6. MappingInv'
    BY <1>1, <1>2, <1>3, MappingKept
  <1>7. TlbInv'
    BY <1>1, <1>2, <1>3 DEF TlbInv, Coherent, FaultPage
  <1>8. FaultInv'
    BY <1>1, <1>2 DEF FaultInv
  <1>9. DirtyInv'
    BY <1>1, <1>2, <1>3 DEF DirtyInv, Filling, Mapped, FaultPage
  <1>10. QED
    BY <1>1, <1>4, <1>5, <1>6, <1>7, <1>8, <1>9 DEF OnlyWildAccessesPanic

\* Steps on the way to tohost keep the invariant, which then asks for nothing.
LEMMA EndKeeps ==
  ASSUME IInv, EvictDone \/ PutChar \/ Die \/ Terminate
  PROVE  IInv'
  <1>1. /\ pc' \in {"panic", "terminate", "halt"}
        /\ pc' = "panic" => (access # NoAccess /\ FaultPage \notin Pages)'
    BY DEF EvictDone, PutChar, Die, Terminate, IInv, OnlyWildAccessesPanic, FaultPage
  <1>2. TypeOK'
    <2>1. CASE EvictDone
      BY <2>1 DEF IInv, TypeOK, EvictDone, PCs, ctlVars, listVars
    <2>2. CASE Die
      BY <2>2 DEF IInv, TypeOK, Die, PCs, listVars
    <2>3. CASE Terminate
      BY <2>3 DEF IInv, TypeOK, Terminate, PCs, listVars
    <2>4. CASE PutChar
      <3>1. put' \in 0 .. Message
        BY <2>4, MessageAssumption DEF IInv, TypeOK, PutChar
      <3>2. QED
        BY <2>4, <3>1 DEF IInv, TypeOK, PutChar, listVars
    <2>5. QED
      BY <2>1, <2>2, <2>3, <2>4
  <1>3. QED
    BY <1>1, <1>2, Leaving

\* The invariant depends on the variables only, and on tohost not at all but for
\* its type: the host may clear it whenever it likes.
LEMMA StutterKeeps ==
  ASSUME IInv, HostReads \/ UNCHANGED vars
  PROVE  IInv'
  <1>1. UNCHANGED <<hart, pc, cause, access, pte, tlb, node, head, tail, mem,
                    unfenced, turn, code, put, obs>>
    BY DEF vars, HostReads, listVars
  <1>0. tohost' \in ExitCodes \cup {0, 3, 841, Console}
    BY DEF vars, HostReads, IInv, TypeOK
  <1>2. TypeOK' /\ FaultInv' /\ OnlyWildAccessesPanic'
    BY <1>0, <1>1 DEF IInv, TypeOK, FaultInv, OnlyWildAccessesPanic, Running, FaultPage
  <1>3. FreelistInv'
    BY <1>1, FreelistKept DEF IInv, Running
  <1>4. MappingInv'
    BY <1>1, MappingKept DEF IInv, Active, Running, Ahead
  <1>5. TlbInv' /\ DirtyInv'
    BY <1>1 DEF IInv, TlbInv, DirtyInv, Coherent, Active, Running, Ahead, Filling,
                Mapped, FaultPage
  <1>6. QED
    BY <1>2, <1>3, <1>4, <1>5 DEF IInv
-----------------------------------------------------------------------------
\* Every step of the hart and of the handlers keeps the invariant.
LEMMA NextKeeps ==
  ASSUME IInv, [Next]_vars
  PROVE  IInv'
  <1>1. CASE User
    <2>1. ASSUME NEW acc \in Ready, UserFault(acc)
          PROVE  IInv'
      BY <2>1, UserFaultKeeps
    <2>2. ASSUME NEW acc \in Ready, acc.page \in Pages, NEW e \in tlb[acc.page],
                 UserHit(acc, e) \/ HardwareUpdate(acc, e)
          PROVE  IInv'
      BY <2>2, UserHitKeeps, HardwareUpdateKeeps
    <2>3. QED
      BY <1>1, <2>1, <2>2 DEF User
  <1>2. CASE \E n \in ExitCodes : ECall(n)
    BY <1>2, ECallKeeps
  <1>3. CASE FpEnable
    BY <1>3, FpEnableKeeps
  <1>4. CASE HandleFault
    BY <1>4, BadAddressKeeps, MarkPteKeeps, FlushMarkedKeeps, PopFrameKeeps,
       FlushMappedKeeps, CopyInKeeps, CleanPteKeeps, FlushCleanedKeeps
       DEF HandleFault
  <1>5. CASE Shutdown
    BY <1>5, EvictKeeps, EvictSkipKeeps, EndKeeps DEF Shutdown
  <1>6. CASE HostReads \/ Spin \/ UNCHANGED vars
    BY <1>6, StutterKeeps DEF Spin
  <1>7. QED
    BY <1>1, <1>2, <1>3, <1>4, <1>5, <1>6 DEF Next

\* The strengthened invariant holds in every state (handle_trap, handle_fault
\* and evict in vm.c).
THEOREM Invariance == Spec => []IInv
  <1>1. Init => IInv
    BY InitHolds
  <1>2. IInv /\ [Next]_vars => IInv'
    BY NextKeeps
  <1>3. QED
    BY <1>1, <1>2, PTL DEF Spec

\* A page that differs from its image is marked dirty whenever the program can
\* make its ecall: what the assert in evict relies on.
LEMMA DirtyFollows == IInv => DirtyPagesAreMarked
  <1> SUFFICES ASSUME IInv, NEW p \in Pages,
                      pc = "user", access = NoAccess, Mapped(p)
               PROVE  pte[p].a /\ (mem[pte[p].ppn] # mem[p] => pte[p].d)
    BY DEF DirtyPagesAreMarked
  <1>1. Active /\ Ahead(p) /\ ~Filling(p)
    BY DEF Active, Running, Ahead, Filling
  <1>2. QED
    BY <1>1 DEF IInv, DirtyInv

\* While the program runs, each frame is on the freelist or backs one page.
LEMMA FramesFollow == IInv => FramesConserved
  <1> SUFFICES ASSUME IInv, Running PROVE FramesConserved
    BY DEF FramesConserved
  <1> USE DEF IInv
  <1>1. Active /\ \A p \in Pages : Ahead(p)
    BY RunningIsAhead
  <1>2. \A p \in Pages : pte[p].v = Mapped(p)
    <2> SUFFICES ASSUME NEW p \in Pages PROVE pte[p].v = Mapped(p)
      OBVIOUS
    <2>1. pte[p].v \in BOOLEAN /\ Mapped(p) \in BOOLEAN
      BY PteTyped DEF PTE, Mapped
    <2>2. pte[p].v <=> Mapped(p)
      BY <1>1 DEF MappingInv
    <2>3. QED
      BY <2>1, <2>2
  <1>3. \A p \in Pages : Mapped(p) => pte[p].ppn = node[MapNode(p)].addr
    BY <1>1 DEF MappingInv
  <1>4. \A p, q \in Pages : Mapped(p) /\ pte[p] = pte[q] => p = q
    <2> SUFFICES ASSUME NEW p \in Pages, NEW q \in Pages, Mapped(p),
                        pte[p] = pte[q]
                 PROVE  p = q
      OBVIOUS
    <2>1. Mapped(q)
      BY <1>1 DEF MappingInv
    <2>2. QED
      BY <1>1, <2>1, OtherFrames
  <1>5. ASSUME NEW f \in Frames
        PROVE  (\E p \in Pages : node[MapNode(p)].addr = f)
                 # (\E n \in OnFreelist : node[n].addr = f)
    <2>1. PICK n \in 1 .. N : node[n].addr = f
      BY DEF FreelistInv
    <2>2. CASE n \in OnFreelist
      BY <2>1, <2>2 DEF FreelistInv
    <2>3. CASE n \notin OnFreelist
      <3>1. \E p \in Pages : node[MapNode(p)].addr = f
        BY <2>1, <2>3 DEF FreelistInv
      <3>2. \A m \in OnFreelist : node[m].addr # f
        BY <2>1, <2>3 DEF FreelistInv, OnFreelist
      <3>3. QED
        BY <3>1, <3>2
    <2>4. QED
      BY <2>2, <2>3
  <1>6. QED
    BY <1>2, <1>3, <1>4, <1>5 DEF FramesConserved
=============================================================================
