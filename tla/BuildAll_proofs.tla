--------------------------- MODULE BuildAll_proofs ---------------------------
(***************************************************************************)
(* For any designs, task lists, number of jobs and number of runs: two     *)
(* makes that run at once never build the same file, and a run that says   *)
(* "Success!" has built all it was asked for.                              *)
(***************************************************************************)
EXTENDS BuildAll, TLAPS

\* Every target of stage n exists.
AllMade(n) ==
  \A i \in 1 .. Len(TasksOf(script, n)) : TasksOf(script, n)[i] \in made

BeforeInv ==
  pc = "before" =>
    /\ script \in {"designs", "cellstats"}
    /\ stage = 1 /\ busy = {} /\ ~failed
    /\ handed <= Len(Tasks)
    /\ \A i \in 1 .. handed : Tasks[i] \in made

ConfirmInv ==
  pc = "confirm" => script = "clean" /\ stage = 1 /\ handed = 0 /\ busy = {}

\* The chunks in work are disjoint intervals of the tasks handed out.
ChunksInv ==
  /\ handed <= Len(Tasks)
  /\ \A b \in busy : 1 <= b.at /\ b.at <= b.last /\ b.last <= handed
  /\ \A b, c \in busy : b # c => b.last < c.at \/ c.last < b.at

\* A task handed out has been made, unless its chunk is still in work or some
\* make of the stage failed; all that earlier stages make exists.
StagesInv ==
  /\ stage \in 2 .. StagesOf(script)
  /\ \A n \in 1 .. (stage - 1) : AllMade(n)
  /\ \A i \in 1 .. handed :
       \/ failed
       \/ Tasks[i] \in made
       \/ \E b \in busy : b.at <= i /\ i <= b.last

PoolInv ==
  pc = "pool" =>
    /\ script \in Scripts
    /\ ChunksInv
    /\ IF script = "clean" THEN stage = 1 ELSE StagesInv

DoneInv ==
  outcome = "success" =>
    /\ pc = "idle" /\ script \in Scripts
    /\ script # "clean" => \A n \in 1 .. StagesOf(script) : AllMade(n)

IInv == TypeOK /\ BeforeInv /\ ConfirmInv /\ PoolInv /\ DoneInv
-----------------------------------------------------------------------------
\* Every list a stage works through names targets, each of them once.
LEMMA TasksTyped ==
  ASSUME TypeOK, script \in Scripts, NEW n \in 1 .. 3
  PROVE  /\ TasksOf(script, n) \in Seq(Targets)
         /\ \A i, j \in 1 .. Len(TasksOf(script, n)) :
              TasksOf(script, n)[i] = TasksOf(script, n)[j] => i = j
<1>1. excluded \in SUBSET Designs /\ traces \in SUBSET Traces BY DEF TypeOK
<1>2. /\ Lists(PreInstrumentations(excluded), {"before"}, excluded)
      /\ Lists(Instrumentations(excluded), {"sv"}, excluded)
      /\ Lists(Syntheses(excluded, traces), traces, excluded)
      /\ Lists(Statistics(excluded), {"stats"}, excluded)
      /\ Lists(Cleanings, {"before"}, {})
  BY <1>1, ListsAssumption
<1>3. \/ TasksOf(script, n) = Cleanings
      \/ TasksOf(script, n) = PreInstrumentations(excluded)
      \/ TasksOf(script, n) = Instrumentations(excluded)
      \/ TasksOf(script, n) = Statistics(excluded)
      \/ TasksOf(script, n) = Syntheses(excluded, traces)
  BY DEF TasksOf
<1> QED BY <1>2, <1>3 DEF Lists

\* A make builds targets, and one that fails leaves targets.
LEMMA NeedsTyped ==
  ASSUME NEW t \in Targets
  PROVE  Needs(t) \subseteq Targets /\ t \in Needs(t)
BY DEF Needs, Before, Instrumented, Targets, Kinds

\* The length of a list is a natural number.
LEMMA LenInNat == ASSUME NEW S, NEW s \in Seq(S) PROVE Len(s) \in Nat
OBVIOUS

\* A chunk has at least one task.
LEMMA CeilingPositive ==
  ASSUME NEW n \in Nat, n > 0, NEW j \in Nat, j > 0
  PROVE  /\ (n + 4 * j - 1) \div (4 * j) \in Nat
         /\ (n + 4 * j - 1) \div (4 * j) >= 1
<1> DEFINE d == 4 * j
           q == (n + d - 1) \div d
<1>1. d \in Nat /\ d > 0 /\ n + d - 1 \in Nat /\ n + d - 1 >= d OBVIOUS
<1>2. q \in Int /\ d * q <= n + d - 1 /\ n + d - 1 < d * q + d
  <2> HIDE DEF d
  <2> QED BY <1>1
<1>3. q >= 1
  <2>1. SUFFICES ASSUME q <= 0 PROVE FALSE BY <1>2
  <2>2. d * q <= 0
    <3> HIDE DEF d, q
    <3> QED BY <1>1, <1>2, <2>1
  <2> HIDE DEF d, q
  <2> QED BY <1>1, <1>2, <2>2
<1> QED BY <1>2, <1>3

\* A pool that has tasks left hands out at least one of them: starmap never
\* makes an empty chunk.
LEMMA ChunkSizePositive ==
  ASSUME IInv, pc = "pool", handed < Len(Tasks)
  PROVE  ChunkSize \in Nat /\ ChunkSize >= 1
<1>1. jobs \in Nat /\ jobs > 0 BY ConstantsAssumption DEF IInv, TypeOK
<1>2. script \in Scripts /\ stage \in 1 .. 3
  BY DEF IInv, PoolInv, StagesInv, StagesOf
<1>3. Len(Tasks) \in Nat BY <1>2, TasksTyped, LenInNat DEF IInv, Tasks
<1>4. Len(Tasks) > 0 BY <1>3 DEF IInv, TypeOK
<1> QED BY <1>1, <1>3, <1>4, CeilingPositive DEF ChunkSize
-----------------------------------------------------------------------------
\* The lists of a run depend on its options only.
LEMMA TasksKept ==
  ASSUME UNCHANGED options, NEW n PROVE TasksOf(script, n)' = TasksOf(script, n)
BY DEF options, TasksOf

\* Before the first script is started nothing is claimed of any run.
LEMMA InitEstablishes == Init => IInv
<1> SUFFICES ASSUME Init PROVE IInv OBVIOUS
<1>1. failed \in BOOLEAN /\ declined \in BOOLEAN BY DEF Init
<1>2. TypeOK BY <1>1, ConstantsAssumption DEF Init, TypeOK
<1> QED
  BY <1>2 DEF Init, IInv, BeforeInv, ConfirmInv, PoolInv, DoneInv

\* A script that starts resets what the last run left, but not what it made.
LEMMA InvokeKeeps == ASSUME IInv, Invoke PROVE IInv'
<1>1. PICK s \in Scripts, excl \in SUBSET Designs, trs \in SUBSET Traces,
           single \in BOOLEAN : Start(s, excl, trs, single)
  BY DEF Invoke, Scripts
<1>2. TypeOK'
  <2>1. failed' \in BOOLEAN /\ declined' \in BOOLEAN BY <1>1 DEF Start
  <2> QED BY <1>1, <2>1, ConstantsAssumption DEF IInv, TypeOK, Start
<1>3. BeforeInv'
  <2>1. pc' = "before" => s \in {"designs", "cellstats"} BY <1>1 DEF Start, Scripts
  <2>2. pc' = "before" => 0 <= Len(Tasks)'
    <3> SUFFICES ASSUME pc' = "before" PROVE 0 <= Len(Tasks)' OBVIOUS
    <3>1. Tasks' = PreInstrumentations(excl)
      BY <1>1, <2>1 DEF Start, Tasks, TasksOf
    <3>2. PreInstrumentations(excl) \in Seq(Targets)
      BY ListsAssumption DEF Lists
    <3> QED BY <3>1, <3>2, LenInNat
  <2> QED BY <1>1, <2>1, <2>2 DEF Start, BeforeInv
<1> QED
  BY <1>1, <1>2, <1>3 DEF IInv, Start, ConfirmInv, PoolInv, DoneInv

\* Answering the question of clean_all_designs starts its only stage, with
\* nothing handed out.
LEMMA AnswerKeeps ==
  ASSUME IInv, NEW yes \in BOOLEAN, Answer(yes) PROVE IInv'
<1>1. UNCHANGED options /\ UNCHANGED <<stage, handed, busy, made>> BY DEF Answer
<1>2. script = "clean" /\ script' = "clean" /\ stage' = 1
  BY <1>1 DEF IInv, ConfirmInv, Answer, options
<1>3. TypeOK' BY <1>1 DEF IInv, TypeOK, Answer, options
<1>4. ChunksInv'
  <2>1. Len(Tasks') \in Nat
    <3>1. Tasks' \in Seq(Targets)
      BY <1>2, ListsAssumption DEF Tasks, TasksOf, Lists
    <3> QED BY <3>1, LenInNat
  <2>2. handed' = 0 /\ busy' = {} BY DEF IInv, ConfirmInv, Answer
  <2> QED BY <2>1, <2>2 DEF ChunksInv
<1> QED
  BY <1>2, <1>3, <1>4
  DEF IInv, Answer, BeforeInv, ConfirmInv, PoolInv, DoneInv, Scripts

\* The loop over pre_instrumentation_worker makes one more target, or ends the
\* run without success.
LEMMA PreInstrumentKeeps == ASSUME IInv, PreInstrument PROVE IInv'
<1>1. /\ UNCHANGED options /\ UNCHANGED <<busy, declined>>
      /\ pc = "before" /\ handed < Len(Tasks)
  BY DEF PreInstrument
<1>2. script \in {"designs", "cellstats"} /\ stage = 1 BY <1>1 DEF IInv, BeforeInv
<1>3. Tasks \in Seq(Targets) /\ Len(Tasks) \in Nat
  BY <1>2, TasksTyped, LenInNat DEF IInv, Tasks, Scripts
<1>4. CASE End("error") /\ UNCHANGED made
  <2>1. TypeOK' BY <1>1, <1>4 DEF IInv, TypeOK, End, options
  <2> QED
    BY <2>1, <1>4 DEF IInv, End, BeforeInv, ConfirmInv, PoolInv, DoneInv
<1>5. CASE /\ made' = made \cup Needs(Tasks[handed + 1])
           /\ handed' = handed + 1
           /\ UNCHANGED <<pc, stage, failed, outcome>>
  <2>1. handed \in Nat /\ Tasks[handed + 1] \in Targets
    BY <1>1, <1>3 DEF IInv, TypeOK
  <2>2. TypeOK'
    BY <1>1, <1>5, <2>1, NeedsTyped DEF IInv, TypeOK, options
  <2>3. Tasks' = Tasks BY <1>1, <1>5 DEF options, Tasks, TasksOf
  <2>4. BeforeInv'
    <3>1. \A i \in 1 .. (handed + 1) : Tasks[i] \in made'
      BY <1>1, <1>5, <2>1, NeedsTyped DEF IInv, BeforeInv
    <3> QED
      BY <1>1, <1>3, <1>5, <2>1, <2>3, <3>1 DEF IInv, BeforeInv, options
  <2> QED
    BY <1>1, <1>5, <2>2, <2>4 DEF IInv, ConfirmInv, PoolInv, DoneInv
<1> QED BY <1>4, <1>5 DEF PreInstrument

\* When that loop is through, all of the first stage exists.
LEMMA PreInstrumentedKeeps == ASSUME IInv, PreInstrumented PROVE IInv'
<1>1. /\ UNCHANGED options /\ UNCHANGED <<busy, made, declined, outcome>>
      /\ pc = "before" /\ handed = Len(Tasks)
      /\ stage' = stage + 1 /\ handed' = 0 /\ failed' = FALSE /\ pc' = "pool"
  BY DEF PreInstrumented, NextStage
<1>2. script \in {"designs", "cellstats"} /\ stage = 1 /\ busy = {}
  BY <1>1 DEF IInv, BeforeInv
<1>3. TypeOK'
  <2>1. failed' \in BOOLEAN BY <1>1
  <2> QED BY <1>1, <1>2, <2>1 DEF IInv, TypeOK, options
<1>4. AllMade(1)'
  <2>1. AllMade(1) BY <1>1, <1>2 DEF IInv, BeforeInv, AllMade, Tasks
  <2> QED BY <1>1, <2>1, TasksKept DEF AllMade, options
<1>5. StagesInv'
  <2>1. stage' = 2 BY <1>1, <1>2
  <2>2. stage' \in 2 .. StagesOf(script)'
    BY <1>1, <1>2, <2>1 DEF StagesOf, options
  <2> QED BY <1>1, <1>4, <2>1, <2>2 DEF StagesInv
<1>6. ChunksInv'
  <2>1. script' \in Scripts /\ stage' \in 1 .. 3
    BY <1>1, <1>2 DEF Scripts, options
  <2>2. Len(Tasks)' \in Nat
    <3>1. \A n \in 1 .. 3 : TasksOf(script, n) \in Seq(Targets)
      BY <1>2, TasksTyped DEF IInv, Scripts
    <3>2. Tasks' = TasksOf(script, 2)
      BY <1>1, <1>2 DEF Tasks, TasksOf, options
    <3> QED BY <3>1, <3>2, LenInNat
  <2> QED BY <1>1, <1>2, <2>2 DEF ChunksInv
<1> QED
  BY <1>1, <1>2, <1>3, <1>5, <1>6
  DEF IInv, BeforeInv, ConfirmInv, PoolInv, DoneInv, options, Scripts
-----------------------------------------------------------------------------
\* What every step of the pool may use.
LEMMA PoolFacts ==
  ASSUME IInv, pc = "pool"
  PROVE  /\ script \in Scripts /\ stage \in 1 .. 3
         /\ Tasks \in Seq(Targets) /\ Len(Tasks) \in Nat
         /\ handed \in Nat
         /\ \A b \in busy : b.at \in Nat /\ b.last \in Nat /\ Tasks[b.at] \in Targets
<1>1. script \in Scripts /\ stage \in 1 .. 3
  BY DEF IInv, PoolInv, StagesInv, StagesOf
<1>2. Tasks \in Seq(Targets) /\ Len(Tasks) \in Nat
  BY <1>1, TasksTyped, LenInNat DEF IInv, Tasks
<1>3. \A b \in busy : b.at \in Nat /\ b.last \in Nat /\ b.at \in 1 .. Len(Tasks)
  BY <1>2 DEF IInv, TypeOK, PoolInv, ChunksInv
<1> QED BY <1>1, <1>2, <1>3 DEF IInv, TypeOK

\* A step of the pool that builds, or fails, keeps what earlier stages made.
LEMMA EarlierStagesKept ==
  ASSUME IInv, pc = "pool", script # "clean",
         UNCHANGED options, UNCHANGED stage, made \subseteq made'
  PROVE  /\ stage' \in 2 .. StagesOf(script)'
         /\ \A n \in 1 .. (stage - 1)' : AllMade(n)'
<1>1. stage \in 2 .. StagesOf(script) /\ script' = script
  BY DEF IInv, PoolInv, StagesInv, options
<1>2. ASSUME NEW n \in 1 .. (stage - 1) PROVE AllMade(n)'
  <2>1. AllMade(n) BY <1>2 DEF IInv, PoolInv, StagesInv
  <2> QED BY <2>1, TasksKept DEF AllMade
<1> QED BY <1>1, <1>2 DEF StagesOf

\* A chunk that a worker takes is an interval of its own, and its tasks are
\* accounted for while it is in work.
LEMMA TakeKeeps == ASSUME IInv, Take PROVE IInv'
<1> DEFINE last == handed + ChunkSize
           end == IF last < Len(Tasks) THEN last ELSE Len(Tasks)
           new == [at |-> handed + 1, last |-> end]
<1>1. /\ UNCHANGED options
      /\ UNCHANGED <<pc, stage, failed, made, declined, outcome>>
      /\ pc = "pool" /\ handed < Len(Tasks)
      /\ busy' = busy \cup {new} /\ handed' = end
  BY DEF Take
<1>2. Tasks \in Seq(Targets) /\ Len(Tasks) \in Nat /\ handed \in Nat
  BY <1>1, PoolFacts
<1>3. ChunkSize \in Nat /\ ChunkSize >= 1 BY <1>1, ChunkSizePositive
<1>4. end \in Nat /\ handed + 1 <= end /\ end <= Len(Tasks) BY <1>1, <1>2, <1>3
<1>5. Tasks' = Tasks BY <1>1 DEF options, Tasks, TasksOf
<1> HIDE DEF last, end
<1>6. TypeOK'
  <2>1. new \in [at : Nat, last : Nat] BY <1>2, <1>4
  <2>2. busy' \subseteq [at : Nat, last : Nat] BY <1>1, <2>1 DEF IInv, TypeOK
  <2> QED BY <1>1, <1>4, <2>2 DEF IInv, TypeOK, options
<1>7. ChunksInv'
  <2>1. ChunksInv BY <1>1 DEF IInv, PoolInv
  <2>2. \A b \in busy : b.at \in Nat /\ b.last \in Nat BY <1>1, PoolFacts
  <2>3. new.at = handed + 1 /\ new.last = end OBVIOUS
  <2>4. \A b \in busy : b.last < new.at /\ b.last <= end
    BY <1>2, <1>4, <2>1, <2>2, <2>3 DEF ChunksInv
  <2>5. 1 <= new.at /\ new.at <= new.last /\ new.last <= end
    BY <1>2, <1>4, <2>3
  <2> HIDE DEF new
  <2> QED BY <1>1, <1>2, <1>4, <1>5, <2>1, <2>2, <2>4, <2>5 DEF ChunksInv
<1>8. script # "clean" => StagesInv'
  <2> SUFFICES ASSUME script # "clean" PROVE StagesInv' OBVIOUS
  <2>1. StagesInv BY <1>1 DEF IInv, PoolInv
  <2>2. ASSUME NEW i \in 1 .. end
        PROVE  failed \/ Tasks[i] \in made \/ \E b \in busy' : b.at <= i /\ i <= b.last
    <3>1. CASE i \in 1 .. handed BY <1>1, <2>1, <3>1 DEF StagesInv
    <3>2. CASE i > handed
      <4>1. new.at <= i /\ i <= new.last BY <1>2, <1>4, <3>2
      <4> QED BY <1>1, <4>1
    <3> QED BY <1>2, <1>4, <3>1, <3>2
  <2> QED BY <1>1, <1>5, <2>2, EarlierStagesKept DEF StagesInv
<1>9. script' \in Scripts /\ (script = "clean" => stage = 1)
  BY <1>1, PoolFacts DEF options, IInv, PoolInv
<1> QED
  BY <1>1, <1>6, <1>7, <1>8, <1>9
  DEF IInv, BeforeInv, ConfirmInv, PoolInv, DoneInv, options

\* A task leaves the chunks in work only once its target exists.
LEMMA WorkerDoneKeeps ==
  ASSUME IInv, NEW b \in busy, WorkerDone(b) PROVE IInv'
<1> DEFINE next == [b EXCEPT !.at = @ + 1]
           t == Tasks[b.at]
<1>1. /\ UNCHANGED options
      /\ UNCHANGED <<pc, stage, handed, failed, declined, outcome>>
      /\ pc = "pool"
      /\ busy' = (busy \ {b}) \cup IF b.at < b.last THEN {next} ELSE {}
  BY DEF WorkerDone, Advance
<1>2. /\ Tasks \in Seq(Targets) /\ Len(Tasks) \in Nat /\ handed \in Nat
      /\ b.at \in Nat /\ b.last \in Nat /\ t \in Targets
  BY <1>1, PoolFacts
<1>3. Tasks' = Tasks BY <1>1 DEF options, Tasks, TasksOf
<1>4. b \in [at : Nat, last : Nat] BY DEF IInv, TypeOK
<1>5. next \in [at : Nat, last : Nat] /\ next.at = b.at + 1 /\ next.last = b.last
  BY <1>2, <1>4
<1>6. made' = IF script = "clean" THEN made \ OfDesign(t.design) ELSE made \cup Needs(t)
  BY DEF WorkerDone
<1> HIDE DEF next, t
<1>7. TypeOK'
  <2>1. busy' \subseteq [at : Nat, last : Nat] BY <1>1, <1>5 DEF IInv, TypeOK
  <2>2. made' \subseteq Targets BY <1>2, <1>6, NeedsTyped DEF IInv, TypeOK
  <2> QED BY <1>1, <2>1, <2>2 DEF IInv, TypeOK, options
<1>8. ChunksInv'
  <2>1. ChunksInv BY <1>1 DEF IInv, PoolInv
  <2>2. \A c \in busy : c.at \in Nat /\ c.last \in Nat BY <1>1, PoolFacts
  <2>3. \A c \in busy' : \/ c \in busy /\ c # b
                         \/ c = next /\ b.at < b.last
    BY <1>1
  <2>4. \A c \in busy' : 1 <= c.at /\ c.at <= c.last /\ c.last <= handed
    BY <1>5, <2>1, <2>2, <2>3 DEF ChunksInv
  <2>5. \A c, e \in busy' : c # e => c.last < e.at \/ e.last < c.at
    BY <1>5, <2>1, <2>2, <2>3 DEF ChunksInv
  <2>6. handed' <= Len(Tasks)' BY <1>1, <1>3, <2>1 DEF ChunksInv
  <2> QED BY <1>1, <2>4, <2>5, <2>6 DEF ChunksInv
<1>9. script # "clean" => StagesInv'
  <2> SUFFICES ASSUME script # "clean" PROVE StagesInv' OBVIOUS
  <2>1. StagesInv BY <1>1 DEF IInv, PoolInv
  <2>2. made \subseteq made' /\ t \in made' BY <1>2, <1>6, NeedsTyped
  <2>3. ASSUME NEW i \in 1 .. handed
        PROVE  failed \/ Tasks[i] \in made' \/ \E c \in busy' : c.at <= i /\ i <= c.last
    <3>1. CASE failed \/ Tasks[i] \in made BY <2>2, <3>1
    <3>2. CASE \E c \in busy : c.at <= i /\ i <= c.last
      <4>1. PICK c \in busy : c.at <= i /\ i <= c.last BY <3>2
      <4>2. CASE c # b BY <1>1, <4>1, <4>2
      <4>3. CASE c = b /\ i = b.at BY <2>2, <4>3 DEF t
      <4>4. CASE c = b /\ i # b.at
        <5>1. next.at <= i /\ i <= next.last /\ b.at < b.last
          BY <1>2, <1>5, <4>1, <4>4
        <5> QED BY <1>1, <5>1
      <4> QED BY <4>2, <4>3, <4>4
    <3> QED BY <2>1, <3>1, <3>2 DEF StagesInv
  <2> QED BY <1>1, <1>3, <2>2, <2>3, EarlierStagesKept DEF StagesInv
<1>10. script' \in Scripts /\ (script = "clean" => stage = 1)
  BY <1>1, PoolFacts DEF options, IInv, PoolInv
<1> QED
  BY <1>1, <1>7, <1>8, <1>9, <1>10
  DEF IInv, BeforeInv, ConfirmInv, PoolInv, DoneInv, options

\* A make that fails while building removes nothing, and the stage remembers
\* that it failed.
LEMMA WorkerFailsKeeps ==
  ASSUME IInv, NEW b \in busy, WorkerFails(b) PROVE IInv'
<1> DEFINE t == Tasks[b.at]
<1>1. /\ UNCHANGED options
      /\ UNCHANGED <<pc, stage, handed, declined, outcome>>
      /\ pc = "pool" /\ busy' = busy \ {b} /\ failed'
  BY DEF WorkerFails
<1>2. t \in Targets BY <1>1, PoolFacts
<1>3. IF script = "clean" THEN made' \subseteq made
                          ELSE made \subseteq made' /\ made' \subseteq made \cup Needs(t)
  BY DEF WorkerFails, Missing
<1>4. Tasks' = Tasks BY <1>1 DEF options, Tasks, TasksOf
<1> HIDE DEF t
<1>5. TypeOK'
  <2>1. made' \subseteq Targets BY <1>2, <1>3, NeedsTyped DEF IInv, TypeOK
  <2>2. failed' \in BOOLEAN BY DEF WorkerFails
  <2> QED BY <1>1, <2>1, <2>2 DEF IInv, TypeOK, options
<1>6. ChunksInv'
  <2>1. ChunksInv BY <1>1 DEF IInv, PoolInv
  <2> QED BY <1>1, <1>4, <2>1 DEF ChunksInv
<1>7. script # "clean" => StagesInv'
  BY <1>1, <1>3, EarlierStagesKept DEF StagesInv
<1>8. script' \in Scripts /\ (script = "clean" => stage = 1)
  BY <1>1, PoolFacts DEF options, IInv, PoolInv
<1> QED
  BY <1>1, <1>5, <1>6, <1>7, <1>8
  DEF IInv, BeforeInv, ConfirmInv, PoolInv, DoneInv, options

\* A pool stage that ends with no failure has made all of its list: with no
\* chunk in work nothing else is left to account for a task.
LEMMA StageEndKeeps == ASSUME IInv, StageEnd PROVE IInv'
<1>1. /\ UNCHANGED options /\ UNCHANGED <<busy, made, declined>>
      /\ pc = "pool" /\ handed = Len(Tasks) /\ busy = {}
  BY DEF StageEnd
<1>2. script \in Scripts /\ stage \in 1 .. 3 /\ handed \in Nat /\ script' = script
  BY <1>1, PoolFacts DEF options
<1>3. script # "clean" /\ ~failed => \A n \in 1 .. stage : AllMade(n)
  <2> SUFFICES ASSUME script # "clean", ~failed, NEW n \in 1 .. stage
               PROVE  AllMade(n)
    OBVIOUS
  <2>1. StagesInv BY <1>1 DEF IInv, PoolInv
  <2>2. CASE n \in 1 .. (stage - 1) BY <2>1, <2>2 DEF StagesInv
  <2>3. CASE n = stage BY <1>1, <2>1, <2>3 DEF StagesInv, AllMade, Tasks
  <2> QED BY <1>2, <2>2, <2>3
<1>4. \A n \in 1 .. stage : AllMade(n) => AllMade(n)'
  BY <1>1, TasksKept DEF AllMade
<1>5. CASE End("error")
  <2>1. TypeOK' BY <1>1, <1>5 DEF IInv, TypeOK, End, options
  <2> QED BY <2>1, <1>5 DEF IInv, End, BeforeInv, ConfirmInv, PoolInv, DoneInv
<1>6. CASE ~failed /\ stage < StagesOf(script) /\ NextStage
  <2>1. /\ stage' = stage + 1 /\ handed' = 0 /\ failed' = FALSE
        /\ pc' = "pool" /\ outcome' = outcome
    BY <1>6 DEF NextStage
  <2>2. stage' \in 2 .. StagesOf(script) /\ stage' \in 1 .. 3 /\ script # "clean"
    BY <1>2, <1>6, <2>1 DEF StagesOf, IInv, PoolInv
  <2>3. TypeOK'
    <3>1. failed' \in BOOLEAN BY <2>1
    <3> QED BY <1>1, <2>1, <2>2, <3>1 DEF IInv, TypeOK, options
  <2>4. \A n \in 1 .. stage : AllMade(n)' BY <1>3, <1>4, <1>6, <2>2
  <2>5. (stage - 1)' = stage BY <1>2, <2>1
  <2>6. StagesInv'
    BY <1>2, <2>1, <2>2, <2>4, <2>5 DEF StagesInv, StagesOf
  <2>7. ChunksInv'
    <3>1. \A n \in 1 .. 3 : Len(TasksOf(script, n)) \in Nat
      BY <1>2, TasksTyped, LenInNat DEF IInv
    <3>2. Tasks' = TasksOf(script, stage + 1)
      BY <1>1, <2>1 DEF Tasks, TasksOf, options
    <3>3. Len(Tasks)' \in Nat BY <2>1, <2>2, <3>1, <3>2
    <3> QED BY <1>1, <2>1, <3>3 DEF ChunksInv
  <2> QED
    BY <1>1, <1>2, <2>1, <2>2, <2>3, <2>6, <2>7
    DEF IInv, BeforeInv, ConfirmInv, PoolInv, DoneInv
<1>7. CASE ~failed /\ ~(stage < StagesOf(script)) /\ End("success")
  <2>1. TypeOK' BY <1>1, <1>7 DEF IInv, TypeOK, End, options
  <2>2. ASSUME script # "clean" PROVE \A n \in 1 .. StagesOf(script) : AllMade(n)'
    <3>1. stage = StagesOf(script)
      BY <1>1, <1>7, <2>2 DEF IInv, PoolInv, StagesInv, StagesOf
    <3> QED BY <1>3, <1>4, <1>7, <2>2, <3>1
  <2>3. StagesOf(script)' = StagesOf(script) BY <1>2 DEF StagesOf
  <2> QED
    BY <1>2, <1>7, <2>1, <2>2, <2>3
    DEF IInv, End, BeforeInv, ConfirmInv, PoolInv, DoneInv
<1> QED BY <1>5, <1>6, <1>7 DEF StageEnd
-----------------------------------------------------------------------------
\* The inductive invariant holds in every reachable state.
THEOREM Invariance == Spec => []IInv
<1>1. Init => IInv BY InitEstablishes
<1>2. IInv /\ [Next]_vars => IInv'
  <2> SUFFICES ASSUME IInv, [Next]_vars PROVE IInv' OBVIOUS
  <2>1. CASE Invoke BY <2>1, InvokeKeeps
  <2>2. CASE \E yes \in BOOLEAN : Answer(yes) BY <2>2, AnswerKeeps
  <2>3. CASE PreInstrument BY <2>3, PreInstrumentKeeps
  <2>4. CASE PreInstrumented BY <2>4, PreInstrumentedKeeps
  <2>5. CASE Take BY <2>5, TakeKeeps
  <2>6. CASE \E b \in busy : WorkerDone(b) \/ WorkerFails(b)
    BY <2>6, WorkerDoneKeeps, WorkerFailsKeeps
  <2>7. CASE StageEnd BY <2>7, StageEndKeeps
  <2>8. CASE UNCHANGED vars
    BY <2>8 DEF vars, IInv, TypeOK, BeforeInv, ConfirmInv, PoolInv, ChunksInv,
                StagesInv, DoneInv, AllMade, Tasks, TasksOf, StagesOf
  <2> QED
    BY <2>1, <2>2, <2>3, <2>4, <2>5, <2>6, <2>7, <2>8 DEF Next, Work
<1> QED BY <1>1, <1>2, PTL DEF Spec

\* The build scripts keep every variable in its type.
THEOREM Typing == Spec => []TypeOK
<1>1. IInv => TypeOK BY DEF IInv
<1> QED BY <1>1, Invariance, PTL

\* In a pool stage a make has nothing to build but its own target: what the
\* stage's makes share exists already.
LEMMA OnlyItsOwnTarget ==
  ASSUME IInv, Building, NEW b \in busy
  PROVE  Missing(Tasks[b.at]) \subseteq {Tasks[b.at]}
<1> DEFINE t == Tasks[b.at]
<1>1. /\ script \in {"designs", "cellstats"} /\ stage \in 2 .. StagesOf(script)
      /\ \A n \in 1 .. (stage - 1) : AllMade(n)
  BY DEF IInv, PoolInv, StagesInv, Building, Scripts
<1>2. b.at \in 1 .. Len(Tasks) /\ t \in Targets
  BY PoolFacts DEF IInv, PoolInv, ChunksInv, Building
<1>3. excluded \in SUBSET Designs /\ traces \in SUBSET Traces BY DEF IInv, TypeOK
<1>4. Before(t.design) \in made
  <2>1. t.design \in Designs \ excluded
    <3>1. \/ Tasks = Instrumentations(excluded)
          \/ Tasks = Syntheses(excluded, traces)
          \/ Tasks = Statistics(excluded)
      BY <1>1 DEF Tasks, TasksOf, StagesOf
    <3>2. \A i \in 1 .. Len(Tasks) : Tasks[i].design \notin excluded
      <4>1. /\ \A i \in 1 .. Len(Instrumentations(excluded)) :
                 Instrumentations(excluded)[i].design \notin excluded
            /\ \A i \in 1 .. Len(Syntheses(excluded, traces)) :
                 Syntheses(excluded, traces)[i].design \notin excluded
            /\ \A i \in 1 .. Len(Statistics(excluded)) :
                 Statistics(excluded)[i].design \notin excluded
        BY <1>3, ListsAssumption DEF Lists
      <4> QED BY <3>1, <4>1
    <3>3. t.design \notin excluded
      BY <1>2, <3>2
    <3> QED BY <1>2, <3>3 DEF Targets
  <2>2. PICK i \in 1 .. Len(PreInstrumentations(excluded)) :
          PreInstrumentations(excluded)[i] = Before(t.design)
    BY <1>3, <2>1, ListsAssumption
  <2>3. AllMade(1) BY <1>1 DEF StagesOf
  <2>4. TasksOf(script, 1) = PreInstrumentations(excluded) BY <1>1 DEF TasksOf
  <2> QED BY <2>2, <2>3, <2>4 DEF AllMade
<1>5. t.kind \in Traces => Instrumented(t) \in made
  <2> SUFFICES ASSUME t.kind \in Traces PROVE Instrumented(t) \in made OBVIOUS
  <2>1. script = "designs" /\ stage = 3
    <3>1. t.kind \notin {"sv", "stats"} BY ConstantsAssumption
    <3>2. \/ script = "designs" /\ stage = 2 /\ Tasks = Instrumentations(excluded)
          \/ script = "cellstats" /\ stage = 2 /\ Tasks = Statistics(excluded)
          \/ script = "designs" /\ stage = 3
      BY <1>1 DEF Tasks, TasksOf, StagesOf
    <3>3. /\ Lists(Instrumentations(excluded), {"sv"}, excluded)
          /\ Lists(Statistics(excluded), {"stats"}, excluded)
      BY <1>3, ListsAssumption
    <3>4. Tasks = Instrumentations(excluded) => t.kind \in {"sv"}
      BY <1>2, <3>3 DEF Lists
    <3>5. Tasks = Statistics(excluded) => t.kind \in {"stats"}
      BY <1>2, <3>3 DEF Lists
    <3> QED BY <3>1, <3>2, <3>4, <3>5
  <2>2. Tasks = Syntheses(excluded, traces) BY <2>1 DEF Tasks, TasksOf
  <2>3. PICK j \in 1 .. Len(Instrumentations(excluded)) :
          Instrumentations(excluded)[j] = Instrumented(t)
    BY <1>2, <1>3, <2>2, ListsAssumption
  <2>4. AllMade(2) BY <1>1, <2>1
  <2>5. TasksOf(script, 2) = Instrumentations(excluded) BY <2>1 DEF TasksOf
  <2> QED BY <2>3, <2>4, <2>5 DEF AllMade
<1> HIDE DEF t
<1>6. Missing(t) \subseteq {t} BY <1>4, <1>5 DEF Missing, Needs
<1> QED BY <1>6 DEF t

\* Makes that run at the same time never build the same file.
THEOREM NoSharedMake == Spec => []MakesDisjoint
<1>1. IInv => MakesDisjoint
  <2> SUFFICES ASSUME IInv, Building, NEW b \in busy, NEW c \in busy, b # c
               PROVE  Missing(Tasks[b.at]) \cap Missing(Tasks[c.at]) = {}
    BY DEF MakesDisjoint
  <2>1. /\ b.at \in 1 .. Len(Tasks) /\ c.at \in 1 .. Len(Tasks)
        /\ b.at # c.at /\ script \in Scripts /\ stage \in 1 .. 3
    BY PoolFacts DEF Building, IInv, PoolInv, ChunksInv
  <2>2. Tasks[b.at] # Tasks[c.at] BY <2>1, TasksTyped DEF IInv, Tasks
  <2> QED BY <2>2, OnlyItsOwnTarget
<1> QED BY <1>1, Invariance, PTL

\* A run that ends with "Success!" leaves everything it was asked for.
THEOREM Success == Spec => []SuccessMeansBuilt
<1>1. IInv => SuccessMeansBuilt BY DEF IInv, DoneInv, SuccessMeansBuilt, AllMade
<1> QED BY <1>1, Invariance, PTL
=============================================================================
