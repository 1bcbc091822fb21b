------------------------------ MODULE BuildAll ------------------------------
(***************************************************************************)
(* The scripts of design-processing that build, measure and clean all the  *)
(* designs: make_all_designs, make_all_design_cellstats and                *)
(* clean_all_designs.  A script first makes before_instrumentation for one *)
(* design after the other, then hands the tasks of each later stage to a   *)
(* multiprocessing.Pool, in chunks, and waits for all of them.             *)
(*                                                                         *)
(* The designs' Makefiles are in submodules: a make builds what is missing *)
(* of its target and of that target's prerequisites, and may fail.         *)
(*                                                                         *)
(* (Definitions named Wrong... are the slips the properties must notice.)  *)
(***************************************************************************)
EXTENDS Integers, Sequences, FiniteSets

CONSTANTS
  Designs, Methods, Traces,  \* the designs, their instrumentations, trace types
  Jobs,                      \* CELLIFT_JOBS
  MaxRuns,                   \* how often the user starts a script (bound)
  PreInstrumentations(_), Instrumentations(_), Syntheses(_, _), Statistics(_),
  Cleanings                  \* the lists of BuildPlan

VARIABLES
  script,    \* the script that runs, or ran last
  excluded,  \* --exclude-designs
  traces,    \* the trace types that are not excluded
  jobs,      \* tot_num_processes
  pc,        \* "idle", "confirm", "before" or "pool"
  stage,     \* 1, 2, 3: which worker
  handed,    \* how many tasks of the stage have been made or handed to the pool
  busy,      \* the chunks in work: the task it is at, and its last
  failed,    \* a check_call of this pool stage has raised
  runs,      \* scripts started so far
  made,      \* the targets that exist
  declined,  \* the user did not confirm the cleaning
  outcome    \* how the last run ended

vars == <<script, excluded, traces, jobs, pc, stage, handed, busy, failed,
          runs, made, declined, outcome>>
options == <<script, excluded, traces, jobs, runs>>

Scripts == {"designs", "cellstats", "clean"}
Kinds == {"before", "sv", "stats"} \cup Traces
Targets == [design : Designs, method : Methods \cup {"none"}, kind : Kinds]

Before(d) == [design |-> d, method |-> "none", kind |-> "before"]
Instrumented(t) == [t EXCEPT !.kind = "sv"]

\* What a make for t builds, t included.
Needs(t) ==
  {Before(t.design), t} \cup IF t.kind \in Traces THEN {Instrumented(t)} ELSE {}

Missing(t) == Needs(t) \ made

\* The targets make clean removes.
OfDesign(d) == {t \in made : t.design = d}

ASSUME ConstantsAssumption ==
  /\ Jobs \in Nat \ {0}
  /\ MaxRuns \in Nat
  /\ Traces \cap {"before", "sv", "stats"} = {}
  /\ "none" \notin Methods

\* s names each of its targets once, and they are those of `kinds` for every
\* design that is not excluded.
Lists(s, kinds, excl) ==
  /\ s \in Seq(Targets)
  /\ \A i, j \in 1 .. Len(s) : s[i] = s[j] => i = j
  /\ \A i \in 1 .. Len(s) : s[i].kind \in kinds /\ s[i].design \notin excl

ASSUME ListsAssumption ==
  \A excl \in SUBSET Designs, trs \in SUBSET Traces :
    /\ Lists(PreInstrumentations(excl), {"before"}, excl)
    /\ \A d \in Designs \ excl :
         \E i \in 1 .. Len(PreInstrumentations(excl)) :
           PreInstrumentations(excl)[i] = Before(d)
    /\ Lists(Instrumentations(excl), {"sv"}, excl)
    /\ Lists(Syntheses(excl, trs), trs, excl)
    /\ \A i \in 1 .. Len(Syntheses(excl, trs)) :
         \E j \in 1 .. Len(Instrumentations(excl)) :
           Instrumentations(excl)[j] = Instrumented(Syntheses(excl, trs)[i])
    /\ Lists(Statistics(excl), {"stats"}, excl)
    /\ Lists(Cleanings, {"before"}, {})
-----------------------------------------------------------------------------
\* worker_params of the stage.
TasksOf(s, n) ==
  CASE s = "clean"             -> Cleanings
    [] s # "clean" /\ n = 1    -> PreInstrumentations(excluded)
    [] s = "designs" /\ n = 2  -> Instrumentations(excluded)
    [] s = "cellstats" /\ n = 2 -> Statistics(excluded)
    [] OTHER                   -> Syntheses(excluded, traces)
Tasks == TasksOf(script, stage)

\* Pool.map and Pool.starmap cut the tasks into chunks of this size.
ChunkSize == (Len(Tasks) + 4 * jobs - 1) \div (4 * jobs)

WrongStagesOf(s) == IF s = "clean" THEN 2 ELSE 4
StagesOf(s) == CASE s = "designs" -> 3 [] s = "cellstats" -> 2 [] OTHER -> 1

Init ==
  /\ script = "none" /\ excluded = {} /\ traces = {} /\ jobs = 1 /\ runs = 0
  /\ pc = "idle" /\ stage = 0 /\ handed = 0 /\ busy = {} /\ failed = FALSE
  /\ made = {}
  /\ declined = FALSE
  /\ outcome = "none"

\* The user starts a script.  Excluding every trace type is refused.
Start(s, excl, trs, single) ==
  /\ pc = "idle" /\ runs < MaxRuns
  /\ script' = s /\ excluded' = excl /\ traces' = trs
  /\ jobs' = IF single THEN 1 ELSE Jobs
  /\ runs' = runs + 1
  /\ pc' = IF s = "clean" THEN "confirm" ELSE "before"
  /\ stage' = 1 /\ handed' = 0 /\ busy' = {} /\ failed' = FALSE
  /\ declined' = FALSE
  /\ outcome' = "none"
  /\ UNCHANGED made

Invoke ==
  \/ \E excl \in SUBSET Designs, trs \in SUBSET Traces \ {{}}, single \in BOOLEAN :
       Start("designs", excl, trs, single)
  \/ \E excl \in SUBSET Designs, single \in BOOLEAN :
       Start("cellstats", excl, {}, single)
  \/ Start("clean", {}, {}, FALSE)

\* clean_all_designs asks; it prints "Aborted." and goes on.
Answer(yes) ==
  /\ pc = "confirm"
  /\ declined' = ~yes
  /\ pc' = "pool"
  /\ UNCHANGED <<options, stage, handed, busy, failed, made, outcome>>

End(how) ==
  /\ pc' = "idle"
  /\ outcome' = how
  /\ UNCHANGED <<stage, handed, failed>>

NextStage ==
  /\ stage' = stage + 1 /\ handed' = 0 /\ failed' = FALSE
  /\ pc' = "pool"
  /\ UNCHANGED outcome

\* pre_instrumentation_worker, called in a loop: a failure raises at once.
PreInstrument ==
  /\ pc = "before" /\ handed < Len(Tasks)
  /\ \/ /\ made' = made \cup Needs(Tasks[handed + 1])
        /\ handed' = handed + 1
        /\ UNCHANGED <<pc, stage, failed, outcome>>
     \/ End("error") /\ UNCHANGED made
  /\ UNCHANGED <<options, busy, declined>>

WrongPreInstrumented ==
  /\ pc = "before"
  /\ NextStage
  /\ UNCHANGED <<options, busy, made, declined>>
PreInstrumented ==
  /\ pc = "before" /\ handed = Len(Tasks)
  /\ NextStage
  /\ UNCHANGED <<options, busy, made, declined>>

\* A free worker of the pool takes the next chunk.
WrongTake ==
  LET last == handed + ChunkSize
      end == IF last < Len(Tasks) THEN last ELSE Len(Tasks) IN
  /\ pc = "pool" /\ handed < Len(Tasks) /\ Cardinality(busy) < jobs - 1
  /\ busy' = busy \cup {[at |-> handed + 1, last |-> end]}
  /\ handed' = end
  /\ UNCHANGED <<options, pc, stage, failed, made, declined, outcome>>
Take ==
  LET last == handed + ChunkSize
      end == IF last < Len(Tasks) THEN last ELSE Len(Tasks) IN
  /\ pc = "pool" /\ handed < Len(Tasks) /\ Cardinality(busy) < jobs
  /\ busy' = busy \cup {[at |-> handed + 1, last |-> end]}
  /\ handed' = end
  /\ UNCHANGED <<options, pc, stage, failed, made, declined, outcome>>

\* The worker's make succeeds, and the worker goes on to the chunk's next task.
Advance(b) ==
  busy' = (busy \ {b}) \cup
            IF b.at < b.last THEN {[b EXCEPT !.at = @ + 1]} ELSE {}

WorkerDone(b) ==
  /\ pc = "pool"
  /\ made' = LET t == Tasks[b.at] IN
             IF script = "clean" THEN made \ OfDesign(t.design)
                                 ELSE made \cup Needs(t)
  /\ Advance(b)
  /\ UNCHANGED <<options, pc, stage, handed, failed, declined, outcome>>

\* The worker's make fails part way: the rest of its chunk is not run.
WorkerFails(b) ==
  LET t == Tasks[b.at] IN
  /\ pc = "pool"
  /\ IF script = "clean"
       THEN \E some \in SUBSET OfDesign(t.design) : made' = made \ some
       ELSE \E some \in SUBSET (Missing(t) \ {t}) : made' = made \cup some
  /\ busy' = busy \ {b}
  /\ failed' = TRUE
  /\ UNCHANGED <<options, pc, stage, handed, declined, outcome>>

\* starmap returns once every chunk has, and raises if one of them did.
WrongStageEnd ==
  /\ pc = "pool" /\ handed = Len(Tasks) /\ busy = {}
  /\ IF stage < StagesOf(script) THEN NextStage ELSE End("success")
  /\ UNCHANGED <<options, busy, made, declined>>
StageEnd ==
  /\ pc = "pool" /\ handed = Len(Tasks) /\ busy = {}
  /\ CASE failed                                -> End("error")
       [] ~failed /\ stage < StagesOf(script)   -> NextStage
       [] OTHER                                 -> End("success")
  /\ UNCHANGED <<options, busy, made, declined>>

Work ==
  \/ \E yes \in BOOLEAN : Answer(yes)
  \/ PreInstrument \/ PreInstrumented
  \/ Take
  \/ \E b \in busy : WorkerDone(b) \/ WorkerFails(b)
  \/ StageEnd

Next == Invoke \/ Work

Spec == Init /\ [][Next]_vars

\* The user answers and every make ends.
FairSpec == Spec /\ WF_vars(Work)
-----------------------------------------------------------------------------
\* Every variable has its type.
TypeOK ==
  /\ script \in Scripts \cup {"none"}
  /\ excluded \subseteq Designs /\ traces \subseteq Traces
  /\ jobs \in {1, Jobs} /\ runs \in 0 .. MaxRuns
  /\ pc \in {"idle", "confirm", "before", "pool"}
  /\ stage \in 0 .. 3
  /\ handed \in Nat
  /\ busy \subseteq [at : Nat, last : Nat]
  /\ failed \in BOOLEAN /\ declined \in BOOLEAN
  /\ made \subseteq Targets
  /\ outcome \in {"none", "error", "success"}

Building == pc = "pool" /\ script # "clean"

\* Two makes that run at the same time never both build the same missing file:
\* what one stage's makes share has been built before that stage starts.
MakesDisjoint ==
  Building =>
    \A b, c \in busy :
      b # c => Missing(Tasks[b.at]) \cap Missing(Tasks[c.at]) = {}

\* "Success! All design simulation binaries are synthesized": after a run that
\* says so, every target its stages were given exists, also when earlier runs
\* failed or cleaned in between.
SuccessMeansBuilt ==
  outcome = "success" /\ script # "clean" =>
    \A n \in 1 .. StagesOf(script) :
      \A i \in 1 .. Len(TasksOf(script, n)) : TasksOf(script, n)[i] \in made

\* Every task list is worked through: a run that starts ends, whatever fails.
EveryRunEnds == pc # "idle" ~> pc = "idle"

\* "Ask confirmation before cleaning all designs." (clean_all_designs.py): a
\* cleaning the user declined removes nothing.
DeclinedCleansNothing == [][declined => made \subseteq made']_vars
=============================================================================
