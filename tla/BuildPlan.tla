----------------------------- MODULE BuildPlan -----------------------------
(***************************************************************************)
(* The task lists the scripts of design-processing prepare before they     *)
(* start a single make.  A task is the target its make is asked for.       *)
(***************************************************************************)
EXTENDS Sequences, SequencesExt

CONSTANTS
  DesignNames,   \* the keys of design_repos.json, in the order of the file
  GliftDesigns,  \* the designs make_all_designs instruments with glift
  Methods        \* vanilla, passthrough and cellift, in this order

TraceTypes == <<"notrace", "trace", "trace_fst">>

Target(d, m, k) == [design |-> d, method |-> m, kind |-> k]

Names(excluded) == SelectSeq(DesignNames, LAMBDA d : d \notin excluded)

MethodsOf(d) == Methods \o IF d \in GliftDesigns THEN <<"glift">> ELSE <<>>

\* One list of targets per member of s, joined in order.
ConcatMap(Op(_), s) == FlattenSeq([i \in DOMAIN s |-> Op(s[i])])
MapSeq(Op(_), s) == [i \in DOMAIN s |-> Op(s[i])]

\* make before_instrumentation, design after design.
PreInstrumentationTasks(excluded) ==
  MapSeq(LAMBDA d : Target(d, "none", "before"), Names(excluded))

\* design_instrumentation_pairs.
InstrumentationPairs(excluded) ==
  ConcatMap(LAMBDA d : MapSeq(LAMBDA m : Target(d, m, "sv"), MethodsOf(d)),
            Names(excluded))

\* design_instrumentation_extended_pairs: no trace_fst binary for glift.
ExtendedOf(d, traces) ==
  ConcatMap(
    LAMBDA t : MapSeq(LAMBDA m : Target(d, m, t),
                      SelectSeq(MethodsOf(d),
                                LAMBDA m : t = "trace_fst" => m # "glift")),
    SelectSeq(TraceTypes, LAMBDA t : t \in traces))

ExtendedPairs(excluded, traces) ==
  ConcatMap(LAMBDA d : ExtendedOf(d, traces), Names(excluded))

\* The pairs of make_all_design_cellstats: glift for every design.
StatisticsPairs(excluded) ==
  ConcatMap(
    LAMBDA d : MapSeq(LAMBDA m : Target(d, m, "stats"), Methods \o <<"glift">>),
    Names(excluded))

\* clean_all_designs cleans them all.
CleaningTasks == PreInstrumentationTasks({})
=============================================================================
