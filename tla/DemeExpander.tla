----------------------------- MODULE DemeExpander -----------------------------
(***************************************************************************)
(* MOSES deme expansion (deme_expander.cc) under the loop that drives it:  *)
(* create_demes on an exemplar, optimize_demes when that succeeded, then   *)
(* free_demes, once per expansion.                                         *)
(*                                                                         *)
(* Data is abstracted to features: an exemplar is the set of input columns *)
(* (arguments) it uses, a representation the exemplar it decorates and the *)
(* arguments it was told to ignore, a deme its ID and its representation.  *)
(* What the feature selector returns and whether knob building leaves a   *)
(* representation empty are chosen freely: both depend on data and on the *)
(* reduct engine, which are not modelled.                                  *)
(***************************************************************************)
EXTENDS Naturals, Sequences, FiniteSets

LOCAL INSTANCE SequencesExt

CONSTANTS
    Arity,          \* festor._ctable.get_arity(): number of input columns
    XmplrFeatures,  \* the arguments the exemplar uses
    UserIgnore,     \* the arguments the user asked to ignore (_params.ignore_ops)
    NDemes,         \* fstor->params.n_demes
    MaxExpansions,  \* how many expansions the driving loop runs
    MaxEvals        \* the largest max_evals the loop hands optimize_demes

Features == 0..(Arity - 1)

VARIABLES
    params,           \* [fstor: is a feature selector set, prune: prune_xmplr]
    ignore_idxs_seq,  \* _ignore_idxs_seq
    reps,             \* _reps
    demes,            \* _demes
    scorer_ignore,    \* the arguments _cscorer currently ignores
    scored_with,      \* history: what the scorer ignored while optimising deme i
    phase,            \* "idle", "created", "failed" or "optimized"
    n_expansions,     \* expansions begun
    granted,          \* the max_evals of the last optimize_demes call
    actl_evals        \* what the last optimize_demes call returned

vars == <<params, ignore_idxs_seq, reps, demes, scorer_ignore, scored_with,
          phase, n_expansions, granted, actl_evals>>

Init ==
    /\ params \in [fstor : BOOLEAN, prune : BOOLEAN]
    /\ ignore_idxs_seq = <<>>
    /\ reps = <<>>
    /\ demes = <<>>
    /\ scorer_ignore = UserIgnore
    /\ scored_with = <<>>
    /\ phase = "idle"
    /\ n_expansions = 0
    /\ granted = 0
    /\ actl_evals = <<>>

\* How many demes are spawned: one per feature set when n_demes > 1.
NumDemes == IF params.fstor /\ NDemes > 1 THEN NDemes ELSE 1

\* prune_xmplr: drop the literals of non-selected features.  If nothing is
\* left a seed exemplar of the output type, which uses no argument, is used.
PruneXmplr(xmplr, selected) == xmplr \cap selected

\* Mutant of IgnoreIdxs: the loop runs to i <= arity.
IgnoreIdxsPastEnd(selected) == {i \in 0..Arity : i \notin selected}

\* The complement loop of create_demes: columns 0 .. arity-1 not selected.
IgnoreIdxs(selected) == {i \in 0..(Arity - 1) : i \notin selected}

\* Mutant of SelectedFeats: the exemplar's features are not inserted.
SelectedFeatsNoInsert(feats) == feats

\* The features a deme is built from: the selected set, to which the
\* exemplar's own features are added unless the exemplar is pruned.
SelectedFeats(feats) ==
    IF params.prune THEN feats ELSE feats \cup XmplrFeatures

\* The exemplar a deme's representation decorates.
DemeXmplr(feats) ==
    IF params.prune THEN PruneXmplr(XmplrFeatures, feats) ELSE XmplrFeatures

\* What create_demes reports: false when every representation was popped.
CreateResult(reps2) == IF reps2 = <<>> THEN "failed" ELSE "created"

(***************************************************************************)
(* create_demes(exemplar, n_expansions).  pop is the population of feature *)
(* sets the selector returns (one per deme ID, as log_selected_feature_sets *)
(* asserts); empty[k] says knob building left the k-th representation      *)
(* without fields, in which case it is popped.  Demes are then created     *)
(* for the surviving representations with demeIDs[i] for the i-th one.    *)
(***************************************************************************)
CreateDemes(pop, empty) ==
    LET K        == NumDemes
        ignore   == [k \in 1..K |-> IgnoreIdxs(SelectedFeats(pop[k]))]
        built    == IF params.fstor
                    THEN [k \in 1..K |-> [xmplr |-> DemeXmplr(pop[k]), ignore |-> ignore[k],
                                          src |-> k]]
                    ELSE <<[xmplr |-> XmplrFeatures, ignore |-> UserIgnore,
                            src |-> 1]>>
        kept     == SelectSeq([k \in DOMAIN built |-> IF empty[k] THEN <<>>
                                                     ELSE <<built[k]>>],
                              LAMBDA s : s # <<>>)
        reps2    == [i \in DOMAIN kept |-> kept[i][1]]
    IN
    /\ phase = "idle"
    /\ n_expansions < MaxExpansions
    /\ n_expansions' = n_expansions + 1
    /\ ignore_idxs_seq' = IF params.fstor THEN ignore ELSE <<>>
    /\ reps' = reps2
    /\ demes' = [i \in DOMAIN reps2 |-> [id |-> i, rep |-> i]]
    /\ phase' = CreateResult(reps2)
    /\ UNCHANGED <<params, scorer_ignore, scored_with, granted, actl_evals>>

\* Mutant of MaxEvalsPerDeme: the budget is rounded up.
MaxEvalsPerDemeCeil(max_evals, n) == (max_evals + n - 1) \div n

\* int max_evals_per_deme = max_evals / _demes.size(), which truncates.
MaxEvalsPerDeme(max_evals, n) == max_evals \div n

(***************************************************************************)
(* optimize_demes(max_evals): deme i is optimised with the scorer set to   *)
(* ignore _ignore_idxs_seq[i] (with a feature selector) and the per-deme   *)
(* budget; _optimize (not in this code) returns how many evaluations it    *)
(* made, at most the budget it was given.  Afterwards the scorer is reset  *)
(* to ignore nothing.                                                      *)
(***************************************************************************)
OptimizeDemes(max_evals) ==
    LET budget == MaxEvalsPerDeme(max_evals, Len(demes)) IN
    /\ phase = "created"
    /\ granted' = max_evals
    /\ actl_evals' \in [DOMAIN demes -> 0..budget]
    /\ scored_with' = [i \in DOMAIN demes |->
                          IF params.fstor THEN ignore_idxs_seq[i]
                          ELSE scorer_ignore]
    /\ scorer_ignore' = IF params.fstor THEN {} ELSE scorer_ignore
    /\ phase' = "optimized"
    /\ UNCHANGED <<params, ignore_idxs_seq, reps, demes, n_expansions>>

\* free_demes, called by the loop after every expansion.
FreeDemes ==
    /\ phase \in {"failed", "optimized"}
    /\ ignore_idxs_seq' = <<>>
    /\ demes' = <<>>
    /\ reps' = <<>>
    /\ phase' = "idle"
    /\ UNCHANGED <<params, scorer_ignore, scored_with, n_expansions, granted,
                   actl_evals>>

Next ==
    \/ \E pop \in [1..NumDemes -> SUBSET Features],
          empty \in [1..NumDemes -> BOOLEAN] : CreateDemes(pop, empty)
    \/ \E max_evals \in 0..MaxEvals : OptimizeDemes(max_evals)
    \/ FreeDemes

Spec == Init /\ [][Next]_vars

-----------------------------------------------------------------------------

TypeOK ==
    /\ params \in [fstor : BOOLEAN, prune : BOOLEAN]
    /\ ignore_idxs_seq \in Seq(SUBSET Features)
    /\ \A i \in DOMAIN reps : /\ reps[i].xmplr \subseteq Features
                              /\ reps[i].ignore \subseteq Features
    /\ Len(demes) = Len(reps)
    /\ scorer_ignore \subseteq Features
    /\ phase \in {"idle", "created", "failed", "optimized"}
    /\ n_expansions \in 0..MaxExpansions
    /\ granted \in 0..MaxEvals
    /\ actl_evals \in Seq(0..MaxEvals)

\* The representation a deme is built on never ignores an argument its own
\* exemplar uses: create_demes either prunes those literals from the
\* exemplar or adds the exemplar's features to the selected set.
ExemplarFeaturesConsidered ==
    \A i \in DOMAIN reps : reps[i].xmplr \cap reps[i].ignore = {}

\* Each deme is scored ignoring exactly the arguments its representation was
\* built without: optimize_demes sets _cscorer.ignore_idxs(_ignore_idxs_seq[i])
\* for deme i, and create_demes built the i-th representation from the i-th
\* feature set.
DemeScoredWithItsFeatures ==
    phase = "optimized" =>
        \A i \in DOMAIN demes : scored_with[i] = reps[demes[i].rep].ignore

\* The demes of an expansion together never make more evaluations than the
\* loop granted optimize_demes: each gets max_evals / _demes.size(), and
\* _optimize stays within what it is given.
BudgetWithinMaxEvals ==
    phase = "optimized" => FoldLeft(LAMBDA a, b : a + b, 0, actl_evals) <= granted
=============================================================================
