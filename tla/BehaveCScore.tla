----------------------------- MODULE BehaveCScore -----------------------------
(***************************************************************************)
(* behave_cscore (behave_cscore.cc): the composite score of a candidate,   *)
(* computed either from the candidate itself or from a behavioural score  *)
(* already obtained for it.  A candidate is abstracted to what the scorers *)
(* see of it: whether evaluating it raises EvalException, its behavioural *)
(* score (a sequence of per-sample scores) and its complexity.  The        *)
(* aggregate scorer sums the behavioural score.                            *)
(***************************************************************************)
EXTENDS Integers, Sequences

LOCAL INSTANCE SequencesExt

CONSTANTS
    Candidates,     \* [raises : BOOLEAN, bs : behavioural score, cpx : complexity]
    CpxCoef,        \* _bscorer.get_complexity_coef()
    VeryWorstScore  \* the score of worst_composite_score, below any sum

VARIABLES
    cand,       \* the candidate being scored
    by_tree,    \* <<get_cscore(tr)>> once computed, <<>> before
    by_bscore   \* <<get_cscore(get_bscore(tr))>> once computed, <<>> before

vars == <<cand, by_tree, by_bscore>>

\* composite_score(score, complexity, complexity_penalty, uniformity_penalty)
CompositeScore(res, cpx, cpen, upen) ==
    [score |-> res, complexity |-> cpx, complexity_penalty |-> cpen,
     uniformity_penalty |-> upen]

CompositeScores == [score : Int, complexity : Nat, complexity_penalty : Int,
                    uniformity_penalty : Int]

WorstCompositeScore == CompositeScore(VeryWorstScore, 0, 0, 0)

\* _ascorer: the sum of the behavioural score.
AScore(bs) == FoldLeft(LAMBDA a, b : a + b, 0, bs)

\* Mutant of GetCScoreTree: the EvalException is not caught.
GetCScoreTreeUncaught(tr) ==
    IF tr.raises THEN [score |-> "EvalException"]
    ELSE CompositeScore(AScore(tr.bs), tr.cpx, tr.cpx * CpxCoef, 0)

\* get_cscore(const combo_tree&): a failed evaluation scores worst.
GetCScoreTree(tr) ==
    IF tr.raises THEN WorstCompositeScore
    ELSE CompositeScore(AScore(tr.bs), tr.cpx, tr.cpx * CpxCoef, 0)

\* get_cscore(const behavioral_score&): complexity is not known here (the
\* #if 0 XXX FIXME block) and is left at zero.
GetCScoreBScore(bs) == CompositeScore(AScore(bs), 0, 0, 0)

Init ==
    /\ cand \in Candidates
    /\ by_tree = <<>>
    /\ by_bscore = <<>>

\* A caller scores the candidate itself.
ScoreTree ==
    /\ by_tree = <<>>
    /\ by_tree' = <<GetCScoreTree(cand)>>
    /\ UNCHANGED <<cand, by_bscore>>

\* A caller that kept the candidate's behavioural score rescores from it;
\* only a candidate whose evaluation succeeded has one.
ScoreBScore ==
    /\ by_bscore = <<>>
    /\ ~cand.raises
    /\ by_bscore' = <<GetCScoreBScore(cand.bs)>>
    /\ UNCHANGED <<cand, by_tree>>

Next == ScoreTree \/ ScoreBScore

Spec == Init /\ [][Next]_vars

-----------------------------------------------------------------------------

TypeOK ==
    /\ cand \in Candidates
    /\ by_tree \in Seq(CompositeScores)
    /\ by_bscore \in Seq(CompositeScores)

\* A candidate gets the same composite score whichever overload computes
\* it: ranking a rescored candidate against a freshly scored one compares
\* like with like (the complexity penalty included).
OverloadsAgree ==
    by_tree # <<>> /\ by_bscore # <<>> => by_tree = by_bscore
=============================================================================
