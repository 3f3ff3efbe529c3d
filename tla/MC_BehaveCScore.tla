--------------------------- MODULE MC_BehaveCScore ---------------------------
(***************************************************************************)
(* Candidates with up to two samples scoring 0 or 1, complexity 0 to 3,    *)
(* and candidates whose evaluation raises.                                 *)
(***************************************************************************)
EXTENDS BehaveCScore

MCCandidates ==
    [raises : BOOLEAN, bs : UNION {[1..n -> 0..1] : n \in 0..2}, cpx : 0..3]
\* below the sum of any behavioural score of MCCandidates
MCVeryWorstScore == -1
=============================================================================
