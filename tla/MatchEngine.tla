----------------------------- MODULE MatchEngine -----------------------------
(***************************************************************************)
(* The contract of the external search engine (PatternMatchEngine) and of  *)
(* the acceptance callbacks the Implicators inherit (DefaultPatternMatchCB, *)
(* CrispLogicPMCB).  None of them is under src/; this is spec sections 4.4  *)
(* and 4.6 and the crisp-logic comments of PatternMatch.cc.                *)
(*                                                                         *)
(* A structural candidate grounds every declared variable of the affirmed  *)
(* clauses with an atom of the store so that each affirmed clause, so      *)
(* substituted, is an atom of the store, and respects the type            *)
(* restrictions.  Whether the engine then hands a candidate to grounding() *)
(* is decided when it reaches it, on the store as it is at that moment:    *)
(* the default callbacks reject it when a negated clause is present, the   *)
(* crisp ones when an affirmed clause is not true or a negated one is.     *)
(***************************************************************************)
EXTENDS Atoms, TLC

GroundVars(in) == in.varset \cap UNION {VarNodes(c) : c \in in.affirm}

Candidates(in, store) ==
    {g \in [GroundVars(in) -> store] :
        /\ \A c \in in.affirm : Subst(c, g) \in store
        /\ \A v \in DOMAIN g \cap DOMAIN in.typemap : g[v].type \in in.typemap[v]}

\* The atoms a negated clause matches under g, its own variables ranging
\* over the store.
NegatedMatches(in, n, g, store) ==
    {Subst(n, g @@ h) : h \in [(VarNodes(n) \cap in.varset) \ DOMAIN g -> store]}
        \cap store

\* Negation as absence.
DefaultAccepts(in, g, store) ==
    \A n \in in.negate : NegatedMatches(in, n, g, store) = {}

\* Crisp logic: affirmed clauses must be true, negated ones absent or false.
CrispAccepts(in, g, store, truth) ==
    /\ \A c \in in.affirm : Subst(c, g) \in truth
    /\ \A n \in in.negate : NegatedMatches(in, n, g, store) \cap truth = {}

Accepts(cb, in, g, store, truth) ==
    IF cb = "Crisp" THEN CrispAccepts(in, g, store, truth)
    ELSE DefaultAccepts(in, g, store)
=============================================================================
