--------------------------- MODULE MC_DemeExpander ---------------------------
(***************************************************************************)
(* Three input columns, an exemplar over column 0, the user ignoring        *)
(* column 2, two demes per expansion when a feature selector is set.       *)
(***************************************************************************)
EXTENDS DemeExpander

MCXmplrFeatures == {0}
MCUserIgnore    == {2}
=============================================================================
