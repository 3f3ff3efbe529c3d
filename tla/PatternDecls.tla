---------------------------- MODULE PatternDecls ----------------------------
(***************************************************************************)
(* The validation half of PatternMatch.cc: how a top-level call turns its  *)
(* handle into the input of a search, or into an InvalidParamException.   *)
(* Each entry point is a pure operator returning a search input:           *)
(*   kind      "search" (do_match runs), "error" (an exception reaches    *)
(*             the caller), "terminate" (an exception the throw           *)
(*             specification forbids) or "return" (match() gives up);     *)
(*   varset    the variables the engine grounds;                           *)
(*   typemap   the VariableTypeMap handed to set_type_restrictions;       *)
(*   affirm, negate  the classified clauses; implicand  the template.     *)
(***************************************************************************)
EXTENDS Atoms, TLC

LOCAL INSTANCE SequencesExt

SearchInput(vs, tm, aff, neg, imp) ==
    [kind |-> "search", varset |-> vs, typemap |-> tm,
     affirm |-> aff, negate |-> neg, implicand |-> imp]

NoSearch(k) ==
    [kind |-> k, varset |-> {}, typemap |-> <<>>,
     affirm |-> {}, negate |-> {}, implicand |-> UNDEFINED]

(***************************************************************************)
(* PatternMatch::get_vartype.  Every non-zero return code makes the caller *)
(* throw, so the codes collapse to ok = FALSE.  The variable itself is not *)
(* checked: any first member of a two-member TypedVariableLink is used.    *)
(***************************************************************************)
GetVartype(htypelink) ==
    LET oset    == htypelink.out
        vartype == oset[2]
        named   == IF vartype.type = "ListLink" THEN Elems(vartype.out)
                   ELSE {vartype}
        ok      == /\ Len(oset) = 2
                   /\ vartype.type \in {"VariableTypeNode", "ListLink"}
                   /\ \A h \in named : /\ h.type = "VariableTypeNode"
                                        /\ GetType(h.name) # NOTYPE
    IN  [ok |-> ok, var |-> IF ok THEN oset[1] ELSE UNDEFINED,
         types |-> IF ok THEN {GetType(h.name) : h \in named} ELSE {}]

NoDecls  == [ok |-> TRUE,  vset |-> {}, typemap |-> <<>>]
BadDecls == [ok |-> FALSE, vset |-> {}, typemap |-> <<>>]

\* Mutant of AddVartype: the variable is declared but typemap.insert is lost.
AddVartypeUntyped(acc, htypelink) ==
    LET r == GetVartype(htypelink)
    IN  IF ~r.ok THEN BadDecls
        ELSE [acc EXCEPT !.vset = @ \cup {r.var}]

\* typemap.insert(ATPair(varname, ts)) keeps an existing entry: the first
\* declaration of a variable decides its types.
AddVartype(acc, htypelink) ==
    LET r == GetVartype(htypelink)
    IN  IF ~r.ok THEN BadDecls
        ELSE [ok |-> TRUE, vset |-> acc.vset \cup {r.var},
              typemap |-> IF r.var \in DOMAIN acc.typemap THEN acc.typemap
                          ELSE acc.typemap @@ (r.var :> r.types)]

\* One member of a ListLink of declarations (the loop of do_bindlink).
DeclStep(acc, h) ==
    IF ~acc.ok THEN acc
    ELSE CASE h.type = "VariableNode"      -> [acc EXCEPT !.vset = @ \cup {h}]
           [] h.type = "TypedVariableLink" -> AddVartype(acc, h)
           [] OTHER                        -> BadDecls

\* The declaration half of do_bindlink: a bare node (of *any* node type), a
\* TypedVariableLink, or a ListLink of VariableNodes and TypedVariableLinks.
ParseDecls(hdecls) ==
    CASE IsNode(hdecls)                       -> [NoDecls EXCEPT !.vset = {hdecls}]
      [] hdecls.type = "TypedVariableLink"    -> AddVartype(NoDecls, hdecls)
      [] hdecls.type = "ListLink"             -> FoldLeft(DeclStep, NoDecls, hdecls.out)
      [] OTHER                                -> BadDecls

(***************************************************************************)
(* Clause classification in do_imply.  The members of a top-level AndLink  *)
(* are split: a NotLink contributes its first member (getOutgoingAtom(0),  *)
(* which throws on an empty NotLink), anything else is affirmed.  Any     *)
(* other predicate is the single affirmed clause.                          *)
(***************************************************************************)
Classify(hclauses) ==
    IF hclauses.type = "AndLink"
    THEN LET cset == Elems(hclauses.out)
             nots == {h \in cset : h.type = "NotLink"}
         IN  [ok |-> \A h \in nots : Len(h.out) >= 1,
              affirm |-> cset \ nots,
              negate |-> {h.out[1] : h \in {n \in nots : Len(n.out) >= 1}}]
    ELSE [ok |-> TRUE, affirm |-> {hclauses}, negate |-> {}]

(***************************************************************************)
(* PatternMatch::do_imply with the variables and type restrictions already *)
(* known (empty for the legacy imply() entry points).  An empty varset is  *)
(* replaced by every VariableNode of the predicate (FindVariables).  The   *)
(* shape checks throw InvalidParamException, which the caller gets.  An   *)
(* empty NotLink makes getOutgoingAtom(0) throw RuntimeException, which    *)
(* do_imply's "throw (InvalidParamException)" specification does not       *)
(* allow: std::unexpected runs and the process terminates ("terminate").   *)
(***************************************************************************)
DoImply(himplication, varset, typemap) ==
    LET hclauses  == himplication.out[1]
        implicand == himplication.out[2]
        cls       == Classify(hclauses)
    IN  IF \/ ~IsLink(himplication)
           \/ himplication.type # "ImplicationLink"
           \/ Len(himplication.out) # 2
           \/ ~IsLink(hclauses)
        THEN NoSearch("error")
        ELSE IF ~cls.ok THEN NoSearch("terminate")
        ELSE SearchInput(IF varset = {} THEN VarNodes(hclauses) ELSE varset,
                         typemap, cls.affirm, cls.negate, implicand)

\* PatternMatch::do_bindlink.
DoBindlink(hbindlink) ==
    LET decls == ParseDecls(hbindlink.out[1])
    IN  IF \/ ~IsLink(hbindlink)
           \/ hbindlink.type # "BindLink"
           \/ Len(hbindlink.out) # 2
           \/ ~decls.ok
        THEN NoSearch("error")
        ELSE DoImply(hbindlink.out[2], decls.vset, decls.typemap)

\* PatternMatch::match.  A varlist or clause list that is not a link makes
\* it return without searching and without an exception.
MatchInput(hvarbles, hclauses, hnegates) ==
    CASE ~IsLink(hclauses) \/ ~IsLink(hvarbles)        -> NoSearch("return")
      [] \/ hvarbles.type # "ListLink"
         \/ hclauses.type # "AndLink"
         \/ IsLink(hnegates) /\ hnegates.type # "AndLink" -> NoSearch("error")
      [] OTHER -> SearchInput(Elems(hvarbles.out), <<>>, Elems(hclauses.out),
                              IF IsLink(hnegates) THEN Elems(hnegates.out)
                              ELSE {},
                              UNDEFINED)

Entries == {"bindlink", "single_bindlink", "crisp_logic_bindlink",
            "imply", "crisp_logic_imply", "match"}

\* The input each top-level function derives from its argument.
CallInput(e, q) ==
    CASE e \in {"bindlink", "single_bindlink", "crisp_logic_bindlink"}
             -> DoBindlink(q)
      [] e \in {"imply", "crisp_logic_imply"} -> DoImply(q, {}, <<>>)
      [] e = "match" -> MatchInput(q[1], q[2], q[3])

\* The Implicator each top-level function constructs.  match() is handed its
\* callback by the caller: here one that accepts every grounding it is
\* given, keeps nothing and never stops the search.
Callback(e) ==
    CASE e \in {"bindlink", "imply"}                        -> "Default"
      [] e = "single_bindlink"                              -> "Single"
      [] e \in {"crisp_logic_bindlink", "crisp_logic_imply"} -> "Crisp"
      [] e = "match"                                        -> "Record"
=============================================================================
