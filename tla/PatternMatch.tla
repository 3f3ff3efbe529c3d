----------------------------- MODULE PatternMatch -----------------------------
(***************************************************************************)
(* The top-level calls of PatternMatch.cc and the Implicator callbacks,    *)
(* run against a store that persists from call to call.                    *)
(*                                                                         *)
(* A call validates its handle (PatternDecls) and either throws or starts  *)
(* a search.  The search is one call stack: the engine visits its          *)
(* structural candidates one at a time, in any order; a candidate the      *)
(* acceptance callbacks reject is dropped, an accepted one is handed to    *)
(* the Implicator's grounding(), which instantiates the implicand into the *)
(* store and appends it to result_list.  A true return stops the search.   *)
(* When the engine is done the call wraps result_list in a ListLink.       *)
(***************************************************************************)
EXTENDS PatternDecls, MatchEngine

CONSTANTS
    Queries,      \* handles passed to bindlink() and the imply() variants
    MatchInputs,  \* <<hvarbles, hclauses, hnegates>> triples passed to match()
    InitAtoms,    \* the store before the first call, closed under Subterms
    InitTrue,     \* the atoms of InitAtoms whose truth value is (1, certain)
    MaxCalls      \* how many top-level calls the caller makes

VARIABLES
    atoms,        \* the AtomSpace: every atom it holds
    truth,        \* the atoms whose truth value is (1, certain)
    pc,           \* "Idle", "Searching", "Done", "Error" or "Aborted"
    entry,        \* the top-level function of the current or last call
    query,        \* its argument
    cb,           \* the callback: "Default", "Single", "Crisp" or "Record"
    input,        \* the search input (PatternDecls)
    pending,      \* structural candidates the engine has not visited yet
    result_list,  \* Implicator::result_list
    stop,         \* the last value grounding() returned
    answer,       \* the ListLink the call returned, or UNDEFINED
    calls,        \* number of top-level calls made
    snapshot      \* history: the store when the current call began

vars == <<atoms, truth, pc, entry, query, cb, input, pending, result_list,
          stop, answer, calls, snapshot>>

Init ==
    /\ atoms = InitAtoms
    /\ truth = InitTrue
    /\ pc = "Idle"
    /\ entry = "none"
    /\ query = UNDEFINED
    /\ cb = "Record"
    /\ input = NoSearch("none")
    /\ pending = {}
    /\ result_list = <<>>
    /\ stop = FALSE
    /\ answer = UNDEFINED
    /\ calls = 0
    /\ snapshot = [atoms |-> InitAtoms, truth |-> InitTrue]

\* Where an exception thrown by validation ends up: an InvalidParamException
\* reaches the caller; any other exception leaving a function declared
\* "throw (InvalidParamException)" calls std::unexpected, which terminates
\* the process, so no further call is made.
Thrown(kind) == IF kind = "error" THEN "Error" ELSE "Aborted"

(***************************************************************************)
(* A top-level call: construct the Implicator k, validate q, start the     *)
(* search or let the exception through.  Nothing is added to the store     *)
(* before the search.                                                      *)
(***************************************************************************)
Begin(e, k, q) ==
    LET in == CallInput(e, q) IN
    /\ pc \in {"Idle", "Done", "Error"}
    /\ calls < MaxCalls
    /\ calls' = calls + 1
    /\ entry' = e
    /\ query' = q
    /\ cb' = k
    /\ result_list' = <<>>
    /\ stop' = FALSE
    /\ answer' = UNDEFINED
    /\ snapshot' = [atoms |-> atoms, truth |-> truth]
    /\ UNCHANGED <<atoms, truth>>
    /\ \/ /\ in.kind = "search"
          /\ pc' = "Searching"
          /\ input' = in
          /\ pending' = Candidates(in, atoms)
       \/ /\ in.kind \in {"error", "terminate"}
          /\ pc' = Thrown(in.kind)
          /\ input' = in
          /\ pending' = {}
       \/ /\ in.kind = "return"
          /\ pc' = "Done"
          /\ input' = in
          /\ pending' = {}

Bindlink(q)           == Begin("bindlink", Callback("bindlink"), q)
SingleBindlink(q)     == Begin("single_bindlink", Callback("single_bindlink"), q)
CrispLogicBindlink(q) == Begin("crisp_logic_bindlink",
                               Callback("crisp_logic_bindlink"), q)
Imply(q)              == Begin("imply", Callback("imply"), q)
CrispLogicImply(q)    == Begin("crisp_logic_imply", Callback("crisp_logic_imply"), q)
Match(m)              == Begin("match", Callback("match"), m)

(***************************************************************************)
(* The engine reaches candidate g and the acceptance callbacks reject it.  *)
(***************************************************************************)
EngineReject(g) ==
    /\ pc = "Searching"
    /\ ~stop
    /\ g \in pending
    /\ ~Accepts(cb, input, g, atoms, truth)
    /\ pending' = pending \ {g}
    /\ UNCHANGED <<atoms, truth, pc, entry, query, cb, input, result_list,
                   stop, answer, calls, snapshot>>

\* The instantiated implicand, added to the store with its outgoing sets.
Instance(g)   == Instantiate(input.implicand, g)
AddAtom(s, h) == IF h # UNDEFINED THEN s \cup Subterms(h) ELSE s

\* Mutant of ImplicatorGrounding: the Handle::UNDEFINED test is dropped.
ImplicatorGroundingUnchecked(g) ==
    LET h == Instance(g) IN
    /\ result_list' = Append(result_list, h)
    /\ atoms' = AddAtom(atoms, h)
    /\ stop' = FALSE
    /\ UNCHANGED truth

\* Mutant of SingleGrounding: it returns false like the default one.
SingleGroundingContinues(g) ==
    LET h == Instance(g) IN
    /\ result_list' = IF h # UNDEFINED THEN Append(result_list, h)
                      ELSE result_list
    /\ atoms' = AddAtom(atoms, h)
    /\ stop' = FALSE
    /\ UNCHANGED truth

\* Implicator::grounding (the DefaultImplicator's).
ImplicatorGrounding(g) ==
    LET h == Instance(g) IN
    /\ result_list' = IF h # UNDEFINED THEN Append(result_list, h)
                      ELSE result_list
    /\ atoms' = AddAtom(atoms, h)
    /\ stop' = FALSE
    /\ UNCHANGED truth

\* CrispImplicator::grounding: as above, and the instance becomes true.
CrispGrounding(g) ==
    LET h == Instance(g) IN
    /\ result_list' = IF h # UNDEFINED THEN Append(result_list, h)
                      ELSE result_list
    /\ atoms' = AddAtom(atoms, h)
    /\ truth' = IF h # UNDEFINED THEN truth \cup {h} ELSE truth
    /\ stop' = FALSE

\* SingleImplicator::grounding: as the default one, but always stops.
SingleGrounding(g) ==
    LET h == Instance(g) IN
    /\ result_list' = IF h # UNDEFINED THEN Append(result_list, h)
                      ELSE result_list
    /\ atoms' = AddAtom(atoms, h)
    /\ stop' = TRUE
    /\ UNCHANGED truth

RecordGrounding(g) ==
    /\ stop' = FALSE
    /\ UNCHANGED <<atoms, truth, result_list>>

(***************************************************************************)
(* The engine reaches candidate g, it is accepted and grounding() runs.    *)
(***************************************************************************)
Grounding(g) ==
    /\ pc = "Searching"
    /\ ~stop
    /\ g \in pending
    /\ Accepts(cb, input, g, atoms, truth)
    /\ pending' = pending \ {g}
    /\ CASE cb = "Default" -> ImplicatorGrounding(g)
         [] cb = "Crisp"   -> CrispGrounding(g)
         [] cb = "Single"  -> SingleGrounding(g)
         [] cb = "Record"  -> RecordGrounding(g)
    /\ UNCHANGED <<pc, entry, query, cb, input, answer, calls, snapshot>>

(***************************************************************************)
(* The engine has visited every candidate or was told to stop: do_match    *)
(* returns, and every entry point but match() turns result_list into a     *)
(* ListLink with _atom_space->addLink(LIST_LINK, impl.result_list).        *)
(***************************************************************************)
Finish ==
    /\ pc = "Searching"
    /\ stop \/ pending = {}
    /\ pc' = "Done"
    /\ \/ /\ entry # "match"
          /\ answer' = Link("ListLink", result_list)
          /\ atoms' = atoms \cup {answer'}
       \/ /\ entry = "match"
          /\ UNCHANGED <<answer, atoms>>
    /\ UNCHANGED <<truth, entry, query, cb, input, pending, result_list, stop,
                   calls, snapshot>>

Call ==
    \/ \E q \in Queries :
          Bindlink(q) \/ SingleBindlink(q) \/ CrispLogicBindlink(q)
          \/ Imply(q) \/ CrispLogicImply(q)
    \/ \E m \in MatchInputs : Match(m)

EngineStep ==
    \/ \E g \in pending : EngineReject(g) \/ Grounding(g)
    \/ Finish

Next == Call \/ EngineStep

Spec == Init /\ [][Next]_vars

-----------------------------------------------------------------------------

TypeOK ==
    /\ truth \subseteq atoms
    /\ pc \in {"Idle", "Searching", "Done", "Error", "Aborted"}
    /\ entry \in Entries \cup {"none"}
    /\ cb \in {"Default", "Single", "Crisp", "Record"}
    /\ input.kind \in {"none", "search", "error", "terminate", "return"}
    /\ result_list \in Seq(atoms)
    /\ stop \in BOOLEAN
    /\ answer \in atoms \cup {UNDEFINED}
    /\ calls \in 0..MaxCalls

\* match() either searches or raises: spec section 6 says the low-level
\* match() raises a StructuralError on a shape mismatch, and that every call
\* returns a result or raises.  PatternMatch::match returns early, without
\* an exception, when its variable or clause argument is not a link.
MatchValidates ==
    entry = "match" /\ pc \in {"Searching", "Done"} =>
        /\ IsLink(query[1]) /\ query[1].type = "ListLink"
        /\ IsLink(query[2]) /\ query[2].type = "AndLink"

\* A BindLink search grounds only the variables the BindLink declares
\* (spec 4.3: do_bindlink resolves the declarations; inferring variables from
\* the predicate is the legacy path of imply()).  do_imply infers them
\* whenever the set it is handed is empty.
DeclaredVariablesOnly ==
    pc = "Searching" /\ entry \in {"bindlink", "single_bindlink",
                                   "crisp_logic_bindlink"}
        => input.varset \subseteq ParseDecls(query.out[1]).vset

\* Every call either returns or raises a StructuralError to its caller (spec
\* section 6: "every call either returns an aggregate (possibly empty) or
\* raises"; section 7: malformed input is always surfaced synchronously).
\* Validation in do_imply calls getOutgoingAtom(0) on each NotLink.
CallsRaiseOrReturn == pc # "Aborted"

\* The TypedVariableLinks a BindLink's declaration argument holds.
TypedDecls(q) ==
    LET d == q.out[1]
    IN  CASE d.type = "TypedVariableLink" -> {d}
          [] d.type = "ListLink" ->
                {h \in Elems(d.out) : h.type = "TypedVariableLink"}
          [] OTHER -> {}

\* A search started by a BindLink only reaches groundings that give every
\* variable a type each of its TypedVariableLinks allows (spec section 3:
\* a grounding binds every declared variable to a term respecting its type
\* constraint; section 8: a variable restricted to ConceptNode never binds
\* to a NumberNode).  The types travel from get_vartype through the
\* declaration loop, typemap.insert and do_imply to the engine.
DeclaredTypesRespected ==
    pc = "Searching" /\ entry \in {"bindlink", "single_bindlink",
                                   "crisp_logic_bindlink"} =>
        \A g \in pending, d \in TypedDecls(query) :
            d.out[1] \in DOMAIN g => g[d.out[1]].type \in GetVartype(d).types
=============================================================================
