--------------------------- MODULE BindlinkContract ---------------------------
(***************************************************************************)
(* What a top-level call of the query code promises (spec sections 4.4,    *)
(* 4.6 and 6), with the search as one step: a malformed handle raises and  *)
(* leaves the store alone; otherwise the call returns a ListLink holding,  *)
(* in some order, the instantiated implicand of every grounding the        *)
(* callbacks accept in the store as it was when the call began (at most    *)
(* the first of them for single_bindlink), groundings whose instantiation  *)
(* fails contributing nothing; crisp calls make every result true.         *)
(***************************************************************************)
EXTENDS PatternDecls, MatchEngine, FiniteSets

LOCAL INSTANCE Functions

CONSTANTS Queries, MatchInputs, InitAtoms, InitTrue, MaxCalls

VARIABLES atoms, truth, pc, entry, query, answer, calls

vars == <<atoms, truth, pc, entry, query, answer, calls>>

Init ==
    /\ atoms = InitAtoms
    /\ truth = InitTrue
    /\ pc = "Idle"
    /\ entry = "none"
    /\ query = UNDEFINED
    /\ answer = UNDEFINED
    /\ calls = 0

\* The call is made; a search input means the call is now busy.
Call(e, q) ==
    LET in == CallInput(e, q) IN
    /\ pc \in {"Idle", "Done", "Error"}
    /\ calls < MaxCalls
    /\ calls' = calls + 1
    /\ entry' = e
    /\ query' = q
    /\ answer' = UNDEFINED
    /\ pc' = CASE in.kind = "search" -> "Busy"
               [] in.kind \in {"error", "terminate"} -> "Error"
               [] in.kind = "return" -> "Done"
    /\ UNCHANGED <<atoms, truth>>

\* The groundings a search over the current store accepts, and the results
\* a visit in the given order yields.
Accepted(in, k) == {g \in Candidates(in, atoms) : Accepts(k, in, g, atoms, truth)}

Results(in, k, order) ==
    LET visited == IF k = "Single" /\ order # <<>> THEN <<order[1]>> ELSE order
        inst    == [i \in DOMAIN visited |-> Instantiate(in.implicand, visited[i])]
    IN  SelectSeq(inst, LAMBDA h : h # UNDEFINED)

Return ==
    LET in == CallInput(entry, query)
        k  == Callback(entry)
        G  == Accepted(in, k)
    IN
    /\ pc = "Busy"
    /\ pc' = "Done"
    /\ \/ /\ entry = "match"
          /\ UNCHANGED <<atoms, truth, answer>>
       \/ /\ entry # "match"
          /\ \E order \in Bijection(1..Cardinality(G), G) :
                LET s == Results(in, k, order) IN
                /\ answer' = Link("ListLink", s)
                /\ atoms' = atoms \cup Subterms(answer')
                /\ truth' = IF k = "Crisp" THEN truth \cup Elems(s) ELSE truth
    /\ UNCHANGED <<entry, query, calls>>

Next ==
    \/ \E q \in Queries, e \in Entries \ {"match"} : Call(e, q)
    \/ \E m \in MatchInputs : Call("match", m)
    \/ Return

Spec == Init /\ [][Next]_vars
=============================================================================
