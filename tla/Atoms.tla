-------------------------------- MODULE Atoms --------------------------------
(***************************************************************************)
(* Terms of the typed hypergraph (the AtomSpace) as the pattern matcher    *)
(* sees them, and the two term rewrites the query code relies on: plain    *)
(* substitution of grounded variables (how the matcher compares a clause   *)
(* with the store) and the Instantiator (how an implicand is rebuilt from  *)
(* a grounding).  The store, the class server and the Instantiator are not *)
(* under src/; they are modelled from the spec (sections 3, 4.5 and 6).    *)
(*                                                                         *)
(* An atom is a record: a Node has a name and no outgoing set, a Link has  *)
(* the empty name and an ordered outgoing set.  Identity is structural,    *)
(* which is exactly the store's deduplication of identical atoms.          *)
(***************************************************************************)
EXTENDS Naturals, Sequences, FiniteSets

NodeTypes == {"VariableNode", "VariableTypeNode", "ConceptNode",
              "PredicateNode", "NumberNode"}
LinkTypes == {"ListLink", "AndLink", "NotLink", "EvaluationLink",
              "ImplicationLink", "BindLink", "TypedVariableLink"}

Node(t, n) == [type |-> t, name |-> n, out |-> <<>>]
Link(t, s) == [type |-> t, name |-> "", out |-> s]

\* NodeCast / LinkCast succeed exactly on nodes / links.
IsNode(a) == a.type \in NodeTypes
IsLink(a) == a.type \in LinkTypes

\* Handle::UNDEFINED: no atom.  It is the Instantiator's failure sentinel and
\* the absent optional argument of match(); neither a node nor a link.
UNDEFINED == [type |-> "UNDEFINED", name |-> "", out |-> <<>>]

\* classserver().getType(name): the type a VariableTypeNode names, or NOTYPE.
NOTYPE == "NOTYPE"
GetType(name) == IF name \in NodeTypes \cup LinkTypes THEN name ELSE NOTYPE

Elems(s) == {s[i] : i \in DOMAIN s}

\* An atom and everything below it: adding a link adds its outgoing set.
RECURSIVE Subterms(_)
Subterms(a) == {a} \cup UNION {Subterms(c) : c \in Elems(a.out)}

\* FindVariables::find_vars: every VariableNode anywhere in a term.
RECURSIVE VarNodes(_)
VarNodes(a) ==
    IF a.type = "VariableNode" THEN {a}
    ELSE UNION {VarNodes(c) : c \in Elems(a.out)}

\* Replace each variable in DOMAIN g by its grounding; other atoms are kept,
\* so an undeclared VariableNode is matched literally.
RECURSIVE Subst(_, _)
Subst(a, g) ==
    IF a \in DOMAIN g THEN g[a]
    ELSE IF IsNode(a) THEN a
    ELSE Link(a.type, [i \in DOMAIN a.out |-> Subst(a.out[i], g)])

\* Instantiator::instantiate: rebuild the template bottom-up; a variable the
\* grounding does not bind makes the whole instantiation fail, and a link is
\* only built when every child was.
RECURSIVE Instantiate(_, _)
Instantiate(t, g) ==
    IF t \in DOMAIN g THEN g[t]
    ELSE IF t.type = "VariableNode" THEN UNDEFINED
    ELSE IF IsNode(t) THEN t
    ELSE LET kids == [i \in DOMAIN t.out |-> Instantiate(t.out[i], g)]
         IN  IF UNDEFINED \in Elems(kids) THEN UNDEFINED
             ELSE Link(t.type, kids)
=============================================================================
