---------------------------- MODULE MC_PatternMatch ----------------------------
(***************************************************************************)
(* A small AtomSpace built around the example of the do_imply comment      *)
(* ("pottery is made from clay"), and the calls a caller makes on it.      *)
(***************************************************************************)
EXTENDS PatternMatch

C(n)     == Node("ConceptNode", n)
Num(n)   == Node("NumberNode", n)
Var(n)   == Node("VariableNode", n)
VType(n) == Node("VariableTypeNode", n)
L(s)     == Link("ListLink", s)
Eval(p, args) == Link("EvaluationLink", <<Node("PredicateNode", p), L(args)>>)
And(s)   == Link("AndLink", s)
Not(c)   == Link("NotLink", <<c>>)
Impl(p, i) == Link("ImplicationLink", <<p, i>>)
Bind(d, i) == Link("BindLink", <<d, i>>)

make == C("make")
x    == Var("$x")
y    == Var("$y")
z    == Var("$z")

\* Three things are made: pottery (true), the number 3 and clay (neither);
\* making is from clay (true).
Facts == {Eval("_obj", <<make, C("pottery")>>), Eval("_obj", <<make, Num("3")>>),
          Eval("_obj", <<make, C("clay")>>), Eval("from", <<make, C("clay")>>)}
MCInitAtoms == UNION {Subterms(f) : f \in Facts}
MCInitTrue  == {Eval("_obj", <<make, C("pottery")>>),
                Eval("from", <<make, C("clay")>>)}

MakeFrom == Impl(And(<<Eval("_obj", <<make, x>>), Eval("from", <<make, y>>)>>),
                 Eval("make_from", <<x, y>>))

MCQueries ==
    { \* the do_imply example, with its variables declared
      Bind(L(<<x, y>>), MakeFrom),
      \* $x restricted to ConceptNode: the number is not a grounding
      Bind(L(<<Link("TypedVariableLink", <<x, VType("ConceptNode")>>), y>>),
           MakeFrom),
      \* negation as absence: clay is made from something, so it is excluded
      Bind(x, Impl(And(<<Eval("_obj", <<make, x>>),
                         Not(Eval("from", <<make, x>>))>>),
                   Eval("raw", <<x>>))),
      \* a single clause, and an implicand with the undeclared $z
      Bind(L(<<x>>), Impl(Eval("_obj", <<make, x>>), Eval("make_from", <<x, z>>))),
      \* the bare ImplicationLink (legacy imply(); bindlink() rejects it)
      MakeFrom,
      \* forward chaining (the do_imply comment): a rule over the atoms the
      \* make_from rule creates
      Bind(L(<<x, y>>), Impl(Eval("make_from", <<x, y>>), Eval("source", <<y>>))),
      \* a ConceptNode in a declaration list is rejected
      Bind(L(<<make>>), MakeFrom) }

MCMatchInputs ==
    { <<L(<<x, y>>), MakeFrom.out[1], UNDEFINED>>,
      \* a bare variable instead of a ListLink of variables
      <<x, MakeFrom.out[1], UNDEFINED>> }

\* A BindLink that declares no variables at all.
MCUndeclaredQueries == {Bind(L(<<>>), MakeFrom)}

\* "Flag that something is made, unless it already is": the implicand is the
\* atom the negated clause looks for, so each result removes the grounds
\* for the next.
Made == Eval("made", <<make>>)
MCSelfDefeatingQueries ==
    {Bind(x, Impl(And(<<Eval("_obj", <<make, x>>), Not(Made)>>), Made))}

\* A negated clause written as a NotLink with nothing in it.
MCEmptyNotQueries ==
    {Bind(x, Impl(And(<<Eval("_obj", <<make, x>>), Link("NotLink", <<>>)>>),
                  Eval("raw", <<x>>)))}

Contract == INSTANCE BindlinkContract
    WITH atoms <- IF pc = "Searching" THEN snapshot.atoms ELSE atoms,
         truth <- IF pc = "Searching" THEN snapshot.truth ELSE truth,
         pc    <- IF pc = "Searching" THEN "Busy" ELSE pc

\* Every call of the query code implements the contract of BindlinkContract:
\* the order in which the engine reaches candidates, the rejections, the
\* Implicator's skipping of failed instantiations, the single implicator's
\* early stop and the crisp truth updates add up to one atomic call.
Refinement == Contract!Spec
=============================================================================
