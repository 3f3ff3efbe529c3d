# TLA+ models of the OpenCog query, MOSES deme and shell code

These modules model the parts of `src/` that have state and control worth
model checking. Each definition is translated from the source lines that
`PROJECT.json` ("map") gives for it. Definitions for code that is not under
`src/` (the pattern-match engine, the Instantiator and the AtomSpace) are
written from `spec.md` and marked `spec_modelled`.

## The system and its parts

| Part | Source | Interaction | Status |
|---|---|---|---|
| Query entry points | `query/PatternMatch.cc` | See below | modelled |
| Pattern-match engine, Instantiator, AtomSpace | not in `src/` (from spec.md) | Searches and holds the store | partly |
| MOSES deme expander | `learning/moses/deme/deme_expander.cc` | See below | modelled |
| Console shell | `shell/GenericShell.cc` | See below | modelled |
| Behavioural composite scorer | `learning/moses/scoring/behave_cscore.cc` | Scores MOSES candidates for the deme optimiser | modelled |
| PLN types, EvaluationLink | `PLNTypes.cc`, `EvaluationLink.h` | Declarations only | not modelled |

How the parts interact:

- **Query entry points.** `match`, `bindlink`, `single_bindlink`,
  `crisp_logic_bindlink`, `imply` and `crisp_logic_imply` validate a handle.
  They then hand the engine a search and an Implicator callback. The callback
  adds an instance to the AtomSpace for each accepted grounding.
- **Deme expander.** A driving loop calls `create_demes` → `optimize_demes` →
  `free_demes` for each expansion. `optimize_demes` sets the composite
  scorer's ignored indexes for each deme.
- **Console shell.** Its `eval` and `socketClosed` are called from the
  console socket's threads.

## Modules

### Atoms

- **State and operations.** Atoms are records `[type, name, out]` and the
  store is a set of them, so identity is structural. This matches the
  AtomSpace's deduplication. `Subterms` is the closure an `addLink` creates.
- **Recursive operators.** `VarNodes` is `FindVariables`. `Subst` and
  `Instantiate` model the Instantiator: an unbound variable makes the whole
  instance `UNDEFINED`.

### PatternDecls

The validation half of `PatternMatch.cc`, written as pure operators:

- `GetVartype` is `get_vartype`.
- `ParseDecls`, `DeclStep` and `AddVartype` are the declaration loop of
  `do_bindlink`.
- `Classify` is the clause split of `do_imply`.
- `DoImply`, `DoBindlink` and `MatchInput` are the entry-point checks.

Each of these returns one of:

- a search input (variables, type map, affirmed and negated clauses,
  implicand);
- `"error"`, meaning an exception reaches the caller;
- `"return"`, meaning `match` gives up silently.

### MatchEngine (spec-modelled)

- **Candidates.** The structural candidates are the assignments of store
  atoms to the grounded variables that respect the type map and make every
  affirmed clause an atom of the store.
- **Default acceptance.** Negation as absence.
- **Crisp acceptance.** Affirmed clauses must also be true and negated ones
  must not be.

### PatternMatch

A session of top-level calls against a persistent store.

- **Calls.** `Begin` is a call (one action per entry point). It validates the
  handle and either errors, returns or starts a search. `Thrown` says where a
  validation exception ends up. An InvalidParamException reaches the caller
  (`Error`). Any other exception leaves a function declared
  `throw (InvalidParamException)`, so the process terminates (`Aborted`) and
  no further call is made.
- **Engine steps.**
  - `EngineReject(g)` drops a candidate that the callbacks reject *in the
    current store*.
  - `Grounding(g)` runs the Implicator's `grounding` for an accepted
    candidate: `ImplicatorGrounding`, `CrispGrounding` or `SingleGrounding`.
    This step instantiates, adds to the store, appends to `result_list`,
    possibly sets the truth value and returns the stop flag.
  - `Finish` wraps `result_list` in a ListLink with `addLink`. It does not do
    this for `match`.
- **History variable.** `snapshot` records the store at call time, for the
  refinement.

### BindlinkContract

The abstract promise of a call, with the search as one atomic step:

- Every grounding accepted in the store as it was at call time is
  instantiated.
- For `single_bindlink`, only the first is instantiated.
- Failed instantiations are dropped.
- Crisp calls make every result true.

`MC_PatternMatch` maps the detailed spec onto it. While a search runs, the
mapping presents the snapshot store and pc `"Busy"`.

### DemeExpander

- **Abstraction.** An exemplar is the set of features (argument indexes) it
  uses. A representation is `[xmplr, ignore, src]`. A deme is its position and
  its representation.
- **Free choices.** What the feature selector returns and whether knob
  building leaves a representation empty are chosen freely, since they depend
  on data and on reduct.
- **Actions.**
  - `CreateDemes` covers the whole of `create_demes`: the prune-or-insert
    choice, the complement loop into `_ignore_idxs_seq`, the popping of empty
    representations, and the creation of demes.
  - `OptimizeDemes(max_evals)` gives each deme `MaxEvalsPerDeme`, which is
    `max_evals / _demes.size()` truncated. It sets the scorer's ignore set for
    each deme and then resets it. `_optimize` is not in this code: how many
    evaluations it makes, up to its budget, is chosen freely.
  - `FreeDemes` clears everything.

### GenericShell

- **Scope.** One shell object and two console sockets.
- **State.** `life` is unborn, live or deleted. `socket`, `self_destruct`,
  `show_output` and `show_prompt` are the members. `holds[s]` says socket *s*
  points at the shell (`SetShell`). `completed[s]` counts
  `OnRequestComplete` calls.
- **Actions.** One per method: `Construct`, `HushOutput`, `HushPrompt`,
  `SetSocket`, `Eval` and `SocketClosed`. `Destroy` is the destructor that
  `delete this` runs. The comment in `socketClosed` says `eval` and
  `socketClosed` run on the same thread, so each method is one atomic step.
- **do_eval.** Lines are byte sequences. `IacScanFrom` is the backward scan
  over bytes len-20 .. len-2. `Branch` picks the branch: empty, abort, erase,
  cancel, exit or evaluate. `EvalInput` re-appends the newline.
- **Evaluator.** `GenericEval` is not in this code. What `eval` leaves pending
  and whether it reports an error are free choices.

### BehaveCScore

- **Candidates.** A candidate is abstracted to three things: whether
  evaluating it raises `EvalException`, its behavioural score (up to two
  samples of 0 or 1), and its complexity.
- **Operators.** `GetCScoreTree` and `GetCScoreBScore` are the two
  `get_cscore` overloads. The aggregate scorer sums the samples.
- **Actions.** Each action scores the candidate one way.

## Runs

| Run | Expect | What it shows |
|---|---|---|
| `pm_main` (`MC_PatternMatch.cfg`) | pass | See below |
| `pm_match_silent` | violation | A bare variable passed to `match` returns with no search and no exception. Spec §6 says it raises (PatternMatch.cc:52). |
| `pm_undeclared` | violation | An empty BindLink declaration list makes `do_imply` infer variables (line 290). |
| `pm_emptynot` | violation | An empty NotLink in the predicate makes `getOutgoingAtom(0)` throw RuntimeException. `do_imply` is declared `throw (InvalidParamException)`, so the process terminates instead of raising to the caller (lines 223, 273). |
| `pm_selfdefeat` | violation | A query whose implicand is the atom its negated clause looks for gives 1 result, where the call-time-store contract gives 3. Results are added mid-search (line 121). |
| `deme_main` | pass | See below |
| `deme_misaligned` | violation | After an empty representation is popped, deme *i* is scored with `_ignore_idxs_seq[i]` of another feature set (line 295). |
| `shell_main` | pass | See below |
| `shell_exit` | violation | `"a"` followed by ^D exits the shell and drops the text. The comment says only an *isolated* ^D exits (GenericShell.cc:229). |
| `shell_ctrlc` | violation | A line ending in ^C (byte 3) is evaluated. The comment says it is not, but `SYN` is 0x16, which is ^V (line 43). |
| `cscore_main` | pass | Both `get_cscore` overloads give a well-formed composite score, including for a candidate that raises. |
| `cscore_overloads` | violation | Rescoring from a behavioural score drops the complexity penalty (behave_cscore.cc:91, under an `XXX FIXME`). |

**pm_main** (pass) checks TypeOK, DeclaredTypesRespected and Refinement. Two
calls of every entry point, on every query of the store, implement the
contract. A BindLink search only reaches
groundings that each TypedVariableLink of the query allows. The types travel
from `get_vartype` through the declaration loop and `do_imply` to the engine.

- The store comes from the `do_imply` comment's example: things made from
  clay, with a number among them.
- The queries include declared variables, typed variables, negation, an
  undeclared implicand variable, a bare ImplicationLink and a bad declaration.
- A forward-chaining rule matches the `make_from` atoms that the first rule
  creates, as the `do_imply` comment suggests.
- This is enough to exercise every acceptance path and every error return,
  plus a second call against the store the first one grew.

**deme_main** (pass) checks TypeOK, ExemplarFeaturesConsidered and
BudgetWithinMaxEvals.

- The run covers two expansions, with and without a feature selector, and
  with and without pruning.
- No representation ignores a feature its exemplar uses.
- The demes of an expansion together never make more evaluations than the
  caller granted. With `max_evals` up to 3 over 2 demes, a budget that is
  rounded up would overspend.
- The bounds are arity 3 and 2 demes, which is the smallest setting where a
  popped representation can misalign the sequences.

**shell_main** (pass) checks TypeOK, NoDanglingShell,
TelnetInterruptNeverEvaluated, PromptMatchesPending and
ReleaseCompletesRequest.

- Up to four `set_socket`/`eval` calls come from two sockets, mixed with
  closes and hush calls.
- Whichever of exit, close or `set_socket` comes first, no socket is left
  pointing at the deleted shell, and every detached socket has its request
  completed.
- A telnet interrupt 20 bytes from the end is caught. The inputs place an
  interrupt exactly at the window edge and one byte outside it, so an
  off-by-one in the window is caught.
- The prompt shown always matches the evaluator's pending state.

Every property of a passing run has a mutant in `PROJECT.json`: a plausible
bug in a mapped definition that TLC then catches.

## Fairness and deadlock

- **Fairness.** No fairness is assumed and no liveness is checked.
  - Every operation of this code is a synchronous call over a finite input:
    a search over a candidate set fixed at call time, a create/optimize/free
    step, a shell method. That it returns follows from the model's shape and
    says nothing about the code.
  - What the callers do (the query caller, the MOSES loop, the console
    sockets) is not in this code, and nothing obliges them to call.
- **Deadlock.** All passing runs set `CHECK_DEADLOCK FALSE`. The caller makes
  `MaxCalls` calls, or `MaxExpansions` expansions, and then stops, so the final
  states are intended. The same holds for the shell once it is deleted or out
  of calls, and for the scorer once the candidate is scored both ways.

## Known disagreements without a run

- **Duplicate declarations.** A variable declared twice keeps the types of its
  first declaration (`typemap.insert`, PatternMatch.cc:391). The search then
  grounds it with atoms that the second declaration excludes, and
  `DeclaredTypesRespected` fails for such a query. The spec does not say what
  two declarations of one variable mean.
- **Scorer reset.** `optimize_demes` resets the scorer's ignored indexes to
  the empty set, which wipes what the user configured (deme_expander.cc:344).
  The code's own `XXX FIXME` calls this a bug.

## Not modelled

- **The MOSES driving loop.** The loop is not in this code. The model's loop
  always calls `free_demes` after `create_demes`, including after a false
  return at line 270, which leaves `_ignore_idxs_seq` filled. Whether the
  real loop does this, and so whether the `OC_ASSERT`s at the top of the next
  `create_demes` hold, cannot be decided from `src/`.

- **Threads.** Cross-thread visibility between the shell's constructor (on
  the accept thread) and `eval` (on the receive thread) is not modelled.
  `set_socket` always precedes `eval` in the model, so `eval`'s adoption of a
  NULL socket is unreachable there.
- **Instantiator failures.** Partial instantiation effects and exceptions
  (spec §7) are not modelled. The Instantiator is not in this code, and
  spec §4.5 says instantiation is all-or-nothing.
- **best_possible_score.** Only the deme expander's log uses it.
- **PLNTypes.cc, EvaluationLink.h.** Declarations only, with no behaviour.
