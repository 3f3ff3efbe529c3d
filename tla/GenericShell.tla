----------------------------- MODULE GenericShell -----------------------------
(***************************************************************************)
(* One GenericShell instance (GenericShell.cc) and the console sockets     *)
(* that call it.  A socket that holds the shell (SetShell(this)) hands it  *)
(* lines with eval() and tells it when it closes with socketClosed(); both *)
(* run on the socket's receive thread, one at a time (the comment in       *)
(* socketClosed), so each method is one step.  The shell deletes itself   *)
(* on "exit" and on close; its destructor detaches it from its socket.     *)
(*                                                                         *)
(* Lines are byte sequences and do_eval is modelled on the bytes.  The     *)
(* evaluator (GenericEval) is not in this code: what eval() leaves pending *)
(* and whether it reports an error are chosen freely.                      *)
(***************************************************************************)
EXTENDS Naturals, Sequences

CONSTANTS
    Sockets,     \* console sockets
    Inputs,      \* lines a socket may hand to eval(), as byte sequences
    MaxCalls     \* how many set_socket and eval calls are made in all

NoSocket == "NULL"

\* RFC 854 and ASCII control bytes (the #defines at the top of the file).
IAC == 255
IP  == 244
AO  == 245
EL  == 248
EOT == 4
SYN == 22
CAN == 24
ESC == 27
DOT == 46
NL  == 10

VARIABLES
    life,          \* "unborn", "live" or "deleted": the shell object
    socket,        \* GenericShell::socket
    self_destruct, \* GenericShell::self_destruct
    show_output,   \* GenericShell::show_output
    show_prompt,   \* GenericShell::show_prompt
    pending,       \* evaluator->input_pending()
    holds,         \* holds[s]: socket s points at the shell (SetShell)
    completed,     \* completed[s]: OnRequestComplete calls on socket s
    line,          \* the last line handed to eval()
    reply,         \* the last string sent, as [prompt, text]
    evaluated,     \* the lines handed to the evaluator, in order
    n_calls        \* set_socket and eval calls so far

vars == <<life, socket, self_destruct, show_output, show_prompt, pending,
          holds, completed, line, reply, evaluated, n_calls>>

Replies == [prompt : {"normal", "pending", "abort", "none"},
            text   : {"result", "exit", "none"}]

Init ==
    /\ life = "unborn"
    /\ socket = NoSocket
    /\ self_destruct = FALSE
    /\ show_output = TRUE
    /\ show_prompt = TRUE
    /\ pending = FALSE
    /\ holds = [s \in Sockets |-> FALSE]
    /\ completed = [s \in Sockets |-> 0]
    /\ line = <<>>
    /\ reply = [prompt |-> "none", text |-> "none"]
    /\ evaluated = <<>>
    /\ n_calls = 0

(***************************************************************************)
(* The IAC scan of do_eval: from index len-2 down to max(len-20, 0) (zero  *)
(* based), the first IAC followed by IP or AO aborts the line, by EL      *)
(* erases it; an IAC followed by anything else is passed over.  p is the  *)
(* one-based position of the byte examined.                                *)
(***************************************************************************)
RECURSIVE IacScanFrom(_, _, _)
IacScanFrom(expr, p, lo) ==
    IF p < lo THEN "none"
    ELSE IF expr[p] = IAC /\ expr[p + 1] \in {IP, AO} THEN "abort"
    ELSE IF expr[p] = IAC /\ expr[p + 1] = EL THEN "erase"
    ELSE IacScanFrom(expr, p - 1, lo)

\* Mutant of ScanLow: the window stops one byte short of 20.
ScanLowNarrow(len) == IF len - 19 < 0 THEN 1 ELSE len - 19 + 1

ScanLow(len) == IF len - 20 < 0 THEN 1 ELSE len - 20 + 1

IacScan(expr) == IacScanFrom(expr, Len(expr) - 1, ScanLow(Len(expr)))

\* Which branch of do_eval a line takes, given the evaluator's pending state.
Branch(expr, pend) ==
    LET len == Len(expr) IN
    CASE len = 0                                   -> "empty"
      [] IacScan(expr) # "none"                    -> IacScan(expr)
      [] expr[len] \in {SYN, CAN, ESC}             -> "cancel"
      [] ~pend /\ (expr[len] = EOT \/ expr = <<DOT>>) -> "exit"
      [] OTHER                                     -> "eval"

\* Mutant of GetPrompt: the input_pending() test is dropped.
GetPromptAlwaysNormal(pend) ==
    [prompt |-> IF ~show_prompt THEN "none" ELSE "normal", text |-> "none"]

\* get_prompt(): nothing when hushed, else the prompt for the pending state.
GetPrompt(pend) ==
    [prompt |-> IF ~show_prompt THEN "none"
                ELSE IF pend THEN "pending" ELSE "normal",
     text |-> "none"]

\* Mutant of EvalInput: the line goes to the evaluator without the newline.
EvalInputRaw(expr) == expr

\* What do_eval hands the evaluator: the line with its newline re-inserted.
EvalInput(expr) == expr \o <<NL>>

(***************************************************************************)
(* GenericShell::do_eval.  pend2 and err are what evaluator->eval leaves   *)
(* in input_pending() and eval_error().  The result gives the string       *)
(* returned, the evaluator's pending state afterwards, whether the line    *)
(* was handed to the evaluator and whether self_destruct was set.          *)
(***************************************************************************)
DoEval(expr, pend2, err) ==
    LET b   == Branch(expr, pending)
        out == [prompt |-> "none", text |-> "none"]
    IN
    CASE b \in {"empty", "erase"} ->
            [ret |-> GetPrompt(pending), pend |-> pending, ran |-> FALSE, exit |-> FALSE]
      [] b = "abort" ->
            [ret |-> [out EXCEPT !.prompt = "abort"], pend |-> FALSE, ran |-> FALSE,
             exit |-> FALSE]
      [] b = "cancel" ->
            [ret |-> [out EXCEPT !.prompt = "normal"], pend |-> FALSE, ran |-> FALSE,
             exit |-> FALSE]
      [] b = "exit" ->
            [ret |-> [out EXCEPT !.text = IF show_prompt THEN "exit" ELSE "none"],
             pend |-> pending, ran |-> FALSE, exit |-> TRUE]
      [] b = "eval" ->
            [ret |-> CASE pend2 -> [out EXCEPT !.prompt =
                                      IF show_output /\ show_prompt THEN "pending"
                                      ELSE "none"]
                       [] show_output \/ err ->
                             [prompt |-> IF show_prompt THEN "normal" ELSE "none",
                              text |-> "result"]
                       [] OTHER -> out,
             pend |-> pend2, ran |-> TRUE, exit |-> FALSE]

-----------------------------------------------------------------------------

\* The constructor.
Construct ==
    /\ life = "unborn"
    /\ life' = "live"
    /\ UNCHANGED <<socket, self_destruct, show_output, show_prompt, pending,
                   holds, completed, line, reply, evaluated, n_calls>>

\* hush_output / hush_prompt.
HushOutput(h) ==
    /\ life = "live"
    /\ show_output' = ~h
    /\ UNCHANGED <<life, socket, self_destruct, show_prompt, pending, holds,
                   completed, line, reply, evaluated, n_calls>>

HushPrompt(h) ==
    /\ life = "live"
    /\ show_prompt' = ~h
    /\ UNCHANGED <<life, socket, self_destruct, show_output, pending, holds,
                   completed, line, reply, evaluated, n_calls>>

\* Mutant of SetSocket: the previous socket is detached but not completed.
SetSocketNoComplete(s) ==
    /\ life = "live"
    /\ n_calls < MaxCalls
    /\ n_calls' = n_calls + 1
    /\ holds' = IF socket # NoSocket
                THEN [holds EXCEPT ![socket] = FALSE, ![s] = TRUE]
                ELSE [holds EXCEPT ![s] = TRUE]
    /\ socket' = s
    /\ UNCHANGED <<life, self_destruct, show_output, show_prompt, pending,
                   completed, line, reply, evaluated>>

\* set_socket: the previous socket is detached and its request completed.
SetSocket(s) ==
    /\ life = "live"
    /\ n_calls < MaxCalls
    /\ n_calls' = n_calls + 1
    /\ holds' = IF socket # NoSocket
                THEN [holds EXCEPT ![socket] = FALSE, ![s] = TRUE]
                ELSE [holds EXCEPT ![s] = TRUE]
    /\ completed' = IF socket # NoSocket
                    THEN [completed EXCEPT ![socket] = @ + 1] ELSE completed
    /\ socket' = s
    /\ UNCHANGED <<life, self_destruct, show_output, show_prompt, pending,
                   line, reply, evaluated>>

\* Mutant of Destroy: the socket is completed but keeps its shell pointer.
DestroyKeepsPointer(sock) ==
    /\ life' = "deleted"
    /\ socket' = NoSocket
    /\ UNCHANGED holds
    /\ completed' = IF sock # NoSocket
                    THEN [completed EXCEPT ![sock] = @ + 1] ELSE completed

\* The destructor, run by delete this: detach from the socket, if any.
Destroy(sock) ==
    /\ life' = "deleted"
    /\ socket' = NoSocket
    /\ holds' = IF sock # NoSocket THEN [holds EXCEPT ![sock] = FALSE] ELSE holds
    /\ completed' = IF sock # NoSocket
                    THEN [completed EXCEPT ![sock] = @ + 1] ELSE completed

\* socketClosed: the socket that holds the shell closes; delete this.
SocketClosed(s) ==
    /\ life = "live"
    /\ holds[s]
    /\ Destroy(socket)
    /\ UNCHANGED <<self_destruct, show_output, show_prompt, pending, line,
                   reply, evaluated, n_calls>>

(***************************************************************************)
(* eval(expr, s): adopt s if no socket is set, run do_eval, send the      *)
(* string to the socket and, if the line asked to leave, delete this.      *)
(***************************************************************************)
Eval(s, expr) ==
    /\ life = "live"
    /\ holds[s]
    /\ n_calls < MaxCalls
    /\ n_calls' = n_calls + 1
    /\ line' = expr
    /\ \E pend2, err \in BOOLEAN :
          LET r    == DoEval(expr, pend2, err)
              sock == IF socket = NoSocket THEN s ELSE socket
          IN
          /\ reply' = r.ret
          /\ pending' = r.pend
          /\ evaluated' = IF r.ran THEN Append(evaluated, EvalInput(expr))
                                   ELSE evaluated
          /\ self_destruct' = r.exit
          /\ IF r.exit
             THEN Destroy(sock)
             ELSE /\ socket' = sock
                  /\ UNCHANGED <<life, holds, completed>>
    /\ UNCHANGED <<show_output, show_prompt>>

Next ==
    \/ Construct
    \/ \E h \in BOOLEAN : HushOutput(h) \/ HushPrompt(h)
    \/ \E s \in Sockets : SetSocket(s) \/ SocketClosed(s)
    \/ \E s \in Sockets, e \in Inputs : Eval(s, e)

Spec == Init /\ [][Next]_vars

-----------------------------------------------------------------------------

TypeOK ==
    /\ life \in {"unborn", "live", "deleted"}
    /\ socket \in Sockets \cup {NoSocket}
    /\ {self_destruct, show_output, show_prompt, pending} \subseteq BOOLEAN
    /\ holds \in [Sockets -> BOOLEAN]
    /\ completed \in [Sockets -> Nat]
    /\ line \in Inputs \cup {<<>>}
    /\ reply \in Replies
    /\ evaluated \in Seq({e \o <<NL>> : e \in Inputs})
    /\ n_calls \in 0..MaxCalls

\* No socket is left pointing at a deleted shell: whichever of exit (eval's
\* delete this), socketClosed or set_socket comes first, a socket that
\* could still call eval() or socketClosed() on the shell is detached.
NoDanglingShell == \A s \in Sockets : holds[s] => life = "live"

\* A socket is detached from the shell only together with a call of its
\* OnRequestComplete (set_socket and the destructor), so no console request
\* is left open once the shell lets go of it.
ReleaseCompletesRequest ==
    [][\A s \in Sockets : holds[s] /\ ~holds'[s] =>
                             completed'[s] = completed[s] + 1]_vars

\* An IAC IP or IAC AO whose IAC is one of the 19 bytes before the last of
\* the line; e is the line as the evaluator gets it, newline included.
InterruptNear(e) ==
    \E p \in 1..(Len(e) - 2) : /\ p >= Len(e) - 20
                               /\ e[p] = IAC
                               /\ e[p + 1] \in {IP, AO}

\* A telnet interrupt or abort-output in the last 20 bytes of a line keeps
\* the whole line from the evaluator (the IAC scan of do_eval, "at most 20
\* chars from the end of the string"), whatever erase or other telnet
\* commands follow it.
TelnetInterruptNeverEvaluated ==
    \A i \in DOMAIN evaluated : ~InterruptNear(evaluated[i])

\* The last byte of a line as the user sent it (before the re-inserted NL).
LastSent(e) == e[Len(e) - 1]

\* The prompt the user sees says whether the evaluator is in the middle of
\* an expression: "... " exactly when input is pending, "> " otherwise,
\* across evaluation, erase, cancel and abort.
PromptMatchesPending ==
    reply.prompt \in {"normal", "pending"} =>
        (reply.prompt = "pending" <=> pending)

\* do_eval's comment: "Look for either an isolated control-D, or a single
\* period on a line by itself.  This means leave the shell."
ExitOnlyOnIsolatedCommand ==
    self_destruct => line \in {<<EOT>>, <<DOT>>}

\* do_eval's comment: "Don't evaluate if the line is terminated by escape
\* (^[), cancel (^X) or quit (^C)".  ^C is byte 3.
CancelledLinesNotEvaluated ==
    \A i \in DOMAIN evaluated :
        LastSent(evaluated[i]) \notin {3, CAN, ESC}
=============================================================================
