--------------------------- MODULE MC_GenericShell ---------------------------
(***************************************************************************)
(* Two sockets and lines that reach every branch of do_eval: plain text,  *)
(* the exit commands, telnet interrupts just inside and just outside the  *)
(* 20-byte window, erase-line, and lines ended by a cancel byte.           *)
(***************************************************************************)
EXTENDS GenericShell

Pad(n) == [i \in 1..n |-> 97]   \* n bytes of 'a'

\* telnet's ^C: IAC IP followed by IAC DO TIMING-MARK
TelnetCtrlC == <<IAC, IP, IAC, 253, 6>>

MCInputs ==
    { <<>>, Pad(1), <<DOT>>, <<EOT>>, Pad(1) \o <<EOT>>,
      Pad(1) \o TelnetCtrlC,
      <<IAC, IP>> \o Pad(18),       \* IAC 20 bytes from the end: inside
      <<IAC, AO>> \o Pad(19),       \* IAC 21 bytes from the end: outside
      <<IAC, EL>>, Pad(1) \o <<CAN>>, Pad(1) \o <<ESC>> }

\* The same lines, and one a netcat user ends with ^C.
MCInputsCtrlC == MCInputs \cup {Pad(1) \o <<3>>}
=============================================================================
