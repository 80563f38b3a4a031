--------------------------- MODULE MCTelnetClient ---------------------------
(* TelnetClient for TLC: a greeting with a dot and a newline inside and the  *)
(* prompt at its end, and a buffer that the rest of it and the answer can    *)
(* fill.                                                                     *)
EXTENDS TelnetClient

ShortGreeting == <<"other", "dot", "other", "nl", "other", "nl", "dot">>
=============================================================================
