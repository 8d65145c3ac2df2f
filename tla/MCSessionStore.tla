--------------------------- MODULE MCSessionStore ---------------------------
(* SessionStore for TLC: a few options that differ in what matters.        *)
EXTENDS SessionStore

CONSTANTS h1, h2

MCHost == {h1, h2}
MCOption ==
  {[host |-> h1, real |-> FALSE, prompt |-> TRUE],
   [host |-> h2, real |-> TRUE, prompt |-> FALSE],
   [host |-> None, real |-> FALSE, prompt |-> FALSE]}
=============================================================================
