-------------------------- MODULE MCPairedDevices ---------------------------
(***************************************************************************)
(* PairedDevices for TLC: tokens are interchangeable, and so are phones.   *)
(***************************************************************************)
EXTENDS PairedDevices, TLC

Symmetry == Permutations(Token) \cup Permutations(Client)
=============================================================================
