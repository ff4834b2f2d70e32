-------------------------- MODULE MCTerminalBuffer --------------------------
(* TerminalBuffer for TLC: row objects are interchangeable. *)
EXTENDS TerminalBuffer, TLC

Symmetry == Permutations(Row)
=============================================================================
