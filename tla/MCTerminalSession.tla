---- MODULE MCTerminalSession ----
(* TerminalSession with queues and buffers of one or two bytes.  Sessions are *)
(* interchangeable: the specification orders descriptors, never sessions.     *)
EXTENDS TerminalSession, TLC

Symmetry == Permutations(Session)
====
