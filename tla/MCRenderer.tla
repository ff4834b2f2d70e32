----------------------------- MODULE MCRenderer -----------------------------
(***************************************************************************)
(* The buffers are named by their ids.                                     *)
(***************************************************************************)
EXTENDS Renderer

MCBufferId == [b \in {1, 2} |-> b]
=============================================================================
