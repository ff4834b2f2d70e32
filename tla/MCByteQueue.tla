---- MODULE MCByteQueue ----
(* ByteQueue with a ring of two bytes: writes and reads longer than the ring,  *)
(* reads shorter than a run, and every position of the wrap-around.           *)
EXTENDS ByteQueue
====
