----------------------------- MODULE ByteStream -----------------------------
(***************************************************************************)
(* What com.xodos.terminal.ByteQueue promises its two threads: a bounded,  *)
(* closable first-in first-out stream of bytes.  The ring arithmetic and   *)
(* the monitor of ByteQueue.java are below this level (module ByteQueue).  *)
(***************************************************************************)
EXTENDS Naturals, Sequences

CONSTANTS Byte, Capacity

VARIABLES
  pending,  \* what the producer has been asked to write and not yet stored
  content,  \* the bytes stored and not yet read, oldest first
  open,     \* FALSE once the stream has been closed, for ever
  out       \* what the last read handed to the consumer

svars == <<pending, content, open, out>>

SInit ==
  /\ pending = <<>>
  /\ content = <<>>
  /\ open = TRUE
  /\ out = <<>>

\* The producer has more to write.
Offer ==
  /\ pending = <<>>
  /\ pending' \in Seq(Byte)
  /\ UNCHANGED <<content, open, out>>

\* A prefix of it is stored; never more than fits, never after the close.
Put ==
  /\ open
  /\ \E n \in 1 .. Len(pending) :
       /\ Len(content) + n <= Capacity
       /\ content' = content \o SubSeq(pending, 1, n)
       /\ pending' = SubSeq(pending, n + 1, Len(pending))
  /\ UNCHANGED <<open, out>>

\* What could not be stored before the close is given up.
GiveUp ==
  /\ ~open
  /\ pending' = <<>>
  /\ UNCHANGED <<content, open, out>>

\* The consumer is handed a non-empty prefix, which leaves the stream.
Take ==
  /\ open
  /\ \E n \in 1 .. Len(content) :
       /\ out' = SubSeq(content, 1, n)
       /\ content' = SubSeq(content, n + 1, Len(content))
  /\ UNCHANGED <<pending, open>>

\* Bytes that are still stored at the close are never delivered.
Close ==
  /\ open' = FALSE
  /\ UNCHANGED <<pending, content, out>>

SNext == Offer \/ Put \/ GiveUp \/ Take \/ Close

SSpec == SInit /\ [][SNext]_svars
=============================================================================
