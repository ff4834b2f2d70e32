------------------------------ MODULE ByteQueue ------------------------------
(***************************************************************************)
(* terminal-emulator/.../ByteQueue.java: a circular byte buffer between    *)
(* one producer and one consumer thread, with a Java monitor (synchronized *)
(* methods, wait and notify) and a close.                                  *)
(*                                                                         *)
(* A synchronized section is one atomic step up to the wait it ends in: a  *)
(* thread is "idle" outside the queue, "entering" when it has called or    *)
(* has been woken and competes for the monitor, "waiting" in the wait set. *)
(***************************************************************************)
EXTENDS Integers, Sequences

CONSTANTS
  Byte,       \* the values of a byte
  Capacity,   \* mBuffer.length
  MaxWrite,   \* bound: longest array passed to one write()
  MaxRead     \* bound: longest array passed to one read()

ASSUME ByteAssumption == 0 \in Byte
ASSUME CapacityAssumption == Capacity \in Nat \ {0}
ASSUME MaxReadAssumption == MaxRead \in Nat \ {0}
ASSUME MaxWriteAssumption == MaxWrite \in Nat \ {0}

VARIABLES
  mBuffer,       \* byte[] mBuffer, indices from 0
  mHead,         \* index of the oldest byte
  mStoredBytes,  \* number of bytes stored
  mOpen,         \* FALSE after close()
  pc,            \* where the producer and the consumer are
  toWrite,       \* what the producer's current write() still has to store
  room,          \* length of the array of the consumer's current read()
  block,         \* whether that read() may wait
  out            \* what the consumer's last read() returned in that array

vars == <<mBuffer, mHead, mStoredBytes, mOpen, pc, toWrite, room, block, out>>

Producer == "producer"
Consumer == "consumer"
Thread == {Producer, Consumer}

Slot == 0 .. Capacity - 1

Lesser(a, b) == IF a <= b THEN a ELSE b

Init ==
  /\ mBuffer = [k \in Slot |-> 0]
  /\ mHead = 0
  /\ mStoredBytes = 0
  /\ mOpen = TRUE
  /\ pc = [t \in Thread |-> "idle"]
  /\ toWrite = <<>>
  /\ room = 0
  /\ block = FALSE
  /\ out = <<>>

-----------------------------------------------------------------------------
(* The monitor. *)

\* What notify() makes of pc: one thread of the wait set, if there is one,
\* competes for the monitor again.
Notify(p) ==
  LET waiting == {t \in Thread : p[t] = "waiting"}
  IN  IF waiting = {} THEN {p} ELSE {[p EXCEPT ![t] = "entering"] : t \in waiting}

\* Object.wait() may return without a notify.
SpuriousWakeup(t) ==
  /\ pc[t] = "waiting"
  /\ pc' = [pc EXCEPT ![t] = "entering"]
  /\ UNCHANGED <<mBuffer, mHead, mStoredBytes, mOpen, toWrite, room, block, out>>

-----------------------------------------------------------------------------
(* The copy loops.  Each takes the state of the queue and one array, and   *)
(* copies one contiguous run; as a run ends at the end of mBuffer, at the  *)
(* head or with the request, the loop makes at most two of them.           *)

\* Mutant: a tail just past the end of mBuffer does not wrap around.
WrapsLate(t) == t > Capacity

\* Whether the tail of write() has passed the end of mBuffer.
Wraps(t) == t >= Capacity

\* One turn of the inner loop of write(): src is the array still to store.
WriteRun(q) ==
  LET t      == q.head + q.stored
      tail   == IF Wraps(t) THEN t - Capacity ELSE t
      oneRun == IF Wraps(t) THEN q.head - tail ELSE Capacity - tail
      n      == Lesser(oneRun, Len(q.src))
  IN  [buf    |-> [k \in Slot |-> IF k >= tail /\ k < tail + n
                                    THEN q.src[k - tail + 1]
                                    ELSE q.buf[k]],
       head   |-> q.head,
       stored |-> q.stored + n,
       src    |-> SubSeq(q.src, n + 1, Len(q.src))]

\* The head of read() after a run.
Advanced(head) == IF head >= Capacity THEN 0 ELSE head

\* One turn of the loop of read(): dst is the array filled so far.
ReadRun(q) ==
  LET oneRun == Lesser(Capacity - q.head, q.stored)
      n      == Lesser(q.length, oneRun)
  IN  [head   |-> Advanced(q.head + n),
       stored |-> q.stored - n,
       length |-> q.length - n,
       dst    |-> q.dst \o [i \in 1 .. n |-> mBuffer[q.head + i - 1]]]

-----------------------------------------------------------------------------
(* The producer. *)

\* Mutant: wasEmpty is computed from what is stored after the copy.
WasEmptyLate(before, after) == after = 0

\* wasEmpty in write(), from what is stored before and after the copy.
WasEmpty(before, after) == before = 0

\* write(): the arguments it does not throw for.
WriteCall ==
  /\ pc[Producer] = "idle"
  /\ \E n \in 1 .. MaxWrite : \E s \in [1 .. n -> Byte] : toWrite' = s
  /\ pc' = [pc EXCEPT ![Producer] = "entering"]
  /\ UNCHANGED <<mBuffer, mHead, mStoredBytes, mOpen, room, block, out>>

\* Mutant: the loop of write() goes on when the queue is closed.
WriteClosedSpins == pc[Producer] = "entering" /\ ~mOpen /\ UNCHANGED vars

\* Closed: write() returns false, whatever it has already stored.
WriteClosed ==
  /\ pc[Producer] = "entering"
  /\ ~mOpen
  /\ toWrite' = <<>>
  /\ pc' = [pc EXCEPT ![Producer] = "idle"]
  /\ UNCHANGED <<mBuffer, mHead, mStoredBytes, mOpen, room, block, out>>

\* Full: wait().
WriteWait ==
  /\ pc[Producer] = "entering"
  /\ mOpen
  /\ mStoredBytes = Capacity
  /\ pc' = [pc EXCEPT ![Producer] = "waiting"]
  /\ UNCHANGED <<mBuffer, mHead, mStoredBytes, mOpen, toWrite, room, block, out>>

\* Store what fits and notify() if the queue was empty; return true when all
\* is stored, else the queue is full now and the same section ends in wait().
WriteChunk ==
  /\ pc[Producer] = "entering"
  /\ mOpen
  /\ mStoredBytes # Capacity
  /\ LET chunk == Lesser(Len(toWrite), Capacity - mStoredBytes)
         rest  == SubSeq(toWrite, chunk + 1, Len(toWrite))
         next  == IF rest = <<>> THEN "idle" ELSE "waiting"
         start == [buf |-> mBuffer, head |-> mHead, stored |-> mStoredBytes,
                   src |-> SubSeq(toWrite, 1, chunk)]
     IN  /\ \E q1 \in {WriteRun(start)} : \E q2 \in {WriteRun(q1)} :
              /\ mBuffer' = q2.buf
              /\ mStoredBytes' = q2.stored
         /\ toWrite' = rest
         /\ \E p \in (IF WasEmpty(mStoredBytes, mStoredBytes') THEN Notify(pc) ELSE {pc}) :
              pc' = [p EXCEPT ![Producer] = next]
  /\ UNCHANGED <<mHead, mOpen, room, block, out>>

-----------------------------------------------------------------------------
(* The consumer. *)

\* wasFull in read(), from what is stored before and after the copy.
WasFull(before, after) == before = Capacity

ReadCall ==
  /\ pc[Consumer] = "idle"
  /\ room' \in 1 .. MaxRead
  /\ block' \in BOOLEAN
  /\ pc' = [pc EXCEPT ![Consumer] = "entering"]
  /\ UNCHANGED <<mBuffer, mHead, mStoredBytes, mOpen, toWrite, out>>

\* Mutant: the loop of read() goes on when the queue is closed.
ReadClosedSpins == pc[Consumer] = "entering" /\ ~mOpen /\ UNCHANGED vars

\* Closed: read() returns -1, even when bytes are stored.
ReadClosed ==
  /\ pc[Consumer] = "entering"
  /\ ~mOpen
  /\ pc' = [pc EXCEPT ![Consumer] = "idle"]
  /\ UNCHANGED <<mBuffer, mHead, mStoredBytes, mOpen, toWrite, room, block, out>>

\* Empty: wait() if the call may block, else return 0.
ReadEmpty ==
  /\ pc[Consumer] = "entering"
  /\ mOpen
  /\ mStoredBytes = 0
  /\ pc' = [pc EXCEPT ![Consumer] = IF block THEN "waiting" ELSE "idle"]
  /\ UNCHANGED <<mBuffer, mHead, mStoredBytes, mOpen, toWrite, room, block, out>>

\* Copy what is there and fits, and notify() if the queue was full.
ReadChunk ==
  /\ pc[Consumer] = "entering"
  /\ mOpen
  /\ mStoredBytes > 0
  /\ LET start == [head |-> mHead, stored |-> mStoredBytes, length |-> room, dst |-> <<>>]
     IN  /\ \E q1 \in {ReadRun(start)} : \E q2 \in {ReadRun(q1)} :
              /\ mHead' = q2.head
              /\ mStoredBytes' = q2.stored
              /\ out' = q2.dst
         /\ \E p \in (IF WasFull(mStoredBytes, mStoredBytes') THEN Notify(pc) ELSE {pc}) :
              pc' = [p EXCEPT ![Consumer] = "idle"]
  /\ UNCHANGED <<mBuffer, mOpen, toWrite, room, block>>

-----------------------------------------------------------------------------
\* close(), from any thread that is not inside the queue.
Close ==
  /\ mOpen' = FALSE
  /\ pc' \in Notify(pc)
  /\ UNCHANGED <<mBuffer, mHead, mStoredBytes, toWrite, room, block, out>>

ProducerStep == WriteClosed \/ WriteWait \/ WriteChunk
ConsumerStep == ReadClosed \/ ReadEmpty \/ ReadChunk

Next ==
  \/ WriteCall
  \/ ProducerStep
  \/ ReadCall
  \/ ConsumerStep
  \/ \E t \in Thread : SpuriousWakeup(t)
  \/ Close

Spec == Init /\ [][Next]_vars

-----------------------------------------------------------------------------
\* The fields of ByteQueue.java and the two threads keep their types; mHead
\* stays an index of mBuffer and mStoredBytes never exceeds its length.
TypeOK ==
  /\ mBuffer \in [Slot -> Byte]
  /\ mHead \in Slot
  /\ mStoredBytes \in 0 .. Capacity
  /\ mOpen \in BOOLEAN
  /\ pc \in [Thread -> {"idle", "entering", "waiting"}]
  /\ toWrite \in Seq(Byte)
  /\ room \in Nat
  /\ block \in BOOLEAN
  /\ out \in Seq(Byte)

\* No lost wakeup: a thread that is in the wait set still has its reason to be
\* there.  So the two threads never wait for each other, and the single
\* notify() of read(), write() and close() always reaches the thread it is for.
WaitersHaveReason ==
  /\ pc[Producer] = "waiting" => mOpen /\ mStoredBytes = Capacity
  /\ pc[Consumer] = "waiting" => mOpen /\ mStoredBytes = 0 /\ block

\* The bytes stored, oldest first.
Index(head, i) == IF head + i >= Capacity THEN head + i - Capacity ELSE head + i

Content == [i \in 1 .. mStoredBytes |-> mBuffer[Index(mHead, i - 1)]]

Stream == INSTANCE ByteStream
            WITH pending <- toWrite, content <- Content, open <- mOpen

\* The ring with its wrap-around copies is a first-in first-out stream: what
\* read() returns is what write() was given, in order, once and without gaps.
ImplementsByteStream == Stream!SSpec

-----------------------------------------------------------------------------
(* Liveness.  The JVM lets every thread that competes for a free monitor   *)
(* get it; the consumer, like TermSessionOutputWriter, reads in a loop.    *)

LiveSpec ==
  /\ Spec
  /\ WF_vars(ProducerStep)
  /\ WF_vars(ConsumerStep)
  /\ WF_vars(ReadCall)

\* A write() that blocks on a full queue returns as long as somebody reads,
\* and in any case once the queue is closed.
WriteReturns == pc[Producer] # "idle" ~> pc[Producer] = "idle"

\* A consumer blocked on an empty queue is released by a write() or a close().
ReaderReleased ==
  (pc[Consumer] = "waiting" /\ (pc[Producer] # "idle" \/ ~mOpen)) ~> pc[Consumer] = "idle"

=============================================================================
