--------------------------- MODULE ByteQueueProofs ---------------------------
(***************************************************************************)
(* Proofs about ByteQueue for a ring of any size, any set of bytes and     *)
(* requests of any length.                                                 *)
(***************************************************************************)
EXTENDS ByteQueue, SequenceTheorems, TLAPS

(* The states of the two copy loops. *)
WState == [buf : [Slot -> Byte], head : Slot, stored : 0 .. Capacity, src : Seq(Byte)]

RState == [head : Slot, stored : 0 .. Capacity, length : Nat, dst : Seq(Byte)]

\* The facts about the arithmetic of one turn of the copy loop of write().
LEMMA WriteRunCount ==
  ASSUME NEW head \in Slot, NEW stored \in 0 .. Capacity, NEW len \in Nat,
         len <= Capacity - stored
  PROVE  LET t == head + stored
             tail == IF Wraps(t) THEN t - Capacity ELSE t
             n == Lesser(IF Wraps(t) THEN head - tail ELSE Capacity - tail, len)
         IN  /\ tail \in Nat /\ n \in 0 .. len /\ tail + n <= Capacity
             /\ stored + n \in 0 .. Capacity
             /\ Wraps(t) => n = len
             /\ n = len \/ t + n = Capacity
             /\ \A i \in 0 .. stored - 1 :
                  /\ Index(head, i) \in Slot
                  /\ ~(Index(head, i) >= tail /\ Index(head, i) < tail + n)
             /\ \A i \in 0 .. n - 1 : Index(head, stored + i) = tail + i
  BY CapacityAssumption DEF Wraps, Slot, Lesser, Index

\* A turn of the copy loop of write() takes a prefix of the array, stores it
\* behind what is stored, and keeps that.
LEMMA WriteRunStores ==
  ASSUME NEW q \in WState, Len(q.src) <= Capacity - q.stored
  PROVE  LET r == WriteRun(q)
             n == r.stored - q.stored
         IN  /\ r \in WState /\ r.head = q.head
             /\ n \in 0 .. Len(q.src)
             /\ r.src = SubSeq(q.src, n + 1, Len(q.src))
             /\ Len(r.src) = Len(q.src) - n
             /\ Wraps(q.head + q.stored) => Len(r.src) = 0
             /\ Len(r.src) = 0 \/ Wraps(q.head + r.stored)
             /\ \A i \in 0 .. q.stored - 1 : r.buf[Index(q.head, i)] = q.buf[Index(q.head, i)]
             /\ \A i \in 0 .. n - 1 : r.buf[Index(q.head, q.stored + i)] = q.src[i + 1]
<1> DEFINE t == q.head + q.stored
           tail == IF Wraps(t) THEN t - Capacity ELSE t
           n == Lesser(IF Wraps(t) THEN q.head - tail ELSE Capacity - tail, Len(q.src))
           buf == [k \in Slot |-> IF k >= tail /\ k < tail + n
                                    THEN q.src[k - tail + 1] ELSE q.buf[k]]
           r == WriteRun(q)
<1>1. /\ q.buf \in [Slot -> Byte] /\ q.head \in Slot
      /\ q.stored \in 0 .. Capacity /\ q.src \in Seq(Byte) /\ Len(q.src) \in Nat
  BY DEF WState
<1>2. /\ tail \in Nat /\ n \in 0 .. Len(q.src) /\ tail + n <= Capacity
      /\ q.stored + n \in 0 .. Capacity
      /\ Wraps(t) => n = Len(q.src)
      /\ n = Len(q.src) \/ t + n = Capacity
      /\ \A i \in 0 .. q.stored - 1 :
           /\ Index(q.head, i) \in Slot
           /\ ~(Index(q.head, i) >= tail /\ Index(q.head, i) < tail + n)
      /\ \A i \in 0 .. n - 1 : Index(q.head, q.stored + i) = tail + i
  BY <1>1, WriteRunCount, ZenonT(30)
<1>3. /\ SubSeq(q.src, n + 1, Len(q.src)) \in Seq(Byte)
      /\ Len(SubSeq(q.src, n + 1, Len(q.src))) = Len(q.src) - n
  <2>1. n \in 0 .. Len(q.src)
    BY <1>2, Zenon
  <2> HIDE DEF n
  <2> QED
    BY <1>1, <2>1
<1>4. buf \in [Slot -> Byte]
  <2>0. tail \in Nat /\ n \in 0 .. Len(q.src)
    BY <1>2
  <2> HIDE DEF n, tail
  <2>1. \A k \in Slot : k >= tail /\ k < tail + n => k - tail + 1 \in 1 .. Len(q.src)
    BY <1>1, <2>0, CapacityAssumption, SMTT(30) DEF Slot
  <2>2. \A j \in 1 .. Len(q.src) : q.src[j] \in Byte
    BY <1>1
  <2> QED
    BY <1>1, <2>1, <2>2
<1>5. r = [buf |-> buf, head |-> q.head, stored |-> q.stored + n,
           src |-> SubSeq(q.src, n + 1, Len(q.src))]
  BY DEF WriteRun
<1> HIDE DEF n, tail, buf, r
<1>6. r \in WState /\ r.head = q.head /\ r.stored - q.stored = n /\ r.stored = q.stored + n
      /\ r.buf = buf /\ r.src = SubSeq(q.src, n + 1, Len(q.src))
  BY <1>1, <1>2, <1>3, <1>4, <1>5 DEF WState
<1>7. \A i \in 0 .. q.stored - 1 : buf[Index(q.head, i)] = q.buf[Index(q.head, i)]
  BY <1>2 DEF buf
<1>8. \A i \in 0 .. n - 1 : buf[Index(q.head, q.stored + i)] = q.src[i + 1]
  <2> SUFFICES ASSUME NEW i \in 0 .. n - 1 PROVE buf[tail + i] = q.src[i + 1]
    BY <1>2
  <2>1. tail + i \in Slot /\ tail + i >= tail /\ tail + i < tail + n /\ (tail + i) - tail + 1 = i + 1
    BY <1>1, <1>2, CapacityAssumption DEF Slot
  <2> QED
    BY <2>1 DEF buf
<1>9. Len(r.src) = 0 \/ Wraps(q.head + r.stored)
  BY <1>1, <1>2, <1>3, <1>6, CapacityAssumption, SMTT(30) DEF Wraps, Slot
<1>10. Wraps(q.head + q.stored) => Len(r.src) = 0
  BY <1>1, <1>2, <1>3, <1>6
<1> QED
  BY <1>2, <1>3, <1>6, <1>7, <1>8, <1>9, <1>10, ZenonT(30) DEF r

\* The two turns of the copy loop of write() store the whole array, in order.
LEMMA WriteLoop ==
  ASSUME NEW q \in WState, Len(q.src) <= Capacity - q.stored
  PROVE  LET r == WriteRun(WriteRun(q))
         IN  /\ r \in WState /\ r.head = q.head /\ r.stored = q.stored + Len(q.src)
             /\ \A i \in 0 .. q.stored - 1 : r.buf[Index(q.head, i)] = q.buf[Index(q.head, i)]
             /\ \A i \in 0 .. Len(q.src) - 1 :
                  r.buf[Index(q.head, q.stored + i)] = q.src[i + 1]
<1> DEFINE p == WriteRun(q)
           r == WriteRun(p)
           n == p.stored - q.stored
           m == r.stored - p.stored
           len == Len(q.src)
<1>1. /\ p \in WState /\ p.head = q.head
      /\ n \in 0 .. len
      /\ p.src = SubSeq(q.src, n + 1, len)
      /\ Len(p.src) = len - n
      /\ Len(p.src) = 0 \/ Wraps(q.head + p.stored)
  BY WriteRunStores
<1>2. /\ \A i \in 0 .. q.stored - 1 : p.buf[Index(q.head, i)] = q.buf[Index(q.head, i)]
      /\ \A i \in 0 .. n - 1 : p.buf[Index(q.head, q.stored + i)] = q.src[i + 1]
  BY WriteRunStores
<1>3. /\ q.stored \in 0 .. Capacity /\ p.stored \in 0 .. Capacity
      /\ q.src \in Seq(Byte) /\ len \in Nat
  BY <1>1 DEF WState
<1>4. Len(p.src) <= Capacity - p.stored
  <2> HIDE DEF p
  <2>1. n \in 0 .. len /\ Len(p.src) = len - n
    BY <1>1
  <2> QED
    BY <1>3, <2>1, CapacityAssumption, SMTT(30)
<1>5. /\ r \in WState /\ r.head = p.head
      /\ m \in 0 .. Len(p.src)
      /\ Len(r.src) = Len(p.src) - m
      /\ Wraps(p.head + p.stored) => Len(r.src) = 0
  BY <1>1, <1>4, WriteRunStores, SMTT(30)
<1>6. /\ \A i \in 0 .. p.stored - 1 : r.buf[Index(q.head, i)] = p.buf[Index(q.head, i)]
      /\ \A i \in 0 .. m - 1 : r.buf[Index(q.head, p.stored + i)] = p.src[i + 1]
  <2>1. p \in WState /\ p.head = q.head
    BY <1>1
  <2>2. /\ \A i \in 0 .. p.stored - 1 : r.buf[Index(p.head, i)] = p.buf[Index(p.head, i)]
        /\ \A i \in 0 .. m - 1 : r.buf[Index(p.head, p.stored + i)] = p.src[i + 1]
    <3> HIDE DEF p
    <3> QED
      BY <2>1, <1>4, WriteRunStores, SMTT(30)
  <2> HIDE DEF p, r
  <2> QED
    BY <2>1, <2>2
<1>7. r.stored \in 0 .. Capacity
  BY <1>5 DEF WState
<1> HIDE DEF p, r
<1>8. /\ n \in Nat /\ m \in Nat /\ p.stored = q.stored + n
      /\ m = len - n /\ r.stored = q.stored + len
  <2>1. Len(p.src) = 0 \/ Len(r.src) = 0
    BY <1>1, <1>5
  <2>2. n \in 0 .. len /\ Len(p.src) = len - n
    BY <1>1
  <2>3. m \in 0 .. Len(p.src) /\ Len(r.src) = Len(p.src) - m
    BY <1>5
  <2>4. q.stored \in Nat /\ p.stored \in Nat /\ r.stored \in Nat /\ len \in Nat
    BY <1>3, <1>7, CapacityAssumption
  <2> HIDE DEF len
  <2>5. m = Len(p.src)
    BY <2>1, <2>2, <2>3, <2>4, SMTT(30)
  <2>6. m = len - n
    <3> HIDE DEF n, m
    <3> QED
      BY <2>2, <2>5
  <2> DEFINE a == q.stored
             b == p.stored
             c == r.stored
  <2>7. /\ a \in Nat /\ b \in Nat /\ c \in Nat /\ len \in Nat
        /\ b - a \in 0 .. len /\ c - b = len - (b - a)
    BY <2>2, <2>4, <2>6
  <2>8. /\ b - a \in Nat /\ c - b \in Nat /\ b = a + (b - a)
        /\ c - b = len - (b - a) /\ c = a + len
    <3> HIDE DEF a, b, c
    <3> QED
      BY ONLY <2>7
  <2> QED
    BY <2>8
<1> HIDE DEF n, m, len
<1>9. \A i \in 0 .. q.stored - 1 : r.buf[Index(q.head, i)] = q.buf[Index(q.head, i)]
  <2>1. \A i \in 0 .. q.stored - 1 : i \in 0 .. p.stored - 1
    BY <1>3, <1>8
  <2> QED
    BY <1>2, <1>6, <2>1
<1>10. ASSUME NEW i \in 0 .. len - 1
       PROVE  r.buf[Index(q.head, q.stored + i)] = q.src[i + 1]
  <2>1. CASE i < n
    <3>1. i \in 0 .. n - 1 /\ q.stored + i \in 0 .. p.stored - 1
      BY <1>3, <1>8, <2>1
    <3> QED
      BY <1>2, <1>6, <3>1
  <2>2. CASE i >= n
    <3>1. i - n \in 0 .. m - 1 /\ p.stored + (i - n) = q.stored + i
      BY <1>3, <1>8, <2>2
    <3>2. r.buf[Index(q.head, q.stored + i)] = p.src[(i - n) + 1]
      BY <1>6, <3>1
    <3>3. p.src[(i - n) + 1] = q.src[i + 1]
      <4>1. (i - n) + 1 \in 1 .. len - n /\ n + 1 + ((i - n) + 1) - 1 = i + 1
        BY <1>3, <1>8, <2>2
      <4> QED
        BY <1>1, <1>3, <1>8, <4>1 DEF len
    <3> QED
      BY <3>2, <3>3
  <2> QED
    BY <1>8, <2>1, <2>2
<1> QED
  BY <1>1, <1>5, <1>8, <1>9, <1>10 DEF p, r, len

\* A turn of the copy loop of read() hands over the oldest bytes and moves the
\* head behind them.
LEMMA ReadRunTakes ==
  ASSUME NEW q \in RState, mBuffer \in [Slot -> Byte]
  PROVE  LET r == ReadRun(q)
             n == q.stored - r.stored
         IN  /\ r \in RState
             /\ n \in 0 .. q.stored
             /\ q.stored > 0 /\ q.length > 0 => n > 0
             /\ r.dst = q.dst \o [i \in 1 .. n |-> mBuffer[Index(q.head, i - 1)]]
             /\ \A i \in 0 .. r.stored - 1 : Index(r.head, i) = Index(q.head, n + i)
<1> DEFINE oneRun == Lesser(Capacity - q.head, q.stored)
           n == Lesser(q.length, oneRun)
           run == [i \in 1 .. n |-> mBuffer[q.head + i - 1]]
           r == ReadRun(q)
<1>1. /\ q.head \in Slot /\ q.stored \in 0 .. Capacity
      /\ q.length \in Nat /\ q.dst \in Seq(Byte)
  BY DEF RState
<1>2. /\ n \in 0 .. q.stored /\ n <= q.length /\ q.head + n <= Capacity
      /\ q.stored > 0 /\ q.length > 0 => n > 0
  BY <1>1, CapacityAssumption, SMTT(30) DEF Lesser, Slot
<1>3. Advanced(q.head + n) \in Slot
  BY <1>1, <1>2, CapacityAssumption DEF Advanced, Slot
<1>4. \A i \in 0 .. (q.stored - n) - 1 : Index(Advanced(q.head + n), i) = Index(q.head, n + i)
  BY <1>1, <1>2, CapacityAssumption, SMTT(30) DEF Advanced, Slot, Index
<1>5. q.stored - n \in 0 .. Capacity /\ q.length - n \in Nat /\ q.stored - (q.stored - n) = n
  BY <1>1, <1>2, CapacityAssumption
<1> HIDE DEF n
<1>6. \A i \in 1 .. n : q.head + i - 1 \in Slot /\ Index(q.head, i - 1) = q.head + i - 1
  BY <1>1, <1>2, CapacityAssumption, SMTT(30) DEF Slot, Index
<1>7. run = [i \in 1 .. n |-> mBuffer[Index(q.head, i - 1)]]
  BY <1>6
<1>8. run \in Seq(Byte)
  BY <1>2, <1>6
<1>9. q.dst \o run \in Seq(Byte)
  BY <1>1, <1>8
<1> HIDE DEF run
<1>10. r = [head |-> Advanced(q.head + n), stored |-> q.stored - n,
            length |-> q.length - n, dst |-> q.dst \o run]
  BY DEF ReadRun, n, run
<1>11. r \in RState /\ r.stored = q.stored - n /\ r.head = Advanced(q.head + n)
       /\ r.dst = q.dst \o run
  BY <1>3, <1>5, <1>9, <1>10 DEF RState
<1> HIDE DEF r
<1>12. q.stored - r.stored = n
  BY <1>5, <1>11
<1> QED
  BY <1>2, <1>4, <1>7, <1>11, <1>12, SMTT(30) DEF r

\* The two turns of the copy loop of read().
LEMMA ReadLoop ==
  ASSUME NEW q \in RState, mBuffer \in [Slot -> Byte],
         q.dst = <<>>, q.stored > 0, q.length > 0
  PROVE  LET r == ReadRun(ReadRun(q))
             n == q.stored - r.stored
         IN  /\ r \in RState
             /\ n \in 1 .. q.stored
             /\ r.dst = [i \in 1 .. n |-> mBuffer[Index(q.head, i - 1)]]
             /\ \A i \in 0 .. r.stored - 1 : Index(r.head, i) = Index(q.head, n + i)
<1> DEFINE p == ReadRun(q)
           r == ReadRun(p)
           n == q.stored - p.stored
           m == p.stored - r.stored
           one == [i \in 1 .. n |-> mBuffer[Index(q.head, i - 1)]]
           two == [i \in 1 .. m |-> mBuffer[Index(p.head, i - 1)]]
<1>1. /\ p \in RState
      /\ n \in 0 .. q.stored /\ n > 0
  BY ReadRunTakes
<1>2. /\ p.dst = q.dst \o one
      /\ \A i \in 0 .. p.stored - 1 : Index(p.head, i) = Index(q.head, n + i)
  BY ReadRunTakes, ZenonT(30)
<1>3. r \in RState /\ m \in 0 .. p.stored
  BY <1>1, ReadRunTakes
<1>4. /\ r.dst = p.dst \o two
      /\ \A i \in 0 .. r.stored - 1 : Index(r.head, i) = Index(p.head, m + i)
  BY <1>1, ReadRunTakes, ZenonT(30)
<1>5. /\ q.stored \in Nat /\ p.stored \in Nat /\ r.stored \in Nat
      /\ q.stored <= Capacity /\ q.head \in Slot
  BY <1>1, <1>3, CapacityAssumption DEF RState
<1> HIDE DEF p, r
<1>6. /\ n \in Nat /\ m \in Nat /\ n > 0 /\ n + m <= q.stored
      /\ p.stored = q.stored - n /\ r.stored = p.stored - m
  BY <1>1, <1>3, <1>5
<1> HIDE DEF n, m
<1>7. \A i \in 0 .. r.stored - 1 : Index(r.head, i) = Index(q.head, (n + m) + i)
  <2>1. \A i \in 0 .. r.stored - 1 : m + i \in 0 .. p.stored - 1 /\ n + (m + i) = (n + m) + i
    BY <1>5, <1>6, SMTT(30)
  <2> QED
    BY <1>2, <1>4, <2>1
<1>8. \A j \in 0 .. q.stored - 1 : mBuffer[Index(q.head, j)] \in Byte
  <2>1. \A j \in 0 .. q.stored - 1 : Index(q.head, j) \in Slot
    BY <1>5, CapacityAssumption, SMTT(30) DEF Index, Slot
  <2> QED
    BY <2>1
<1>9. \A i \in 1 .. m : Index(p.head, i - 1) = Index(q.head, (n + i) - 1)
  <2>1. \A i \in 1 .. m : i - 1 \in 0 .. p.stored - 1 /\ n + (i - 1) = (n + i) - 1
    BY <1>5, <1>6, SMTT(30)
  <2> QED
    BY <1>2, <2>1
<1>10. r.dst = [i \in 1 .. n + m |-> mBuffer[Index(q.head, i - 1)]]
  <2>1. one \in Seq(Byte) /\ Len(one) = n
    <3>1. \A i \in 1 .. n : i - 1 \in 0 .. q.stored - 1
      BY <1>5, <1>6, SMTT(30)
    <3> QED
      BY <1>6, <1>8, <3>1
  <2>2. two \in Seq(Byte) /\ Len(two) = m
    <3>1. \A i \in 1 .. m : (n + i) - 1 \in 0 .. q.stored - 1
      BY <1>5, <1>6, SMTT(30)
    <3>2. \A i \in 1 .. m : mBuffer[Index(p.head, i - 1)] \in Byte
      BY <1>8, <1>9, <3>1
    <3> QED
      BY <1>6, <3>2
  <2>3. \A i \in 1 .. m : two[i] = mBuffer[Index(q.head, (n + i) - 1)]
    BY <1>9
  <2>4. \A i \in 1 .. n : one[i] = mBuffer[Index(q.head, i - 1)]
    OBVIOUS
  <2> HIDE DEF one, two
  <2>5. r.dst = one \o two
    BY <1>2, <1>4, <2>1, <2>2
  <2>6. one \o two \in Seq(Byte) /\ Len(one \o two) = n + m
    BY <2>1, <2>2, SMTT(30)
  <2>7. ASSUME NEW i \in 1 .. n + m PROVE (one \o two)[i] = mBuffer[Index(q.head, i - 1)]
    <3>1. CASE i <= n
      <4>1. i \in 1 .. n /\ (one \o two)[i] = one[i]
        BY <1>6, <2>1, <2>2, <3>1
      <4> QED
        BY <2>4, <4>1
    <3>2. CASE i > n
      <4>1. i - n \in 1 .. m /\ (n + (i - n)) - 1 = i - 1 /\ (one \o two)[i] = two[i - n]
        BY <1>6, <2>1, <2>2, <3>2
      <4> QED
        BY <2>3, <4>1
    <3>3. i <= n \/ i > n
      BY <1>6
    <3> QED
      BY <3>1, <3>2, <3>3, ZenonT(30)
  <2> DEFINE all == [i \in 1 .. n + m |-> mBuffer[Index(q.head, i - 1)]]
  <2>8. all \in Seq(Byte) /\ Len(all) = n + m
    <3>1. \A i \in 1 .. n + m : i - 1 \in 0 .. q.stored - 1
      BY <1>5, <1>6
    <3> QED
      BY <1>6, <1>8, <3>1
  <2>9. \A i \in 1 .. n + m : all[i] = mBuffer[Index(q.head, i - 1)]
    OBVIOUS
  <2> HIDE DEF all
  <2> QED
    BY <2>5, <2>6, <2>7, <2>8, <2>9, SeqEqual, ZenonT(30) DEF all
<1>11. q.stored - r.stored = n + m /\ n + m \in 1 .. q.stored
  BY <1>5, <1>6, SMTT(30)
<1> QED
  BY <1>3, <1>7, <1>10, <1>11 DEF p, r

-----------------------------------------------------------------------------
\* TypeOK together with WaitersHaveReason is inductive: a waiting thread's
\* condition can only be falsified by the other thread, which then notifies.
Inv == TypeOK /\ WaitersHaveReason

\* A new queue is empty and nobody waits for it.
LEMMA InitInv == Init => Inv
  BY ByteAssumption, CapacityAssumption
  DEF Init, Inv, TypeOK, WaitersHaveReason, Slot, Thread, Producer, Consumer

\* What write() does with the monitor, in terms of the loop lemma.
LEMMA WriteChunkEffect ==
  ASSUME Inv, WriteChunk
  PROVE  LET n == Lesser(Len(toWrite), Capacity - mStoredBytes)
         IN  /\ n \in 1 .. Len(toWrite) \/ toWrite = <<>>
             /\ mStoredBytes' = mStoredBytes + n /\ mStoredBytes' \in 0 .. Capacity
             /\ mBuffer' \in [Slot -> Byte]
             /\ toWrite' = SubSeq(toWrite, n + 1, Len(toWrite)) /\ toWrite' \in Seq(Byte)
             /\ toWrite' # <<>> => mStoredBytes' = Capacity
             /\ \A i \in 0 .. mStoredBytes - 1 :
                  mBuffer'[Index(mHead, i)] = mBuffer[Index(mHead, i)]
             /\ \A i \in 0 .. n - 1 :
                  mBuffer'[Index(mHead, mStoredBytes + i)] = toWrite[i + 1]
<1> DEFINE n == Lesser(Len(toWrite), Capacity - mStoredBytes)
           src == SubSeq(toWrite, 1, n)
           start == [buf |-> mBuffer, head |-> mHead, stored |-> mStoredBytes, src |-> src]
           r == WriteRun(WriteRun(start))
<1>1. /\ mBuffer' = r.buf /\ mStoredBytes' = r.stored
      /\ toWrite' = SubSeq(toWrite, n + 1, Len(toWrite)) /\ mStoredBytes # Capacity
  BY DEF WriteChunk
<1>2. /\ mBuffer \in [Slot -> Byte] /\ mHead \in Slot /\ mStoredBytes \in 0 .. Capacity
      /\ toWrite \in Seq(Byte) /\ Len(toWrite) \in Nat
  BY DEF Inv, TypeOK
<1>3. /\ n \in 0 .. Len(toWrite) /\ n <= Capacity - mStoredBytes
      /\ n = Len(toWrite) \/ n = Capacity - mStoredBytes
      /\ n \in 1 .. Len(toWrite) \/ Len(toWrite) = 0
  BY <1>1, <1>2, CapacityAssumption DEF Lesser
<1> HIDE DEF n
<1>4. /\ src \in Seq(Byte) /\ Len(src) = n /\ \A i \in 0 .. n - 1 : src[i + 1] = toWrite[i + 1]
      /\ SubSeq(toWrite, n + 1, Len(toWrite)) \in Seq(Byte)
      /\ Len(SubSeq(toWrite, n + 1, Len(toWrite))) = Len(toWrite) - n
  BY <1>2, <1>3
<1> HIDE DEF src
<1>5. start \in WState /\ Len(start.src) <= Capacity - start.stored
  BY <1>2, <1>3, <1>4 DEF WState
<1>6. /\ r \in WState /\ r.stored = mStoredBytes + n
      /\ \A i \in 0 .. mStoredBytes - 1 : r.buf[Index(mHead, i)] = mBuffer[Index(mHead, i)]
      /\ \A i \in 0 .. n - 1 : r.buf[Index(mHead, mStoredBytes + i)] = src[i + 1]
  BY <1>4, <1>5, WriteLoop, SMTT(30)
<1> HIDE DEF r
<1>7. toWrite' # <<>> => mStoredBytes' = Capacity
  BY <1>1, <1>2, <1>3, <1>4, <1>6, CapacityAssumption
<1> QED
  BY <1>1, <1>2, <1>3, <1>4, <1>6, <1>7, SMTT(30) DEF n, WState

\* What read() does with the monitor, in terms of the loop lemma.
LEMMA ReadChunkEffect ==
  ASSUME Inv, ReadChunk, room > 0
  PROVE  /\ mHead' \in Slot /\ out' \in Seq(Byte)
         /\ mStoredBytes' \in 0 .. Capacity /\ mStoredBytes' < mStoredBytes
         /\ out' = [i \in 1 .. mStoredBytes - mStoredBytes' |-> mBuffer[Index(mHead, i - 1)]]
         /\ \A i \in 0 .. mStoredBytes' - 1 :
              Index(mHead', i) = Index(mHead, (mStoredBytes - mStoredBytes') + i)
<1> DEFINE start == [head |-> mHead, stored |-> mStoredBytes, length |-> room, dst |-> <<>>]
           r == ReadRun(ReadRun(start))
<1>1. mHead' = r.head /\ mStoredBytes' = r.stored /\ out' = r.dst /\ mStoredBytes > 0
  BY DEF ReadChunk
<1>2. start \in RState /\ mBuffer \in [Slot -> Byte] /\ mStoredBytes \in 0 .. Capacity
  BY DEF Inv, TypeOK, RState
<1>3. /\ r \in RState
      /\ mStoredBytes - r.stored \in 1 .. mStoredBytes
      /\ r.dst = [i \in 1 .. mStoredBytes - r.stored |-> mBuffer[Index(mHead, i - 1)]]
      /\ \A i \in 0 .. r.stored - 1 :
           Index(r.head, i) = Index(mHead, (mStoredBytes - r.stored) + i)
  BY <1>1, <1>2, ReadLoop
<1> HIDE DEF r
<1>4. r.head \in Slot /\ r.stored \in 0 .. Capacity /\ r.dst \in Seq(Byte)
  BY <1>3 DEF RState
<1>5. r.stored < mStoredBytes
  BY <1>2, <1>3, <1>4, SMTT(30)
<1> QED
  BY <1>1, <1>3, <1>4, <1>5

\* Neither request is ever empty.
IInv ==
  /\ Inv
  /\ pc[Consumer] # "idle" => room > 0
  /\ pc[Producer] = "idle" <=> toWrite = <<>>

\* Every step of the two threads, and a close(), keeps the invariant.
LEMMA NextInv == IInv /\ [Next]_vars => IInv'
<1> SUFFICES ASSUME IInv, [Next]_vars PROVE IInv'
  OBVIOUS
<1> USE DEF IInv, Inv, TypeOK, WaitersHaveReason, Thread, Producer, Consumer
<1>1. CASE WriteCall
  <2>1. toWrite' \in Seq(Byte)
    BY <1>1, MaxWriteAssumption DEF WriteCall
  <2> QED
    BY <1>1, <2>1 DEF WriteCall
<1>2. CASE WriteClosed
  BY <1>2 DEF WriteClosed
<1>3. CASE WriteWait
  BY <1>3 DEF WriteWait
<1>4. CASE WriteChunk
  <2>1. /\ mStoredBytes' \in 0 .. Capacity /\ mBuffer' \in [Slot -> Byte]
        /\ toWrite' \in Seq(Byte) /\ (toWrite' # <<>> => mStoredBytes' = Capacity)
    BY <1>4, WriteChunkEffect
  <2>2. PICK p \in (IF WasEmpty(mStoredBytes, mStoredBytes') THEN Notify(pc) ELSE {pc}) :
          pc' = [p EXCEPT ![Producer] = IF toWrite' = <<>> THEN "idle" ELSE "waiting"]
    BY <1>4, ZenonT(30) DEF WriteChunk
  <2>3. /\ p \in [Thread -> {"idle", "entering", "waiting"}]
        /\ p[Consumer] # "waiting" /\ (p[Consumer] # "idle" => pc[Consumer] # "idle")
    BY <1>4, <2>2, CapacityAssumption DEF Notify, WriteChunk, WasEmpty
  <2> QED
    BY <1>4, <2>1, <2>2, <2>3, ZenonT(30) DEF WriteChunk
<1>5. CASE ReadCall
  BY <1>5, MaxReadAssumption DEF ReadCall
<1>6. CASE ReadClosed
  BY <1>6 DEF ReadClosed
<1>7. CASE ReadEmpty
  BY <1>7 DEF ReadEmpty
<1>8. CASE ReadChunk
  <2>1. /\ mHead' \in Slot /\ out' \in Seq(Byte)
        /\ mStoredBytes' \in 0 .. Capacity /\ mStoredBytes' < mStoredBytes
    BY <1>8, ReadChunkEffect, ZenonT(30) DEF ReadChunk
  <2>2. PICK p \in (IF WasFull(mStoredBytes, mStoredBytes') THEN Notify(pc) ELSE {pc}) :
          pc' = [p EXCEPT ![Consumer] = "idle"]
    BY <1>8, ZenonT(30) DEF ReadChunk
  <2>3. /\ p \in [Thread -> {"idle", "entering", "waiting"}] /\ p[Producer] # "waiting"
        /\ p[Producer] = "idle" <=> pc[Producer] = "idle"
    BY <1>8, <2>2, CapacityAssumption DEF Notify, ReadChunk, WasFull
  <2> QED
    BY <1>8, <2>1, <2>2, <2>3, ZenonT(30) DEF ReadChunk
<1>9. CASE \E t \in Thread : SpuriousWakeup(t)
  BY <1>9 DEF SpuriousWakeup
<1>10. CASE Close
  <2>1. \A t \in Thread : pc'[t] # "waiting"
    BY <1>10, CapacityAssumption DEF Close, Notify
  <2>2. pc' \in [Thread -> {"idle", "entering", "waiting"}]
        /\ (pc'[Consumer] # "idle" => pc[Consumer] # "idle")
        /\ (pc'[Producer] = "idle" <=> pc[Producer] = "idle")
    BY <1>10 DEF Close, Notify
  <2> QED
    BY <1>10, <2>1, <2>2, ZenonT(30) DEF Close
<1>11. CASE UNCHANGED vars
  BY <1>11 DEF vars
<1> QED
  BY <1>1, <1>2, <1>3, <1>4, <1>5, <1>6, <1>7, <1>8, <1>9, <1>10, <1>11
  DEF Next, ProducerStep, ConsumerStep

-----------------------------------------------------------------------------
\* Every reachable state of ByteQueue is well typed: the ring indices computed
\* by the copy loops of read() and write() never leave mBuffer.
THEOREM TypeCorrect == Spec => []TypeOK
<1>1. Init => IInv
  BY InitInv DEF IInv, Init, Consumer, Thread, Producer
<1> QED
  BY <1>1, NextInv, PTL DEF Spec, IInv, Inv

\* For every ring size and every request: no thread waits in vain, so the single
\* notify() of read(), write() and close() is enough for two threads.
THEOREM NoLostWakeup == Spec => []WaitersHaveReason
<1>1. Init => IInv
  BY InitInv DEF IInv, Init, Consumer, Thread, Producer
<1> QED
  BY <1>1, NextInv, PTL DEF Spec, IInv, Inv

-----------------------------------------------------------------------------
(* The ring implements the byte stream. *)

\* What the ring holds, byte by byte, in the order read() will return it.
LEMMA RingContent ==
  ASSUME NEW buf \in [Slot -> Byte], NEW head \in Slot, NEW stored \in 0 .. Capacity
  PROVE  LET c == [i \in 1 .. stored |-> buf[Index(head, i - 1)]]
         IN  /\ c \in Seq(Byte) /\ Len(c) = stored
             /\ \A i \in 1 .. stored : c[i] = buf[Index(head, i - 1)]
<1>1. \A i \in 1 .. stored : Index(head, i - 1) \in Slot
  BY CapacityAssumption DEF Index, Slot
<1>2. stored \in Nat
  BY CapacityAssumption
<1> QED
  BY <1>1, <1>2

\* The ring always holds a sequence of bytes.
LEMMA ContentTyped ==
  ASSUME IInv, IInv'
  PROVE  /\ Content \in Seq(Byte) /\ Len(Content) = mStoredBytes
         /\ \A i \in 1 .. mStoredBytes : Content[i] = mBuffer[Index(mHead, i - 1)]
         /\ Content' \in Seq(Byte) /\ Len(Content') = mStoredBytes'
         /\ \A i \in 1 .. mStoredBytes' : Content'[i] = mBuffer'[Index(mHead', i - 1)]
<1>1. /\ mBuffer \in [Slot -> Byte] /\ mHead \in Slot /\ mStoredBytes \in 0 .. Capacity
      /\ mBuffer' \in [Slot -> Byte] /\ mHead' \in Slot /\ mStoredBytes' \in 0 .. Capacity
  BY DEF IInv, Inv, TypeOK
<1>2. Content' = [i \in 1 .. mStoredBytes' |-> mBuffer'[Index(mHead', i - 1)]]
  BY DEF Content, Index
<1> QED
  BY <1>1, <1>2, RingContent, SMTT(30) DEF Content

\* A step that leaves the ring alone leaves the stream alone.
LEMMA ContentUnchanged ==
  UNCHANGED <<mBuffer, mHead, mStoredBytes>> => UNCHANGED Content
  BY DEF Content, Index

\* A pass of write() through the monitor puts a prefix of its array behind what
\* is stored.
LEMMA WriteChunkPuts ==
  ASSUME IInv, IInv', WriteChunk
  PROVE  Stream!Put
<1> DEFINE n == Lesser(Len(toWrite), Capacity - mStoredBytes)
           new == SubSeq(toWrite, 1, n)
<1>1. /\ n \in 1 .. Len(toWrite)
      /\ mStoredBytes' = mStoredBytes + n /\ mStoredBytes' \in 0 .. Capacity
      /\ toWrite' = SubSeq(toWrite, n + 1, Len(toWrite))
  BY WriteChunkEffect, ZenonT(30) DEF IInv, WriteChunk
<1>2. /\ \A i \in 0 .. mStoredBytes - 1 :
           mBuffer'[Index(mHead, i)] = mBuffer[Index(mHead, i)]
      /\ \A i \in 0 .. n - 1 : mBuffer'[Index(mHead, mStoredBytes + i)] = toWrite[i + 1]
  BY WriteChunkEffect DEF IInv
<1>3. mHead' = mHead /\ mOpen /\ UNCHANGED <<mOpen, out>>
  BY DEF WriteChunk
<1>4. /\ Content \in Seq(Byte) /\ Len(Content) = mStoredBytes
      /\ \A i \in 1 .. mStoredBytes : Content[i] = mBuffer[Index(mHead, i - 1)]
      /\ Content' \in Seq(Byte) /\ Len(Content') = mStoredBytes'
      /\ \A i \in 1 .. mStoredBytes' : Content'[i] = mBuffer'[Index(mHead, i - 1)]
  BY <1>3, ContentTyped
<1>5. mStoredBytes \in Nat /\ toWrite \in Seq(Byte) /\ Len(toWrite) \in Nat
  BY CapacityAssumption DEF IInv, Inv, TypeOK
<1> HIDE DEF n
<1>6. /\ new \in Seq(Byte) /\ Len(new) = n
      /\ \A i \in 1 .. n : new[i] = toWrite[i]
  BY <1>1, <1>5
<1> HIDE DEF new
<1>7. Content' = Content \o new
  <2>1. /\ Content \o new \in Seq(Byte) /\ Len(Content \o new) = mStoredBytes + n
    <3>1. Content \in Seq(Byte) /\ Len(Content) = mStoredBytes
      BY <1>4
    <3>2. new \in Seq(Byte) /\ Len(new) = n
      BY <1>6
    <3> QED
      BY <3>1, <3>2
  <2>2. ASSUME NEW i \in 1 .. mStoredBytes' PROVE Content'[i] = (Content \o new)[i]
    <3>1. CASE i <= mStoredBytes
      <4>1. i \in 1 .. mStoredBytes /\ i - 1 \in 0 .. mStoredBytes - 1
        BY <1>5, <3>1
      <4>2. (Content \o new)[i] = Content[i]
        BY <1>4, <1>6, <4>1
      <4> QED
        BY <1>2, <1>4, <4>1, <4>2
    <3>2. CASE i > mStoredBytes
      <4> DEFINE j == i - mStoredBytes
      <4>1. /\ j \in 1 .. n /\ j - 1 \in 0 .. n - 1 /\ mStoredBytes + (j - 1) = i - 1
            /\ (j - 1) + 1 = j /\ i = mStoredBytes + j
        BY <1>1, <1>5, <3>2
      <4>2. (Content \o new)[i] = new[j]
        BY <1>4, <1>6, <4>1, SMTT(30)
      <4> HIDE DEF j
      <4>3. Content'[i] = mBuffer'[Index(mHead, mStoredBytes + (j - 1))]
        BY <1>4, <4>1
      <4>4. mBuffer'[Index(mHead, mStoredBytes + (j - 1))] = toWrite[(j - 1) + 1]
        BY <1>2, <4>1
      <4> QED
        BY <1>6, <4>1, <4>2, <4>3, <4>4
    <3>3. i <= mStoredBytes \/ i > mStoredBytes
      BY <1>1, <1>5
    <3> QED
      BY <3>1, <3>2, <3>3, ZenonT(30)
  <2> QED
    BY <1>1, <1>4, <2>1, <2>2, SeqEqual, SMTT(30)
<1>8. Len(Content) + n <= Capacity
  BY <1>1, <1>4, CapacityAssumption
<1> QED
  BY <1>1, <1>3, <1>7, <1>8, ZenonT(30) DEF Stream!Put, new

\* A read() takes the oldest bytes, and at least one.
LEMMA ReadChunkTakes ==
  ASSUME IInv, IInv', ReadChunk
  PROVE  Stream!Take
<1> DEFINE n == mStoredBytes - mStoredBytes'
<1>1. /\ mStoredBytes' \in 0 .. Capacity /\ mStoredBytes' < mStoredBytes
      /\ out' = [i \in 1 .. n |-> mBuffer[Index(mHead, i - 1)]]
  BY ReadChunkEffect, ZenonT(30) DEF IInv, ReadChunk
<1>2. \A i \in 0 .. mStoredBytes' - 1 : Index(mHead', i) = Index(mHead, n + i)
  BY ReadChunkEffect, ZenonT(30) DEF IInv, ReadChunk
<1>3. mBuffer' = mBuffer /\ mOpen /\ UNCHANGED <<toWrite, mOpen>>
  BY DEF ReadChunk
<1>4. /\ Content \in Seq(Byte) /\ Len(Content) = mStoredBytes
      /\ \A i \in 1 .. mStoredBytes : Content[i] = mBuffer[Index(mHead, i - 1)]
      /\ Content' \in Seq(Byte) /\ Len(Content') = mStoredBytes'
      /\ \A i \in 1 .. mStoredBytes' : Content'[i] = mBuffer[Index(mHead', i - 1)]
  BY <1>3, ContentTyped
<1>5. mStoredBytes \in Nat /\ mStoredBytes' \in Nat /\ out' \in Seq(Byte)
  BY CapacityAssumption DEF IInv, Inv, TypeOK
<1>6. n \in 1 .. mStoredBytes /\ mStoredBytes' = mStoredBytes - n
  <2>1. mStoredBytes' < mStoredBytes
    BY <1>1
  <2>2. \A a, b \in Nat : b < a => a - b \in 1 .. a /\ b = a - (a - b)
    OBVIOUS
  <2> QED
    BY <1>5, <2>1, <2>2, ZenonT(30)
<1> HIDE DEF n
<1>7. out' = SubSeq(Content, 1, n)
  <2>1. /\ SubSeq(Content, 1, n) \in Seq(Byte) /\ Len(SubSeq(Content, 1, n)) = n
        /\ \A i \in 1 .. n : SubSeq(Content, 1, n)[i] = Content[i]
    BY <1>4, <1>5, <1>6
  <2>2. \A i \in 1 .. n : i \in 1 .. mStoredBytes /\ out'[i] = mBuffer[Index(mHead, i - 1)]
    BY <1>1, <1>5, <1>6
  <2>3. Len(out') = n
    BY <1>1, <1>5, <1>6
  <2>4. \A i \in 1 .. n : out'[i] = SubSeq(Content, 1, n)[i]
    BY <1>4, <2>1, <2>2, Zenon
  <2> QED
    BY <1>5, <2>1, <2>3, <2>4, SeqEqual, Zenon
<1>8. Content' = SubSeq(Content, n + 1, Len(Content))
  <2> DEFINE rest == SubSeq(Content, n + 1, Len(Content))
  <2>1. /\ rest \in Seq(Byte) /\ Len(rest) = mStoredBytes'
        /\ \A i \in 1 .. mStoredBytes' : rest[i] = Content[n + i]
    BY <1>4, <1>5, <1>6
  <2>2. \A i \in 1 .. mStoredBytes' :
          n + i \in 1 .. mStoredBytes /\ i - 1 \in 0 .. mStoredBytes' - 1
          /\ (n + i) - 1 = n + (i - 1)
    BY <1>5, <1>6
  <2> HIDE DEF rest
  <2>3. ASSUME NEW i \in 1 .. mStoredBytes' PROVE Content'[i] = rest[i]
    <3>1. Content'[i] = mBuffer[Index(mHead, n + (i - 1))]
      BY <1>2, <1>4, <2>2
    <3>2. rest[i] = mBuffer[Index(mHead, (n + i) - 1)]
      BY <1>4, <2>1, <2>2
    <3> QED
      BY <2>2, <3>1, <3>2
  <2> QED
    BY <1>4, <2>1, <2>3, SeqEqual, ZenonT(30) DEF rest
<1> QED
  BY <1>3, <1>4, <1>6, <1>7, <1>8 DEF Stream!Take

\* Every step of the ring is a step of the stream or leaves it alone.
LEMMA StepsImplement == IInv /\ IInv' /\ [Next]_vars => [Stream!SNext]_(Stream!svars)
<1> SUFFICES ASSUME IInv, IInv', [Next]_vars PROVE Stream!SNext \/ UNCHANGED Stream!svars
  OBVIOUS
<1> USE DEF Stream!SNext, Stream!svars
<1>1. CASE WriteCall
  BY <1>1, ContentUnchanged DEF WriteCall, Stream!Offer, IInv, Inv, TypeOK
<1>2. CASE WriteClosed
  BY <1>2, ContentUnchanged DEF WriteClosed, Stream!GiveUp
<1>3. CASE WriteWait
  BY <1>3, ContentUnchanged DEF WriteWait
<1>4. CASE WriteChunk
  BY <1>4, WriteChunkPuts
<1>5. CASE ReadCall
  BY <1>5, ContentUnchanged DEF ReadCall
<1>6. CASE ReadClosed
  BY <1>6, ContentUnchanged DEF ReadClosed
<1>7. CASE ReadEmpty
  BY <1>7, ContentUnchanged DEF ReadEmpty
<1>8. CASE ReadChunk
  BY <1>8, ReadChunkTakes
<1>9. CASE \E t \in Thread : SpuriousWakeup(t)
  BY <1>9, ContentUnchanged DEF SpuriousWakeup
<1>10. CASE Close
  BY <1>10, ContentUnchanged DEF Close, Stream!Close
<1>11. CASE UNCHANGED vars
  BY <1>11, ContentUnchanged DEF vars
<1> QED
  BY <1>1, <1>2, <1>3, <1>4, <1>5, <1>6, <1>7, <1>8, <1>9, <1>10, <1>11
  DEF Next, ProducerStep, ConsumerStep

\* read() returns what write() was given, in order and without gaps, for a ring
\* of any size: ByteQueue.java implements the byte stream.
THEOREM Implements == Spec => ImplementsByteStream
<1>1. Init => IInv
  BY InitInv DEF IInv, Init, Consumer, Thread, Producer
<1>2. Init => Stream!SInit
  BY DEF Init, Stream!SInit, Content
<1> QED
  BY <1>1, <1>2, NextInv, StepsImplement, PTL DEF Spec, Stream!SSpec, ImplementsByteStream
=============================================================================
