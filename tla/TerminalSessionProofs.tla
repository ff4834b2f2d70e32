------------------------ MODULE TerminalSessionProofs ------------------------
(***************************************************************************)
(* Proofs about module TerminalSession, for any sessions, descriptors and  *)
(* buffer size: the inductive invariant, and what follows from it.         *)
(***************************************************************************)
EXTENDS TerminalSession, TLAPS

USE DEF appVars, kernelVars, processVars, queueVars, readerVars, writerVars, mainVars

\* The session whose exit the main thread is handling.
Exiting(s) == main \in {"exit reply", "cleanup"} /\ mainSession = s

\* An exit message of session s is at position i of the message queue.
ExitAt(i, s) == messages[i].session = s /\ messages[i].what = "exited"

\* A shell's exit is reported once: by one message, or by the handling of it, or
\* by the onSessionFinished that follows.
ExitOnce ==
  \A s \in Session :
    /\ \A i, j \in 1 .. Len(messages) : ExitAt(i, s) /\ ExitAt(j, s) => i = j
    /\ \A i \in 1 .. Len(messages) : ExitAt(i, s) => ~Exiting(s) /\ finished[s] = 0
    /\ Exiting(s) => finished[s] = 0

\* Whatever step of its exit a session is at, its waiter thread has ended and
\* its shell has been reaped; once it has finished its queues are closed.
ExitOrder ==
  \A s \in Session :
    /\ Exiting(s) \/ finished[s] > 0 \/ (\E i \in 1 .. Len(messages) : ExitAt(i, s))
         => waiter[s] = "done" /\ shell[s] = "reaped" /\ mEmulator[s]
    /\ finished[s] > 0 => ~mOpen[s]

\* A session has a pid, a descriptor and threads only once it has an emulator,
\* and keeps the pid until onSessionFinished.
Started ==
  \A s \in Session :
    /\ ~mEmulator[s] => mShellPid[s] = 0 /\ reader[s] = "none" /\ writer[s] = "none" /\ waiter[s] = "none"
    /\ mEmulator[s] => mTerminalFileDescriptor[s] \in Fd
    /\ mEmulator[s] /\ finished[s] = 0 => mShellPid[s] = 1

IInv == TypeOK /\ OutputIsNoticed /\ DescriptorsOwned /\ Started /\ ExitOnce /\ ExitOrder

\* The message handled and the messages left behind it.
LEMMA HeadTail ==
  ASSUME NEW S, NEW q \in Seq(S), q # <<>>
  PROVE  /\ Len(q) \in Nat \ {0}
         /\ Head(q) \in S /\ Head(q) = q[1]
         /\ Tail(q) \in Seq(S) /\ Len(Tail(q)) = Len(q) - 1
         /\ \A i \in 1 .. Len(q) - 1 : Tail(q)[i] = q[i + 1]
OBVIOUS

\* A message sent goes behind the others.
LEMMA Appended ==
  ASSUME NEW S, NEW q \in Seq(S), NEW m \in S
  PROVE  /\ Append(q, m) \in Seq(S) /\ Len(Append(q, m)) = Len(q) + 1 /\ Len(q) \in Nat
         /\ \A i \in 1 .. Len(q) : Append(q, m)[i] = q[i]
         /\ Append(q, m)[Len(q) + 1] = m
OBVIOUS

\* Every step keeps the types.
LEMMA NextTypeOK ==
  ASSUME IInv, [Next]_vars
  PROVE  TypeOK'
<1> USE SizeAssumption, PtySizeAssumption, NoPtyAssumption, BoundsAssumption
<1>1. ASSUME NEW s \in Session, ProcessOutput(s)
      PROVE  TypeOK'
  <2>1. AppTypeOK' /\ BytesTypeOK' /\ ThreadTypeOK' /\ MainTypeOK'
    BY <1>1, Zenon DEF IInv, TypeOK, AppTypeOK, BytesTypeOK, ThreadTypeOK, MainTypeOK,
       ProcessOutput
  <2>2. KernelTypeOK'
    BY <1>1 DEF IInv, TypeOK, KernelTypeOK, ProcessOutput
  <2>3. ProcessTypeOK'
    BY <1>1 DEF IInv, TypeOK, ProcessTypeOK, ProcessOutput
  <2> QED
    BY <2>1, <2>2, <2>3, Zenon DEF TypeOK
<1>2. ASSUME NEW s \in Session, ProcessInput(s)
      PROVE  TypeOK'
  <2>1. AppTypeOK' /\ ProcessTypeOK' /\ BytesTypeOK' /\ ThreadTypeOK' /\ MainTypeOK'
    BY <1>2, Zenon DEF IInv, TypeOK, AppTypeOK, ProcessTypeOK, BytesTypeOK, ThreadTypeOK,
       MainTypeOK, ProcessInput
  <2>2. KernelTypeOK'
    BY <1>2 DEF IInv, TypeOK, KernelTypeOK, ProcessInput
  <2> QED
    BY <2>1, <2>2, Zenon DEF TypeOK
<1>3. ASSUME NEW s \in Session, Background(s)
      PROVE  TypeOK'
  <2>1. AppTypeOK' /\ KernelTypeOK' /\ BytesTypeOK' /\ ThreadTypeOK' /\ MainTypeOK'
    BY <1>3, Zenon DEF IInv, TypeOK, AppTypeOK, KernelTypeOK, BytesTypeOK, ThreadTypeOK,
       MainTypeOK, Background
  <2>2. ProcessTypeOK'
    BY <1>3, Zenon DEF IInv, TypeOK, ProcessTypeOK, Background
  <2> QED
    BY <2>1, <2>2, Zenon DEF TypeOK
<1>4. ASSUME NEW s \in Session, ShellExit(s)
      PROVE  TypeOK'
  <2>1. AppTypeOK' /\ KernelTypeOK' /\ BytesTypeOK' /\ ThreadTypeOK' /\ MainTypeOK'
    BY <1>4, Zenon DEF IInv, TypeOK, AppTypeOK, KernelTypeOK, BytesTypeOK, ThreadTypeOK,
       MainTypeOK, ShellExit
  <2>2. ProcessTypeOK'
    BY <1>4, Zenon DEF IInv, TypeOK, ProcessTypeOK, ShellExit
  <2> QED
    BY <2>1, <2>2, Zenon DEF TypeOK
<1>5. ASSUME NEW s \in Session, ReaderCall(s)
      PROVE  TypeOK'
  <2>1. AppTypeOK' /\ KernelTypeOK' /\ ProcessTypeOK' /\ BytesTypeOK' /\ MainTypeOK'
    BY <1>5, Zenon DEF IInv, TypeOK, AppTypeOK, KernelTypeOK, ProcessTypeOK, BytesTypeOK,
       MainTypeOK, ReaderCall
  <2>2. ThreadTypeOK'
    <3>1. mTerminalFileDescriptor[s] \in Fd
      BY <1>5, Zenon DEF IInv, Started, ReaderCall
    <3>2. fdTable[mTerminalFileDescriptor[s]] \in Session \cup {NoPty}
      BY <3>1, Zenon DEF IInv, TypeOK, KernelTypeOK
    <3> QED
      BY <1>5, <3>2, Zenon DEF IInv, TypeOK, ThreadTypeOK, ReaderCall
  <2> QED
    BY <2>1, <2>2, Zenon DEF TypeOK
<1>6. ASSUME NEW s \in Session, ReaderReturn(s)
      PROVE  TypeOK'
  <2>1. AppTypeOK' /\ ProcessTypeOK' /\ MainTypeOK'
    BY <1>6, Zenon DEF IInv, TypeOK, AppTypeOK, ProcessTypeOK, MainTypeOK, ReaderReturn
  <2>2. KernelTypeOK'
    BY <1>6 DEF IInv, TypeOK, KernelTypeOK, ThreadTypeOK, ReaderReturn, Lesser, ReaderBuffer
  <2>3. BytesTypeOK'
    <3>1. UNCHANGED <<toTerminal, toProcess, writerBytes, mainBytes, shown, typed>>
      BY <1>6, Zenon DEF ReaderReturn
    <3>2. \A n \in Nat : \A k \in 1 .. Lesser(n, ReaderBuffer) : k \in 0 .. ReaderBuffer
      BY DEF Lesser, ReaderBuffer
    <3>3. readerPty[s] \in Session /\ ptyOut[readerPty[s]] \in Nat
      BY <1>6 DEF IInv, TypeOK, ThreadTypeOK, KernelTypeOK, ReaderReturn
    <3>4. readerBytes' \in [Session -> 0 .. ReaderBuffer]
      BY <1>6, <3>2, <3>3, Zenon DEF IInv, TypeOK, BytesTypeOK, ReaderReturn
    <3>5. \/ taken' = taken
          \/ \E n \in 1 .. Lesser(ptyOut[readerPty[s]], ReaderBuffer) :
               taken' = [taken EXCEPT ![readerPty[s]] = @ + n]
      BY <1>6, Zenon DEF ReaderReturn
    <3>6. taken' \in [Session -> Nat]
      BY <3>3, <3>5 DEF IInv, TypeOK, BytesTypeOK, Lesser, ReaderBuffer
    <3> QED
      BY <3>1, <3>4, <3>6, Zenon DEF IInv, TypeOK, BytesTypeOK
  <2>4. ThreadTypeOK'
    BY <1>6, ZenonT(30) DEF IInv, TypeOK, ThreadTypeOK, KernelTypeOK, ReaderReturn,
       Lesser, ReaderBuffer
  <2> QED
    BY <2>1, <2>2, <2>3, <2>4, Zenon DEF TypeOK
<1>7. ASSUME NEW s \in Session, ReaderQueue(s)
      PROVE  TypeOK'
  <2>1. AppTypeOK' /\ KernelTypeOK' /\ ProcessTypeOK' /\ MainTypeOK'
    BY <1>7, Zenon DEF IInv, TypeOK, AppTypeOK, KernelTypeOK, ProcessTypeOK, MainTypeOK,
       ReaderQueue
  <2>2. BytesTypeOK'
    BY <1>7 DEF IInv, TypeOK, BytesTypeOK, ReaderQueue, Storable, Remaining, Lesser,
       QueueSize, ReaderBuffer
  <2>3. ThreadTypeOK'
    BY <1>7, Zenon DEF IInv, TypeOK, ThreadTypeOK, ReaderQueue, Storable, Remaining,
       Lesser, QueueSize, ReaderBuffer
  <2> QED
    BY <2>1, <2>2, <2>3, Zenon DEF TypeOK
<1>8. ASSUME NEW s \in Session, ReaderPost(s)
      PROVE  TypeOK'
  <2>1. AppTypeOK' /\ KernelTypeOK' /\ ProcessTypeOK' /\ BytesTypeOK'
    BY <1>8, ZenonT(30) DEF IInv, TypeOK, AppTypeOK, KernelTypeOK, ProcessTypeOK,
       BytesTypeOK, ReaderPost
  <2>2. ThreadTypeOK'
    BY <1>8, Zenon DEF IInv, TypeOK, ThreadTypeOK, ReaderPost, Message
  <2>3. MainTypeOK'
    <3>1. [session |-> s, what |-> "input"] \in Message
      BY Zenon DEF Message, ExitMessage
    <3>2. Append(messages, [session |-> s, what |-> "input"]) \in Seq(Message)
      BY <3>1, Appended, Zenon DEF IInv, TypeOK, MainTypeOK
    <3> QED
      BY <1>8, <3>2, Zenon DEF IInv, TypeOK, MainTypeOK, ReaderPost
  <2> QED
    BY <2>1, <2>2, <2>3, Zenon DEF TypeOK
<1>9. ASSUME NEW s \in Session, WriterTake(s)
      PROVE  TypeOK'
  <2>1. AppTypeOK' /\ KernelTypeOK' /\ ProcessTypeOK' /\ MainTypeOK'
    BY <1>9, Zenon DEF IInv, TypeOK, AppTypeOK, KernelTypeOK, ProcessTypeOK, MainTypeOK,
       WriterTake
  <2>2. BytesTypeOK'
    BY <1>9 DEF IInv, TypeOK, BytesTypeOK, WriterTake, QueueSize
  <2>3. ThreadTypeOK'
    BY <1>9 DEF IInv, TypeOK, ThreadTypeOK, WriterTake, QueueSize
  <2> QED
    BY <2>1, <2>2, <2>3, Zenon DEF TypeOK
<1>10. ASSUME NEW s \in Session, WriterCall(s)
      PROVE  TypeOK'
  <2>1. AppTypeOK' /\ KernelTypeOK' /\ ProcessTypeOK' /\ BytesTypeOK' /\ MainTypeOK'
    BY <1>10, Zenon DEF IInv, TypeOK, AppTypeOK, KernelTypeOK, ProcessTypeOK, BytesTypeOK,
       MainTypeOK, WriterCall
  <2>2. ThreadTypeOK'
    <3>1. mTerminalFileDescriptor[s] \in Fd
      BY <1>10, Zenon DEF IInv, Started, WriterCall
    <3>2. fdTable[mTerminalFileDescriptor[s]] \in Session \cup {NoPty}
      BY <3>1, Zenon DEF IInv, TypeOK, KernelTypeOK
    <3> QED
      BY <1>10, <3>2, ZenonT(30) DEF IInv, TypeOK, ThreadTypeOK, WriterCall
  <2> QED
    BY <2>1, <2>2, Zenon DEF TypeOK
<1>11. ASSUME NEW s \in Session, WriterWrite(s)
      PROVE  TypeOK'
  <2>1. AppTypeOK' /\ ProcessTypeOK' /\ MainTypeOK'
    BY <1>11, Zenon DEF IInv, TypeOK, AppTypeOK, ProcessTypeOK, MainTypeOK, WriterWrite
  <2>2. KernelTypeOK'
    BY <1>11 DEF IInv, TypeOK, KernelTypeOK, ThreadTypeOK, BytesTypeOK, WriterWrite,
       Lesser, QueueSize
  <2>3. BytesTypeOK'
    <3>1. UNCHANGED <<toTerminal, toProcess, readerBytes, taken, mainBytes, shown, typed>>
      BY <1>11, Zenon DEF WriterWrite
    <3>2. \A n \in 0 .. QueueSize, k \in Int : Lesser(n, k) > 0 => n - Lesser(n, k) \in 0 .. QueueSize
      BY DEF Lesser, QueueSize
    <3>3. /\ writerBytes[s] \in 0 .. QueueSize
          /\ PtySize - ptyIn[writerPty[s]] \in Int
      BY <1>11, SMTT(30) DEF IInv, TypeOK, ThreadTypeOK, BytesTypeOK, KernelTypeOK,
         WriterWrite
    <3>4. writerBytes' \in [Session -> 0 .. QueueSize]
      BY <1>11, <3>2, <3>3, SMTT(30) DEF IInv, TypeOK, BytesTypeOK, WriterWrite
    <3> QED
      BY <3>1, <3>4, Zenon DEF IInv, TypeOK, BytesTypeOK
  <2>4. ThreadTypeOK'
    BY <1>11, Zenon DEF IInv, TypeOK, ThreadTypeOK, BytesTypeOK, KernelTypeOK,
       WriterWrite, Lesser, QueueSize
  <2> QED
    BY <2>1, <2>2, <2>3, <2>4, Zenon DEF TypeOK
<1>12. ASSUME NEW s \in Session, Waiter(s)
      PROVE  TypeOK'
  <2>1. AppTypeOK' /\ KernelTypeOK' /\ BytesTypeOK'
    BY <1>12, Zenon DEF IInv, TypeOK, AppTypeOK, KernelTypeOK, BytesTypeOK, Waiter, WaitFor
  <2>2. ProcessTypeOK'
    BY <1>12, Zenon DEF IInv, TypeOK, ProcessTypeOK, Waiter, WaitFor, ExitMessage, Message
  <2>3. ThreadTypeOK'
    BY <1>12, Zenon DEF IInv, TypeOK, ThreadTypeOK, Waiter, WaitFor, ExitMessage, Message
  <2>4. MainTypeOK'
    <3>1. ExitMessage(s) \in Message
      BY Zenon DEF Message, ExitMessage
    <3>2. Append(messages, ExitMessage(s)) \in Seq(Message)
      BY <3>1, Appended, Zenon DEF IInv, TypeOK, MainTypeOK
    <3> QED
      BY <1>12, <3>2, Zenon DEF IInv, TypeOK, MainTypeOK, Waiter, WaitFor
  <2> QED
    BY <2>1, <2>2, <2>3, <2>4, Zenon DEF TypeOK
<1>13. ASSUME NEW s \in Session, InitializeEmulator(s)
      PROVE  TypeOK'
  <2>1. BytesTypeOK' /\ MainTypeOK'
    <3>1. UNCHANGED <<toTerminal, toProcess, readerBytes, taken, writerBytes, mainBytes, shown,
                      typed, main, mainSession, messages, finished>>
      BY <1>13, Zenon DEF InitializeEmulator
    <3> QED
      BY <3>1, Zenon DEF IInv, TypeOK, BytesTypeOK, MainTypeOK
  <2>2. AppTypeOK'
    BY <1>13 DEF IInv, TypeOK, AppTypeOK, InitializeEmulator, CreateSubprocess
  <2>3. KernelTypeOK'
    BY <1>13 DEF IInv, TypeOK, KernelTypeOK, InitializeEmulator, CreateSubprocess
  <2>4. ProcessTypeOK'
    BY <1>13, Zenon DEF IInv, TypeOK, ProcessTypeOK, InitializeEmulator, CreateSubprocess
  <2>5. ThreadTypeOK'
    BY <1>13, Zenon DEF IInv, TypeOK, ThreadTypeOK, InitializeEmulator, CreateSubprocess
  <2> QED
    BY <2>1, <2>2, <2>3, <2>4, <2>5, Zenon DEF TypeOK
<1>14. ASSUME NEW s \in Session, UpdateSize(s)
      PROVE  TypeOK'
  <2>1. AppTypeOK' /\ ProcessTypeOK' /\ BytesTypeOK' /\ ThreadTypeOK' /\ MainTypeOK'
    BY <1>14, ZenonT(30) DEF IInv, TypeOK, AppTypeOK, ProcessTypeOK, BytesTypeOK,
       ThreadTypeOK, MainTypeOK, UpdateSize, SetPtyWindowSize
  <2>2. KernelTypeOK'
    BY <1>14, ZenonT(30) DEF IInv, TypeOK, KernelTypeOK, UpdateSize, SetPtyWindowSize
  <2> QED
    BY <2>1, <2>2, Zenon DEF TypeOK
<1>15. ASSUME NEW s \in Session, Write(s)
      PROVE  TypeOK'
  <2>1. AppTypeOK' /\ KernelTypeOK' /\ ProcessTypeOK' /\ ThreadTypeOK'
    BY <1>15, Zenon DEF IInv, TypeOK, AppTypeOK, KernelTypeOK, ProcessTypeOK,
       ThreadTypeOK, Write
  <2>2. BytesTypeOK'
    BY <1>15 DEF IInv, TypeOK, BytesTypeOK, Write
  <2>3. MainTypeOK'
    BY <1>15, Zenon DEF IInv, TypeOK, MainTypeOK, Write
  <2> QED
    BY <2>1, <2>2, <2>3, Zenon DEF TypeOK
<1>16. ASSUME NEW s \in Session, FinishIfRunning(s)
      PROVE  TypeOK'
  <2>1. AppTypeOK' /\ KernelTypeOK' /\ BytesTypeOK' /\ ThreadTypeOK'
    BY <1>16, Zenon DEF IInv, TypeOK, AppTypeOK, KernelTypeOK, BytesTypeOK, ThreadTypeOK,
       FinishIfRunning
  <2>2. ProcessTypeOK'
    BY <1>16, ZenonT(30) DEF IInv, TypeOK, ProcessTypeOK, FinishIfRunning
  <2>3. MainTypeOK'
    BY <1>16, Zenon DEF IInv, TypeOK, MainTypeOK, FinishIfRunning
  <2> QED
    BY <2>1, <2>2, <2>3, Zenon DEF TypeOK
<1>17. ASSUME MainQueue
      PROVE  TypeOK'
  <2>1. AppTypeOK' /\ KernelTypeOK' /\ ProcessTypeOK' /\ ThreadTypeOK'
    BY <1>17, ZenonT(30) DEF IInv, TypeOK, AppTypeOK, KernelTypeOK, ProcessTypeOK,
       ThreadTypeOK, MainQueue
  <2>2. BytesTypeOK'
    <3>1. mainSession \in Session
      BY <1>17, Zenon DEF IInv, TypeOK, MainTypeOK, MainQueue
    <3> DEFINE t == mainSession
               n == Storable(mainBytes, toProcess[t])
    <3>2. toProcess[t] \in 0 .. QueueSize /\ mainBytes \in Nat /\ toProcess \in [Session -> 0 .. QueueSize]
      BY <3>1, Zenon DEF IInv, TypeOK, BytesTypeOK
    <3>3. mainBytes - n \in Nat /\ toProcess[t] + n \in 0 .. QueueSize
      BY <3>2 DEF Storable, Lesser, QueueSize
    <3>4. \/ mainBytes' = 0 /\ toProcess' = toProcess
          \/ mainBytes' = mainBytes - n /\ toProcess' = [toProcess EXCEPT ![t] = toProcess[t] + n]
      BY <1>17, Zenon DEF MainQueue, Remaining
    <3>5. mainBytes' \in Nat /\ toProcess' \in [Session -> 0 .. QueueSize]
      BY <3>1, <3>2, <3>3, <3>4
    <3> QED
      BY <1>17, <3>5, Zenon DEF IInv, TypeOK, BytesTypeOK, MainQueue
  <2>3. MainTypeOK'
    BY <1>17, Zenon DEF IInv, TypeOK, MainTypeOK, MainQueue, Storable, Remaining, Lesser,
       QueueSize
  <2> QED
    BY <2>1, <2>2, <2>3, Zenon DEF TypeOK
<1>18. ASSUME HandleMessage
      PROVE  TypeOK'
  <2>1. AppTypeOK' /\ KernelTypeOK' /\ ProcessTypeOK' /\ ThreadTypeOK'
    BY <1>18, ZenonT(30) DEF IInv, TypeOK, AppTypeOK, KernelTypeOK, ProcessTypeOK,
       ThreadTypeOK, HandleMessage
  <2>2. BytesTypeOK'
    <3> DEFINE t == Head(messages).session
               n == IF mOpen[t] THEN Lesser(toTerminal[t], ReceiveBuffer) ELSE 0
    <3>1. t \in Session
      <4>1. Head(messages) \in Message
        BY <1>18, HeadTail, Zenon DEF IInv, TypeOK, MainTypeOK, HandleMessage
      <4> QED
        BY <4>1, Zenon DEF Message
    <3>2. toTerminal \in [Session -> 0 .. QueueSize] /\ shown \in [Session -> Nat]
          /\ typed \in [Session -> Nat] /\ mainBytes \in Nat
      BY Zenon DEF IInv, TypeOK, BytesTypeOK
    <3>3. n \in 0 .. toTerminal[t]
      BY <3>1, <3>2 DEF Lesser, ReceiveBuffer, QueueSize
    <3>4. toTerminal' = [toTerminal EXCEPT ![t] = toTerminal[t] - n] /\ shown' = [shown EXCEPT ![t] = shown[t] + n]
      BY <1>18, Zenon DEF HandleMessage
    <3> HIDE DEF n
    <3>5. toTerminal' \in [Session -> 0 .. QueueSize] /\ shown' \in [Session -> Nat]
      BY <3>1, <3>2, <3>3, <3>4, SMTT(30) DEF QueueSize
    <3>6. \/ typed' = typed /\ mainBytes' = mainBytes
          \/ \E k \in 1 .. MaxInput - typed[t] : mainBytes' = k /\ typed' = [typed EXCEPT ![t] = typed[t] + k]
      BY <1>18, Zenon DEF HandleMessage
    <3>7. typed' \in [Session -> Nat] /\ mainBytes' \in Nat
      BY <3>1, <3>2, <3>6
    <3> QED
      BY <1>18, <3>5, <3>7, ZenonT(30) DEF IInv, TypeOK, BytesTypeOK, HandleMessage
  <2>3. MainTypeOK'
    <3>1. Head(messages) \in Message /\ Tail(messages) \in Seq(Message)
      BY <1>18, HeadTail, Zenon DEF IInv, TypeOK, MainTypeOK, HandleMessage
    <3>2. Head(messages).session \in Session
      BY <3>1, Zenon DEF Message
    <3> QED
      BY <1>18, <3>1, <3>2, ZenonT(30) DEF IInv, TypeOK, MainTypeOK, HandleMessage
  <2> QED
    BY <2>1, <2>2, <2>3, Zenon DEF TypeOK
<1>19. ASSUME CleanupResources
      PROVE  TypeOK'
  <2>1. ProcessTypeOK' /\ BytesTypeOK' /\ ThreadTypeOK'
    BY <1>19, Zenon DEF IInv, TypeOK, ProcessTypeOK, BytesTypeOK, ThreadTypeOK,
       CleanupResources
  <2>2. AppTypeOK'
    BY <1>19, Zenon DEF IInv, TypeOK, AppTypeOK, MainTypeOK, KernelTypeOK,
       CleanupResources, CloseQueues, JNIClose
  <2>3. KernelTypeOK'
    BY <1>19, ZenonT(30) DEF IInv, TypeOK, KernelTypeOK, MainTypeOK, AppTypeOK,
       CleanupResources, CloseQueues, JNIClose
  <2>4. MainTypeOK'
    BY <1>19, SMTT(30) DEF IInv, TypeOK, MainTypeOK, KernelTypeOK, AppTypeOK,
       CleanupResources, CloseQueues, JNIClose
  <2> QED
    BY <2>1, <2>2, <2>3, <2>4, Zenon DEF TypeOK
<1>20. CASE UNCHANGED vars
  BY <1>20, Zenon DEF vars, IInv, TypeOK, AppTypeOK, KernelTypeOK, ProcessTypeOK,
     BytesTypeOK, ThreadTypeOK, MainTypeOK, Message, Lesser, Storable, Remaining,
     QueueSize, ReaderBuffer, ReceiveBuffer, ExitMessage, CloseQueues, JNIClose
<1> QED
  BY <1>1, <1>2, <1>3, <1>4, <1>5, <1>6, <1>7, <1>8, <1>9, <1>10, <1>11, <1>12, <1>13,
     <1>14, <1>15, <1>16, <1>17, <1>18, <1>19, <1>20, Zenon DEF Next, MainStep,
     ReaderStep, WriterStep

\* No step leaves output unnoticed: a queue that a blocked write() filled held
\* older bytes, whose message is still to be handled.
LEMMA NextNoticed ==
  ASSUME IInv, [Next]_vars
  PROVE  OutputIsNoticed'
<1> USE SizeAssumption, PtySizeAssumption, NoPtyAssumption, BoundsAssumption
<1>1. ASSUME NEW s \in Session, ProcessOutput(s)
      PROVE  OutputIsNoticed'
  BY <1>1, ZenonT(30) DEF IInv, OutputIsNoticed, TypeOK, ThreadTypeOK, ProcessOutput
<1>2. ASSUME NEW s \in Session, ProcessInput(s)
      PROVE  OutputIsNoticed'
  BY <1>2, ZenonT(30) DEF IInv, OutputIsNoticed, TypeOK, ThreadTypeOK, ProcessInput
<1>3. ASSUME NEW s \in Session, Background(s)
      PROVE  OutputIsNoticed'
  BY <1>3, ZenonT(30) DEF IInv, OutputIsNoticed, TypeOK, ThreadTypeOK, Background
<1>4. ASSUME NEW s \in Session, ShellExit(s)
      PROVE  OutputIsNoticed'
  BY <1>4, ZenonT(30) DEF IInv, OutputIsNoticed, TypeOK, ThreadTypeOK, ShellExit
<1>5. ASSUME NEW s \in Session, ReaderCall(s)
      PROVE  OutputIsNoticed'
  BY <1>5, ZenonT(30) DEF IInv, OutputIsNoticed, TypeOK, ThreadTypeOK, ReaderCall
<1>6. ASSUME NEW s \in Session, ReaderReturn(s)
      PROVE  OutputIsNoticed'
  BY <1>6, ZenonT(30) DEF IInv, OutputIsNoticed, TypeOK, ThreadTypeOK, ReaderReturn
<1>7. ASSUME NEW s \in Session, ReaderQueue(s)
      PROVE  OutputIsNoticed'
  <2>1. readerBytes[s] \in 0 .. Size /\ toTerminal[s] \in 0 .. Size
    BY <1>7, Zenon DEF IInv, TypeOK, BytesTypeOK, QueueSize, ReaderBuffer
  <2>2. reader[s] = "queue" /\ reader \in [Session -> {"none", "call", "reading", "queue", "post", "done"}] /\ toTerminal \in [Session -> 0 .. Size]
    BY <1>7, Zenon DEF ReaderQueue, IInv, TypeOK, ThreadTypeOK, BytesTypeOK, QueueSize
  <2>3. ~mOpen[s] \/ toTerminal[s] > 0 \/ (toTerminal[s] = 0 /\ Remaining(readerBytes[s], Storable(readerBytes[s], toTerminal[s])) = 0)
    BY <2>1 DEF Storable, Remaining, Lesser, QueueSize
  <2>4. \/ ~mOpen[s] /\ toTerminal' = toTerminal
        \/ /\ \A t \in Session : t # s => toTerminal'[t] = toTerminal[t] /\ reader'[t] = reader[t]
           /\ Remaining(readerBytes[s], Storable(readerBytes[s], toTerminal[s])) = 0 => reader'[s] = "post"
    BY <1>7, <2>2, Zenon DEF ReaderQueue
  <2>5. UNCHANGED <<mOpen, messages>> /\ \A t \in Session : t # s => toTerminal'[t] = toTerminal[t] /\ reader'[t] = reader[t]
    BY <1>7, <2>2, Zenon DEF ReaderQueue
  <2>6. mOpen'[s] /\ toTerminal'[s] > 0 => reader'[s] = "post" \/ \E i \in 1 .. Len(messages) : messages[i].session = s
    BY <2>2, <2>3, <2>4, <2>5, Zenon DEF IInv, OutputIsNoticed
  <2> QED
    BY <2>5, <2>6, Zenon DEF IInv, OutputIsNoticed
<1>8. ASSUME NEW s \in Session, ReaderPost(s)
      PROVE  OutputIsNoticed'
  <2> DEFINE m == [session |-> s, what |-> "input"]
  <2>1. m \in Message /\ m.session = s
    BY Zenon DEF Message, ExitMessage
  <2>2. messages' = Append(messages, m) /\ UNCHANGED <<mOpen, toTerminal>> /\ \A t \in Session : reader'[t] = reader[t] \/ t = s
    BY <1>8, Zenon DEF ReaderPost, IInv, TypeOK, ThreadTypeOK
  <2>0. messages \in Seq(Message)
    BY ZenonT(30) DEF IInv, TypeOK, MainTypeOK
  <2> HIDE DEF m
  <2>3. /\ Len(messages') = Len(messages) + 1 /\ Len(messages) \in Nat
        /\ \A i \in 1 .. Len(messages) : messages'[i] = messages[i]
        /\ messages'[Len(messages) + 1] = m
    BY <2>0, <2>1, <2>2, Appended
  <2>4. \E i \in 1 .. Len(messages') : messages'[i].session = s
    BY <2>1, <2>3
  <2>5. \A t \in Session : (\E i \in 1 .. Len(messages) : messages[i].session = t)
                             => \E i \in 1 .. Len(messages') : messages'[i].session = t
    BY <2>3
  <2> QED
    BY <2>2, <2>4, <2>5 DEF IInv, OutputIsNoticed
<1>9. ASSUME NEW s \in Session, WriterTake(s)
      PROVE  OutputIsNoticed'
  BY <1>9, Zenon DEF IInv, OutputIsNoticed, TypeOK, ThreadTypeOK, WriterTake
<1>10. ASSUME NEW s \in Session, WriterCall(s)
      PROVE  OutputIsNoticed'
  BY <1>10, Zenon DEF IInv, OutputIsNoticed, TypeOK, ThreadTypeOK, WriterCall
<1>11. ASSUME NEW s \in Session, WriterWrite(s)
      PROVE  OutputIsNoticed'
  BY <1>11, Zenon DEF IInv, OutputIsNoticed, TypeOK, ThreadTypeOK, WriterWrite
<1>12. ASSUME NEW s \in Session, Waiter(s)
      PROVE  OutputIsNoticed'
  <2> DEFINE m == ExitMessage(s)
  <2>1. m \in Message /\ m.session = s
    BY Zenon DEF Message, ExitMessage
  <2>2. messages' = Append(messages, m) /\ UNCHANGED <<mOpen, toTerminal>> /\ \A t \in Session : reader'[t] = reader[t] \/ t = s
    BY <1>12, Zenon DEF Waiter, WaitFor, IInv, TypeOK, ThreadTypeOK
  <2>0. messages \in Seq(Message)
    BY ZenonT(30) DEF IInv, TypeOK, MainTypeOK
  <2> HIDE DEF m
  <2>3. /\ Len(messages') = Len(messages) + 1 /\ Len(messages) \in Nat
        /\ \A i \in 1 .. Len(messages) : messages'[i] = messages[i]
        /\ messages'[Len(messages) + 1] = m
    BY <2>0, <2>1, <2>2, Appended
  <2>4. \E i \in 1 .. Len(messages') : messages'[i].session = s
    BY <2>1, <2>3
  <2>5. \A t \in Session : (\E i \in 1 .. Len(messages) : messages[i].session = t)
                             => \E i \in 1 .. Len(messages') : messages'[i].session = t
    BY <2>3
  <2> QED
    BY <2>2, <2>4, <2>5, ZenonT(30) DEF IInv, OutputIsNoticed
<1>13. ASSUME NEW s \in Session, InitializeEmulator(s)
      PROVE  OutputIsNoticed'
  BY <1>13, Zenon DEF IInv, OutputIsNoticed, Started, TypeOK, ThreadTypeOK,
     InitializeEmulator, CreateSubprocess
<1>14. ASSUME NEW s \in Session, UpdateSize(s)
      PROVE  OutputIsNoticed'
  BY <1>14, Zenon DEF IInv, OutputIsNoticed, TypeOK, ThreadTypeOK, UpdateSize,
     SetPtyWindowSize
<1>15. ASSUME NEW s \in Session, Write(s)
      PROVE  OutputIsNoticed'
  BY <1>15, Zenon DEF IInv, OutputIsNoticed, TypeOK, ThreadTypeOK, Write
<1>16. ASSUME NEW s \in Session, FinishIfRunning(s)
      PROVE  OutputIsNoticed'
  BY <1>16, Zenon DEF IInv, OutputIsNoticed, TypeOK, ThreadTypeOK, FinishIfRunning
<1>17. ASSUME MainQueue
      PROVE  OutputIsNoticed'
  BY <1>17, Zenon DEF IInv, OutputIsNoticed, TypeOK, ThreadTypeOK, MainQueue
<1>18. ASSUME HandleMessage
      PROVE  OutputIsNoticed'
  <2> DEFINE s == Head(messages).session
  <2>1. /\ Head(messages) \in Message /\ Head(messages) = messages[1]
        /\ messages' = Tail(messages) /\ Len(messages) \in Nat \ {0}
        /\ Len(messages') = Len(messages) - 1
        /\ \A i \in 1 .. Len(messages) - 1 : messages'[i] = messages[i + 1]
    BY <1>18, HeadTail, ZenonT(30) DEF IInv, TypeOK, MainTypeOK, HandleMessage
  <2>2. s \in Session
    BY <2>1, Zenon DEF Message
  <2>3. toTerminal[s] \in 0 .. Size /\ toTerminal \in [Session -> 0 .. Size]
    BY <2>2, Zenon DEF IInv, TypeOK, BytesTypeOK, QueueSize
  <2>4. UNCHANGED <<mOpen, reader>> /\ toTerminal' = [toTerminal EXCEPT ![s] = @ - (IF mOpen[s] THEN Lesser(toTerminal[s], ReceiveBuffer) ELSE 0)]
    BY <1>18, ZenonT(30) DEF HandleMessage
  <2>5. mOpen'[s] => toTerminal'[s] = 0
    BY <2>2, <2>3, <2>4 DEF Lesser, ReceiveBuffer
  <2>6. \A t \in Session : t # s => toTerminal'[t] = toTerminal[t]
    BY <2>3, <2>4, Zenon
  <2>7. ASSUME NEW t \in Session, t # s, NEW i \in 1 .. Len(messages), messages[i].session = t
        PROVE  \E j \in 1 .. Len(messages') : messages'[j].session = t
    <3>1. i # 1
      BY <2>1, <2>7, Zenon
    <3>2. \A l \in Nat \ {0} : \A k \in 1 .. l : k # 1 => k - 1 \in 1 .. l - 1 /\ (k - 1) + 1 = k
      OBVIOUS
    <3>3. i - 1 \in 1 .. Len(messages') /\ messages'[i - 1] = messages[i]
      BY <2>1, <3>1, <3>2, Zenon
    <3> QED
      BY <2>7, <3>3, Zenon
  <2> HIDE DEF s
  <2>8. ASSUME NEW t \in Session, mOpen'[t], toTerminal'[t] > 0
        PROVE  reader'[t] = "post" \/ \E j \in 1 .. Len(messages') : messages'[j].session = t
    <3>1. t # s
      BY <2>5, <2>8
    <3>2. mOpen[t] /\ toTerminal[t] > 0 /\ reader'[t] = reader[t]
      BY <2>4, <2>6, <2>8, <3>1, Zenon
    <3>3. reader[t] = "post" \/ \E i \in 1 .. Len(messages) : messages[i].session = t
      BY <3>2, Zenon DEF IInv, OutputIsNoticed
    <3> QED
      BY <2>7, <3>1, <3>2, <3>3, Zenon
  <2> QED
    BY <2>8, Zenon DEF OutputIsNoticed
<1>19. ASSUME CleanupResources
      PROVE  OutputIsNoticed'
  <2>1. mainSession \in Session /\ mOpen \in [Session -> BOOLEAN]
    BY ZenonT(30) DEF IInv, TypeOK, MainTypeOK, AppTypeOK
  <2> QED
    BY <1>19, <2>1, Zenon DEF IInv, OutputIsNoticed, CleanupResources, CloseQueues
<1>20. CASE UNCHANGED vars
  BY <1>20, Zenon DEF vars, IInv, OutputIsNoticed, TypeOK, ThreadTypeOK
<1> QED
  BY <1>1, <1>2, <1>3, <1>4, <1>5, <1>6, <1>7, <1>8, <1>9, <1>10, <1>11, <1>12, <1>13,
     <1>14, <1>15, <1>16, <1>17, <1>18, <1>19, <1>20, Zenon DEF Next, MainStep,
     ReaderStep, WriterStep

\* What a step may leave alone and still keep DescriptorsOwned and Started.
LEMMA OwnedFrame ==
  ASSUME DescriptorsOwned, Started,
         UNCHANGED <<mShellPid, mEmulator, mTerminalFileDescriptor, fdTable, finished>>,
         \A s \in Session : /\ reader[s] = "none" => reader'[s] = "none"
                            /\ writer[s] = "none" => writer'[s] = "none"
                            /\ waiter[s] = "none" => waiter'[s] = "none"
  PROVE  (DescriptorsOwned /\ Started)'
<1>1. DescriptorsOwned'
  BY Zenon DEF DescriptorsOwned
<1>2. Started'
  BY Zenon DEF Started
<1> QED
  BY <1>1, <1>2, Zenon

\* A descriptor is opened only for a session that has none and closed only
\* by its owner.
LEMMA NextOwned ==
  ASSUME IInv, [Next]_vars
  PROVE  (DescriptorsOwned /\ Started)'
<1> USE SizeAssumption, PtySizeAssumption, NoPtyAssumption, BoundsAssumption
<1>0. DescriptorsOwned /\ Started /\ ThreadTypeOK
  BY Zenon DEF IInv, TypeOK
<1>1. ASSUME NEW s \in Session, ProcessOutput(s)
      PROVE  (DescriptorsOwned /\ Started)'
  BY <1>0, <1>1, OwnedFrame, Zenon DEF ProcessOutput
<1>2. ASSUME NEW s \in Session, ProcessInput(s)
      PROVE  (DescriptorsOwned /\ Started)'
  BY <1>0, <1>2, OwnedFrame, Zenon DEF ProcessInput
<1>3. ASSUME NEW s \in Session, Background(s)
      PROVE  (DescriptorsOwned /\ Started)'
  BY <1>0, <1>3, OwnedFrame, Zenon DEF Background
<1>4. ASSUME NEW s \in Session, ShellExit(s)
      PROVE  (DescriptorsOwned /\ Started)'
  BY <1>0, <1>4, OwnedFrame, Zenon DEF ShellExit
<1>5. ASSUME NEW s \in Session, ReaderCall(s)
      PROVE  (DescriptorsOwned /\ Started)'
  <2>1. reader[s] # "none" /\ \A t \in Session : t # s => reader'[t] = reader[t]
    BY <1>0, <1>5, ZenonT(30) DEF ReaderCall, ThreadTypeOK
  <2>2. UNCHANGED <<mShellPid, mEmulator, mTerminalFileDescriptor, fdTable, finished,
                    writer, waiter>>
    BY <1>5, Zenon DEF ReaderCall
  <2> QED
    BY <1>0, <2>1, <2>2, OwnedFrame, Zenon
<1>6. ASSUME NEW s \in Session, ReaderReturn(s)
      PROVE  (DescriptorsOwned /\ Started)'
  <2>1. reader[s] # "none" /\ \A t \in Session : t # s => reader'[t] = reader[t]
    BY <1>0, <1>6, ZenonT(30) DEF ReaderReturn, ThreadTypeOK
  <2>2. UNCHANGED <<mShellPid, mEmulator, mTerminalFileDescriptor, fdTable, finished,
                    writer, waiter>>
    BY <1>6, Zenon DEF ReaderReturn
  <2> QED
    BY <1>0, <2>1, <2>2, OwnedFrame, Zenon
<1>7. ASSUME NEW s \in Session, ReaderQueue(s)
      PROVE  (DescriptorsOwned /\ Started)'
  <2>1. reader[s] # "none" /\ \A t \in Session : t # s => reader'[t] = reader[t]
    BY <1>0, <1>7, ZenonT(30) DEF ReaderQueue, ThreadTypeOK
  <2>2. UNCHANGED <<mShellPid, mEmulator, mTerminalFileDescriptor, fdTable, finished,
                    writer, waiter>>
    BY <1>7, Zenon DEF ReaderQueue
  <2> QED
    BY <1>0, <2>1, <2>2, OwnedFrame, Zenon
<1>8. ASSUME NEW s \in Session, ReaderPost(s)
      PROVE  (DescriptorsOwned /\ Started)'
  <2>1. reader[s] # "none" /\ \A t \in Session : t # s => reader'[t] = reader[t]
    BY <1>0, <1>8, ZenonT(30) DEF ReaderPost, ThreadTypeOK
  <2>2. UNCHANGED <<mShellPid, mEmulator, mTerminalFileDescriptor, fdTable, finished,
                    writer, waiter>>
    BY <1>8, Zenon DEF ReaderPost
  <2> QED
    BY <1>0, <2>1, <2>2, OwnedFrame, Zenon
<1>9. ASSUME NEW s \in Session, WriterTake(s)
      PROVE  (DescriptorsOwned /\ Started)'
  <2>1. writer[s] # "none" /\ \A t \in Session : t # s => writer'[t] = writer[t]
    BY <1>0, <1>9, ZenonT(30) DEF WriterTake, ThreadTypeOK
  <2>2. UNCHANGED <<mShellPid, mEmulator, mTerminalFileDescriptor, fdTable, finished,
                    reader, waiter>>
    BY <1>9, Zenon DEF WriterTake
  <2> QED
    BY <1>0, <2>1, <2>2, OwnedFrame, Zenon
<1>10. ASSUME NEW s \in Session, WriterCall(s)
      PROVE  (DescriptorsOwned /\ Started)'
  <2>1. writer[s] # "none" /\ \A t \in Session : t # s => writer'[t] = writer[t]
    BY <1>0, <1>10, ZenonT(30) DEF WriterCall, ThreadTypeOK
  <2>2. UNCHANGED <<mShellPid, mEmulator, mTerminalFileDescriptor, fdTable, finished,
                    reader, waiter>>
    BY <1>10, Zenon DEF WriterCall
  <2> QED
    BY <1>0, <2>1, <2>2, OwnedFrame, Zenon
<1>11. ASSUME NEW s \in Session, WriterWrite(s)
      PROVE  (DescriptorsOwned /\ Started)'
  <2>1. writer[s] # "none" /\ \A t \in Session : t # s => writer'[t] = writer[t]
    BY <1>0, <1>11, ZenonT(30) DEF WriterWrite, ThreadTypeOK
  <2>2. UNCHANGED <<mShellPid, mEmulator, mTerminalFileDescriptor, fdTable, finished,
                    reader, waiter>>
    BY <1>11, Zenon DEF WriterWrite
  <2> QED
    BY <1>0, <2>1, <2>2, OwnedFrame, Zenon
<1>12. ASSUME NEW s \in Session, Waiter(s)
      PROVE  (DescriptorsOwned /\ Started)'
  <2>1. waiter[s] # "none" /\ \A t \in Session : t # s => waiter'[t] = waiter[t]
    BY <1>0, <1>12, ZenonT(30) DEF Waiter, WaitFor, ThreadTypeOK
  <2>2. UNCHANGED <<mShellPid, mEmulator, mTerminalFileDescriptor, fdTable, finished,
                    reader, writer>>
    BY <1>12, Zenon DEF Waiter, WaitFor
  <2> QED
    BY <1>0, <2>1, <2>2, OwnedFrame, Zenon
<1>13. ASSUME NEW s \in Session, InitializeEmulator(s)
      PROVE  (DescriptorsOwned /\ Started)'
  <2>1. PICK f \in Fd : /\ fdTable[f] = NoPty
                       /\ fdTable' = [fdTable EXCEPT ![f] = s]
                       /\ mTerminalFileDescriptor' = [mTerminalFileDescriptor EXCEPT ![s] = f]
    BY <1>13, ZenonT(30) DEF InitializeEmulator, CreateSubprocess
  <2>2. /\ mShellPid' = [mShellPid EXCEPT ![s] = 1] /\ mEmulator' = [mEmulator EXCEPT ![s] = TRUE]
        /\ reader' = [reader EXCEPT ![s] = "call"] /\ writer' = [writer EXCEPT ![s] = "take"]
        /\ waiter' = [waiter EXCEPT ![s] = "wait"] /\ finished' = finished
    BY <1>13, Zenon DEF InitializeEmulator, CreateSubprocess
  <2>3. mShellPid[s] = 0
    BY <1>13, Zenon DEF IInv, Started, InitializeEmulator, CreateSubprocess
  <2>4. AppTypeOK /\ KernelTypeOK /\ ThreadTypeOK
    BY Zenon DEF IInv, TypeOK
  <2>5. ASSUME NEW g \in Fd
        PROVE  fdTable[g] # s
    <3>1. fdTable[g] = s => mShellPid[s] = 1
      BY Zenon DEF IInv, DescriptorsOwned
    <3> QED
      BY <2>3, <3>1
  <2>6. DescriptorsOwned'
    <3> SUFFICES ASSUME NEW g \in Fd, NEW t \in Session
                 PROVE  fdTable'[g] = t <=> mShellPid'[t] = 1 /\ mTerminalFileDescriptor'[t] = g
      BY Zenon DEF DescriptorsOwned
    <3>1. fdTable[g] = t <=> mShellPid[t] = 1 /\ mTerminalFileDescriptor[t] = g
      BY Zenon DEF IInv, DescriptorsOwned
    <3>2. t # NoPty
      BY NoPtyAssumption, Zenon
    <3>3. fdTable[f] # t
      BY <2>1, <3>2
    <3> QED
      BY <2>1, <2>2, <2>4, <2>5, <3>1, <3>3 DEF AppTypeOK, KernelTypeOK
  <2>7. Started'
    BY <2>1, <2>2, <2>4, SMTT(30) DEF IInv, Started, AppTypeOK, ThreadTypeOK
  <2> QED
    BY <2>6, <2>7, Zenon
<1>14. ASSUME NEW s \in Session, UpdateSize(s)
      PROVE  (DescriptorsOwned /\ Started)'
  BY <1>0, <1>14, OwnedFrame, Zenon DEF UpdateSize
<1>15. ASSUME NEW s \in Session, Write(s)
      PROVE  (DescriptorsOwned /\ Started)'
  BY <1>0, <1>15, OwnedFrame, Zenon DEF Write
<1>16. ASSUME NEW s \in Session, FinishIfRunning(s)
      PROVE  (DescriptorsOwned /\ Started)'
  BY <1>0, <1>16, OwnedFrame, Zenon DEF FinishIfRunning
<1>17. ASSUME MainQueue
      PROVE  (DescriptorsOwned /\ Started)'
  BY <1>0, <1>17, OwnedFrame, Zenon DEF MainQueue
<1>18. ASSUME HandleMessage
      PROVE  (DescriptorsOwned /\ Started)'
  BY <1>0, <1>18, OwnedFrame, Zenon DEF HandleMessage
<1>19. ASSUME CleanupResources
      PROVE  (DescriptorsOwned /\ Started)'
  <2> DEFINE s == mainSession
  <2>1. /\ mShellPid' = [mShellPid EXCEPT ![s] = -1]
        /\ fdTable' = [fdTable EXCEPT ![mTerminalFileDescriptor[s]] = NoPty]
        /\ UNCHANGED <<mEmulator, mTerminalFileDescriptor, reader, writer, waiter>>
        /\ finished' = [finished EXCEPT ![s] = @ + 1]
    BY <1>19, Zenon DEF CleanupResources, JNIClose
  <2>2. AppTypeOK /\ KernelTypeOK /\ s \in Session /\ finished \in [Session -> Nat]
    BY ZenonT(30) DEF IInv, TypeOK, MainTypeOK
  <2>3. mEmulator[s] /\ finished[s] = 0
    BY <1>19, <2>2, ZenonT(30) DEF IInv, ExitOrder, ExitOnce, Exiting, CleanupResources
  <2> HIDE DEF s
  <2>4. mShellPid[s] = 1 /\ mTerminalFileDescriptor[s] \in Fd
    BY <2>2, <2>3, Zenon DEF IInv, Started
  <2>5. DescriptorsOwned'
    <3> SUFFICES ASSUME NEW g \in Fd, NEW t \in Session
                 PROVE  fdTable'[g] = t <=> mShellPid'[t] = 1 /\ mTerminalFileDescriptor'[t] = g
      BY Zenon DEF DescriptorsOwned
    <3>1. /\ fdTable[g] = t <=> mShellPid[t] = 1 /\ mTerminalFileDescriptor[t] = g
          /\ fdTable[g] = s <=> mShellPid[s] = 1 /\ mTerminalFileDescriptor[s] = g
      BY <2>2, Zenon DEF IInv, DescriptorsOwned
    <3>2. t # NoPty
      BY NoPtyAssumption, Zenon
    <3> QED
      BY <2>1, <2>2, <2>4, <3>1, <3>2 DEF AppTypeOK, KernelTypeOK
  <2>6. Started'
    <3>1. finished'[s] # 0 /\ \A t \in Session : t # s => finished'[t] = finished[t]
      BY <2>1, <2>2
    <3>2. \A t \in Session : t # s => mShellPid'[t] = mShellPid[t]
      BY <2>1, <2>2 DEF AppTypeOK
    <3> QED
      BY <2>1, <2>3, <3>1, <3>2, Zenon DEF IInv, Started
  <2> QED
    BY <2>5, <2>6, Zenon
<1>20. CASE UNCHANGED vars
  BY <1>0, <1>20, OwnedFrame, Zenon DEF vars
<1> QED
  BY <1>1, <1>2, <1>3, <1>4, <1>5, <1>6, <1>7, <1>8, <1>9, <1>10, <1>11, <1>12, <1>13,
     <1>14, <1>15, <1>16, <1>17, <1>18, <1>19, <1>20, Zenon DEF Next, MainStep,
     ReaderStep, WriterStep

\* What ExitOnce and ExitOrder do not mention may change.
LEMMA ExitFrame ==
  ASSUME ExitOnce, ExitOrder,
         UNCHANGED <<messages, finished, waiter, mEmulator, mOpen>>,
         \A s \in Session : Exiting(s)' => Exiting(s),
         \A s \in Session : shell[s] = "reaped" => shell'[s] = "reaped"
  PROVE  (ExitOnce /\ ExitOrder)'
<1>1. \A s \in Session : \A i \in 1 .. Len(messages) : ExitAt(i, s)' <=> ExitAt(i, s)
  BY Zenon DEF ExitAt
<1>2. ExitOnce'
  BY <1>1, ZenonT(30) DEF ExitOnce
<1>3. ExitOrder'
  BY <1>1, ZenonT(30) DEF ExitOrder
<1> QED
  BY <1>2, <1>3, Zenon

\* The exit of a shell is passed on from the waiter to the message queue, to the
\* main thread and to onSessionFinished, and is never in two places.
LEMMA NextExit ==
  ASSUME IInv, [Next]_vars
  PROVE  (ExitOnce /\ ExitOrder)'
<1> USE SizeAssumption, PtySizeAssumption, NoPtyAssumption, BoundsAssumption
<1>1. ASSUME NEW s \in Session, ProcessOutput(s)
      PROVE  (ExitOnce /\ ExitOrder)'
  BY <1>1, ExitFrame, Zenon DEF IInv, TypeOK, Exiting, ProcessOutput
<1>2. ASSUME NEW s \in Session, ProcessInput(s)
      PROVE  (ExitOnce /\ ExitOrder)'
  BY <1>2, ExitFrame, ZenonT(30) DEF IInv, TypeOK, Exiting, ProcessInput
<1>3. ASSUME NEW s \in Session, Background(s)
      PROVE  (ExitOnce /\ ExitOrder)'
  BY <1>3, ExitFrame, ZenonT(30) DEF IInv, TypeOK, Exiting, Background
<1>4. ASSUME NEW s \in Session, ShellExit(s)
      PROVE  (ExitOnce /\ ExitOrder)'
  BY <1>4, ExitFrame, ZenonT(30) DEF IInv, TypeOK, Exiting, ProcessTypeOK, ShellExit
<1>5. ASSUME NEW s \in Session, ReaderCall(s)
      PROVE  (ExitOnce /\ ExitOrder)'
  BY <1>5, ExitFrame, ZenonT(30) DEF IInv, TypeOK, Exiting, ReaderCall
<1>6. ASSUME NEW s \in Session, ReaderReturn(s)
      PROVE  (ExitOnce /\ ExitOrder)'
  BY <1>6, ExitFrame, Zenon DEF IInv, TypeOK, Exiting, ReaderReturn
<1>7. ASSUME NEW s \in Session, ReaderQueue(s)
      PROVE  (ExitOnce /\ ExitOrder)'
  BY <1>7, ExitFrame, ZenonT(30) DEF IInv, TypeOK, Exiting, ReaderQueue
<1>8. ASSUME NEW s \in Session, ReaderPost(s)
      PROVE  (ExitOnce /\ ExitOrder)'
  <2> DEFINE m == [session |-> s, what |-> "input"]
  <2>1. m \in Message /\ m.what # "exited"
    BY Zenon DEF Message
  <2>2. messages \in Seq(Message) /\ messages' = Append(messages, m)
    BY <1>8, Zenon DEF IInv, TypeOK, MainTypeOK, ReaderPost
  <2>3. /\ Len(messages') = Len(messages) + 1 /\ Len(messages) \in Nat
        /\ \A i \in 1 .. Len(messages) : messages'[i] = messages[i]
        /\ messages'[Len(messages) + 1].what # "exited"
    <3> HIDE DEF m
    <3> QED
      BY <2>1, <2>2, Appended
  <2>4. \A t \in Session : \A i \in 1 .. Len(messages') : ExitAt(i, t)' => i \in 1 .. Len(messages) /\ ExitAt(i, t)
    BY <2>3 DEF ExitAt
  <2>5. UNCHANGED <<main, mainSession, finished, waiter, shell, mEmulator, mOpen>>
    BY <1>8, Zenon DEF ReaderPost
  <2> QED
    BY <2>4, <2>5, Zenon DEF IInv, ExitOnce, ExitOrder, Exiting
<1>9. ASSUME NEW s \in Session, WriterTake(s)
      PROVE  (ExitOnce /\ ExitOrder)'
  BY <1>9, ExitFrame, Zenon DEF IInv, TypeOK, Exiting, WriterTake
<1>10. ASSUME NEW s \in Session, WriterCall(s)
      PROVE  (ExitOnce /\ ExitOrder)'
  BY <1>10, ExitFrame, ZenonT(30) DEF IInv, TypeOK, Exiting, WriterCall
<1>11. ASSUME NEW s \in Session, WriterWrite(s)
      PROVE  (ExitOnce /\ ExitOrder)'
  BY <1>11, ExitFrame, Zenon DEF IInv, TypeOK, Exiting, WriterWrite
<1>12. ASSUME NEW s \in Session, Waiter(s)
      PROVE  (ExitOnce /\ ExitOrder)'
  <2> DEFINE m == ExitMessage(s)
  <2>1. m \in Message /\ m.session = s /\ m.what = "exited"
    BY Zenon DEF Message, ExitMessage
  <2>2. messages \in Seq(Message) /\ messages' = Append(messages, m)
    BY <1>12, Zenon DEF IInv, TypeOK, MainTypeOK, Waiter, WaitFor
  <2>3. /\ Len(messages') = Len(messages) + 1 /\ Len(messages) \in Nat
        /\ \A i \in 1 .. Len(messages) : messages'[i] = messages[i]
        /\ messages'[Len(messages) + 1].session = s
    <3> HIDE DEF m
    <3> QED
      BY <2>1, <2>2, Appended
  <2>4. \A t \in Session : \A i \in 1 .. Len(messages') :
          ExitAt(i, t)' => \/ i \in 1 .. Len(messages) /\ ExitAt(i, t)
                           \/ i = Len(messages) + 1 /\ t = s
    BY <2>3 DEF ExitAt
  <2>5. /\ UNCHANGED <<main, mainSession, finished, mEmulator, mOpen>>
        /\ waiter' = [waiter EXCEPT ![s] = "done"] /\ shell' = [shell EXCEPT ![s] = "reaped"]
        /\ waiter[s] = "wait"
    BY <1>12, Zenon DEF Waiter, WaitFor
  <2>6. ThreadTypeOK /\ ProcessTypeOK
    BY Zenon DEF IInv, TypeOK
  <2>7. mEmulator[s]
    BY <1>12, ZenonT(30) DEF IInv, Started, Waiter, WaitFor
  <2>8. ~Exiting(s) /\ ~(finished[s] > 0) /\ \A i \in 1 .. Len(messages) : ~ExitAt(i, s)
    BY <2>5, Zenon DEF IInv, ExitOrder
  <2>9. finished[s] = 0
    <3>1. finished[s] \in Nat
      BY Zenon DEF IInv, TypeOK, MainTypeOK
    <3> QED
      BY <2>8, <3>1
  <2>10. ExitOnce'
    BY <2>4, <2>5, <2>8, <2>9, ZenonT(30) DEF IInv, ExitOnce, Exiting
  <2>11. ExitOrder'
    BY <2>4, <2>5, <2>6, <2>7, <2>9, ZenonT(30) DEF IInv, ExitOrder, Exiting,
       ThreadTypeOK, ProcessTypeOK
  <2> QED
    BY <2>10, <2>11, Zenon
<1>13. ASSUME NEW s \in Session, InitializeEmulator(s)
      PROVE  (ExitOnce /\ ExitOrder)'
  <2>1. ProcessTypeOK /\ ThreadTypeOK /\ AppTypeOK
    BY Zenon DEF IInv, TypeOK
  <2>2. /\ UNCHANGED <<main, mainSession, messages, finished, mOpen>> /\ ~mEmulator[s]
        /\ shell' = [shell EXCEPT ![s] = "running"] /\ waiter' = [waiter EXCEPT ![s] = "wait"]
        /\ mEmulator' = [mEmulator EXCEPT ![s] = TRUE]
    BY <1>13, Zenon DEF InitializeEmulator, CreateSubprocess
  <2>3. \A t \in Session : t # s => /\ shell'[t] = shell[t] /\ waiter'[t] = waiter[t]
                                   /\ mEmulator'[t] = mEmulator[t]
    BY <2>1, <2>2, SMTT(30) DEF ProcessTypeOK, ThreadTypeOK, AppTypeOK
  <2>4. /\ ~Exiting(s) /\ ~(finished[s] > 0)
        /\ \A i \in 1 .. Len(messages) : ~ExitAt(i, s)
    BY <2>2, Zenon DEF IInv, ExitOrder
  <2>5. \A t \in Session : (Exiting(t)' <=> Exiting(t)) /\ \A i \in 1 .. Len(messages) : (ExitAt(i, t)' <=> ExitAt(i, t))
    BY <2>2, Zenon DEF Exiting, ExitAt
  <2>6. ExitOnce'
    BY <2>2, <2>5, Zenon DEF IInv, ExitOnce
  <2>7. ExitOrder'
    BY <2>2, <2>3, <2>4, <2>5, ZenonT(30) DEF IInv, ExitOrder
  <2> QED
    BY <2>6, <2>7, Zenon
<1>14. ASSUME NEW s \in Session, UpdateSize(s)
      PROVE  (ExitOnce /\ ExitOrder)'
  BY <1>14, ExitFrame, Zenon DEF IInv, TypeOK, Exiting, UpdateSize, SetPtyWindowSize
<1>15. ASSUME NEW s \in Session, Write(s)
      PROVE  (ExitOnce /\ ExitOrder)'
  BY <1>15, ExitFrame, Zenon DEF IInv, TypeOK, Exiting, Write
<1>16. ASSUME NEW s \in Session, FinishIfRunning(s)
      PROVE  (ExitOnce /\ ExitOrder)'
  BY <1>16, ExitFrame, ZenonT(30) DEF IInv, TypeOK, Exiting, ProcessTypeOK, FinishIfRunning
<1>17. ASSUME MainQueue
      PROVE  (ExitOnce /\ ExitOrder)'
  BY <1>17, ExitFrame, ZenonT(30) DEF IInv, TypeOK, Exiting, MainQueue
<1>18. ASSUME HandleMessage
      PROVE  (ExitOnce /\ ExitOrder)'
  <2> DEFINE s == Head(messages).session
  <2>1. /\ Head(messages) \in Message /\ Head(messages) = messages[1]
        /\ messages' = Tail(messages) /\ Len(messages) \in Nat \ {0}
        /\ Len(messages') = Len(messages) - 1
        /\ \A i \in 1 .. Len(messages) - 1 : messages'[i] = messages[i + 1]
    BY <1>18, HeadTail, ZenonT(30) DEF IInv, TypeOK, MainTypeOK, HandleMessage
  <2>2. s \in Session
    BY <2>1, Zenon DEF Message
  <2>3. \A t \in Session : \A i \in 1 .. Len(messages') :
          ExitAt(i, t)' => i + 1 \in 1 .. Len(messages) /\ i + 1 # 1 /\ ExitAt(i + 1, t)
    <3>0. \A l \in Nat \ {0} : \A i \in 1 .. l - 1 : i + 1 \in 1 .. l /\ i + 1 # 1
      OBVIOUS
    <3>1. \A i \in 1 .. Len(messages') :
            i + 1 \in 1 .. Len(messages) /\ i + 1 # 1 /\ messages'[i] = messages[i + 1]
      BY <2>1, <3>0, Zenon
    <3> QED
      BY <3>1, Zenon DEF ExitAt
  <2>4. /\ UNCHANGED <<finished, waiter, shell, mEmulator, mOpen>>
        /\ mainSession' = s /\ main = "idle"
        /\ main' \in {"exit reply", "cleanup"} => messages[1].what = "exited"
    BY <1>18, <2>1, Zenon DEF HandleMessage
  <2>5. \A t \in Session : Exiting(t)' => t = s /\ 1 \in 1 .. Len(messages) /\ ExitAt(1, s)
    <3>0. Len(messages) \in Nat \ {0}
      BY <2>1, Zenon
    <3>1. 1 \in 1 .. Len(messages)
      BY <3>0
    <3>2. messages[1].session = s
      BY <2>1, Zenon
    <3> HIDE DEF s
    <3> QED
      BY <2>4, <3>1, <3>2, Zenon DEF Exiting, ExitAt
  <2> HIDE DEF s
  <2>6. \A t \in Session : \A i, j \in 1 .. Len(messages') : ExitAt(i, t)' /\ ExitAt(j, t)' => i = j
    <3>1. \A t \in Session : \A i, j \in 1 .. Len(messages') : ExitAt(i, t)' /\ ExitAt(j, t)' => i + 1 = j + 1
      BY <2>3, Zenon DEF IInv, ExitOnce
    <3>2. \A i, j \in Int : i + 1 = j + 1 => i = j
      OBVIOUS
    <3> QED
      BY <3>1, <3>2
  <2>7. \A t \in Session : \A i \in 1 .. Len(messages') : ExitAt(i, t)' => ~Exiting(t)' /\ finished'[t] = 0
    BY <2>3, <2>4, <2>5, ZenonT(30) DEF IInv, ExitOnce
  <2>8. \A t \in Session : Exiting(t)' => finished'[t] = 0
    BY <2>2, <2>4, <2>5, Zenon DEF IInv, ExitOnce
  <2>9. ExitOnce'
    BY <2>6, <2>7, <2>8, Zenon DEF ExitOnce
  <2>10. ExitOrder'
    BY <2>2, <2>3, <2>4, <2>5, ZenonT(30) DEF IInv, ExitOrder
  <2> QED
    BY <2>9, <2>10, Zenon
<1>19. ASSUME CleanupResources
      PROVE  (ExitOnce /\ ExitOrder)'
  <2> DEFINE s == mainSession
  <2>1. /\ UNCHANGED <<messages, mainSession, waiter, shell, mEmulator>>
        /\ main = "cleanup" /\ main' = "idle"
        /\ mOpen' = [mOpen EXCEPT ![s] = FALSE]
        /\ finished' = [finished EXCEPT ![s] = @ + 1]
    BY <1>19, Zenon DEF CleanupResources, CloseQueues
  <2>2. s \in Session /\ finished \in [Session -> Nat] /\ mOpen \in [Session -> BOOLEAN]
    BY Zenon DEF IInv, TypeOK, MainTypeOK, AppTypeOK
  <2>3. Exiting(s)
    BY <2>1, Zenon DEF Exiting
  <2>4. \A t \in Session : ~Exiting(t)'
    BY <2>1, Zenon DEF Exiting
  <2>5. \A t \in Session : \A i \in 1 .. Len(messages) : ExitAt(i, t)' <=> ExitAt(i, t)
    BY <2>1, Zenon DEF ExitAt
  <2>6. \A i \in 1 .. Len(messages) : ~ExitAt(i, s)
    BY <2>2, <2>3, Zenon DEF IInv, ExitOnce
  <2>7. \A t \in Session : t # s => finished'[t] = finished[t] /\ mOpen'[t] = mOpen[t]
    BY <2>1, <2>2, Zenon
  <2>8. mOpen'[s] = FALSE
    BY <2>1, <2>2, Zenon
  <2> HIDE DEF s
  <2>9. ExitOnce'
    BY <2>1, <2>4, <2>5, <2>6, <2>7, SMTT(30) DEF IInv, ExitOnce
  <2>10. ExitOrder'
    BY <2>1, <2>2, <2>3, <2>4, <2>5, <2>7, <2>8, Zenon DEF IInv, ExitOrder
  <2> QED
    BY <2>9, <2>10, Zenon
<1>20. CASE UNCHANGED vars
  BY <1>20, ExitFrame, Zenon DEF vars, IInv, Exiting
<1> QED
  BY <1>1, <1>2, <1>3, <1>4, <1>5, <1>6, <1>7, <1>8, <1>9, <1>10, <1>11, <1>12, <1>13,
     <1>14, <1>15, <1>16, <1>17, <1>18, <1>19, <1>20, Zenon DEF Next, MainStep,
     ReaderStep, WriterStep

\* The invariant holds before any session is started.
LEMMA InitIInv ==
  ASSUME Init
  PROVE  IInv
<1> USE SizeAssumption, PtySizeAssumption
<1>1. AppTypeOK /\ KernelTypeOK /\ ProcessTypeOK /\ ThreadTypeOK
  BY DEF Init, AppTypeOK, KernelTypeOK, ProcessTypeOK, ThreadTypeOK
<1>2. BytesTypeOK
  BY DEF Init, BytesTypeOK, QueueSize, ReaderBuffer
<1>3. MainTypeOK
  BY DEF Init, MainTypeOK
<1>4. OutputIsNoticed /\ Started
  BY SMTT(30) DEF Init, OutputIsNoticed, Started
<1>6. DescriptorsOwned
  BY NoPtyAssumption DEF Init, DescriptorsOwned
<1>5. ExitOnce /\ ExitOrder
  BY DEF Init, ExitOnce, ExitOrder, ExitAt, Exiting
<1> QED
  BY <1>1, <1>2, <1>3, <1>4, <1>5, <1>6, Zenon DEF IInv, TypeOK

\* Every reachable state satisfies the inductive invariant.
LEMMA Invariance == Spec => []IInv
<1>1. Init => IInv
  BY InitIInv, Zenon
<1>2. IInv /\ [Next]_vars => IInv'
  BY NextTypeOK, NextNoticed, NextOwned, NextExit, Zenon DEF IInv
<1> QED
  BY <1>1, <1>2, PTL DEF Spec

\* The fields, threads and tables keep their types, whatever the buffer size.
THEOREM TypeCorrect == Spec => []TypeOK
<1>1. IInv => TypeOK
  BY Zenon DEF IInv
<1> QED
  BY <1>1, Invariance, PTL

\* Stored output is always announced to the main thread, for any buffer size
\* shared by the reader, the queue and the handler.
THEOREM OutputAlwaysNoticed == Spec => []OutputIsNoticed
<1>1. IInv => OutputIsNoticed
  BY Zenon DEF IInv
<1> QED
  BY <1>1, Invariance, PTL

\* A descriptor belongs to a session exactly as long as the session runs, for
\* any number of sessions and descriptors: none is leaked, none is closed by the
\* clean-up of another session, and no two running sessions have one number.
THEOREM DescriptorsAlwaysOwned == Spec => []DescriptorsOwned
<1>1. IInv => DescriptorsOwned
  BY Zenon DEF IInv
<1> QED
  BY <1>1, Invariance, PTL

\* A finished session stays finished: onSessionFinished is called once, for a
\* reaped shell, and nothing is appended after it.
THEOREM FinishFinal == Spec => FinishedIsFinal
<1> DEFINE A(s) == /\ finished[s] > 0 => shown'[s] = shown[s] /\ finished'[s] = finished[s]
                   /\ finished'[s] # finished[s] => shell[s] = "reaped"
<1>1. ASSUME IInv, [Next]_vars
      PROVE  \A s \in Session : A(s)
  <2>1. CASE HandleMessage
    <3> DEFINE t == Head(messages).session
    <3>1. Head(messages) \in Message
      BY <1>1, <2>1, HeadTail, Zenon DEF HandleMessage, IInv, TypeOK, MainTypeOK
    <3>2. t \in Session /\ shown \in [Session -> Nat]
      BY <1>1, <3>1, Zenon DEF Message, IInv, TypeOK, BytesTypeOK
    <3>3. /\ shown' = [shown EXCEPT ![t] = @ + (IF mOpen[t] THEN Lesser(toTerminal[t], ReceiveBuffer) ELSE 0)]
          /\ finished' = finished
      BY <2>1, Zenon DEF HandleMessage
    <3>4. finished[t] > 0 => ~mOpen[t]
      BY <1>1, <3>2, Zenon DEF IInv, ExitOrder
    <3> HIDE DEF t
    <3>5. finished[t] > 0 => shown'[t] = shown[t]
      <4>1. shown[t] \in Nat
        BY <3>2, Zenon
      <4>2. finished[t] > 0 => shown'[t] = shown[t] + 0
        BY <3>2, <3>3, <3>4, Zenon
      <4> QED
        BY <4>1, <4>2
    <3>6. \A s \in Session : s # t => shown'[s] = shown[s]
      BY <3>2, <3>3, Zenon
    <3> QED
      BY <3>3, <3>5, <3>6, Zenon
  <2>2. CASE CleanupResources
    <3>1. /\ finished' = [finished EXCEPT ![mainSession] = @ + 1] /\ shown' = shown
          /\ Exiting(mainSession)
      BY <2>2, Zenon DEF CleanupResources, Exiting
    <3>2. mainSession \in Session /\ finished \in [Session -> Nat]
      BY <1>1, ZenonT(30) DEF IInv, TypeOK, MainTypeOK
    <3>3. finished[mainSession] = 0 /\ shell[mainSession] = "reaped"
      BY <1>1, <3>1, <3>2, Zenon DEF IInv, ExitOnce, ExitOrder
    <3> QED
      BY <3>1, <3>2, <3>3
  <2>3. CASE MainQueue
    BY <2>3, ZenonT(30) DEF MainQueue
  <2>4. ASSUME NEW p \in Session,
               ProcessOutput(p) \/ ProcessInput(p) \/ Background(p) \/ ShellExit(p)
        PROVE  \A s \in Session : A(s)
    BY <2>4, ZenonT(30) DEF ProcessOutput, ProcessInput, Background, ShellExit
  <2>5. ASSUME NEW p \in Session, ReaderStep(p) \/ WriterStep(p) \/ Waiter(p)
        PROVE  \A s \in Session : A(s)
    BY <2>5, ZenonT(30) DEF ReaderStep, ReaderCall, ReaderReturn, ReaderQueue, ReaderPost,
                WriterStep, WriterTake, WriterCall, WriterWrite, Waiter
  <2>6. ASSUME NEW p \in Session,
               InitializeEmulator(p) \/ UpdateSize(p) \/ Write(p) \/ FinishIfRunning(p)
        PROVE  \A s \in Session : A(s)
    BY <2>6, Zenon DEF InitializeEmulator, CreateSubprocess, UpdateSize, SetPtyWindowSize,
       Write, FinishIfRunning
  <2>7. CASE UNCHANGED vars
    BY <2>7, ZenonT(30) DEF vars
  <2> HIDE DEF A
  <2> QED
    BY <1>1, <2>1, <2>2, <2>3, <2>4, <2>5, <2>6, <2>7, Zenon DEF Next, MainStep
<1> QED
  BY <1>1, Invariance, PTL DEF Spec, FinishedIsFinal

\* Only a write() of the reader thread has bytes in its buffer.
ReaderBufferEmpty == \A s \in Session : reader[s] # "queue" => readerBytes[s] = 0

\* Sessions that have lost output to another, or have finished, were started.
WasStarted ==
  \A s \in Session : (taken[s] > 0 => mEmulator[s]) /\ (~mOpen[s] => mEmulator[s])

\* Thread t is in a read of the pty of session s.
ReadsFrom(t, s) == reader[t] = "reading" /\ readerPty[t] = s

\* Only the reader of a finished session is in a read of another session's pty,
\* whose descriptor has the number its own had.
Strays ==
  \A s, t \in Session :
    s # t /\ ReadsFrom(t, s) =>
      ~mOpen[t] /\ mEmulator[s] /\ mTerminalFileDescriptor[t] = mTerminalFileDescriptor[s]

\* The inductive form of OutputConserved.
Conserved == ReaderBufferEmpty /\ OutputConserved /\ WasStarted /\ Strays

\* The sum of OutputConserved.
Balanced(s) == made[s] = ptyOut[s] + readerBytes[s] + toTerminal[s] + shown[s] + taken[s]

\* What a step may leave alone and still keep Conserved.
LEMMA ConservedFrame ==
  ASSUME Conserved,
         UNCHANGED <<ptyOut, readerBytes, toTerminal, shown, made, taken, mEmulator,
                     mTerminalFileDescriptor>>,
         \A s \in Session : mOpen'[s] => mOpen[s],
         \A s \in Session : mOpen[s] /\ ~mOpen'[s] => mEmulator[s],
         \A s \in Session : reader[s] = "queue" => reader'[s] = "queue",
         \A s \in Session : reader'[s] = "reading" => reader[s] = "reading" /\ readerPty'[s] = readerPty[s]
  PROVE  Conserved'
<1>1. ReaderBufferEmpty'
  BY Zenon DEF Conserved, ReaderBufferEmpty
<1>2. OutputConserved'
  BY ZenonT(30) DEF Conserved, OutputConserved
<1>3. WasStarted'
  BY Zenon DEF Conserved, WasStarted
<1>4. \A s, t \in Session : ReadsFrom(t, s)' => ReadsFrom(t, s)
  BY Zenon DEF ReadsFrom
<1>5. Strays'
  BY <1>4, Zenon DEF Conserved, Strays
<1> QED
  BY <1>1, <1>2, <1>3, <1>5, Zenon DEF Conserved

\* What a step that moves bytes has to show.
LEMMA BytesMoved ==
  ASSUME Conserved, UNCHANGED <<mOpen, mEmulator, mTerminalFileDescriptor, taken, readerPty>>,
         ReaderBufferEmpty', \A s \in Session : mOpen[s] /\ Balanced(s) => Balanced(s)',
         \A s \in Session : reader'[s] = "reading" => reader[s] = "reading"
  PROVE  Conserved'
<1>1. OutputConserved'
  BY ZenonT(30) DEF Conserved, OutputConserved, Balanced
<1>2. WasStarted'
  BY Zenon DEF Conserved, WasStarted
<1>3. \A s, t \in Session : ReadsFrom(t, s)' => ReadsFrom(t, s)
  BY Zenon DEF ReadsFrom
<1>4. Strays'
  BY <1>3, Zenon DEF Conserved, Strays
<1> QED
  BY <1>1, <1>2, <1>4, Zenon DEF Conserved

\* A session that has not finished and whose threads run has its own pty behind
\* its descriptor; any other pty behind it is that of a running session which
\* has the same number.
LEMMA OwnDescriptor ==
  ASSUME IInv, NEW s \in Session, reader[s] # "none",
         fdTable[mTerminalFileDescriptor[s]] # NoPty, fdTable[mTerminalFileDescriptor[s]] # s
  PROVE  LET p == fdTable[mTerminalFileDescriptor[s]]
         IN  /\ p \in Session /\ ~mOpen[s] /\ mEmulator[p]
             /\ mTerminalFileDescriptor[s] = mTerminalFileDescriptor[p]
<1> DEFINE p == fdTable[mTerminalFileDescriptor[s]]
<1>1. mEmulator[s] /\ mTerminalFileDescriptor[s] \in Fd
  BY Zenon DEF IInv, Started
<1>2. p \in Session
  BY <1>1, Zenon DEF IInv, TypeOK, KernelTypeOK
<1>3. mShellPid[p] = 1 /\ mTerminalFileDescriptor[p] = mTerminalFileDescriptor[s]
  BY <1>1, <1>2, Zenon DEF IInv, DescriptorsOwned
<1>4. mEmulator[p]
  <2>1. ~mEmulator[p] => mShellPid[p] = 0
    BY <1>2, Zenon DEF IInv, Started
  <2> QED
    BY <1>3, <2>1
<1>5. mShellPid[s] # 1
  BY <1>1, Zenon DEF IInv, DescriptorsOwned
<1>6. finished[s] # 0 /\ finished[s] \in Nat
  BY <1>1, <1>5, Zenon DEF IInv, Started, TypeOK, MainTypeOK
<1>7. finished[s] > 0
  BY <1>6
<1>8. ~mOpen[s]
  BY <1>7, Zenon DEF IInv, ExitOrder
<1> QED
  BY <1>2, <1>3, <1>4, <1>8, Zenon

\* Every step keeps it.
LEMMA NextConserved ==
  ASSUME IInv, Conserved, [Next]_vars
  PROVE  Conserved'
<1> USE SizeAssumption, PtySizeAssumption
<1>0. /\ ptyOut \in [Session -> Nat] /\ made \in [Session -> Nat]
      /\ shown \in [Session -> Nat] /\ taken \in [Session -> Nat]
      /\ toTerminal \in [Session -> 0 .. QueueSize]
      /\ readerBytes \in [Session -> 0 .. ReaderBuffer]
      /\ mOpen \in [Session -> BOOLEAN]
  <2>1. 0 .. PtySize \subseteq Nat
    OBVIOUS
  <2>2. ptyOut \in [Session -> 0 .. PtySize]
    BY Zenon DEF IInv, TypeOK, KernelTypeOK
  <2>3. ptyOut \in [Session -> Nat]
    BY <2>1, <2>2
  <2> QED BY <2>3, Zenon DEF IInv, TypeOK, ProcessTypeOK, BytesTypeOK, AppTypeOK
<1>a. /\ reader \in [Session -> {"none", "call", "reading", "queue", "post", "done"}]
      /\ readerPty \in [Session -> Session]
  BY Zenon DEF IInv, TypeOK, ThreadTypeOK
<1>1. ASSUME NEW p \in Session, ProcessOutput(p)
      PROVE  Conserved'
  <2>1. /\ ptyOut' = [ptyOut EXCEPT ![p] = @ + 1] /\ made' = [made EXCEPT ![p] = @ + 1]
        /\ UNCHANGED <<reader, readerPty, taken, readerBytes, toTerminal, shown, mOpen,
                       mEmulator, mTerminalFileDescriptor>>
    BY <1>1, Zenon DEF ProcessOutput
  <2>2. \A s \in Session : Balanced(s) => Balanced(s)'
    BY <1>0, <2>1 DEF Balanced, QueueSize, ReaderBuffer
  <2>3. ReaderBufferEmpty'
    BY <2>1, Zenon DEF Conserved, ReaderBufferEmpty
  <2> QED BY <2>1, <2>2, <2>3, BytesMoved, Zenon
<1>2. ASSUME NEW p \in Session, ReaderReturn(p)
      PROVE  Conserved'
  <2> DEFINE q == readerPty[p]
  <2>1. readerBytes[p] = 0 /\ reader[p] = "reading" /\ q \in Session
    BY <1>2, <1>a, Zenon DEF ReaderReturn, Conserved, ReaderBufferEmpty
  <2>2. UNCHANGED <<toTerminal, shown, made, mOpen, mEmulator, mTerminalFileDescriptor, readerPty>>
    BY <1>2, Zenon DEF ReaderReturn
  <2>3. CASE reader' = [reader EXCEPT ![p] = "done"] /\ UNCHANGED <<ptyOut, readerBytes, taken>>
    <3>1. \A s \in Session : /\ reader[s] = "queue" => reader'[s] = "queue"
                             /\ reader'[s] = "reading" => reader[s] = "reading"
      BY <1>a, <2>1, <2>3
    <3> QED BY <2>2, <2>3, <3>1, ConservedFrame, Zenon
  <2>4. ASSUME NEW n \in 1 .. Lesser(ptyOut[q], ReaderBuffer),
               ptyOut' = [ptyOut EXCEPT ![q] = @ - n],
               readerBytes' = [readerBytes EXCEPT ![p] = n],
               taken' = IF q = p THEN taken ELSE [taken EXCEPT ![q] = @ + n],
               reader' = [reader EXCEPT ![p] = "queue"]
        PROVE  Conserved'
    <3>1. ReaderBufferEmpty'
      BY <1>0, <1>a, <2>4, Zenon DEF Conserved, ReaderBufferEmpty
    <3>2. n \in Nat
      BY <1>0 DEF Lesser, ReaderBuffer
    <3>3. \A s \in Session : reader'[s] = "reading" => reader[s] = "reading"
      BY <1>a, <2>4
    <3>4. CASE q = p
      <4>1. \A s \in Session : Balanced(s) => Balanced(s)'
        BY <1>0, <2>1, <2>2, <2>4, <3>2, <3>4 DEF Balanced, QueueSize, ReaderBuffer
      <4> QED BY <2>2, <2>4, <3>1, <3>3, <3>4, <4>1, BytesMoved, Zenon
    <3>5. CASE q # p
      <4>1. /\ ~mOpen[p] /\ mEmulator[q]
            /\ mTerminalFileDescriptor[p] = mTerminalFileDescriptor[q]
        BY <2>1, <3>5, Zenon DEF Conserved, Strays, ReadsFrom
      <4>2. \A s \in Session : s # p /\ Balanced(s) => Balanced(s)'
        <5> SUFFICES ASSUME NEW s \in Session, s # p, Balanced(s)
                     PROVE  Balanced(s)'
          BY Zenon
        <5> HIDE DEF q
        <5>1. readerBytes'[s] = readerBytes[s]
          BY <1>0, <2>4, Zenon
        <5>2. CASE s = q
          BY <1>0, <2>1, <2>2, <2>4, <3>2, <3>5, <5>1, <5>2 DEF Balanced, QueueSize, ReaderBuffer
        <5>3. CASE s # q
          <6>1. ptyOut'[s] = ptyOut[s] /\ taken'[s] = taken[s]
            BY <1>0, <2>4, <3>5, <5>3, Zenon
          <6> QED BY <2>2, <5>1, <6>1, Zenon DEF Balanced
        <5> QED BY <5>2, <5>3, Zenon
      <4>3. \A s \in Session : s # q => taken'[s] = taken[s]
        BY <1>0, <2>4, <3>5, Zenon
      <4>4. OutputConserved'
        <5> SUFFICES ASSUME NEW s \in Session
                     PROVE  /\ mOpen'[s] => Balanced(s)'
                            /\ taken'[s] > 0 =>
                                 \E t \in Session \ {s} :
                                   /\ ~mOpen'[t]
                                   /\ mTerminalFileDescriptor'[t] = mTerminalFileDescriptor'[s]
          BY Zenon DEF OutputConserved, Balanced
        <5>1. /\ mOpen[s] => Balanced(s)
              /\ taken[s] > 0 =>
                   \E t \in Session \ {s} :
                     ~mOpen[t] /\ mTerminalFileDescriptor[t] = mTerminalFileDescriptor[s]
          BY Zenon DEF Conserved, OutputConserved, Balanced
        <5>2. mOpen'[s] => Balanced(s)'
          BY <2>2, <4>1, <4>2, <5>1, Zenon
        <5> HIDE DEF q
        <5>3. CASE s = q
          <6>1. p \in Session \ {s} /\ ~mOpen'[p]
            BY <2>2, <3>5, <4>1, <5>3, Zenon
          <6>2. mTerminalFileDescriptor'[p] = mTerminalFileDescriptor'[s]
            BY <2>2, <4>1, <5>3, Zenon
          <6> QED BY <5>2, <6>1, <6>2, Zenon
        <5>4. CASE s # q
          BY <2>2, <4>3, <5>1, <5>2, <5>4, Zenon
        <5> QED BY <5>3, <5>4, Zenon
      <4>5. WasStarted'
        BY <2>2, <4>1, <4>3, Zenon DEF Conserved, WasStarted
      <4>6. \A s, t \in Session : ReadsFrom(t, s)' => ReadsFrom(t, s)
        BY <2>2, <3>3, Zenon DEF ReadsFrom
      <4>7. Strays'
        BY <2>2, <4>6, Zenon DEF Conserved, Strays
      <4> QED BY <3>1, <4>4, <4>5, <4>7, Zenon DEF Conserved
    <3> QED BY <3>4, <3>5, Zenon
  <2> QED BY <1>2, <2>1, <2>3, <2>4, Zenon DEF ReaderReturn
<1>3. ASSUME NEW p \in Session, ReaderQueue(p)
      PROVE  Conserved'
  <2>1. UNCHANGED <<ptyOut, shown, made, mOpen, taken, mEmulator, mTerminalFileDescriptor,
                    readerPty>>
    BY <1>3, Zenon DEF ReaderQueue
  <2>2. CASE /\ ~mOpen[p] /\ UNCHANGED toTerminal
             /\ reader' = [reader EXCEPT ![p] = "done"]
             /\ readerBytes' = [readerBytes EXCEPT ![p] = 0]
    <3>1. ReaderBufferEmpty'
      BY <1>0, <1>a, <2>2, Zenon DEF Conserved, ReaderBufferEmpty
    <3>2. \A s \in Session : reader'[s] = "reading" => reader[s] = "reading"
      BY <1>a, <2>2
    <3>3. \A s \in Session : mOpen[s] /\ Balanced(s) => Balanced(s)'
      BY <1>0, <2>1, <2>2, Zenon DEF Balanced
    <3> QED BY <2>1, <3>1, <3>2, <3>3, BytesMoved, Zenon
  <2>3. ASSUME NEW n, NEW rest, n = Storable(readerBytes[p], toTerminal[p]),
               rest = Remaining(readerBytes[p], n),
               toTerminal' = [toTerminal EXCEPT ![p] = @ + n],
               readerBytes' = [readerBytes EXCEPT ![p] = rest],
               reader' = [reader EXCEPT ![p] = IF rest = 0 THEN "post" ELSE "queue"]
        PROVE  Conserved'
    <3>1. n \in Int /\ rest \in Int /\ n + rest = readerBytes[p]
      BY <1>0, <2>3 DEF Storable, Remaining, Lesser, QueueSize, ReaderBuffer
    <3>2. ReaderBufferEmpty'
      BY <1>0, <1>a, <2>3, Zenon DEF Conserved, ReaderBufferEmpty
    <3>3. \A s \in Session : reader'[s] = "reading" => reader[s] = "reading"
      BY <1>a, <2>3
    <3>4. \A s \in Session : Balanced(s) => Balanced(s)'
      BY <1>0, <2>1, <2>3, <3>1 DEF Balanced, QueueSize, ReaderBuffer
    <3> QED BY <2>1, <3>2, <3>3, <3>4, BytesMoved, Zenon
  <2> QED BY <1>3, <2>2, <2>3, Zenon DEF ReaderQueue
<1>4. CASE HandleMessage
  <2> DEFINE t == Head(messages).session
             n == IF mOpen[t] THEN Lesser(toTerminal[t], ReceiveBuffer) ELSE 0
  <2>1. t \in Session
    <3>1. Head(messages) \in Message
      BY <1>4, HeadTail, Zenon DEF HandleMessage, IInv, TypeOK, MainTypeOK
    <3> QED BY <3>1, Zenon DEF Message
  <2>2. /\ toTerminal' = [toTerminal EXCEPT ![t] = @ - n]
        /\ shown' = [shown EXCEPT ![t] = @ + n]
        /\ UNCHANGED <<ptyOut, made, reader, readerPty, readerBytes, mOpen, taken, mEmulator,
                       mTerminalFileDescriptor>>
    BY <1>4, Zenon DEF HandleMessage
  <2> HIDE DEF t
  <2>3. n \in Int
    BY <1>0, <2>1 DEF Lesser, ReceiveBuffer, QueueSize
  <2> HIDE DEF n
  <2>4. \A s \in Session : Balanced(s) => Balanced(s)'
    BY <1>0, <2>1, <2>2, <2>3 DEF Balanced, QueueSize, ReaderBuffer
  <2>5. ReaderBufferEmpty'
    BY <2>2, Zenon DEF Conserved, ReaderBufferEmpty
  <2> QED BY <2>2, <2>4, <2>5, BytesMoved, Zenon
<1>5. CASE CleanupResources
  <2>1. /\ UNCHANGED <<ptyOut, readerBytes, toTerminal, shown, made, taken, reader, readerPty,
                       mEmulator, mTerminalFileDescriptor>>
        /\ mOpen' = [mOpen EXCEPT ![mainSession] = FALSE] /\ Exiting(mainSession)
    BY <1>5, Zenon DEF CleanupResources, CloseQueues, Exiting
  <2>2. mainSession \in Session
    BY ZenonT(30) DEF IInv, TypeOK, MainTypeOK
  <2>3. mEmulator[mainSession]
    BY <2>1, <2>2, Zenon DEF IInv, ExitOrder
  <2> QED BY <1>0, <2>1, <2>3, ConservedFrame, Zenon
<1>6. CASE MainQueue
  BY <1>6, ConservedFrame, Zenon DEF MainQueue
<1>7. ASSUME NEW p \in Session, ProcessInput(p) \/ Background(p) \/ ShellExit(p) \/ WriterStep(p) \/ Waiter(p)
      PROVE  Conserved'
  <2>1. UNCHANGED <<ptyOut, readerBytes, toTerminal, shown, made, taken, mEmulator, mOpen,
                    mTerminalFileDescriptor, reader, readerPty>>
    BY <1>7, Zenon DEF ProcessInput, Background, ShellExit, Waiter,
       WriterStep, WriterTake, WriterCall, WriterWrite
  <2> QED BY <2>1, ConservedFrame, Zenon
<1>8. ASSUME NEW p \in Session, ReaderCall(p)
      PROVE  Conserved'
  <2> DEFINE q == fdTable[mTerminalFileDescriptor[p]]
  <2>1. UNCHANGED <<ptyOut, readerBytes, toTerminal, shown, made, taken, mEmulator, mOpen,
                    mTerminalFileDescriptor>> /\ reader[p] = "call"
    BY <1>8, Zenon DEF ReaderCall
  <2>2. CASE reader' = [reader EXCEPT ![p] = "done"] /\ UNCHANGED readerPty
    <3>1. \A s \in Session : /\ reader[s] = "queue" => reader'[s] = "queue"
                             /\ reader'[s] = "reading" => reader[s] = "reading"
      BY <1>a, <2>1, <2>2
    <3> QED BY <2>1, <2>2, <3>1, ConservedFrame, Zenon
  <2>3. CASE /\ q # NoPty /\ reader' = [reader EXCEPT ![p] = "reading"]
             /\ readerPty' = [readerPty EXCEPT ![p] = q]
    <3>1. ReaderBufferEmpty'
      BY <1>a, <2>1, <2>3, Zenon DEF Conserved, ReaderBufferEmpty
    <3>2. OutputConserved'
      BY <2>1, ZenonT(30) DEF Conserved, OutputConserved
    <3>3. reader[p] # "none"
      BY <2>1
    <3>4. q # p => /\ q \in Session /\ ~mOpen[p] /\ mEmulator[q]
                   /\ mTerminalFileDescriptor[p] = mTerminalFileDescriptor[q]
      BY <2>3, <3>3, OwnDescriptor, Zenon
    <3> HIDE DEF q
    <3>5. WasStarted'
      BY <2>1, Zenon DEF Conserved, WasStarted
    <3>6. \A s, t \in Session : t # p /\ ReadsFrom(t, s)' => ReadsFrom(t, s)
      BY <1>a, <2>3, Zenon DEF ReadsFrom
    <3>7. \A s \in Session : ReadsFrom(p, s)' => s = q
      BY <1>a, <2>3, Zenon DEF ReadsFrom
    <3>8. Strays'
      <4> SUFFICES ASSUME NEW s \in Session, NEW t \in Session, s # t, ReadsFrom(t, s)'
                   PROVE  /\ ~mOpen[t] /\ mEmulator[s]
                          /\ mTerminalFileDescriptor[t] = mTerminalFileDescriptor[s]
        BY <2>1, Zenon DEF Strays
      <4>1. CASE t = p
        BY <3>4, <3>7, <4>1, Zenon
      <4>2. CASE t # p
        BY <3>6, <4>2, Zenon DEF Conserved, Strays
      <4> QED BY <4>1, <4>2, Zenon
    <3> QED BY <3>1, <3>2, <3>5, <3>8, Zenon DEF Conserved
  <2> QED BY <1>8, <2>2, <2>3, Zenon DEF ReaderCall
<1>9. ASSUME NEW p \in Session, ReaderPost(p)
      PROVE  Conserved'
  <2>1. UNCHANGED <<ptyOut, readerBytes, toTerminal, shown, made, taken, mEmulator, mOpen,
                    mTerminalFileDescriptor, readerPty>>
    BY <1>9, Zenon DEF ReaderPost
  <2>2. reader[p] = "post" /\ reader' = [reader EXCEPT ![p] = "call"]
    BY <1>9, Zenon DEF ReaderPost
  <2>3. \A s \in Session : /\ reader[s] = "queue" => reader'[s] = "queue"
                           /\ reader'[s] = "reading" => reader[s] = "reading"
    BY <1>a, <2>2
  <2> QED BY <2>1, <2>3, ConservedFrame, Zenon
<1>10. ASSUME NEW p \in Session, InitializeEmulator(p)
      PROVE  Conserved'
  <2>1. UNCHANGED <<ptyOut, readerBytes, toTerminal, shown, made, taken, mOpen, readerPty>>
    BY <1>10, Zenon DEF InitializeEmulator
  <2>2. /\ ~mEmulator[p] /\ mEmulator' = [mEmulator EXCEPT ![p] = TRUE]
        /\ reader' = [reader EXCEPT ![p] = "call"] /\ reader[p] = "none"
    BY <1>10, Zenon DEF InitializeEmulator, IInv, Started
  <2>3. \E f \in Fd : mTerminalFileDescriptor' = [mTerminalFileDescriptor EXCEPT ![p] = f]
    BY <1>10, ZenonT(30) DEF InitializeEmulator, CreateSubprocess
  <2>4. \A t \in Session : t # p => /\ mTerminalFileDescriptor'[t] = mTerminalFileDescriptor[t]
                                    /\ mEmulator'[t] = mEmulator[t] /\ reader'[t] = reader[t]
    BY <1>a, <2>2, <2>3, Zenon DEF IInv, TypeOK, AppTypeOK
  <2>5. \A t \in Session : mEmulator[t] => t # p /\ mEmulator'[t]
    BY <2>2, <2>4, Zenon
  <2>6. reader'[p] = "call"
    BY <1>a, <2>2, Zenon
  <2>7. ReaderBufferEmpty'
    BY <1>a, <2>1, <2>2, Zenon DEF Conserved, ReaderBufferEmpty
  <2>8. OutputConserved'
    <3> SUFFICES ASSUME NEW s \in Session
                 PROVE  /\ mOpen'[s] => Balanced(s)'
                        /\ taken'[s] > 0 =>
                             \E t \in Session \ {s} :
                               /\ ~mOpen'[t]
                               /\ mTerminalFileDescriptor'[t] = mTerminalFileDescriptor'[s]
      BY Zenon DEF OutputConserved, Balanced
    <3>1. mOpen'[s] => Balanced(s)'
      BY <2>1, Zenon DEF Conserved, OutputConserved, Balanced
    <3>2. ASSUME taken'[s] > 0
          PROVE  \E t \in Session \ {s} :
                   ~mOpen'[t] /\ mTerminalFileDescriptor'[t] = mTerminalFileDescriptor'[s]
      <4>1. PICK t \in Session \ {s} :
              ~mOpen[t] /\ mTerminalFileDescriptor[t] = mTerminalFileDescriptor[s]
        BY <2>1, <3>2, Zenon DEF Conserved, OutputConserved
      <4>2. mEmulator[s] /\ mEmulator[t]
        BY <2>1, <3>2, <4>1, Zenon DEF Conserved, WasStarted
      <4> QED BY <2>1, <2>4, <2>5, <4>1, <4>2, Zenon
    <3> QED BY <3>1, <3>2, Zenon
  <2>9. WasStarted'
    BY <2>1, <2>5, Zenon DEF Conserved, WasStarted
  <2>10. \A s, t \in Session : ReadsFrom(t, s)' => t # p /\ ReadsFrom(t, s)
    <3>1. \A s \in Session : ~ReadsFrom(p, s)'
      BY <2>6 DEF ReadsFrom
    <3> QED BY <2>1, <2>4, <3>1, Zenon DEF ReadsFrom
  <2>11. Strays'
    <3> SUFFICES ASSUME NEW s \in Session, NEW t \in Session, s # t, ReadsFrom(t, s)'
                 PROVE  /\ ~mOpen'[t] /\ mEmulator'[s]
                        /\ mTerminalFileDescriptor'[t] = mTerminalFileDescriptor'[s]
      BY Zenon DEF Strays
    <3>1. t # p /\ ~mOpen[t] /\ mEmulator[s]
      BY <2>10, Zenon DEF Conserved, Strays
    <3>2. mTerminalFileDescriptor[t] = mTerminalFileDescriptor[s]
      BY <2>10, Zenon DEF Conserved, Strays
    <3> QED BY <2>1, <2>4, <2>5, <3>1, <3>2, Zenon
  <2> QED BY <2>7, <2>8, <2>9, <2>11, Zenon DEF Conserved
<1>11. ASSUME NEW p \in Session, UpdateSize(p) \/ Write(p) \/ FinishIfRunning(p)
      PROVE  Conserved'
  <2>1. UNCHANGED <<ptyOut, readerBytes, toTerminal, shown, made, taken, mEmulator, mOpen,
                    mTerminalFileDescriptor, reader, readerPty>>
    BY <1>11, Zenon DEF UpdateSize, Write, FinishIfRunning
  <2> QED BY <2>1, ConservedFrame, Zenon
<1>12. CASE UNCHANGED vars
  BY <1>12, ConservedFrame, Zenon DEF vars
<1> QED
  BY <1>1, <1>2, <1>3, <1>4, <1>5, <1>6, <1>7, <1>8, <1>9, <1>10, <1>11, <1>12, Zenon
     DEF Next, MainStep, ReaderStep

\* However many sessions there are, none of them loses output or shows it twice
\* while it runs, except to the reader thread of a finished session whose
\* descriptor had the same number.
THEOREM OutputAlwaysConserved == Spec => []OutputConserved
<1>1. Init => Conserved
  <2> SUFFICES ASSUME Init
               PROVE  Conserved
    OBVIOUS
  <2>1. \A s \in Session :
          /\ made[s] = 0 /\ ptyOut[s] = 0 /\ readerBytes[s] = 0 /\ toTerminal[s] = 0
          /\ shown[s] = 0 /\ taken[s] = 0 /\ mOpen[s] /\ reader[s] = "none"
    BY Zenon DEF Init
  <2> QED BY <2>1 DEF Conserved, ReaderBufferEmpty, OutputConserved, WasStarted, Strays,
     ReadsFrom
<1>2. IInv /\ Conserved /\ [Next]_vars => Conserved'
  BY NextConserved, Zenon
<1>3. Conserved => OutputConserved
  BY Zenon DEF Conserved
<1> QED
  BY <1>1, <1>2, <1>3, Invariance, PTL DEF Spec
=============================================================================
