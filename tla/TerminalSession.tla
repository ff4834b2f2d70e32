--------------------------- MODULE TerminalSession ---------------------------
(***************************************************************************)
(* terminal-emulator/.../TerminalSession.java with jni/termux.c: sessions  *)
(* of one application.  Each has a subprocess on a pseudoterminal, a       *)
(* reader, a writer and a waiter thread, and two byte queues; all share    *)
(* the main thread and its message queue, and the descriptor table.        *)
(*                                                                         *)
(* Bytes are counted.  A queue is used as the stream that module           *)
(* ByteStream promises and module ByteQueue implements.  A step is what a  *)
(* thread does between two accesses to what it shares with the others.     *)
(***************************************************************************)
EXTENDS Integers, Sequences, FiniteSets

CONSTANTS
  Session,    \* the TerminalSession objects
  NoPty,      \* the target of a closed descriptor
  Fd,         \* the descriptors the kernel may hand out
  Size,       \* the 4096 of the queues and buffers
  PtySize,    \* capacity of the kernel's buffer for one direction of a pty
  MaxOutput,  \* bound: bytes a session's processes ever write
  MaxInput    \* bound: bytes the main thread ever writes to a session

ASSUME SizeAssumption == Size \in Nat \ {0}
ASSUME PtySizeAssumption == PtySize \in Nat \ {0}
ASSUME FdAssumption == Fd \subseteq Nat
ASSUME NoPtyAssumption == NoPty \notin Session
ASSUME BoundsAssumption == MaxOutput \in Nat /\ MaxInput \in Nat

VARIABLES
  mShellPid,       \* 0 not started, 1 the pid of its shell, -1 finished
  mEmulator,       \* whether mEmulator is set
  mTerminalFileDescriptor,
  fdTable,         \* the pty each descriptor refers to, or NoPty
  shell,           \* the shell process: none, running, zombie, reaped
  background,      \* whether another process holds the slave side open
  ptyOut, ptyIn,   \* bytes in the kernel's buffers, from and to the process
  toTerminal,      \* bytes in mProcessToTerminalIOQueue
  toProcess,       \* bytes in mTerminalToProcessIOQueue
  mOpen,           \* whether the two queues are open
  reader, writer, waiter,        \* where the threads are
  readerBytes, writerBytes,      \* bytes in their buffers
  readerPty, writerPty,          \* the pty of a read or write in the kernel
  taken,           \* bytes of a pty that readers of other sessions have read
  main,            \* what the main thread does
  mainSession,     \* and for which session
  mainBytes,       \* bytes its blocking write() has still to store
  messages,        \* the message queue of the main thread
  made, shown,     \* bytes written by the processes, appended to the screen
  typed,           \* bytes passed to write()
  finished,        \* calls of onSessionFinished
  sizedBy,         \* the session that last set a pty's window size
  killed           \* what else than a shell finishIfRunning() has killed

appVars == <<mShellPid, mEmulator, mTerminalFileDescriptor>>
kernelVars == <<fdTable, ptyOut, ptyIn, sizedBy>>
processVars == <<shell, background, made, killed>>
queueVars == <<toTerminal, toProcess, mOpen>>
readerVars == <<reader, readerBytes, readerPty, taken>>
writerVars == <<writer, writerBytes, writerPty>>
mainVars == <<main, mainSession, mainBytes, messages, shown, typed, finished>>
vars == <<appVars, kernelVars, processVars, queueVars, readerVars, writerVars,
          waiter, mainVars>>

QueueSize == Size      \* new ByteQueue(4096), both queues
ReaderBuffer == Size   \* the buffer of TermSessionInputReader

\* Mutant: the receive buffer is shorter than the queue.
ReceiveBufferShort == Size - 1

\* mReceiveBuffer of MainThreadHandler.
ReceiveBuffer == Size

Lesser(a, b) == IF a <= b THEN a ELSE b

\* bytesToWriteBeforeWaiting in ByteQueue.write().
Storable(bytes, stored) == Lesser(bytes, QueueSize - stored)

\* lengthToWrite in ByteQueue.write() after storing n bytes.
Remaining(bytes, n) == bytes - n

Message == [session : Session, what : {"input", "exited"}]

Init ==
  /\ mShellPid = [s \in Session |-> 0]
  /\ mEmulator = [s \in Session |-> FALSE]
  /\ mTerminalFileDescriptor = [s \in Session |-> 0]
  /\ fdTable = [f \in Fd |-> NoPty]
  /\ shell = [s \in Session |-> "none"]
  /\ background = [s \in Session |-> FALSE]
  /\ ptyOut = [s \in Session |-> 0]
  /\ ptyIn = [s \in Session |-> 0]
  /\ toTerminal = [s \in Session |-> 0]
  /\ toProcess = [s \in Session |-> 0]
  /\ mOpen = [s \in Session |-> TRUE]
  /\ reader = [s \in Session |-> "none"]
  /\ writer = [s \in Session |-> "none"]
  /\ waiter = [s \in Session |-> "none"]
  /\ readerBytes = [s \in Session |-> 0]
  /\ writerBytes = [s \in Session |-> 0]
  /\ readerPty = [s \in Session |-> s]
  /\ writerPty = [s \in Session |-> s]
  /\ taken = [s \in Session |-> 0]
  /\ main = "idle"
  /\ mainSession \in Session
  /\ mainBytes = 0
  /\ messages = <<>>
  /\ made = [s \in Session |-> 0]
  /\ shown = [s \in Session |-> 0]
  /\ typed = [s \in Session |-> 0]
  /\ finished = [s \in Session |-> 0]
  /\ sizedBy = [s \in Session |-> s]
  /\ killed = {}

-----------------------------------------------------------------------------
(* The kernel and the processes. *)

\* Some process has the slave side open.
SlaveOpen(p) == shell[p] = "running" \/ background[p]

\* The master side is open: a descriptor refers to it, or a call is using it.
MasterOpen(p) ==
  \/ \E f \in Fd : fdTable[f] = p
  \/ \E s \in Session : \/ reader[s] = "reading" /\ readerPty[s] = p
                        \/ writer[s] = "writing" /\ writerPty[s] = p

ProcessOutput(p) ==
  /\ SlaveOpen(p) /\ MasterOpen(p)
  /\ ptyOut[p] < PtySize
  /\ made[p] < MaxOutput
  /\ ptyOut' = [ptyOut EXCEPT ![p] = @ + 1]
  /\ made' = [made EXCEPT ![p] = @ + 1]
  /\ UNCHANGED <<appVars, fdTable, ptyIn, sizedBy, shell, background, killed,
                 queueVars, readerVars, writerVars, waiter, mainVars>>

ProcessInput(p) ==
  /\ SlaveOpen(p)
  /\ ptyIn[p] > 0
  /\ ptyIn' = [ptyIn EXCEPT ![p] = @ - 1]
  /\ UNCHANGED <<appVars, fdTable, ptyOut, sizedBy, processVars,
                 queueVars, readerVars, writerVars, waiter, mainVars>>

\* The shell starts a process that survives it, or that process ends.
Background(p) ==
  /\ \/ shell[p] = "running" /\ ~background[p]
     \/ background[p]
  /\ background' = [background EXCEPT ![p] = ~@]
  /\ UNCHANGED <<appVars, kernelVars, shell, made, killed,
                 queueVars, readerVars, writerVars, waiter, mainVars>>

ShellExit(p) ==
  /\ shell[p] = "running"
  /\ shell' = [shell EXCEPT ![p] = "zombie"]
  /\ UNCHANGED <<appVars, kernelVars, background, made, killed,
                 queueVars, readerVars, writerVars, waiter, mainVars>>

-----------------------------------------------------------------------------
(* TermSessionInputReader. *)

\* termIn.read() enters the kernel with the number in the FileDescriptor; a
\* closed one makes it throw.
ReaderCall(s) ==
  /\ reader[s] = "call"
  /\ LET p == fdTable[mTerminalFileDescriptor[s]]
     IN  IF p = NoPty
           THEN /\ reader' = [reader EXCEPT ![s] = "done"]
                /\ UNCHANGED readerPty
           ELSE /\ reader' = [reader EXCEPT ![s] = "reading"]
                /\ readerPty' = [readerPty EXCEPT ![s] = p]
  /\ UNCHANGED <<appVars, kernelVars, processVars, queueVars, readerBytes,
                 taken, writerVars, waiter, mainVars>>

\* The read returns bytes; or throws when there are none and nobody is left to
\* write any.  Otherwise it blocks, even after the descriptor has been closed.
ReaderReturn(s) ==
  /\ reader[s] = "reading"
  /\ LET p == readerPty[s]
     IN  \/ \E n \in 1 .. Lesser(ptyOut[p], ReaderBuffer) :
              /\ ptyOut' = [ptyOut EXCEPT ![p] = @ - n]
              /\ readerBytes' = [readerBytes EXCEPT ![s] = n]
              /\ taken' = IF p = s THEN taken ELSE [taken EXCEPT ![p] = @ + n]
              /\ reader' = [reader EXCEPT ![s] = "queue"]
         \/ /\ ptyOut[p] = 0 /\ ~SlaveOpen(p)
            /\ reader' = [reader EXCEPT ![s] = "done"]
            /\ UNCHANGED <<ptyOut, readerBytes, taken>>
  /\ UNCHANGED <<appVars, fdTable, ptyIn, sizedBy, processVars, queueVars,
                 readerPty, writerVars, waiter, mainVars>>

\* mProcessToTerminalIOQueue.write(): false when closed; else it stores what
\* fits and blocks for the rest.
ReaderQueue(s) ==
  /\ reader[s] = "queue"
  /\ \/ /\ ~mOpen[s]
        /\ reader' = [reader EXCEPT ![s] = "done"]
        /\ readerBytes' = [readerBytes EXCEPT ![s] = 0]
        /\ UNCHANGED toTerminal
     \/ /\ mOpen[s]
        /\ toTerminal[s] < QueueSize
        /\ LET n    == Storable(readerBytes[s], toTerminal[s])
               rest == Remaining(readerBytes[s], n)
           IN  /\ toTerminal' = [toTerminal EXCEPT ![s] = @ + n]
               /\ readerBytes' = [readerBytes EXCEPT ![s] = rest]
               /\ reader' = [reader EXCEPT ![s] = IF rest = 0 THEN "post" ELSE "queue"]
  /\ UNCHANGED <<appVars, kernelVars, processVars, toProcess, mOpen, readerPty,
                 taken, writerVars, waiter, mainVars>>

ReaderPost(s) ==
  /\ reader[s] = "post"
  /\ messages' = Append(messages, [session |-> s, what |-> "input"])
  /\ reader' = [reader EXCEPT ![s] = "call"]
  /\ UNCHANGED <<appVars, kernelVars, processVars, queueVars, readerBytes, readerPty, taken,
                 writerVars, waiter, main, mainSession, mainBytes, shown, typed, finished>>

-----------------------------------------------------------------------------
(* TermSessionOutputWriter. *)

\* mTerminalToProcessIOQueue.read(): -1 when closed, else all that is stored.
WriterTake(s) ==
  /\ writer[s] = "take"
  /\ \/ /\ ~mOpen[s]
        /\ writer' = [writer EXCEPT ![s] = "done"]
        /\ UNCHANGED <<toProcess, writerBytes>>
     \/ /\ mOpen[s]
        /\ toProcess[s] > 0
        /\ writerBytes' = [writerBytes EXCEPT ![s] = toProcess[s]]
        /\ toProcess' = [toProcess EXCEPT ![s] = 0]
        /\ writer' = [writer EXCEPT ![s] = "call"]
  /\ UNCHANGED <<appVars, kernelVars, processVars, toTerminal, mOpen, readerVars,
                 writerPty, waiter, mainVars>>

\* termOut.write() enters the kernel, once for each part the kernel accepts.
WriterCall(s) ==
  /\ writer[s] = "call"
  /\ LET p == fdTable[mTerminalFileDescriptor[s]]
     IN  IF p = NoPty
           THEN /\ writer' = [writer EXCEPT ![s] = "done"]
                /\ UNCHANGED writerPty
           ELSE /\ writer' = [writer EXCEPT ![s] = "writing"]
                /\ writerPty' = [writerPty EXCEPT ![s] = p]
  /\ UNCHANGED <<appVars, kernelVars, processVars, queueVars, readerVars,
                 writerBytes, waiter, mainVars>>

\* The kernel accepts what fits, or fails when nobody has the slave side open.
WriterWrite(s) ==
  /\ writer[s] = "writing"
  /\ LET p == writerPty[s]
         n == Lesser(writerBytes[s], PtySize - ptyIn[p])
     IN  \/ /\ ~SlaveOpen(p)
            /\ writer' = [writer EXCEPT ![s] = "done"]
            /\ UNCHANGED <<ptyIn, writerBytes>>
         \/ /\ SlaveOpen(p) /\ n > 0
            /\ ptyIn' = [ptyIn EXCEPT ![p] = @ + n]
            /\ writerBytes' = [writerBytes EXCEPT ![s] = @ - n]
            /\ writer' = [writer EXCEPT ![s] = IF n = writerBytes[s] THEN "take" ELSE "call"]
  /\ UNCHANGED <<appVars, fdTable, ptyOut, sizedBy, processVars, queueVars,
                 readerVars, writerPty, waiter, mainVars>>

-----------------------------------------------------------------------------
\* Mutant: the waiter sends the other message.
ExitMessageWrong(s) == [session |-> s, what |-> "input"]

\* MSG_PROCESS_EXITED.
ExitMessage(s) == [session |-> s, what |-> "exited"]

\* JNI.waitFor(): waitpid() returns when it has reaped the shell.
WaitFor(s) ==
  /\ shell[s] = "zombie"
  /\ shell' = [shell EXCEPT ![s] = "reaped"]

\* TermSessionWaiter: the thread tells the main thread of the exit and ends.
Waiter(s) ==
  /\ waiter[s] = "wait"
  /\ WaitFor(s)
  /\ messages' = Append(messages, ExitMessage(s))
  /\ waiter' = [waiter EXCEPT ![s] = "done"]
  /\ UNCHANGED <<appVars, kernelVars, background, made, killed, queueVars, readerVars,
                 writerVars, main, mainSession, mainBytes, shown, typed, finished>>

-----------------------------------------------------------------------------
(* The main thread: calls by the user interface, and handleMessage(). *)

\* create_subprocess(): it opens /dev/ptmx, which gives the lowest free
\* descriptor, and forks the shell.
CreateSubprocess(s) ==
  /\ \E f \in Fd :
       /\ fdTable[f] = NoPty
       /\ \A g \in Fd : fdTable[g] = NoPty => f <= g
       /\ fdTable' = [fdTable EXCEPT ![f] = s]
       /\ mTerminalFileDescriptor' = [mTerminalFileDescriptor EXCEPT ![s] = f]
  /\ shell' = [shell EXCEPT ![s] = "running"]

\* initializeEmulator(): the subprocess and the three threads are started.
InitializeEmulator(s) ==
  /\ main = "idle"
  /\ ~mEmulator[s]
  /\ mEmulator' = [mEmulator EXCEPT ![s] = TRUE]
  /\ CreateSubprocess(s)
  /\ mShellPid' = [mShellPid EXCEPT ![s] = 1]
  /\ reader' = [reader EXCEPT ![s] = "call"]
  /\ writer' = [writer EXCEPT ![s] = "take"]
  /\ waiter' = [waiter EXCEPT ![s] = "wait"]
  /\ UNCHANGED <<ptyOut, ptyIn, sizedBy, background, made, killed, queueVars,
                 readerBytes, readerPty, taken, writerBytes, writerPty, mainVars>>

\* JNI.setPtyWindowSize(): the ioctl reaches whatever pty the descriptor refers
\* to now.
SetPtyWindowSize(s) ==
  LET p == fdTable[mTerminalFileDescriptor[s]]
  IN  sizedBy' = IF p = NoPty THEN sizedBy ELSE [sizedBy EXCEPT ![p] = s]

\* The other branch of updateSize().
UpdateSize(s) ==
  /\ main = "idle"
  /\ mEmulator[s]
  /\ SetPtyWindowSize(s)
  /\ UNCHANGED <<appVars, fdTable, ptyOut, ptyIn, processVars, queueVars, readerVars,
                 writerVars, waiter, mainVars>>

\* write(): ignored unless the shell runs.
Write(s) ==
  /\ main = "idle"
  /\ mShellPid[s] > 0
  /\ \E n \in 1 .. MaxInput - typed[s] :
       /\ mainBytes' = n
       /\ typed' = [typed EXCEPT ![s] = @ + n]
  /\ main' = "write"
  /\ mainSession' = s
  /\ UNCHANGED <<appVars, kernelVars, processVars, queueVars, readerVars, writerVars,
                 waiter, messages, shown, finished>>

\* mTerminalToProcessIOQueue.write(), which blocks the main thread while the
\* queue is full: in a write(), or in a reply of the emulator to what
\* handleMessage() appends to it.
MainQueue ==
  /\ main \in {"write", "exit reply"}
  /\ LET s    == mainSession
         n    == Storable(mainBytes, toProcess[s])
         rest == Remaining(mainBytes, n)
         next == IF main = "write" THEN "idle" ELSE "cleanup"
     IN  \/ /\ ~mOpen[s]
            /\ mainBytes' = 0
            /\ main' = next
            /\ UNCHANGED toProcess
         \/ /\ mOpen[s]
            /\ toProcess[s] < QueueSize
            /\ toProcess' = [toProcess EXCEPT ![s] = @ + n]
            /\ mainBytes' = rest
            /\ main' = IF rest = 0 THEN next ELSE main
  /\ UNCHANGED <<appVars, kernelVars, processVars, toTerminal, mOpen, readerVars,
                 writerVars, waiter, mainSession, messages, shown, typed, finished>>

\* handleMessage() up to the end of mEmulator.append(), in which the emulator
\* may write() a reply.
HandleMessage ==
  /\ main = "idle"
  /\ messages # <<>>
  /\ LET s == Head(messages).session
         exited == Head(messages).what = "exited"
         n == IF mOpen[s] THEN Lesser(toTerminal[s], ReceiveBuffer) ELSE 0
     IN  /\ messages' = Tail(messages)
         /\ toTerminal' = [toTerminal EXCEPT ![s] = @ - n]
         /\ shown' = [shown EXCEPT ![s] = @ + n]
         /\ mainSession' = s
         /\ \/ /\ main' = IF exited THEN "cleanup" ELSE "idle"
               /\ UNCHANGED <<mainBytes, typed>>
            \/ /\ n > 0 /\ mShellPid[s] > 0
               /\ \E k \in 1 .. MaxInput - typed[s] :
                    /\ mainBytes' = k
                    /\ typed' = [typed EXCEPT ![s] = @ + k]
               /\ main' = IF exited THEN "exit reply" ELSE "write"
  /\ UNCHANGED <<appVars, kernelVars, processVars, toProcess, mOpen, readerVars,
                 writerVars, waiter, finished>>

\* Mutant: the queue to the terminal is closed only by its reader thread.
CloseQueuesNot(open, s) == open

\* The two close() calls of cleanupResources().
CloseQueues(open, s) == [open EXCEPT ![s] = FALSE]

\* Mutant: the descriptor is left to the streams, which do not own it.
JNICloseNot(table, f) == table

\* JNI.close(): close(2) on the number.
JNIClose(table, f) == [table EXCEPT ![f] = NoPty]

\* cleanupResources() and the rest of handleMessage().  One step: a thread that
\* runs between two of its calls might as well have run before the first.
CleanupResources ==
  /\ main = "cleanup"
  /\ LET s == mainSession
     IN  /\ mShellPid' = [mShellPid EXCEPT ![s] = -1]
         /\ mOpen' = CloseQueues(mOpen, s)
         /\ fdTable' = JNIClose(fdTable, mTerminalFileDescriptor[s])
         /\ finished' = [finished EXCEPT ![s] = @ + 1]
  /\ main' = "idle"
  /\ UNCHANGED <<mEmulator, mTerminalFileDescriptor, ptyOut, ptyIn, sizedBy, processVars,
                 toTerminal, toProcess, readerVars, writerVars, waiter, mainSession, mainBytes,
                 messages, shown, typed>>

\* finishIfRunning(): kill(mShellPid, SIGKILL).  Pid 0 is the process group of
\* the application; the pid of a reaped shell is free for any other process.
FinishIfRunning(s) ==
  /\ main = "idle"
  /\ mShellPid[s] # -1
  /\ \/ /\ mShellPid[s] = 0
        /\ killed' = killed \cup {"application"}
        /\ main' = "dead"
        /\ UNCHANGED shell
     \/ /\ mShellPid[s] > 0 /\ shell[s] = "reaped"
        /\ killed' = killed \cup {"stranger"}
        /\ UNCHANGED <<main, shell>>
     \/ /\ mShellPid[s] > 0 /\ shell[s] # "reaped"
        /\ shell' = [shell EXCEPT ![s] = "zombie"]
        /\ UNCHANGED <<main, killed>>
  /\ UNCHANGED <<appVars, kernelVars, background, made, queueVars, readerVars,
                 writerVars, waiter, mainSession, mainBytes, messages, shown, typed, finished>>

ReaderStep(s) == ReaderCall(s) \/ ReaderReturn(s) \/ ReaderQueue(s) \/ ReaderPost(s)
WriterStep(s) == WriterTake(s) \/ WriterCall(s) \/ WriterWrite(s)
MainStep == MainQueue \/ HandleMessage \/ CleanupResources

Next ==
  \/ MainStep
  \/ \E s \in Session :
       \/ ProcessOutput(s) \/ ProcessInput(s) \/ Background(s) \/ ShellExit(s)
       \/ ReaderStep(s)
       \/ WriterStep(s)
       \/ Waiter(s)
       \/ InitializeEmulator(s) \/ UpdateSize(s) \/ Write(s) \/ FinishIfRunning(s)

Spec == Init /\ [][Next]_vars

-----------------------------------------------------------------------------
AppTypeOK ==
  /\ mShellPid \in [Session -> {-1, 0, 1}]
  /\ mEmulator \in [Session -> BOOLEAN]
  /\ mTerminalFileDescriptor \in [Session -> Fd \cup {0}]
  /\ mOpen \in [Session -> BOOLEAN]

KernelTypeOK ==
  /\ fdTable \in [Fd -> Session \cup {NoPty}]
  /\ ptyOut \in [Session -> 0 .. PtySize]
  /\ ptyIn \in [Session -> 0 .. PtySize]
  /\ sizedBy \in [Session -> Session]

ProcessTypeOK ==
  /\ shell \in [Session -> {"none", "running", "zombie", "reaped"}]
  /\ background \in [Session -> BOOLEAN]
  /\ made \in [Session -> Nat]
  /\ killed \in SUBSET {"application", "stranger"}

BytesTypeOK ==
  /\ toTerminal \in [Session -> 0 .. QueueSize]
  /\ toProcess \in [Session -> 0 .. QueueSize]
  /\ readerBytes \in [Session -> 0 .. ReaderBuffer]
  /\ taken \in [Session -> Nat]
  /\ writerBytes \in [Session -> 0 .. QueueSize]
  /\ mainBytes \in Nat
  /\ shown \in [Session -> Nat]
  /\ typed \in [Session -> Nat]

ThreadTypeOK ==
  /\ reader \in [Session -> {"none", "call", "reading", "queue", "post", "done"}]
  /\ writer \in [Session -> {"none", "take", "call", "writing", "done"}]
  /\ waiter \in [Session -> {"none", "wait", "done"}]
  /\ readerPty \in [Session -> Session]
  /\ writerPty \in [Session -> Session]

MainTypeOK ==
  /\ main \in {"idle", "write", "exit reply", "cleanup", "dead"}
  /\ mainSession \in Session
  /\ messages \in Seq(Message)
  /\ finished \in [Session -> Nat]

\* The fields of TerminalSession.java, its threads and the kernel's tables keep
\* their types; no queue or buffer exceeds its capacity.
TypeOK ==
  AppTypeOK /\ KernelTypeOK /\ ProcessTypeOK /\ BytesTypeOK /\ ThreadTypeOK /\ MainTypeOK

\* Output that the reader thread has stored never lies in the queue unnoticed:
\* a message that makes the main thread fetch it is in the message queue, or is
\* the next thing the reader sends.  A write() that blocks on a full queue sends
\* nothing until it returns, so this rests on the sizes of the three buffers.
OutputIsNoticed ==
  \A s \in Session :
    mOpen[s] /\ toTerminal[s] > 0 =>
      \/ reader[s] = "post"
      \/ \E i \in 1 .. Len(messages) : messages[i].session = s

\* "A queue written to from a separate thread when the process outputs, and
\* read by main thread": while a session runs, no byte its processes wrote is
\* lost or shown twice on the way from the pty to the emulator, except what the
\* reader thread of a finished session has read, whose descriptor had the same
\* number.
OutputConserved ==
  \A s \in Session :
    /\ mOpen[s] => made[s] = ptyOut[s] + readerBytes[s] + toTerminal[s] + shown[s] + taken[s]
    /\ taken[s] > 0 =>
         \E t \in Session \ {s} :
           ~mOpen[t] /\ mTerminalFileDescriptor[t] = mTerminalFileDescriptor[s]

\* A descriptor refers to the pty of a session exactly as long as the session
\* runs and the number is its mTerminalFileDescriptor: cleanupResources() leaks
\* none and closes none of another session, although numbers are used again, and
\* no two sessions that run have the same number.
DescriptorsOwned ==
  \A f \in Fd, s \in Session :
    fdTable[f] = s <=> mShellPid[s] = 1 /\ mTerminalFileDescriptor[s] = f

\* onSessionFinished is called once, for a shell that has been reaped, and the
\* emulator is given no output after it, whatever messages are still queued.
FinishedIsFinal ==
  [][\A s \in Session :
       /\ finished[s] > 0 => shown'[s] = shown[s] /\ finished'[s] = finished[s]
       /\ finished'[s] # finished[s] => shell[s] = "reaped"]_vars

\* "Finish this terminal session by sending SIGKILL to the shell": what
\* finishIfRunning() kills is the shell.
KillsTheShell == killed = {}

\* "The file descriptor referencing the master half of a pseudo-terminal pair,
\* resulting from calling createSubprocess": updateSize() and the threads of a
\* session use that pty and no other.
OwnPtyOnly ==
  \A s \in Session :
    /\ sizedBy[s] = s
    /\ reader[s] = "reading" => readerPty[s] = s
    /\ writer[s] = "writing" => writerPty[s] = s

-----------------------------------------------------------------------------
(* Liveness: the threads and the main looper are scheduled, and a process  *)
(* that has the terminal open reads its input.                             *)

LiveSpec ==
  /\ Spec
  /\ WF_vars(MainStep)
  /\ \A s \in Session : /\ WF_vars(ReaderStep(s))
                        /\ WF_vars(WriterStep(s))
                        /\ WF_vars(Waiter(s))
                        /\ WF_vars(ProcessInput(s))

Dead == main = "dead"

\* The main thread waits for room in a queue whose writer thread has ended: an
\* I/O error ends it without closing the queue.
MainBlocked ==
  /\ main \in {"write", "exit reply"}
  /\ mOpen[mainSession] /\ toProcess[mainSession] = QueueSize
  /\ writer[mainSession] = "done"

\* "Cleanup resources when the process exits": a shell that has exited is
\* followed by cleanupResources() and onSessionFinished.
ExitIsCleanedUp == \A s \in Session : shell[s] = "zombie" ~> finished[s] = 1 \/ Dead

\* The same with the one thing that can prevent it: the exit is lost in no other
\* way between the waiter thread, the message queue and handleMessage().
ExitIsHandled ==
  \A s \in Session : shell[s] = "zombie" ~> finished[s] = 1 \/ Dead \/ MainBlocked

\* What the processes have written reaches the screen, unless the session ends
\* or the main thread is blocked for ever.
OutputIsShown ==
  \A s \in Session :
    made[s] > shown[s] ~> made[s] = shown[s] \/ ~mOpen[s] \/ Dead \/ MainBlocked

\* "Stop the reader and writer threads": they end after cleanupResources(), once
\* no process has the slave side of the pty open.
ThreadsStopOnceAlone ==
  \A s \in Session :
    finished[s] = 1 /\ ~background[s] ~> reader[s] = "done" /\ writer[s] = "done"
=============================================================================
