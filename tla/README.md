# XoDos: a TLA+ verification project

XoDos is an Android application: a terminal (a fork of Termux) and an X server
(a fork of Termux:X11) in one package, with an installer for the Linux userland
they run, a floating control ball and home-screen widgets.  This directory holds
TLA+ modules that model parts of it, TLC configurations that check them on small
instances, and TLAPS proofs of the properties that matter most.

## The system

| Part | Source | What it does |
| --- | --- | --- |
| Terminal session | `terminal-emulator/.../TerminalSession.java`, `ByteQueue.java`, `JNI.java`, `jni/termux.c` | runs a subprocess on a pseudoterminal; a reader, a writer and a waiter thread exchange bytes with the main thread through two byte queues and a message handler |
| Terminal screen | `TerminalBuffer.java`, `TerminalRow.java`, `TextStyle.java`, `WcWidth.java` | the circular array of rows with its transcript, and a row of cells with wide and combining characters |
| Terminal emulator | `TerminalEmulator.java`, `KeyHandler.java`, colours | the escape-sequence interpreter |
| Terminal view | `terminal-view/` | drawing, selection, touch and key input |
| Shared library | `termux-shared/` | execution commands, background shells, local sockets, properties, files, settings |
| Application | `app/` | the service that owns sessions, the activity, the bootstrap installer, the start menu |
| X server glue | `termux-x11/src/main/cpp/lorie/` | the X server's device layer (`InitOutput.c`, `InitInput.c`, `clipboard.c`, `buffer.c`), its connection to the activity (`cmdentrypoint.c`, `activity.c`) and the renderer thread of the activity (`renderer.c`) |
| X activity | `termux-x11/src/main/java/` | the view, touch and gesture handling, preferences, the Windows-program helper |
| Float ball, widgets, loader | `float-ball/`, `wid/`, `shell-loader/` | user-interface add-ons and the loader of the X server process |
| Vendored code | the rest of `termux-x11/src/main/cpp/` | xserver, libx11, pixman, xkbcomp and others: third-party code, with the patches in `patches/` |

How the parts interact.  The service (`TermuxService.java`) receives intents,
starts a `TerminalSession` or an `AppShell` for each, and sends results back.  A
session moves bytes between its process and the emulator; the emulator draws
into a `TerminalBuffer`, and the view shows that.  The X server is a process of
its own.  It hands the X activity one end of a socket, over which it sends a
descriptor of its shared state and the buffers to show, and receives input; the
renderer thread of the activity copies the root window's buffer to the screen
when flags in the shared state ask for it, excluded from the server by a mutex
in the same memory.  Texts copied by X clients cross the socket to Android's
clipboard.

## Modules

| Module | Models | Theorems in |
| --- | --- | --- |
| `ByteQueue` | `ByteQueue.java`: the ring, the monitor, `close()` | `ByteQueueProofs` |
| `ByteStream` | what a byte queue promises: a bounded first-in first-out stream | |
| `TerminalSession` | `TerminalSession.java` with `jni/termux.c`: sessions, their threads, the main thread, the kernel's side of the terminal | `TerminalSessionProofs` |
| `TerminalBuffer` | `TerminalBuffer.java` at a fixed width: the circular array of row objects | `TerminalBufferProofs` |
| `Scrollback` | what a main buffer promises: a list of lines, its tail on the screen, and a cursor | |
| `XodosService` | commands and the service: `ExecutionCommand`, `AppShell`, `TermuxSession`, `TermuxService`, the lists, the results | `XodosServiceProofs` |
| `LorieMutex` | `lorie.h`: the process-shared mutex, with the connections of `cmdentrypoint.c` and `activity.c` that decide who is taken for dead | `LorieMutexProofs` |
| `Renderer` | `renderer.c`: renderer and proxy thread, the calls of the GUI thread, and the flags that `InitOutput.c` sets for them | `RendererProofs` |
| `Connection` | `cmdentrypoint.c` and `activity.c`: sockets, hang-ups, the shared state and buffers sent | `ConnectionProofs` |
| `ClipboardText` | the conversions of `clipboard.c` between UTF-8 and Latin-1 | `ClipboardProofs` |
| `Clipboard` | `clipboard.c` from X to Android, with its events in `cmdentrypoint.c`, `activity.c` and `LorieView.java` | `ClipboardProofs` |
| `MC...` | instances for TLC | |

`TerminalSession` composes with `ByteQueue` through `ByteStream`: it uses its two
queues as counted bounded streams, which is what `ImplementsByteStream` shows of
the ring.  `PROJECT.json` maps every definition to the lines it stands for.

### ByteQueue

The variables are the fields of the class, `pc` for what the two threads do
(`idle`, `entering` the monitor, `waiting` in `wait()`), the bytes a `write()`
has still to store and the arguments of a `read()`.  One action is one stay in
the monitor, from entering it or waking up to leaving it or waiting again.  A
write longer than the room there is stores a chunk and waits; the copy in two
runs around the end of the array is modelled run by run (`WriteRun`, `ReadRun`).
`notify()` wakes one waiter of the monitor, whichever thread that is, and a
waiter may wake up for no reason.

### TerminalSession

The main thread runs its message queue and the calls of the application
(`updateSize()`, `write()`, `finishIfRunning()`); each started session has a
reader, a writer and a waiter thread.  Bytes are counted, their values being the
business of `ByteQueue`.  A system call is two steps where the code passes a
number: `ReaderCall` looks the descriptor up in the table and `ReaderReturn`
returns from the terminal found there, since another session may be given the
number meanwhile.  External, and modelled from how the code uses it: the
descriptor table, which hands out its lowest free number, the two buffers of a
pty, which end with an error when the other side is closed, a process that
exits, leaves another one behind with the terminal open, is a zombie until
`waitpid()` and may be succeeded by a stranger with its pid after it.  A
`FileInputStream` made from a descriptor by `wrapFileDescriptor()` is not taken
to close it.  A main thread that kills its own process group ends the
application (`main = "dead"`).  `taken` counts the bytes that the reader of another
session has read from a pty, for `OutputConserved` only.  A `createSubprocess()` that throws is left out.

### TerminalBuffer

`mLines` holds references to row objects and `text` their contents, so that the
model can share a row between slots if the code does.  Each action is a whole
method: `ScrollDownOneLine` with the copying above and below the margins,
`Resize` with the choice of how far to shift and the clearing of new rows,
`ClearTranscript`, `Put` for drawing, `LineWrap`.  With `AltScreen` the buffer
is the alternate one, whose array is as long as the screen.  `Scrollback` is the
abstract one: lines move from the screen to the transcript, the oldest are
dropped at the bound `total`, and `mark` is the cursor's row.  How many lines a
shrinking screen gives up at its bottom is determined there too: as many as there
are blank rows below the mark (`Shrink`), whichever rows those are.

### XodosService

A command has a kind (its intent), a state, an exit code and the flag
`processingResultsAlreadyCalled`.  The main thread runs one handler at a time.
The thread of a task shares the command with it, so the handlers that use a
task's command more than once, `AddTask` and the kill (`KillCheck`, `KillFail`,
`KillCode`, `KillProcess`, `KillSignal`), are split at each use, as is
`executeInner()` (`ThreadBegin` to `ThreadProcess`).  `onAppShellExited()` is
posted to the handler and is an action of its own.  The service may be stopped
by its notification, destroyed by the system and created again; the lists live
in a manager that outlives it.  Notifications and wake locks are left out, with
`stopSelf()`, which is one of the reasons the system destroys the service.  The
`finishIfRunning()` of a session that was never started is part of
`TerminalSession`, not of this module.

### LorieMutex

The server, and activity processes one after another.  `pc` is how far a process
is in `lorie_mutex_lock()` (`locking`, `timedOut`, `reinit`, `locked`), in its
drawing and in `lorie_mutex_unlock()` (`unlocking`): the steps are the accesses
to the mutex and to `lockingPid`.  A locked mutex may time out at once, because
the deadline is taken from the monotonic clock and compared with the other one.
Sockets are numbered; `lorieConnectionAlive()` is modelled from the two ends of
the socket of the process.  A renderer that has drawn sets `waitForNextFrame` and
draws again only after the server's `lorieRedraw()` (`Redraw`), which the server's
main thread calls when it is not drawing.  A process may die between any two steps.  `parted`
records that a process has lost its connection and runs on, which is what the
code takes for death; it is there for the properties only.

### Renderer

The record `renderer` is the thread with its static variables, `request` what
the GUI thread has pending, `proxy` the proxy thread with its struct, `list` the
list each buffer is in, `shared` the state in shared memory.  A step of the
renderer thread ends where it gives up or takes a lock, or reads or writes what
others do at the same time.  `rendererShouldWait()` and the wait after it are two
steps (`Test`, `Sleep`), between which signals are lost.  `lorieRedraw()` is three:
it holds no lock.  Waits may end without a signal.  Creating the surface of a
window, and making it current, may fail, and so may letting the old one go
(`releaseWinAndSurface`): the surface then stays, in `renderer.stuck`.  The behaviours start at boot, when the
renderer thread waits and unlocks without having locked `stateLock`, or with a
window shown and everyone asleep.  `gui.wanted`, `gui.early`, `server.owed` and
`server.drawn` are for the properties only.  What is left out: shaders, textures
and the set-up of EGL.

### Connection

A function of the server's main thread is a list of steps (`work`): watch a
socket, set `conn_fd`, send, test and change `registeredBuffers`; `conn_fd` is
read anew at each.  The input thread handles a hang-up in three steps, between
which the main thread may run.  `raced` records that the two have met there, or
that a second socket was accepted before the hang-up of the first was handled;
`torn` that the activity has read a byte too many after a clipboard text.  The
server may die and be started again.  Input events are left out: they change no
state here.

### Clipboard

From X to Android.  `asked` holds the requests sent to X clients, `offer` what a
client has to paste, `toServer` the switches of the sync and `toActivity` the
texts and other events on their way.  Texts are sequences of code points, and
what travels is bytes: each conversion of `clipboard.c` is a definition of
`ClipboardText`.  They are proved to agree with the encodings, and `MCClipboard`
compares them with UTF-8 and Latin-1 at the bounds of every code length.
`lorieCheckUTF8()` reads up to three bytes past the end of the property: `past`
says which of them look like the rest of a sequence, and is any set.  The activity
reads one byte more than a text has, so that a text with another event behind it
puts the stream out of step (`torn`).  A client's writing of its property and its
`SendEvent` are one step; a client may exit, and one that has lost the selection
may refuse.  `overtaken`, `disturbed` and `copied` are for the properties only.

From Android to X nothing is modelled.  The announcement of a copy,
`checkForClipboardChange()`, is called by a clipboard listener only, and its
registration in `LorieView.java` (916-929) is commented out: in this revision the
server never takes the selection, and `lorieHandleClipboardAnnounce()`, the cache
and the list of waiting conversions are not reached.

## Runs

| Run | Instance | What it shows |
| --- | --- | --- |
| `bytequeue` | capacity 2, writes and reads up to 3 bytes | the ring is a stream (`ImplementsByteStream`); a waiting thread has a reason to wait, so no wakeup is lost (`WaitersHaveReason`); a blocked `write()` and a blocked `read()` return (`WriteReturns`, `ReaderReleased`) |
| `session` | one session, buffers of 2, 3 bytes of output, 3 of input | stored output is announced (`OutputIsNoticed`); the end is final (`FinishedIsFinal`); an exit is handled unless the main thread is blocked for ever (`ExitIsHandled`); output is shown, and the threads end once no process has the terminal open |
| `sessions` | two sessions, two descriptors, 2 bytes of output | no descriptor is leaked, closed for another session or has two owners although numbers are used again (`DescriptorsOwned`); no output is lost or shown twice but what the reader of a finished session takes (`OutputConserved`) |
| `buffer` | 4 rows, screens of 2 to 4, three contents | the circular array is a list of lines (`ImplementsScrollback`); rows are not shared, active ones exist, the cursor keeps its line through a resize |
| `service` | two commands, five kinds of intent | at most one result for a command that was not rejected (`OneResult`), and at least one when it ends (`ResultIsSent`) or the service stops (`StopAnswers`); no task stays listed (`ListedTasksEnd`); a success carries the exit status; a state never goes back |
| `mutex` | two activities, two connections | the server and a renderer do not draw at once while connections last (`Exclusive`), `lockingPid` names who draws, the server gets the mutex of a renderer that died, until another has connected (`ServerGetsMutex`) |
| `renderer` | one window, one mapping, two buffers, two GUI calls | nothing released or unmapped is used (`BufferNotReleased`, `NothingUnmappedUsed`); an old surface is gone when the call returns (`EarlierSurfaceGone`), and it returns (`CallReturns`); frames are announced only with a window; a requested frame of an unchanged root buffer stays requested, and is drawn (`FrameStaysRequested`, `FrameIsDrawn`) |
| `connection` | three buffers, two connections, two functions of the server or restarts | both sides agree on the buffers, the screen's among them (`BuffersAgree`); a connected activity gets the state and the screen (`ActivityServed`); a socket the activity has let go is closed by the server (`SocketsClosed`) |
| `clipboard` | two clients, a Latin-1 text with a carriage return, the euro sign, a text of nothing but a carriage return, UTF-8 that is cut short, four changes | Android gets the owner's text (`AndroidHasOwnersText`); what is sent is the offered text in UTF-8, from either target (`SentIsText`); the server's switch ends up as the preference says (`SyncAgrees`) |

The type invariants are proved (below) and not repeated in the runs, except that
of `Connection`.

Several of these properties hold with an exception only, which is written in the
property as a condition.  Where the exception is a state the program reaches, the
property says nothing from then on:

| Property | Exception |
| --- | --- |
| `Exclusive`, `LockingPidNamesOwner` | `parted`: a process has lost its connection and runs on; the other takes it for dead and initialises the mutex while it draws |
| `ServerGetsMutex` | `Adopted`: the owner is dead and another activity is connected (see `mutex_reconnect`) |
| `OneResult` | commands rejected for their runner, which may be answered twice (see `MCXodosServiceAnswer.cfg`) |
| `EarlierSurfaceGone` | `renderer.stuck`: a surface that EGL has failed to let go, which the code leaves where it is |
| `FramesNeedWindow` | a window whose surface could not be created: `surfaceAvailable` keeps its value |
| `FrameStaysRequested` | what was drawn before the root window changed its buffer (see `MCRendererRoot.cfg`) |
| `CallReturns`, `FrameIsDrawn` | `gui.early`: a call was made before renderer and proxy thread had slept for the first time |
| `BuffersAgree`, `ActivityServed` | `raced`: main and input thread have met in a hang-up (see `MCConnectionLate.cfg`); `torn`: the stream is read out of step |
| `AndroidHasOwnersText` | `overtaken`: a client that is no longer the owner has answered; `disturbed`: the sync was off or the connection lost; `torn`: the stream is read out of step; `copied`: a text was copied in Android since; a text of nothing but carriage returns is sent empty, and the activity ignores it |
| `SentIsText`, `AndroidHasOwnersText` | UTF-8 that is cut short, which may pass `lorieCheckUTF8()` |
| `OutputConserved` | `taken`: the reader of a finished session has used the descriptor's number (see `MCTerminalSessionPty.cfg`) |
| `ExitIsHandled`, `OutputIsShown` | `MainBlocked`: the main thread waits for room in a queue whose writer thread has ended (see `session_exit`); the application has been killed |

Three runs show where the code does not do what a comment in it says; each finding
in `PROJECT.json` quotes the comment.

| Run | Comment | What happens |
| --- | --- | --- |
| `session_exit` | resources are cleaned up when the process exits | a main thread blocked on the full input queue never handles the exit, for the writer thread has ended without closing the queue |
| `service_kill` | the process of a killed task is sent a signal | the command is made to fail first, and then is not executing any more |
| `mutex_reconnect` | a mutex left locked by a process that died is initialised again | not if the next activity has connected before the server wants the mutex: its connection makes the dead owner look alive, and the server waits for ever |

Six further configurations are kept for the exceptions the properties above
make.  Each has one property, which TLC finds violated.

| Configuration, property | What happens |
| --- | --- |
| `MCTerminalSessionKill.cfg`, `KillsTheShell` | `finishIfRunning()` before the start kills pid 0, the application's process group; after `waitpid()` and before the exit is handled, whoever has the pid |
| `MCTerminalSessionPty.cfg`, `OwnPtyOnly` | a finished session keeps the descriptor's number; its `updateSize()` and its reader thread then reach the session that was given it |
| `MCTerminalBufferShrink.cfg`, `ShrinkSkipsBlank` | the loop over blank rows passes over rows with text, so a row with text can be dropped while a blank one stays |
| `MCXodosServiceAnswer.cfg`, `AnsweredOnce` | a rejected command stays in the list of pending ones and is answered twice |
| `MCRendererRoot.cfg`, `RootChangeStaysRequested` | `lorieRedraw()` requests a frame before it names the new root buffer: the renderer may draw the old one in between, clear the request and sleep |
| `MCConnectionLate.cfg`, `ConnectionRecovered` | the hang-up of the last socket, handled after the next was accepted, resets `conn_fd`: the new activity stays connected to a server that has forgotten it |

Bounds.  A ring of two with transfers of three reaches every position of the
wrap-around, chunks of one and two bytes and a write that waits twice.  Buffers
of two bytes with three bytes of output fill the kernel's buffer, the reader's and
the queue in turn; three bytes of input block the main thread.  Two sessions and
two descriptors are the least in which a number is used again; sessions are
interchangeable there, the model never ordering them.  Four rows with screens of
two to four leave a transcript of none to two rows, so that it fills, wraps and
is taken back; row objects are interchangeable.  Two commands are enough for a
name that is taken and for a kill of one while the other runs; they are
interchangeable, so of two assignments of kinds that differ by a swap `service`
starts from one (`MCInit`).  The bounds on
bytes (`MaxWrite`, `MaxRead`, `MaxOutput`, `MaxInput`) are constants in the
guards.  Two activities and two connections are the least in which a process
has a successor that finds its mutex locked.  In `renderer` one window gives the
changes to and from no window; two buffers a root window that changes; two calls,
which start from a running system as well as from boot, a hang-up with a frame
or a new window under way.  (The safety properties are proved for any number, and
were checked with two windows and two mappings as well.)  Three buffers are an
old and a new screen and a flipped pixmap.  `MaxCalls`, `MaxChanges`, `MaxWork`
and `MaxConnections` count calls.  Four changes of the clipboard are enough for
two owners, an exit or a copy, and a lost connection or a switched preference
in one history.  X clients are interchangeable.
Deadlock is not checked where everything may come to rest: sessions end,
processes die, and counted calls are used up.

Fairness.  Java threads and the looper are scheduled, so each thread's steps are
weakly fair.  `bytequeue` also assumes that its consumer calls `read()` again,
as the loops of the reading threads do.  `session` assumes that a process
reads its input while it has the terminal open; it does not assume that a
process ever exits or writes.  In `service` the removal of a task is strongly
fair: the handler's queue is first-in first-out, so other handlers cannot
overtake it for ever, although each may run before it.  No intent, stop,
destruction or end of a process is assumed to happen.  In `mutex` a process that
runs goes on and a drawing ends.  That is weak fairness only: a renderer cannot
keep the mutex from the server by locking it again and again, since after a frame
it waits for `lorieRedraw()`, which the server calls when it is not waiting.
In `renderer` who
tries again and again to lock a `stateLock` that is free again and again gets it
(strong fairness), and the server's frame timer ticks.  In `connection` the
threads run, `tryConnect()` is called again every 250 ms, and the looper of the
activity notices a socket that the server has closed.  Nothing else is assumed:
not that anyone draws, calls, dies or hangs up, and in `mutex` not that an
activity connects.  `clipboard` checks safety only.

## Proofs

All are for every value of the constants that the named assumptions allow.

* **ByteQueue**: `TypeCorrect`, `NoLostWakeup` and the refinement `Implements`.
  The inductive invariant adds to the types and to `WaitersHaveReason` that
  neither request in progress is empty.  A thread waits only while the queue is
  full or empty, so the two never wait at once and a `notify()` by one reaches
  the other.  For the refinement, lemmas say what one run of a copy does to the
  content of the ring, and the two runs of a chunk append or remove a run of
  bytes.
* **TerminalSession**: `TypeCorrect`, `OutputAlwaysNoticed`,
  `DescriptorsAlwaysOwned`, `FinishFinal`, `OutputAlwaysConserved`.  The invariant adds that a session has
  threads only once started, that its exit is in one place (a message, the
  handling of it, or the past), and that the shell has been reaped by then.
  `OutputAlwaysNoticed` needs the receive buffer to be as long as the queue: one
  message empties it.  `OutputConserved` says where each byte of output is.  It is
  inductive with the facts that the reader's buffer is empty unless the reader is
  about to store it, that a session with traces was started, and that a reader in
  the pty of another session is one of a finished session with the same number
  (`Conserved`, `Strays`).  `DescriptorsOwned` says for each number and session
  when the one refers to the other; it is inductive with the place of the exit.
* **TerminalBuffer**: `TypeCorrect`, `RowsNeverShared`, `ActiveAlwaysAllocated`,
  for the main and the alternate buffer; `CursorAlwaysKeepsLine` and the refinement
  `Implements`, for the main buffer.  The first three need each other: a scroll or
  a resize moves references that must exist, and it moves each to a slot of its
  own.  For the alternate buffer the invariant says that it has no spare slots.
  The refinement goes by rows: `ScrollRows` and `ResizeLines` say which row's line
  each row shows after the step (`blockCopyLinesDown()` turns two blocks of the
  circular array by one slot each, `BlockCopyRows`; a resize shifts all rows by
  `ShiftOf`), `Viewed` relates the rows to the two sequences of `Scrollback`, and
  lemmas on sequences (`ScrolledTranscript`, `ScrolledScreen`, `Divided`) conclude.
  That no two slots share a row object is what makes drawing or clearing one row
  leave the other rows alone.  `ImplementsScrollback` is false of the alternate
  buffer: when it shrinks, `mTotalRows` shrinks with it and the slots are counted
  modulo the new length, so it may show other rows than before.  Hence the
  hypothesis `~AltScreen`.
* **XodosService**: `TypeCorrect`, `ResultOnce`, `ListedTasksAlwaysEnd`,
  `StatusKept`, `ForwardOnly`.  The invariant says that a command not yet
  received has left no trace, that what was sent or posted for a command was so
  by the one call that set its flag (`AccountInv`), how far a thread can be in
  each state (`ThreadInv`), and that a listed task either has its removal posted
  or will have (`ListInv`), the kill in progress being the one exception.
* **LorieMutex**: `MutualExclusion`, `LockingPidCorrect`, for any number of
  activities and connections, with the exception named above.  The invariant
  says, as long as no process that runs has lost its connection, that the
  server's socket is the one of the activity that runs, or that its `addFd()` is
  queued; so a process that finds its
  connection dead is alone (`ReinitAlone`), and who has the mutex when it is
  initialised again is dead.
* **Renderer**: `BufferSafety`, `UnmapSafety`, `SurfaceSafety`, `WindowSafety`,
  `FrameSafety`, for any windows, mappings, buffers and number of calls.  The
  invariant relates the threads: while the renderer thread waits for the proxy
  thread, that one has been told where to go or has gone there (`States`); a
  pending state is a new mapping or lets one go (`Pending`); a window that is not
  pending has replaced the surface (`Windows`); without a state nobody clears the
  server's flags (`Frames`).

* **Connection**: `TypeCorrect`, `BuffersAlwaysAgree`, for any number of buffers,
  connections, hang-ups and restarts, with the exceptions named above.  The invariant
  says which lists of steps the main thread can be in the middle of (`WorkOK`), what
  the streams hold (`StreamOK`, `QueueOK`), what the activity and the handling of a
  hang-up can be doing meanwhile (`ActivityOK`, `HangUpOK`), that the screen's buffer
  is listed or about to be (`ScreenOK`), and that what the activity knows after it
  has handled all that was sent is `registeredBuffers`, but for the buffer it was
  told of last, whose listing or unlisting is the main thread's next step (`AgreeOK`).  Lemmas say what one
  more message does to what is known in the end (`AfterAppend`).
* **ClipboardText**: for every text of code points, of any length,
  `Latin1ToUTF8`, `Utf8ToLatin1`, `CheckUTF8` (a text in UTF-8 is accepted, whatever
  comes after it) and `LineEndUTF8` (carriage returns may be removed before
  decoding).  The conversions are recursive functions.  Induction is taken
  from the well-foundedness of the naturals: a set of lengths without a least
  counterexample is empty (`SetInduction`, `SeqInduction`), and a function with the
  recursive equation exists (`RecursionUp`, `RecursionDown`), so the one defined has it.
  `Laid` gives the place of each code point's bytes in the encoded text, and
  `Reads` that `lorieUtf8ToUCS4()` reads that code point from that place.
* **Clipboard**: `TypeCorrect`, `AndroidAlwaysHasOwnersText`, `SentAlwaysIsText`,
  `SyncAlwaysAgrees`, for any clients, texts and numbers of changes, with the
  exceptions named above.  `AndroidHasOwnersText` speaks of a moment when all has been
  said; the invariant says the same of every queue on the way.  The owner's text is
  in the clip with no text on its way, or in the last text sent to the activity, or
  the owner will be asked for it (`Due`, `Reaches`); while nothing has disturbed the
  sync, it is on (`Calm`); the last switch sent is the preference (`Synced`).  The
  theorems on the conversions, and that no two texts have the same UTF-8
  (`UTF8Injective`), close the two properties on contents.  Assumed are that texts
  are of code points and that the samples that are cut short are (`TextAssumption`),
  and that the model values differ (`DistinctAssumption`).

Only model-checked: what needs fairness, that is `WriteReturns`, `ReaderReleased`,
`ExitIsHandled`, `OutputIsShown`, `ThreadsStopOnceAlone`, `ResultIsSent`,
`StopAnswers`, `ServerGetsMutex`, `CallReturns`, `FrameIsDrawn`, `ActivityServed`
and `SocketsClosed`.  The prover does not handle fairness.  Every invariant, action
property and refinement that a passing run checks is also proved.

## Not modelled

`PROJECT.json` lists every part with its reason.  In the parts that are modelled:

* `resize()` to another width, text extraction and styles in
  `TerminalBuffer.java`; the placing of wide and combining characters in a row;
* titles, bells and clipboard callbacks of a session;
* the session actions, notifications and wake locks of the service;
* the vblank queue of Present, modes, allocation and conversion of buffers in
  `InitOutput.c` and `buffer.c`; a root buffer that Present has flipped is not
  sent again after a reconnection (`lorieActivityConnected()` registers the screen
  pixmap only), which would need a composition of `Connection` and `Renderer`;
* input events, and the clipboard from Android to X, which this revision does not
  reach (`lorieUtf8ToLatin1()` is modelled as a function).

Most of the C in the repository is third-party code, vendored with a few patches:
the X server, its libraries and tools.  It is not the subject of this project.

Known, and left without a property because no comment or test says otherwise:
`mLineWrap` of a row is not cleared when a scroll uses the row again; the
alternate buffer may change the order of its rows when it shrinks;
a plugin's session that ends while no activity is attached gets its result only
when one is; of two clipboard texts that are read together the second is lost,
with whatever is sent after it; `lorieCheckUTF8()` lets stray continuation bytes through.

## Plan

1. `TerminalRow` and `Reflow`: `setChar()` against a row of cells, and `resize()`
   to another width against a list of logical lines, over bounded inputs.
2. The vblank queue of `InitOutput.c`, with `current_msc`, which
   `loriePresentAfterFlip()` may set back.
3. `Connection` and `Renderer` composed: the root buffer after a reconnection.
4. `Emulator`: the parser states of `TerminalEmulator.java`.
