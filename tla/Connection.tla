----------------------------- MODULE Connection -----------------------------
(***************************************************************************)
(* The socket between the X server (cmdentrypoint.c) and the activity      *)
(* (activity.c), and the buffers both sides know through it.  In the       *)
(* server the main thread accepts sockets and sends, the input thread      *)
(* receives and handles a hang-up; they share conn_fd and                  *)
(* registeredBuffers without a lock.  The activity closes its socket when  *)
(* it is told that the server is gone, or dies, and asks for another one;  *)
(* the server may die as well.                                             *)
(***************************************************************************)
EXTENDS Naturals, Sequences

CONSTANTS
    Buffer,         \* the ids of buffers, never used twice by a server
    MaxConnections, \* bound on the socket pairs that are made
    MaxWork,        \* bound on the work of the server's main thread
    NoBuffer

ASSUME BoundsAssumption == MaxConnections \in Nat /\ MaxWork \in Nat

Socket == 1..MaxConnections

VARIABLES
    \* the server
    conn_fd,            \* 0 for -1
    registeredBuffers,
    work,               \* what the main thread has yet to do of a function
    queue,              \* the sockets to call addFd() for
    devices,            \* the sockets the input thread watches
    hangup,             \* where the input thread is in a hang-up
    screen,             \* the buffer of the screen pixmap
    fresh,              \* the buffers that have not been allocated
    \* the activity
    activity_fd,        \* its conn_fd
    state,              \* whether the shared state has been received
    buffers,            \* the buffers given to the renderer
    torn,               \* whether the stream is read out of step
    \* the socket pairs
    serverEnd, activityEnd,
    stream,             \* what is on its way to the activity
    used,               \* the number of pairs made
    works,              \* a counter for MaxWork
    raced               \* whether main and input thread have met in a hang-up

serverVars == <<conn_fd, registeredBuffers, work, queue, devices, hangup,
                screen, fresh, works, raced>>
activityVars == <<activity_fd, state, buffers, torn>>
socketVars == <<serverEnd, activityEnd, stream, used>>
vars == <<serverVars, activityVars, socketVars>>

Message == [type : {"state", "add", "remove", "clipboard", "focus"},
            id : Buffer \cup {NoBuffer}]
Plain(type) == [type |-> type, id |-> NoBuffer]

\* The steps of the main thread: watch a socket, set conn_fd, write a
\* message; test whether to register or unregister a buffer, change the list
Op == {"watch", "fd", "send", "register", "unregister", "list", "unlist"}
Do(op, arg) == [op |-> op, arg |-> arg]

TypeOK ==
    /\ conn_fd \in Socket \cup {0}
    /\ registeredBuffers \in SUBSET Buffer
    /\ \A i \in 1..Len(work) : work[i].op \in Op
    /\ queue \in Seq(Socket)
    /\ devices \in SUBSET Socket
    /\ hangup \in {"none", "closed", "cleared"}
    /\ screen \in Buffer
    /\ fresh \in SUBSET Buffer
    /\ activity_fd \in Socket \cup {0}
    /\ state \in BOOLEAN
    /\ buffers \in SUBSET Buffer
    /\ torn \in BOOLEAN
    /\ serverEnd \in SUBSET Socket /\ activityEnd \in SUBSET Socket
    /\ stream \in [Socket -> Seq(Message)]
    /\ used \in 0..MaxConnections
    /\ works \in 0..MaxWork
    /\ raced \in BOOLEAN

Init ==
    /\ conn_fd = 0 /\ registeredBuffers = {} /\ work = <<>> /\ queue = <<>>
    /\ devices = {} /\ hangup = "none"
    /\ screen \in Buffer /\ fresh = Buffer \ {screen}
    /\ activity_fd = 0 /\ state = FALSE /\ buffers = {} /\ torn = FALSE
    /\ serverEnd = {} /\ activityEnd = {}
    /\ stream = [s \in Socket |-> <<>>]
    /\ used = 0 /\ works = 0 /\ raced = FALSE

-----------------------------------------------------------------------------
(***************************************************************************)
(* The main thread of the server takes up some work.  addFd() includes     *)
(* lorieActivityConnected(), which sends the state and registers the       *)
(* screen's buffer.                                                        *)
(***************************************************************************)
addFd ==
    /\ work = <<>> /\ queue # <<>>
    /\ LET s == Head(queue)
       IN  work' = <<Do("watch", s), Do("fd", s),
                     Do("send", Plain("state")), Do("register", screen)>>
    /\ queue' = Tail(queue)
    /\ raced' = (raced \/ hangup # "none")
    /\ UNCHANGED <<conn_fd, registeredBuffers, devices, hangup, screen, fresh,
                   works, activityVars, socketVars>>

Begin(ops) ==
    /\ work = <<>> /\ works < MaxWork
    /\ works' = works + 1
    /\ work' = ops
    /\ raced' = (raced \/ hangup # "none")
    /\ UNCHANGED <<conn_fd, registeredBuffers, queue, devices, hangup,
                   activityVars, socketVars>>

\* a new screen pixmap; the old one is destroyed, and unregistered, first
lorieRRScreenSetSize(b) ==
    /\ b \in fresh
    /\ fresh' = fresh \ {b}
    /\ screen' = b
    /\ Begin(<<Do("unregister", screen), Do("register", b)>>)

\* loriePresentFlip() registers the pixmap of a client ...
loriePresentFlip(b) ==
    /\ b \in fresh
    /\ fresh' = fresh \ {b}
    /\ screen' = screen
    /\ Begin(<<Do("register", b)>>)

\* ... which the client destroys some day
lorieExaDestroyPixmap(b) ==
    /\ b \in registeredBuffers \ {screen}
    /\ UNCHANGED <<fresh, screen>>
    /\ Begin(<<Do("unregister", b)>>)

\* lorieSendClipboardData(), DDXNotifyFocusChanged()
Notify(type) ==
    /\ UNCHANGED <<fresh, screen>>
    /\ Begin(<<Do("send", Plain(type))>>)

-----------------------------------------------------------------------------
(***************************************************************************)
(* The steps of that work.  conn_fd is read anew at every step.            *)
(***************************************************************************)
First(op) == work # <<>> /\ Head(work).op = op
arg == Head(work).arg

\* Mutant: the socket is not registered with the input thread
MutantWatch ==
    /\ First("watch") /\ hangup = "none"
    /\ work' = Tail(work)
    /\ UNCHANGED <<conn_fd, registeredBuffers, queue, devices, hangup, screen,
                   fresh, works, raced, activityVars, socketVars>>

\* InputThreadRegisterDev() takes input_lock(), which the input thread holds
\* for the whole of handleLorieEvents()
Watch ==
    /\ First("watch") /\ hangup = "none"
    /\ devices' = devices \cup {arg}
    /\ work' = Tail(work)
    /\ UNCHANGED <<conn_fd, registeredBuffers, queue, hangup, screen, fresh,
                   works, raced, activityVars, socketVars>>

SetFd ==
    /\ First("fd")
    /\ conn_fd' = arg
    /\ work' = Tail(work)
    /\ raced' = (raced \/ conn_fd # 0)
    /\ UNCHANGED <<registeredBuffers, queue, devices, hangup, screen, fresh,
                   works, activityVars, socketVars>>

\* write() to a socket that is closed at either end is without effect
Send ==
    /\ First("send")
    /\ stream' = IF conn_fd \in serverEnd \cap activityEnd
                 THEN [stream EXCEPT ![conn_fd] = Append(@, arg)]
                 ELSE stream
    /\ work' = Tail(work)
    /\ UNCHANGED <<conn_fd, registeredBuffers, queue, devices, hangup, screen,
                   fresh, works, raced, activityVars, serverEnd, activityEnd,
                   used>>

\* conn_fd is tested once more before the message: a hang-up between the two
\* tests is as good as one before the first
lorieRegisterBuffer ==
    /\ First("register")
    /\ work' = IF conn_fd = 0 \/ arg \in registeredBuffers THEN Tail(work)
               ELSE <<Do("send", [type |-> "add", id |-> arg]),
                      Do("list", arg)>> \o Tail(work)
    /\ UNCHANGED <<conn_fd, registeredBuffers, queue, devices, hangup, screen,
                   fresh, works, raced, activityVars, socketVars>>

\* Mutant: the activity is not told that a buffer goes
MutantUnregisterBuffer ==
    /\ First("unregister")
    /\ work' = IF conn_fd = 0 \/ arg \notin registeredBuffers THEN Tail(work)
               ELSE <<Do("unlist", arg)>> \o Tail(work)
    /\ UNCHANGED <<conn_fd, registeredBuffers, queue, devices, hangup, screen,
                   fresh, works, raced, activityVars, socketVars>>

lorieUnregisterBuffer ==
    /\ First("unregister")
    /\ work' = IF conn_fd = 0 \/ arg \notin registeredBuffers THEN Tail(work)
               ELSE <<Do("send", [type |-> "remove", id |-> arg]),
                      Do("unlist", arg)>> \o Tail(work)
    /\ UNCHANGED <<conn_fd, registeredBuffers, queue, devices, hangup, screen,
                   fresh, works, raced, activityVars, socketVars>>

ChangeList ==
    /\ First("list") \/ First("unlist")
    /\ registeredBuffers' = IF First("list") THEN registeredBuffers \cup {arg}
                            ELSE registeredBuffers \ {arg}
    /\ work' = Tail(work)
    /\ UNCHANGED <<conn_fd, queue, devices, hangup, screen, fresh, works,
                   raced, activityVars, socketVars>>

-----------------------------------------------------------------------------
(***************************************************************************)
(* handleLorieEvents() with X_NOTIFY_ERROR, on the input thread: close the *)
(* socket, then reset conn_fd, then empty the list.                        *)
(***************************************************************************)
HangUpClose(s) ==
    /\ hangup = "none"
    /\ s \in devices \ activityEnd
    /\ devices' = devices \ {s}
    /\ serverEnd' = serverEnd \ {s}
    /\ hangup' = "closed"
    /\ work' = work
    /\ raced' = (raced \/ work # <<>> \/ conn_fd \notin {0, s})
    /\ UNCHANGED <<conn_fd, registeredBuffers, queue, screen, fresh, works,
                   activityVars, activityEnd, stream, used>>

HangUpFd ==
    /\ hangup = "closed"
    /\ conn_fd' = 0
    /\ hangup' = "cleared"
    /\ UNCHANGED <<registeredBuffers, work, queue, devices, screen, fresh,
                   works, raced, activityVars, socketVars>>

\* Mutant: a hang-up leaves the list as it is
MutantHangUpList ==
    /\ hangup = "cleared"
    /\ hangup' = "none"
    /\ UNCHANGED <<conn_fd, registeredBuffers, work, queue, devices, screen,
                   fresh, works, raced, activityVars, socketVars>>

HangUpList ==
    /\ hangup = "cleared"
    /\ registeredBuffers' = {}
    /\ hangup' = "none"
    /\ UNCHANGED <<conn_fd, work, queue, devices, screen, fresh, works, raced,
                   activityVars, socketVars>>

\* the server dies, and another one is started
Restart ==
    /\ used > 0
    /\ conn_fd' = 0 /\ registeredBuffers' = {} /\ work' = <<>>
    /\ queue' = <<>> /\ devices' = {} /\ hangup' = "none"
    /\ screen' \in Buffer /\ fresh' = Buffer \ {screen'}
    /\ serverEnd' = {}
    /\ works < MaxWork /\ works' = works + 1
    /\ raced' = FALSE
    /\ UNCHANGED <<activityVars, activityEnd, stream, used>>

-----------------------------------------------------------------------------
(***************************************************************************)
(* The activity.  tryConnect(): getXConnection() makes a pair of sockets   *)
(* and queues addFd(), connect_() takes the other end.                     *)
(***************************************************************************)
tryConnect ==
    /\ activity_fd = 0
    /\ used < MaxConnections
    /\ used' = used + 1
    /\ activity_fd' = used'
    /\ queue' = Append(queue, used')
    /\ serverEnd' = serverEnd \cup {used'}
    /\ activityEnd' = activityEnd \cup {used'}
    /\ UNCHANGED <<conn_fd, registeredBuffers, work, devices, hangup, screen,
                   fresh, works, raced, state, buffers, torn, stream>>

(***************************************************************************)
(* connect_(-1), or xcallback() when the server's end is closed, or the    *)
(* end of the process: what has not been read is lost, and the renderer    *)
(* lets the state and the buffers go.                                      *)
(***************************************************************************)
Disconnect ==
    /\ activity_fd # 0
    /\ activityEnd' = activityEnd \ {activity_fd}
    /\ stream' = [stream EXCEPT ![activity_fd] = <<>>]
    /\ activity_fd' = 0
    /\ state' = FALSE /\ buffers' = {} /\ torn' = FALSE
    /\ UNCHANGED <<serverVars, serverEnd, used>>

\* Mutant: every event but a removal is taken for a buffer
MutantHandle(known, m) ==
    IF m.type = "remove" THEN known \ {m.id} ELSE known \cup {m.id}

\* What an event does to the renderer's buffers
Handle(known, m) ==
    CASE m.type = "add" -> known \cup {m.id}
      [] m.type = "remove" -> known \ {m.id}
      [] OTHER -> known

(***************************************************************************)
(* xcallback(): one event.  A clipboard text is read with one byte more    *)
(* than it has, which takes a byte of the event after it, if that has been *)
(* written: nothing is understood from then on.                            *)
(***************************************************************************)
xcallback ==
    /\ activity_fd # 0
    /\ stream[activity_fd] # <<>>
    /\ LET m == Head(stream[activity_fd])
           rest == Tail(stream[activity_fd])
       IN  /\ stream' = [stream EXCEPT ![activity_fd] = rest]
           /\ torn' = (torn \/ (m.type = "clipboard" /\ rest # <<>>))
           /\ state' = (state \/ (~torn /\ m.type = "state"))
           /\ buffers' = IF torn THEN buffers ELSE Handle(buffers, m)
    /\ UNCHANGED <<serverVars, activity_fd, serverEnd, activityEnd, used>>

-----------------------------------------------------------------------------
MainStep ==
    \/ Watch \/ SetFd \/ Send \/ lorieRegisterBuffer \/ lorieUnregisterBuffer
    \/ ChangeList

InputStep ==
    \/ \E s \in Socket : HangUpClose(s)
    \/ HangUpFd \/ HangUpList

MainWork ==
    \/ \E b \in Buffer : \/ lorieRRScreenSetSize(b)
                         \/ loriePresentFlip(b)
                         \/ lorieExaDestroyPixmap(b)
    \/ \E type \in {"clipboard", "focus"} : Notify(type)

Next ==
    \/ addFd \/ MainWork \/ MainStep \/ InputStep \/ Restart
    \/ tryConnect \/ Disconnect \/ xcallback

Spec == Init /\ [][Next]_vars

(***************************************************************************)
(* The threads run; tryConnect() is retried every 250 ms; a socket closed  *)
(* by the server is noticed.                                               *)
(***************************************************************************)
Fairness ==
    /\ WF_vars(addFd) /\ WF_vars(MainStep) /\ WF_vars(InputStep)
    /\ WF_vars(tryConnect) /\ WF_vars(xcallback)
    /\ WF_vars(Disconnect /\ activity_fd \notin serverEnd)

LiveSpec == Spec /\ Fairness

-----------------------------------------------------------------------------
Connected == conn_fd # 0 /\ conn_fd = activity_fd

\* message m says that buffer b comes, or that it goes
Adds(m, b) == m = [type |-> "add", id |-> b]
Removes(m, b) == m = [type |-> "remove", id |-> b]

\* the buffers an activity that knows some will know when it has handled the
\* messages q: those it has or will be given, and no later message takes away
After(known, q) ==
    {b \in Buffer :
        \E i \in 0..Len(q) :
            /\ IF i = 0 THEN b \in known ELSE Adds(q[i], b)
            /\ \A j \in (i + 1)..Len(q) : ~Removes(q[j], b)}

Received == After(buffers, stream[activity_fd])

(***************************************************************************)
(* The list of registered buffers agrees with what the activity has, or    *)
(* has been sent: no buffer is sent twice, removed without having been     *)
(* sent, or forgotten.  The screen's buffer is among them, whatever        *)
(* resizes, hang-ups and restarts came before (lorieActivityConnected(),   *)
(* lorieRRScreenSetSize()).  It rests on the two threads of the server not *)
(* meeting in a hang-up, and on a stream in step.                          *)
(***************************************************************************)
BuffersAgree ==
    Connected /\ work = <<>> /\ ~raced /\ ~torn
        => Received = registeredBuffers /\ screen \in registeredBuffers

(***************************************************************************)
(* An activity that is connected gets the state and the screen's buffer,   *)
(* unless the connection breaks again, the threads have met in a hang-up,  *)
(* or the stream is out of step.                                           *)
(***************************************************************************)
ActivityServed ==
    \A s \in Socket :
        (activity_fd = s) ~>
            (\/ state /\ screen \in buffers
             \/ activity_fd # s \/ raced \/ torn)

(***************************************************************************)
(* Every socket the activity has let go is closed by the server too.       *)
(***************************************************************************)
SocketsClosed ==
    \A s \in Socket :
        (s \in serverEnd /\ s \notin activityEnd) ~> (s \notin serverEnd)

(***************************************************************************)
(* MainActivity.java 1070: "We should recover connection in the case if    *)
(* file descriptor for some reason was broken...".  Whenever the server    *)
(* has lost the connection of an activity, it gets another one.            *)
(***************************************************************************)
ConnectionRecovered ==
    \A s \in Socket :
        (activity_fd = s) ~> (conn_fd = s \/ activity_fd # s)

=============================================================================
