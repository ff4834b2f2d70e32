----------------------------- MODULE LorieMutex -----------------------------
(***************************************************************************)
(* lorie.h: lorie_mutex_lock() and lorie_mutex_unlock() on a mutex in the  *)
(* memory the X server shares with the activity.  The server's main thread *)
(* takes it to draw on the root window, the renderer thread of an activity *)
(* to copy the root window to the screen.  Bionic has no robust mutexes:   *)
(* who cannot get the mutex, and finds its connection dead, takes the      *)
(* other process for dead and initialises the mutex again.                 *)
(*                                                                         *)
(* An activity process may die at any time and another one take its place, *)
(* or give its connection up and ask for a new one; the server may die.    *)
(***************************************************************************)
EXTENDS Naturals, Sequences

CONSTANTS
    Server,         \* the X server process
    Activity,       \* the activity processes, one after the other
    NoProcess,      \* no process: lockingPid = 0, an unlocked mutex
    MaxConnections  \* bound on the socket pairs that are made

ASSUME ProcessAssumption ==
    Server \notin Activity /\ NoProcess \notin Activity \cup {Server}

ASSUME BoundAssumption == MaxConnections \in Nat

Process == Activity \cup {Server}
Socket == 1..MaxConnections

VARIABLES
    owner,      \* the thread that has locked the pthread mutex
    lockingPid,
    waitForNextFrame,   \* of the shared state
    pc,         \* where a process is in lorie_mutex_lock() and ..._unlock()
    live,       \* the processes that run
    dead,       \* the processes that have died
    conn_fd,    \* the socket of a process, 0 for -1
    queued,     \* the server's work queue: the sockets to call addFd() for
    serverEnd,  \* the sockets whose end at the server is open
    activityEnd,\* the sockets whose end at an activity is open
    used,       \* the number of socket pairs made so far
    attached,   \* the activities whose renderer has the shared state mapped
    parted      \* whether a process that runs has lost its connection

mutexVars == <<owner, lockingPid, waitForNextFrame>>
socketVars == <<conn_fd, queued, serverEnd, activityEnd, used>>
vars == <<mutexVars, pc, live, dead, socketVars, attached, parted>>

TypeOK ==
    /\ owner \in Process \cup {NoProcess}
    /\ lockingPid \in Process \cup {NoProcess}
    /\ waitForNextFrame \in BOOLEAN
    /\ pc \in [Process -> {"idle", "locking", "timedOut", "reinit",
                           "locked", "drawing", "unlocking"}]
    /\ live \in SUBSET Process
    /\ dead \in SUBSET Process
    /\ conn_fd \in [Process -> Socket \cup {0}]
    /\ queued \in Seq(Socket)
    /\ serverEnd \in SUBSET Socket
    /\ activityEnd \in SUBSET Socket
    /\ used \in 0..MaxConnections
    /\ attached \in SUBSET Activity
    /\ parted \in BOOLEAN

Init ==
    /\ owner = NoProcess
    /\ lockingPid = NoProcess
    /\ waitForNextFrame = FALSE
    /\ pc = [p \in Process |-> "idle"]
    /\ live = {Server}
    /\ dead = {}
    /\ conn_fd = [p \in Process |-> 0]
    /\ queued = <<>>
    /\ serverEnd = {}
    /\ activityEnd = {}
    /\ used = 0
    /\ attached = {}
    /\ parted = FALSE

Queued(s) == \E i \in DOMAIN queued : queued[i] = s
Goto(p, label) == pc' = [pc EXCEPT ![p] = label]

(***************************************************************************)
(* lorieConnectionAlive(): the socket of the process is open, and so is    *)
(* its other end.                                                          *)
(***************************************************************************)
lorieConnectionAlive(p) ==
    /\ conn_fd[p] # 0
    /\ conn_fd[p] \in IF p = Server THEN activityEnd ELSE serverEnd

-----------------------------------------------------------------------------
(***************************************************************************)
(* lorie_mutex_lock(), called by loriePrepareAccess() on the root window,  *)
(* and by rendererRedrawLocked(), which draws one frame and then has to    *)
(* wait for the server's lorieRedraw().                                    *)
(***************************************************************************)
Lock(p) ==
    /\ p \in live
    /\ pc[p] = "idle"
    /\ p # Server => p \in attached /\ ~waitForNextFrame
    /\ Goto(p, "locking")
    /\ UNCHANGED <<mutexVars, live, dead, socketVars, attached, parted>>

(***************************************************************************)
(* pthread_mutex_timedlock().  The deadline is 33 ms ahead on the          *)
(* monotonic clock but is compared with the real-time clock, so it has     *)
(* always passed: a locked mutex may time out at once.                     *)
(***************************************************************************)
TimedLock(p) ==
    /\ p \in live
    /\ pc[p] = "locking"
    /\ IF owner = NoProcess
       THEN owner' = p /\ Goto(p, "locked")
       ELSE owner' = owner /\ Goto(p, "timedOut")
    /\ UNCHANGED <<lockingPid, waitForNextFrame, live, dead, socketVars, attached,
                   parted>>

\* Mutant: whether the connection is alive is not asked
MutantCheckTimeout(p) ==
    /\ p \in live
    /\ pc[p] = "timedOut"
    /\ Goto(p, IF lockingPid = p THEN "locking" ELSE "reinit")
    /\ UNCHANGED <<mutexVars, live, dead, socketVars, attached, parted>>

\* Mutant: the mutex is never initialised again
MutantNoReinit(p) ==
    /\ p \in live
    /\ pc[p] = "timedOut"
    /\ Goto(p, "locking")
    /\ UNCHANGED <<mutexVars, live, dead, socketVars, attached, parted>>

\* *lockingPid == getpid() || lorieConnectionAlive(): try again
CheckTimeout(p) ==
    /\ p \in live
    /\ pc[p] = "timedOut"
    /\ Goto(p, IF lockingPid = p \/ lorieConnectionAlive(p)
               THEN "locking" ELSE "reinit")
    /\ UNCHANGED <<mutexVars, live, dead, socketVars, attached, parted>>

\* memcpy() of an initializer and pthread_mutex_init(); lockingPid stays
Reinitialize(p) ==
    /\ p \in live
    /\ pc[p] = "reinit"
    /\ owner' = NoProcess
    /\ Goto(p, "locking")
    /\ UNCHANGED <<lockingPid, waitForNextFrame, live, dead, socketVars, attached,
                   parted>>

\* Mutant: who has the mutex is not recorded
MutantSetLockingPid(p) ==
    /\ p \in live
    /\ pc[p] = "locked"
    /\ Goto(p, "drawing")
    /\ UNCHANGED <<mutexVars, live, dead, socketVars, attached, parted>>

SetLockingPid(p) ==
    /\ p \in live
    /\ pc[p] = "locked"
    /\ lockingPid' = p
    /\ Goto(p, "drawing")
    /\ UNCHANGED <<owner, waitForNextFrame, live, dead, socketVars, attached, parted>>

(***************************************************************************)
(* lorie_mutex_unlock(): lockingPid = 0, then pthread_mutex_unlock(),      *)
(* which fails when another thread has locked the mutex since it was       *)
(* initialised again.  A renderer asks for the next frame before.          *)
(***************************************************************************)
Unlock(p) ==
    /\ p \in live
    /\ pc[p] = "drawing"
    /\ lockingPid' = NoProcess
    /\ waitForNextFrame' = (waitForNextFrame \/ p # Server)
    /\ Goto(p, "unlocking")
    /\ UNCHANGED <<owner, live, dead, socketVars, attached, parted>>

MutexUnlock(p) ==
    /\ p \in live
    /\ pc[p] = "unlocking"
    /\ owner' = IF owner = p THEN NoProcess ELSE owner
    /\ Goto(p, "idle")
    /\ UNCHANGED <<lockingPid, waitForNextFrame, live, dead, socketVars, attached,
                   parted>>

\* lorieRedraw(), on the server's main thread, which is not drawing then
Redraw ==
    /\ Server \in live
    /\ pc[Server] = "idle"
    /\ waitForNextFrame' = FALSE
    /\ UNCHANGED <<owner, lockingPid, pc, live, dead, socketVars, attached, parted>>

-----------------------------------------------------------------------------
(***************************************************************************)
(* Connections.  An activity process is started when there is none; it     *)
(* gets a socket with getXConnection(), which queues addFd() for the       *)
(* server's main thread.  That sends the shared state, which the renderer  *)
(* takes over.                                                             *)
(***************************************************************************)
StartActivity(a) ==
    /\ live \cap Activity = {} /\ a \notin dead
    /\ live' = live \cup {a}
    /\ UNCHANGED <<mutexVars, pc, dead, socketVars, attached, parted>>

Connect(a) ==
    /\ a \in live /\ Server \in live
    /\ conn_fd[a] = 0 /\ a \notin attached
    /\ used < MaxConnections
    /\ used' = used + 1
    /\ conn_fd' = [conn_fd EXCEPT ![a] = used']
    /\ queued' = Append(queued, used')
    /\ serverEnd' = serverEnd \cup {used'}
    /\ activityEnd' = activityEnd \cup {used'}
    /\ UNCHANGED <<mutexVars, pc, live, dead, attached, parted>>

\* a work procedure of the main thread, which is not drawing then
addFd ==
    /\ Server \in live
    /\ pc[Server] = "idle"
    /\ queued # <<>>
    /\ queued' = Tail(queued)
    /\ conn_fd' = [conn_fd EXCEPT ![Server] = Head(queued)]
    /\ UNCHANGED <<mutexVars, pc, live, dead, serverEnd, activityEnd, used,
                   attached, parted>>

Attach(a) ==
    /\ a \in live
    /\ conn_fd[a] # 0 /\ ~Queued(conn_fd[a])
    /\ a \notin attached
    /\ attached' = attached \cup {a}
    /\ UNCHANGED <<mutexVars, pc, live, dead, socketVars, parted>>

\* xcallback() or connect_(): the GUI thread closes its end, then waits in
\* rendererSetSharedState(NULL) until the renderer has let the state go
Disconnect(a) ==
    /\ a \in live
    /\ conn_fd[a] # 0
    /\ activityEnd' = activityEnd \ {conn_fd[a]}
    /\ conn_fd' = [conn_fd EXCEPT ![a] = 0]
    /\ parted' = (parted \/ Server \in live)
    /\ UNCHANGED <<mutexVars, pc, live, dead, queued, serverEnd, used, attached>>

Detach(a) ==
    /\ a \in live /\ a \in attached
    /\ conn_fd[a] = 0
    /\ pc[a] = "idle"
    /\ attached' = attached \ {a}
    /\ UNCHANGED <<mutexVars, pc, live, dead, socketVars, parted>>

\* handleLorieEvents() with X_NOTIFY_ERROR, on the server's input thread:
\* conn_fd becomes -1, even if it is another socket by now
HangUp(s) ==
    /\ Server \in live
    /\ s \in serverEnd \ activityEnd /\ ~Queued(s)
    /\ serverEnd' = serverEnd \ {s}
    /\ conn_fd' = [conn_fd EXCEPT ![Server] = 0]
    /\ parted' = (parted \/ conn_fd[Server] \in activityEnd)
    /\ UNCHANGED <<mutexVars, pc, live, dead, queued, activityEnd, used, attached>>

DieActivity(a) ==
    /\ a \in live
    /\ live' = live \ {a} /\ dead' = dead \cup {a}
    /\ activityEnd' = activityEnd \ {conn_fd[a]}
    /\ UNCHANGED <<mutexVars, pc, conn_fd, queued, serverEnd, used, attached,
                   parted>>

DieServer ==
    /\ Server \in live
    /\ live' = live \ {Server} /\ dead' = dead \cup {Server}
    /\ serverEnd' = {}
    /\ UNCHANGED <<mutexVars, pc, conn_fd, queued, activityEnd, used,
                   attached, parted>>

-----------------------------------------------------------------------------
\* The steps of a process that has called lorie_mutex_lock()
Step(p) ==
    \/ TimedLock(p)
    \/ CheckTimeout(p)
    \/ Reinitialize(p)
    \/ SetLockingPid(p)
    \/ Unlock(p)
    \/ MutexUnlock(p)

Next ==
    \/ \E p \in Process : Lock(p) \/ Step(p)
    \/ \E a \in Activity : StartActivity(a) \/ Connect(a) \/ Attach(a)
                              \/ Disconnect(a) \/ Detach(a) \/ DieActivity(a)
    \/ \E s \in Socket : HangUp(s)
    \/ addFd \/ Redraw \/ DieServer

Spec == Init /\ [][Next]_vars

(***************************************************************************)
(* A process that runs goes on: it tries to lock the mutex again and       *)
(* again, it ends its drawing, and its threads handle what they are told.  *)
(***************************************************************************)
Fairness ==
    /\ \A p \in Process : WF_vars(Step(p))
    /\ \A s \in Socket : WF_vars(HangUp(s))

LiveSpec == Spec /\ Fairness

-----------------------------------------------------------------------------
(***************************************************************************)
(* The server does not draw on the root window while a renderer copies it  *)
(* (lorie.h: "we should block X server while we are drawing"), whoever     *)
(* dies with the mutex locked and is succeeded by another process.  What   *)
(* can undo this is a process that loses its connection and runs on: it is *)
(* taken for dead.                                                         *)
(***************************************************************************)
Exclusive ==
    ~parted => \A p, q \in live :
        pc[p] = "drawing" /\ pc[q] = "drawing" => p = q

(***************************************************************************)
(* lorie_mutex_unlock() of one process leaves the mutex of the other       *)
(* alone, and a process that draws is the one lockingPid names: the test   *)
(* of lorie_mutex_lock() that keeps a process from initialising a mutex it *)
(* has itself locked relies on it.                                         *)
(***************************************************************************)
LockingPidNamesOwner ==
    ~parted => \A p \in live :
        pc[p] = "drawing" => lockingPid = p /\ owner = p

(***************************************************************************)
(* lorie.h 48-51: when a process dies with the mutex locked, the other one *)
(* gets it nevertheless.  The exception: a new activity has connected      *)
(* before the server wanted the mutex, so that the dead process cannot be  *)
(* told from the living one any more.                                      *)
(***************************************************************************)
Adopted ==
    owner \in dead /\ conn_fd[Server] \in activityEnd

ServerGetsMutex ==
    (pc[Server] = "locking") ~>
        (pc[Server] = "drawing" \/ Server \notin live \/ Adopted)

(***************************************************************************)
(* The same without the exception, as the comment says: "so in the case if *)
(* renderer or X server process unexpectedly die with locked mutex we will *)
(* simply reinitialize it".                                                *)
(***************************************************************************)
MutexRecovered ==
    (pc[Server] = "locking") ~> (pc[Server] = "drawing" \/ Server \notin live)

=============================================================================
