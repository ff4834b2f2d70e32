-------------------------- MODULE LorieMutexProofs --------------------------
(***************************************************************************)
(* Proofs about LorieMutex, for any set of activity processes and any      *)
(* number of connections: the server and a renderer never use the root     *)
(* window together, as long as no process that runs loses its connection.  *)
(***************************************************************************)
EXTENDS LorieMutex, TLAPS

-----------------------------------------------------------------------------
(***************************************************************************)
(* The inductive invariant.                                                *)
(***************************************************************************)

\* One activity runs at a time, and processes do not come back
Processes ==
    /\ \A a, b \in live \cap Activity : a = b
    /\ live \cap dead = {}
    /\ Server \in live \cup dead
    /\ \A a \in Activity \ (live \cup dead) :
           a \notin attached /\ pc[a] = "idle" /\ conn_fd[a] = 0 /\ owner # a

\* The work queue holds the latest sockets, in the order they were made
QueueInOrder ==
    /\ Len(queued) <= used
    /\ \A i \in 1..Len(queued) : queued[i] = used - Len(queued) + i

SocketsUsed ==
    /\ activityEnd \subseteq 1..used
    /\ conn_fd[Server] <= used

\* A process is in lorie_mutex_lock() or after it only with the state mapped,
\* and whoever has the mutex is past pthread_mutex_timedlock()
Inside(p) == pc[p] \in {"locked", "drawing", "unlocking"}
CallersAttached ==
    \A a \in live \cap Activity : pc[a] # "idle" => a \in attached
OwnerInside == owner \in live => Inside(owner)

\* The connection of the activity that runs is the latest, and the server's
Linked ==
    \A a \in live \cap Activity :
        /\ conn_fd[a] # 0 => /\ conn_fd[a] = used
                             /\ used \in activityEnd \cap serverEnd
        /\ a \in attached => conn_fd[a] # 0 /\ queued = <<>>

LatestIsServers ==
    queued = <<>> /\ used \in activityEnd => conn_fd[Server] = used

\* Who is about to initialise the mutex again has really lost the other one
ReinitAlone ==
    /\ Server \in live /\ pc[Server] = "reinit" =>
           ~lorieConnectionAlive(Server)
    /\ \A a \in live \cap Activity : pc[a] = "reinit" => Server \notin live

Holds ==
    \A p \in live : /\ Inside(p) => owner = p
                    /\ pc[p] = "drawing" => lockingPid = p

IInv ==
    /\ TypeOK /\ Processes /\ QueueInOrder /\ SocketsUsed
    /\ CallersAttached /\ OwnerInside
    /\ ~parted => ReinitAlone /\ Holds
    /\ ~parted /\ Server \in live => Linked /\ LatestIsServers

-----------------------------------------------------------------------------
\* The initial states satisfy the invariant.
LEMMA InitIInv == Init => IInv
<1> SUFFICES ASSUME Init PROVE IInv
  OBVIOUS
<1>1. TypeOK
  <2>1. queued \in Seq(Socket)
    BY DEF Init
  <2>2. used \in 0..MaxConnections
    BY BoundAssumption DEF Init
  <2> QED
    BY <2>1, <2>2, Zenon DEF Init, Process, TypeOK
<1>2. Processes /\ QueueInOrder /\ SocketsUsed
  BY ProcessAssumption
     DEF Init, Process, Processes, QueueInOrder, SocketsUsed
<1>3. CallersAttached /\ OwnerInside /\ ReinitAlone /\ Holds
  BY ProcessAssumption
     DEF Init, Process, CallersAttached, OwnerInside, ReinitAlone, Holds,
         Inside
<1>4. Linked /\ LatestIsServers
  BY ProcessAssumption DEF Init, Process, Linked, LatestIsServers
<1> QED
  BY <1>1, <1>2, <1>3, <1>4 DEF IInv

\* Entering lorie_mutex_lock().
LEMMA LockStep ==
  ASSUME NEW p \in Process, IInv, Lock(p)
  PROVE  IInv'
  BY ProcessAssumption, BoundAssumption
     DEF Lock, Goto, IInv, TypeOK, Process, Socket, Processes, QueueInOrder,
         SocketsUsed, CallersAttached, OwnerInside, Inside, ReinitAlone,
         Holds, Linked, LatestIsServers, lorieConnectionAlive, Queued,
         mutexVars, socketVars

\* pthread_mutex_timedlock().
LEMMA TimedLockStep ==
  ASSUME NEW p \in Process, IInv, TimedLock(p)
  PROVE  IInv'
<1> USE ProcessAssumption, BoundAssumption DEF IInv, TimedLock, Goto, Process,
        Socket, socketVars, Queued
<1>1. TypeOK'
  BY DEF TypeOK
<1>2. Processes' /\ QueueInOrder' /\ SocketsUsed'
  BY DEF Processes, QueueInOrder, SocketsUsed, TypeOK
<1>3. CallersAttached' /\ OwnerInside'
  BY DEF CallersAttached, OwnerInside, Inside, Processes, TypeOK
<1>4. ~parted' => ReinitAlone'
  BY DEF ReinitAlone, Processes, TypeOK, lorieConnectionAlive
<1>5. ~parted' => Holds'
  BY DEF Holds, Inside, OwnerInside, Processes, TypeOK
<1>6. ~parted' /\ Server \in live' => Linked' /\ LatestIsServers'
  BY DEF Linked, LatestIsServers, TypeOK
<1> QED
  BY <1>1, <1>2, <1>3, <1>4, <1>5, <1>6

\* After a timeout: who finds its connection dead is alone.
LEMMA CheckTimeoutStep ==
  ASSUME NEW p \in Process, IInv, CheckTimeout(p)
  PROVE  IInv'
  BY ProcessAssumption, BoundAssumption
     DEF CheckTimeout, Goto, IInv, TypeOK, Process, Socket, Processes,
         QueueInOrder, SocketsUsed, CallersAttached, OwnerInside, Inside,
         ReinitAlone, Holds, Linked, LatestIsServers, lorieConnectionAlive,
         Queued, mutexVars, socketVars

\* Initialising the mutex again: no process that runs has it.
LEMMA ReinitializeStep ==
  ASSUME NEW p \in Process, IInv, Reinitialize(p)
  PROVE  IInv'
  BY ProcessAssumption, BoundAssumption
     DEF Reinitialize, Goto, IInv, TypeOK, Process, Socket, Processes,
         QueueInOrder, SocketsUsed, CallersAttached, OwnerInside, Inside,
         ReinitAlone, Holds, Linked, LatestIsServers, lorieConnectionAlive,
         Queued, mutexVars, socketVars

\* The end of lorie_mutex_lock().
LEMMA SetLockingPidStep ==
  ASSUME NEW p \in Process, IInv, SetLockingPid(p)
  PROVE  IInv'
  BY ProcessAssumption, BoundAssumption
     DEF SetLockingPid, Goto, IInv, TypeOK, Process, Socket, Processes,
         QueueInOrder, SocketsUsed, CallersAttached, OwnerInside, Inside,
         ReinitAlone, Holds, Linked, LatestIsServers, lorieConnectionAlive,
         Queued, mutexVars, socketVars

\* lorie_mutex_unlock() resets lockingPid ...
LEMMA UnlockStep ==
  ASSUME NEW p \in Process, IInv, Unlock(p)
  PROVE  IInv'
  BY ProcessAssumption, BoundAssumption
     DEF Unlock, Goto, IInv, TypeOK, Process, Socket, Processes,
         QueueInOrder, SocketsUsed, CallersAttached, OwnerInside, Inside,
         ReinitAlone, Holds, Linked, LatestIsServers, lorieConnectionAlive,
         Queued, mutexVars, socketVars

\* ... and unlocks the mutex.
LEMMA MutexUnlockStep ==
  ASSUME NEW p \in Process, IInv, MutexUnlock(p)
  PROVE  IInv'
  BY ProcessAssumption, BoundAssumption
     DEF MutexUnlock, Goto, IInv, TypeOK, Process, Socket, Processes,
         QueueInOrder, SocketsUsed, CallersAttached, OwnerInside, Inside,
         ReinitAlone, Holds, Linked, LatestIsServers, lorieConnectionAlive,
         Queued, mutexVars, socketVars

\* lorieRedraw() allows the next frame.
LEMMA RedrawStep ==
  ASSUME IInv, Redraw
  PROVE  IInv'
  BY ProcessAssumption, BoundAssumption
     DEF Redraw, IInv, TypeOK, Process, Socket, Processes,
         QueueInOrder, SocketsUsed, CallersAttached, OwnerInside, Inside,
         ReinitAlone, Holds, Linked, LatestIsServers, lorieConnectionAlive,
         Queued, mutexVars, socketVars

\* A new activity process.
LEMMA StartActivityStep ==
  ASSUME NEW a \in Activity, IInv, StartActivity(a)
  PROVE  IInv'
  BY ProcessAssumption, BoundAssumption
     DEF StartActivity, Goto, IInv, TypeOK, Process, Socket, Processes,
         QueueInOrder, SocketsUsed, CallersAttached, OwnerInside, Inside,
         ReinitAlone, Holds, Linked, LatestIsServers, lorieConnectionAlive,
         Queued, mutexVars, socketVars

\* getXConnection() and connect_().
LEMMA ConnectStep ==
  ASSUME NEW a \in Activity, IInv, Connect(a)
  PROVE  IInv'
<1> USE ProcessAssumption, BoundAssumption DEF IInv, Connect, Process,
        Socket, mutexVars, socketVars, Queued
<1>1. TypeOK'
  BY DEF TypeOK
<1>2. Processes'
  BY DEF Processes, TypeOK
<1>3. QueueInOrder'
  BY DEF QueueInOrder, TypeOK
<1>4. SocketsUsed'
  BY DEF SocketsUsed, QueueInOrder, Processes, TypeOK
<1>5. CallersAttached'
  BY DEF CallersAttached, Processes, TypeOK
<1>6. OwnerInside'
  BY DEF OwnerInside, Inside, Processes, TypeOK
<1>7. ~parted' => ReinitAlone'
  BY DEF ReinitAlone, Linked, LatestIsServers, SocketsUsed, CallersAttached,
     QueueInOrder, Processes, TypeOK, lorieConnectionAlive
<1>8. ~parted' => Holds'
  BY DEF Holds, Inside, ReinitAlone, OwnerInside, CallersAttached, Processes,
     TypeOK
<1>9. ~parted' /\ Server \in live' => Linked'
  BY DEF Linked, LatestIsServers, SocketsUsed, QueueInOrder, Processes, TypeOK
<1>10. ~parted' /\ Server \in live' => LatestIsServers'
  <2>1. Len(queued') = Len(queued) + 1 /\ Len(queued) \in Nat
    BY DEF TypeOK
  <2>2. queued' # <<>>
    BY <2>1
  <2> QED
    BY <2>2 DEF LatestIsServers
<1> QED
  BY <1>1, <1>2, <1>3, <1>4, <1>5, <1>6, <1>7, <1>8, <1>9, <1>10

\* The server's main thread takes a socket from its work queue.
LEMMA addFdStep ==
  ASSUME IInv, addFd
  PROVE  IInv'
<1> USE ProcessAssumption, BoundAssumption DEF IInv, addFd, Process, Socket,
        mutexVars, socketVars, Queued
<1>1. TypeOK'
  BY DEF TypeOK
<1>2. Processes'
  BY DEF Processes, TypeOK
<1>3. QueueInOrder'
  BY DEF QueueInOrder, TypeOK
<1>a. /\ Head(queued) = used - Len(queued) + 1
      /\ Len(queued) \in 1..used /\ used \in Nat
      /\ Len(Tail(queued)) = Len(queued) - 1
  BY DEF QueueInOrder, TypeOK
<1>4. SocketsUsed'
  BY <1>a DEF SocketsUsed, TypeOK
<1>5. CallersAttached'
  BY DEF CallersAttached, Processes, TypeOK
<1>6. OwnerInside'
  BY DEF OwnerInside, Inside, Processes, TypeOK
<1>7. ~parted' => ReinitAlone'
  BY DEF ReinitAlone, Linked, LatestIsServers, SocketsUsed, CallersAttached,
     QueueInOrder, Processes, TypeOK, lorieConnectionAlive
<1>8. ~parted' => Holds'
  BY DEF Holds, Inside, ReinitAlone, OwnerInside, CallersAttached, Processes,
     TypeOK
<1>9. ~parted' /\ Server \in live' => Linked'
  BY DEF Linked, LatestIsServers, SocketsUsed, QueueInOrder, Processes, TypeOK
<1>10. ~parted' /\ Server \in live' => LatestIsServers'
  <2>1. conn_fd'[Server] = Head(queued)
    BY DEF TypeOK
  <2>2. queued' = <<>> => Len(Tail(queued)) = 0
    <3>1. Len(<<>>) = 0 /\ queued' = Tail(queued)
      OBVIOUS
    <3> QED
      BY <3>1, Zenon
  <2> QED
    BY <1>a, <2>1, <2>2 DEF LatestIsServers
<1> QED
  BY <1>1, <1>2, <1>3, <1>4, <1>5, <1>6, <1>7, <1>8, <1>9, <1>10

\* The renderer takes the shared state.
LEMMA AttachStep ==
  ASSUME NEW a \in Activity, IInv, Attach(a)
  PROVE  IInv'
  BY ProcessAssumption, BoundAssumption
     DEF Attach, Goto, IInv, TypeOK, Process, Socket, Processes,
         QueueInOrder, SocketsUsed, CallersAttached, OwnerInside, Inside,
         ReinitAlone, Holds, Linked, LatestIsServers, lorieConnectionAlive,
         Queued, mutexVars, socketVars

\* connect_() or xcallback() close the activity's end.
LEMMA DisconnectStep ==
  ASSUME NEW a \in Activity, IInv, Disconnect(a)
  PROVE  IInv'
<1> USE ProcessAssumption, BoundAssumption DEF IInv, Disconnect, Process,
        Socket, mutexVars, socketVars, Queued
<1>1. TypeOK'
  BY Zenon DEF TypeOK
<1>2. Processes'
  BY DEF Processes, TypeOK
<1>3. QueueInOrder'
  BY DEF QueueInOrder, TypeOK
<1>4. SocketsUsed'
  <2>1. conn_fd'[Server] = conn_fd[Server]
    BY DEF TypeOK
  <2> QED
    BY <2>1, Zenon DEF SocketsUsed
<1>5. CallersAttached'
  BY DEF CallersAttached, Processes, TypeOK
<1>6. OwnerInside'
  BY DEF OwnerInside, Inside, Processes, TypeOK
<1>7. ~parted' => ReinitAlone'
  BY DEF ReinitAlone, Linked, LatestIsServers, SocketsUsed, CallersAttached,
     QueueInOrder, Processes, TypeOK, lorieConnectionAlive
<1>8. ~parted' => Holds'
  BY DEF Holds, Inside, ReinitAlone, OwnerInside, CallersAttached, Processes,
     TypeOK
<1>9. ~parted' /\ Server \in live' => Linked'
  BY Zenon DEF Linked
<1>10. ~parted' /\ Server \in live' => LatestIsServers'
  BY Zenon DEF LatestIsServers
<1> QED
  BY <1>1, <1>2, <1>3, <1>4, <1>5, <1>6, <1>7, <1>8, <1>9, <1>10

\* The renderer lets the shared state go.
LEMMA DetachStep ==
  ASSUME NEW a \in Activity, IInv, Detach(a)
  PROVE  IInv'
  BY ProcessAssumption, BoundAssumption
     DEF Detach, Goto, IInv, TypeOK, Process, Socket, Processes,
         QueueInOrder, SocketsUsed, CallersAttached, OwnerInside, Inside,
         ReinitAlone, Holds, Linked, LatestIsServers, lorieConnectionAlive,
         Queued, mutexVars, socketVars

\* The server's input thread handles a hang-up.
LEMMA HangUpStep ==
  ASSUME NEW s \in Socket, IInv, HangUp(s)
  PROVE  IInv'
<1> USE ProcessAssumption, BoundAssumption DEF IInv, HangUp, Process, Socket,
        mutexVars, socketVars, Queued
<1>1. TypeOK'
  BY DEF TypeOK
<1>2. Processes'
  BY DEF Processes, TypeOK
<1>3. QueueInOrder'
  BY DEF QueueInOrder, TypeOK
<1>4. SocketsUsed'
  BY DEF SocketsUsed, QueueInOrder, Processes, TypeOK
<1>5. CallersAttached'
  BY DEF CallersAttached, Processes, TypeOK
<1>6. OwnerInside'
  BY DEF OwnerInside, Inside, Processes, TypeOK
<1>7. ~parted' => ReinitAlone'
  BY DEF ReinitAlone, Linked, LatestIsServers, SocketsUsed, CallersAttached,
     QueueInOrder, Processes, TypeOK, lorieConnectionAlive
<1>8. ~parted' => Holds'
  BY DEF Holds, Inside, ReinitAlone, OwnerInside, CallersAttached, Processes,
     TypeOK
<1>9. ~parted' /\ Server \in live' => Linked'
  BY DEF Linked, LatestIsServers, SocketsUsed, QueueInOrder, Processes, TypeOK
<1>10. ~parted' /\ Server \in live' => LatestIsServers'
  <2> SUFFICES ASSUME ~parted', Server \in live', queued' = <<>>,
                      used' \in activityEnd'
               PROVE  FALSE
    BY DEF LatestIsServers
  <2>1. ~parted /\ conn_fd[Server] \notin activityEnd
    BY Zenon
  <2>2. LatestIsServers
    BY <2>1
  <2> QED
    BY <2>1, <2>2 DEF LatestIsServers
<1> QED
  BY <1>1, <1>2, <1>3, <1>4, <1>5, <1>6, <1>7, <1>8, <1>9, <1>10

\* The activity dies.
LEMMA DieActivityStep ==
  ASSUME NEW a \in Activity, IInv, DieActivity(a)
  PROVE  IInv'
<1> USE ProcessAssumption, BoundAssumption DEF IInv, DieActivity, Process,
        Socket, mutexVars, socketVars, Queued
<1>1. TypeOK'
  BY Zenon DEF TypeOK
<1>2. Processes'
  BY DEF Processes, TypeOK
<1>3. QueueInOrder'
  BY DEF QueueInOrder, TypeOK
<1>4. SocketsUsed'
  BY Zenon DEF SocketsUsed
<1>5. CallersAttached'
  BY DEF CallersAttached, Processes, TypeOK
<1>6. OwnerInside'
  BY DEF OwnerInside, Inside, Processes, TypeOK
<1>7. ~parted' => ReinitAlone'
  BY DEF ReinitAlone, Linked, LatestIsServers, SocketsUsed, CallersAttached,
     QueueInOrder, Processes, TypeOK, lorieConnectionAlive
<1>8. ~parted' => Holds'
  BY DEF Holds, Inside, ReinitAlone, OwnerInside, CallersAttached, Processes,
     TypeOK
<1>9. ~parted' /\ Server \in live' => Linked'
  BY DEF Linked, LatestIsServers, SocketsUsed, QueueInOrder, Processes, TypeOK
<1>10. ~parted' /\ Server \in live' => LatestIsServers'
  BY DEF LatestIsServers, Linked, SocketsUsed, QueueInOrder, Processes, TypeOK
<1> QED
  BY <1>1, <1>2, <1>3, <1>4, <1>5, <1>6, <1>7, <1>8, <1>9, <1>10

\* The server dies.
LEMMA DieServerStep ==
  ASSUME IInv, DieServer
  PROVE  IInv'
  BY ProcessAssumption, BoundAssumption
     DEF DieServer, Goto, IInv, TypeOK, Process, Socket, Processes,
         QueueInOrder, SocketsUsed, CallersAttached, OwnerInside, Inside,
         ReinitAlone, Holds, Linked, LatestIsServers, lorieConnectionAlive,
         Queued, mutexVars, socketVars

-----------------------------------------------------------------------------
\* Every step, and stuttering, preserves the invariant.
LEMMA NextIInv == IInv /\ [Next]_vars => IInv'
<1> SUFFICES ASSUME IInv, [Next]_vars PROVE IInv'
  OBVIOUS
<1>1. ASSUME NEW p \in Process, Lock(p) \/ Step(p) PROVE IInv'
  BY <1>1, LockStep, TimedLockStep, CheckTimeoutStep, ReinitializeStep,
     SetLockingPidStep, UnlockStep, MutexUnlockStep, Zenon DEF Step
<1>2. ASSUME NEW a \in Activity,
             StartActivity(a) \/ Connect(a) \/ Attach(a) \/ Disconnect(a)
                 \/ Detach(a) \/ DieActivity(a)
      PROVE  IInv'
  BY <1>2, StartActivityStep, ConnectStep, AttachStep, DisconnectStep,
     DetachStep, DieActivityStep, Zenon
<1>3. CASE UNCHANGED vars
  BY <1>3 DEF vars, mutexVars, socketVars, IInv, TypeOK, Processes,
     QueueInOrder, SocketsUsed, CallersAttached, OwnerInside, Inside,
     ReinitAlone, Holds, Linked, LatestIsServers, lorieConnectionAlive
<1> QED
  BY <1>1, <1>2, <1>3, HangUpStep, addFdStep, RedrawStep, DieServerStep,
     Zenon DEF Next

\* The invariant holds in every behaviour of lorie_mutex_lock() and _unlock().
THEOREM Invariance == Spec => []IInv
  BY InitIInv, NextIInv, PTL DEF Spec

(***************************************************************************)
(* A process that draws, and has not lost its connection while it runs, is *)
(* the one lockingPid names and has the mutex.                             *)
(***************************************************************************)
THEOREM LockingPidCorrect == Spec => []LockingPidNamesOwner
<1>1. IInv => LockingPidNamesOwner
  BY DEF IInv, Holds, Inside, LockingPidNamesOwner
<1> QED
  BY Invariance, <1>1, PTL

(***************************************************************************)
(* The server and the renderers draw one at a time, whoever died with the  *)
(* mutex locked before and however often it was initialised again.         *)
(***************************************************************************)
THEOREM MutualExclusion == Spec => []Exclusive
<1>1. IInv => Exclusive
  BY DEF IInv, Holds, Exclusive
<1> QED
  BY Invariance, <1>1, PTL

=============================================================================
