------------------------- MODULE XodosServiceProofs -------------------------
(* Proofs about XodosService, for any set of commands of any kinds: every      *)
(* step preserves the inductive invariant, and what follows from it.           *)
EXTENDS XodosService, TLAPS

-----------------------------------------------------------------------------
(* The inductive invariant. *)

\* The main thread is busy with one command.
Busy == main \in {"adding", "failing", "coding", "processing", "signalling"}

\* A command that has not been received has left no trace, and no two lists have
\* a command in common that a thread runs.
FreshInv ==
  /\ \A c \in Command \ received :
       /\ currentState[c] = PRE_EXECUTION
       /\ processed[c] = FALSE /\ sent[c] = 0 /\ posted[c] = 0
       /\ thread[c] = "none"
       /\ c \notin mTasks /\ c \notin mSessions /\ c \notin mPending
       /\ c \notin todo /\ c # mainCmd
  /\ \A c \in mSessions : thread[c] = "none"
  /\ \A c \in mTasks : c \notin mPending

\* Each command is processed once: what was posted or sent was so at the call of
\* shouldNotProcessResults() that set the flag.
AccountInv ==
  \A c \in Command :
    /\ processed[c] = FALSE => posted[c] = 0
    /\ currentState[c] = SUCCESS => processed[c] = TRUE
    /\ kind[c].mode # "unsupported" =>
         /\ processed[c] = FALSE => sent[c] = 0
         /\ sent[c] + posted[c] <= 1

\* How far a thread has come and what it has stored, until the command fails.
ThreadInv ==
  \A c \in Command :
    /\ thread[c] \in {"new", "started", "checked", "coded"} => currentState[c] \in {EXECUTING, FAILED}
    /\ thread[c] \in {"failed", "processFailed"} => currentState[c] = FAILED
    /\ thread[c] = "coded" /\ currentState[c] # FAILED => exitCode[c] = "status"
    /\ currentState[c] \in {EXECUTED, SUCCESS} => exitCode[c] = "status"

\* The kill of a task that goes on has made it fail and not yet processed it.
Killing(c) == main \in {"coding", "processing"} /\ mainCmd = c

\* A task that is listed, or about to be, is removed by a runnable that is posted
\* when it is processed; its thread ends, or will end, without processing it only
\* if it is being killed.
ListInv ==
  /\ main \in {"coding", "processing"} => currentState[mainCmd] = FAILED
  /\ \A c \in Command :
       c \in mTasks \/ (main = "adding" /\ mainCmd = c) =>
         /\ processed[c] = TRUE => posted[c] > 0
         /\ (\/ thread[c] = "done"
             \/ /\ thread[c] \in {"new", "started", "checked", "coded"}
                /\ currentState[c] = FAILED)
              => processed[c] = TRUE \/ Killing(c)
         /\ thread[c] # "none"

IInv ==
  /\ TypeOK
  /\ Busy <=> mainCmd # NoCommand
  /\ FreshInv
  /\ AccountInv
  /\ ThreadInv
  /\ ListInv

\* An intent, or a user who opens a session, preserves the invariant: the command
\* is fresh, so whatever is sent for it is sent for the first time.
LEMMA ReceiveIInv ==
  ASSUME IInv, NEW c \in Command,
         \/ Rejected(c) \/ Reused(c) \/ StartFails(c) \/ StartTask(c)
         \/ StartSession(c)
  PROVE  IInv'
<1> USE NoCommandAssumption, KindAssumption DEF commandVars, listVars,
        processVars, serviceVars, mainVars, PRE_EXECUTION, EXECUTING, EXECUTED,
        SUCCESS, FAILED, Thread, Busy, Killing
<1>1. CASE Rejected(c)
  <2>1. TypeOK'
    BY <1>1 DEF IInv, TypeOK, Rejected, Receive, Send, PendingResult
  <2>2. FreshInv'
    BY <1>1 DEF IInv, TypeOK, FreshInv, Rejected, Receive, Send, PendingResult
  <2>3. AccountInv'
    BY <1>1 DEF IInv, TypeOK, FreshInv, AccountInv, Rejected, Receive, Send,
           PendingResult
  <2>4. ThreadInv'
    BY <1>1 DEF IInv, TypeOK, FreshInv, ThreadInv, Rejected, Receive, Send,
           PendingResult
  <2>5. ListInv'
    BY <1>1 DEF IInv, TypeOK, FreshInv, AccountInv, ThreadInv, ListInv,
           Rejected, Receive, Send, PendingResult
  <2>6. (Busy <=> mainCmd # NoCommand)'
    BY <1>1, Zenon DEF IInv, TypeOK, Rejected, Receive, Send, PendingResult
  <2> QED BY <2>1, <2>2, <2>3, <2>4, <2>5, <2>6, Zenon DEF IInv
<1>2. CASE Reused(c)
  <2>1. TypeOK'
    BY <1>2, Zenon DEF IInv, TypeOK, Reused, Receive
  <2>2. FreshInv'
    BY <1>2, Zenon DEF IInv, TypeOK, FreshInv, Reused, Receive
  <2>3. AccountInv'
    BY <1>2, Zenon DEF IInv, TypeOK, FreshInv, AccountInv, Reused, Receive
  <2>4. ThreadInv'
    BY <1>2, Zenon DEF IInv, TypeOK, FreshInv, ThreadInv, Reused, Receive
  <2>5. ListInv'
    BY <1>2, Zenon DEF IInv, TypeOK, FreshInv, AccountInv, ThreadInv, ListInv, Reused,
           Receive
  <2>6. (Busy <=> mainCmd # NoCommand)'
    BY <1>2, Zenon DEF IInv, TypeOK, Reused, Receive
  <2> QED BY <2>1, <2>2, <2>3, <2>4, <2>5, <2>6, Zenon DEF IInv
<1>3. CASE StartFails(c)
  <2>1. TypeOK'
    BY <1>3 DEF IInv, TypeOK, StartFails, Receive, Send, PendingResult
  <2>2. FreshInv'
    BY <1>3 DEF IInv, TypeOK, FreshInv, StartFails, Receive, Send, PendingResult
  <2>3. AccountInv'
    BY <1>3 DEF IInv, TypeOK, FreshInv, AccountInv, StartFails, Receive, Send,
           PendingResult
  <2>4. ThreadInv'
    BY <1>3 DEF IInv, TypeOK, FreshInv, ThreadInv, StartFails, Receive, Send,
           PendingResult
  <2>5. ListInv'
    BY <1>3 DEF IInv, TypeOK, FreshInv, AccountInv, ThreadInv, ListInv,
           StartFails, Receive, Send, PendingResult
  <2>6. (Busy <=> mainCmd # NoCommand)'
    BY <1>3, Zenon DEF IInv, TypeOK, StartFails, Receive, Send, PendingResult
  <2> QED BY <2>1, <2>2, <2>3, <2>4, <2>5, <2>6, Zenon DEF IInv
<1>4. CASE StartTask(c)
  <2>1. TypeOK'
    BY <1>4 DEF IInv, TypeOK, StartTask
  <2>2. FreshInv'
    BY <1>4 DEF IInv, TypeOK, FreshInv, StartTask
  <2>3. AccountInv'
    BY <1>4 DEF IInv, TypeOK, FreshInv, AccountInv, StartTask
  <2>4. ThreadInv'
    BY <1>4 DEF IInv, TypeOK, FreshInv, ThreadInv, StartTask
  <2>5. ListInv'
    BY <1>4 DEF IInv, TypeOK, FreshInv, AccountInv, ThreadInv, ListInv,
           StartTask
  <2>6. (Busy <=> mainCmd # NoCommand)'
    BY <1>4, Zenon DEF IInv, TypeOK, StartTask
  <2> QED BY <2>1, <2>2, <2>3, <2>4, <2>5, <2>6, Zenon DEF IInv
<1>5. CASE StartSession(c)
  <2>1. TypeOK'
    BY <1>5 DEF IInv, TypeOK, StartSession
  <2>2. FreshInv'
    BY <1>5, ZenonT(30) DEF IInv, TypeOK, FreshInv, StartSession
  <2>3. AccountInv'
    BY <1>5 DEF IInv, TypeOK, FreshInv, AccountInv, StartSession
  <2>4. ThreadInv'
    BY <1>5 DEF IInv, TypeOK, FreshInv, ThreadInv, StartSession
  <2>5. ListInv'
    BY <1>5 DEF IInv, TypeOK, FreshInv, AccountInv, ThreadInv, ListInv,
           StartSession
  <2>6. (Busy <=> mainCmd # NoCommand)'
    BY <1>5, Zenon DEF IInv, TypeOK, StartSession
  <2> QED BY <2>1, <2>2, <2>3, <2>4, <2>5, <2>6, Zenon DEF IInv
<1> QED BY <1>1, <1>2, <1>3, <1>4, <1>5, Zenon

\* The process and the thread of a task preserve the invariant, and so does the
\* runnable that removes the task.
LEMMA ThreadIInv ==
  ASSUME IInv, NEW c \in Command,
         \/ ProcessExit(c) \/ ThreadBegin(c) \/ ThreadStdinFails(c)
         \/ ThreadFailedCode(c) \/ ThreadCheck(c) \/ ThreadCode(c)
         \/ ThreadExecuted(c) \/ ThreadProcess(c) \/ OnAppShellExited(c)
  PROVE  IInv'
<1> USE NoCommandAssumption, KindAssumption DEF commandVars, listVars,
        processVars, serviceVars, mainVars, PRE_EXECUTION, EXECUTING, EXECUTED,
        SUCCESS, FAILED, Thread, Busy, Killing
<1>1. CASE ProcessExit(c)
  <2>1. TypeOK'
    BY <1>1, Zenon DEF IInv, TypeOK, ProcessExit
  <2>2. FreshInv'
    BY <1>1, Zenon DEF IInv, TypeOK, FreshInv, ProcessExit
  <2>3. AccountInv'
    BY <1>1, Zenon DEF IInv, TypeOK, FreshInv, AccountInv, ProcessExit
  <2>4. ThreadInv'
    BY <1>1, Zenon DEF IInv, TypeOK, FreshInv, ThreadInv, ProcessExit
  <2>5. ListInv'
    BY <1>1, Zenon DEF IInv, TypeOK, FreshInv, AccountInv, ThreadInv, ListInv,
           ProcessExit
  <2>6. (Busy <=> mainCmd # NoCommand)'
    BY <1>1, Zenon DEF IInv, TypeOK, ProcessExit
  <2> QED BY <2>1, <2>2, <2>3, <2>4, <2>5, <2>6, Zenon DEF IInv
<1>2. CASE ThreadBegin(c)
  <2>1. TypeOK'
    BY <1>2, Zenon DEF IInv, TypeOK, ThreadBegin, ThreadGoes
  <2>2. FreshInv'
    BY <1>2, ZenonT(30) DEF IInv, TypeOK, FreshInv, ThreadBegin, ThreadGoes
  <2>3. AccountInv'
    BY <1>2, Zenon DEF IInv, TypeOK, FreshInv, AccountInv, ThreadBegin, ThreadGoes
  <2>4. ThreadInv'
    BY <1>2 DEF IInv, TypeOK, FreshInv, ThreadInv, ThreadBegin, ThreadGoes
  <2>5. ListInv'
    BY <1>2 DEF IInv, TypeOK, FreshInv, AccountInv, ThreadInv, ListInv,
           ThreadBegin, ThreadGoes
  <2>6. (Busy <=> mainCmd # NoCommand)'
    BY <1>2, Zenon DEF IInv, TypeOK, ThreadBegin, ThreadGoes
  <2> QED BY <2>1, <2>2, <2>3, <2>4, <2>5, <2>6, Zenon DEF IInv
<1>3. CASE ThreadStdinFails(c)
  <2>1. TypeOK'
    BY <1>3 DEF IInv, TypeOK, ThreadStdinFails, ThreadGoes, SetState, Accepts
  <2>2. FreshInv'
    BY <1>3 DEF IInv, TypeOK, FreshInv, ThreadStdinFails, ThreadGoes, SetState,
           Accepts
  <2>3. AccountInv'
    BY <1>3 DEF IInv, TypeOK, FreshInv, AccountInv, ThreadStdinFails,
           ThreadGoes, SetState, Accepts
  <2>4. ThreadInv'
    BY <1>3, SMTT(30) DEF IInv, TypeOK, FreshInv, ThreadInv, ThreadStdinFails,
           ThreadGoes, SetState, Accepts
  <2>5. ListInv'
    BY <1>3 DEF IInv, TypeOK, FreshInv, AccountInv, ThreadInv, ListInv,
           ThreadStdinFails, ThreadGoes, SetState, Accepts
  <2>6. (Busy <=> mainCmd # NoCommand)'
    BY <1>3, Zenon DEF IInv, TypeOK, ThreadStdinFails, ThreadGoes, SetState, Accepts
  <2> QED BY <2>1, <2>2, <2>3, <2>4, <2>5, <2>6, Zenon DEF IInv
<1>4. CASE ThreadFailedCode(c)
  <2>1. TypeOK'
    BY <1>4, Zenon DEF IInv, TypeOK, ThreadFailedCode, ThreadGoes
  <2>2. FreshInv'
    BY <1>4, ZenonT(30) DEF IInv, TypeOK, FreshInv, ThreadFailedCode, ThreadGoes
  <2>3. AccountInv'
    BY <1>4, Zenon DEF IInv, TypeOK, FreshInv, AccountInv, ThreadFailedCode, ThreadGoes
  <2>4. ThreadInv'
    BY <1>4 DEF IInv, TypeOK, FreshInv, ThreadInv, ThreadFailedCode, ThreadGoes
  <2>5. ListInv'
    BY <1>4 DEF IInv, TypeOK, FreshInv, AccountInv, ThreadInv, ListInv,
           ThreadFailedCode, ThreadGoes
  <2>6. (Busy <=> mainCmd # NoCommand)'
    BY <1>4, Zenon DEF IInv, TypeOK, ThreadFailedCode, ThreadGoes
  <2> QED BY <2>1, <2>2, <2>3, <2>4, <2>5, <2>6, Zenon DEF IInv
<1>5. CASE ThreadCheck(c)
  <2>1. TypeOK'
    BY <1>5, Zenon DEF IInv, TypeOK, ThreadCheck, ThreadGoes
  <2>2. FreshInv'
    BY <1>5, Zenon DEF IInv, TypeOK, FreshInv, ThreadCheck, ThreadGoes
  <2>3. AccountInv'
    BY <1>5, Zenon DEF IInv, TypeOK, FreshInv, AccountInv, ThreadCheck, ThreadGoes
  <2>4. ThreadInv'
    BY <1>5, ZenonT(30) DEF IInv, TypeOK, FreshInv, ThreadInv, ThreadCheck, ThreadGoes
  <2>5. ListInv'
    BY <1>5 DEF IInv, TypeOK, FreshInv, AccountInv, ThreadInv, ListInv,
           ThreadCheck, ThreadGoes
  <2>6. (Busy <=> mainCmd # NoCommand)'
    BY <1>5, Zenon DEF IInv, TypeOK, ThreadCheck, ThreadGoes
  <2> QED BY <2>1, <2>2, <2>3, <2>4, <2>5, <2>6, Zenon DEF IInv
<1>6. CASE ThreadCode(c)
  <2>1. TypeOK'
    BY <1>6, Zenon DEF IInv, TypeOK, ThreadCode, ThreadGoes, StoredCode
  <2>2. FreshInv'
    BY <1>6 DEF IInv, TypeOK, FreshInv, ThreadCode, ThreadGoes, StoredCode
  <2>3. AccountInv'
    BY <1>6, Zenon DEF IInv, TypeOK, FreshInv, AccountInv, ThreadCode, ThreadGoes,
           StoredCode
  <2>4. ThreadInv'
    BY <1>6 DEF IInv, TypeOK, FreshInv, ThreadInv, ThreadCode, ThreadGoes,
           StoredCode
  <2>5. ListInv'
    BY <1>6 DEF IInv, TypeOK, FreshInv, AccountInv, ThreadInv, ListInv,
           ThreadCode, ThreadGoes, StoredCode
  <2>6. (Busy <=> mainCmd # NoCommand)'
    BY <1>6, Zenon DEF IInv, TypeOK, ThreadCode, ThreadGoes, StoredCode
  <2> QED BY <2>1, <2>2, <2>3, <2>4, <2>5, <2>6, Zenon DEF IInv
<1>7. CASE ThreadExecuted(c)
  <2>1. TypeOK'
    BY <1>7 DEF IInv, TypeOK, ThreadExecuted, ThreadGoes, SetState, Accepts
  <2>2. FreshInv'
    BY <1>7, SMTT(30) DEF IInv, TypeOK, FreshInv, ThreadExecuted, ThreadGoes, SetState,
           Accepts
  <2>3. AccountInv'
    BY <1>7 DEF IInv, TypeOK, FreshInv, AccountInv, ThreadExecuted, ThreadGoes,
           SetState, Accepts
  <2>4. ThreadInv'
    BY <1>7, SMTT(30) DEF IInv, TypeOK, FreshInv, ThreadInv, ThreadExecuted, ThreadGoes,
           SetState, Accepts
  <2>5. ListInv'
    BY <1>7 DEF IInv, TypeOK, FreshInv, AccountInv, ThreadInv, ListInv,
           ThreadExecuted, ThreadGoes, SetState, Accepts
  <2>6. (Busy <=> mainCmd # NoCommand)'
    BY <1>7, Zenon DEF IInv, TypeOK, ThreadExecuted, ThreadGoes, SetState, Accepts
  <2> QED BY <2>1, <2>2, <2>3, <2>4, <2>5, <2>6, Zenon DEF IInv
<1>8. CASE ThreadProcess(c)
  <2>1. TypeOK'
    BY <1>8, SMTT(30) DEF IInv, TypeOK, AccountInv, ThreadProcess, ThreadGoes, Posted,
           ShouldNotProcessResults
  <2>2. FreshInv'
    BY <1>8, SMTT(30) DEF IInv, TypeOK, FreshInv, ThreadProcess, ThreadGoes, Posted,
           ShouldNotProcessResults
  <2>3. AccountInv'
    BY <1>8, SMTT(30) DEF IInv, TypeOK, FreshInv, AccountInv, ThreadProcess, ThreadGoes,
           Posted, ShouldNotProcessResults
  <2>4. ThreadInv'
    BY <1>8 DEF IInv, TypeOK, FreshInv, ThreadInv, ThreadProcess, ThreadGoes,
           Posted, ShouldNotProcessResults
  <2>5. ListInv'
    BY <1>8 DEF IInv, TypeOK, FreshInv, AccountInv, ThreadInv, ListInv,
           ThreadProcess, ThreadGoes, Posted, ShouldNotProcessResults
  <2>6. (Busy <=> mainCmd # NoCommand)'
    BY <1>8, Zenon DEF IInv, TypeOK, AccountInv, ThreadProcess, ThreadGoes, Posted,
           ShouldNotProcessResults
  <2> QED BY <2>1, <2>2, <2>3, <2>4, <2>5, <2>6, Zenon DEF IInv
<1>9. CASE OnAppShellExited(c)
  <2>1. TypeOK'
    BY <1>9, SMTT(30) DEF IInv, TypeOK, OnAppShellExited, ResultStates, Send,
           PendingResult, HasExecuted, WithoutTask
  <2>2. FreshInv'
    BY <1>9 DEF IInv, TypeOK, FreshInv, OnAppShellExited, ResultStates, Send,
           PendingResult, HasExecuted, WithoutTask
  <2>3. AccountInv'
    BY <1>9, SMTT(30) DEF IInv, TypeOK, FreshInv, AccountInv, OnAppShellExited,
           ResultStates, Send, PendingResult, HasExecuted, WithoutTask
  <2>4. ThreadInv'
    BY <1>9, SMTT(30) DEF IInv, TypeOK, FreshInv, ThreadInv, OnAppShellExited,
           ResultStates, Send, PendingResult, HasExecuted, WithoutTask
  <2>5. ListInv'
    BY <1>9 DEF IInv, TypeOK, FreshInv, AccountInv, ThreadInv, ListInv,
           OnAppShellExited, ResultStates, Send, PendingResult, HasExecuted,
           WithoutTask
  <2>6. (Busy <=> mainCmd # NoCommand)'
    BY <1>9, Zenon DEF IInv, TypeOK, OnAppShellExited, ResultStates, Send,
           PendingResult, HasExecuted, WithoutTask
  <2> QED BY <2>1, <2>2, <2>3, <2>4, <2>5, <2>6, Zenon DEF IInv
<1> QED BY <1>1, <1>2, <1>3, <1>4, <1>5, <1>6, <1>7, <1>8, <1>9, Zenon

-----------------------------------------------------------------------------
(* The main thread. *)

\* removexodosSession() keeps the types.
LEMMA Removal ==
  ASSUME TypeOK, NEW c \in Command, RemoveSession(c)
  PROVE  /\ currentState' \in [Command -> 0 .. 4]
         /\ exitCode' \in [Command -> {"null", "status", "137", "1"}]
         /\ processed' \in [Command -> BOOLEAN]
         /\ mSessions' \subseteq Command
         /\ sent' \in [Command -> Nat]
<1> USE DEF PRE_EXECUTION, EXECUTING, EXECUTED, SUCCESS, FAILED
<1>1. CASE c \notin mSessions \/ currentState[c] = FAILED
  BY <1>1, Zenon DEF TypeOK, RemoveSession, commandVars
<1>2. CASE c \in mSessions /\ currentState[c] # FAILED /\ ShouldNotProcessResults(c)
  <2>1. SetState(currentState[c], EXECUTED) \in 0 .. 4
    BY DEF TypeOK, SetState
  <2>2. /\ currentState' = [currentState EXCEPT ![c] = SetState(currentState[c], EXECUTED)]
        /\ exitCode' = [exitCode EXCEPT ![c] = "status"]
        /\ processed' = [processed EXCEPT ![c] = TRUE]
        /\ UNCHANGED <<mSessions, sent>>
    BY <1>2, Zenon DEF RemoveSession
  <2>3. currentState' \in [Command -> 0 .. 4]
    BY <2>1, <2>2, Zenon DEF TypeOK
  <2> QED BY <2>2, <2>3, Zenon DEF TypeOK
<1>3. CASE c \in mSessions /\ currentState[c] # FAILED /\ ~ShouldNotProcessResults(c)
  <2>1. PICK s \in 0 .. 4 : currentState' = [currentState EXCEPT ![c] = s]
    BY <1>3 DEF RemoveSession, ResultStates
  <2>2. sent' \in [Command -> Nat]
    BY <1>3 DEF TypeOK, RemoveSession, Send
  <2> QED BY <1>3, <2>1, <2>2, ZenonT(30) DEF TypeOK, RemoveSession
<1> QED BY <1>1, <1>2, <1>3, Zenon

\* What a session does preserves the invariant: no thread runs its command.
LEMMA SessionIInv ==
  ASSUME IInv, NEW c \in Command,
         SessionBegin(c) \/ SessionExit(c) \/ RemoveFinishedSession(c)
  PROVE  IInv'
<1> USE NoCommandAssumption, KindAssumption DEF commandVars, listVars,
        processVars, serviceVars, mainVars, PRE_EXECUTION, EXECUTING, EXECUTED,
        SUCCESS, FAILED, Thread, Busy, Killing
<1>1. CASE SessionBegin(c)
  <2>1. TypeOK'
    BY <1>1, Zenon DEF IInv, TypeOK, SessionBegin
  <2>2. FreshInv'
    BY <1>1, Zenon DEF IInv, TypeOK, FreshInv, SessionBegin
  <2>3. AccountInv'
    BY <1>1, Zenon DEF IInv, TypeOK, FreshInv, AccountInv, SessionBegin
  <2>4. ThreadInv'
    BY <1>1, Zenon DEF IInv, TypeOK, FreshInv, ThreadInv, SessionBegin
  <2>5. ListInv'
    BY <1>1, Zenon DEF IInv, TypeOK, FreshInv, AccountInv, ThreadInv, ListInv,
           SessionBegin
  <2>6. (Busy <=> mainCmd # NoCommand)'
    BY <1>1, Zenon DEF IInv, TypeOK, SessionBegin
  <2> QED BY <2>1, <2>2, <2>3, <2>4, <2>5, <2>6, Zenon DEF IInv
<1>2. CASE SessionExit(c)
  <2>1. TypeOK'
    BY <1>2, Removal, ZenonT(30) DEF IInv, TypeOK, SessionExit
  <2>2. FreshInv'
    BY <1>2 DEF IInv, TypeOK, FreshInv, SessionExit, RemoveSession,
           ResultStates, Send, PendingResult, ShouldNotProcessResults,
           SetState, Accepts
  <2>3. AccountInv'
    BY <1>2, SMTT(30) DEF IInv, TypeOK, FreshInv, AccountInv, SessionExit, RemoveSession,
           ResultStates, Send, PendingResult, ShouldNotProcessResults,
           SetState, Accepts
  <2>4. ThreadInv'
    BY <1>2, SMTT(30) DEF IInv, TypeOK, FreshInv, ThreadInv, SessionExit, RemoveSession,
           ResultStates, Send, PendingResult, ShouldNotProcessResults,
           SetState, Accepts
  <2>5. ListInv'
    BY <1>2 DEF IInv, TypeOK, FreshInv, AccountInv, ThreadInv, ListInv,
           SessionExit, RemoveSession, ResultStates, Send, PendingResult,
           ShouldNotProcessResults, SetState, Accepts
  <2>6. (Busy <=> mainCmd # NoCommand)'
    BY <1>2, Zenon DEF IInv, TypeOK, SessionExit, RemoveSession, ResultStates, Send,
           PendingResult, ShouldNotProcessResults, SetState, Accepts
  <2> QED BY <2>1, <2>2, <2>3, <2>4, <2>5, <2>6, Zenon DEF IInv
<1>3. CASE RemoveFinishedSession(c)
  <2>1. TypeOK'
    BY <1>3, Removal, Zenon DEF IInv, TypeOK, RemoveFinishedSession
  <2>2. FreshInv'
    BY <1>3 DEF IInv, TypeOK, FreshInv, RemoveFinishedSession, RemoveSession,
           ResultStates, Send, PendingResult, ShouldNotProcessResults,
           SetState, Accepts
  <2>3. AccountInv'
    BY <1>3 DEF IInv, TypeOK, FreshInv, AccountInv, RemoveFinishedSession,
           RemoveSession, ResultStates, Send, PendingResult,
           ShouldNotProcessResults, SetState, Accepts
  <2>4. ThreadInv'
    BY <1>3 DEF IInv, TypeOK, FreshInv, ThreadInv, RemoveFinishedSession,
           RemoveSession, ResultStates, Send, PendingResult,
           ShouldNotProcessResults, SetState, Accepts
  <2>5. ListInv'
    BY <1>3 DEF IInv, TypeOK, FreshInv, AccountInv, ThreadInv, ListInv,
           RemoveFinishedSession, RemoveSession, ResultStates, Send,
           PendingResult, ShouldNotProcessResults, SetState, Accepts
  <2>6. (Busy <=> mainCmd # NoCommand)'
    BY <1>3, Zenon DEF IInv, TypeOK, RemoveFinishedSession, RemoveSession,
           ResultStates, Send, PendingResult, ShouldNotProcessResults,
           SetState, Accepts
  <2> QED BY <2>1, <2>2, <2>3, <2>4, <2>5, <2>6, Zenon DEF IInv
<1> QED BY <1>1, <1>2, <1>3, Zenon

\* The steps of the main thread inside createxodosTask() and
\* killAllxodosExecutionCommands() preserve the invariant.
LEMMA KillIInv ==
  ASSUME IInv,
         \/ AddTask \/ KillFail \/ KillCode \/ KillProcess \/ KillSignal
         \/ KillPending \/ \E c \in Command : KillCheck(c)
  PROVE  IInv'
<1> USE NoCommandAssumption, KindAssumption DEF commandVars, listVars,
        processVars, serviceVars, mainVars, PRE_EXECUTION, EXECUTING, EXECUTED,
        SUCCESS, FAILED, Thread, Busy, Killing
<1>1. CASE AddTask
  <2>1. TypeOK'
    BY <1>1, Zenon DEF IInv, TypeOK, AddTask
  <2>2. FreshInv'
    BY <1>1, Zenon DEF IInv, TypeOK, FreshInv, AddTask
  <2>3. AccountInv'
    BY <1>1, Zenon DEF IInv, TypeOK, FreshInv, AccountInv, AddTask
  <2>4. ThreadInv'
    BY <1>1, Zenon DEF IInv, TypeOK, FreshInv, ThreadInv, AddTask
  <2>5. ListInv'
    BY <1>1, Zenon DEF IInv, TypeOK, FreshInv, AccountInv, ThreadInv, ListInv, AddTask
  <2>6. (Busy <=> mainCmd # NoCommand)'
    BY <1>1, Zenon DEF IInv, TypeOK, AddTask
  <2> QED BY <2>1, <2>2, <2>3, <2>4, <2>5, <2>6, Zenon DEF IInv
<1>2. CASE KillFail
  <2>1. TypeOK'
    BY <1>2 DEF IInv, TypeOK, KillFail, KillGoes, SetState, Accepts
  <2>2. FreshInv'
    BY <1>2 DEF IInv, TypeOK, FreshInv, KillFail, KillGoes, SetState, Accepts
  <2>3. AccountInv'
    BY <1>2, SMTT(30) DEF IInv, TypeOK, FreshInv, AccountInv, KillFail, KillGoes,
           SetState, Accepts
  <2>4. ThreadInv'
    BY <1>2, SMTT(30) DEF IInv, TypeOK, FreshInv, ThreadInv, KillFail, KillGoes,
           SetState, Accepts
  <2>5. ListInv'
    BY <1>2 DEF IInv, TypeOK, FreshInv, AccountInv, ThreadInv, ListInv,
           KillFail, KillGoes, SetState, Accepts
  <2>6. (Busy <=> mainCmd # NoCommand)'
    BY <1>2, Zenon DEF IInv, TypeOK, KillFail, KillGoes, SetState, Accepts
  <2> QED BY <2>1, <2>2, <2>3, <2>4, <2>5, <2>6, Zenon DEF IInv
<1>3. CASE KillCode
  <2>1. TypeOK'
    BY <1>3, Zenon DEF IInv, TypeOK, KillCode, KillGoes
  <2>2. FreshInv'
    BY <1>3, Zenon DEF IInv, TypeOK, FreshInv, KillCode, KillGoes
  <2>3. AccountInv'
    BY <1>3, Zenon DEF IInv, TypeOK, FreshInv, AccountInv, KillCode, KillGoes
  <2>4. ThreadInv'
    BY <1>3 DEF IInv, TypeOK, ThreadInv, ListInv, KillCode, KillGoes
  <2>5. ListInv'
    BY <1>3, Zenon DEF IInv, TypeOK, FreshInv, AccountInv, ThreadInv, ListInv,
           KillCode, KillGoes
  <2>6. (Busy <=> mainCmd # NoCommand)'
    BY <1>3, Zenon DEF IInv, TypeOK, KillCode, KillGoes
  <2> QED BY <2>1, <2>2, <2>3, <2>4, <2>5, <2>6, Zenon DEF IInv
<1>4. CASE KillProcess
  <2>1. TypeOK'
    BY <1>4 DEF IInv, TypeOK, AccountInv, KillProcess, KillGoes, Posted,
           ShouldNotProcessResults
  <2>2. FreshInv'
    BY <1>4 DEF IInv, TypeOK, FreshInv, KillProcess, KillGoes, Posted,
           ShouldNotProcessResults
  <2>3. AccountInv'
    BY <1>4 DEF IInv, TypeOK, FreshInv, AccountInv, KillProcess, KillGoes,
           Posted, ShouldNotProcessResults
  <2>4. ThreadInv'
    BY <1>4, Zenon DEF IInv, TypeOK, FreshInv, ThreadInv, KillProcess, KillGoes,
           Posted, ShouldNotProcessResults
  <2>5. ListInv'
    BY <1>4 DEF IInv, TypeOK, FreshInv, AccountInv, ThreadInv, ListInv,
           KillProcess, KillGoes, Posted, ShouldNotProcessResults
  <2>6. (Busy <=> mainCmd # NoCommand)'
    BY <1>4, Zenon DEF IInv, TypeOK, KillProcess, KillGoes, Posted,
           ShouldNotProcessResults
  <2> QED BY <2>1, <2>2, <2>3, <2>4, <2>5, <2>6, Zenon DEF IInv
<1>5. CASE KillSignal
  <2>1. TypeOK'
    BY <1>5, Zenon DEF IInv, TypeOK, KillSignal, KillGoes
  <2>2. FreshInv'
    BY <1>5, Zenon DEF IInv, TypeOK, FreshInv, KillSignal, KillGoes
  <2>3. AccountInv'
    BY <1>5, Zenon DEF IInv, TypeOK, FreshInv, AccountInv, KillSignal, KillGoes
  <2>4. ThreadInv'
    BY <1>5, Zenon DEF IInv, TypeOK, FreshInv, ThreadInv, KillSignal, KillGoes
  <2>5. ListInv'
    BY <1>5, Zenon DEF IInv, TypeOK, FreshInv, AccountInv, ThreadInv, ListInv,
           KillSignal, KillGoes
  <2>6. (Busy <=> mainCmd # NoCommand)'
    BY <1>5, Zenon DEF IInv, TypeOK, KillSignal, KillGoes
  <2> QED BY <2>1, <2>2, <2>3, <2>4, <2>5, <2>6, Zenon DEF IInv
<1>6. CASE KillPending
  <2>1. TypeOK'
    BY <1>6, SMTT(30) DEF IInv, TypeOK, KillPending, KillGoes, Cancelled, Send,
           PendingResult, ShouldNotProcessResults
  <2>2. FreshInv'
    BY <1>6, Zenon DEF IInv, TypeOK, FreshInv, KillPending, KillGoes, Cancelled, Send,
           PendingResult, ShouldNotProcessResults
  <2>3. AccountInv'
    BY <1>6, SMTT(30) DEF IInv, TypeOK, FreshInv, AccountInv, KillPending, KillGoes,
           Cancelled, Send, PendingResult, ShouldNotProcessResults
  <2>4. ThreadInv'
    BY <1>6, SMTT(30) DEF IInv, TypeOK, FreshInv, ThreadInv, KillPending, KillGoes,
           Cancelled, Send, PendingResult, ShouldNotProcessResults
  <2>5. ListInv'
    BY <1>6, Zenon DEF IInv, TypeOK, FreshInv, AccountInv, ThreadInv, ListInv,
           KillPending, KillGoes, Cancelled, Send, PendingResult,
           ShouldNotProcessResults
  <2>6. (Busy <=> mainCmd # NoCommand)'
    BY <1>6, Zenon DEF IInv, TypeOK, KillPending, KillGoes, Cancelled, Send,
           PendingResult, ShouldNotProcessResults
  <2> QED BY <2>1, <2>2, <2>3, <2>4, <2>5, <2>6, Zenon DEF IInv
<1>7. ASSUME NEW c \in Command, KillCheck(c) PROVE IInv'
  <2>1. TypeOK'
    BY <1>7, Zenon DEF IInv, TypeOK, KillCheck, KillGoes, HasExecuted
  <2>2. FreshInv'
    BY <1>7 DEF IInv, TypeOK, FreshInv, KillCheck, KillGoes, HasExecuted
  <2>3. AccountInv'
    BY <1>7, Zenon DEF IInv, TypeOK, FreshInv, AccountInv, KillCheck, KillGoes,
           HasExecuted
  <2>4. ThreadInv'
    BY <1>7, Zenon DEF IInv, TypeOK, FreshInv, ThreadInv, KillCheck, KillGoes,
           HasExecuted
  <2>5. ListInv'
    BY <1>7, Zenon DEF IInv, TypeOK, FreshInv, AccountInv, ThreadInv, ListInv,
           KillCheck, KillGoes, HasExecuted
  <2>6. (Busy <=> mainCmd # NoCommand)'
    BY <1>7, Zenon DEF IInv, TypeOK, KillCheck, KillGoes, HasExecuted
  <2> QED BY <2>1, <2>2, <2>3, <2>4, <2>5, <2>6, Zenon DEF IInv
<1> QED BY <1>1, <1>2, <1>3, <1>4, <1>5, <1>6, <1>7, Zenon

\* killAllxodosExecutionCommands() preserves the invariant: a session it processes
\* is processed for the first time, and it leaves the tasks as they are.
LEMMA KillAllIInv ==
  ASSUME IInv, main = "idle", NEW wants \in BOOLEAN, KillAll(wants),
         UNCHANGED <<kind, received, mPending, process, thread, posted>>,
         (mWantsToStop \in BOOLEAN /\ service \in {"up", "down"} /\ attached \in BOOLEAN)'
  PROVE  IInv'
<1> USE DEF PRE_EXECUTION, EXECUTING, EXECUTED, SUCCESS, FAILED
<1>1. /\ main' = "killing" /\ mainCmd' = NoCommand
      /\ mTasks' \subseteq mTasks /\ todo' = mTasks' /\ KillSessions(wants)
  BY Zenon DEF KillAll
<1>2. mSessions' \subseteq mSessions
  BY <1>1, Zenon DEF KillSessions
<1>3. /\ processed' \in [Command -> BOOLEAN]
      /\ \A c \in Command : processed[c] => processed'[c]
      /\ \A c \in Command : c \notin mSessions => processed'[c] = processed[c]
  <2>1. processed \in [Command -> BOOLEAN]
    BY Zenon DEF IInv, TypeOK
  <2> QED BY <1>1, <2>1, Zenon DEF KillSessions
<1>4. /\ currentState' \in [Command -> 0 .. 4]
      /\ \A c \in Command : \/ currentState'[c] = currentState[c]
                            \/ c \in mSessions /\ currentState'[c] = FAILED
  BY <1>1 DEF IInv, TypeOK, KillSessions
<1>5. /\ exitCode' \in [Command -> {"null", "status", "137", "1"}]
      /\ \A c \in Command : \/ exitCode'[c] = exitCode[c]
                            \/ c \in mSessions /\ currentState'[c] = FAILED
  BY <1>1, Zenon DEF IInv, TypeOK, KillSessions
<1>6. /\ sent' \in [Command -> Nat]
      /\ \A c \in Command :
           \/ sent'[c] = sent[c]
           \/ /\ c \in mSessions /\ sent'[c] = sent[c] + 1
              /\ processed[c] = FALSE /\ processed'[c] = TRUE
  <2>1. /\ sent \in [Command -> Nat] /\ processed \in [Command -> BOOLEAN]
    BY Zenon DEF IInv, TypeOK
  <2> PICK S : Send(S)
    BY <1>1, Zenon DEF KillSessions
  <2>2. /\ sent' \in [Command -> Nat]
        /\ \A c \in Command : sent'[c] = sent[c] \/ sent'[c] = sent[c] + 1
    BY <2>1, SMTT(30) DEF Send
  <2>3. \A c \in Command :
          sent'[c] = sent[c] \/ (c \in mSessions /\ ~processed[c] /\ processed'[c])
    BY <1>1, <2>1, Zenon DEF KillSessions, Send, ShouldNotProcessResults
  <2> QED BY <1>3, <2>1, <2>2, <2>3, ZenonT(30)
<1>7. signalled' \subseteq Command
  BY <1>1, Zenon DEF IInv, TypeOK, KillSessions
<1>8. TypeOK'
  BY <1>1, <1>2, <1>3, <1>4, <1>5, <1>6, <1>7, ZenonT(30) DEF IInv, TypeOK
<1>9. FreshInv'
  BY <1>1, <1>2, <1>3, <1>4, <1>6, NoCommandAssumption DEF IInv, FreshInv
<1>10. AccountInv'
  BY <1>3, <1>4, <1>6 DEF IInv, TypeOK, AccountInv
<1>11. ThreadInv'
  BY <1>4, <1>5 DEF IInv, FreshInv, ThreadInv
<1>12. ListInv'
  <2>1. \A c \in mTasks : /\ c \in Command /\ c \notin mSessions
                         /\ processed'[c] = processed[c] /\ currentState'[c] = currentState[c]
    <3>1. \A c \in mTasks : c \in Command /\ thread[c] # "none"
      BY Zenon DEF IInv, TypeOK, ListInv
    <3> QED BY <1>3, <1>4, <3>1, Zenon DEF IInv, FreshInv
  <2> QED BY <1>1, <2>1, Zenon DEF IInv, ListInv, Killing
<1> QED BY <1>1, <1>8, <1>9, <1>10, <1>11, <1>12, Zenon DEF IInv, Busy

\* Stopping, destroying and creating the service preserve the invariant, and so
\* do the coming and going of the activity.
LEMMA ServiceIInv ==
  ASSUME IInv,
         ActionStopService \/ OnDestroy \/ OnCreate \/ Attach
  PROVE  IInv'
<1> USE NoCommandAssumption, KindAssumption DEF commandVars, listVars,
        processVars, serviceVars, mainVars, PRE_EXECUTION, EXECUTING, EXECUTED,
        SUCCESS, FAILED, Thread, Busy, Killing
<1>0. mWantsToStop \in BOOLEAN /\ service \in {"up", "down"} /\ attached \in BOOLEAN
  BY Zenon DEF IInv, TypeOK
<1>1. CASE ActionStopService
  <2>1. /\ main = "idle" /\ KillAll(TRUE)
        /\ UNCHANGED <<kind, received, mPending, process, thread, posted>>
        /\ (mWantsToStop \in BOOLEAN /\ service \in {"up", "down"} /\ attached \in BOOLEAN)'
    BY <1>0, <1>1, Zenon DEF ActionStopService
  <2> QED BY <2>1, KillAllIInv, Zenon
<1>2. CASE OnDestroy
  <2>1. CASE mWantsToStop
    <3>1. UNCHANGED <<kind, received, currentState, exitCode, processed, mSessions, mTasks,
                      mPending, process, signalled, thread, posted, sent, main, mainCmd, todo,
                      mWantsToStop, attached>> /\ service' = "down"
      BY <1>2, <2>1, Zenon DEF OnDestroy
    <3>2. TypeOK'
      BY <3>1, Zenon DEF IInv, TypeOK
    <3> QED BY <3>1, <3>2, ZenonT(30) DEF IInv, FreshInv, AccountInv, ThreadInv, ListInv
  <2>2. CASE ~mWantsToStop
    <3>1. /\ main = "idle" /\ KillAll(FALSE)
          /\ UNCHANGED <<kind, received, mPending, process, thread, posted>>
          /\ (mWantsToStop \in BOOLEAN /\ service \in {"up", "down"} /\ attached \in BOOLEAN)'
      BY <1>0, <1>2, <2>2, Zenon DEF OnDestroy
    <3> QED BY <3>1, KillAllIInv, Zenon
  <2> QED BY <2>1, <2>2, Zenon
<1>3. CASE OnCreate
  <2>1. TypeOK'
    BY <1>3, ZenonT(30) DEF IInv, TypeOK, OnCreate
  <2>2. FreshInv'
    BY <1>3, Zenon DEF IInv, TypeOK, FreshInv, OnCreate
  <2>3. AccountInv'
    BY <1>3, Zenon DEF IInv, TypeOK, FreshInv, AccountInv, OnCreate
  <2>4. ThreadInv'
    BY <1>3, Zenon DEF IInv, TypeOK, FreshInv, ThreadInv, OnCreate
  <2>5. ListInv'
    BY <1>3, Zenon DEF IInv, TypeOK, FreshInv, AccountInv, ThreadInv, ListInv, OnCreate
  <2>6. (Busy <=> mainCmd # NoCommand)'
    BY <1>3, Zenon DEF IInv, TypeOK, OnCreate
  <2> QED BY <2>1, <2>2, <2>3, <2>4, <2>5, <2>6, Zenon DEF IInv
<1>4. CASE Attach
  <2>1. TypeOK'
    BY <1>4, Zenon DEF IInv, TypeOK, Attach
  <2>2. FreshInv'
    BY <1>4, Zenon DEF IInv, TypeOK, FreshInv, Attach
  <2>3. AccountInv'
    BY <1>4, Zenon DEF IInv, TypeOK, FreshInv, AccountInv, Attach
  <2>4. ThreadInv'
    BY <1>4, Zenon DEF IInv, TypeOK, FreshInv, ThreadInv, Attach
  <2>5. ListInv'
    BY <1>4, Zenon DEF IInv, TypeOK, FreshInv, AccountInv, ThreadInv, ListInv, Attach
  <2>6. (Busy <=> mainCmd # NoCommand)'
    BY <1>4, Zenon DEF IInv, TypeOK, Attach
  <2> QED BY <2>1, <2>2, <2>3, <2>4, <2>5, <2>6, Zenon DEF IInv
<1> QED BY <1>1, <1>2, <1>3, <1>4, Zenon

-----------------------------------------------------------------------------
(* The theorems. *)

\* Every step preserves the invariant.
LEMMA NextIInv == IInv /\ [Next]_vars => IInv'
<1> SUFFICES ASSUME IInv, [Next]_vars PROVE IInv' BY Zenon
<1>1. CASE \E c \in Command : \/ Rejected(c) \/ Reused(c) \/ StartFails(c)
                             \/ StartTask(c) \/ StartSession(c)
  BY <1>1, ReceiveIInv, Zenon
<1>2. CASE \E c \in Command : ProcessExit(c) \/ ThreadStep(c) \/ OnAppShellExited(c)
  BY <1>2, ThreadIInv, Zenon DEF ThreadStep
<1>3. CASE \E c \in Command : SessionBegin(c) \/ SessionExit(c) \/ RemoveFinishedSession(c)
  BY <1>3, SessionIInv, Zenon
<1>4. CASE AddTask \/ KillStep
  BY <1>4, KillIInv, Zenon DEF KillStep
<1>5. CASE ActionStopService \/ OnDestroy \/ OnCreate \/ Attach
  BY <1>5, ServiceIInv, ZenonT(30)
<1>6. CASE UNCHANGED vars
  BY <1>6 DEF vars, commandVars, listVars, processVars, serviceVars, mainVars, IInv,
     TypeOK, Busy, FreshInv, AccountInv, ThreadInv, ListInv, Killing
<1> QED BY <1>1, <1>2, <1>3, <1>4, <1>5, <1>6, Zenon DEF Next

\* The invariant holds of every reachable state.
LEMMA Invariance == Spec => []IInv
<1>1. ASSUME Init PROVE IInv
  <2> USE DEF PRE_EXECUTION, EXECUTING, EXECUTED, SUCCESS, FAILED
  <2>0. \A c \in Command : /\ currentState[c] = 0 /\ exitCode[c] = "null" /\ processed[c] = FALSE
                            /\ thread[c] = "none" /\ posted[c] = 0 /\ sent[c] = 0
    BY <1>1, Zenon DEF Init
  <2>1. TypeOK
    <3>1. currentState \in [Command -> 0 .. 4] /\ exitCode \in [Command -> {"null", "status", "137", "1"}]
      BY <1>1 DEF Init
    <3>2. processed \in [Command -> BOOLEAN] /\ thread \in [Command -> Thread]
      BY <1>1, Zenon DEF Init, Thread
    <3>3. posted \in [Command -> 0 .. 1] /\ sent \in [Command -> Nat]
      BY <1>1 DEF Init
    <3>4. process \in [Command -> {"none", "unstarted", "running", "exited"}]
      BY <1>1, Zenon DEF Init
    <3> QED BY <1>1, <3>1, <3>2, <3>3, <3>4, ZenonT(30) DEF TypeOK, Init
  <2>2. Busy <=> mainCmd # NoCommand BY <1>1, Zenon DEF Init, Busy
  <2>3. FreshInv BY <1>1, <2>0, NoCommandAssumption, Zenon DEF Init, FreshInv
  <2>4. AccountInv
    <3> SUFFICES ASSUME NEW c \in Command
                 PROVE  /\ posted[c] = 0 /\ sent[c] = 0 /\ currentState[c] # SUCCESS
                        /\ sent[c] + posted[c] <= 1
      BY Zenon DEF AccountInv
    <3> QED BY <2>0
  <2>5. ThreadInv
    <3> SUFFICES ASSUME NEW c \in Command
                 PROVE  /\ thread[c] \notin {"new", "started", "checked", "coded",
                                           "failed", "processFailed"}
                        /\ currentState[c] \notin {EXECUTED, SUCCESS}
      BY Zenon DEF ThreadInv
    <3> QED BY <2>0
  <2>6. ListInv BY <1>1, Zenon DEF Init, ListInv
  <2> QED BY <2>1, <2>2, <2>3, <2>4, <2>5, <2>6, Zenon DEF IInv
<1> QED BY <1>1, NextIInv, PTL DEF Spec

\* The lists, flags and counters keep their types; no runnable is posted twice.
THEOREM TypeCorrect == Spec => []TypeOK
<1>1. IInv => TypeOK BY Zenon DEF IInv
<1> QED BY <1>1, Invariance, PTL

\* Whatever the kill of a command, its thread and the cancelling of pending ones
\* do, at most one result is sent for it.
THEOREM ResultOnce == Spec => []OneResult
<1>1. IInv => OneResult
  BY DEF IInv, TypeOK, AccountInv, OneResult
<1> QED BY <1>1, Invariance, PTL

\* A task that stays in mxodosTasks between handlers will be removed.
THEOREM ListedTasksAlwaysEnd == Spec => []ListedTasksEnd
<1>1. ASSUME IInv, main = "idle", NEW c \in mTasks PROVE thread[c] # "done" \/ posted[c] > 0
  <2>1. c \in Command BY <1>1, Zenon DEF IInv, TypeOK
  <2>2. ~Killing(c) BY <1>1, Zenon DEF Killing
  <2> QED BY <1>1, <2>1, <2>2, Zenon DEF IInv, ListInv
<1>2. IInv => ListedTasksEnd BY <1>1, Zenon DEF ListedTasksEnd
<1> QED BY <1>2, Invariance, PTL

\* A result that is no error carries the exit status of the process.
THEOREM StatusKept == Spec => []SuccessHasStatus
<1>1. IInv => SuccessHasStatus
  BY Zenon DEF IInv, ThreadInv, SuccessHasStatus
<1> QED BY <1>1, Invariance, PTL

\* No step of the main thread or of a task takes a command back to an earlier
\* state, or out of SUCCESS.
LEMMA NextForward ==
  ASSUME IInv, Next, NEW c \in Command
  PROVE  /\ currentState'[c] >= currentState[c]
         /\ currentState[c] = SUCCESS => currentState'[c] = SUCCESS
<1> USE DEF PRE_EXECUTION, EXECUTING, EXECUTED, SUCCESS, FAILED
<1>1. CASE \E d \in Command : \/ Rejected(d) \/ Reused(d) \/ StartFails(d)
                             \/ StartTask(d) \/ StartSession(d)
  BY <1>1, SMTT(30) DEF IInv, TypeOK, FreshInv, Rejected, Reused, StartFails, StartTask,
     StartSession, Receive, commandVars
<1>2. CASE \E d \in Command : ThreadStep(d)
  BY <1>2 DEF IInv, TypeOK, ThreadStep, ThreadBegin, ThreadStdinFails,
     ThreadFailedCode, ThreadCheck, ThreadCode, ThreadExecuted, ThreadProcess,
     SetState, Accepts, commandVars
<1>3. CASE \E d \in Command : OnAppShellExited(d)
  BY <1>3 DEF IInv, TypeOK, OnAppShellExited, ResultStates
<1>4. ASSUME NEW d \in Command, RemoveSession(d)
      PROVE  /\ currentState'[c] >= currentState[c]
             /\ currentState[c] = SUCCESS => currentState'[c] = SUCCESS
  BY <1>4 DEF IInv, TypeOK, AccountInv, RemoveSession, ResultStates,
     ShouldNotProcessResults, SetState, Accepts, commandVars
<1>5. CASE \E d \in Command : \/ ProcessExit(d) \/ SessionBegin(d)
                             \/ SessionExit(d) \/ RemoveFinishedSession(d)
  <2>1. UNCHANGED currentState \/ \E d \in Command : RemoveSession(d)
    BY <1>5, ZenonT(30) DEF ProcessExit, SessionBegin, SessionExit, RemoveFinishedSession, commandVars
  <2> QED BY <1>4, <2>1, SMTT(30) DEF IInv, TypeOK
<1>6. CASE AddTask \/ KillStep
  BY <1>6 DEF IInv, TypeOK, Busy, AccountInv, AddTask, KillStep, KillCheck,
     KillFail, KillCode, KillProcess, KillSignal, KillPending, KillGoes,
     Cancelled, ShouldNotProcessResults, SetState, Accepts, commandVars
<1>7. CASE ActionStopService \/ OnDestroy \/ OnCreate \/ Attach
  <2>1. UNCHANGED currentState \/ \E wants \in BOOLEAN : KillSessions(wants)
    BY <1>7, Zenon DEF ActionStopService, OnDestroy, OnCreate, Attach, KillAll, commandVars
  <2>2. currentState[c] \in 0 .. 4
    BY Zenon DEF IInv, TypeOK
  <2>3. ASSUME NEW wants \in BOOLEAN, KillSessions(wants)
        PROVE  \/ currentState'[c] = currentState[c]
               \/ currentState'[c] = FAILED /\ ~HasExecuted(c)
    BY <2>3, Zenon DEF KillSessions
  <2> QED BY <2>1, <2>2, <2>3 DEF HasExecuted
<1> QED BY <1>1, <1>2, <1>3, <1>5, <1>6, <1>7, ZenonT(30) DEF Next

\* "The state transition cannot go back or change if already at SUCCESS."
THEOREM ForwardOnly == Spec => StateGoesForward
<1> DEFINE Forward(c) == /\ currentState'[c] >= currentState[c]
                         /\ currentState[c] = SUCCESS => currentState'[c] = SUCCESS
<1>1. IInv /\ [Next]_vars => [\A c \in Command : Forward(c)]_vars
  BY NextForward, Zenon
<1> QED BY <1>1, Invariance, PTL DEF Spec, StateGoesForward

=============================================================================
