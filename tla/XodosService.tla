---------------------------- MODULE XodosService ----------------------------
(* The commands xodosService runs: the state of an ExecutionCommand, the     *)
(* background tasks (AppShell) with a thread each, the terminal sessions     *)
(* (xodosSession), the lists of xodosShellManager, and the results that go   *)
(* back to the plugin that asked for a command.                              *)
(*                                                                           *)
(* The main thread runs one handler at a time.  The thread of a task shares  *)
(* only its ExecutionCommand with it, whose methods are synchronized, so a   *)
(* handler is one action unless it uses the command of a task more than      *)
(* once: creating a task and killing one are split at each such use.  The    *)
(* lists are sets, for their order is never looked at; notifications and     *)
(* wake locks are left out, and the system may destroy the service at any    *)
(* time it is not bound.                                                     *)
EXTENDS Integers

CONSTANTS
  Command,    \* the execution commands
  Name,       \* shell names
  Kind,       \* what the intents may ask for
  NoCommand   \* the command of a main thread that is busy with none

ASSUME KindAssumption ==
  Kind \subseteq [runner : {"app-shell", "terminal-session"},
                  plugin : BOOLEAN,   \* isPluginExecutionCommand
                  pending : BOOLEAN,  \* resultConfig.isCommandWithPendingResult()
                  mode : {"always", "no-shell-with-name", "unsupported"},
                  shellName : Name]

ASSUME NoCommandAssumption == NoCommand \notin Command

VARIABLES
  kind,          \* [Command -> Kind], never changes
  received,      \* the commands created so far
  currentState,  \* ExecutionCommand.currentState
  exitCode,      \* resultData.exitCode
  processed,     \* processingResultsAlreadyCalled
  mTasks, mSessions, mPending,   \* the lists of xodosShellManager
  process,       \* the process of each command
  signalled,     \* the commands whose process was sent SIGKILL
  thread,        \* where the thread of each AppShell is
  posted,        \* runnables of onAppShellExited() in the handler's queue
  sent,          \* calls of sendCommandResultData() for each command
  mWantsToStop, service, attached,   \* attached: the activity's client is set
  main, mainCmd, todo   \* where the main thread is, in which command, and the
                        \* tasks killAllxodosExecutionCommands() has left

commandVars == <<currentState, exitCode, processed>>
listVars == <<mTasks, mSessions, mPending>>
processVars == <<process, signalled>>
serviceVars == <<mWantsToStop, service, attached>>
mainVars == <<main, mainCmd, todo>>
vars == <<kind, received, commandVars, listVars, processVars, thread, posted,
          sent, serviceVars, mainVars>>

-----------------------------------------------------------------------------
(* ExecutionCommand. *)

PRE_EXECUTION == 0
EXECUTING == 1
EXECUTED == 2
SUCCESS == 3
FAILED == 4

\* Mutant: any transition is allowed.
AcceptsAny(state, newState) == TRUE

\* Whether setState() returns true.
Accepts(state, newState) == newState >= state /\ state # SUCCESS

\* currentState after setState().
SetState(state, newState) == IF Accepts(state, newState) THEN newState ELSE state

\* Mutant: an executed command counts as executing.
HasExecutedLate(c) == currentState[c] > EXECUTED

HasExecuted(c) == currentState[c] >= EXECUTED

\* isPluginExecutionCommandWithPendingResult()
PendingResult(c) == kind[c].plugin /\ kind[c].pending

Init ==
  /\ kind \in [Command -> Kind]
  /\ received = {}
  /\ currentState = [c \in Command |-> PRE_EXECUTION]
  /\ exitCode = [c \in Command |-> "null"]
  /\ processed = [c \in Command |-> FALSE]
  /\ mTasks = {} /\ mSessions = {} /\ mPending = {}
  /\ process = [c \in Command |-> "none"]
  /\ signalled = {}
  /\ thread = [c \in Command |-> "none"]
  /\ posted = [c \in Command |-> 0]
  /\ sent = [c \in Command |-> 0]
  /\ mWantsToStop = FALSE /\ service = "up" /\ attached = FALSE
  /\ main = "idle" /\ mainCmd = NoCommand /\ todo = {}

-----------------------------------------------------------------------------
(* Results.  Both operators take the commands they are called for, as one    *)
(* handler may process several; a call for a command goes to ResultSender    *)
(* when its plugin expects the result, and may fail there.                   *)

\* sendCommandResultData() for the commands of S.
Send(S) == sent' = [c \in Command |-> IF c \in S /\ PendingResult(c) THEN sent[c] + 1 ELSE sent[c]]

\* The states processPluginExecutionCommandResult() may leave a command in:
\* SUCCESS, unless it has not executed, has failed, or its result cannot be sent.
ResultStates(c, state) ==
  IF state < EXECUTED \/ state = FAILED THEN {state}
  ELSE {SUCCESS} \cup (IF PendingResult(c) THEN {state} ELSE {})

\* shouldNotProcessResults(), without the assignment it makes.
ShouldNotProcessResults(c) == processed[c]

\* The runnables after processAppShellResult(): the first call for a command
\* posts onAppShellExited().
Posted(c) == [posted EXCEPT ![c] = IF ShouldNotProcessResults(c) THEN @ ELSE @ + 1]

-----------------------------------------------------------------------------
(* actionServiceExecute(): the intents. *)

Receive(c) ==
  /\ main = "idle" /\ service = "up"
  /\ c \notin received
  /\ received' = received \cup {c}
  /\ UNCHANGED <<kind, processVars, posted, serviceVars>>

\* processShellCreateMode() rejects the mode: the error is sent, and the command
\* stays in the list of pending ones.
Rejected(c) ==
  /\ Receive(c)
  /\ kind[c].plugin /\ kind[c].mode = "unsupported"
  /\ currentState' = [currentState EXCEPT ![c] = FAILED]
  /\ mPending' = mPending \cup {c}
  /\ Send({c})
  /\ UNCHANGED <<exitCode, processed, mTasks, mSessions, thread, mainVars>>

\* getxodosTaskForShellName() or getxodosSessionForShellName() finds one.
NameTaken(c) ==
  /\ kind[c].mode = "no-shell-with-name"
  /\ \E d \in IF kind[c].runner = "app-shell" THEN mTasks ELSE mSessions :
       kind[d].shellName = kind[c].shellName

\* A shell with the name exists: nothing is started.
Reused(c) ==
  /\ Receive(c)
  /\ kind[c].plugin
  /\ NameTaken(c)
  /\ mPending' = mPending \cup {c}
  /\ UNCHANGED <<commandVars, mTasks, mSessions, thread, sent, mainVars>>

\* The runner of the command is to be started.
Runs(c, runner) ==
  /\ kind[c].runner = runner
  /\ kind[c].mode # "unsupported"
  /\ ~NameTaken(c)

\* AppShell.execute() cannot start the process: processAppShellResult() is
\* called for the failed command and createxodosTask() sends the error.
StartFails(c) ==
  /\ Receive(c)
  /\ kind[c].plugin /\ Runs(c, "app-shell")
  /\ currentState' = [currentState EXCEPT ![c] = FAILED]
  /\ processed' = [processed EXCEPT ![c] = TRUE]
  /\ mPending' = mPending \cup {c}
  /\ Send({c})
  /\ UNCHANGED <<exitCode, mTasks, mSessions, thread, mainVars>>

\* AppShell.execute() starts the process and the thread; createxodosTask() is
\* still to add the task to the list.
StartTask(c) ==
  /\ main = "idle" /\ service = "up"
  /\ c \notin received
  /\ received' = received \cup {c}
  /\ kind[c].plugin /\ Runs(c, "app-shell")
  /\ currentState' = [currentState EXCEPT ![c] = EXECUTING]
  /\ mPending' = mPending \cup {c}
  /\ process' = [process EXCEPT ![c] = "running"]
  /\ thread' = [thread EXCEPT ![c] = "new"]
  /\ main' = "adding" /\ mainCmd' = c
  /\ UNCHANGED <<kind, exitCode, processed, mTasks, mSessions, signalled,
                 posted, sent, serviceVars, todo>>

\* The rest of createxodosTask().
AddTask ==
  /\ main = "adding"
  /\ mTasks' = mTasks \cup {mainCmd}
  /\ mPending' = mPending \ {mainCmd}
  /\ main' = "idle" /\ mainCmd' = NoCommand
  /\ UNCHANGED <<kind, received, commandVars, mSessions, processVars, thread,
                 posted, sent, serviceVars, todo>>

\* createxodosSession(), for an intent or for a user who opens a session; a
\* command of an intent is in the list of pending ones only meanwhile.
StartSession(c) ==
  /\ main = "idle" /\ service = "up"
  /\ c \notin received
  /\ received' = received \cup {c}
  /\ kind[c].plugin \/ attached
  /\ Runs(c, "terminal-session")
  /\ currentState' = [currentState EXCEPT ![c] = EXECUTING]
  /\ mSessions' = mSessions \cup {c}
  /\ process' = [process EXCEPT ![c] = "unstarted"]
  /\ UNCHANGED <<kind, exitCode, processed, mTasks, mPending, signalled, thread,
                 posted, sent, serviceVars, mainVars>>

-----------------------------------------------------------------------------
(* The process and the thread of a task: executeInner(). *)

\* The process ends, and with it the last one that holds its output streams.
ProcessExit(c) ==
  /\ process[c] = "running" /\ kind[c].runner = "app-shell"
  /\ process' = [process EXCEPT ![c] = "exited"]
  /\ UNCHANGED <<kind, received, commandVars, listVars, signalled, thread,
                 posted, sent, serviceVars, mainVars>>

ThreadGoes(c, from, to) ==
  /\ thread[c] = from
  /\ thread' = [thread EXCEPT ![c] = to]
  /\ UNCHANGED <<kind, received, listVars, process, sent, serviceVars, mainVars>>

\* resultData.exitCode = null
ThreadBegin(c) ==
  /\ ThreadGoes(c, "new", "started")
  /\ exitCode' = [exitCode EXCEPT ![c] = "null"]
  /\ UNCHANGED <<currentState, processed, signalled, posted>>

\* Writing the input fails, and not because the pipe is broken.
ThreadStdinFails(c) ==
  /\ ThreadGoes(c, "started", "failed")
  /\ currentState' = [currentState EXCEPT ![c] = SetState(@, FAILED)]
  /\ UNCHANGED <<exitCode, processed, signalled, posted>>

ThreadFailedCode(c) ==
  /\ ThreadGoes(c, "failed", "processFailed")
  /\ exitCode' = [exitCode EXCEPT ![c] = "1"]
  /\ UNCHANGED <<currentState, processed, signalled, posted>>

\* waitFor(), the joins of the stream readers, and isStateFailed().
ThreadCheck(c) ==
  /\ process[c] = "exited"
  /\ ThreadGoes(c, "started", IF currentState[c] = FAILED THEN "done" ELSE "checked")
  /\ UNCHANGED <<commandVars, signalled, posted>>

\* Mutant: the exit code is not stored.
StoredCodeNot(c) == exitCode[c]

\* The value resultData.exitCode is given when the process has finished.
StoredCode(c) == "status"

ThreadCode(c) ==
  /\ ThreadGoes(c, "checked", "coded")
  /\ exitCode' = [exitCode EXCEPT ![c] = StoredCode(c)]
  /\ UNCHANGED <<currentState, processed, signalled, posted>>

\* setState(EXECUTED)
ThreadExecuted(c) ==
  /\ ThreadGoes(c, "coded", IF Accepts(currentState[c], EXECUTED) THEN "process" ELSE "done")
  /\ currentState' = [currentState EXCEPT ![c] = SetState(@, EXECUTED)]
  /\ UNCHANGED <<exitCode, processed, signalled, posted>>

\* processAppShellResult(); a thread whose input failed then kills the process.
ThreadProcess(c) ==
  /\ thread[c] \in {"process", "processFailed"}
  /\ ThreadGoes(c, thread[c], "done")
  /\ processed' = [processed EXCEPT ![c] = TRUE]
  /\ posted' = Posted(c)
  /\ signalled' = IF thread[c] = "processFailed" THEN signalled \cup {c} ELSE signalled
  /\ UNCHANGED <<currentState, exitCode>>

ThreadStep(c) ==
  \/ ThreadBegin(c) \/ ThreadStdinFails(c) \/ ThreadFailedCode(c)
  \/ ThreadCheck(c) \/ ThreadCode(c) \/ ThreadExecuted(c) \/ ThreadProcess(c)

\* Mutant: the task stays in the list.
WithoutTaskNot(c) == mTasks

\* mxodosTasks.remove()
WithoutTask(c) == mTasks \ {c}

\* The runnable onAppShellExited() posts.
OnAppShellExited(c) ==
  /\ main = "idle"
  /\ posted[c] > 0
  /\ posted' = [posted EXCEPT ![c] = @ - 1]
  /\ \E s \in ResultStates(c, currentState[c]) : currentState' = [currentState EXCEPT ![c] = s]
  /\ Send({d \in {c} : HasExecuted(d)})
  /\ mTasks' = WithoutTask(c)
  /\ UNCHANGED <<kind, received, exitCode, processed, mSessions, mPending,
                 processVars, thread, serviceVars, mainVars>>

-----------------------------------------------------------------------------
(* The sessions, which only the main thread uses. *)

\* The activity shows the session, and its size starts the process.
SessionBegin(c) ==
  /\ main = "idle" /\ attached
  /\ c \in mSessions /\ process[c] = "unstarted"
  /\ process' = [process EXCEPT ![c] = "running"]
  /\ UNCHANGED <<kind, received, commandVars, listVars, signalled, thread,
                 posted, sent, serviceVars, mainVars>>

\* removexodosSession(), for a session whose process has ended: finish() and, the
\* first time, onxodosSessionExited().
RemoveSession(c) ==
  IF c \notin mSessions \/ currentState[c] = FAILED
    THEN UNCHANGED <<commandVars, mSessions, sent>>
    ELSE /\ exitCode' = [exitCode EXCEPT ![c] = "status"]
         /\ processed' = [processed EXCEPT ![c] = TRUE]
         /\ IF ShouldNotProcessResults(c)
              THEN /\ currentState' = [currentState EXCEPT ![c] = SetState(@, EXECUTED)]
                   /\ UNCHANGED <<mSessions, sent>>
              ELSE /\ \E s \in IF kind[c].plugin THEN ResultStates(c, EXECUTED)
                                                 ELSE {EXECUTED} :
                        currentState' = [currentState EXCEPT ![c] = s]
                   /\ Send({c})
                   /\ mSessions' = mSessions \ {c}

\* MSG_PROCESS_EXITED: onSessionFinished() of the activity's client removes the
\* session at once if a result is pending or the exit code is 0 or 130.
SessionExit(c) ==
  /\ main = "idle"
  /\ process[c] = "running" /\ kind[c].runner = "terminal-session"
  /\ process' = [process EXCEPT ![c] = "exited"]
  /\ \E closes \in IF PendingResult(c) THEN {TRUE} ELSE BOOLEAN :
       IF attached /\ ~mWantsToStop /\ closes
         THEN RemoveSession(c)
         ELSE UNCHANGED <<commandVars, mSessions, sent>>
  /\ UNCHANGED <<kind, received, mTasks, mPending, signalled, thread, posted,
                 serviceVars, mainVars>>

\* The user presses enter in a session whose process has ended.
RemoveFinishedSession(c) ==
  /\ main = "idle" /\ attached
  /\ c \in mSessions /\ process[c] = "exited"
  /\ RemoveSession(c)
  /\ UNCHANGED <<kind, received, mTasks, mPending, processVars, thread, posted,
                 serviceVars, mainVars>>

-----------------------------------------------------------------------------
(* killAllxodosExecutionCommands() *)

\* The loop over the sessions.  A session is killed unless it has executed; its
\* result is processed if the user exits or a plugin expects it.
KillSessions(wants) ==
  LET killed    == {c \in mSessions : ~HasExecuted(c)}
      processes == {c \in killed : wants \/ PendingResult(c)}
      exited    == {c \in processes : ~ShouldNotProcessResults(c)}
  IN  /\ currentState' = [c \in Command |-> IF c \in killed THEN FAILED ELSE currentState[c]]
      /\ exitCode' = [c \in Command |-> IF c \in processes THEN "137" ELSE exitCode[c]]
      /\ processed' = [c \in Command |-> processed[c] \/ c \in processes]
      /\ Send(exited)
      /\ signalled' = signalled \cup {c \in killed : process[c] = "running"}
      /\ mSessions' = {c \in mSessions \ exited : wants \/ PendingResult(c)}

\* The loops over the sessions and the tasks; the tasks that have a pending
\* result are left to kill, the others are only forgotten.
KillAll(wants) ==
  /\ KillSessions(wants)
  /\ mTasks' = {c \in mTasks : PendingResult(c)}
  /\ todo' = mTasks'
  /\ main' = "killing" /\ mainCmd' = NoCommand

\* ACTION_STOP_SERVICE
ActionStopService ==
  /\ main = "idle" /\ service = "up"
  /\ mWantsToStop' = TRUE
  /\ KillAll(TRUE)
  /\ UNCHANGED <<kind, received, mPending, process, thread, posted, service, attached>>

\* onDestroy()
OnDestroy ==
  /\ main = "idle" /\ service = "up" /\ ~attached
  /\ service' = "down"
  /\ IF mWantsToStop
       THEN UNCHANGED <<commandVars, mSessions, mTasks, signalled, sent, mainVars>>
       ELSE KillAll(FALSE)
  /\ UNCHANGED <<kind, received, mPending, process, thread, posted, mWantsToStop, attached>>

KillGoes(from, to) ==
  /\ main = from
  /\ main' = to
  /\ UNCHANGED <<kind, received, listVars, process, thread, serviceVars>>

\* killIfExecuting(): hasExecuted()
KillCheck(c) ==
  /\ c \in todo
  /\ KillGoes("killing", IF HasExecuted(c) THEN "killing" ELSE "failing")
  /\ todo' = todo \ {c}
  /\ mainCmd' = IF HasExecuted(c) THEN NoCommand ELSE c
  /\ UNCHANGED <<commandVars, signalled, posted, sent>>

\* setStateFailed()
KillFail ==
  /\ KillGoes("failing", IF Accepts(currentState[mainCmd], FAILED) THEN "coding" ELSE "signalling")
  /\ currentState' = [currentState EXCEPT ![mainCmd] = SetState(@, FAILED)]
  /\ UNCHANGED <<exitCode, processed, signalled, posted, sent, mainCmd, todo>>

KillCode ==
  /\ KillGoes("coding", "processing")
  /\ exitCode' = [exitCode EXCEPT ![mainCmd] = "137"]
  /\ UNCHANGED <<currentState, processed, signalled, posted, sent, mainCmd, todo>>

\* processAppShellResult()
KillProcess ==
  /\ KillGoes("processing", "signalling")
  /\ processed' = [processed EXCEPT ![mainCmd] = TRUE]
  /\ posted' = Posted(mainCmd)
  /\ UNCHANGED <<currentState, exitCode, signalled, sent, mainCmd, todo>>

\* "if (mExecutionCommand.isExecuting()) kill()"
KillSignal ==
  /\ KillGoes("signalling", "killing")
  /\ signalled' = IF currentState[mainCmd] = EXECUTING THEN signalled \cup {mainCmd} ELSE signalled
  /\ mainCmd' = NoCommand
  /\ UNCHANGED <<commandVars, posted, sent, todo>>

\* Mutant: the pending commands are not told.
CancelledNone == {}

\* Mutant: those whose error was sent are told again.
CancelledAgain == {c \in mPending : PendingResult(c)}

\* The pending commands processPluginExecutionCommandResult() is called for.
Cancelled == {c \in mPending : ~ShouldNotProcessResults(c) /\ PendingResult(c)}

\* The loop over the pending commands, and the end of the handler.
KillPending ==
  /\ todo = {}
  /\ KillGoes("killing", "idle")
  /\ processed' = [c \in Command |-> processed[c] \/ c \in mPending]
  /\ currentState' = [c \in Command |-> IF c \in Cancelled THEN FAILED ELSE currentState[c]]
  /\ Send(Cancelled)
  /\ UNCHANGED <<exitCode, signalled, posted, mainCmd, todo>>

KillStep ==
  \/ KillFail \/ KillCode \/ KillProcess \/ KillSignal \/ KillPending
  \/ \E c \in Command : KillCheck(c)

-----------------------------------------------------------------------------
(* The service and the activity. *)

\* A new instance of the service; the lists are those of xodosShellManager.
OnCreate ==
  /\ main = "idle" /\ service = "down"
  /\ service' = "up" /\ mWantsToStop' = FALSE
  /\ UNCHANGED <<kind, received, commandVars, listVars, processVars, thread,
                 posted, sent, attached, mainVars>>

\* setxodosTerminalSessionClient() and unsetxodosTerminalSessionClient()
Attach ==
  /\ main = "idle" /\ service = "up"
  /\ attached' = ~attached
  /\ UNCHANGED <<kind, received, commandVars, listVars, processVars, thread,
                 posted, sent, mWantsToStop, service, mainVars>>

Next ==
  \/ \E c \in Command :
       \/ Rejected(c) \/ Reused(c) \/ StartFails(c) \/ StartTask(c) \/ StartSession(c)
       \/ ProcessExit(c) \/ ThreadStep(c) \/ OnAppShellExited(c)
       \/ SessionBegin(c) \/ SessionExit(c) \/ RemoveFinishedSession(c)
  \/ AddTask \/ KillStep
  \/ ActionStopService \/ OnDestroy \/ OnCreate \/ Attach

Spec == Init /\ [][Next]_vars

\* The threads run, the main thread finishes its handlers, and its queue is
\* first-in first-out, so a posted runnable is not overtaken for ever.
Fairness ==
  /\ WF_vars(AddTask) /\ WF_vars(KillStep)
  /\ \A c \in Command : WF_vars(ThreadStep(c)) /\ SF_vars(OnAppShellExited(c))

LiveSpec == Spec /\ Fairness

-----------------------------------------------------------------------------
(* Properties. *)

Thread == {"none", "new", "started", "checked", "coded", "process", "failed",
           "processFailed", "done"}

\* The lists, commands and threads keep their types; the runnable that removes a
\* task is in the handler's queue at most once (posted).
TypeOK ==
  /\ kind \in [Command -> Kind]
  /\ received \subseteq Command
  /\ currentState \in [Command -> 0 .. 4]
  /\ exitCode \in [Command -> {"null", "status", "137", "1"}]
  /\ processed \in [Command -> BOOLEAN]
  /\ mTasks \subseteq Command /\ mSessions \subseteq Command /\ mPending \subseteq Command
  /\ process \in [Command -> {"none", "unstarted", "running", "exited"}]
  /\ signalled \subseteq Command
  /\ thread \in [Command -> Thread]
  /\ posted \in [Command -> 0 .. 1]
  /\ sent \in [Command -> Nat]
  /\ mWantsToStop \in BOOLEAN /\ service \in {"up", "down"} /\ attached \in BOOLEAN
  /\ main \in {"idle", "adding", "killing", "failing", "coding", "processing", "signalling"}
  /\ mainCmd \in Command \cup {NoCommand}
  /\ todo \subseteq Command

\* A command that was not rejected has its result sent at most once, although
\* its thread, a kill of it and the cancelling of pending commands may all
\* process it.
OneResult == \A c \in Command : kind[c].mode # "unsupported" => sent[c] <= 1

\* Between handlers, a listed task still has a thread that will process its
\* result or a runnable that will remove it: none stays listed for ever, which
\* would keep the service in the foreground.
ListedTasksEnd ==
  main = "idle" => \A c \in mTasks : thread[c] # "done" \/ posted[c] > 0

\* A result that is not an error carries the exit status of the process: the
\* exit codes of a failed start or a kill are stored for failed commands only.
SuccessHasStatus ==
  \A c \in Command : currentState[c] \in {EXECUTED, SUCCESS} => exitCode[c] = "status"

\* "The state transition cannot go back or change if already at SUCCESS", whoever
\* of the two threads makes it.
StateGoesForward ==
  [][\A c \in Command : /\ currentState'[c] >= currentState[c]
                        /\ currentState[c] = SUCCESS => currentState'[c] = SUCCESS]_vars

\* A plugin gets the result of a task once its process has ended.
ResultIsSent ==
  \A c \in Command :
    (process[c] = "exited" /\ thread[c] # "none" /\ PendingResult(c)) ~> (sent[c] > 0)

\* "notify the pending intent creators that execution was cancelled": when the
\* service is stopped or destroyed, whoever waits for a result gets one.
StopAnswers ==
  \A c \in Command :
    (main = "killing" /\ c \in todo \cup mPending /\ PendingResult(c)) ~> (sent[c] > 0)

\* "The pending plugin ExecutionCommands that have yet to be processed by this
\* service": no plugin gets two results of one command.
AnsweredOnce == \A c \in Command : sent[c] <= 1

\* "Kill this AppShell by sending a SIGILL to its mProcess if its still
\* executing": a task that is killed while its process runs is sent a signal.
KillSignalsProcess ==
  [][(main = "signalling" /\ main' # main /\ process[mainCmd] = "running")
       => mainCmd \in signalled']_vars
=============================================================================
