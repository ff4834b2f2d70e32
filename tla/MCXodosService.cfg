CONSTANTS
  Command = {c1, c2}
  Name <- Names
  Kind <- AllKinds
  NoCommand = NoCommand
SPECIFICATION MCLiveSpec
INVARIANTS OneResult ListedTasksEnd SuccessHasStatus
PROPERTIES StateGoesForward ResultIsSent StopAnswers
