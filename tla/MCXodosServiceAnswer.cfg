CONSTANTS
  Command = {c1}
  Name <- Names
  Kind <- WaitedFor
  NoCommand = NoCommand
SPECIFICATION Spec
INVARIANT AnsweredOnce
