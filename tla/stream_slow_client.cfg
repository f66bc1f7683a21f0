SPECIFICATION PromptSpec
CONSTANTS
  Scripts <- MCScripts
  Cap = 1
  Socket = 1
  Idle = 2
PROPERTIES ClosedOnlyWhenIdle
