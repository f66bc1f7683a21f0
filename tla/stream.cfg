SPECIFICATION FairSpec
CONSTANTS
  Scripts <- MCScripts
  Cap = 2
  Socket = 1
  Idle = 2
INVARIANTS InOrder Complete NoLeak NeverStuck Inv
PROPERTIES Terminates RelaySpec
