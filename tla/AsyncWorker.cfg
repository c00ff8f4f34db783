CONSTANTS
  c1 = c1
  c2 = c2
  h1 = h1
  Clients <- MCClients
  Handlers <- MCHandlers
  Worker = w
  NoThread = none
  MaxDepth = 2
  MaxTasks = 2
  MaxCalls = 3
  MaxResets = 1
  MaxFrames = 2
SPECIFICATION FairSpec
\* A thread that is stuck violates one of the leads-to properties.
CHECK_DEADLOCK FALSE
INVARIANTS NoStaleExecution DrainedBeforeTeardown QuietAtDeath ErrorsExactlyOnce IInv
PROPERTIES WaitIsABoundary ImplementsContract WaitsReturn TasksSettle DestructionCompletes
