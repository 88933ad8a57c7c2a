CONSTANTS
  first = first
  other = other
  Tasks <- MCTasks
  Head = first
  Frames = {1, 2, 3, 4}
  Own <- MCOwn
  Spare = {3, 4}
  StackPtrs = {8, 12}
  Others = {2}
SPECIFICATION Spec
INVARIANTS
  IntTypeOK
  UserContext
  NothingLent
  SumOfCaller
  PrintsCallers
PROPERTIES
  CallReturns
  ImplementsSystemCalls
