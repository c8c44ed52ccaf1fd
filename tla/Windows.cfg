SPECIFICATION Spec
CONSTANTS
  a = a
  b = b
  t1 = t1
  None = None
  Characters <- MCCharacters
  First = a
  Tasks <- MCTasks
  MaxStacks = 1
  MaxClicks = 2
  MaxFailures = 1
INVARIANT ShownIsStored
PROPERTY WindowsFollow
