\* The user stops clicking in the end (MaxClicks, MaxInputs): a page may rest.
SPECIFICATION TabSpec
CONSTANTS
  n1 = n1
  n2 = n2
  u1 = u1
  word = word
  plain = plain
  a = a
  b = b
  t1 = t1
  t2 = t2
  ticket = ticket
  None = None
  Items <- MCItems
  Titles <- MCTitles
  Filters = {"all", "NOTICE", "search"}
  Matches <- MCMatches
  AllItems = "all"
  PageSize = 1
  MaxClicks = 4
  MaxFailures = 1
  Characters <- MCCharacters
  Tasks <- MCTasks
  Ticket = ticket
  MaxStacks = 1
  Estimate <- MCEstimate
  Budgets <- MCBudgets
  MaxInputs = 3
  MaxPeriod = 1
SYMMETRY Same
INVARIANTS
  ShowsTheChosen
  PageExists
  TimedForTheSelected
  ShownIsStored
  RecommendsTheMost
CHECK_DEADLOCK FALSE
