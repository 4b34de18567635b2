SPECIFICATION FairSpec
CONSTANTS
  s1 = s1
  s2 = s2
  Submitters = {s1, s2}
  Program <- MCTwoPairs
  NumQueues = 2
  NumWorkers = 1
  MaxInflight = 2
  WaitOn = {}
  Closes = FALSE
CHECK_DEADLOCK FALSE
PROPERTIES BlockedSubmitResumes
