SPECIFICATION Spec
CONSTANTS
  Items <- MCItems
  Files <- MCFiles
  Protected <- MCProtected
  Replaced <- MCReplaced
  Native <- MCNative
  MaxGeneration = 2
  Requests = {"rollback","upgrade","uninstall"}
  MaxRequests = 3
  MaxLosses = 1
  MaxIntrusions = 1
  Prompt = TRUE
INVARIANTS Honest Recoverable
PROPERTIES NotMistaken
CHECK_DEADLOCK FALSE
