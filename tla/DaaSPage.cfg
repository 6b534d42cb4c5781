SPECIFICATION MCSpec
CONSTANTS
  Diagnosers = {"cpu"}
  MaxCalls = 2
  Sessions = {"s1"}
  MaxLaunch = 2
  MaxPending = 1
  MaxFiles = 2
  MaxHandlers = 2
INVARIANTS
  OnPage
  SubmittedOnce
  OneListShown
PROPERTIES
  ImplementsWizard
  LaunchedIsAsked
  ExpandedShowsAll
  ListsSettle
  WaysOut
CHECK_DEADLOCK FALSE
