SPECIFICATION MCSpec
INVARIANTS DetectorIsExact TwiceOnlyWhenLoose
PROPERTIES AgentSettles RunsEnd
CHECK_DEADLOCK FALSE
CONSTANTS
  MaxSessions = 2
  Budgets <- MCBudgets
  Rules <- MCRules
  Screens <- MCScreens
  TailLines = 2
  Adapters <- MCAdapters
  McpBoot = TRUE
  Quiet = 1
  BootTimeout = 2
  LongSilence = 3
  Commands <- RunCommands
  ProjectFiles <- Files
  RunScenes <- RunTales
  MaxRunCrashes = 1
  RunSlots = {1, 2}
  MaxSleeps = 1
