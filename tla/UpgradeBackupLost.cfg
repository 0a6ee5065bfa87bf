SPECIFICATION UpgradeAlone
INVARIANT DataIsSomewhere
CHECK_DEADLOCK FALSE
CONSTANTS
  Order <- MCOrder
  Autostart = {"a", "b"}
  Restarted = {"a"}
  TeamScenes <- MCTeamScenes
  Founders <- MCFounders
  MaxAgents = 4
  MaxSuffix = 5
  ProposalScenes <- MCProposalScenes
  CardIds <- MCCardIds
  CardsAtFirst <- MCCardsAtFirst
  CardScenes <- MCCardScenes
  Attempts = 2
  BoardColumns <- MCBoardColumns
  BoardRules <- MCBoardRules
  BoardCards <- MCBoardCards
  SetupScenes <- MCSetupScenes
  MaxCrashes = 1
  NotesAtFirst <- MCNotesAtFirst
  NoteScenes <- MCNoteScenes
  NoteMax = 4
  NotesMax = 1
  Handles = {"x", "y", "z"}
  Skills = {"s", "t"}
  NativeScenes <- MCNativeScenes
  MaxFailures = 1
  SkillFolders <- LibFolders
  SkillNames <- LibNames
  Builtin <- LibBuiltin
  SkillsAtFirst <- LibFirst
  MaxSyncs = 1
  LibraryScenes <- LibraryTales
  Benches = {"x", "y"}
  BenchScenes <- BenchTales
  Surroundings <- BenchSettings
  MaxBroken = 1
  Apps = {1, 2}
  Tokens = {"t1", "t2"}
  IpcScenes <- IpcTales
  MaxAppCrashes = 1
  Records = {r1, r2}
  Versions = {1, 2, 3}
  UpgradeScenes <- UpgradeTales
  Tales <- LogTales
  SessionsKept = 2
  SecretSlots = {"k"}
  SecretValues = {"v1", "v2"}
  ShownTeams = {"t"}
  RunningAgents = {"a"}
  SettingsScenes <- PreferenceTales
  AdapterIds = {"a", "b"}
  BuiltinAdapters <- BuiltinsOfScene
  RuntimeScenes <- RuntimeTales
