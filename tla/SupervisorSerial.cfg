SPECIFICATION ObedientSpec
INVARIANTS NoOrphan
PROPERTIES StopStops ExitIsFinalised
CONSTANTS
Sessions = {s1, s2}
Stoppers = {t1}
Policies = {"never"}
DetectedStates = {"idle"}
RecordTimeout = FALSE
ExitStoreFails = TRUE
SerialCommands = TRUE
MaxFailures = 1
NoSession = NoSession
CHECK_DEADLOCK FALSE
