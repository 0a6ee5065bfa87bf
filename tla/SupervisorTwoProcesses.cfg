SPECIFICATION Spec
CONSTANTS
Sessions = {s1, s2, s3}
Stoppers = {t1}
Policies = {"on_crash"}
DetectedStates = {"idle"}
RecordTimeout = FALSE
ExitStoreFails = FALSE
SerialCommands = TRUE
MaxFailures = 1
NoSession = NoSession
INVARIANTS OneProcess
CHECK_DEADLOCK FALSE
