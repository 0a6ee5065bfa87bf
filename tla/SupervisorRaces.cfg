SPECIFICATION Spec
CONSTANTS
Sessions = {s1, s2}
Stoppers = {t1}
Policies = {"on_crash"}
DetectedStates = {"idle"}
RecordTimeout = FALSE
ExitStoreFails = FALSE
SerialCommands = FALSE
MaxFailures = 1
NoSession = NoSession
SYMMETRY SupervisorSymmetry
INVARIANTS TypeOK NoGhost OneRestartScheduled TokenMeansOpenSession
PROPERTIES LifeSpec
CHECK_DEADLOCK FALSE
