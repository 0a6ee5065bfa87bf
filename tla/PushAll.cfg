SPECIFICATION FairSpec
INVARIANTS DeliveryIsTrue
PROPERTIES PushReaches
CONSTANTS
Messages = {m1, m2}
Readers = {r1}
HubCapacity = 1
Faults = {"stop", "write", "skip", "lag"}
CHECK_DEADLOCK FALSE
