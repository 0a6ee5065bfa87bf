SPECIFICATION FairSpec
INVARIANTS TypeOK NoDeadlock EdgesAreWaits
PROPERTIES CallsAreAnswered
CONSTANTS
Agents = {a, b}
NoAgent = NoAgent
Calls = {c1, c2}
Replies = {r1}
Waiters = {w1}
Quitters = {c1}
HubCapacity = 1
NoMessage = NoMessage
CHECK_DEADLOCK FALSE
