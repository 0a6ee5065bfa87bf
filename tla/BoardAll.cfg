SPECIFICATION FairSpec
PROPERTIES EditsAreWhole MovesFit AutomationsEnd
CONSTANTS
Agents = {a1, a2}
Human = Human
Callers = {a1, a2}
System = System
NoAgent = NoAgent
Cards = {c1, c2}
NoCard = NoCard
Oldest = c1
Columns = {"todo", "doing", "blocked", "done"}
NoColumn = NoColumn
Kind <- SmallKind
Position <- SmallPosition
WipLimit <- Unlimited
WipPerAgent <- OneAtWork
NoLimit = NoLimit
Approval = {"done"}
Differ = {"done"}
Commands = {"done"}
RuleSets <- TwoTeams
WriteAttempts = 2
MaxDepth = 2
MaxCalls = 2
CHECK_DEADLOCK FALSE
