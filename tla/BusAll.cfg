SPECIFICATION Spec
INVARIANTS GuardsHold MessagesReach
SYMMETRY Interchangeable
CHECK_DEADLOCK FALSE
CONSTANTS
  t1 = t1 a1 = a1 a2 = a2 c1 = c1 b1 = b1 b2 = b2
  None = None
  Teams = {t1}
  Agents = {a1, a2}
  Home <- MCHome
  Bodies = {b1, b2}
  Configs <- MCConfigs
  Minute = 1
  RepeatWindow = 2
  Hour = 3
  Procs = {p1, p2}
  Slugs = {c1}
  Parts = {"limits", "blocks", "threads", "channels"}
  Limits <- MCLimits
  Jobs <- MCJobs
  MaxCalls <- MCMaxCalls
  MaxAtOnce <- MCMaxAtOnce
  MaxNow = 3
