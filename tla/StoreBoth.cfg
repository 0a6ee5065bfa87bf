SPECIFICATION Spec
INVARIANTS StoresAreOne
CHECK_DEADLOCK FALSE
CONSTANTS
  t1 = t1 t2 = t2 a1 = a1 a2 = a2 b1 = b1 c1 = c1 c2 = c2 o1 = o1 o2 = o2 o3 = o3
  k1 = k1 k2 = k2 n1 = n1 n2 = n2 p1 = p1
  None = None
  Teams <- MCTeams
  Agents <- MCAgents
  Channels <- MCChannels
  Columns <- MCColumns
  Cards <- MCCards
  Comments <- MCComments
  Proposals <- MCProposals
  Sessions <- MCSessions
  Messages <- MCMessages
  Skills = {"sa", "sb"}
  Handles = {"ha", "hb"}
  Slugs = {sl1, sl2}
  Home <- MCHome
  OnCard <- MCOnCard
  SessionsKept = 1
  MaxVersion = 2
  Groups = {"team", "session", "skill", "channel", "message", "columns", "cards", "history", "proposal"}
  Cast <- MCCast
  MoveToNew = FALSE
