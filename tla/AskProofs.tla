------------------------------ MODULE AskProofs ------------------------------
(***************************************************************************)
(* What holds of Ask for every set of agents, finite or not, every finite  *)
(* set of questions and every capacity of the hub.                         *)
(***************************************************************************)
EXTENDS Ask, FiniteSetTheorems, TLAPS

-----------------------------------------------------------------------------
(* Type correctness                                                          *)

\* What a receiver gets is a message, and what it skips leaves it on the hub.
LEMMA ReceiverType ==
    ASSUME TypeOK, NEW x \in Tasks
    PROVE  /\ Present(x) => Heard(x) \in Messages
           /\ Lagged(x) => Len(published) - HubCapacity \in Nat
           /\ Len(published) \in Nat
<1>1. /\ published \in Seq(Messages) /\ cursor[x] \in Nat
      /\ HubCapacity \in Nat \ {0}
  BY AskAssumption DEF TypeOK
<1>2. Len(published) \in Nat
  BY <1>1
<1>3. Present(x) => cursor[x] + 1 \in 1..Len(published)
  BY <1>1, <1>2 DEF Present
<1>4. \A i \in 1..Len(published) : published[i] \in Messages
  BY <1>1
<1>5. Lagged(x) => Len(published) - HubCapacity \in Nat
  BY <1>1, <1>2 DEF Lagged
<1> QED
  BY <1>2, <1>3, <1>4, <1>5 DEF Heard

\* The graph counts.
LEMMA WithoutType ==
    ASSUME NEW w \in [Agents \X Agents -> Nat], NEW e
    PROVE  Without(w, e) \in [Agents \X Agents -> Nat]
<1>1. ASSUME NEW D, NEW f \in [D -> Nat]
      PROVE  [f EXCEPT ![e] = IF @ > 0 THEN @ - 1 ELSE 0] \in [D -> Nat]
  <2>1. \A d \in D : f[d] \in Nat
    OBVIOUS
  <2>2. e \in D => (IF f[e] > 0 THEN f[e] - 1 ELSE 0) \in Nat
    BY <2>1
  <2> QED
    BY <2>2
<1> QED
  BY <1>1 DEF Without

\* A question never is an answer or a wait.
LEMMA Kinds == /\ Calls \subseteq Tasks /\ Waiters \subseteq Tasks
               /\ Calls \subseteq Messages /\ Replies \subseteq Messages
               /\ Calls \cap Replies = {} /\ Calls \cap Waiters = {}
BY AskAssumption DEF Tasks, Messages

\* A step of ask keeps the types.
LEMMA AskStepType ==
    ASSUME TypeOK, NEW c \in Calls,
           \/ \E a, b \in Agents : Register(c, a, b) \/ Refuse(c, a, b)
           \/ AskStep(c) \/ AskFails(c) \/ AskTimesOut(c)
    PROVE  TypeOK'
<1> USE Kinds, WithoutType
        DEF TypeOK, Goto, AskSteps, InGraph, WaitSteps, graphVars, busVars
<1>1. \A a, b \in Agents : Register(c, a, b) => TypeOK'
  BY ReceiverType DEF Register
<1>2. \A a, b \in Agents : Refuse(c, a, b) => TypeOK'
  BY DEF Refuse
<1>3. Send(c) => TypeOK'
  BY DEF Send
<1>4. Publish(c) => TypeOK'
  BY DEF Publish
<1>5. ASSUME NEW step \in {"marking", "done"}, NEW m \in Messages \cup {NoMessage},
             Leave(c, step, m), UNCHANGED <<from, to, busVars, gone>>
      PROVE  TypeOK'
  BY <1>5 DEF Leave, Drop
<1>6. HearAnswer(c) => TypeOK'
  BY <1>5, ReceiverType DEF HearAnswer
<1>7. HearOther(c) => TypeOK'
  BY DEF HearOther, Consume
<1>8. HearLag(c) => TypeOK'
  BY ReceiverType DEF HearLag, LagRemedied, Skip
<1>9. RereadFinds(c) => TypeOK'
  BY <1>5 DEF RereadFinds, Stored
<1>10. RereadMisses(c) => TypeOK'
  BY DEF RereadMisses
<1>11. AskFails(c) \/ AskTimesOut(c) => TypeOK'
  BY <1>5 DEF AskFails, AskTimesOut
<1> QED
  BY <1>1, <1>2, <1>3, <1>4, <1>6, <1>7, <1>8, <1>9, <1>10, <1>11 DEF AskStep

\* So does every other step.
LEMMA OtherStepType ==
    ASSUME TypeOK,
           \/ \E c \in Calls, r \in Replies : Reply(r, c)
           \/ \E r \in Replies : ReplyPublish(r) \/ ReplyMark(r)
           \/ \E w \in Waiters : \/ WaitStep(w) \/ WaitTimesOut(w)
                                 \/ \E a \in Agents : Wait(w, a)
           \/ \E x \in Tasks : MarkResult(x) \/ ClientLeaves(x)
    PROVE  TypeOK'
<1> USE Kinds DEF TypeOK, Goto, AskSteps, InGraph, WaitSteps, graphVars, busVars
<1>1. ASSUME NEW c \in Calls, NEW r \in Replies, Reply(r, c) PROVE TypeOK'
  BY <1>1 DEF Reply
<1>2. ASSUME NEW r \in Replies, ReplyPublish(r) PROVE TypeOK'
  BY <1>2 DEF ReplyPublish
<1>3. ASSUME NEW r \in Replies, ReplyMark(r) PROVE TypeOK'
  BY <1>3 DEF ReplyMark
<1>4. ASSUME NEW w \in Waiters, NEW a \in Agents, Wait(w, a) PROVE TypeOK'
  BY <1>4, ReceiverType DEF Wait
<1>5. ASSUME NEW w \in Waiters, LookFinds(w) PROVE TypeOK'
  BY <1>5 DEF LookFinds, Drop, Unread
<1>6. ASSUME NEW w \in Waiters, LookMisses(w) PROVE TypeOK'
  BY <1>6 DEF LookMisses
<1>7. ASSUME NEW w \in Waiters, Hear(w) PROVE TypeOK'
  <2>1. cursor' \in [Tasks -> Nat]
    BY <1>7, ReceiverType DEF Hear, Skip, Consume
  <2> QED
    BY <1>7, <2>1 DEF Hear
<1>8. ASSUME NEW w \in Waiters, WaitTimesOut(w) PROVE TypeOK'
  BY <1>8 DEF WaitTimesOut, Drop
<1>9. ASSUME NEW x \in Tasks, MarkResult(x) PROVE TypeOK'
  BY <1>9 DEF MarkResult
<1>10. ASSUME NEW x \in Tasks, ClientLeaves(x) PROVE TypeOK'
  BY <1>10 DEF ClientLeaves
<1> QED
  BY <1>1, <1>2, <1>3, <1>4, <1>5, <1>6, <1>7, <1>8, <1>9, <1>10 DEF WaitStep

LEMMA InitType == Init => TypeOK
BY AskAssumption, Kinds DEF Init, TypeOK, AskSteps, WaitSteps, InGraph

LEMMA StepType == TypeOK /\ [Next]_vars => TypeOK'
<1>1. TypeOK /\ Next => TypeOK'
  BY AskStepType, OtherStepType DEF Next
<1>2. TypeOK /\ UNCHANGED vars => TypeOK'
  BY DEF TypeOK, vars, graphVars, busVars
<1> QED
  BY <1>1, <1>2

\* Every variable of the bus keeps its type; in particular no count of the
\* graph is ever negative.
THEOREM TypeCorrect == Spec => []TypeOK
BY InitType, StepType, PTL DEF Spec

-----------------------------------------------------------------------------
(* The graph and the deadlocks.  NoDeadlock alone is not inductive: what     *)
(* Register looks at is the graph, so the graph must be the questions.       *)

\* The caller and the recipient of a question under way are known.
BlockedKnown == \A c \in Calls : Blocked(c) => Edge(c) \in Agents \X Agents

AskInv == TypeOK /\ BlockedKnown /\ EdgesAreWaits /\ NoDeadlock

\* The questions behind an edge.
Held(e) == {c \in Calls : Blocked(c) /\ Edge(c) = e}

LEMMA HeldFinite == \A e : IsFiniteSet(Held(e))
BY AskAssumption, FS_Subset DEF Held

\* A step that neither blocks nor frees a caller of ask.
Aside == /\ UNCHANGED waits
         /\ \A c \in Calls : /\ Blocked(c)' = Blocked(c)
                             /\ UNCHANGED <<from[c], to[c]>>

LEMMA AsideKeeps ==
    ASSUME BlockedKnown, EdgesAreWaits, NoDeadlock, Aside
    PROVE  BlockedKnown' /\ EdgesAreWaits' /\ NoDeadlock'
<1>1. \A e : Held(e)' = Held(e)
  BY DEF Aside, Held, Edge
<1>2. EdgesAreWaits'
  BY <1>1 DEF EdgesAreWaits, Aside, Held
<1>3. NoDeadlock'
  BY DEF NoDeadlock, Aside
<1>4. BlockedKnown'
  BY DEF BlockedKnown, Aside, Edge
<1> QED
  BY <1>2, <1>3, <1>4

\* Leaving frees one caller and takes one edge away.
LEMMA LeaveKeeps ==
    ASSUME TypeOK, BlockedKnown, EdgesAreWaits, NoDeadlock,
           NEW c \in Calls, NEW step \in {"marking", "done"}, NEW m,
           Blocked(c), Leave(c, step, m), UNCHANGED <<from, to>>
    PROVE  BlockedKnown' /\ EdgesAreWaits' /\ NoDeadlock'
<1>1. \A d \in Calls : Blocked(d)' <=> Blocked(d) /\ d # c
  BY Kinds DEF Leave, Goto, Blocked, InGraph, TypeOK
<1>2. /\ c \in Held(Edge(c))
      /\ \A e : Held(e)' = IF e = Edge(c) THEN Held(e) \ {c} ELSE Held(e)
  BY <1>1 DEF Held, Edge
<1>3. Cardinality(Held(Edge(c)) \ {c}) = Cardinality(Held(Edge(c))) - 1
  BY <1>2, HeldFinite, FS_RemoveElement
<1>4. waits' = Without(waits, Edge(c))
  BY DEF Leave
<1>5. ASSUME NEW e \in Agents \X Agents
      PROVE  waits'[e] = Cardinality(Held(e)')
  <2>1. waits[e] = Cardinality(Held(e)) /\ waits[e] \in Nat
    BY DEF EdgesAreWaits, Held, TypeOK
  <2>2. Cardinality(Held(e)) \in Nat /\ Cardinality(Held(Edge(c)) \ {c}) \in Nat
    BY HeldFinite, FS_CardinalityType, FS_RemoveElement
  <2>3. CASE e = Edge(c)
    <3>1. waits'[e] = IF waits[e] > 0 THEN waits[e] - 1 ELSE 0
      BY <1>4, <2>3 DEF Without, TypeOK
    <3>2. Held(e)' = Held(e) \ {c} /\ Cardinality(Held(e)) > 0
      BY <1>2, <1>3, <2>2, <2>3
    <3>3. Cardinality(Held(e) \ {c}) = Cardinality(Held(e)) - 1
      BY <1>3, <2>3
    <3> QED
      BY <2>1, <2>2, <3>1, <3>2, <3>3
  <2>4. CASE e # Edge(c)
    <3>1. waits'[e] = waits[e]
      BY <1>4, <2>4 DEF Without, TypeOK
    <3> QED
      BY <1>2, <2>1, <2>4, <3>1
  <2> QED
    BY <2>3, <2>4
<1>6. EdgesAreWaits'
  BY <1>5 DEF EdgesAreWaits, Held, Edge
<1>7. NoDeadlock'
  BY <1>1 DEF NoDeadlock
<1>8. BlockedKnown'
  BY <1>1 DEF BlockedKnown, Edge
<1> QED
  BY <1>6, <1>7, <1>8

\* Registering adds an edge and blocks one caller.  A deadlock S that needs the
\* new edge holds b; what b reaches along the old edges leaves a out, so the
\* part of S within it was a deadlock before.
LEMMA RegisterKeeps ==
    ASSUME TypeOK, BlockedKnown, EdgesAreWaits, NoDeadlock,
           NEW c \in Calls, NEW a \in Agents, NEW b \in Agents, Register(c, a, b)
    PROVE  BlockedKnown' /\ EdgesAreWaits' /\ NoDeadlock'
<1>1. /\ \A d \in Calls : Blocked(d)' <=> Blocked(d) \/ d = c
      /\ \A d \in Calls \ {c} : from'[d] = from[d] /\ to'[d] = to[d]
      /\ from'[c] = a /\ to'[c] = b
      /\ ~Blocked(c)
  BY Kinds DEF Register, Goto, Blocked, InGraph, TypeOK
<1>2. /\ \A e : c \notin Held(e)
      /\ \A e : Held(e)' = IF e = <<a, b>> THEN Held(e) \cup {c} ELSE Held(e)
  BY <1>1 DEF Held, Edge
<1>3. ASSUME NEW e \in Agents \X Agents
      PROVE  waits'[e] = Cardinality(Held(e)')
  <2>1. waits[e] = Cardinality(Held(e)) /\ waits[e] \in Nat
    BY DEF EdgesAreWaits, Held, TypeOK
  <2>2. Cardinality(Held(e) \cup {c}) = Cardinality(Held(e)) + 1
    BY <1>2, HeldFinite, FS_AddElement
  <2>3. waits'[e] = IF e = <<a, b>> THEN waits[e] + 1 ELSE waits[e]
    BY DEF Register, TypeOK
  <2> QED
    BY <1>2, <2>1, <2>2, <2>3
<1>4. EdgesAreWaits'
  BY <1>3 DEF EdgesAreWaits, Held, Edge
<1>5. PICK C \in SUBSET Agents :
          /\ b \in C /\ a \notin C
          /\ \A e \in Edges : e[1] \in C => e[2] \in C
  BY DEF Register, Reaches
<1>6. ASSUME NEW S \in (SUBSET Agents) \ {{}},
             \A x \in S : \E d \in Calls :
                 Blocked(d)' /\ from'[d] = x /\ to'[d] \in S
      PROVE  FALSE
  <2>1. \A d \in Calls : Blocked(d) /\ from[d] \in S \cap C /\ to[d] \in S
                         => to[d] \in S \cap C
    <3> SUFFICES ASSUME NEW d \in Calls, Blocked(d),
                        from[d] \in S \cap C, to[d] \in S
                 PROVE  to[d] \in C
      OBVIOUS
    <3>1. Edge(d) \in Agents \X Agents /\ d \in Held(Edge(d))
      BY DEF Edge, Held
    <3>2. Cardinality(Held(Edge(d))) # 0
      BY <3>1, HeldFinite, FS_EmptySet
    <3>3. waits[Edge(d)] > 0
      BY <3>1, <3>2 DEF EdgesAreWaits, Held, TypeOK
    <3> QED
      BY <1>5, <3>1, <3>3 DEF Edges, Edge
  <2>2. ASSUME NEW x \in S \cap C
        PROVE  \E d \in Calls : Blocked(d) /\ from[d] = x /\ to[d] \in S \cap C
    BY <1>1, <1>5, <1>6, <2>1
  <2>3. S \cap C = {}
    BY <2>2 DEF NoDeadlock
  <2>4. \A x \in S : \E d \in Calls :
             Blocked(d) /\ from[d] = x /\ to[d] \in S
    BY <1>1, <1>5, <1>6, <2>3
  <2> QED
    BY <2>4 DEF NoDeadlock
<1>7. NoDeadlock'
  BY <1>6 DEF NoDeadlock
<1>8. BlockedKnown'
  BY <1>1 DEF BlockedKnown, Edge
<1> QED
  BY <1>4, <1>7, <1>8

\* Every other step of ask leaves its caller blocked, or unblocked.
LEMMA AskAside ==
    ASSUME TypeOK, NEW c \in Calls,
           \/ \E a, b \in Agents : Refuse(c, a, b)
           \/ Send(c) \/ Publish(c) \/ HearOther(c) \/ HearLag(c) \/ RereadMisses(c)
    PROVE  Aside
BY Kinds DEF TypeOK, Aside, Blocked, InGraph, Goto, graphVars, Refuse, Send, Publish,
   HearOther, HearLag, LagRemedied, RereadMisses

\* So does every step of reply and wait, and what comes after the loop of ask.
LEMMA OtherAside ==
    ASSUME TypeOK,
           \/ \E c \in Calls, r \in Replies : Reply(r, c)
           \/ \E r \in Replies : ReplyPublish(r) \/ ReplyMark(r)
           \/ \E w \in Waiters : \/ WaitStep(w) \/ WaitTimesOut(w)
                                 \/ \E a \in Agents : Wait(w, a)
           \/ \E x \in Tasks : MarkResult(x) \/ ClientLeaves(x)
    PROVE  Aside
<1> USE Kinds DEF TypeOK, Aside, Blocked, InGraph, Goto, graphVars
<1>1. ASSUME NEW c \in Calls, NEW r \in Replies, Reply(r, c) PROVE Aside
  BY <1>1 DEF Reply
<1>2. ASSUME NEW r \in Replies, ReplyPublish(r) \/ ReplyMark(r) PROVE Aside
  BY <1>2 DEF ReplyPublish, ReplyMark
<1>3. ASSUME NEW w \in Waiters, NEW a \in Agents, Wait(w, a) PROVE Aside
  BY <1>3 DEF Wait
<1>4. ASSUME NEW w \in Waiters, WaitStep(w) \/ WaitTimesOut(w) PROVE Aside
  BY <1>4 DEF WaitStep, LookFinds, LookMisses, Hear, WaitTimesOut
<1>5. ASSUME NEW x \in Tasks, MarkResult(x) \/ ClientLeaves(x) PROVE Aside
  BY <1>5 DEF MarkResult, ClientLeaves
<1> QED
  BY <1>1, <1>2, <1>3, <1>4, <1>5

LEMMA InitAsk == Init => AskInv
<1> SUFFICES ASSUME Init PROVE AskInv
  OBVIOUS
<1>1. \A c \in Calls : ~Blocked(c)
  BY Kinds DEF Init, Blocked, InGraph
<1>2. \A e : Held(e) = {}
  BY <1>1 DEF Held
<1>3. EdgesAreWaits
  BY <1>2, FS_EmptySet DEF EdgesAreWaits, Held, Init
<1>4. NoDeadlock /\ BlockedKnown
  BY <1>1 DEF NoDeadlock, BlockedKnown
<1> QED
  BY <1>3, <1>4, InitType DEF AskInv

LEMMA StepAsk == AskInv /\ [Next]_vars => AskInv'
<1> SUFFICES ASSUME AskInv, [Next]_vars PROVE AskInv'
  OBVIOUS
<1> USE DEF AskInv
<1>1. TypeOK'
  BY StepType
<1>2. CASE UNCHANGED vars
  BY <1>1, <1>2, AsideKeeps DEF vars, graphVars, Aside, Blocked
<1>3. ASSUME NEW c \in Calls, NEW a \in Agents, NEW b \in Agents, Register(c, a, b)
      PROVE  AskInv'
  BY <1>1, <1>3, RegisterKeeps
<1>4. ASSUME NEW c \in Calls, HearAnswer(c) PROVE AskInv'
  BY <1>1, <1>4, LeaveKeeps DEF HearAnswer, Blocked, InGraph
<1>5. ASSUME NEW c \in Calls, RereadFinds(c) PROVE AskInv'
  BY <1>1, <1>5, LeaveKeeps DEF RereadFinds, Blocked, InGraph
<1>6. ASSUME NEW c \in Calls, AskFails(c) \/ AskTimesOut(c) PROVE AskInv'
  BY <1>1, <1>6, LeaveKeeps DEF AskFails, AskTimesOut, Blocked, InGraph
<1>7. ASSUME Aside PROVE AskInv'
  BY <1>1, <1>7, AsideKeeps
<1> QED
  BY <1>2, <1>3, <1>4, <1>5, <1>6, <1>7, AskAside, OtherAside DEF Next, AskStep

\* The graph of waits is the questions under way: no edge outlives its ask,
\* however it ends, and equal edges are counted.
THEOREM EdgesAreWaitsHolds == Spec => []EdgesAreWaits
<1>1. AskInv => EdgesAreWaits
  BY DEF AskInv
<1> QED
  BY <1>1, InitAsk, StepAsk, PTL DEF Spec

\* No set of agents, however long the ring, ever blocks on questions to itself.
THEOREM NoDeadlockHolds == Spec => []NoDeadlock
<1>1. AskInv => NoDeadlock
  BY DEF AskInv
<1> QED
  BY <1>1, InitAsk, StepAsk, PTL DEF Spec
=============================================================================
