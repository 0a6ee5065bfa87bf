-------------------------- MODULE SupervisorProofs --------------------------
(***************************************************************************)
(* What holds of Supervisor for every set of sessions and threads, whatever*)
(* the policies, the detections and the timeouts; and of the output of a   *)
(* process (Terminal), whatever the limits and whoever looks at it.        *)
(***************************************************************************)
EXTENDS Supervisor, Terminal, SiftProofs, FiniteSetTheorems, SequenceTheorems, TLAPS

-----------------------------------------------------------------------------
(* The inductive invariant.  The properties of Supervisor are not inductive: *)
(* Register(a) keeps them only because the session it makes current has left *)
(* no trace yet, and Decide(s) only because a stop leaves one.               *)

\* A session that start() has not registered yet is nowhere to be found.
Fresh(a) == /\ session # a /\ a \notin cancelled
            /\ exitpc[a] = "none" /\ proc[a] = "none"

FreshUntilRegistered ==
    \A a \in Sessions : startpc[a] \in {"unused", "preparing"} => Fresh(a)

\* The cancellation token of the current session fired if, and only if, a stop
\* was asked for since it was registered.
CancelMeansStop ==
    session \in Sessions => (session \in cancelled <=> stopRequested)

\* A session that was replaced sleeps no longer, or was cancelled.
ReplacedIsCancelled ==
    \A s \in Sessions : exitpc[s] = "sleeping" /\ session # s => s \in cancelled

LifeInv == /\ TypeOK /\ NoGhost /\ FreshUntilRegistered
           /\ CancelMeansStop /\ ReplacedIsCancelled

\* While start() records the session, on_exit() waits; a row is open from
\* start_session() to end_session(), and holds the token in between.
RecordInv ==
    \A s \in Sessions :
        /\ startpc[s] \in {"unused", "preparing", "checking", "forking",
                           "inserting", "recording", "granting"}
              => s \notin recorded /\ s \notin tokens
        /\ s \notin recorded => exitpc[s] \in {"none", "recording"}
        /\ startpc[s] = "granting" => record[s] = "open"
        /\ s \in tokens => record[s] = "open" \/ exitpc[s] = "revoking"
        /\ exitpc[s] \in {"revoking", "deciding", "sleeping", "done"}
              => record[s] # "open"

-----------------------------------------------------------------------------
(* Type correctness                                                          *)

\* The counter of falls stays within the width of the integer (backoff.rs).
LEMMA NextFailuresType ==
    ASSUME NEW n \in 0..MaxFailures, NEW stable \in BOOLEAN
    PROVE  NextFailures(n, stable) \in 0..MaxFailures
BY BackoffAssumption DEF NextFailures, FallsBefore

\* A step of start() keeps the types.
LEMMA StartStepType ==
    ASSUME TypeOK, NEW a \in Sessions, StartStep(a) \/ StartCall(a)
    PROVE  TypeOK'
<1> USE SupervisorAssumption
        DEF TypeOK, StartPCs, ExitPCs, States, Running, Goto,
            entryVars, ptyVars, storeVars, taskVars, userVars
<1>1. CASE StartCall(a)
  BY <1>1 DEF StartCall, Enter
<1>2. CASE StartRefused(a)
  BY <1>2 DEF StartRefused
<1>3. CASE PrepareFails(a)
  BY <1>3 DEF PrepareFails
<1>4. CASE Register(a)
  BY <1>4 DEF Register, CancelScheduled
<1>5. CASE CheckAlive(a)
  BY <1>5 DEF CheckAlive
<1>6. CASE Fork(a)
  BY <1>6 DEF Fork
<1>7. CASE Insert(a)
  BY <1>7 DEF Insert
<1>8. CASE SpawnFailed(a)
  BY <1>8 DEF SpawnFailed
<1>9. CASE StartSession(a)
  BY <1>9 DEF StartSession
<1>10. CASE InsertToken(a)
  BY <1>10 DEF InsertToken
<1> QED
  BY <1>1, <1>2, <1>3, <1>4, <1>5, <1>6, <1>7, <1>8, <1>9, <1>10 DEF StartStep

\* A step of stop() or of the application closing keeps the types.
LEMMA CommandStepType ==
    ASSUME TypeOK,
           \/ \E t \in Stoppers : StopCall(t) \/ StopKill(t) \/ StopSettle(t)
           \/ SupervisorShutdown \/ PtyShutdown
    PROVE  TypeOK'
<1> USE SupervisorAssumption
        DEF TypeOK, StartPCs, ExitPCs, States, Running, CancelScheduled,
            entryVars, ptyVars, storeVars, taskVars, userVars
<1>1. ASSUME NEW t \in Stoppers, StopCall(t)
      PROVE  TypeOK'
  BY <1>1 DEF StopCall
<1>2. ASSUME NEW t \in Stoppers, StopKill(t)
      PROVE  TypeOK'
  BY <1>2 DEF StopKill
<1>3. ASSUME NEW t \in Stoppers, StopSettle(t)
      PROVE  TypeOK'
  BY <1>3 DEF StopSettle
<1>4. CASE SupervisorShutdown
  BY <1>4 DEF SupervisorShutdown
<1>5. CASE PtyShutdown
  BY <1>5 DEF PtyShutdown
<1> QED
  BY <1>1, <1>2, <1>3, <1>4, <1>5

\* A step of the process, of on_exit() or of the detector keeps the types.
LEMMA SessionStepType ==
    ASSUME TypeOK, NEW s \in Sessions,
           \/ ProcessEnds(s, "exit_0") \/ ProcessEnds(s, "exit_1") \/ OrphanEnds(s)
           \/ AnnounceExit(s) \/ ExitStep(s) \/ RestartStep(s)
           \/ \E d \in DetectedStates : Detect(s, d)
           \/ DetectorStops(s)
    PROVE  TypeOK'
<1> USE SupervisorAssumption
        DEF TypeOK, StartPCs, ExitPCs, States, Running, ExitGoto, Goto,
            entryVars, ptyVars, storeVars, taskVars, userVars
<1>1. CASE ProcessEnds(s, "exit_0") \/ ProcessEnds(s, "exit_1") \/ OrphanEnds(s)
  BY <1>1 DEF ProcessEnds, OrphanEnds
<1>2. CASE AnnounceExit(s)
  BY <1>2 DEF AnnounceExit
<1>3. CASE AwaitRecord(s)
  BY <1>3 DEF AwaitRecord
<1>4. CASE EndSession(s)
  BY <1>4 DEF EndSession
<1>5. CASE RevokeTokens(s)
  BY <1>5 DEF RevokeTokens
<1>6. CASE DecideStale(s)
  BY <1>6 DEF DecideStale
<1>7. CASE Decide(s)
  <2>1. failures' \in 0..MaxFailures
    BY <1>7, NextFailuresType DEF Decide
  <2>2. exitpc' \in [Sessions -> ExitPCs]
    BY <1>7 DEF Decide
  <2> QED
    BY <1>7, <2>1, <2>2 DEF Decide
<1>8. CASE \E a \in Sessions : RestartDue(s, a)
  BY <1>8 DEF RestartDue, Enter
<1>9. CASE RestartRefused(s)
  BY <1>9 DEF RestartRefused
<1>10. CASE RestartCancelled(s)
  BY <1>10 DEF RestartCancelled
<1>11. CASE \E d \in DetectedStates : Detect(s, d)
  BY <1>11 DEF Detect
<1>12. CASE DetectorStops(s)
  BY <1>12 DEF DetectorStops
<1> QED
  BY <1>1, <1>2, <1>3, <1>4, <1>5, <1>6, <1>7, <1>8, <1>9, <1>10, <1>11, <1>12
  DEF ExitStep, RestartStep

LEMMA InitType == Init => TypeOK
<1> SUFFICES ASSUME Init PROVE TypeOK
  OBVIOUS
<1>1. failures \in 0..MaxFailures
  BY BackoffAssumption DEF Init
<1> QED
  BY <1>1 DEF Init, TypeOK, States, Running, StartPCs, ExitPCs

LEMMA TypeStep == ASSUME TypeOK, [Next]_vars PROVE TypeOK'
<1>1. CASE UNCHANGED vars
  BY <1>1 DEF TypeOK, vars, entryVars, ptyVars, storeVars, taskVars, userVars
<1>2. CASE Next
  BY <1>2, StartStepType, CommandStepType, SessionStepType DEF Next
<1> QED
  BY <1>1, <1>2

\* The variables always have their types: no step of start(), stop(), on_exit(),
\* of the detector or of the shutdown leaves a field with a value it cannot have.
THEOREM TypeCorrect == Spec => []TypeOK
BY InitType, TypeStep, PTL DEF Spec

-----------------------------------------------------------------------------
(* The life of the agent                                                     *)

\* Every step keeps the invariant: one case per action.
LEMMA LifeInvStep ==
    ASSUME LifeInv, [Next]_vars
    PROVE  LifeInv'
<1> USE SupervisorAssumption
        DEF NoGhost, FreshUntilRegistered, Fresh, CancelMeansStop,
            ReplacedIsCancelled, Over, Running, States, StartPCs, ExitPCs
<1>1. TypeOK /\ TypeOK'
  BY TypeStep DEF LifeInv
<1> DEFINE Rest == NoGhost /\ FreshUntilRegistered /\ CancelMeansStop
                   /\ ReplacedIsCancelled
<1>2. Rest
  BY DEF LifeInv
<1> SUFFICES Rest'
  BY <1>1 DEF LifeInv
<1>3. CASE UNCHANGED vars
  BY <1>2, <1>3
  DEF vars, entryVars, ptyVars, storeVars, taskVars, userVars
<1>4. ASSUME NEW a \in Sessions, StartCall(a) \/ StartStep(a)
      PROVE  Rest'
  <2> USE <1>1, <1>2 DEF Goto, entryVars, ptyVars, storeVars, taskVars, userVars
  <2>1. CASE StartCall(a)
    BY <2>1 DEF StartCall, Enter, TypeOK
  <2>2. CASE StartRefused(a)
    BY <2>2 DEF StartRefused, TypeOK
  <2>3. CASE PrepareFails(a)
    BY <2>3 DEF PrepareFails, TypeOK
  <2>4. CASE Register(a)
    <3>1. NoGhost' /\ FreshUntilRegistered'
      BY <2>4 DEF Register, CancelScheduled, TypeOK
    <3>2. CancelMeansStop'
      BY <2>4 DEF Register, CancelScheduled, TypeOK
    <3>3. ReplacedIsCancelled'
      BY <2>4 DEF Register, CancelScheduled, TypeOK
    <3> QED
      BY <3>1, <3>2, <3>3
  <2>5. CASE CheckAlive(a)
    BY <2>5 DEF CheckAlive, TypeOK
  <2>6. CASE Fork(a)
    BY <2>6 DEF Fork, TypeOK
  <2>7. CASE Insert(a)
    BY <2>7 DEF Insert, TypeOK
  <2>8. CASE SpawnFailed(a)
    BY <2>8 DEF SpawnFailed, TypeOK
  <2>9. CASE StartSession(a)
    BY <2>9 DEF StartSession, TypeOK
  <2>10. CASE InsertToken(a)
    BY <2>10 DEF InsertToken, TypeOK
  <2> QED
    BY <1>4, <2>1, <2>2, <2>3, <2>4, <2>5, <2>6, <2>7, <2>8, <2>9, <2>10
    DEF StartStep
<1>5. ASSUME NEW t \in Stoppers, StopCall(t) \/ StopKill(t) \/ StopSettle(t)
      PROVE  Rest'
  <2> USE <1>1, <1>2 DEF entryVars, ptyVars, storeVars, taskVars, userVars
  <2>1. CASE StopCall(t)
    BY <2>1 DEF StopCall, CancelScheduled, TypeOK
  <2>2. CASE StopKill(t)
    BY <2>2 DEF StopKill, TypeOK
  <2>3. CASE StopSettle(t)
    BY <2>3 DEF StopSettle, TypeOK
  <2> QED
    BY <1>5, <2>1, <2>2, <2>3
<1>6. ASSUME NEW s \in Sessions,
             \/ ProcessEnds(s, "exit_0") \/ ProcessEnds(s, "exit_1") \/ OrphanEnds(s)
             \/ AnnounceExit(s) \/ ExitStep(s) \/ RestartStep(s)
             \/ \E d \in DetectedStates : Detect(s, d)
             \/ DetectorStops(s)
      PROVE  Rest'
  <2> USE <1>1, <1>2
      DEF ExitGoto, Goto, entryVars, ptyVars, storeVars, taskVars, userVars
  <2>1. CASE ProcessEnds(s, "exit_0") \/ ProcessEnds(s, "exit_1") \/ OrphanEnds(s)
    BY <2>1 DEF ProcessEnds, OrphanEnds, TypeOK
  <2>2. CASE AnnounceExit(s)
    BY <2>2 DEF AnnounceExit, TypeOK
  <2>3. CASE AwaitRecord(s)
    BY <2>3 DEF AwaitRecord, TypeOK
  <2>4. CASE EndSession(s)
    BY <2>4 DEF EndSession, TypeOK
  <2>5. CASE RevokeTokens(s)
    BY <2>5 DEF RevokeTokens, TypeOK
  <2>6. CASE DecideStale(s)
    BY <2>6 DEF DecideStale, TypeOK
  <2>7. CASE Decide(s)
    BY <2>7 DEF Decide, TypeOK
  <2>8. CASE \E a \in Sessions : RestartDue(s, a)
    BY <2>8 DEF RestartDue, Enter, TypeOK
  <2>9. CASE RestartRefused(s)
    BY <2>9 DEF RestartRefused, TypeOK
  <2>10. CASE RestartCancelled(s)
    BY <2>10 DEF RestartCancelled, TypeOK
  <2>11. CASE \E d \in DetectedStates : Detect(s, d)
    BY <2>11 DEF Detect, IsCurrentAndRunning, TypeOK
  <2>12. CASE DetectorStops(s)
    BY <2>12 DEF DetectorStops, TypeOK
  <2> QED
    BY <1>6, <2>1, <2>2, <2>3, <2>4, <2>5, <2>6, <2>7, <2>8, <2>9, <2>10, <2>11,
       <2>12 DEF ExitStep, RestartStep
<1>7. CASE SupervisorShutdown
  BY <1>1, <1>2, <1>7
  DEF SupervisorShutdown, CancelScheduled, TypeOK,
      ptyVars, storeVars, taskVars
<1>8. CASE PtyShutdown
  BY <1>1, <1>2, <1>8
  DEF PtyShutdown, TypeOK, entryVars, storeVars, taskVars
<1> QED
  BY <1>3, <1>4, <1>5, <1>6, <1>7, <1>8 DEF Next

LEMMA LifeInvHolds == Spec => []LifeInv
<1>1. Init => LifeInv
  BY InitType, SupervisorAssumption
  DEF Init, LifeInv, NoGhost, FreshUntilRegistered, Fresh, CancelMeansStop,
      ReplacedIsCancelled, Running
<1> QED
  BY <1>1, LifeInvStep, PTL DEF Spec

\* No stale exit, stop, detection or restart puts a finished session back to a
\* running state, in any interleaving of any number of them.
THEOREM NoGhostHolds == Spec => []NoGhost
BY LifeInvHolds, PTL DEF LifeInv

\* At most one restart by policy is scheduled and not cancelled, it belongs to
\* the current session, and stop() leaves none.
THEOREM OneRestartScheduledHolds == Spec => []OneRestartScheduled
<1>1. LifeInv => OneRestartScheduled
  BY SupervisorAssumption
  DEF LifeInv, TypeOK, CancelMeansStop, ReplacedIsCancelled, OneRestartScheduled
<1> QED
  BY <1>1, LifeInvHolds, PTL

\* What a step may do to what AgentLife sees: register a fresh session, leave a
\* running state, or nothing (a detection moves between running states; a stop
\* cancels the current session, which has been used already).
Used == (cancelled \cup {session}) \ {NoSession}
Raises(a) == /\ a \notin Used /\ state' \in Running
             /\ session' = a /\ Used' = Used \cup {a}
Keeps  == /\ session' = session /\ Used' = Used
          /\ state' \in Running => state \in Running

LEMMA StepRaisesOrKeeps ==
    ASSUME LifeInv, [Next]_vars
    PROVE  Keeps \/ \E a \in Sessions : Raises(a)
<1> USE SupervisorAssumption
    DEF Keeps, Used, Running, CancelScheduled,
        entryVars, ptyVars, storeVars, taskVars, userVars
<1>1. CASE UNCHANGED vars
  BY <1>1 DEF vars
<1>2. ASSUME NEW a \in Sessions, StartCall(a) \/ StartStep(a)
      PROVE  Keeps \/ Raises(a)
  <2>1. CASE Register(a)
    <3>1. a \notin Used
      BY <2>1 DEF Register, LifeInv, FreshUntilRegistered, Fresh
    <3> QED
      BY <2>1, <3>1 DEF Register, Raises
  <2>2. CASE PrepareFails(a) \/ SpawnFailed(a)
    BY <2>2 DEF PrepareFails, SpawnFailed
  <2>3. CASE \/ StartCall(a) \/ StartRefused(a) \/ CheckAlive(a) \/ Fork(a)
    BY <2>3 DEF StartCall, StartRefused, CheckAlive, Fork
  <2>4. CASE \/ Insert(a) \/ StartSession(a) \/ InsertToken(a)
    BY <2>4 DEF Insert, StartSession, InsertToken
  <2> QED
    BY <1>2, <2>1, <2>2, <2>3, <2>4 DEF StartStep
<1>3. ASSUME NEW t \in Stoppers, StopCall(t) \/ StopKill(t) \/ StopSettle(t)
      PROVE  Keeps
  BY <1>3 DEF StopCall, StopKill, StopSettle
<1>4. ASSUME NEW s \in Sessions,
             \/ ProcessEnds(s, "exit_0") \/ ProcessEnds(s, "exit_1") \/ OrphanEnds(s)
             \/ AnnounceExit(s) \/ ExitStep(s) \/ RestartStep(s)
             \/ \E d \in DetectedStates : Detect(s, d)
             \/ DetectorStops(s)
      PROVE  Keeps
  <2>1. CASE \/ ProcessEnds(s, "exit_0") \/ ProcessEnds(s, "exit_1") \/ OrphanEnds(s)
             \/ AnnounceExit(s) \/ DetectorStops(s)
    BY <2>1 DEF ProcessEnds, OrphanEnds, AnnounceExit, DetectorStops
  <2>2. CASE ExitStep(s)
    BY <2>2
    DEF ExitStep, AwaitRecord, EndSession, RevokeTokens, DecideStale, Decide
  <2>3. CASE RestartStep(s)
    BY <2>3
    DEF RestartStep, RestartDue, RestartRefused, RestartCancelled
  <2>4. CASE \E d \in DetectedStates : Detect(s, d)
    BY <2>4 DEF Detect, IsCurrentAndRunning
  <2> QED
    BY <1>4, <2>1, <2>2, <2>3, <2>4
<1>5. CASE SupervisorShutdown \/ PtyShutdown
  BY <1>5 DEF SupervisorShutdown, PtyShutdown
<1> QED
  BY <1>1, <1>2, <1>3, <1>4, <1>5 DEF Next

\* The supervisor implements AgentLife: each step of it is a Rise, a Fall or a
\* stutter of the abstract agent.
THEOREM ImplementsLife == Spec => LifeSpec
<1>1. Init => Life!LifeInit
  BY DEF Init, Life!LifeInit, Running
<1>2. LifeInv /\ [Next]_vars => [Life!LifeNext]_(Life!life)
  <2> SUFFICES ASSUME LifeInv, [Next]_vars
               PROVE  [Life!LifeNext]_(Life!life)
    OBVIOUS
  <2> USE DEF Life!LifeNext, Life!life, Used
  <2>1. CASE Keeps
    <3>1. CASE state \in Running /\ state' \notin Running
      BY <2>1, <3>1 DEF Keeps, Life!Fall
    <3>2. CASE ~(state \in Running /\ state' \notin Running)
      BY <2>1, <3>2 DEF Keeps
    <3> QED
      BY <3>1, <3>2
  <2>2. ASSUME NEW a \in Sessions, Raises(a)
        PROVE  [Life!LifeNext]_(Life!life)
    BY <2>2 DEF Raises, Life!Rise
  <2> QED
    BY <2>1, <2>2, StepRaisesOrKeeps
<1> QED
  BY <1>1, <1>2, LifeInvHolds, PTL DEF Spec, LifeSpec, Life!LifeSpec

-----------------------------------------------------------------------------
(* Tokens and session rows                                                   *)

\* Only start() opens a row or writes a token, and on_exit() closes the one and
\* revokes the other after start() is through with both.
LEMMA RecordInvStep ==
    ASSUME ~RecordTimeout, ~ExitStoreFails, TypeOK, RecordInv, [Next]_vars
    PROVE  RecordInv'
<1> USE SupervisorAssumption
        DEF RecordInv, TypeOK, StartPCs, ExitPCs,
            entryVars, ptyVars, storeVars, taskVars, userVars
<1>1. CASE UNCHANGED vars
  BY <1>1 DEF vars
<1>2. ASSUME NEW a \in Sessions, StartCall(a) \/ StartStep(a)
      PROVE  RecordInv'
  <2> USE DEF Goto
  <2>1. CASE StartCall(a)
    BY <2>1 DEF StartCall, Enter
  <2>2. CASE StartRefused(a) \/ PrepareFails(a) \/ SpawnFailed(a)
    BY <2>2 DEF StartRefused, PrepareFails, SpawnFailed
  <2>3. CASE Register(a) \/ CheckAlive(a)
    BY <2>3 DEF Register, CheckAlive
  <2>4. CASE Fork(a) \/ Insert(a)
    BY <2>4 DEF Fork, Insert
  <2>5. CASE StartSession(a)
    BY <2>5 DEF StartSession
  <2>6. CASE InsertToken(a)
    BY <2>6 DEF InsertToken
  <2> QED
    BY <1>2, <2>1, <2>2, <2>3, <2>4, <2>5, <2>6 DEF StartStep
<1>3. ASSUME NEW t \in Stoppers, StopCall(t) \/ StopKill(t) \/ StopSettle(t)
      PROVE  RecordInv'
  BY <1>3 DEF StopCall, StopKill, StopSettle
<1>4. ASSUME NEW s \in Sessions,
             \/ ProcessEnds(s, "exit_0") \/ ProcessEnds(s, "exit_1") \/ OrphanEnds(s)
             \/ AnnounceExit(s) \/ ExitStep(s) \/ RestartStep(s)
             \/ \E d \in DetectedStates : Detect(s, d)
             \/ DetectorStops(s)
      PROVE  RecordInv'
  <2> USE DEF ExitGoto
  <2>1. CASE \/ ProcessEnds(s, "exit_0") \/ ProcessEnds(s, "exit_1") \/ OrphanEnds(s)
             \/ DetectorStops(s)
    BY <2>1 DEF ProcessEnds, OrphanEnds, DetectorStops
  <2>2. CASE AnnounceExit(s)
    BY <2>2 DEF AnnounceExit
  <2>3. CASE AwaitRecord(s)
    BY <2>3 DEF AwaitRecord, Waited
  <2>4. CASE EndSession(s)
    BY <2>4 DEF EndSession
  <2>5. CASE RevokeTokens(s)
    BY <2>5 DEF RevokeTokens
  <2>6. CASE DecideStale(s) \/ Decide(s)
    BY <2>6 DEF DecideStale, Decide
  <2>7. CASE \E a \in Sessions : RestartDue(s, a)
    BY <2>7 DEF RestartDue, Enter, Goto
  <2>8. CASE RestartRefused(s) \/ RestartCancelled(s)
    BY <2>8 DEF RestartRefused, RestartCancelled
  <2>9. CASE \E d \in DetectedStates : Detect(s, d)
    BY <2>9 DEF Detect
  <2> QED
    BY <1>4, <2>1, <2>2, <2>3, <2>4, <2>5, <2>6, <2>7, <2>8, <2>9
    DEF ExitStep, RestartStep
<1>5. CASE SupervisorShutdown \/ PtyShutdown
  BY <1>5 DEF SupervisorShutdown, PtyShutdown
<1> QED
  BY <1>1, <1>2, <1>3, <1>4, <1>5 DEF Next

\* If start() always records the session within SESSION_RECORD_WAIT and the
\* store takes the writes of on_exit(), a token is valid only while its session
\* is recorded and open (I4), however exits, stops and restarts interleave.
THEOREM TokenMeansOpenSessionHolds ==
    ~RecordTimeout /\ ~ExitStoreFails /\ Spec => []TokenMeansOpenSession
<1>1. Init => RecordInv
  BY DEF Init, RecordInv
<1>2. ~RecordTimeout /\ ~ExitStoreFails /\ TypeOK /\ RecordInv /\ [Next]_vars => RecordInv'
  BY RecordInvStep
<1>3. RecordInv => TokenMeansOpenSession
  BY DEF RecordInv, TokenMeansOpenSession
<1>4. CASE ~RecordTimeout /\ ~ExitStoreFails
  <2>1. Spec => []RecordInv
    BY <1>1, <1>2, <1>4, TypeCorrect, PTL DEF Spec
  <2> QED
    BY <1>3, <2>1, PTL
<1> QED
  BY <1>4
-----------------------------------------------------------------------------
(* One command at a time, no restart by policy                               *)

\* Between the check of PtyManager::start and its insertion no lock is held.  What
\* keeps a live process from being replaced there is that only one start() runs,
\* and that what was in the map when it looked is what it replaces.
OneStart == \A a, b \in Sessions : InStart(a) /\ InStart(b) => a = b

NoPolicyStart ==
    /\ session \in Sessions => policy = "never"
    /\ \A s \in Sessions : exitpc[s] # "sleeping" /\ startedBy[s] = "user"

CheckStillTrue ==
    \A a \in Sessions :
        /\ startpc[a] \in {"unused", "preparing", "checking", "forking"}
              => proc[a] = "none" /\ record[a] = "none" /\ a \notin tokens
        /\ startpc[a] \in {"unused", "preparing", "checking", "forking", "inserting"}
              => managed # a
        /\ startpc[a] \in {"forking", "inserting"} /\ managed \in Sessions => ~Alive(managed)

SerialInv == NoPolicyStart /\ OneStart /\ CheckStillTrue /\ NoOrphan

LEMMA SerialInvStep ==
    ASSUME SerialCommands, Policies \subseteq {"never"}, TypeOK, SerialInv, [Next]_vars
    PROVE  SerialInv'
<1> USE SupervisorAssumption
        DEF TypeOK, StartPCs, ExitPCs, InStart, Alive, Orphan,
            entryVars, ptyVars, storeVars, taskVars, userVars
<1>1. CASE UNCHANGED vars
  BY <1>1 DEF vars, SerialInv, NoPolicyStart, OneStart, CheckStillTrue, NoOrphan
<1>2. ASSUME NEW a \in Sessions, StartCall(a) \/ StartStep(a)
      PROVE  SerialInv'
  <2> USE DEF Goto, SerialInv, NoPolicyStart, OneStart, CheckStillTrue, NoOrphan
  <2>1. CASE StartCall(a)
    <3>1. \A b \in Sessions : ~InStart(b)
      BY <2>1 DEF StartCall, MayCommand, CommandInFlight
    <3> QED
      BY <2>1, <3>1 DEF StartCall, Enter
  <2>2. CASE StartRefused(a) \/ PrepareFails(a) \/ SpawnFailed(a)
    BY <2>2 DEF StartRefused, PrepareFails, SpawnFailed
  <2>3. CASE Register(a)
    BY <2>3 DEF Register, CancelScheduled
  <2>4. CASE CheckAlive(a)
    BY <2>4 DEF CheckAlive
  <2>5. CASE Fork(a)
    BY <2>5 DEF Fork
  <2>6. CASE Insert(a)
    BY <2>6 DEF Insert
  <2>7. CASE StartSession(a) \/ InsertToken(a)
    BY <2>7 DEF StartSession, InsertToken
  <2> QED
    BY <1>2, <2>1, <2>2, <2>3, <2>4, <2>5, <2>6, <2>7 DEF StartStep
<1>3. ASSUME NEW t \in Stoppers, StopCall(t) \/ StopKill(t) \/ StopSettle(t)
      PROVE  SerialInv'
  BY <1>3 DEF StopCall, StopKill, StopSettle, SerialInv, NoPolicyStart, OneStart,
              CheckStillTrue, NoOrphan
<1>4. ASSUME NEW s \in Sessions,
             \/ ProcessEnds(s, "exit_0") \/ ProcessEnds(s, "exit_1") \/ OrphanEnds(s)
             \/ AnnounceExit(s) \/ ExitStep(s) \/ RestartStep(s)
             \/ \E d \in DetectedStates : Detect(s, d)
             \/ DetectorStops(s)
      PROVE  SerialInv'
  <2> USE DEF ExitGoto, SerialInv, NoPolicyStart, OneStart, CheckStillTrue, NoOrphan
  <2>1. CASE ProcessEnds(s, "exit_0") \/ ProcessEnds(s, "exit_1") \/ OrphanEnds(s)
    BY <2>1 DEF ProcessEnds, OrphanEnds
  <2>2. CASE DetectorStops(s) \/ AnnounceExit(s)
    BY <2>2 DEF DetectorStops, AnnounceExit
  <2>3. CASE AwaitRecord(s) \/ EndSession(s) \/ RevokeTokens(s) \/ DecideStale(s)
    BY <2>3 DEF AwaitRecord, EndSession, RevokeTokens, DecideStale
  <2>4. CASE Decide(s)
    BY <2>4 DEF Decide, ShouldRestart
  <2>5. CASE RestartStep(s)
    BY <2>5 DEF RestartStep, RestartDue, RestartRefused, RestartCancelled
  <2>6. CASE \E d \in DetectedStates : Detect(s, d)
    BY <2>6 DEF Detect
  <2> QED
    BY <1>4, <2>1, <2>2, <2>3, <2>4, <2>5, <2>6 DEF ExitStep
<1>5. CASE SupervisorShutdown \/ PtyShutdown
  BY <1>5 DEF SupervisorShutdown, PtyShutdown, SerialInv, NoPolicyStart, OneStart,
              CheckStillTrue, NoOrphan
<1> QED
  BY <1>1, <1>2, <1>3, <1>4, <1>5 DEF Next

\* A caller that waits for each command before the next, and no restart by policy:
\* a live process is one that PtyManager can reach, or was signalled; or a spawn
\* that failed with its child up left it (session.rs:161, 231), of which start()
\* answers that it failed and keeps neither a row nor a token.
THEOREM NoOrphanHolds ==
    SerialCommands /\ Policies \subseteq {"never"} /\ Spec => []NoOrphan
<1>1. Init => SerialInv
  BY SupervisorAssumption
  DEF Init, SerialInv, NoPolicyStart, OneStart, CheckStillTrue, NoOrphan, InStart, Alive, Orphan
<1>2. SerialInv => NoOrphan
  BY DEF SerialInv
<1>3. CASE SerialCommands /\ Policies \subseteq {"never"}
  <2>1. Spec => []SerialInv
    BY <1>1, <1>3, SerialInvStep, TypeCorrect, PTL DEF Spec
  <2> QED
    BY <1>2, <2>1, PTL
<1> QED
  BY <1>3

-----------------------------------------------------------------------------
(* Terminal: what the ring is pushed, part by part                           *)

\* One step of the fold over the set s of the parts' places.
FoldAt(iter, first, parts, s) ==
    IF s = {} THEN first ELSE AddPart(iter[s \ {Max(s)}], parts[Max(s)])

Folding(entries, parts) == FoldLeft(AddPart, entries, parts)

\* FoldLeft takes the parts one by one, the last one last.
LEMMA FoldIsIter ==
    ASSUME NEW first, NEW parts
    PROVE  Folding(first, parts)
             = (CHOOSE iter : iter = [s \in SUBSET DOMAIN parts |-> FoldAt(iter, first, parts, s)])[DOMAIN parts]
BY DEF Folding, FoldLeft, MapThenFoldSet, FoldAt

\* Flat by its last entry.
LEMMA FlatIs ==
    ASSUME NEW e, Len(e) # 0
    PROVE  Flat(e) = (CHOOSE f : f = [i \in 1 .. Len(e) |-> IF i = 1 THEN e[i] ELSE f[i - 1] \o e[i]])[Len(e)]
BY DEF Flat, FlattenSeq

\* Push and Parts in these words.
LEMMA PushIsFolding == \A entries, data : Push(entries, data) = Evict(Folding(entries, Parts(data)))
BY DEF Push, Folding

LEMMA PartsIsFolding == \A data : Parts(data) = Folding(<<>>, [i \in 1 .. Len(data) |-> <<data[i]>>])
BY DEF Parts, Folding

IsFlatten(f, e) == f = [i \in 1 .. Len(e) |-> IF i = 1 THEN e[i] ELSE f[i - 1] \o e[i]]
IsFlattenTo(f, e, m) == f = [i \in 1 .. m |-> IF i = 1 THEN e[i] ELSE f[i - 1] \o e[i]]

LEMMA FlattenExists ==
    ASSUME NEW e, Len(e) \in Nat
    PROVE  \E f : IsFlatten(f, e)
<1> DEFINE Bad == {m \in 0 .. Len(e) : ~ \E f : IsFlattenTo(f, e, m)}
<1>1. SUFFICES ASSUME Bad # {} PROVE FALSE
  <2>1. Len(e) \in 0 .. Len(e)
    OBVIOUS
  <2>2. Bad = {} => \E f : IsFlattenTo(f, e, Len(e))
    BY <2>1
  <2> QED BY <2>2 DEF IsFlatten, IsFlattenTo
<1>2. PICK m \in Bad : \A y \in Bad : m =< y
  <2>1. Bad \in SUBSET Nat
    OBVIOUS
  <2> QED BY <1>1, <2>1, LeastOne
<1>3. m # 0
  <2>1. IsFlattenTo([i \in 1 .. 0 |-> 0], e, 0)
    BY DEF IsFlattenTo
  <2> QED BY <2>1
<1>4. m - 1 \in 0 .. Len(e) /\ m \in 0 .. Len(e) /\ ~(m =< m - 1)
  BY <1>3
<1>5. PICK f : IsFlattenTo(f, e, m - 1)
  BY <1>2, <1>4
<1> DEFINE h == [i \in 1 .. m |-> IF i = m THEN IF i = 1 THEN e[i] ELSE f[i - 1] \o e[i] ELSE f[i]]
<1>6. \A i \in 1 .. m : h[i] = IF i = 1 THEN e[i] ELSE h[i - 1] \o e[i]
  <2> SUFFICES ASSUME NEW i \in 1 .. m PROVE h[i] = IF i = 1 THEN e[i] ELSE h[i - 1] \o e[i]
    OBVIOUS
  <2>1. i # 1 => i - 1 \in 1 .. m /\ i - 1 # m
    BY <1>4
  <2>2. i # 1 => h[i - 1] = f[i - 1]
    BY <2>1
  <2>3. CASE i = m
    BY <2>2, <2>3
  <2>4. CASE i # m
    <3>1. i \in 1 .. m - 1
      BY <2>4, <1>4
    <3>2. h[i] = f[i]
      BY <2>4
    <3>3. f[i] = IF i = 1 THEN e[i] ELSE f[i - 1] \o e[i]
      BY <1>5, <3>1 DEF IsFlattenTo
    <3> QED BY <2>2, <3>2, <3>3
  <2> QED BY <2>3, <2>4
<1>7. h = [i \in 1 .. m |-> IF i = 1 THEN e[i] ELSE h[i - 1] \o e[i]]
  <2> HIDE DEF h
  <2>1. h = [i \in 1 .. m |-> h[i]]
    BY DEF h
  <2> QED BY <2>1, <1>6
<1>8. IsFlattenTo(h, e, m)
  BY <1>7 DEF IsFlattenTo
<1> QED BY <1>8

\* What the entries of a list come to, one after the other.
LEMMA FlatIsLast ==
    ASSUME NEW S, NEW e \in Seq(Seq(S)), e # <<>>
    PROVE  \E f : /\ Flat(e) = f[Len(e)]
                  /\ \A i \in 1 .. Len(e) : f[i] = IF i = 1 THEN e[i] ELSE f[i - 1] \o e[i]
<1>1. Len(e) \in Nat /\ Len(e) # 0
  OBVIOUS
<1> DEFINE f == CHOOSE f : IsFlatten(f, e)
<1>2. IsFlatten(f, e)
  BY <1>1, FlattenExists
<1>3. Flat(e) = f[Len(e)]
  BY <1>1 DEF Flat, FlattenSeq, IsFlatten
<1>4. \A i \in 1 .. Len(e) : f[i] = IF i = 1 THEN e[i] ELSE f[i - 1] \o e[i]
  <2> HIDE DEF f
  <2> QED BY <1>2 DEF IsFlatten
<1> QED BY <1>3, <1>4

\* Flat of no entries, of one more entry, and of all but the first.
LEMMA FlatEmpty == Flat(<<>>) = <<>>
BY DEF Flat, FlattenSeq

LEMMA FlatType ==
    ASSUME NEW S, NEW e \in Seq(Seq(S))
    PROVE  Flat(e) \in Seq(S)
<1>1. CASE e = <<>>
  <2>1. Flat(e) = <<>>
    BY <1>1, FlatEmpty
  <2>2. <<>> \in Seq(S)
    OBVIOUS
  <2> QED BY <2>1, <2>2
<1>2. CASE e # <<>>
  <2>1. PICK f : /\ Flat(e) = f[Len(e)]
                 /\ \A i \in 1 .. Len(e) : f[i] = IF i = 1 THEN e[i] ELSE f[i - 1] \o e[i]
    BY <1>2, FlatIsLast
  <2> DEFINE Bad == {i \in 1 .. Len(e) : f[i] \notin Seq(S)}
  <2>2. SUFFICES ASSUME Bad # {} PROVE FALSE
    BY <1>2, <2>1
  <2>3. PICK m \in Bad : \A y \in Bad : m =< y
    <3>1. Bad \in SUBSET Nat
      OBVIOUS
    <3> QED BY <2>2, <3>1, LeastOne
  <2>4. m \in 1 .. Len(e) /\ e[m] \in Seq(S)
    OBVIOUS
  <2>5. m # 1
    BY <2>1, <2>4
  <2>6. m - 1 \in 1 .. Len(e) /\ ~(m =< m - 1)
    BY <2>4, <2>5
  <2>7. f[m - 1] \in Seq(S)
    BY <2>3, <2>6
  <2>8. f[m] = f[m - 1] \o e[m]
    BY <2>1, <2>4, <2>5
  <2>9. f[m] \in Seq(S)
    BY <2>4, <2>7, <2>8
  <2> QED BY <2>9
<1> QED BY <1>1, <1>2

LEMMA AppendIs ==
    ASSUME NEW S, NEW s \in Seq(S), NEW x \in S
    PROVE  /\ Append(s, x) \in Seq(S) /\ Append(s, x) # <<>> /\ Len(Append(s, x)) = Len(s) + 1
           /\ Len(s) \in Nat
           /\ Append(s, x)[Len(s) + 1] = x /\ \A i \in 1 .. Len(s) : Append(s, x)[i] = s[i]
OBVIOUS

LEMMA FlatAppend ==
    ASSUME NEW S, NEW e \in Seq(Seq(S)), NEW x \in Seq(S)
    PROVE  Flat(Append(e, x)) = Flat(e) \o x
<1> DEFINE d == Append(e, x)
<1>0. /\ d \in Seq(Seq(S)) /\ d # <<>> /\ Len(d) = Len(e) + 1 /\ Len(e) \in Nat
      /\ d[Len(e) + 1] = x /\ \A i \in 1 .. Len(e) : d[i] = e[i]
  <2>1. e \in Seq(Seq(S)) /\ x \in Seq(S)
    OBVIOUS
  <2> QED BY <2>1, AppendIs DEF d
<1> HIDE DEF d
<1>1. PICK g : /\ Flat(d) = g[Len(d)]
               /\ \A i \in 1 .. Len(d) : g[i] = IF i = 1 THEN d[i] ELSE g[i - 1] \o d[i]
  BY <1>0, FlatIsLast
<1>2. CASE e = <<>>
  <2>1. Flat(d) = g[1] /\ g[1] = x
    BY <1>0, <1>1, <1>2
  <2>2. <<>> \o x = x
    OBVIOUS
  <2> QED BY <1>2, <2>1, <2>2, FlatEmpty DEF d
<1>3. CASE e # <<>>
  <2>1. PICK f : /\ Flat(e) = f[Len(e)]
                 /\ \A i \in 1 .. Len(e) : f[i] = IF i = 1 THEN e[i] ELSE f[i - 1] \o e[i]
    BY <1>3, FlatIsLast
  <2> DEFINE Bad == {i \in 1 .. Len(e) : f[i] # g[i]}
  <2>2. Bad = {}
    <3>1. SUFFICES ASSUME Bad # {} PROVE FALSE
      OBVIOUS
    <3>2. PICK m \in Bad : \A y \in Bad : m =< y
      <4>1. Bad \in SUBSET Nat
        OBVIOUS
      <4> QED BY <3>1, <4>1, LeastOne
    <3>3. m \in 1 .. Len(e) /\ m \in 1 .. Len(d) /\ d[m] = e[m]
      BY <1>0
    <3>4. m # 1
      BY <3>3, <2>1, <1>1
    <3>5. m - 1 \in 1 .. Len(e) /\ ~(m =< m - 1)
      BY <3>3, <3>4
    <3>6. f[m - 1] = g[m - 1]
      BY <3>2, <3>5
    <3>7. f[m] = f[m - 1] \o e[m] /\ g[m] = g[m - 1] \o d[m]
      BY <3>3, <3>4, <2>1, <1>1
    <3> QED BY <3>3, <3>6, <3>7
  <2>3. Len(e) \in 1 .. Len(e)
    BY <1>0, <1>3
  <2>4. f[Len(e)] = g[Len(e)]
    BY <2>2, <2>3
  <2>5. Len(d) \in 1 .. Len(d) /\ Len(d) # 1 /\ Len(d) - 1 = Len(e)
    BY <1>0, <2>3
  <2>6. g[Len(d)] = g[Len(e)] \o d[Len(d)]
    BY <1>1, <2>5
  <2> QED BY <1>0, <1>1, <2>1, <2>4, <2>6 DEF d
<1> QED BY <1>2, <1>3

LEMMA FlatHead ==
    ASSUME NEW S, NEW e \in Seq(Seq(S)), e # <<>>
    PROVE  Flat(e) = Head(e) \o Flat(Tail(e))
<1>4. \A a, b, c \in Seq(S) : (a \o b) \o c = a \o (b \o c)
  BY SMTT(30)
<1> DEFINE d == Tail(e)
<1>0. /\ d \in Seq(Seq(S)) /\ Len(e) = Len(d) + 1 /\ Len(d) \in Nat /\ Head(e) = e[1] /\ e[1] \in Seq(S)
      /\ \A i \in 1 .. Len(d) : d[i] = e[i + 1] /\ d[i] \in Seq(S)
  OBVIOUS
<1> HIDE DEF d
<1>1. PICK g : /\ Flat(e) = g[Len(e)]
               /\ \A i \in 1 .. Len(e) : g[i] = IF i = 1 THEN e[i] ELSE g[i - 1] \o e[i]
  BY FlatIsLast
<1>2. CASE d = <<>>
  <2>1. Flat(e) = g[1] /\ g[1] = e[1]
    BY <1>0, <1>1, <1>2
  <2>2. e[1] \o <<>> = e[1]
    BY <1>0
  <2> QED BY <1>0, <1>2, <2>1, <2>2, FlatEmpty DEF d
<1>3. CASE d # <<>>
  <2>1. PICK f : /\ Flat(d) = f[Len(d)]
                 /\ \A i \in 1 .. Len(d) : f[i] = IF i = 1 THEN d[i] ELSE f[i - 1] \o d[i]
    BY <1>0, <1>3, FlatIsLast
  <2> DEFINE Bad == {i \in 1 .. Len(d) : ~(f[i] \in Seq(S) /\ g[i + 1] = e[1] \o f[i])}
  <2>2. Bad = {}
    <3>1. SUFFICES ASSUME Bad # {} PROVE FALSE
      OBVIOUS
    <3>2. PICK m \in Bad : \A y \in Bad : m =< y
      <4>1. 1 .. Len(d) \in SUBSET Nat
        BY <1>0
      <4>2. Bad \in SUBSET (1 .. Len(d))
        OBVIOUS
      <4> QED BY <3>1, <4>1, <4>2, LeastOne
    <3>3. /\ m \in 1 .. Len(d) /\ m + 1 \in 1 .. Len(e) /\ m + 1 # 1 /\ (m + 1) - 1 = m
          /\ d[m] = e[m + 1] /\ d[m] \in Seq(S) /\ 1 \in 1 .. Len(e)
      BY <1>0
    <3>4. g[m + 1] = g[m] \o e[m + 1]
      BY <3>3, <1>1
    <3>5. CASE m = 1
      <4>1. f[1] = d[1] /\ g[1] = e[1]
        BY <3>3, <3>5, <2>1, <1>1
      <4> QED BY <3>3, <3>4, <3>5, <4>1
    <3>6. CASE m # 1
      <4>1. m - 1 \in 1 .. Len(d) /\ ~(m =< m - 1) /\ (m - 1) + 1 = m
        BY <3>3, <3>6
      <4>2. f[m - 1] \in Seq(S) /\ g[m] = e[1] \o f[m - 1]
        BY <3>2, <4>1
      <4>3. f[m] = f[m - 1] \o d[m]
        BY <3>3, <3>6, <2>1
      <4>4. f[m] \in Seq(S)
        BY <4>2, <4>3, <3>3
      <4>5. g[m + 1] = e[1] \o f[m]
        <5>1. (e[1] \o f[m - 1]) \o d[m] = e[1] \o (f[m - 1] \o d[m])
          <6>1. e[1] \in Seq(S) /\ f[m - 1] \in Seq(S) /\ d[m] \in Seq(S)
            BY <1>0, <4>2, <3>3
          <6> HIDE DEF Bad
          <6> QED BY <6>1, <1>4
        <5> QED BY <5>1, <3>4, <3>3, <4>2, <4>3
      <4> QED BY <4>4, <4>5
    <3> QED BY <3>5, <3>6
  <2>3. Len(d) \in 1 .. Len(d)
    BY <1>0, <1>3
  <2> QED BY <1>0, <1>1, <2>1, <2>2, <2>3 DEF d
<1> QED BY <1>2, <1>3

IsFold(iter, first, parts, m) == iter = [s \in SUBSET (1 .. m) |-> FoldAt(iter, first, parts, s)]

\* There is one list of steps for every fold, and the fold is its last.
LEMMA FoldExists ==
    ASSUME NEW first, NEW parts, NEW len \in Nat
    PROVE  \E iter : IsFold(iter, first, parts, len)
<1> DEFINE Bad == {m \in 0 .. len : ~ \E iter : IsFold(iter, first, parts, m)}
<1>1. SUFFICES ASSUME Bad # {} PROVE FALSE
  <2>1. len \in 0 .. len
    OBVIOUS
  <2> QED BY <2>1
<1>2. PICK m \in Bad : \A y \in Bad : m =< y
  <2>1. Bad \in SUBSET Nat
    OBVIOUS
  <2> QED BY <1>1, <2>1, LeastOne
<1>3. m # 0
  <2> DEFINE g == [s \in SUBSET (1 .. 0) |-> first]
  <2>1. \A s \in SUBSET (1 .. 0) : s = {}
    OBVIOUS
  <2>2. \A s \in SUBSET (1 .. 0) : FoldAt(g, first, parts, s) = first
    BY <2>1 DEF FoldAt
  <2>3. g = [s \in SUBSET (1 .. 0) |-> FoldAt(g, first, parts, s)]
    BY <2>2
  <2>4. IsFold(g, first, parts, 0)
    <3> HIDE DEF g
    <3> QED BY <2>3 DEF IsFold
  <2> QED BY <2>4
<1>4. m - 1 \in 0 .. len /\ m \in 0 .. len /\ ~(m =< m - 1)
  BY <1>3
<1>5. PICK g : IsFold(g, first, parts, m - 1)
  BY <1>2, <1>4
<1> DEFINE h == [s \in SUBSET (1 .. m) |-> IF m \in s THEN AddPart(g[s \ {m}], parts[m]) ELSE g[s]]
<1>6. \A s \in SUBSET (1 .. m) : m \notin s => s \in SUBSET (1 .. m - 1)
  BY <1>4
<1>7. \A s \in SUBSET (1 .. m) : h[s] = FoldAt(h, first, parts, s)
  <2> SUFFICES ASSUME NEW s \in SUBSET (1 .. m) PROVE h[s] = FoldAt(h, first, parts, s)
    OBVIOUS
  <2>0. h[s] = IF m \in s THEN AddPart(g[s \ {m}], parts[m]) ELSE g[s]
    OBVIOUS
  <2>1. \A x : s \ {x} \in SUBSET (1 .. m)
    OBVIOUS
  <2>2. \A x : h[s \ {x}] = IF m \in s \ {x} THEN AddPart(g[(s \ {x}) \ {m}], parts[m]) ELSE g[s \ {x}]
    BY <2>1
  <2> HIDE DEF h
  <2>3. CASE m \in s
    <3>1. Max(s) = m
      <4>1. s \subseteq Int /\ \A y \in s : m >= y
        BY <1>4
      <4>2. \A x \in s : x >= m => x = m
        BY <4>1, <1>4
      <4>3. m = CHOOSE x \in s : \A y \in s : x >= y
        BY <2>3, <4>1, <4>2
      <4> QED BY <4>3 DEF Max
    <3>2. h[s \ {m}] = g[s \ {m}]
      BY <2>2
    <3> QED BY <2>0, <2>3, <3>1, <3>2 DEF FoldAt
  <2>4. CASE m \notin s
    <3>1. g[s] = FoldAt(g, first, parts, s)
      <4>1. s \in SUBSET (1 .. m - 1)
        BY <2>4, <1>6
      <4> QED BY <4>1, <1>5 DEF IsFold
    <3>2. \A x : h[s \ {x}] = g[s \ {x}]
      BY <2>2, <2>4
    <3>3. FoldAt(g, first, parts, s) = FoldAt(h, first, parts, s)
      BY <3>2 DEF FoldAt
    <3> QED BY <2>0, <2>4, <3>1, <3>3
  <2> QED BY <2>3, <2>4
<1>8. IsFold(h, first, parts, m)
  <2>1. h = [s \in SUBSET (1 .. m) |-> h[s]]
    OBVIOUS
  <2> HIDE DEF h
  <2> QED BY <2>1, <1>7 DEF IsFold
<1> QED BY <1>8

\* What the fold makes of a list of parts, part by part.
FoldsBy(f, first, parts) ==
    /\ Folding(first, parts) = f[Len(parts)] /\ f[0] = first
    /\ \A i \in 1 .. Len(parts) : f[i] = AddPart(f[i - 1], parts[i])

LEMMA FoldIsSteps ==
    ASSUME NEW first, NEW S, NEW parts \in Seq(S)
    PROVE  \E f : FoldsBy(f, first, parts)
<1>1. Len(parts) \in Nat /\ DOMAIN parts = 1 .. Len(parts)
  OBVIOUS
<1> DEFINE g == CHOOSE iter : IsFold(iter, first, parts, Len(parts))
<1>2. IsFold(g, first, parts, Len(parts))
  BY <1>1, FoldExists
<1>3. Folding(first, parts) = g[1 .. Len(parts)]
  BY <1>1, FoldIsIter DEF IsFold
<1> HIDE DEF g
<1>4. \A s \in SUBSET (1 .. Len(parts)) : g[s] = FoldAt(g, first, parts, s)
  BY <1>2 DEF IsFold
<1>5. \A i \in 1 .. Len(parts) : g[1 .. i] = AddPart(g[1 .. i - 1], parts[i])
  <2> SUFFICES ASSUME NEW i \in 1 .. Len(parts) PROVE g[1 .. i] = AddPart(g[1 .. i - 1], parts[i])
    OBVIOUS
  <2>1. i \in Nat /\ i \in 1 .. i /\ 1 .. i \subseteq Int /\ \A y \in 1 .. i : i >= y
    BY <1>1
  <2>2. \A x \in 1 .. i : x >= i => x = i
    BY <2>1
  <2>3. Max(1 .. i) = i
    <3>1. i = CHOOSE x \in 1 .. i : \A y \in 1 .. i : x >= y
      BY <2>1, <2>2
    <3> QED BY <3>1 DEF Max
  <2>4. (1 .. i) \ {i} = 1 .. i - 1
    BY <2>1
  <2>5. 1 .. i \in SUBSET (1 .. Len(parts)) /\ 1 .. i # {}
    <3>1. \A y \in 1 .. i : y \in 1 .. Len(parts)
      BY <1>1
    <3>2. i \in 1 .. i
      BY <1>1
    <3> QED BY <3>1, <3>2
  <2> QED BY <1>4, <2>3, <2>4, <2>5 DEF FoldAt
<1>6. g[1 .. 0] = first
  <2>1. 1 .. 0 = {} /\ 1 .. 0 \in SUBSET (1 .. Len(parts))
    BY <1>1
  <2> QED BY <1>4, <2>1 DEF FoldAt
<1> DEFINE f == [i \in 0 .. Len(parts) |-> g[1 .. i]]
<1>7. f[Len(parts)] = g[1 .. Len(parts)] /\ f[0] = g[1 .. 0]
  BY <1>1
<1>8. \A i \in 1 .. Len(parts) : f[i] = g[1 .. i] /\ f[i - 1] = g[1 .. i - 1]
  BY <1>1
<1> HIDE DEF f
<1>9. FoldsBy(f, first, parts)
  BY <1>3, <1>5, <1>6, <1>7, <1>8 DEF FoldsBy
<1> QED BY <1>9

IsEntries(e) == e \in Seq(Seq(Int)) /\ \A i \in 1 .. Len(e) : Len(e[i]) \in 1 .. MaxEntry
IsEntry(p) == p \in Seq(Int) /\ Len(p) \in 1 .. MaxEntry

LEMMA NoEntries == IsEntries(<<>>) /\ Fits(<<>>)
<1>1. MaxLines \in Nat /\ MaxBytes \in Nat
  BY LimitsAssumption
<1>2. <<>> \in Seq(Seq(Int)) /\ Len(<<>>) = 0
  OBVIOUS
<1> QED BY <1>1, <1>2, FlatEmpty DEF IsEntries, Fits

LEMMA SameList ==
    ASSUME NEW S, NEW a \in Seq(S), NEW b \in Seq(S), Len(a) = Len(b), \A i \in 1 .. Len(b) : a[i] = b[i]
    PROVE  a = b
OBVIOUS

LEMMA AppendAt ==
    ASSUME NEW S, NEW s \in Seq(S), NEW x \in S
    PROVE  /\ Append(s, x) \in Seq(S) /\ Len(Append(s, x)) = Len(s) + 1 /\ Len(s) \in Nat
           /\ \A i \in 1 .. Len(s) + 1 : Append(s, x)[i] = IF i = Len(s) + 1 THEN x ELSE s[i]
OBVIOUS

LEMMA Joins == \A a, b, c \in Seq(Int) : (a \o b) \o c = a \o (b \o c)
BY SMTT(30)

LEMMA FrontIs ==
    ASSUME NEW S, NEW e \in Seq(S), e # <<>>
    PROVE  /\ Front(e) \in Seq(S) /\ Len(Front(e)) = Len(e) - 1 /\ Last(e) = e[Len(e)] /\ Last(e) \in S
           /\ \A i \in 1 .. Len(Front(e)) : Front(e)[i] = e[i]
           /\ e = Append(Front(e), Last(e))
<1>1. Len(e) \in Nat /\ Len(e) \in 1 .. Len(e) /\ Len(e) - 1 \in Nat
  OBVIOUS
<1>2. Last(e) = e[Len(e)] /\ Last(e) \in S
  BY <1>1 DEF Last
<1>3. Front(e) \in Seq(S)
  <2>1. SubSeq(e, 1, Len(e) - 1) \in Seq(S)
    BY <1>1
  <2> QED BY <2>1 DEF Front
<1>4. Len(Front(e)) = Len(e) - 1 /\ \A i \in 1 .. Len(Front(e)) : Front(e)[i] = e[i]
  <2>1. Len(SubSeq(e, 1, Len(e) - 1)) = Len(e) - 1
    <3>1. \A i \in 1 .. Len(e) - 1 : e[i] \in S
      BY <1>1
    <3>2. PICK k \in Int : k = Len(e) - 1
      BY <1>1
    <3>3. Len(SubSeq(e, 1, k)) = IF 1 <= k THEN k - 1 + 1 ELSE 0
      BY <3>1, <3>2, SubSeqProperties
    <3> QED BY <3>2, <3>3, <1>1
  <2>2. \A i \in 1 .. Len(e) - 1 : SubSeq(e, 1, Len(e) - 1)[i] = e[i]
    BY <1>1
  <2> QED BY <2>1, <2>2 DEF Front
<1>5. e = Append(Front(e), Last(e))
  <2>1. PICK f : f = Front(e)
    OBVIOUS
  <2>2. PICK l : l = Last(e)
    OBVIOUS
  <2>3. /\ Append(f, l) \in Seq(S) /\ Len(Append(f, l)) = Len(e)
        /\ \A i \in 1 .. Len(e) : Append(f, l)[i] = e[i]
    BY <2>1, <2>2, <1>1, <1>2, <1>3, <1>4, AppendAt
  <2>4. Append(f, l) = e
    BY <2>3
  <2> QED BY <2>1, <2>2, <2>4
<1> QED BY <1>2, <1>3, <1>4, <1>5

\* A part that is added comes last, and no entry is gone for it.
LEMMA AddPartIs ==
    ASSUME NEW e, IsEntries(e), NEW p, IsEntry(p)
    PROVE  /\ IsEntries(AddPart(e, p)) /\ Flat(AddPart(e, p)) = Flat(e) \o p
           /\ Len(AddPart(e, p)) >= Len(e)
<1>1. /\ e \in Seq(Seq(Int)) /\ \A i \in 1 .. Len(e) : Len(e[i]) \in 1 .. MaxEntry
      /\ p \in Seq(Int) /\ Len(p) \in 1 .. MaxEntry /\ Len(e) \in Nat /\ MaxEntry \in Nat
  BY LimitsAssumption DEF IsEntries, IsEntry
<1>2. CASE Open(e) /\ Len(Last(e)) + Len(p) <= MaxEntry
  <2>1. e # <<>> /\ Len(e) \in 1 .. Len(e)
    BY <1>1, <1>2 DEF Open
  <2> DEFINE f == Front(e)
             l == Last(e)
  <2>2. /\ f \in Seq(Seq(Int)) /\ Len(f) = Len(e) - 1 /\ e = Append(f, l)
        /\ l \in Seq(Int) /\ \A i \in 1 .. Len(f) : f[i] = e[i]
    BY <1>1, <2>1, FrontIs
  <2>3. AddPart(e, p) = Append(f, l \o p)
    BY <1>2 DEF AddPart
  <2> HIDE DEF f, l
  <2>4. l \o p \in Seq(Int) /\ Len(l \o p) = Len(l) + Len(p) /\ l \o p \in Seq(Int)
    BY <2>2, <1>1
  <2>5. Flat(f) \in Seq(Int)
    BY <2>2, FlatType
  <2>6. Flat(e) = Flat(f) \o l
    BY <2>2, FlatAppend
  <2>7. Flat(Append(f, l \o p)) = Flat(f) \o (l \o p)
    BY <2>2, <2>4, FlatAppend
  <2>8. (Flat(f) \o l) \o p = Flat(f) \o (l \o p)
    BY <2>2, <2>5, <1>1, Joins
  <2>9. Len(l \o p) \in 1 .. MaxEntry
    <3>1. Len(l) + Len(p) <= MaxEntry
      BY <1>2 DEF l
    <3>2. Len(l) \in Nat
      BY <2>2
    <3> QED BY <3>1, <3>2, <2>4, <1>1
  <2>10. /\ Append(f, l \o p) \in Seq(Seq(Int)) /\ Len(Append(f, l \o p)) = Len(e)
         /\ \A i \in 1 .. Len(e) : Append(f, l \o p)[i] = IF i = Len(e) THEN l \o p ELSE e[i]
    <3>1. PICK x : x = l \o p
      OBVIOUS
    <3>2. x \in Seq(Int) /\ Len(f) + 1 = Len(e)
      BY <3>1, <2>2, <2>4, <1>1
    <3>3. /\ Append(f, x) \in Seq(Seq(Int)) /\ Len(Append(f, x)) = Len(e)
          /\ \A i \in 1 .. Len(e) : Append(f, x)[i] = IF i = Len(e) THEN x ELSE f[i]
      BY <3>2, <2>2, AppendAt
    <3>4. \A i \in 1 .. Len(e) : i # Len(e) => i \in 1 .. Len(f)
      BY <2>2, <1>1
    <3> QED BY <3>1, <3>3, <3>4, <2>2
  <2>11. \A i \in 1 .. Len(Append(f, l \o p)) : Len(Append(f, l \o p)[i]) \in 1 .. MaxEntry
    BY <2>9, <2>10, <1>1
  <2>12. IsEntries(Append(f, l \o p))
    BY <2>10, <2>11 DEF IsEntries
  <2> QED BY <2>3, <2>6, <2>7, <2>8, <2>12, <2>10, <1>1
<1>3. CASE ~(Open(e) /\ Len(Last(e)) + Len(p) <= MaxEntry)
  <2>1. AddPart(e, p) = Append(e, p)
    BY <1>3 DEF AddPart
  <2>2. Flat(Append(e, p)) = Flat(e) \o p
    BY <1>1, FlatAppend
  <2>3. /\ Append(e, p) \in Seq(Seq(Int)) /\ Len(Append(e, p)) = Len(e) + 1
        /\ \A i \in 1 .. Len(e) + 1 : Append(e, p)[i] = IF i = Len(e) + 1 THEN p ELSE e[i]
    BY <1>1
  <2>4. IsEntries(Append(e, p))
    BY <2>3, <1>1 DEF IsEntries
  <2> QED BY <2>1, <2>2, <2>3, <2>4, <1>1
<1> QED BY <1>2, <1>3

\* What comes after the first i entries and part i + 1 is what comes after i parts.
LEMMA SubSeqGrows ==
    ASSUME NEW S, NEW s \in Seq(S), NEW i \in 1 .. Len(s)
    PROVE  /\ SubSeq(s, 1, i - 1) \in Seq(S) /\ s[i] \in S
           /\ SubSeq(s, 1, i) = Append(SubSeq(s, 1, i - 1), s[i])
<1>1. i \in Nat /\ Len(s) \in Nat /\ i <= Len(s) /\ 1 <= i
  OBVIOUS
<1>2. PICK a : a = SubSeq(s, 1, i - 1)
  OBVIOUS
<1>3. PICK b : b = SubSeq(s, 1, i)
  OBVIOUS
<1>4. a \in Seq(S) /\ b \in Seq(S) /\ s[i] \in S
  BY <1>1, <1>2, <1>3
<1>5. Len(a) = i - 1
  <2>1. \A j \in 1 .. i - 1 : s[j] \in S
    BY <1>1
  <2>2. PICK k \in Int : k = i - 1
    BY <1>1
  <2>3. Len(SubSeq(s, 1, k)) = IF 1 <= k THEN k - 1 + 1 ELSE 0
    BY <2>1, <2>2, SubSeqProperties
  <2> QED BY <2>2, <2>3, <1>1, <1>2
<1>6. Len(b) = i
  BY <1>1, <1>3
<1>7. \A j \in 1 .. i - 1 : a[j] = s[j]
  BY <1>1, <1>2
<1>8. \A j \in 1 .. i : b[j] = s[j]
  BY <1>1, <1>3
<1>9. /\ Append(a, s[i]) \in Seq(S) /\ Len(Append(a, s[i])) = i
      /\ \A j \in 1 .. i : Append(a, s[i])[j] = IF j = i THEN s[i] ELSE a[j]
  <2>1. PICK x : x = s[i]
    OBVIOUS
  <2>2. /\ Append(a, x) \in Seq(S) /\ Len(Append(a, x)) = Len(a) + 1
        /\ \A j \in 1 .. Len(a) + 1 : Append(a, x)[j] = IF j = Len(a) + 1 THEN x ELSE a[j]
    BY <2>1, <1>4, AppendAt
  <2>3. Len(a) + 1 = i
    BY <1>1, <1>5
  <2> QED BY <2>1, <2>2, <2>3
<1>10. \A j \in 1 .. i : j # i => j \in 1 .. i - 1
  BY <1>1
<1>11. \A j \in 1 .. i : Append(a, s[i])[j] = b[j]
  BY <1>7, <1>8, <1>9, <1>10
<1>12. Append(a, s[i]) = b
  BY <1>4, <1>6, <1>9, <1>11
<1> QED BY <1>2, <1>3, <1>4, <1>12

Folded(x, e, d, i) == IsEntries(x) /\ Flat(x) = Flat(e) \o Flat(SubSeq(d, 1, i)) /\ Len(x) >= Len(e)

LEMMA FoldStep ==
    ASSUME NEW e, IsEntries(e), NEW d, IsEntries(d), NEW i \in 1 .. Len(d), NEW x, Folded(x, e, d, i - 1)
    PROVE  Folded(AddPart(x, d[i]), e, d, i)
<1>1. e \in Seq(Seq(Int)) /\ d \in Seq(Seq(Int)) /\ d[i] \in Seq(Int) /\ x \in Seq(Seq(Int))
  BY DEF IsEntries, Folded
<1>2. IsEntry(d[i])
  BY <1>1 DEF IsEntries, IsEntry
<1>3. IsEntries(x)
  BY DEF Folded
<1>4. PICK y : y = AddPart(x, d[i])
  OBVIOUS
<1>5. IsEntries(y) /\ Flat(y) = Flat(x) \o d[i] /\ Len(y) >= Len(x)
  BY <1>2, <1>3, <1>4, AddPartIs
<1>6. PICK a : a = SubSeq(d, 1, i - 1)
  OBVIOUS
<1>7. a \in Seq(Seq(Int)) /\ SubSeq(d, 1, i) = Append(a, d[i])
  BY <1>1, <1>6, SubSeqGrows
<1>8. Flat(SubSeq(d, 1, i)) = Flat(a) \o d[i]
  BY <1>1, <1>7, FlatAppend
<1>9. Flat(e) \in Seq(Int) /\ Flat(a) \in Seq(Int)
  BY <1>1, <1>7, FlatType
<1>10. Flat(x) = Flat(e) \o Flat(a)
  BY <1>6 DEF Folded
<1>11. Flat(y) = Flat(e) \o Flat(SubSeq(d, 1, i))
  <2>1. (Flat(e) \o Flat(a)) \o d[i] = Flat(e) \o (Flat(a) \o d[i])
    BY <1>1, <1>9, Joins
  <2>2. Flat(y) = (Flat(e) \o Flat(a)) \o d[i]
    BY <1>5, <1>10
  <2> QED BY <2>1, <2>2, <1>8
<1>12. Len(y) >= Len(e)
  <2>1. Len(x) >= Len(e)
    BY DEF Folded
  <2>2. Len(x) \in Nat /\ Len(e) \in Nat
    BY <1>1
  <2>3. Len(y) \in Nat
    BY <1>5 DEF IsEntries
  <2> QED BY <2>1, <2>2, <2>3, <1>5
<1> QED BY <1>4, <1>5, <1>11, <1>12 DEF Folded

\* The parts that are added come last, in their order.
LEMMA FoldIs ==
    ASSUME NEW e, IsEntries(e), NEW d, IsEntries(d)
    PROVE  Folded(Folding(e, d), e, d, Len(d))
<1>1. e \in Seq(Seq(Int)) /\ d \in Seq(Seq(Int)) /\ Len(d) \in Nat /\ Len(e) \in Nat
  BY DEF IsEntries
<1>0. PICK f : FoldsBy(f, e, d)
  BY <1>1, FoldIsSteps
<1>2. /\ Folding(e, d) = f[Len(d)] /\ f[0] = e
      /\ \A i \in 1 .. Len(d) : f[i] = AddPart(f[i - 1], d[i])
  BY <1>0 DEF FoldsBy
<1> DEFINE Bad == {i \in 0 .. Len(d) : ~Folded(f[i], e, d, i)}
<1>3. SUFFICES ASSUME Bad # {} PROVE FALSE
  <2>1. Len(d) \in 0 .. Len(d)
    BY <1>1
  <2> QED BY <2>1, <1>2
<1>4. PICK m \in Bad : \A y \in Bad : m =< y
  <2>1. 0 .. Len(d) \in SUBSET Nat
    BY <1>1
  <2>2. Bad \in SUBSET Nat
    BY <2>1
  <2> QED BY <1>3, <2>2, LeastOne
<1>5. Folded(f[0], e, d, 0)
  <2>1. SubSeq(d, 1, 0) = <<>>
    BY <1>1
  <2>2. Flat(e) \o <<>> = Flat(e)
    <3>1. Flat(e) \in Seq(Int)
      BY <1>1, FlatType
    <3> QED BY <3>1
  <2>3. Flat(SubSeq(d, 1, 0)) = <<>>
    BY <2>1, FlatEmpty
  <2>4. Folded(e, e, d, 0)
    <3>1. Len(e) >= Len(e)
      BY <1>1
    <3>2. Flat(e) = Flat(e) \o Flat(SubSeq(d, 1, 0))
      BY <2>2, <2>3
    <3> QED BY <3>1, <3>2 DEF Folded
  <2> QED BY <1>2, <2>4
<1>6. m \in 1 .. Len(d) /\ m - 1 \in 0 .. Len(d) /\ ~(m =< m - 1)
  BY <1>1, <1>5
<1>7. Folded(f[m - 1], e, d, m - 1)
  BY <1>4, <1>6
<1>8. PICK x : x = f[m - 1]
  OBVIOUS
<1>9. Folded(AddPart(x, d[m]), e, d, m)
  BY <1>6, <1>7, <1>8, FoldStep
<1> QED BY <1>2, <1>6, <1>8, <1>9

LEMMA PartsAre ==
    ASSUME NEW data \in Seq(Int)
    PROVE  IsEntries(Parts(data)) /\ Flat(Parts(data)) = data
<1> DEFINE d == [i \in 1 .. Len(data) |-> <<data[i]>>]
<1>1. MaxEntry \in Nat \ {0}
  BY LimitsAssumption
<1>2. /\ d \in Seq(Seq(Int)) /\ Len(d) = Len(data) /\ Len(data) \in Nat
      /\ \A i \in 1 .. Len(d) : d[i] = <<data[i]>> /\ data[i] \in Int
  <2>1. \A i \in 1 .. Len(data) : <<data[i]>> \in Seq(Int)
    OBVIOUS
  <2> QED BY <2>1
<1> HIDE DEF d
<1>3. IsEntries(d)
  <2>1. \A x : Len(<<x>>) = 1
    OBVIOUS
  <2>2. \A i \in 1 .. Len(d) : Len(d[i]) = 1
    BY <1>2, <2>1
  <2>3. 1 \in 1 .. MaxEntry
    BY <1>1
  <2> QED BY <1>2, <2>2, <2>3 DEF IsEntries
<1>4. Folded(Folding(<<>>, d), <<>>, d, Len(d))
  BY <1>3, NoEntries, FoldIs
<1>5. PICK x : x = Folding(<<>>, d)
  OBVIOUS
<1>6. IsEntries(x) /\ Flat(x) = <<>> \o Flat(SubSeq(d, 1, Len(d)))
  BY <1>4, <1>5, FlatEmpty DEF Folded
<1>7. SubSeq(d, 1, Len(d)) = d
  BY <1>2, SubSeqFull
<1>8. Flat(d) \in Seq(Int)
  BY <1>2, FlatType
<1>9. Flat(x) = Flat(d)
  <2>1. <<>> \o Flat(d) = Flat(d)
    BY <1>8, ConcatEmptySeq
  <2> QED BY <1>6, <1>7, <2>1
<1>10. Flat(d) = data
  <2> DEFINE Bad == {i \in 0 .. Len(data) : Flat(SubSeq(d, 1, i)) # SubSeq(data, 1, i)}
  <2>1. SUFFICES ASSUME Bad # {} PROVE FALSE
    <3>1. Len(data) \in 0 .. Len(data)
      BY <1>2
    <3>2. SubSeq(data, 1, Len(data)) = data
      BY SubSeqFull
    <3> QED BY <3>1, <3>2, <1>2, <1>7
  <2>2. PICK m \in Bad : \A y \in Bad : m =< y
    <3>1. 0 .. Len(data) \in SUBSET Nat
      BY <1>2
    <3>2. Bad \in SUBSET Nat
      BY <3>1
    <3> QED BY <2>1, <3>2, LeastOne
  <2>3. m # 0
    <3>1. SubSeq(d, 1, 0) = <<>> /\ SubSeq(data, 1, 0) = <<>>
      BY <1>2
    <3> QED BY <3>1, FlatEmpty
  <2>4. m \in 1 .. Len(data) /\ m - 1 \in 0 .. Len(data) /\ ~(m =< m - 1) /\ m \in 1 .. Len(d)
    BY <1>2, <2>3
  <2>5. Flat(SubSeq(d, 1, m - 1)) = SubSeq(data, 1, m - 1)
    BY <2>2, <2>4
  <2>6. PICK a : a = SubSeq(d, 1, m - 1)
    OBVIOUS
  <2>7. a \in Seq(Seq(Int)) /\ d[m] \in Seq(Int) /\ SubSeq(d, 1, m) = Append(a, d[m])
    BY <1>2, <2>4, <2>6, SubSeqGrows
  <2>8. Flat(SubSeq(d, 1, m)) = Flat(a) \o d[m]
    BY <2>7, FlatAppend
  <2>9. PICK b : b = SubSeq(data, 1, m - 1)
    OBVIOUS
  <2>10. b \in Seq(Int) /\ data[m] \in Int /\ SubSeq(data, 1, m) = Append(b, data[m])
    BY <2>4, <2>9, SubSeqGrows
  <2>11. Append(b, data[m]) = b \o <<data[m]>>
    BY <2>10, AppendIsConcat
  <2> QED BY <1>2, <2>4, <2>5, <2>6, <2>8, <2>9, <2>10, <2>11
<1> QED BY <1>5, <1>6, <1>9, <1>10, PartsIsFolding DEF d

\* What After and Tail leave.
LEMMA AfterIs ==
    ASSUME NEW S, NEW e \in Seq(S), NEW k \in 0 .. Len(e)
    PROVE  /\ After(e, k) \in Seq(S) /\ Len(After(e, k)) = Len(e) - k
           /\ \A i \in 1 .. Len(e) - k : After(e, k)[i] = e[k + i]
<1>1. Len(e) \in Nat /\ k \in Nat /\ k + 1 \in Int /\ Len(e) \in Int /\ k =< Len(e)
  OBVIOUS
<1>2. \A i \in k + 1 .. Len(e) : e[i] \in S
  BY <1>1
<1>3. PICK m \in Int : m = k + 1
  BY <1>1
<1>4. \A i \in m .. Len(e) : e[i] \in S
  BY <1>2, <1>3
<1>5. /\ SubSeq(e, m, Len(e)) \in Seq(S)
      /\ Len(SubSeq(e, m, Len(e))) = IF m <= Len(e) THEN Len(e) - m + 1 ELSE 0
      /\ \A i \in 1 .. Len(e) - m + 1 : SubSeq(e, m, Len(e))[i] = e[m + i - 1]
  BY <1>1, <1>4, SubSeqProperties
<1>6. Len(e) - m + 1 = Len(e) - k /\ \A i \in 1 .. Len(e) - k : m + i - 1 = k + i
  BY <1>1, <1>3
<1>7. (IF m <= Len(e) THEN Len(e) - m + 1 ELSE 0) = Len(e) - k
  BY <1>1, <1>3
<1>8. After(e, k) = SubSeq(e, m, Len(e))
  BY <1>3 DEF After
<1> QED BY <1>5, <1>6, <1>7, <1>8

LEMMA TailIs ==
    ASSUME NEW S, NEW s \in Seq(S), s # <<>>
    PROVE  /\ Tail(s) \in Seq(S) /\ Len(Tail(s)) \in Nat /\ Len(s) = Len(Tail(s)) + 1
           /\ Head(s) \in S /\ Head(s) = s[1] /\ \A i \in 1 .. Len(Tail(s)) : Tail(s)[i] = s[i + 1]
OBVIOUS

LEMMA AfterTail ==
    ASSUME NEW S, NEW e \in Seq(S), NEW k \in 1 .. Len(e)
    PROVE  /\ After(e, k - 1) # <<>> /\ Head(After(e, k - 1)) = e[k] /\ Tail(After(e, k - 1)) = After(e, k)
           /\ e[k] \in S
<1>1. k - 1 \in 0 .. Len(e) /\ k \in 0 .. Len(e) /\ Len(e) \in Nat /\ k \in Nat /\ k >= 1 /\ e[k] \in S
  OBVIOUS
<1>2. PICK a : a = After(e, k - 1)
  OBVIOUS
<1>3. PICK b : b = After(e, k)
  OBVIOUS
<1>4. PICK j : j = k - 1
  OBVIOUS
<1>5. a \in Seq(S) /\ Len(a) = Len(e) - j /\ \A i \in 1 .. Len(e) - j : a[i] = e[j + i]
  BY <1>1, <1>2, <1>4, AfterIs
<1>6. b \in Seq(S) /\ Len(b) = Len(e) - k /\ \A i \in 1 .. Len(e) - k : b[i] = e[k + i]
  BY <1>1, <1>3, AfterIs
<1>7. Len(a) = Len(b) + 1 /\ Len(a) >= 1 /\ Len(b) \in Nat
  BY <1>1, <1>4, <1>5, <1>6
<1>8. a # <<>> /\ Head(a) = a[1]
  BY <1>5, <1>7
<1>9. a[1] = e[k]
  BY <1>1, <1>4, <1>5, <1>7
<1>10. Tail(a) \in Seq(S) /\ Len(Tail(a)) = Len(b)
  BY <1>5, <1>7, <1>8
<1>11. \A i \in 1 .. Len(b) : Tail(a)[i] = a[i + 1]
  BY <1>5, <1>7, <1>8
<1>12. \A i \in 1 .. Len(b) : a[i + 1] = b[i]
  <2> SUFFICES ASSUME NEW i \in 1 .. Len(b) PROVE a[i + 1] = b[i]
    OBVIOUS
  <2>1. i + 1 \in 1 .. Len(e) - j /\ i \in 1 .. Len(e) - k /\ j + (i + 1) = k + i
    BY <1>1, <1>4, <1>5, <1>6, <1>7
  <2>2. a[i + 1] = e[j + (i + 1)] /\ b[i] = e[k + i]
    BY <2>1, <1>5, <1>6
  <2> QED BY <2>1, <2>2
<1>13. Tail(a) = b
  <2>1. PICK c : c = Tail(a)
    OBVIOUS
  <2>2. c \in Seq(S) /\ Len(c) = Len(b) /\ \A i \in 1 .. Len(b) : c[i] = b[i]
    BY <2>1, <1>10, <1>11, <1>12
  <2>3. c = b
    BY <2>2, <1>6, SameList
  <2> QED BY <2>1, <2>3
<1> QED BY <1>1, <1>2, <1>3, <1>8, <1>9, <1>13

\* What is gone with the first k entries, and what is left.
Leaves(e, x) == IsEntries(x) /\ \E gone \in Seq(Int) : Flat(e) = gone \o Flat(x)

LEMMA AfterLeaves ==
    ASSUME NEW e, IsEntries(e), NEW k \in 0 .. Len(e)
    PROVE  Leaves(e, After(e, k))
<1>1. e \in Seq(Seq(Int)) /\ Len(e) \in Nat
  BY DEF IsEntries
<1> DEFINE Bad == {m \in 0 .. Len(e) : ~Leaves(e, After(e, m))}
<1>2. SUFFICES ASSUME Bad # {} PROVE FALSE
  OBVIOUS
<1>3. PICK m \in Bad : \A y \in Bad : m =< y
  <2>1. 0 .. Len(e) \in SUBSET Nat
    BY <1>1
  <2>2. Bad \in SUBSET Nat
    BY <2>1
  <2> QED BY <1>2, <2>2, LeastOne
<1>4. \A j \in 0 .. Len(e) : IsEntries(After(e, j))
  <2> SUFFICES ASSUME NEW j \in 0 .. Len(e) PROVE IsEntries(After(e, j))
    OBVIOUS
  <2>1. PICK a : a = After(e, j)
    OBVIOUS
  <2>2. a \in Seq(Seq(Int)) /\ Len(a) = Len(e) - j /\ \A i \in 1 .. Len(e) - j : a[i] = e[j + i]
    BY <1>1, <2>1, AfterIs
  <2>3. \A i \in 1 .. Len(e) - j : j + i \in 1 .. Len(e)
    BY <1>1
  <2>4. \A i \in 1 .. Len(a) : Len(a[i]) \in 1 .. MaxEntry
    BY <2>2, <2>3 DEF IsEntries
  <2> QED BY <2>1, <2>2, <2>4 DEF IsEntries
<1>5. Flat(e) \in Seq(Int)
  BY <1>1, FlatType
<1>6. m # 0
  <2>1. After(e, 0) = e
    <3>1. 0 + 1 = 1
      OBVIOUS
    <3>2. SubSeq(e, 1, Len(e)) = e
      BY <1>1, SubSeqFull
    <3> QED BY <3>1, <3>2 DEF After
  <2>2. Flat(e) = <<>> \o Flat(e) /\ <<>> \in Seq(Int)
    BY <1>5
  <2>3. Leaves(e, e)
    BY <2>2 DEF Leaves
  <2> QED BY <2>1, <2>3
<1>7. m \in 1 .. Len(e) /\ m - 1 \in 0 .. Len(e) /\ ~(m =< m - 1)
  BY <1>1, <1>6
<1>8. PICK a : a = After(e, m - 1)
  OBVIOUS
<1>9. PICK b : b = After(e, m)
  OBVIOUS
<1>10. Leaves(e, a)
  BY <1>3, <1>7, <1>8
<1>11. PICK gone \in Seq(Int) : Flat(e) = gone \o Flat(a)
  BY <1>10 DEF Leaves
<1>12. a \in Seq(Seq(Int)) /\ a # <<>> /\ Head(a) = e[m] /\ Tail(a) = b /\ e[m] \in Seq(Int)
  <2>1. a \in Seq(Seq(Int))
    BY <1>4, <1>7, <1>8 DEF IsEntries
  <2>2. a # <<>> /\ Head(a) = e[m] /\ Tail(a) = b /\ e[m] \in Seq(Int)
    BY <1>1, <1>7, <1>8, <1>9, AfterTail
  <2> QED BY <2>1, <2>2
<1>13. Flat(a) = e[m] \o Flat(b)
  <2>1. Flat(a) = Head(a) \o Flat(Tail(a))
    BY <1>12, FlatHead
  <2> QED BY <1>12, <2>1
<1>14. IsEntries(b) /\ Flat(b) \in Seq(Int)
  <2>1. IsEntries(b)
    BY <1>4, <1>9, <1>7
  <2>2. b \in Seq(Seq(Int))
    BY <2>1 DEF IsEntries
  <2> QED BY <2>1, <2>2, FlatType
<1>15. (gone \o e[m]) \o Flat(b) = gone \o (e[m] \o Flat(b))
  BY <1>12, <1>14, Joins
<1>16. gone \o e[m] \in Seq(Int)
  BY <1>12
<1>17. Flat(e) = (gone \o e[m]) \o Flat(b)
  BY <1>11, <1>13, <1>15
<1>18. Leaves(e, b)
  BY <1>14, <1>16, <1>17 DEF Leaves
<1> QED BY <1>9, <1>18

\* Eviction gives up the oldest, and no more than the limits ask for.
Spares(e, x) == x = e \/ Len(x) = MaxLines \/ Len(Flat(x)) + MaxEntry > MaxBytes

\* Evict leaves an end of the entries, that fits.
LEMMA EvictIs ==
    ASSUME NEW e, IsEntries(e)
    PROVE  Leaves(e, Evict(e)) /\ Fits(Evict(e)) /\ Spares(e, Evict(e))
<1>1. /\ e \in Seq(Seq(Int)) /\ Len(e) \in Nat
      /\ MaxLines \in Nat \ {0} /\ MaxBytes \in Nat \ {0} /\ MaxEntry \in Nat \ {0}
  BY LimitsAssumption DEF IsEntries
<1> DEFINE Least(k) == Fits(After(e, k)) /\ \A j \in 0 .. k - 1 : ~Fits(After(e, j))
           good == {k \in 0 .. Len(e) : Fits(After(e, k))}
<1>2. good # {}
  <2>1. PICK a : a = After(e, Len(e))
    OBVIOUS
  <2>2. Len(e) \in 0 .. Len(e)
    BY <1>1
  <2>3. a \in Seq(Seq(Int)) /\ Len(a) = Len(e) - Len(e)
    BY <1>1, <2>1, <2>2, AfterIs
  <2>4. a = <<>>
    BY <1>1, <2>3
  <2>5. Fits(a)
    BY <2>4, NoEntries
  <2> QED BY <2>1, <2>2, <2>5
<1>3. PICK k \in good : \A y \in good : k =< y
  <2>1. 0 .. Len(e) \in SUBSET Nat
    BY <1>1
  <2>2. good \in SUBSET Nat
    BY <2>1
  <2> QED BY <1>2, <2>2, LeastOne
<1>4. k \in 0 .. Len(e) /\ Least(k)
  <2>1. k \in 0 .. Len(e)
    OBVIOUS
  <2>2. \A j \in 0 .. k - 1 : j \in 0 .. Len(e) /\ ~(k =< j)
    BY <2>1, <1>1
  <2>3. \A j \in 0 .. k - 1 : ~Fits(After(e, j))
    BY <2>2, <1>3
  <2> QED BY <2>1, <2>3
<1>5. PICK c : c = CHOOSE l \in 0 .. Len(e) : Least(l)
  OBVIOUS
<1>6. c \in 0 .. Len(e) /\ Least(c)
  BY <1>4, <1>5
<1>7. Evict(e) = After(e, c)
  BY <1>5 DEF Evict
<1>8. PICK x : x = After(e, c)
  OBVIOUS
<1>9. Leaves(e, x) /\ Fits(x)
  BY <1>6, <1>8, AfterLeaves
<1>10. Spares(e, x)
  <2>1. CASE c = 0
    <3>1. SubSeq(e, 1, Len(e)) = e
      BY <1>1, SubSeqFull
    <3>2. x = e
      BY <2>1, <1>8, <3>1 DEF After
    <3> QED BY <3>2 DEF Spares
  <2>2. CASE c # 0
    <3>1. c \in 1 .. Len(e) /\ c - 1 \in 0 .. Len(e) /\ c - 1 \in 0 .. c - 1
      BY <2>2, <1>1, <1>6
    <3>2. PICK a : a = After(e, c - 1)
      OBVIOUS
    <3>3. ~Fits(a)
      BY <1>6, <3>1, <3>2
    <3>4. a # <<>> /\ Head(a) = e[c] /\ Tail(a) = x /\ e[c] \in Seq(Int)
      BY <1>1, <1>8, <3>1, <3>2, AfterTail
    <3>5. a \in Seq(Seq(Int))
      <4>1. Leaves(e, a)
        BY <3>1, <3>2, AfterLeaves
      <4> QED BY <4>1 DEF Leaves, IsEntries
    <3>6. Flat(a) = e[c] \o Flat(x)
      <4>1. Flat(a) = Head(a) \o Flat(Tail(a))
        BY <3>4, <3>5, FlatHead
      <4> QED BY <4>1, <3>4
    <3>7. Len(e[c]) \in 1 .. MaxEntry
      BY <3>1 DEF IsEntries
    <3>8. x \in Seq(Seq(Int)) /\ Len(x) \in Nat /\ Len(a) = Len(x) + 1
      BY <3>4, <3>5, TailIs
    <3>9. Flat(x) \in Seq(Int) /\ Len(Flat(x)) \in Nat
      BY <3>8, FlatType
    <3>10. Len(Flat(a)) = Len(e[c]) + Len(Flat(x))
      BY <3>4, <3>6, <3>9
    <3>11. Len(x) =< MaxLines
      BY <1>9 DEF Fits
    <3>12. Len(a) > MaxLines \/ Len(Flat(a)) > MaxBytes
      BY <3>3, <3>8, <3>10, <3>9, <3>7, <1>1, SMTT(30) DEF Fits
    <3>13. Len(x) = MaxLines \/ Len(Flat(x)) + MaxEntry > MaxBytes
      BY <3>12, <3>11, <3>10, <3>9, <3>8, <3>7, <1>1, SMTT(30)
    <3> QED BY <3>13 DEF Spares
  <2> QED BY <2>1, <2>2
<1> QED BY <1>7, <1>8, <1>9, <1>10

\* What the ring holds is the end of what it held and was given; nothing more is
\* gone than its limits ask for.
Holds(x, e, data) ==
    /\ IsEntries(x) /\ Fits(x)
    /\ \E gone \in Seq(Int) : Flat(e) \o data = gone \o Flat(x)
    /\ \/ Flat(x) = Flat(e) \o data /\ Len(x) >= Len(e)
       \/ Len(x) = MaxLines
       \/ Len(Flat(x)) + MaxEntry > MaxBytes

\* Push keeps entries and an end of what was there with what came.
LEMMA PushIs ==
    ASSUME NEW e, IsEntries(e), NEW data \in Seq(Int)
    PROVE  Holds(Push(e, data), e, data)
<1>1. PICK d : d = Parts(data)
  OBVIOUS
<1>2. IsEntries(d) /\ Flat(d) = data
  BY <1>1, PartsAre
<1>3. PICK x : x = Folding(e, d)
  OBVIOUS
<1>4. Folded(x, e, d, Len(d))
  BY <1>2, <1>3, FoldIs
<1>5. SubSeq(d, 1, Len(d)) = d
  <2>1. d \in Seq(Seq(Int))
    BY <1>2 DEF IsEntries
  <2> QED BY <2>1, SubSeqFull
<1>6. IsEntries(x) /\ Flat(x) = Flat(e) \o data /\ Len(x) >= Len(e)
  BY <1>2, <1>4, <1>5 DEF Folded
<1>7. PICK y : y = Evict(x)
  OBVIOUS
<1>8. Leaves(x, y) /\ Fits(y) /\ Spares(x, y)
  BY <1>6, <1>7, EvictIs
<1>9. Push(e, data) = y
  BY <1>1, <1>3, <1>7, PushIsFolding
<1>10. \E gone \in Seq(Int) : Flat(e) \o data = gone \o Flat(y)
  BY <1>6, <1>8 DEF Leaves
<1>11. \/ Flat(y) = Flat(e) \o data /\ Len(y) >= Len(e)
       \/ Len(y) = MaxLines
       \/ Len(Flat(y)) + MaxEntry > MaxBytes
  BY <1>6, <1>8 DEF Spares
<1>12. IsEntries(y)
  BY <1>8 DEF Leaves
<1> QED BY <1>8, <1>9, <1>10, <1>11, <1>12 DEF Holds

\* A list that ends with r, and counts up to it.
EndsAt(s, r) == s \in Seq(Int) /\ \A i \in 1 .. Len(s) : s[i] = r - Len(s) + i

LEMMA EndsAtIsRun ==
    ASSUME NEW r \in Int, NEW s, EndsAt(s, r)
    PROVE  s = Run(r - Len(s) + 1, r)
<1>1. s \in Seq(Int) /\ Len(s) \in Nat /\ \A i \in 1 .. Len(s) : s[i] = r - Len(s) + i
  BY DEF EndsAt
<1>2. PICK l : l = Len(s)
  OBVIOUS
<1>3. r - (r - l + 1) + 1 = l /\ \A i \in 1 .. l : (r - l + 1) + i - 1 = r - l + i
  BY <1>1, <1>2
<1>4. s = [i \in 1 .. l |-> s[i]]
  BY <1>1, <1>2
<1>5. Run(r - l + 1, r) = [i \in 1 .. l |-> r - l + i]
  BY <1>3 DEF Run
<1> QED BY <1>1, <1>2, <1>4, <1>5

\* Run is what ends at its last piece.
LEMMA RunEndsAt ==
    ASSUME NEW r \in Int, NEW n \in Nat
    PROVE  Run(r - n + 1, r) \in Seq(Int) /\ Len(Run(r - n + 1, r)) = n /\ EndsAt(Run(r - n + 1, r), r)
<1>1. r - (r - n + 1) + 1 = n /\ \A i \in 1 .. n : (r - n + 1) + i - 1 = r - n + i
  OBVIOUS
<1>2. Run(r - n + 1, r) = [i \in 1 .. n |-> r - n + i]
  BY <1>1 DEF Run
<1>3. PICK s : s = [i \in 1 .. n |-> r - n + i]
  OBVIOUS
<1>4. s \in Seq(Int) /\ Len(s) = n /\ \A i \in 1 .. n : s[i] = r - n + i
  BY <1>3
<1> QED BY <1>2, <1>3, <1>4 DEF EndsAt

LEMMA NoneEndsAt == \A r : EndsAt(<<>>, r)
BY DEF EndsAt

LEMMA ConcatAt ==
    ASSUME NEW S, NEW s \in Seq(S), NEW t \in Seq(S)
    PROVE  /\ s \o t \in Seq(S) /\ Len(s \o t) = Len(s) + Len(t) /\ Len(s) \in Nat /\ Len(t) \in Nat
           /\ \A i \in 1 .. Len(s) : (s \o t)[i] = s[i]
           /\ \A i \in 1 .. Len(t) : (s \o t)[Len(s) + i] = t[i]
OBVIOUS

\* One list after the other that goes on where it ended; and the end of a list.
LEMMA EndsAtConcat ==
    ASSUME NEW r \in Int, NEW s, EndsAt(s, r), NEW t, EndsAt(t, r + Len(t))
    PROVE  EndsAt(s \o t, r + Len(t))
<1>1. /\ s \in Seq(Int) /\ t \in Seq(Int) /\ Len(s) \in Nat /\ Len(t) \in Nat
      /\ \A i \in 1 .. Len(s) : s[i] = r - Len(s) + i
      /\ \A i \in 1 .. Len(t) : t[i] = (r + Len(t)) - Len(t) + i
  BY DEF EndsAt
<1>2. PICK u : u = s \o t
  OBVIOUS
<1>3. /\ u \in Seq(Int) /\ Len(u) = Len(s) + Len(t)
      /\ \A i \in 1 .. Len(s) : u[i] = s[i]
      /\ \A i \in 1 .. Len(t) : u[Len(s) + i] = t[i]
  BY <1>1, <1>2, ConcatAt
<1>4. \A i \in 1 .. Len(u) : u[i] = (r + Len(t)) - Len(u) + i
  <2> SUFFICES ASSUME NEW i \in 1 .. Len(u) PROVE u[i] = (r + Len(t)) - Len(u) + i
    OBVIOUS
  <2>1. CASE i <= Len(s)
    <3>1. i \in 1 .. Len(s)
      BY <2>1, <1>1, <1>3
    <3> QED BY <3>1, <1>1, <1>3
  <2>2. CASE ~(i <= Len(s))
    <3>1. PICK j : j = i - Len(s)
      OBVIOUS
    <3>2. j \in 1 .. Len(t) /\ i = Len(s) + j
      BY <3>1, <2>2, <1>1, <1>3
    <3>3. u[i] = t[j]
      BY <3>2, <1>3
    <3> QED BY <3>2, <3>3, <1>1, <1>3
  <2> QED BY <2>1, <2>2
<1> QED BY <1>2, <1>3, <1>4 DEF EndsAt

LEMMA EndsAtEnd ==
    ASSUME NEW r \in Int, NEW gone \in Seq(Int), NEW s \in Seq(Int), EndsAt(gone \o s, r)
    PROVE  EndsAt(s, r)
<1>1. PICK u : u = gone \o s
  OBVIOUS
<1>2. /\ u \in Seq(Int) /\ Len(u) = Len(gone) + Len(s) /\ Len(gone) \in Nat /\ Len(s) \in Nat
      /\ \A i \in 1 .. Len(s) : u[Len(gone) + i] = s[i]
  BY <1>1, ConcatAt
<1>3. \A i \in 1 .. Len(u) : u[i] = r - Len(u) + i
  BY <1>1 DEF EndsAt
<1>4. \A i \in 1 .. Len(s) : s[i] = r - Len(s) + i
  <2> SUFFICES ASSUME NEW i \in 1 .. Len(s) PROVE s[i] = r - Len(s) + i
    OBVIOUS
  <2>1. Len(gone) + i \in 1 .. Len(u)
    BY <1>2
  <2>2. u[Len(gone) + i] = r - Len(u) + (Len(gone) + i)
    BY <2>1, <1>3
  <2> QED BY <2>2, <1>2
<1> QED BY <1>4 DEF EndsAt

\* The ring after r pieces, c of them read when it was last emptied.
RingHolds(x, r, c) ==
    /\ IsEntries(x) /\ Fits(x) /\ EndsAt(Flat(x), r) /\ Len(Flat(x)) <= r - c
    /\ \/ Len(Flat(x)) = r - c
       \/ Len(x) = MaxLines
       \/ Len(Flat(x)) + MaxEntry > MaxBytes
\* The log after w pieces.
LogHolds(l, w) ==
    /\ l \in [old : Seq(Int), now : Seq(Int)] /\ Len(l.now) < MaxLog
    /\ EndsAt(l.old \o l.now, w)
    /\ Len(l.old \o l.now) = w \/ Len(l.old \o l.now) >= MaxLog

\* Each of the two keeps the end of the output when more of it comes.
LEMMA RingPushed ==
    ASSUME NEW r \in Nat, NEW c \in Nat, NEW n \in Nat, NEW x, RingHolds(x, r, c)
    PROVE  RingHolds(Push(x, Run(r + 1, r + n)), r + n, c)
<1>0. MaxLines \in Nat /\ MaxBytes \in Nat /\ MaxEntry \in Nat
  BY LimitsAssumption
<1>1. PICK d : d = Run(r + 1, r + n)
  OBVIOUS
<1>2. d \in Seq(Int) /\ Len(d) = n /\ EndsAt(d, r + n)
  <2>1. PICK q \in Int : q = r + n
    OBVIOUS
  <2>2. q - n + 1 = r + 1
    BY <2>1
  <2>3. Run(q - n + 1, q) \in Seq(Int) /\ Len(Run(q - n + 1, q)) = n /\ EndsAt(Run(q - n + 1, q), q)
    BY <2>1, RunEndsAt
  <2> QED BY <1>1, <2>1, <2>2, <2>3
<1>3. IsEntries(x)
  BY DEF RingHolds
<1>4. PICK y : y = Push(x, d)
  OBVIOUS
<1>5. Holds(y, x, d)
  BY <1>2, <1>3, <1>4, PushIs
<1>6. PICK gone \in Seq(Int) : Flat(x) \o d = gone \o Flat(y)
  BY <1>5 DEF Holds
<1>7. IsEntries(y) /\ Fits(y)
  BY <1>5 DEF Holds
<1>8. Flat(x) \in Seq(Int) /\ Flat(y) \in Seq(Int)
  <2>1. x \in Seq(Seq(Int)) /\ y \in Seq(Seq(Int))
    BY <1>3, <1>7 DEF IsEntries
  <2> QED BY <2>1, FlatType
<1>9. PICK f : f = Flat(x)
  OBVIOUS
<1>10. PICK g : g = Flat(y)
  OBVIOUS
<1>11. EndsAt(f \o d, r + n)
  <2>1. EndsAt(f, r)
    BY <1>9 DEF RingHolds
  <2>2. EndsAt(f \o d, r + Len(d))
    <3>1. EndsAt(d, r + Len(d))
      BY <1>2
    <3> QED BY <2>1, <3>1, EndsAtConcat
  <2> QED BY <2>2, <1>2
<1>12. EndsAt(g, r + n)
  <2>1. PICK q \in Int : q = r + n
    OBVIOUS
  <2>2. EndsAt(gone \o g, q)
    BY <1>6, <1>9, <1>10, <1>11, <2>1
  <2> QED BY <2>1, <2>2, <1>8, <1>10, EndsAtEnd
<1>13. Len(f) \in Nat /\ Len(g) \in Nat /\ Len(f) <= r - c /\ Len(f \o d) = Len(f) + n
  BY <1>2, <1>8, <1>9, <1>10 DEF RingHolds
<1>14. Len(g) <= Len(f) + n
  <2>1. Len(gone \o g) = Len(gone) + Len(g) /\ Len(gone) \in Nat
    BY <1>8, <1>10
  <2>2. gone \o g = f \o d
    BY <1>6, <1>9, <1>10
  <2> QED BY <2>1, <2>2, <1>13
<1>15. Len(g) = (r + n) - c \/ Len(y) = MaxLines \/ Len(g) + MaxEntry > MaxBytes
  <2>1. CASE g = f \o d /\ Len(y) >= Len(x)
    <3>1. Len(g) = Len(f) + n
      BY <2>1, <1>13
    <3>2. Len(x) \in Nat /\ Len(y) \in Nat /\ Len(y) <= MaxLines
      BY <1>3, <1>7 DEF IsEntries, Fits
    <3>3. Len(f) = r - c \/ Len(x) = MaxLines \/ Len(f) + MaxEntry > MaxBytes
      BY <1>9 DEF RingHolds
    <3>4. PICK lf \in Nat : lf = Len(f)
      BY <1>13
    <3>5. PICK lg \in Nat : lg = Len(g)
      BY <1>13
    <3>6. PICK lx \in Nat : lx = Len(x)
      BY <3>2
    <3>7. PICK ly \in Nat : ly = Len(y)
      BY <3>2
    <3>8. lg = lf + n /\ ly >= lx /\ ly <= MaxLines
      BY <2>1, <3>1, <3>2, <3>4, <3>5, <3>6, <3>7
    <3>9. lf = r - c \/ lx = MaxLines \/ lf + MaxEntry > MaxBytes
      BY <3>3, <3>4, <3>6
    <3>10. lg = (r + n) - c \/ ly = MaxLines \/ lg + MaxEntry > MaxBytes
      BY <3>8, <3>9, <1>0
    <3> QED BY <3>5, <3>7, <3>10
  <2>2. CASE Len(y) = MaxLines \/ Len(g) + MaxEntry > MaxBytes
    BY <2>2
  <2> QED BY <1>5, <1>9, <1>10, <2>1, <2>2 DEF Holds
<1>16. Len(g) <= (r + n) - c
  BY <1>13, <1>14
<1>17. RingHolds(y, r + n, c)
  BY <1>7, <1>10, <1>12, <1>15, <1>16 DEF RingHolds
<1> QED BY <1>1, <1>4, <1>17

LEMMA RingCleared ==
    ASSUME NEW r \in Nat
    PROVE  RingHolds(<<>>, r, r)
<1>1. Flat(<<>>) = <<>> /\ Len(<<>>) = 0 /\ r - r = 0
  BY FlatEmpty
<1>2. EndsAt(Flat(<<>>), r)
  BY <1>1, NoneEndsAt
<1>3. Len(Flat(<<>>)) = r - r /\ Len(Flat(<<>>)) <= r - r
  BY <1>1
<1> QED BY <1>2, <1>3, NoEntries DEF RingHolds

LEMMA LogAppended ==
    ASSUME NEW w \in Int, NEW l, LogHolds(l, w), NEW d, EndsAt(d, w + Len(d))
    PROVE  LogHolds(AppendLog(l, d), w + Len(d))
<1>0. MaxLog \in Nat \ {0}
  BY LimitsAssumption
<1>1. /\ l \in [old : Seq(Int), now : Seq(Int)] /\ Len(l.now) < MaxLog
      /\ EndsAt(l.old \o l.now, w)
      /\ Len(l.old \o l.now) = w \/ Len(l.old \o l.now) >= MaxLog
  BY DEF LogHolds
<1>2. PICK o : o = l.old
  OBVIOUS
<1>3. PICK s : s = l.now
  OBVIOUS
<1>4. o \in Seq(Int) /\ s \in Seq(Int) /\ d \in Seq(Int) /\ Len(d) \in Nat /\ Len(s) \in Nat /\ Len(o) \in Nat
  BY <1>1, <1>2, <1>3 DEF EndsAt
<1>5. s \o d \in Seq(Int) /\ Len(s \o d) = Len(s) + Len(d)
  BY <1>4
<1>6. (o \o s) \o d = o \o (s \o d)
  BY <1>4, Joins
<1>7. EndsAt((o \o s) \o d, w + Len(d))
  <2>1. EndsAt(o \o s, w)
    BY <1>1, <1>2, <1>3
  <2> QED BY <2>1, EndsAtConcat
<1>8. Len(o \o s) \in Nat /\ Len((o \o s) \o d) = Len(o \o s) + Len(d) /\ Len(o \o (s \o d)) = Len(o) + Len(s \o d)
  <2>1. o \o s \in Seq(Int)
    BY <1>4
  <2> QED BY <1>4, <1>5, <2>1, ConcatAt
<1>9. PICK k : k = AppendLog(l, d)
  OBVIOUS
<1>10. CASE Len(s) + Len(d) < MaxLog
  <2>1. k = [l EXCEPT !.now = l.now \o d]
    BY <1>3, <1>9, <1>10 DEF AppendLog
  <2>2. k \in [old : Seq(Int), now : Seq(Int)] /\ k.old = o /\ k.now = s \o d
    BY <2>1, <1>1, <1>2, <1>3, <1>5
  <2>3. EndsAt(k.old \o k.now, w + Len(d))
    BY <2>2, <1>6, <1>7
  <2>4. Len(k.old \o k.now) = Len(o \o s) + Len(d)
    BY <2>2, <1>6, <1>8
  <2>5. Len(o \o s) = w \/ Len(o \o s) >= MaxLog
    BY <1>1, <1>2, <1>3
  <2>6. Len(k.old \o k.now) = w + Len(d) \/ Len(k.old \o k.now) >= MaxLog
    <3>1. PICK a : a = Len(k.old \o k.now)
      OBVIOUS
    <3>2. PICK b : b = Len(o \o s)
      OBVIOUS
    <3>3. a = b + Len(d) /\ b \in Nat /\ Len(d) \in Nat /\ (b = w \/ b >= MaxLog)
      BY <2>4, <2>5, <3>1, <3>2, <1>4, <1>8
    <3>4. a = w + Len(d) \/ a >= MaxLog
      BY <3>3, <1>0
    <3> QED BY <3>1, <3>4
  <2>7. Len(k.now) < MaxLog
    BY <2>2, <1>5, <1>10
  <2> QED BY <2>2, <2>3, <2>6, <2>7, <1>9 DEF LogHolds
<1>11. CASE ~(Len(s) + Len(d) < MaxLog)
  <2>1. k = [old |-> s \o d, now |-> <<>>]
    BY <1>3, <1>9, <1>11 DEF AppendLog
  <2>2. k \in [old : Seq(Int), now : Seq(Int)] /\ k.old = s \o d /\ k.now = <<>>
    <3>1. <<>> \in Seq(Int)
      OBVIOUS
    <3> QED BY <2>1, <3>1, <1>5
  <2>3. k.old \o k.now = s \o d
    <3>1. (s \o d) \o <<>> = s \o d
      BY <1>5
    <3> QED BY <2>2, <3>1
  <2>4. EndsAt(s \o d, w + Len(d))
    <3>1. PICK q \in Int : q = w + Len(d)
      BY <1>4
    <3>2. EndsAt(o \o (s \o d), q)
      BY <1>6, <1>7, <3>1
    <3> QED BY <3>1, <3>2, <1>4, <1>5, EndsAtEnd
  <2>5. Len(s \o d) >= MaxLog
    BY <1>5, <1>11, <1>4, <1>0
  <2>6. Len(k.now) < MaxLog
    <3>1. Len(<<>>) = 0
      OBVIOUS
    <3> QED BY <2>2, <3>1, <1>0
  <2> QED BY <2>2, <2>3, <2>4, <2>5, <2>6, <1>9 DEF LogHolds
<1> QED BY <1>10, <1>11

-----------------------------------------------------------------------------
(* What the thread that reads keeps: the history and the transcript           *)

HistoryInv ==
    /\ scene \in Scenes /\ read \in Nat /\ read <= scene.pieces
    /\ reader \in {"read", "send", "done"} /\ (chunk = <<>> <=> reader # "send")
    /\ EndsAt(chunk, read) /\ cleared \in Nat /\ cleared <= read
    /\ RingHolds(ring, read, cleared)
    /\ LogHolds(log, read - Len(chunk))

historyVars == <<scene, reader, chunk, read, ring, log, cleared>>

\* Ring and log, from the start and in every step.
LEMMA HistoryInit == OutputInit => HistoryInv
<1> SUFFICES ASSUME OutputInit PROVE HistoryInv
  OBVIOUS
<1>1. /\ scene \in Scenes /\ reader \in scene.reader /\ chunk = <<>> /\ read = 0 /\ ring = <<>>
      /\ log = [old |-> <<>>, now |-> <<>>] /\ cleared = 0
  BY DEF OutputInit
<1>2. scene.pieces \in Nat /\ reader \in {"read", "done"}
  BY <1>1, LimitsAssumption
<1>3. EndsAt(<<>>, 0) /\ Len(<<>>) = 0 /\ 0 - 0 = 0
  BY NoneEndsAt
<1>4. RingHolds(<<>>, 0, 0)
  BY RingCleared
<1>5. LogHolds(log, 0)
  <2>1. MaxLog \in Nat \ {0} /\ <<>> \in Seq(Int) /\ <<>> \o <<>> = <<>>
    BY LimitsAssumption
  <2>2. log \in [old : Seq(Int), now : Seq(Int)] /\ log.old = <<>> /\ log.now = <<>>
    BY <1>1, <2>1
  <2>3. log.old \o log.now = <<>>
    BY <2>1, <2>2
  <2> QED BY <2>1, <2>2, <2>3, <1>3 DEF LogHolds
<1> QED BY <1>1, <1>2, <1>3, <1>4, <1>5 DEF HistoryInv

LEMMA HistoryRead == HistoryInv /\ Read => HistoryInv'
<1> SUFFICES ASSUME HistoryInv, Read PROVE HistoryInv'
  OBVIOUS
<1>1. PICK n \in 1 .. ReadChunk : /\ read + n <= scene.pieces /\ read' = read + n
                                  /\ chunk' = Run(read + 1, read + n) /\ ring' = Push(ring, chunk')
  BY DEF Read
<1>2. reader = "read" /\ reader' = "send" /\ scene' = scene /\ log' = log /\ cleared' = cleared
  BY DEF Read, waiting
<1>3. n \in Nat /\ n >= 1 /\ read \in Nat
  BY LimitsAssumption DEF HistoryInv
<1>4. chunk = <<>> /\ Len(chunk) = 0
  BY <1>2 DEF HistoryInv
<1>5. PICK d : d = Run(read + 1, read + n)
  OBVIOUS
<1>6. d \in Seq(Int) /\ Len(d) = n /\ EndsAt(d, read + n)
  <2>1. PICK q \in Int : q = read + n
    BY <1>3
  <2>2. q - n + 1 = read + 1
    BY <2>1, <1>3
  <2>3. Run(q - n + 1, q) \in Seq(Int) /\ Len(Run(q - n + 1, q)) = n /\ EndsAt(Run(q - n + 1, q), q)
    BY <2>1, <1>3, RunEndsAt
  <2> QED BY <1>5, <2>1, <2>2, <2>3
<1>7. d # <<>>
  BY <1>3, <1>6
<1>8. RingHolds(Push(ring, d), read + n, cleared)
  <2>1. RingHolds(ring, read, cleared) /\ cleared \in Nat
    BY DEF HistoryInv
  <2> QED BY <2>1, <1>3, <1>5, RingPushed
<1>9. chunk' = d /\ ring' = Push(ring, d)
  BY <1>1, <1>5
<1>10. LogHolds(log, read)
  BY <1>3, <1>4 DEF HistoryInv
<1>11. (read + n) - Len(d) = read
  BY <1>3, <1>6
<1>12. scene \in Scenes /\ cleared \in Nat /\ cleared <= read + n /\ read + n \in Nat
  BY <1>3 DEF HistoryInv
<1> QED BY <1>1, <1>2, <1>6, <1>7, <1>8, <1>9, <1>10, <1>11, <1>12 DEF HistoryInv

LEMMA HistorySend == HistoryInv /\ Send => HistoryInv'
<1> SUFFICES ASSUME HistoryInv, Send PROVE HistoryInv'
  OBVIOUS
<1>1. /\ reader = "send" /\ reader' = "read" /\ chunk' = <<>> /\ log' = AppendLog(log, chunk)
      /\ scene' = scene /\ read' = read /\ ring' = ring /\ cleared' = cleared
  BY DEF Send, waiting
<1>2. read \in Nat /\ EndsAt(chunk, read) /\ chunk \in Seq(Int) /\ Len(chunk) \in Nat
  BY DEF HistoryInv, EndsAt
<1>3. PICK w \in Int : w = read - Len(chunk)
  BY <1>2
<1>4. w + Len(chunk) = read /\ LogHolds(log, w)
  BY <1>2, <1>3 DEF HistoryInv
<1>5. LogHolds(AppendLog(log, chunk), read)
  <2>1. EndsAt(chunk, w + Len(chunk))
    BY <1>2, <1>4
  <2>2. LogHolds(AppendLog(log, chunk), w + Len(chunk))
    BY <1>4, <2>1, LogAppended
  <2> QED BY <1>4, <2>2
<1>6. Len(<<>>) = 0 /\ read - 0 = read /\ EndsAt(<<>>, read)
  BY <1>2, NoneEndsAt
<1> QED BY <1>1, <1>5, <1>6 DEF HistoryInv

LEMMA HistoryClear == HistoryInv /\ ring' = <<>> /\ cleared' = read
                      /\ UNCHANGED <<scene, reader, chunk, read, log>> => HistoryInv'
<1> SUFFICES ASSUME HistoryInv, ring' = <<>>, cleared' = read, UNCHANGED <<scene, reader, chunk, read, log>>
             PROVE  HistoryInv'
  OBVIOUS
<1>1. read \in Nat /\ read <= read
  BY DEF HistoryInv
<1>2. RingHolds(<<>>, read, read)
  BY <1>1, RingCleared
<1> QED BY <1>1, <1>2 DEF HistoryInv

LEMMA HistoryStays == HistoryInv /\ UNCHANGED historyVars => HistoryInv'
BY DEF HistoryInv, historyVars

LEMMA HistoryStep == HistoryInv /\ [OutputNext]_outputVars => HistoryInv'
<1> SUFFICES ASSUME HistoryInv, [OutputNext]_outputVars PROVE HistoryInv'
  OBVIOUS
<1>1. CASE Read
  BY <1>1, HistoryRead
<1>2. CASE Send
  BY <1>2, HistorySend
<1>3. CASE Eof
  BY <1>3 DEF HistoryInv, Eof, waiting
<1>4. CASE Die \/ Waiter \/ Tick
  <2>1. UNCHANGED historyVars
    BY <1>4 DEF historyVars, Die, Waiter, Tick, Outside, reading, waiting
  <2> QED BY <2>1, HistoryStays
<1>5. CASE Pump
  <2>1. UNCHANGED historyVars
    BY <1>5 DEF historyVars, Pump, Receive, Wake, SeeDone, EmitReady, Deliver, Drain, Flush, SinkExit,
                Outside, reading, waiting
  <2> QED BY <2>1, HistoryStays
<1>6. CASE Serve
  <2>1. UNCHANGED <<scene, reader, chunk, read, log>>
    BY <1>6 DEF Serve, waiting, reading
  <2>2. CASE Clear(Head(calls))
    BY <2>1, <2>2, HistoryClear DEF Clear
  <2>3. CASE Show(Head(calls)) \/ Hide(Head(calls))
    <3>1. UNCHANGED historyVars
      BY <2>1, <2>3 DEF Show, Hide, historyVars
    <3> QED BY <3>1, HistoryStays
  <2> QED BY <1>6, <2>2, <2>3 DEF Serve
<1>7. CASE Appear \/ Vanish \/ Wipe \/ Handle \/ Finish
  <2>1. UNCHANGED historyVars
    BY <1>7 DEF historyVars, Appear, Vanish, Wipe, Handle, Finish, Core, reading, waiting
  <2> QED BY <2>1, HistoryStays
<1>8. CASE UNCHANGED outputVars
  <2>1. UNCHANGED historyVars
    BY <1>8 DEF historyVars, outputVars, reading, waiting
  <2> QED BY <2>1, HistoryStays
<1> QED BY <1>1, <1>2, <1>3, <1>4, <1>5, <1>6, <1>7, <1>8 DEF OutputNext, Reader, Interface

\* What the two say is what KeepsTheEnd asks.
LEMMA HistoryKeepsTheEnd == HistoryInv => KeepsTheEnd
<1> SUFFICES ASSUME HistoryInv PROVE KeepsTheEnd
  OBVIOUS
<1>1. PICK kept : kept = Flat(ring)
  OBVIOUS
<1>2. PICK written : written = log.old \o log.now
  OBVIOUS
<1>3. PICK logged : logged = read - Len(chunk)
  OBVIOUS
<1>4. read \in Int /\ logged \in Int
  <2>1. chunk \in Seq(Int) /\ read \in Nat
    BY DEF HistoryInv, EndsAt
  <2> QED BY <1>3, <2>1
<1>5. kept = Run(read - Len(kept) + 1, read)
  <2>1. EndsAt(kept, read)
    BY <1>1 DEF HistoryInv, RingHolds
  <2> QED BY <1>4, <2>1, EndsAtIsRun
<1>6. written = Run(logged - Len(written) + 1, logged)
  <2>1. EndsAt(written, logged)
    BY <1>2, <1>3 DEF HistoryInv, LogHolds
  <2> QED BY <1>4, <2>1, EndsAtIsRun
<1>7. Len(kept) = read - cleared \/ Len(ring) = MaxLines \/ Len(kept) + MaxEntry > MaxBytes
  BY <1>1 DEF HistoryInv, RingHolds
<1>8. Len(written) = logged \/ Len(written) >= MaxLog
  BY <1>2, <1>3 DEF HistoryInv, LogHolds
<1> QED BY <1>1, <1>2, <1>3, <1>5, <1>6, <1>7, <1>8 DEF KeepsTheEnd

-----------------------------------------------------------------------------
(* What the pump keeps                                                        *)

LEMMA ToSetNone == ToSet(<<>>) = {}
BY DEF ToSet

LEMMA ToSetConcat == \A s, t \in Seq(Int) : ToSet(s \o t) = ToSet(s) \cup ToSet(t)
<1> SUFFICES ASSUME NEW s \in Seq(Int), NEW t \in Seq(Int)
             PROVE  ToSet(s \o t) = ToSet(s) \cup ToSet(t)
  OBVIOUS
<1>1. PICK u : u = s \o t
  OBVIOUS
<1>2. /\ u \in Seq(Int) /\ Len(u) = Len(s) + Len(t) /\ Len(s) \in Nat /\ Len(t) \in Nat
      /\ \A i \in 1 .. Len(s) : u[i] = s[i]
      /\ \A i \in 1 .. Len(t) : u[Len(s) + i] = t[i]
  BY <1>1, ConcatAt
<1>3. DOMAIN u = 1 .. Len(u) /\ DOMAIN s = 1 .. Len(s) /\ DOMAIN t = 1 .. Len(t)
  BY <1>2
<1>4. ToSet(u) \subseteq ToSet(s) \cup ToSet(t)
  <2> SUFFICES ASSUME NEW i \in 1 .. Len(u) PROVE u[i] \in ToSet(s) \cup ToSet(t)
    BY <1>3 DEF ToSet
  <2>1. CASE i <= Len(s)
    <3>1. i \in 1 .. Len(s)
      BY <2>1, <1>2
    <3> QED BY <3>1, <1>2, <1>3 DEF ToSet
  <2>2. CASE ~(i <= Len(s))
    <3>1. PICK j : j = i - Len(s)
      OBVIOUS
    <3>2. j \in 1 .. Len(t) /\ i = Len(s) + j
      BY <2>2, <3>1, <1>2
    <3> QED BY <3>2, <1>2, <1>3 DEF ToSet
  <2> QED BY <2>1, <2>2
<1>5. ToSet(s) \subseteq ToSet(u)
  <2> SUFFICES ASSUME NEW i \in 1 .. Len(s) PROVE s[i] \in ToSet(u)
    BY <1>3 DEF ToSet
  <2>1. i \in 1 .. Len(u)
    BY <1>2
  <2> QED BY <2>1, <1>2, <1>3 DEF ToSet
<1>6. ToSet(t) \subseteq ToSet(u)
  <2> SUFFICES ASSUME NEW i \in 1 .. Len(t) PROVE t[i] \in ToSet(u)
    BY <1>3 DEF ToSet
  <2>1. Len(s) + i \in 1 .. Len(u)
    BY <1>2
  <2> QED BY <2>1, <1>2, <1>3 DEF ToSet
<1> QED BY <1>1, <1>4, <1>5, <1>6

LEMMA ToSetEndsAt ==
    ASSUME NEW r \in Int, NEW s, EndsAt(s, r)
    PROVE  ToSet(s) = r - Len(s) + 1 .. r
<1>1. s \in Seq(Int) /\ Len(s) \in Nat /\ DOMAIN s = 1 .. Len(s) /\ \A i \in 1 .. Len(s) : s[i] = r - Len(s) + i
  BY DEF EndsAt
<1>2. ToSet(s) \subseteq r - Len(s) + 1 .. r
  BY <1>1 DEF ToSet
<1>3. ASSUME NEW n \in r - Len(s) + 1 .. r PROVE n \in ToSet(s)
  <2>1. PICK i : i = n - (r - Len(s))
    OBVIOUS
  <2>2. i \in 1 .. Len(s) /\ r - Len(s) + i = n
    BY <1>1, <2>1
  <2>3. s[i] = n
    BY <2>2, <1>1
  <2> QED BY <2>2, <2>3, <1>1 DEF ToSet
<1> QED BY <1>2, <1>3

StreamHolds ==
    /\ stream \in Seq(Seq(Int)) /\ Len(stream) <= Capacity /\ lagged \in BOOLEAN
    /\ raw \cup missed \cup ToSet(Flat(stream)) \cup ToSet(chunk) = 1 .. read
BatcherHolds ==
    /\ batcher \in [visible : BOOLEAN, pending : Seq(Int), ready : BOOLEAN]
    /\ batcher.visible \/ batcher.pending = <<>>
    /\ ToSet(batcher.pending) \subseteq 1 .. read
BatchHolds ==
    /\ batch \in Seq(Int) /\ ToSet(batch) \subseteq 1 .. read
    /\ events \in Seq(Seq(Int)) /\ ToSet(Flat(events)) \subseteq 0 .. read
StageHolds ==
    /\ alive \in BOOLEAN /\ waiter \in {"waits", "quiet", "posted"}
    /\ pump \in {"wait", "poll", "last", "drain", "flush", "exit", "over"}
    /\ pump \in {"last", "drain", "flush", "exit", "over"} => reader = "done"
    /\ pump \in {"flush", "exit", "over"} => stream = <<>> /\ ~lagged
    /\ pump \in {"exit", "over"} => batcher.pending = <<>>
    /\ pump = "over" => batch = <<>>
PumpInv == StreamHolds /\ BatcherHolds /\ BatchHolds /\ StageHolds

\* The channel, the batch and the pump, from the start and in every step.
LEMMA PumpInit == OutputInit => PumpInv
<1> SUFFICES ASSUME OutputInit PROVE PumpInv
  OBVIOUS
<1>1. <<>> \in Seq(Seq(Int)) /\ <<>> \in Seq(Int) /\ Len(<<>>) = 0 /\ 1 .. 0 = {} /\ Capacity \in Nat
  BY LimitsAssumption
<1>2. StreamHolds
  <2>1. /\ stream = <<>> /\ lagged = FALSE /\ raw = {} /\ missed = {} /\ chunk = <<>> /\ read = 0
    BY DEF OutputInit
  <2>2. raw \cup missed \cup ToSet(Flat(stream)) \cup ToSet(chunk) = 1 .. read
    BY <2>1, <1>1, FlatEmpty, ToSetNone
  <2>3. stream \in Seq(Seq(Int)) /\ lagged \in BOOLEAN
    BY <2>1, <1>1
  <2>4. Len(stream) <= Capacity
    <3>1. 0 <= Capacity
      BY <1>1
    <3> QED BY <2>1, <1>1, <3>1
  <2> QED BY <2>2, <2>3, <2>4 DEF StreamHolds
<1>3. batcher.pending = <<>> /\ batcher \in [visible : BOOLEAN, pending : Seq(Int), ready : BOOLEAN]
  BY <1>1 DEF OutputInit
<1>4. BatcherHolds
  BY <1>3, ToSetNone DEF BatcherHolds
<1>5. BatchHolds
  BY <1>1, FlatEmpty, ToSetNone DEF BatchHolds, OutputInit
<1>6. StageHolds
  BY DEF StageHolds, OutputInit
<1> QED BY <1>2, <1>4, <1>5, <1>6 DEF PumpInv

LEMMA StreamTake ==
    ASSUME StreamHolds, BatcherHolds, Take, UNCHANGED <<chunk, read>>
    PROVE  StreamHolds' /\ BatcherHolds'
<1>1. /\ stream # <<>> /\ stream' = Tail(stream) /\ raw' = raw \cup ToSet(Head(stream))
      /\ lagged' = lagged /\ missed' = missed
  BY DEF Take
<1>2. PICK h : h = Head(stream)
  OBVIOUS
<1>3. PICK t : t = Tail(stream)
  OBVIOUS
<1>4. /\ stream \in Seq(Seq(Int)) /\ Len(stream) <= Capacity /\ Capacity \in Nat
      /\ raw \cup missed \cup ToSet(Flat(stream)) \cup ToSet(chunk) = 1 .. read
  BY LimitsAssumption DEF StreamHolds
<1>5. h \in Seq(Int) /\ t \in Seq(Seq(Int)) /\ Len(t) \in Nat /\ Len(stream) = Len(t) + 1
  BY <1>1, <1>2, <1>3, <1>4, TailIs
<1>6. Flat(stream) = h \o Flat(t)
  BY <1>1, <1>2, <1>3, <1>4, FlatHead
<1>7. Flat(t) \in Seq(Int)
  BY <1>5, FlatType
<1>8. ToSet(Flat(stream)) = ToSet(h) \cup ToSet(Flat(t))
  BY <1>5, <1>6, <1>7, ToSetConcat
<1>9. Len(t) <= Capacity
  BY <1>4, <1>5
<1>10. (raw \cup ToSet(h)) \cup missed \cup ToSet(Flat(t)) \cup ToSet(chunk) = 1 .. read
  BY <1>4, <1>8
<1>11. StreamHolds'
  BY <1>1, <1>2, <1>3, <1>5, <1>9, <1>10 DEF StreamHolds
<1>12. BatcherHolds'
  <2>1. CASE ~batcher.visible
    <3>1. batcher' = batcher
      BY <2>1 DEF Take
    <3> QED BY <3>1 DEF BatcherHolds
  <2>2. CASE batcher.visible
    <3>1. PICK p : p = batcher.pending \o h
      OBVIOUS
    <3>2. batcher' = [batcher EXCEPT !.pending = p]
      BY <2>2, <1>2, <3>1 DEF Take
    <3>3. batcher.pending \in Seq(Int) /\ batcher \in [visible : BOOLEAN, pending : Seq(Int), ready : BOOLEAN]
      BY DEF BatcherHolds
    <3>4. p \in Seq(Int) /\ ToSet(p) = ToSet(batcher.pending) \cup ToSet(h)
      BY <1>5, <3>1, <3>3, ToSetConcat
    <3>5. /\ batcher' \in [visible : BOOLEAN, pending : Seq(Int), ready : BOOLEAN]
          /\ batcher'.pending = p /\ batcher'.visible = batcher.visible
      BY <3>2, <3>3, <3>4
    <3>6. ToSet(h) \subseteq 1 .. read
      BY <1>4, <1>8
    <3>7. ToSet(p) \subseteq 1 .. read
      BY <3>4, <3>6 DEF BatcherHolds
    <3> QED BY <2>2, <3>5, <3>7 DEF BatcherHolds
  <2> QED BY <2>1, <2>2
<1> QED BY <1>11, <1>12

LEMMA StreamSend ==
    ASSUME HistoryInv, StreamHolds, Send
    PROVE  StreamHolds'
<1> DEFINE full == Len(stream) = Capacity
<1>1. /\ chunk' = <<>> /\ stream' = Append(IF full THEN Tail(stream) ELSE stream, chunk)
      /\ lagged' = (lagged \/ full) /\ missed' = (IF full THEN missed \cup ToSet(Head(stream)) ELSE missed)
      /\ raw' = raw /\ read' = read
  BY DEF Send
<1>2. chunk \in Seq(Int)
  BY DEF HistoryInv, EndsAt
<1>3. /\ stream \in Seq(Seq(Int)) /\ Len(stream) <= Capacity /\ Len(stream) \in Nat /\ Capacity \in Nat \ {0}
      /\ lagged \in BOOLEAN
      /\ raw \cup missed \cup ToSet(Flat(stream)) \cup ToSet(chunk) = 1 .. read
  BY LimitsAssumption DEF StreamHolds
<1>4. lagged' \in BOOLEAN
  BY <1>1
<1>5. PICK s : s = IF full THEN Tail(stream) ELSE stream
  OBVIOUS
<1>6. PICK lost : lost = IF full THEN ToSet(Head(stream)) ELSE {}
  OBVIOUS
<1>7. s \in Seq(Seq(Int)) /\ Len(s) + 1 <= Capacity /\ ToSet(Flat(stream)) = lost \cup ToSet(Flat(s))
  <2>1. CASE full
    <3>1. stream # <<>>
      BY <2>1, <1>3
    <3>2. PICK h : h = Head(stream)
      OBVIOUS
    <3>3. s = Tail(stream)
      BY <2>1, <1>5
    <3>4. h \in Seq(Int) /\ s \in Seq(Seq(Int)) /\ Len(s) \in Nat /\ Len(stream) = Len(s) + 1
      BY <3>1, <3>2, <3>3, <1>3, TailIs
    <3>5. Flat(stream) = h \o Flat(s)
      BY <3>1, <3>2, <3>3, <1>3, FlatHead
    <3>6. Flat(s) \in Seq(Int)
      BY <3>4, FlatType
    <3>7. ToSet(Flat(stream)) = ToSet(h) \cup ToSet(Flat(s))
      BY <3>4, <3>5, <3>6, ToSetConcat
    <3> QED BY <2>1, <3>2, <3>4, <3>7, <1>3, <1>6
  <2>2. CASE ~full
    <3>1. s = stream /\ lost = {}
      BY <2>2, <1>5, <1>6
    <3> QED BY <2>2, <3>1, <1>3
  <2> QED BY <2>1, <2>2
<1>8. stream' = Append(s, chunk) /\ missed' = missed \cup lost
  BY <1>1, <1>5, <1>6
<1>9. Append(s, chunk) \in Seq(Seq(Int)) /\ Len(Append(s, chunk)) <= Capacity
  BY <1>2, <1>7, AppendAt
<1>10. Flat(Append(s, chunk)) = Flat(s) \o chunk
  BY <1>2, <1>7, FlatAppend
<1>11. ToSet(Flat(Append(s, chunk))) = ToSet(Flat(s)) \cup ToSet(chunk)
  <2>1. Flat(s) \in Seq(Int)
    BY <1>7, FlatType
  <2> QED BY <2>1, <1>2, <1>10, ToSetConcat
<1>12. raw \cup (missed \cup lost) \cup (ToSet(Flat(s)) \cup ToSet(chunk)) \cup {} = 1 .. read
  BY <1>3, <1>7
<1>13. raw' \cup missed' \cup ToSet(Flat(stream')) \cup ToSet(chunk') = 1 .. read'
  BY <1>1, <1>8, <1>11, <1>12, ToSetNone
<1> QED BY <1>4, <1>8, <1>9, <1>13 DEF StreamHolds

LEMMA PumpRead == HistoryInv /\ PumpInv /\ Read => PumpInv'
<1> SUFFICES ASSUME HistoryInv, PumpInv, Read PROVE PumpInv'
  OBVIOUS
<1>1. PICK n \in 1 .. ReadChunk : read' = read + n /\ chunk' = Run(read + 1, read + n)
  BY DEF Read
<1>2. /\ reader = "read" /\ reader' = "send"
      /\ UNCHANGED <<alive, waiter, stream, lagged, pump, batch, missed, raw, batcher, events>>
  BY DEF Read, waiting, pumping
<1>3. n \in Nat /\ n >= 1 /\ read \in Nat /\ chunk = <<>>
  BY <1>2, LimitsAssumption DEF HistoryInv
<1>4. ToSet(chunk') = read + 1 .. read + n
  <2>1. PICK q \in Int : q = read + n
    BY <1>3
  <2>2. q - n + 1 = read + 1
    BY <2>1, <1>3
  <2>3. Len(Run(q - n + 1, q)) = n /\ EndsAt(Run(q - n + 1, q), q)
    BY <2>1, <1>3, RunEndsAt
  <2>4. ToSet(Run(q - n + 1, q)) = q - n + 1 .. q
    BY <2>1, <2>3, <1>3, ToSetEndsAt
  <2> QED BY <1>1, <2>1, <2>2, <2>4
<1>5. 1 .. read \subseteq 1 .. read' /\ 0 .. read \subseteq 0 .. read' /\ (1 .. read) \cup (read + 1 .. read + n) = 1 .. read'
  BY <1>1, <1>3
<1>6. StreamHolds'
  <2>1. raw \cup missed \cup ToSet(Flat(stream)) = 1 .. read
    BY <1>3, ToSetNone DEF PumpInv, StreamHolds
  <2>2. raw \cup missed \cup ToSet(Flat(stream)) \cup ToSet(chunk') = 1 .. read'
    BY <2>1, <1>4, <1>5
  <2> QED BY <2>2, <1>2 DEF PumpInv, StreamHolds
<1>7. BatcherHolds'
  BY <1>2, <1>5 DEF PumpInv, BatcherHolds
<1>8. BatchHolds'
  BY <1>2, <1>5 DEF PumpInv, BatchHolds
<1>9. StageHolds'
  BY <1>2 DEF PumpInv, StageHolds
<1> QED BY <1>6, <1>7, <1>8, <1>9 DEF PumpInv

LEMMA PumpSend == HistoryInv /\ PumpInv /\ Send => PumpInv'
<1> SUFFICES ASSUME HistoryInv, PumpInv, Send PROVE PumpInv'
  OBVIOUS
<1>1. reader = "send" /\ UNCHANGED <<read, alive, waiter, pump, batch, batcher, events>>
  BY DEF Send, waiting
<1>2. StreamHolds'
  BY StreamSend DEF PumpInv
<1>3. BatcherHolds'
  BY <1>1 DEF PumpInv, BatcherHolds
<1>4. BatchHolds'
  BY <1>1 DEF PumpInv, BatchHolds
<1>5. StageHolds'
  BY <1>1 DEF PumpInv, StageHolds
<1> QED BY <1>2, <1>3, <1>4, <1>5 DEF PumpInv

\* A chunk that is taken, or the word that some are lost, as long as output may come.
LEMMA PumpHears ==
    ASSUME PumpInv, Take \/ HearLag, UNCHANGED <<alive, waiter, reader, chunk, read, batch, events>>,
           pump' \in {"wait", "poll", "drain"}, pump' = "drain" => pump = "drain"
    PROVE  PumpInv'
<1>1. StreamHolds' /\ BatcherHolds'
  <2>1. CASE Take
    BY <2>1, StreamTake DEF PumpInv
  <2>2. CASE HearLag
    BY <2>2 DEF PumpInv, HearLag, StreamHolds, BatcherHolds
  <2> QED BY <2>1, <2>2
<1>2. BatchHolds'
  BY DEF PumpInv, BatchHolds
<1>3. StageHolds'
  BY DEF PumpInv, StageHolds
<1> QED BY <1>1, <1>2, <1>3 DEF PumpInv

LEMMA StreamStays == StreamHolds /\ UNCHANGED <<stream, lagged, raw, missed, chunk, read>> => StreamHolds'
BY DEF StreamHolds

LEMMA TakenBatch ==
    ASSUME PumpInv, TakeBatch, UNCHANGED <<chunk, read, events>>, batch = <<>>
    PROVE  /\ StreamHolds' /\ BatcherHolds' /\ BatchHolds' /\ batcher'.pending = <<>>
           /\ batcher'.visible = batcher.visible
<1>1. /\ batch' = batcher.pending /\ UNCHANGED <<stream, lagged, missed, raw>>
      /\ batcher' = IF batcher.pending = <<>> THEN batcher
                    ELSE [batcher EXCEPT !.pending = <<>>, !.ready = FALSE]
  BY DEF TakeBatch
<1>2. StreamHolds'
  BY <1>1, StreamStays DEF PumpInv
<1>3. /\ batcher' \in [visible : BOOLEAN, pending : Seq(Int), ready : BOOLEAN]
      /\ batcher'.pending = <<>> /\ batcher'.visible = batcher.visible
  <2>1. batcher \in [visible : BOOLEAN, pending : Seq(Int), ready : BOOLEAN] /\ <<>> \in Seq(Int)
    BY DEF PumpInv, BatcherHolds
  <2>2. CASE batcher.pending = <<>>
    BY <2>1, <2>2, <1>1
  <2>3. CASE batcher.pending # <<>>
    <3>1. batcher' = [batcher EXCEPT !.pending = <<>>, !.ready = FALSE]
      BY <2>3, <1>1
    <3> QED BY <3>1, <2>1
  <2> QED BY <2>2, <2>3
<1>4. BatcherHolds'
  BY <1>3, ToSetNone DEF BatcherHolds
<1>5. BatchHolds'
  BY <1>1 DEF PumpInv, BatchHolds, BatcherHolds
<1> QED BY <1>2, <1>3, <1>4, <1>5

LEMMA PumpDeliver ==
    ASSUME HistoryInv, PumpInv, NEW x \in Seq(Int), ToSet(x) \subseteq 0 .. read, events' = Append(events, x),
           UNCHANGED read, batch' = <<>>
    PROVE  BatchHolds'
<1>1. events \in Seq(Seq(Int)) /\ ToSet(Flat(events)) \subseteq 0 .. read
  BY DEF PumpInv, BatchHolds
<1>2. Append(events, x) \in Seq(Seq(Int)) /\ Flat(Append(events, x)) = Flat(events) \o x /\ Flat(events) \in Seq(Int)
  BY <1>1, FlatAppend, FlatType, AppendAt
<1>3. ToSet(Flat(events) \o x) = ToSet(Flat(events)) \cup ToSet(x)
  BY <1>2, ToSetConcat
<1>4. <<>> \in Seq(Int) /\ ToSet(<<>>) = {}
  BY ToSetNone
<1> QED BY <1>1, <1>2, <1>3, <1>4 DEF BatchHolds

LEMMA PumpPump == HistoryInv /\ PumpInv /\ Pump => PumpInv'
<1> SUFFICES ASSUME HistoryInv, PumpInv, Pump PROVE PumpInv'
  OBVIOUS
<1>0. UNCHANGED <<alive, waiter, reader, chunk, read>>
  BY DEF Pump, Receive, Wake, SeeDone, EmitReady, Deliver, Drain, Flush, SinkExit, Outside, reading, waiting
<1>1. CASE Receive
  <2>1. pump' = "poll" /\ (Take \/ HearLag) /\ UNCHANGED <<batch, events>>
    BY <1>1 DEF Receive, Goes
  <2> QED BY <2>1, <1>0, PumpHears
<1>2. CASE Wake \/ SeeDone
  <2>1. /\ UNCHANGED <<stream, lagged, missed, raw, batcher, batch, events>>
        /\ pump' \in {"poll", "last"} /\ (pump' = "last" => reader = "done")
    BY <1>2 DEF Wake, SeeDone, Goes, Nothing
  <2>2. StreamHolds' /\ BatcherHolds' /\ BatchHolds'
    BY <1>0, <2>1 DEF PumpInv, StreamHolds, BatcherHolds, BatchHolds
  <2>3. StageHolds'
    BY <1>0, <2>1 DEF PumpInv, StageHolds
  <2> QED BY <2>2, <2>3 DEF PumpInv
<1>3. CASE EmitReady
  <2>1. /\ batch = <<>> /\ UNCHANGED events
        /\ \/ pump = "poll" /\ pump' = "wait"
           \/ pump = "last" /\ pump' = "drain"
        /\ TakeBatch \/ UNCHANGED <<stream, lagged, missed, raw, batcher, batch>>
    BY <1>3 DEF EmitReady, Goes, Nothing
  <2>2. StreamHolds' /\ BatcherHolds' /\ BatchHolds'
    <3>1. CASE TakeBatch
      BY <3>1, <2>1, <1>0, TakenBatch
    <3>2. CASE UNCHANGED <<stream, lagged, missed, raw, batcher, batch>>
      BY <3>2, <2>1, <1>0 DEF PumpInv, StreamHolds, BatcherHolds, BatchHolds
    <3> QED BY <3>1, <3>2, <2>1
  <2>3. StageHolds'
    BY <1>0, <2>1 DEF PumpInv, StageHolds
  <2> QED BY <2>2, <2>3 DEF PumpInv
<1>4. CASE Deliver
  <2>1. /\ batch # <<>> /\ batch' = <<>> /\ events' = Append(events, batch) /\ pump' = pump
        /\ UNCHANGED <<stream, lagged, missed, raw, batcher>>
    BY <1>4 DEF Deliver, Nothing
  <2>2. StreamHolds' /\ BatcherHolds'
    BY <1>0, <2>1 DEF PumpInv, StreamHolds, BatcherHolds
  <2>3. BatchHolds'
    <3>1. 1 .. read \subseteq 0 .. read
      BY DEF HistoryInv
    <3>2. batch \in Seq(Int) /\ ToSet(batch) \subseteq 0 .. read
      BY <3>1 DEF PumpInv, BatchHolds
    <3> QED BY <3>2, <2>1, <1>0, PumpDeliver
  <2>4. StageHolds'
    BY <1>0, <2>1 DEF PumpInv, StageHolds
  <2> QED BY <2>2, <2>3, <2>4 DEF PumpInv
<1>5. CASE Drain
  <2>1. CASE pump' = "drain" /\ pump = "drain" /\ (Take \/ HearLag)
    <3>1. UNCHANGED <<batch, events>>
      BY <1>5 DEF Drain
    <3> QED BY <2>1, <3>1, <1>0, PumpHears
  <2>2. CASE pump = "drain" /\ pump' = "flush" /\ stream = <<>> /\ ~lagged /\ Nothing
    <3>1. UNCHANGED <<stream, lagged, missed, raw, batcher, batch, events>>
      BY <1>5, <2>2 DEF Drain, Nothing
    <3>2. StreamHolds' /\ BatcherHolds' /\ BatchHolds'
      BY <1>0, <3>1 DEF PumpInv, StreamHolds, BatcherHolds, BatchHolds
    <3>3. StageHolds'
      BY <1>0, <2>2, <3>1 DEF PumpInv, StageHolds
    <3> QED BY <3>2, <3>3 DEF PumpInv
  <2> QED BY <1>5, <2>1, <2>2 DEF Drain, Goes
<1>6. CASE Flush
  <2>1. pump = "flush" /\ pump' = "exit" /\ batch = <<>> /\ TakeBatch /\ UNCHANGED events
    BY <1>6 DEF Flush, Goes
  <2>2. StreamHolds' /\ BatcherHolds' /\ BatchHolds' /\ batcher'.pending = <<>>
    BY <2>1, <1>0, TakenBatch
  <2>3. UNCHANGED <<stream, lagged>>
    BY <2>1 DEF TakeBatch
  <2>4. StageHolds'
    BY <1>0, <2>1, <2>2, <2>3 DEF PumpInv, StageHolds
  <2> QED BY <2>2, <2>4 DEF PumpInv
<1>7. CASE SinkExit
  <2>1. /\ pump = "exit" /\ pump' = "over" /\ batch = <<>> /\ events' = Append(events, <<End>>)
        /\ UNCHANGED <<stream, lagged, missed, raw, batcher, batch>>
    BY <1>7 DEF SinkExit, Goes, Nothing
  <2>2. StreamHolds' /\ BatcherHolds'
    BY <1>0, <2>1 DEF PumpInv, StreamHolds, BatcherHolds
  <2>3. BatchHolds'
    <3>1. <<End>> \in Seq(Int) /\ ToSet(<<End>>) = {0} /\ 0 \in 0 .. read
      BY DEF End, ToSet, HistoryInv
    <3>2. ToSet(<<End>>) \subseteq 0 .. read
      BY <3>1
    <3> QED BY <3>1, <3>2, <2>1, <1>0, PumpDeliver
  <2>4. StageHolds'
    BY <1>0, <2>1 DEF PumpInv, StageHolds
  <2> QED BY <2>2, <2>3, <2>4 DEF PumpInv
<1> QED BY <1>1, <1>2, <1>3, <1>4, <1>5, <1>6, <1>7 DEF Pump

LEMMA PumpServe == PumpInv /\ Serve => PumpInv'
<1> SUFFICES ASSUME PumpInv, Serve PROVE PumpInv'
  OBVIOUS
<1>1. UNCHANGED <<alive, waiter, reader, chunk, read, stream, lagged, pump, batch, missed, raw, events>>
  BY DEF Serve, waiting, reading, pumping
<1>2. StreamHolds' /\ BatchHolds'
  BY <1>1 DEF PumpInv, StreamHolds, BatchHolds
<1>3. batcher' = SetVisible(TRUE) \/ batcher' = SetVisible(FALSE) \/ batcher' = batcher
  BY DEF Serve, Show, Hide, Clear
<1>4. /\ batcher' \in [visible : BOOLEAN, pending : Seq(Int), ready : BOOLEAN]
      /\ \/ batcher'.pending = <<>>
         \/ batcher'.visible /\ batcher'.pending = batcher.pending
  <2>1. batcher \in [visible : BOOLEAN, pending : Seq(Int), ready : BOOLEAN] /\ <<>> \in Seq(Int)
    BY DEF PumpInv, BatcherHolds
  <2>2. batcher.visible \/ batcher.pending = <<>>
    BY DEF PumpInv, BatcherHolds
  <2>3. CASE batcher' = batcher
    BY <2>1, <2>2, <2>3
  <2>4. CASE batcher' = SetVisible(TRUE) /\ batcher' # batcher
    <3>1. batcher' = [batcher EXCEPT !.visible = TRUE, !.pending = batcher.pending]
      BY <2>4 DEF SetVisible
    <3> QED BY <3>1, <2>1
  <2>5. CASE batcher' = SetVisible(FALSE) /\ batcher' # batcher
    <3>1. batcher' = [batcher EXCEPT !.visible = FALSE, !.pending = <<>>]
      BY <2>5 DEF SetVisible
    <3>2. PICK none : none = <<>>
      OBVIOUS
    <3>3. none \in Seq(Int)
      BY <3>2, <2>1
    <3>4. batcher' = [batcher EXCEPT !.visible = FALSE, !.pending = none]
      BY <3>1, <3>2
    <3>5. batcher' \in [visible : BOOLEAN, pending : Seq(Int), ready : BOOLEAN] /\ batcher'.pending = none
      BY <3>3, <3>4, <2>1
    <3> QED BY <3>2, <3>5
  <2> QED BY <1>3, <2>3, <2>4, <2>5
<1>5. BatcherHolds'
  BY <1>1, <1>4, ToSetNone DEF PumpInv, BatcherHolds
<1>6. StageHolds'
  BY <1>1, <1>4 DEF PumpInv, StageHolds
<1> QED BY <1>2, <1>5, <1>6 DEF PumpInv

LEMMA PumpHandle == PumpInv /\ Handle => PumpInv'
<1> SUFFICES ASSUME PumpInv, Handle PROVE PumpInv'
  OBVIOUS
<1>1. /\ UNCHANGED <<alive, waiter, reader, chunk, read, stream, lagged, pump, batch, missed, raw, batcher>>
      /\ events # <<>> /\ events' = Tail(events)
  BY DEF Handle, Core, waiting, reading, pumping
<1>2. StreamHolds' /\ BatcherHolds' /\ StageHolds'
  BY <1>1 DEF PumpInv, StreamHolds, BatcherHolds, StageHolds
<1>3. events \in Seq(Seq(Int)) /\ ToSet(Flat(events)) \subseteq 0 .. read
  BY DEF PumpInv, BatchHolds
<1>4. PICK t : t = Tail(events)
  OBVIOUS
<1>5. PICK h : h = Head(events)
  OBVIOUS
<1>6. t \in Seq(Seq(Int)) /\ h \in Seq(Int)
  BY <1>1, <1>3, <1>4, <1>5, TailIs
<1>7. Flat(events) = h \o Flat(t) /\ Flat(t) \in Seq(Int)
  BY <1>1, <1>3, <1>4, <1>5, <1>6, FlatHead, FlatType
<1>8. ToSet(Flat(t)) \subseteq 0 .. read
  BY <1>3, <1>6, <1>7, ToSetConcat
<1>9. BatchHolds'
  BY <1>1, <1>4, <1>6, <1>8 DEF PumpInv, BatchHolds
<1> QED BY <1>2, <1>9 DEF PumpInv

pumpVars == <<alive, waiter, reader, chunk, read, stream, lagged, pump, batch, missed, raw, batcher, events>>

LEMMA PumpStays == PumpInv /\ UNCHANGED pumpVars => PumpInv'
BY DEF PumpInv, StreamHolds, BatcherHolds, BatchHolds, StageHolds, pumpVars

LEMMA PumpStep == HistoryInv /\ PumpInv /\ [OutputNext]_outputVars => PumpInv'
<1> SUFFICES ASSUME HistoryInv, PumpInv, [OutputNext]_outputVars PROVE PumpInv'
  OBVIOUS
<1>1. CASE Read
  BY <1>1, PumpRead
<1>2. CASE Send
  BY <1>2, PumpSend
<1>3. CASE Eof \/ Die \/ Waiter
  <2>1. /\ UNCHANGED <<chunk, read, stream, lagged, pump, batch, missed, raw, batcher, events>>
        /\ alive' \in {alive, FALSE} /\ waiter' \in {waiter, "quiet", "posted"} /\ reader' \in {reader, "done"}
    BY <1>3 DEF Eof, Die, Waiter, reading, waiting, pumping
  <2>2. StreamHolds' /\ BatcherHolds' /\ BatchHolds'
    BY <2>1 DEF PumpInv, StreamHolds, BatcherHolds, BatchHolds
  <2>3. StageHolds'
    BY <2>1 DEF PumpInv, StageHolds
  <2> QED BY <2>2, <2>3 DEF PumpInv
<1>4. CASE Tick
  <2>1. /\ UNCHANGED <<alive, waiter, reader, chunk, read, stream, lagged, pump, batch, missed, raw, events>>
        /\ batcher' = [batcher EXCEPT !.ready = TRUE]
    BY <1>4 DEF Tick, Outside, reading, waiting, pumping
  <2>2. batcher \in [visible : BOOLEAN, pending : Seq(Int), ready : BOOLEAN]
    BY DEF PumpInv, BatcherHolds
  <2>3. /\ batcher' \in [visible : BOOLEAN, pending : Seq(Int), ready : BOOLEAN]
        /\ batcher'.pending = batcher.pending /\ batcher'.visible = batcher.visible
    BY <2>1, <2>2
  <2>4. StreamHolds' /\ BatcherHolds' /\ BatchHolds'
    BY <2>1, <2>3 DEF PumpInv, StreamHolds, BatcherHolds, BatchHolds
  <2>5. StageHolds'
    BY <2>1, <2>3 DEF PumpInv, StageHolds
  <2> QED BY <2>4, <2>5 DEF PumpInv
<1>5. CASE Pump
  BY <1>5, PumpPump
<1>6. CASE Serve
  BY <1>6, PumpServe
<1>7. CASE Handle
  BY <1>7, PumpHandle
<1>8. CASE Appear \/ Vanish \/ Wipe \/ Finish
  <2>1. UNCHANGED pumpVars
    BY <1>8 DEF pumpVars, Appear, Vanish, Wipe, Finish, Core, reading, waiting, pumping
  <2> QED BY <2>1, PumpStays
<1>9. CASE UNCHANGED outputVars
  <2>1. UNCHANGED pumpVars
    BY <1>9 DEF pumpVars, outputVars, reading, waiting, pumping
  <2> QED BY <2>1, PumpStays
<1> QED BY <1>1, <1>2, <1>3, <1>4, <1>5, <1>6, <1>7, <1>8, <1>9 DEF OutputNext, Reader, Interface

\* The exit is announced after all the output.
LEMMA PumpExitsAfterOutput == HistoryInv /\ PumpInv => ExitAfterOutput
<1> SUFFICES ASSUME HistoryInv, PumpInv, pump = "over"
             PROVE  /\ reader = "done" /\ stream = <<>> /\ batcher.pending = <<>> /\ batch = <<>>
                    /\ raw \cup missed = 1 .. read
  BY DEF ExitAfterOutput
<1>1. reader = "done" /\ stream = <<>> /\ batcher.pending = <<>> /\ batch = <<>>
  BY DEF PumpInv, StageHolds
<1>2. chunk = <<>>
  BY <1>1 DEF HistoryInv
<1>3. raw \cup missed = 1 .. read
  BY <1>1, <1>2, FlatEmpty, ToSetNone DEF PumpInv, StreamHolds
<1> QED BY <1>1, <1>3

-----------------------------------------------------------------------------
(* What is on its way to the screen                                           *)

\* Every piece from b on comes after those before it, unless they are in A.
Follows(A, b, s) ==
    \A i \in 1 .. Len(s) : \A n \in b .. s[i] - 1 : n \in A \/ \E j \in 1 .. i - 1 : s[j] = n
\* And they all come, up to piece r.
Trail(s, b, A, r) == s \in Seq(Int) /\ b .. r \subseteq A \cup ToSet(s) /\ Follows(A, b, s)

\* Follows of a set with more pieces, and of two lists in a row.
LEMMA FollowsMore ==
    ASSUME NEW s \in Seq(Int), NEW b \in Int, NEW A, NEW B, A \cap Nat \subseteq B, b >= 0, Follows(A, b, s)
    PROVE  Follows(B, b, s)
<1> SUFFICES ASSUME NEW i \in 1 .. Len(s), NEW n \in b .. s[i] - 1
             PROVE  n \in B \/ \E j \in 1 .. i - 1 : s[j] = n
  BY DEF Follows
<1>1. n \in A \/ \E j \in 1 .. i - 1 : s[j] = n
  BY DEF Follows
<1>2. s[i] \in Int
  OBVIOUS
<1>3. n \in Nat
  BY <1>2
<1> QED BY <1>1, <1>3

LEMMA FollowsConcat ==
    ASSUME NEW s \in Seq(Int), NEW t \in Seq(Int), NEW b \in Int, NEW A
    PROVE  Follows(A, b, s \o t) <=> Follows(A, b, s) /\ Follows(A \cup ToSet(s), b, t)
<1>1. PICK u : u = s \o t
  OBVIOUS
<1>2. /\ u \in Seq(Int) /\ Len(u) = Len(s) + Len(t) /\ Len(s) \in Nat /\ Len(t) \in Nat
      /\ \A i \in 1 .. Len(s) : u[i] = s[i]
      /\ \A i \in 1 .. Len(t) : u[Len(s) + i] = t[i]
  BY <1>1, ConcatAt
<1>3. \A n : n \in ToSet(s) <=> \E j \in 1 .. Len(s) : s[j] = n
  BY <1>2 DEF ToSet
<1>4. ASSUME Follows(A, b, u) PROVE Follows(A, b, s)
  <2> SUFFICES ASSUME NEW i \in 1 .. Len(s), NEW n \in b .. s[i] - 1
               PROVE  n \in A \/ \E j \in 1 .. i - 1 : s[j] = n
    BY DEF Follows
  <2>1. i \in 1 .. Len(u) /\ u[i] = s[i]
    BY <1>2
  <2>2. n \in A \/ \E j \in 1 .. i - 1 : u[j] = n
    BY <1>4, <2>1 DEF Follows
  <2>3. \A j \in 1 .. i - 1 : u[j] = s[j]
    BY <1>2
  <2> QED BY <2>2, <2>3
<1>5. ASSUME Follows(A, b, u) PROVE Follows(A \cup ToSet(s), b, t)
  <2> SUFFICES ASSUME NEW i \in 1 .. Len(t), NEW n \in b .. t[i] - 1
               PROVE  n \in A \cup ToSet(s) \/ \E j \in 1 .. i - 1 : t[j] = n
    BY DEF Follows
  <2>1. Len(s) + i \in 1 .. Len(u) /\ u[Len(s) + i] = t[i]
    BY <1>2, SMTT(30)
  <2>2. n \in A \/ \E j \in 1 .. (Len(s) + i) - 1 : u[j] = n
    BY <1>5, <2>1 DEF Follows
  <2>3. CASE n \in A
    BY <2>3
  <2>4. CASE \E j \in 1 .. (Len(s) + i) - 1 : u[j] = n
    <3>1. PICK j \in 1 .. (Len(s) + i) - 1 : u[j] = n
      BY <2>4
    <3>2. CASE j <= Len(s)
      <4>1. j \in 1 .. Len(s)
        BY <3>2, <1>2
      <4>2. s[j] = n
        BY <3>1, <4>1, <1>2
      <4> QED BY <4>1, <4>2, <1>3
    <3>3. CASE ~(j <= Len(s))
      <4>1. PICK k : k = j - Len(s)
        OBVIOUS
      <4>2. k \in 1 .. Len(t) /\ k \in 1 .. i - 1 /\ j = Len(s) + k
        BY <3>3, <4>1, <1>2, SMTT(30)
      <4>3. u[Len(s) + k] = t[k]
        BY <4>2, <1>2
      <4>4. u[Len(s) + k] = n
        BY <3>1, <4>2
      <4> QED BY <4>2, <4>3, <4>4
    <3> QED BY <3>2, <3>3
  <2> QED BY <2>2, <2>3, <2>4
<1>6. ASSUME Follows(A, b, s), Follows(A \cup ToSet(s), b, t) PROVE Follows(A, b, u)
  <2> SUFFICES ASSUME NEW i \in 1 .. Len(u), NEW n \in b .. u[i] - 1
               PROVE  n \in A \/ \E j \in 1 .. i - 1 : u[j] = n
    BY DEF Follows
  <2>1. CASE i <= Len(s)
    <3>1. i \in 1 .. Len(s) /\ u[i] = s[i]
      BY <2>1, <1>2
    <3>2. n \in A \/ \E j \in 1 .. i - 1 : s[j] = n
      BY <1>6, <3>1 DEF Follows
    <3>3. \A j \in 1 .. i - 1 : u[j] = s[j]
      BY <3>1, <1>2
    <3> QED BY <3>2, <3>3
  <2>2. CASE ~(i <= Len(s))
    <3>1. PICK k : k = i - Len(s)
      OBVIOUS
    <3>2. k \in 1 .. Len(t) /\ i = Len(s) + k
      BY <2>2, <3>1, <1>2
    <3>3. u[i] = t[k]
      BY <3>2, <1>2
    <3>4. n \in A \/ n \in ToSet(s) \/ \E j \in 1 .. k - 1 : t[j] = n
      BY <1>6, <3>2, <3>3 DEF Follows
    <3>5. CASE n \in A
      BY <3>5
    <3>6. CASE n \in ToSet(s)
      <4>1. PICK j \in 1 .. Len(s) : s[j] = n
        BY <3>6, <1>3
      <4>2. j \in 1 .. i - 1
        BY <4>1, <3>2, <1>2
      <4>3. u[j] = n
        BY <4>1, <1>2
      <4> QED BY <4>2, <4>3
    <3>7. CASE \E j \in 1 .. k - 1 : t[j] = n
      <4>1. PICK j \in 1 .. k - 1 : t[j] = n
        BY <3>7
      <4>2. j \in 1 .. Len(t) /\ Len(s) + j \in 1 .. i - 1
        BY <3>2, <1>2, SMTT(30)
      <4>3. u[Len(s) + j] = n
        BY <4>1, <4>2, <1>2
      <4> QED BY <4>2, <4>3
    <3> QED BY <3>4, <3>5, <3>6, <3>7
  <2> QED BY <2>1, <2>2
<1>7. Follows(A, b, u) <=> Follows(A, b, s) /\ Follows(A \cup ToSet(s), b, t)
  BY <1>4, <1>5, <1>6
<1> QED BY <1>1, <1>7

\* The two halves of a trail.
LEMMA TrailConcat ==
    ASSUME NEW s \in Seq(Int), NEW t \in Seq(Int), NEW b \in Int, NEW r \in Int, NEW A
    PROVE  Trail(s \o t, b, A, r) <=> /\ b .. r \subseteq A \cup ToSet(s) \cup ToSet(t)
                                      /\ Follows(A, b, s) /\ Follows(A \cup ToSet(s), b, t)
<1>1. ToSet(s \o t) = ToSet(s) \cup ToSet(t)
  BY ToSetConcat
<1>2. Follows(A, b, s \o t) <=> Follows(A, b, s) /\ Follows(A \cup ToSet(s), b, t)
  BY FollowsConcat
<1>3. PICK u : u = s \o t
  OBVIOUS
<1>4. u \in Seq(Int)
  BY <1>3
<1>5. Trail(u, b, A, r) <=> b .. r \subseteq A \cup ToSet(u) /\ Follows(A, b, u)
  BY <1>4 DEF Trail
<1>6. A \cup (ToSet(s) \cup ToSet(t)) = A \cup ToSet(s) \cup ToSet(t)
  OBVIOUS
<1>7. Trail(s \o t, b, A, r) <=> b .. r \subseteq A \cup ToSet(s \o t) /\ Follows(A, b, s \o t)
  BY <1>3, <1>5
<1> QED BY <1>1, <1>2, <1>6, <1>7

\* What is read next goes to the end of it.
LEMMA TrailGrows ==
    ASSUME NEW s, NEW b \in Int, NEW r \in Int, NEW A, b >= 0, Trail(s, b, A, r), NEW d, EndsAt(d, r + Len(d))
    PROVE  Trail(s \o d, b, A, r + Len(d))
<1>1. s \in Seq(Int) /\ b .. r \subseteq A \cup ToSet(s) /\ Follows(A, b, s)
  BY DEF Trail
<1>2. d \in Seq(Int) /\ Len(d) \in Nat /\ \A i \in 1 .. Len(d) : d[i] = (r + Len(d)) - Len(d) + i
  BY DEF EndsAt
<1>3. ToSet(d) = (r + Len(d)) - Len(d) + 1 .. r + Len(d)
  <2>1. PICK q \in Int : q = r + Len(d)
    BY <1>2
  <2>2. ToSet(d) = q - Len(d) + 1 .. q
    BY <2>1, ToSetEndsAt
  <2> QED BY <2>1, <2>2
<1>4. \A n \in b .. r + Len(d) : n \in b .. r \/ n \in ToSet(d)
  BY <1>2, <1>3
<1>5. b .. r + Len(d) \subseteq A \cup ToSet(s) \cup ToSet(d)
  BY <1>1, <1>4
<1>6. Follows(A \cup ToSet(s), b, d)
  <2> SUFFICES ASSUME NEW i \in 1 .. Len(d), NEW n \in b .. d[i] - 1
               PROVE  n \in A \cup ToSet(s) \/ \E j \in 1 .. i - 1 : d[j] = n
    BY DEF Follows
  <2>1. d[i] = r + i /\ i \in Nat /\ n \in Int /\ n >= b /\ n =< r + i - 1
    BY <1>2
  <2>2. CASE n <= r
    BY <2>1, <2>2, <1>1
  <2>3. CASE ~(n <= r)
    <3>1. PICK j : j = n - r
      OBVIOUS
    <3>2. j \in 1 .. i - 1 /\ j \in 1 .. Len(d)
      BY <3>1, <2>1, <2>3, <1>2
    <3>3. d[j] = (r + Len(d)) - Len(d) + j
      BY <3>2, <1>2
    <3>4. d[j] = n
      BY <3>1, <3>2, <3>3, <2>1, <1>2
    <3> QED BY <3>2, <3>4
  <2> QED BY <2>2, <2>3
<1>7. PICK q \in Int : q = r + Len(d)
  BY <1>2
<1>8. Trail(s \o d, b, A, q)
  BY <1>1, <1>2, <1>5, <1>6, <1>7, TrailConcat
<1> QED BY <1>7, <1>8

\* What is lost from the middle of it is missing, no more.
LEMMA TrailLoses ==
    ASSUME NEW x \in Seq(Int), NEW y \in Seq(Int), NEW z \in Seq(Int), NEW b \in Int, NEW r \in Int, NEW A,
           b >= 0, Trail(x \o (y \o z), b, A, r)
    PROVE  Trail(x \o z, b, A \cup ToSet(y), r)
<1>1. y \o z \in Seq(Int)
  OBVIOUS
<1>2. /\ b .. r \subseteq A \cup ToSet(x) \cup ToSet(y \o z)
      /\ Follows(A, b, x) /\ Follows(A \cup ToSet(x), b, y \o z)
  BY <1>1, TrailConcat
<1>3. ToSet(y \o z) = ToSet(y) \cup ToSet(z)
  BY ToSetConcat
<1>4. Follows((A \cup ToSet(x)) \cup ToSet(y), b, z)
  BY <1>2, FollowsConcat
<1>5. Follows((A \cup ToSet(y)) \cup ToSet(x), b, z)
  <2>1. (A \cup ToSet(x)) \cup ToSet(y) = (A \cup ToSet(y)) \cup ToSet(x)
    OBVIOUS
  <2> QED BY <1>4, <2>1
<1>6. Follows(A \cup ToSet(y), b, x)
  <2>1. PICK B : B = A \cup ToSet(y)
    OBVIOUS
  <2>2. A \cap Nat \subseteq B
    BY <2>1
  <2>3. Follows(B, b, x)
    BY <1>2, <2>2, FollowsMore
  <2> QED BY <2>1, <2>3
<1>7. b .. r \subseteq (A \cup ToSet(y)) \cup ToSet(x) \cup ToSet(z)
  BY <1>2, <1>3
<1>8. PICK B : B = A \cup ToSet(y)
  OBVIOUS
<1>9. Trail(x \o z, b, B, r)
  BY <1>5, <1>6, <1>7, <1>8, TrailConcat
<1> QED BY <1>8, <1>9

\* The notice of the end is no piece: it may come anywhere, and go.
LEMMA FollowsEnd == \A A : \A b \in Int : b >= 0 => Follows(A, b, <<End>>)
<1> SUFFICES ASSUME NEW A, NEW b \in Int, b >= 0 PROVE Follows(A, b, <<End>>)
  OBVIOUS
<1>1. Len(<<End>>) = 1 /\ <<End>>[1] = 0
  BY DEF End
<1>2. \A i \in 1 .. 1 : i = 1
  OBVIOUS
<1>3. b .. 0 - 1 = {}
  OBVIOUS
<1> QED BY <1>1, <1>2, <1>3 DEF Follows

LEMMA ToSetEnd == <<End>> \in Seq(Int) /\ ToSet(<<End>>) = {0}
BY DEF End, ToSet

\* So a notice goes into a trail, or out of it.
LEMMA TrailWithEnd ==
    ASSUME NEW x \in Seq(Int), NEW z \in Seq(Int), NEW b \in Int, NEW r \in Int, NEW A, b >= 0,
           Trail(x \o z, b, A, r)
    PROVE  Trail(x \o (<<End>> \o z), b, A, r)
<1>1. b .. r \subseteq A \cup ToSet(x) \cup ToSet(z) /\ Follows(A, b, x) /\ Follows(A \cup ToSet(x), b, z)
  BY TrailConcat
<1>2. PICK e : e = <<End>>
  OBVIOUS
<1>3. e \in Seq(Int) /\ e \o z \in Seq(Int)
  BY <1>2, ToSetEnd
<1>4. ToSet(e \o z) = ToSet(e) \cup ToSet(z)
  BY <1>3, ToSetConcat
<1>5. PICK B : B = A \cup ToSet(x)
  OBVIOUS
<1>6. Follows(B, b, e)
  BY <1>2, FollowsEnd
<1>7. Follows(B \cup ToSet(e), b, z)
  <2>1. PICK C : C = B \cup ToSet(e)
    OBVIOUS
  <2>2. B \cap Nat \subseteq C
    BY <2>1
  <2>3. Follows(C, b, z)
    BY <1>1, <1>5, <2>2, FollowsMore
  <2> QED BY <2>1, <2>3
<1>8. Follows(B, b, e \o z)
  BY <1>3, <1>6, <1>7, FollowsConcat
<1>9. b .. r \subseteq A \cup ToSet(x) \cup ToSet(e \o z)
  BY <1>1, <1>4
<1>10. Trail(x \o (e \o z), b, A, r)
  BY <1>1, <1>3, <1>5, <1>8, <1>9, TrailConcat
<1> QED BY <1>2, <1>10

LEMMA TrailWithoutEnd ==
    ASSUME NEW x \in Seq(Int), NEW z \in Seq(Int), NEW b \in Int, NEW r \in Int, NEW A, b >= 1,
           Trail(x \o (<<End>> \o z), b, A, r)
    PROVE  Trail(x \o z, b, A, r)
<1>0. b >= 0
  OBVIOUS
<1>1. Trail(x \o z, b, A \cup {0}, r)
  BY <1>0, ToSetEnd, TrailLoses
<1>2. PICK B : B = A \cup {0}
  OBVIOUS
<1>3. PICK u : u = x \o z
  OBVIOUS
<1>4. u \in Seq(Int) /\ b .. r \subseteq B \cup ToSet(u) /\ Follows(B, b, u)
  BY <1>1, <1>2, <1>3 DEF Trail
<1>5. b .. r \subseteq A \cup ToSet(u)
  <2>1. 0 \notin b .. r
    OBVIOUS
  <2> QED BY <2>1, <1>2, <1>4
<1>6. Follows(A, b, u)
  <2> SUFFICES ASSUME NEW i \in 1 .. Len(u), NEW n \in b .. u[i] - 1
               PROVE  n \in A \/ \E j \in 1 .. i - 1 : u[j] = n
    BY DEF Follows
  <2>1. n \in B \/ \E j \in 1 .. i - 1 : u[j] = n
    BY <1>4 DEF Follows
  <2>2. u[i] \in Int
    BY <1>4
  <2>3. n # 0
    BY <2>2
  <2> QED BY <2>1, <2>3, <1>2
<1> QED BY <1>3, <1>4, <1>5, <1>6 DEF Trail

\* Nothing is called for yet.
LEMMA TrailAfterAll ==
    ASSUME NEW s \in Seq(Int), NEW r \in Int, NEW A, ToSet(s) \subseteq 0 .. r
    PROVE  Trail(s, r + 1, A, r)
<1>1. r + 1 .. r = {}
  OBVIOUS
<1>2. Follows(A, r + 1, s)
  <2> SUFFICES ASSUME NEW i \in 1 .. Len(s), NEW n \in r + 1 .. s[i] - 1 PROVE FALSE
    BY DEF Follows
  <2>1. s[i] \in 0 .. r
    BY DEF ToSet
  <2> QED BY <2>1
<1> QED BY <1>1, <1>2 DEF Trail

\* The history of a panel, between notices of the end and what is older.
LEMMA TrailStarts ==
    ASSUME NEW r \in Nat, NEW z \in Seq(Int), ToSet(z) \subseteq {0}, NEW h, EndsAt(h, r), NEW w \in Seq(Int),
           ToSet(w) \subseteq 0 .. r, NEW b \in Int, b = r - Len(h) + 1, b >= 1, NEW A
    PROVE  Trail(z \o (h \o w), b, A, r)
<1>1. h \in Seq(Int) /\ Len(h) \in Nat /\ \A i \in 1 .. Len(h) : h[i] = r - Len(h) + i
  BY DEF EndsAt
<1>2. ToSet(h) = b .. r
  BY ToSetEndsAt
<1>3. Follows(A, b, z)
  <2> SUFFICES ASSUME NEW i \in 1 .. Len(z), NEW n \in b .. z[i] - 1 PROVE FALSE
    BY DEF Follows
  <2>1. z[i] \in ToSet(z)
    <3>1. i \in DOMAIN z
      OBVIOUS
    <3> QED BY <3>1 DEF ToSet
  <2>2. z[i] = 0
    BY <2>1
  <2> QED BY <2>2
<1>4. \A B : Follows(B, b, h)
  <2> SUFFICES ASSUME NEW B, NEW i \in 1 .. Len(h), NEW n \in b .. h[i] - 1
               PROVE  \E j \in 1 .. i - 1 : h[j] = n
    BY DEF Follows
  <2>1. h[i] = b + i - 1 /\ i \in Nat /\ n \in Int /\ n >= b /\ n =< b + i - 2 /\ i =< Len(h)
    BY <1>1, SMTT(30)
  <2>2. PICK j : j = n - b + 1
    OBVIOUS
  <2>3. j \in 1 .. i - 1 /\ j \in 1 .. Len(h)
    BY <2>1, <2>2, <1>1
  <2>4. h[j] = r - Len(h) + j
    BY <2>3, <1>1
  <2>5. h[j] = n
    BY <2>1, <2>2, <2>4, <1>1
  <2> QED BY <2>3, <2>5
<1>5. \A B : Follows(B \cup ToSet(h), b, w)
  <2> SUFFICES ASSUME NEW B, NEW i \in 1 .. Len(w), NEW n \in b .. w[i] - 1
               PROVE  n \in ToSet(h)
    BY DEF Follows
  <2>1. w[i] \in 0 .. r
    BY DEF ToSet
  <2> QED BY <2>1, <1>2
<1>6. h \o w \in Seq(Int) /\ ToSet(h \o w) = ToSet(h) \cup ToSet(w)
  BY <1>1, ToSetConcat
<1>7. Follows(A \cup ToSet(z), b, h \o w)
  <2>1. PICK B : B = A \cup ToSet(z)
    OBVIOUS
  <2>2. Follows(B, b, h) /\ Follows(B \cup ToSet(h), b, w)
    BY <1>4, <1>5
  <2>3. Follows(B, b, h \o w)
    BY <1>1, <2>2, FollowsConcat
  <2> QED BY <2>1, <2>3
<1>8. b .. r \subseteq A \cup ToSet(z) \cup ToSet(h \o w)
  BY <1>2, <1>6
<1>9. r \in Int
  OBVIOUS
<1> QED BY <1>3, <1>6, <1>7, <1>8, <1>9, TrailConcat

\* All that is between the thread that reads and the screen, in its order.
OnItsWay(ev, bt, p, st, c) == Flat(ev) \o (bt \o (p \o (Flat(st) \o c)))

AreParts(ev, bt, p, st, c) ==
    /\ ev \in Seq(Seq(Int)) /\ bt \in Seq(Int) /\ p \in Seq(Int) /\ st \in Seq(Seq(Int)) /\ c \in Seq(Int)

LEMMA NoneJoins == <<>> \in Seq(Int) /\ \A s \in Seq(Int) : s \o <<>> = s /\ <<>> \o s = s
OBVIOUS

LEMMA JoinType == \A s, t \in Seq(Int) : s \o t \in Seq(Int)
OBVIOUS

\* What is on its way holds the pieces of its parts.
LEMMA WayIs ==
    ASSUME NEW ev, NEW bt, NEW p, NEW st, NEW c, AreParts(ev, bt, p, st, c)
    PROVE  /\ OnItsWay(ev, bt, p, st, c) \in Seq(Int)
           /\ ToSet(OnItsWay(ev, bt, p, st, c))
                = UNION {ToSet(c), ToSet(Flat(st)), ToSet(p), ToSet(bt), ToSet(Flat(ev))}
<1>0. /\ ev \in Seq(Seq(Int)) /\ bt \in Seq(Int) /\ p \in Seq(Int) /\ st \in Seq(Seq(Int))
      /\ c \in Seq(Int)
  BY DEF AreParts
<1>1. PICK a : a = Flat(ev)
  OBVIOUS
<1>2. PICK s : s = Flat(st)
  OBVIOUS
<1>3. a \in Seq(Int) /\ s \in Seq(Int)
  BY <1>0, <1>1, <1>2, FlatType
<1>4. PICK x : x = s \o c
  OBVIOUS
<1>5. x \in Seq(Int) /\ ToSet(x) = ToSet(s) \cup ToSet(c)
  BY <1>0, <1>3, <1>4, JoinType, ToSetConcat
<1>6. PICK y : y = p \o x
  OBVIOUS
<1>7. y \in Seq(Int) /\ ToSet(y) = ToSet(p) \cup ToSet(x)
  BY <1>0, <1>5, <1>6, JoinType, ToSetConcat
<1>8. PICK z : z = bt \o y
  OBVIOUS
<1>9. z \in Seq(Int) /\ ToSet(z) = ToSet(bt) \cup ToSet(y)
  BY <1>0, <1>7, <1>8, JoinType, ToSetConcat
<1>10. PICK w : w = a \o z
  OBVIOUS
<1>11. w \in Seq(Int) /\ ToSet(w) = ToSet(a) \cup ToSet(z)
  BY <1>0, <1>3, <1>9, <1>10, JoinType, ToSetConcat
<1>12. w = OnItsWay(ev, bt, p, st, c)
  BY <1>1, <1>2, <1>4, <1>6, <1>8, <1>10 DEF OnItsWay
<1>13. ToSet(w) = UNION {ToSet(c), ToSet(s), ToSet(p), ToSet(bt), ToSet(a)}
  BY <1>5, <1>7, <1>9, <1>11
<1> QED BY <1>1, <1>2, <1>11, <1>12, <1>13

\* What each step does to the way, its parts being lists.
LEMMA WayRead ==
    ASSUME NEW ev, NEW bt, NEW p, NEW st, NEW d, AreParts(ev, bt, p, st, d)
    PROVE  OnItsWay(ev, bt, p, st, d) = OnItsWay(ev, bt, p, st, <<>>) \o d
<1>0. /\ ev \in Seq(Seq(Int)) /\ bt \in Seq(Int) /\ p \in Seq(Int) /\ st \in Seq(Seq(Int))
      /\ d \in Seq(Int)
  BY DEF AreParts
<1>1. PICK a : a = Flat(ev)
  OBVIOUS
<1>2. PICK s : s = Flat(st)
  OBVIOUS
<1>3. a \in Seq(Int) /\ s \in Seq(Int)
  BY <1>0, <1>1, <1>2, FlatType
<1>4. PICK y : y = p \o s
  OBVIOUS
<1>5. PICK z : z = bt \o y
  OBVIOUS
<1>6. y \in Seq(Int) /\ z \in Seq(Int)
  BY <1>0, <1>3, <1>4, <1>5, JoinType
<1>7. y \o d = p \o (s \o d)
  BY <1>0, <1>3, <1>4, Joins
<1>8. z \o d = bt \o (y \o d)
  BY <1>0, <1>5, <1>6, Joins, SMTT(30)
<1>9. (a \o z) \o d = a \o (z \o d)
  <2>1. a \in Seq(Int) /\ z \in Seq(Int) /\ d \in Seq(Int)
    BY <1>0, <1>3, <1>6
  <2> QED BY <2>1, Joins, ZenonT(60)
<1>10. s \o <<>> = s
  BY <1>0, <1>3, NoneJoins
<1>11. OnItsWay(ev, bt, p, st, <<>>) = a \o z
  BY <1>1, <1>2, <1>4, <1>5, <1>10 DEF OnItsWay
<1>12. OnItsWay(ev, bt, p, st, d) = a \o (z \o d)
  BY <1>1, <1>2, <1>7, <1>8 DEF OnItsWay
<1> QED BY <1>9, <1>11, <1>12

LEMMA WaySend ==
    ASSUME NEW ev, NEW bt, NEW p, NEW st \in Seq(Seq(Int)), NEW c \in Seq(Int)
    PROVE  OnItsWay(ev, bt, p, Append(st, c), <<>>) = OnItsWay(ev, bt, p, st, c)
<1>1. Flat(Append(st, c)) = Flat(st) \o c
  BY FlatAppend
<1>2. Flat(st) \in Seq(Int)
  BY FlatType
<1>3. (Flat(st) \o c) \o <<>> = Flat(st) \o c
  <2>1. Flat(st) \o c \in Seq(Int)
    BY <1>2, JoinType
  <2> QED BY <2>1, NoneJoins
<1> QED BY <1>1, <1>3 DEF OnItsWay

\* Before and after the oldest chunk of the channel.
WayInTwo(ev, bt, p, st, c) ==
    /\ Flat(ev) \o (bt \o p) \in Seq(Int) /\ Flat(st) \o c \in Seq(Int)
    /\ OnItsWay(ev, bt, p, st, c) = (Flat(ev) \o (bt \o p)) \o (Flat(st) \o c)

LEMMA WaySplit ==
    ASSUME NEW ev, NEW bt, NEW p, NEW st, NEW c, AreParts(ev, bt, p, st, c)
    PROVE  WayInTwo(ev, bt, p, st, c)
<1>0. /\ ev \in Seq(Seq(Int)) /\ bt \in Seq(Int) /\ p \in Seq(Int) /\ st \in Seq(Seq(Int))
      /\ c \in Seq(Int)
  BY DEF AreParts
<1>1. PICK a : a = Flat(ev)
  OBVIOUS
<1>2. PICK x : x = Flat(st) \o c
  OBVIOUS
<1>3. a \in Seq(Int) /\ x \in Seq(Int)
  BY <1>0, <1>1, <1>2, FlatType, JoinType
<1>4. PICK y : y = bt \o p
  OBVIOUS
<1>5. y \in Seq(Int)
  BY <1>0, <1>4, JoinType
<1>6. y \o x = bt \o (p \o x)
  BY <1>0, <1>3, <1>4, Joins
<1>7. (a \o y) \o x = a \o (y \o x)
  <2>1. a \in Seq(Int) /\ y \in Seq(Int) /\ x \in Seq(Int)
    BY <1>3, <1>5
  <2> HIDE <1>1, <1>2, <1>4
  <2>2. \A v \in Seq(Int) : (a \o y) \o v = a \o (y \o v)
    BY <1>0, <2>1, Joins
  <2> QED BY <2>1, <2>2
<1>8. a \o y \in Seq(Int)
  BY <1>0, <1>3, <1>5, JoinType
<1>9. OnItsWay(ev, bt, p, st, c) = a \o (y \o x)
  BY <1>1, <1>2, <1>6 DEF OnItsWay
<1> QED BY <1>1, <1>2, <1>3, <1>4, <1>7, <1>8, <1>9 DEF WayInTwo

LEMMA ChunkFirst ==
    ASSUME NEW st \in Seq(Seq(Int)), st # <<>>, NEW c \in Seq(Int)
    PROVE  /\ Head(st) \in Seq(Int) /\ Tail(st) \in Seq(Seq(Int)) /\ Flat(Tail(st)) \o c \in Seq(Int)
           /\ Flat(st) \o c = Head(st) \o (Flat(Tail(st)) \o c)
<1>1. PICK h : h = Head(st)
  OBVIOUS
<1>2. PICK t : t = Tail(st)
  OBVIOUS
<1>3. h \in Seq(Int) /\ t \in Seq(Seq(Int))
  BY <1>1, <1>2, TailIs
<1>4. Flat(st) = h \o Flat(t)
  BY <1>1, <1>2, FlatHead
<1>5. PICK f : f = Flat(t)
  OBVIOUS
<1>6. f \in Seq(Int)
  BY <1>3, <1>5, FlatType
<1>7. (h \o f) \o c = h \o (f \o c)
  BY <1>3, <1>6, Joins
<1>8. f \o c \in Seq(Int)
  BY <1>6, JoinType
<1> QED BY <1>1, <1>2, <1>3, <1>4, <1>5, <1>7, <1>8

LEMMA WayTake ==
    ASSUME NEW ev, NEW bt, NEW p \in Seq(Int), NEW st \in Seq(Seq(Int)), st # <<>>, NEW c \in Seq(Int)
    PROVE  OnItsWay(ev, bt, p \o Head(st), Tail(st), c) = OnItsWay(ev, bt, p, st, c)
<1>1. PICK h : h = Head(st)
  OBVIOUS
<1>2. PICK x : x = Flat(Tail(st)) \o c
  OBVIOUS
<1>3. h \in Seq(Int) /\ x \in Seq(Int) /\ Flat(st) \o c = h \o x
  BY <1>1, <1>2, ChunkFirst
<1>4. (p \o h) \o x = p \o (h \o x)
  BY <1>3, Joins
<1> QED BY <1>1, <1>2, <1>3, <1>4 DEF OnItsWay

LEMMA WayTakeBatch ==
    ASSUME NEW ev, NEW p \in Seq(Int), NEW st \in Seq(Seq(Int)), NEW c \in Seq(Int)
    PROVE  OnItsWay(ev, p, <<>>, st, c) = OnItsWay(ev, <<>>, p, st, c)
<1>1. PICK x : x = Flat(st) \o c
  OBVIOUS
<1>2. x \in Seq(Int)
  BY <1>1, FlatType, JoinType
<1>3. <<>> \o x = x /\ <<>> \o (p \o x) = p \o x
  BY <1>2, JoinType, NoneJoins
<1> QED BY <1>1, <1>3 DEF OnItsWay

\* What is handed to the interface.
LEMMA WayDeliver ==
    ASSUME NEW ev, NEW x, NEW p, NEW st, NEW c, AreParts(ev, x, p, st, c)
    PROVE  /\ OnItsWay(Append(ev, x), <<>>, p, st, c) = OnItsWay(ev, x, p, st, c)
           /\ OnItsWay(ev, <<>>, p, st, c) = Flat(ev) \o (p \o (Flat(st) \o c))
           /\ OnItsWay(ev, x, p, st, c) = Flat(ev) \o (x \o (p \o (Flat(st) \o c)))
           /\ Flat(ev) \in Seq(Int) /\ p \o (Flat(st) \o c) \in Seq(Int)
<1>0. /\ ev \in Seq(Seq(Int)) /\ x \in Seq(Int) /\ p \in Seq(Int) /\ st \in Seq(Seq(Int))
      /\ c \in Seq(Int)
  BY DEF AreParts
<1>1. PICK a : a = Flat(ev)
  OBVIOUS
<1>2. PICK y : y = p \o (Flat(st) \o c)
  OBVIOUS
<1>3. a \in Seq(Int) /\ y \in Seq(Int)
  BY <1>0, <1>1, <1>2, FlatType, JoinType
<1>4. Flat(Append(ev, x)) = a \o x
  BY <1>0, <1>1, FlatAppend
<1>5. <<>> \o y = y
  BY <1>0, <1>3, NoneJoins
<1>6. (a \o x) \o y = a \o (x \o y)
  BY <1>0, <1>3, Joins, SMTT(30)
<1> QED BY <1>1, <1>2, <1>3, <1>4, <1>5, <1>6 DEF OnItsWay

LEMMA WayHandle ==
    ASSUME NEW ev, NEW bt, NEW p, NEW st, NEW c, AreParts(ev, bt, p, st, c), ev # <<>>
    PROVE  OnItsWay(ev, bt, p, st, c) = Head(ev) \o OnItsWay(Tail(ev), bt, p, st, c)
<1>0. /\ ev \in Seq(Seq(Int)) /\ bt \in Seq(Int) /\ p \in Seq(Int) /\ st \in Seq(Seq(Int))
      /\ c \in Seq(Int)
  BY DEF AreParts
<1>1. PICK h : h = Head(ev)
  OBVIOUS
<1>2. PICK t : t = Tail(ev)
  OBVIOUS
<1>3. h \in Seq(Int) /\ t \in Seq(Seq(Int))
  BY <1>0, <1>1, <1>2, TailIs
<1>4. Flat(ev) = h \o Flat(t)
  BY <1>0, <1>1, <1>2, FlatHead
<1>5. PICK f : f = Flat(t)
  OBVIOUS
<1>6. PICK y : y = bt \o (p \o (Flat(st) \o c))
  OBVIOUS
<1>7. f \in Seq(Int) /\ y \in Seq(Int)
  BY <1>0, <1>3, <1>5, <1>6, FlatType, JoinType
<1>8. (h \o f) \o y = h \o (f \o y)
  BY <1>0, <1>3, <1>7, Joins, ZenonT(60)
<1> QED BY <1>1, <1>2, <1>4, <1>5, <1>6, <1>8 DEF OnItsWay

-----------------------------------------------------------------------------
(* What the panel keeps                                                       *)

Way == OnItsWay(events, batch, batcher.pending, stream, chunk)
\* Whatever is before it, the way stays a trail.
Carries(v, A, q, w, B, r, b) ==
    \A f \in Seq(Int) : Trail(f \o v, b, A, q) => Trail(f \o w, b, B, r)

LEMMA CarriesAlike == \A v, w, A, r, b : v = w => Carries(v, A, r, w, A, r, b)
BY DEF Carries

LEMMA WayTypes ==
    ASSUME HistoryInv, PumpInv
    PROVE  /\ events \in Seq(Seq(Int)) /\ batch \in Seq(Int) /\ batcher.pending \in Seq(Int)
           /\ stream \in Seq(Seq(Int)) /\ chunk \in Seq(Int) /\ read \in Nat
           /\ Way \in Seq(Int) /\ ToSet(Way) \subseteq 0 .. read
<1>1. /\ events \in Seq(Seq(Int)) /\ batch \in Seq(Int) /\ stream \in Seq(Seq(Int)) /\ read \in Nat
      /\ chunk \in Seq(Int)
  BY DEF HistoryInv, PumpInv, StreamHolds, BatchHolds, EndsAt
<1>2. batcher.pending \in Seq(Int)
  BY DEF PumpInv, BatcherHolds
<1>3. PICK p : p = batcher.pending
  OBVIOUS
<1>4. /\ Way \in Seq(Int)
      /\ ToSet(Way) = UNION {ToSet(chunk), ToSet(Flat(stream)), ToSet(p), ToSet(batch), ToSet(Flat(events))}
  <2>1. Way = OnItsWay(events, batch, p, stream, chunk)
    BY <1>3 DEF Way
  <2>2. p \in Seq(Int)
    BY <1>2, <1>3
  <2>3. AreParts(events, batch, p, stream, chunk)
    BY <2>2, <1>1 DEF AreParts
  <2> QED BY <2>1, <2>3, WayIs
<1>5. 1 .. read \subseteq 0 .. read
  BY <1>1
<1>6. /\ ToSet(chunk) \subseteq 1 .. read /\ ToSet(Flat(stream)) \subseteq 1 .. read
      /\ ToSet(p) \subseteq 1 .. read /\ ToSet(batch) \subseteq 1 .. read /\ ToSet(Flat(events)) \subseteq 0 .. read
  BY <1>3 DEF PumpInv, StreamHolds, BatcherHolds, BatchHolds
<1>7. ToSet(Way) \subseteq 0 .. read
  BY <1>4, <1>5, <1>6
<1> QED BY <1>1, <1>2, <1>4, <1>7

\* The reader and the pump carry what is on its way.
LEMMA CarriesRead ==
    ASSUME HistoryInv, PumpInv, Read, NEW b \in Nat
    PROVE  Carries(Way, missed, read, Way', missed', read', b)
<1>1. PICK n \in 1 .. ReadChunk : read' = read + n /\ chunk' = Run(read + 1, read + n)
  BY DEF Read
<1>2. reader = "read" /\ UNCHANGED <<events, batch, batcher, stream, missed>>
  BY DEF Read, pumping
<1>3. n \in Nat /\ read \in Nat /\ chunk = <<>>
  BY <1>2, LimitsAssumption DEF HistoryInv
<1>4. PICK d : d = Run(read + 1, read + n)
  OBVIOUS
<1>5. d \in Seq(Int) /\ Len(d) = n /\ EndsAt(d, read + n)
  <2>1. PICK q \in Int : q = read + n
    BY <1>3
  <2>2. q - n + 1 = read + 1
    BY <2>1, <1>3
  <2>3. Run(q - n + 1, q) \in Seq(Int) /\ Len(Run(q - n + 1, q)) = n /\ EndsAt(Run(q - n + 1, q), q)
    BY <2>1, <1>3, RunEndsAt
  <2> QED BY <1>4, <2>1, <2>2, <2>3
<1>6. PICK p : p = batcher.pending
  OBVIOUS
<1>7. PICK v : v = Way
  OBVIOUS
<1>8. /\ events \in Seq(Seq(Int)) /\ batch \in Seq(Int) /\ p \in Seq(Int) /\ stream \in Seq(Seq(Int))
      /\ v \in Seq(Int)
  BY <1>6, <1>7, WayTypes
<1>9. v = OnItsWay(events, batch, p, stream, <<>>)
  BY <1>3, <1>6, <1>7 DEF Way
<1>10. Way' = OnItsWay(events, batch, p, stream, d)
  BY <1>1, <1>2, <1>4, <1>6 DEF Way
<1>11. Way' = v \o d
  <2>1. OnItsWay(events, batch, p, stream, d) = OnItsWay(events, batch, p, stream, <<>>) \o d
    <3>1. AreParts(events, batch, p, stream, d)
      BY <1>5, <1>8 DEF AreParts
    <3> QED BY <3>1, WayRead
  <2> QED BY <2>1, <1>9, <1>10
<1>12. ASSUME NEW f \in Seq(Int), Trail(f \o v, b, missed, read) PROVE Trail(f \o (v \o d), b, missed, read + n)
  <2>1. PICK s : s = f \o v
    OBVIOUS
  <2>2. Trail(s, b, missed, read) /\ EndsAt(d, read + Len(d)) /\ read \in Int /\ b \in Int /\ b >= 0
    BY <1>3, <1>5, <1>12, <2>1
  <2>3. Trail(s \o d, b, missed, read + Len(d))
    BY <2>2, TrailGrows
  <2>4. s \o d = f \o (v \o d)
    BY <2>1, <1>5, <1>8, Joins
  <2> QED BY <2>3, <2>4, <1>5
<1>13. \A f \in Seq(Int) : Trail(f \o v, b, missed, read) => Trail(f \o (v \o d), b, missed, read + n)
  BY <1>12
<1> QED BY <1>1, <1>2, <1>7, <1>11, <1>13 DEF Carries

LEMMA CarriesSend ==
    ASSUME HistoryInv, PumpInv, Send, NEW b \in Nat
    PROVE  Carries(Way, missed, read, Way', missed', read', b)
<1>1. /\ chunk' = <<>> /\ read' = read /\ UNCHANGED <<events, batch, batcher>>
      /\ stream' = Append(IF Len(stream) = Capacity THEN Tail(stream) ELSE stream, chunk)
      /\ missed' = IF Len(stream) = Capacity THEN missed \cup ToSet(Head(stream)) ELSE missed
  BY DEF Send
<1>2. PICK p : p = batcher.pending
  OBVIOUS
<1>3. PICK v : v = Way
  OBVIOUS
<1>4. /\ events \in Seq(Seq(Int)) /\ batch \in Seq(Int) /\ p \in Seq(Int) /\ stream \in Seq(Seq(Int))
      /\ v \in Seq(Int) /\ chunk \in Seq(Int) /\ read \in Nat
  BY <1>2, <1>3, WayTypes
<1>5. v = OnItsWay(events, batch, p, stream, chunk)
  BY <1>2, <1>3 DEF Way
<1>6. CASE Len(stream) # Capacity
  <2>1. stream' = Append(stream, chunk) /\ missed' = missed
    BY <1>1, <1>6
  <2>2. Way' = OnItsWay(events, batch, p, Append(stream, chunk), <<>>)
    BY <1>1, <1>2, <2>1 DEF Way
  <2>3. Way' = v
    BY <2>2, <1>4, <1>5, WaySend
  <2>4. Carries(v, missed, read, Way', missed, read, b)
    BY <2>3, CarriesAlike
  <2> QED BY <2>1, <2>4, <1>1, <1>3
<1>7. CASE Len(stream) = Capacity
  <2>1. stream' = Append(Tail(stream), chunk) /\ missed' = missed \cup ToSet(Head(stream))
    BY <1>1, <1>7
  <2>2. stream # <<>>
    BY <1>7, LimitsAssumption
  <2>3. PICK h : h = Head(stream)
    OBVIOUS
  <2>4. PICK t : t = Tail(stream)
    OBVIOUS
  <2>5. PICK z : z = Flat(t) \o chunk
    OBVIOUS
  <2>6. h \in Seq(Int) /\ t \in Seq(Seq(Int)) /\ z \in Seq(Int) /\ Flat(stream) \o chunk = h \o z
    BY <2>2, <2>3, <2>4, <2>5, <1>4, ChunkFirst
  <2>7. PICK x : x = Flat(events) \o (batch \o p)
    OBVIOUS
  <2>8. x \in Seq(Int) /\ v = x \o (h \o z)
    <3>1. AreParts(events, batch, p, stream, chunk)
      BY <1>4 DEF AreParts
    <3>2. WayInTwo(events, batch, p, stream, chunk)
      BY <3>1, WaySplit
    <3>3. /\ Flat(events) \o (batch \o p) \in Seq(Int)
          /\ OnItsWay(events, batch, p, stream, chunk) = (Flat(events) \o (batch \o p)) \o (Flat(stream) \o chunk)
      BY <3>2 DEF WayInTwo
    <3> QED BY <3>3, <2>6, <2>7, <1>5
  <2>9. OnItsWay(events, batch, p, t, chunk) = x \o z
    <3>1. OnItsWay(events, batch, p, t, chunk) = (Flat(events) \o (batch \o p)) \o (Flat(t) \o chunk)
      <4>1. AreParts(events, batch, p, t, chunk)
        BY <2>6, <1>4 DEF AreParts
      <4>2. WayInTwo(events, batch, p, t, chunk)
        BY <4>1, WaySplit
      <4> QED BY <4>2 DEF WayInTwo
    <3> QED BY <3>1, <2>5, <2>7
  <2>10. Way' = OnItsWay(events, batch, p, Append(t, chunk), <<>>)
    BY <1>1, <1>2, <2>1, <2>4 DEF Way
  <2>11. Way' = x \o z
    <3>1. t \in Seq(Seq(Int)) /\ chunk \in Seq(Int)
      BY <2>6, <1>4
    <3>2. OnItsWay(events, batch, p, Append(t, chunk), <<>>) = OnItsWay(events, batch, p, t, chunk)
      BY <3>1, WaySend
    <3> QED BY <3>2, <2>9, <2>10
  <2>12. ASSUME NEW f \in Seq(Int), Trail(f \o v, b, missed, read)
         PROVE  Trail(f \o (x \o z), b, missed \cup ToSet(h), read)
    <3>1. PICK y : y = f \o x
      OBVIOUS
    <3>2. y \in Seq(Int)
      BY <3>1, <2>8, JoinType
    <3>3. h \o z \in Seq(Int)
      BY <2>6, JoinType
    <3>4. y \o (h \o z) = f \o (x \o (h \o z))
      BY <3>1, <3>3, <2>8, Joins
    <3>5. y \o z = f \o (x \o z)
      BY <3>1, <2>6, <2>8, Joins
    <3>6. Trail(y \o (h \o z), b, missed, read)
      BY <3>4, <2>8, <2>12
    <3>7. read \in Int /\ b \in Int /\ b >= 0
      BY <1>4
    <3>8. Trail(y \o z, b, missed \cup ToSet(h), read)
      BY <3>2, <3>6, <3>7, <2>6, TrailLoses
    <3> QED BY <3>5, <3>8
  <2>13. \A f \in Seq(Int) : Trail(f \o v, b, missed, read) => Trail(f \o (x \o z), b, missed \cup ToSet(h), read)
    BY <2>12
  <2> QED BY <2>1, <2>3, <2>11, <2>13, <1>1, <1>3 DEF Carries
<1> QED BY <1>6, <1>7

LEMMA CarriesPump ==
    ASSUME HistoryInv, PumpInv, Pump, batcher.visible, NEW b \in Nat
    PROVE  Carries(Way, missed, read, Way', missed', read', b)
<1>0. UNCHANGED <<chunk, read>>
  BY DEF Pump, Receive, Wake, SeeDone, EmitReady, Deliver, Drain, Flush, SinkExit, Outside, reading
<1>1. PICK p : p = batcher.pending
  OBVIOUS
<1>2. PICK v : v = Way
  OBVIOUS
<1>3. /\ events \in Seq(Seq(Int)) /\ batch \in Seq(Int) /\ p \in Seq(Int) /\ stream \in Seq(Seq(Int))
      /\ v \in Seq(Int) /\ chunk \in Seq(Int) /\ read \in Nat
  BY <1>1, <1>2, WayTypes
<1>4. v = OnItsWay(events, batch, p, stream, chunk)
  BY <1>1, <1>2 DEF Way
<1>5. CASE Take /\ UNCHANGED <<batch, events>>
  <2>1. stream # <<>> /\ stream' = Tail(stream) /\ missed' = missed /\ batcher' = [batcher EXCEPT !.pending = batcher.pending \o Head(stream)]
    BY <1>5 DEF Take
  <2>2. batcher \in [visible : BOOLEAN, pending : Seq(Int), ready : BOOLEAN]
    BY DEF PumpInv, BatcherHolds
  <2>3. PICK h : h = Head(stream)
    OBVIOUS
  <2>4. PICK x : x = p \o h
    OBVIOUS
  <2>5. batcher'.pending = x
    BY <2>1, <2>2, <2>3, <2>4, <1>1
  <2>6. Way' = OnItsWay(events, batch, x, Tail(stream), chunk)
    BY <2>1, <2>5, <1>0, <1>5 DEF Way
  <2>7. OnItsWay(events, batch, p \o Head(stream), Tail(stream), chunk) = v
    BY <2>1, <1>3, <1>4, WayTake
  <2>8. Way' = v
    BY <2>3, <2>4, <2>6, <2>7
  <2>9. Carries(v, missed, read, Way', missed, read, b)
    BY <2>8, CarriesAlike
  <2> QED BY <2>1, <2>9, <1>0, <1>2
<1>6. CASE UNCHANGED <<stream, missed, batcher, batch, events>>
  <2>1. Way' = v
    BY <1>0, <1>2, <1>6 DEF Way
  <2>2. Carries(v, missed, read, Way', missed, read, b)
    BY <2>1, CarriesAlike
  <2> QED BY <2>2, <1>0, <1>2, <1>6
<1>7. CASE TakeBatch /\ batch = <<>> /\ UNCHANGED events
  <2>1. batch' = p /\ UNCHANGED <<stream, missed>>
    BY <1>1, <1>7 DEF TakeBatch
  <2>2. batcher'.pending = <<>>
    BY <1>0, <1>7, TakenBatch
  <2>3. Way' = OnItsWay(events, p, <<>>, stream, chunk)
    BY <2>1, <2>2, <1>0, <1>7 DEF Way
  <2>4. v = OnItsWay(events, <<>>, p, stream, chunk)
    BY <1>4, <1>7
  <2>5. Way' = v
    BY <2>3, <2>4, <1>3, WayTakeBatch
  <2>6. Carries(v, missed, read, Way', missed, read, b)
    BY <2>5, CarriesAlike
  <2> QED BY <2>1, <2>6, <1>0, <1>2
<1>8. CASE Deliver
  <2>1. batch' = <<>> /\ events' = Append(events, batch) /\ UNCHANGED <<stream, missed, batcher>>
    BY <1>8 DEF Deliver, Nothing
  <2>2. Way' = OnItsWay(Append(events, batch), <<>>, p, stream, chunk)
    BY <2>1, <1>0, <1>1 DEF Way
  <2>3. Way' = v
    <3>1. AreParts(events, batch, p, stream, chunk)
      BY <1>3 DEF AreParts
    <3>2. OnItsWay(Append(events, batch), <<>>, p, stream, chunk) = OnItsWay(events, batch, p, stream, chunk)
      BY <3>1, WayDeliver
    <3> QED BY <2>2, <3>2, <1>4
  <2>4. Carries(v, missed, read, Way', missed, read, b)
    BY <2>3, CarriesAlike
  <2> QED BY <2>1, <2>4, <1>0, <1>2
<1>9. CASE SinkExit
  <2>1. batch = <<>> /\ batch' = <<>> /\ events' = Append(events, <<End>>) /\ UNCHANGED <<stream, missed, batcher>>
    BY <1>9 DEF SinkExit, Goes, Nothing
  <2>2. PICK e : e = <<End>>
    OBVIOUS
  <2>3. e \in Seq(Int)
    BY <2>2, ToSetEnd
  <2>4. PICK a : a = Flat(events)
    OBVIOUS
  <2>5. PICK y : y = p \o (Flat(stream) \o chunk)
    OBVIOUS
  <2>6. Way' = OnItsWay(Append(events, e), <<>>, p, stream, chunk)
    BY <2>1, <2>2, <1>0, <1>1 DEF Way
  <2>7. /\ Way' = a \o (e \o y) /\ OnItsWay(events, <<>>, p, stream, chunk) = a \o y
        /\ a \in Seq(Int) /\ y \in Seq(Int)
    <3>1. /\ OnItsWay(Append(events, e), <<>>, p, stream, chunk) = OnItsWay(events, e, p, stream, chunk)
          /\ OnItsWay(events, <<>>, p, stream, chunk) = Flat(events) \o (p \o (Flat(stream) \o chunk))
          /\ OnItsWay(events, e, p, stream, chunk) = Flat(events) \o (e \o (p \o (Flat(stream) \o chunk)))
          /\ Flat(events) \in Seq(Int) /\ p \o (Flat(stream) \o chunk) \in Seq(Int)
      <4>1. AreParts(events, e, p, stream, chunk)
        BY <2>3, <1>3 DEF AreParts
      <4> QED BY <4>1, WayDeliver
    <3> QED BY <3>1, <2>4, <2>5, <2>6
  <2>8. v = a \o y
    BY <2>1, <2>7, <1>4
  <2>9. ASSUME NEW f \in Seq(Int), Trail(f \o v, b, missed, read)
        PROVE  Trail(f \o (a \o (e \o y)), b, missed, read)
    <3>1. PICK x : x = f \o a
      OBVIOUS
    <3>2. x \in Seq(Int)
      BY <3>1, <2>7, JoinType
    <3>3. e \o y \in Seq(Int)
      BY <2>3, <2>7, JoinType
    <3>4. x \o y = f \o (a \o y)
      BY <3>1, <2>7, Joins
    <3>5. x \o (e \o y) = f \o (a \o (e \o y))
      BY <3>1, <3>3, <2>7, Joins
    <3>6. Trail(x \o y, b, missed, read)
      BY <3>4, <2>8, <2>9
    <3>7. read \in Int /\ b \in Int /\ b >= 0
      BY <1>3
    <3>8. Trail(x \o (<<End>> \o y), b, missed, read)
      BY <3>2, <3>6, <3>7, <2>7, TrailWithEnd
    <3> QED BY <3>5, <3>8, <2>2
  <2>10. \A f \in Seq(Int) : Trail(f \o v, b, missed, read) => Trail(f \o (a \o (e \o y)), b, missed, read)
    BY <2>9
  <2> QED BY <2>1, <2>7, <2>10, <1>0, <1>2 DEF Carries
<1>10. CASE Receive
  <2>1. UNCHANGED <<batch, events>> /\ (Take \/ UNCHANGED <<stream, missed, batcher>>)
    BY <1>10 DEF Receive, HearLag
  <2> QED BY <2>1, <1>5, <1>6
<1>11. CASE Wake \/ SeeDone
  <2>1. UNCHANGED <<stream, missed, batcher, batch, events>>
    BY <1>11 DEF Wake, SeeDone, Nothing
  <2> QED BY <2>1, <1>6
<1>12. CASE EmitReady
  <2>1. batch = <<>> /\ UNCHANGED events /\ (TakeBatch \/ UNCHANGED <<stream, missed, batcher, batch>>)
    BY <1>12 DEF EmitReady, Goes, Nothing
  <2> QED BY <2>1, <1>6, <1>7
<1>13. CASE Drain
  <2>1. UNCHANGED <<batch, events>> /\ (Take \/ UNCHANGED <<stream, missed, batcher>>)
    BY <1>13 DEF Drain, HearLag, Nothing
  <2> QED BY <2>1, <1>5, <1>6
<1>14. CASE Flush
  <2>1. batch = <<>> /\ UNCHANGED events /\ TakeBatch
    BY <1>14 DEF Flush, Goes
  <2> QED BY <2>1, <1>7
<1> QED BY <1>8, <1>9, <1>10, <1>11, <1>12, <1>13, <1>14 DEF Pump

\* The call that shows the panel as it is now, and whether it was served.
Its(c, g) == c.op = "show" /\ c.generation = g
Served(cs, g) == \A i \in 1 .. Len(cs) : ~Its(cs[i], g)

Askings == [op : {"show", "hide", "clear"}, generation : Nat]

PanelShape ==
    /\ panel \in [on : BOOLEAN, shut : BOOLEAN, queue : Seq(Int), generation : Nat]
    /\ ToSet(panel.queue) \subseteq 0 .. read
    /\ screen \in Seq(Int) /\ ToSet(screen) \subseteq 0 .. read
    /\ calls \in Seq(Askings) /\ \A i \in 1 .. Len(calls) : calls[i].generation <= panel.generation
    /\ \A r \in replies : /\ r.generation \in Nat /\ r.generation <= panel.generation
                          /\ r.history \in Seq(Int) /\ ToSet(r.history) \subseteq 0 .. read
    /\ base \in Nat /\ base >= 1

\* A panel is served in the order it asked: after its own show only wipes are left,
\* and what comes from then on is shown.
PanelCalls ==
    panel.on =>
        /\ \A i \in 1 .. Len(calls) :
               Its(calls[i], panel.generation) => \A j \in i + 1 .. Len(calls) : calls[j].op = "clear"
        /\ Served(calls, panel.generation) =>
               batcher.visible /\ \A i \in 1 .. Len(calls) : calls[i].op = "clear"
        /\ ~panel.shut => Served(calls, panel.generation)
        /\ \A r \in replies : r.generation = panel.generation => Served(calls, panel.generation)
        /\ panel.shut => ToSet(screen) \subseteq {0}

\* Screen, what waits for the history, and what is on its way are a trail.
PanelTrail ==
    panel.on =>
        /\ ~panel.shut => Trail(screen \o Way, base, missed, read)
        /\ panel.shut => \A r \in replies : r.generation = panel.generation =>
               Trail((screen \o (r.history \o panel.queue)) \o Way, base, missed, read)

PanelInv == PanelShape /\ PanelCalls /\ PanelTrail

\* The panel, from the start.
LEMMA PanelInit == OutputInit => PanelInv
<1> SUFFICES ASSUME OutputInit PROVE PanelInv
  OBVIOUS
<1>1. /\ panel = [on |-> FALSE, shut |-> FALSE, queue |-> <<>>, generation |-> 0] /\ screen = <<>>
      /\ calls = <<>> /\ replies = {} /\ base = 1
  BY DEF OutputInit
<1>2. <<>> \in Seq(Int) /\ <<>> \in Seq(Askings) /\ Len(<<>>) = 0
  OBVIOUS
<1>3. panel \in [on : BOOLEAN, shut : BOOLEAN, queue : Seq(Int), generation : Nat] /\ ~panel.on /\ panel.queue = <<>>
  BY <1>1, <1>2
<1>4. PanelShape
  BY <1>1, <1>2, <1>3, ToSetNone DEF PanelShape
<1> QED BY <1>3, <1>4 DEF PanelInv, PanelCalls, PanelTrail

\* A step that leaves the panel alone and carries the output.
LEMMA PanelCarried ==
    ASSUME HistoryInv, PanelInv, read' \in Nat, read <= read', UNCHANGED <<panel, screen, calls, replies, base>>,
           batcher'.visible = batcher.visible,
           batcher.visible => Carries(Way, missed, read, Way', missed', read', base)
    PROVE  PanelInv'
<1>0. read \in Nat
  BY DEF HistoryInv
<1>1. 0 .. read \subseteq 0 .. read'
  BY <1>0
<1>2. PanelShape'
  BY <1>1 DEF PanelInv, PanelShape
<1>3. PanelCalls'
  BY DEF PanelInv, PanelCalls
<1>4. PanelTrail'
  <2>1. SUFFICES ASSUME panel.on
                 PROVE  /\ ~panel.shut => Trail(screen \o Way', base, missed', read')
                        /\ panel.shut => \A r \in replies : r.generation = panel.generation =>
                              Trail((screen \o (r.history \o panel.queue)) \o Way', base, missed', read')
    BY DEF PanelTrail
  <2>2. ASSUME batcher.visible
        PROVE  \A f \in Seq(Int) : Trail(f \o Way, base, missed, read) => Trail(f \o Way', base, missed', read')
    BY <2>2 DEF Carries
  <2>3. screen \in Seq(Int) /\ panel.queue \in Seq(Int) /\ \A r \in replies : r.history \in Seq(Int)
    BY DEF PanelInv, PanelShape
  <2>4. Served(calls, panel.generation) => batcher.visible
    BY <2>1 DEF PanelInv, PanelCalls
  <2>5. ASSUME ~panel.shut PROVE Trail(screen \o Way', base, missed', read')
    <3>1. batcher.visible
      BY <2>1, <2>4, <2>5 DEF PanelInv, PanelCalls
    <3>2. Trail(screen \o Way, base, missed, read)
      BY <2>1, <2>5 DEF PanelInv, PanelTrail
    <3> QED BY <2>2, <2>3, <3>1, <3>2
  <2>6. ASSUME panel.shut, NEW r \in replies, r.generation = panel.generation
        PROVE  Trail((screen \o (r.history \o panel.queue)) \o Way', base, missed', read')
    <3>1. batcher.visible
      BY <2>1, <2>4, <2>6 DEF PanelInv, PanelCalls
    <3>2. Trail((screen \o (r.history \o panel.queue)) \o Way, base, missed, read)
      BY <2>1, <2>6 DEF PanelInv, PanelTrail
    <3>3. screen \o (r.history \o panel.queue) \in Seq(Int)
      BY <2>3, JoinType
    <3> QED BY <2>2, <3>1, <3>2, <3>3
  <2> QED BY <2>5, <2>6
<1> QED BY <1>2, <1>3, <1>4 DEF PanelInv

\* Where the history of the ring begins.
LEMMA RingBegins ==
    ASSUME HistoryInv
    PROVE  /\ Flat(ring) \in Seq(Int) /\ EndsAt(Flat(ring), read) /\ ToSet(Flat(ring)) \subseteq 0 .. read
           /\ (IF ring = <<>> THEN read + 1 ELSE Head(Head(ring))) = read - Len(Flat(ring)) + 1
           /\ read - Len(Flat(ring)) + 1 \in Nat /\ read - Len(Flat(ring)) + 1 >= 1
<1>1. /\ read \in Nat /\ cleared \in Nat /\ IsEntries(ring) /\ EndsAt(Flat(ring), read)
      /\ Len(Flat(ring)) <= read - cleared
  BY DEF HistoryInv, RingHolds
<1>2. PICK f : f = Flat(ring)
  OBVIOUS
<1>3. f \in Seq(Int) /\ Len(f) \in Nat /\ EndsAt(f, read) /\ Len(f) <= read - cleared
  BY <1>1, <1>2 DEF EndsAt
<1>4. ToSet(f) = read - Len(f) + 1 .. read
  BY <1>1, <1>3, ToSetEndsAt
<1>5. read - Len(f) + 1 \in Nat /\ read - Len(f) + 1 >= 1
  BY <1>1, <1>3
<1>6. ToSet(f) \subseteq 0 .. read
  BY <1>1, <1>4, <1>5
<1>7. CASE ring = <<>>
  <2>1. f = <<>> /\ Len(<<>>) = 0
    BY <1>2, <1>7, FlatEmpty
  <2>2. read - Len(f) + 1 = read + 1
    BY <2>1, <1>1
  <2> QED BY <1>1, <1>2, <1>3, <1>5, <1>6, <1>7, <2>2
<1>8. CASE ring # <<>>
  <2>1. ring \in Seq(Seq(Int)) /\ Len(ring) \in Nat /\ Len(ring) >= 1
    BY <1>1, <1>8 DEF IsEntries
  <2>2. PICK h : h = Head(ring)
    OBVIOUS
  <2>3. h = ring[1] /\ h \in Seq(Int) /\ 1 \in 1 .. Len(ring)
    BY <1>8, <2>1, <2>2
  <2>4. Len(h) >= 1 /\ Len(h) \in Nat
    BY <2>3, <1>1, LimitsAssumption DEF IsEntries
  <2>5. PICK t : t = Flat(Tail(ring))
    OBVIOUS
  <2>6. t \in Seq(Int)
    <3>1. Tail(ring) \in Seq(Seq(Int))
      BY <1>8, <2>1, TailIs
    <3> QED BY <3>1, <2>5, FlatType
  <2>7. f = h \o t
    BY <1>2, <1>8, <2>1, <2>2, <2>5, FlatHead
  <2>8. 1 \in 1 .. Len(f) /\ f[1] = h[1]
    <3>1. 1 \in 1 .. Len(h) /\ Len(h \o t) = Len(h) + Len(t) /\ Len(t) \in Nat /\ (h \o t)[1] = h[1]
      BY <2>3, <2>4, <2>6, ConcatAt
    <3> QED BY <3>1, <2>7, <2>4
  <2>9. Head(h) = h[1]
    BY <2>3, <2>4
  <2>10. f[1] = read - Len(f) + 1
    BY <1>3, <2>8 DEF EndsAt
  <2> QED BY <1>1, <1>2, <1>3, <1>5, <1>6, <1>8, <2>2, <2>8, <2>9, <2>10
<1> QED BY <1>7, <1>8

\* Nothing moves towards the screen.
LEMMA PanelWaits ==
    ASSUME HistoryInv, PanelInv, UNCHANGED <<panel, screen, calls, replies, base>>,
           UNCHANGED <<events, batch, stream, chunk, missed, read>>, batcher'.pending = batcher.pending,
           batcher'.visible = batcher.visible
    PROVE  PanelInv'
<1>1. Way' = Way
  BY DEF Way
<1>2. Carries(Way, missed, read, Way', missed', read', base)
  <2>1. Carries(Way, missed, read, Way', missed, read, base)
    BY <1>1, CarriesAlike
  <2> QED BY <2>1
<1>3. read' \in Nat /\ read <= read'
  BY DEF HistoryInv
<1> QED BY <1>2, <1>3, PanelCarried

LEMMA PanelRuns == HistoryInv /\ PumpInv /\ PanelInv /\ (Reader \/ Die \/ Waiter \/ Pump \/ Tick) => PanelInv'
<1> SUFFICES ASSUME HistoryInv, PumpInv, PanelInv, Reader \/ Die \/ Waiter \/ Pump \/ Tick PROVE PanelInv'
  OBVIOUS
<1>0. base \in Nat /\ read \in Nat
  BY DEF PanelInv, PanelShape, HistoryInv
<1>1. CASE Read
  <2>1. UNCHANGED <<panel, screen, calls, replies, base, batcher>>
    BY <1>1 DEF Read, ui
  <2>2. read' \in Nat /\ read <= read'
    <3>1. PICK n \in 1 .. ReadChunk : read' = read + n
      BY <1>1 DEF Read
    <3> QED BY <3>1, <1>0
  <2>3. Carries(Way, missed, read, Way', missed', read', base)
    BY <1>0, <1>1, CarriesRead
  <2> QED BY <2>1, <2>2, <2>3, PanelCarried
<1>2. CASE Send
  <2>1. UNCHANGED <<panel, screen, calls, replies, base, batcher, read>>
    BY <1>2 DEF Send, ui
  <2>2. Carries(Way, missed, read, Way', missed', read', base)
    BY <1>0, <1>2, CarriesSend
  <2> QED BY <2>1, <2>2, <1>0, PanelCarried
<1>3. CASE Eof \/ Die \/ Waiter
  <2>1. UNCHANGED <<panel, screen, calls, replies, base, events, batch, stream, chunk, missed, read, batcher>>
    BY <1>3 DEF Eof, Die, Waiter, ui, reading, pumping
  <2> QED BY <2>1, PanelWaits
<1>4. CASE Tick
  <2>1. /\ UNCHANGED <<panel, screen, calls, replies, base, events, batch, stream, chunk, missed, read>>
        /\ batcher' = [batcher EXCEPT !.ready = TRUE]
    BY <1>4 DEF Tick, Outside, ui, reading, pumping
  <2>2. batcher \in [visible : BOOLEAN, pending : Seq(Int), ready : BOOLEAN]
    BY DEF PumpInv, BatcherHolds
  <2>3. batcher'.pending = batcher.pending /\ batcher'.visible = batcher.visible
    BY <2>1, <2>2
  <2> QED BY <2>1, <2>3, PanelWaits
<1>5. CASE Pump
  <2>1. UNCHANGED <<panel, screen, calls, replies, base, read, chunk>>
    BY <1>5 DEF Pump, Receive, Wake, SeeDone, EmitReady, Deliver, Drain, Flush, SinkExit, Outside, ui, reading
  <2>2. batcher \in [visible : BOOLEAN, pending : Seq(Int), ready : BOOLEAN]
    BY DEF PumpInv, BatcherHolds
  <2>3. batcher' = batcher \/ batcher' = [batcher EXCEPT !.pending = batcher.pending \o Head(stream)]
        \/ batcher' = [batcher EXCEPT !.pending = <<>>, !.ready = FALSE]
    BY <1>5 DEF Pump, Receive, Wake, SeeDone, EmitReady, Deliver, Drain, Flush, SinkExit, Take, HearLag, Nothing, TakeBatch
  <2>4. batcher'.visible = batcher.visible
    BY <2>2, <2>3
  <2>5. batcher.visible => Carries(Way, missed, read, Way', missed', read', base)
    BY <1>0, <1>5, CarriesPump
  <2> QED BY <2>1, <2>4, <2>5, <1>0, PanelCarried
<1> QED BY <1>1, <1>2, <1>3, <1>4, <1>5 DEF Reader

\* The panel asks: one more call of its generation.
LEMMA Asked ==
    ASSUME PanelShape, NEW op \in {"show", "hide", "clear"}, NEW g \in Nat, panel.generation <= g,
           calls' = Append(calls, [op |-> op, generation |-> g])
    PROVE  /\ calls' \in Seq(Askings) /\ Len(calls) \in Nat /\ Len(calls') = Len(calls) + 1
           /\ \A i \in 1 .. Len(calls) : calls'[i] = calls[i]
           /\ calls'[Len(calls) + 1] = [op |-> op, generation |-> g]
           /\ \A i \in 1 .. Len(calls') : calls'[i].generation <= g
<1>1. calls \in Seq(Askings) /\ panel.generation \in Nat
  BY DEF PanelShape
<1>2. PICK c : c = [op |-> op, generation |-> g]
  OBVIOUS
<1>3. c \in Askings /\ c.generation = g
  BY <1>2 DEF Askings
<1>4. /\ calls' \in Seq(Askings) /\ Len(calls) \in Nat /\ Len(calls') = Len(calls) + 1
      /\ \A i \in 1 .. Len(calls) + 1 : calls'[i] = IF i = Len(calls) + 1 THEN c ELSE calls[i]
  <2>1. Append(calls, c) = calls'
    BY <1>2
  <2> QED BY <2>1, <1>1, <1>3, AppendAt
<1>5. ASSUME NEW i \in 1 .. Len(calls') PROVE calls'[i].generation <= g
  <2>1. CASE i = Len(calls) + 1
    BY <2>1, <1>3, <1>4
  <2>2. CASE i # Len(calls) + 1
    <3>1. i \in 1 .. Len(calls) /\ calls'[i] = calls[i] /\ calls[i] \in Askings
      BY <2>2, <1>1, <1>4
    <3>2. calls[i].generation <= panel.generation /\ calls[i].generation \in Nat
      BY <3>1 DEF PanelShape, Askings
    <3> QED BY <3>1, <3>2, <1>1
  <2> QED BY <2>1, <2>2
<1> QED BY <1>2, <1>4, <1>5

\* The three things somebody can do to the panel.
LEMMA PanelAppears == PanelInv /\ Appear => PanelInv'
<1> SUFFICES ASSUME PanelInv, Appear PROVE PanelInv'
  OBVIOUS
<1>1. PICK g : g = panel.generation + 1
  OBVIOUS
<1>2. /\ panel' = [on |-> TRUE, shut |-> TRUE, queue |-> <<>>, generation |-> g] /\ screen' = <<>>
      /\ UNCHANGED <<replies, base, read, batcher>>
  BY <1>1 DEF Appear, Core, reading
<1>3. calls' = Append(calls, [op |-> "show", generation |-> g])
  BY <1>2 DEF Appear, Call
<1>4. PanelShape /\ panel.generation \in Nat
  BY DEF PanelInv, PanelShape
<1>5. g \in Nat /\ panel.generation < g
  BY <1>1, <1>4
<1>6. /\ calls' \in Seq(Askings) /\ Len(calls) \in Nat /\ Len(calls') = Len(calls) + 1
      /\ \A i \in 1 .. Len(calls) : calls'[i] = calls[i]
      /\ calls'[Len(calls) + 1] = [op |-> "show", generation |-> g]
      /\ \A i \in 1 .. Len(calls') : calls'[i].generation <= g
  BY <1>3, <1>4, <1>5, Asked
<1>7. panel'.on /\ panel'.shut /\ panel'.queue = <<>> /\ panel'.generation = g
  BY <1>2
<1>8. /\ <<>> \in Seq(Int) /\ ToSet(<<>>) = {}
  BY ToSetNone
<1>9. \A r \in replies : r.generation \in Nat /\ r.generation <= panel.generation
  BY <1>4 DEF PanelShape
<1>10. \A r \in replies : r.generation <= g /\ r.generation # g
  BY <1>5, <1>9, <1>4
<1>11. PanelShape'
  <2>1. panel' \in [on : BOOLEAN, shut : BOOLEAN, queue : Seq(Int), generation : Nat]
    BY <1>2, <1>5, <1>8
  <2> QED BY <2>1, <1>2, <1>4, <1>6, <1>7, <1>8, <1>10 DEF PanelShape
<1>12. \A i \in 1 .. Len(calls) : ~Its(calls'[i], g)
  <2> SUFFICES ASSUME NEW i \in 1 .. Len(calls) PROVE ~Its(calls'[i], g)
    OBVIOUS
  <2>1. calls'[i] = calls[i] /\ calls[i].generation <= panel.generation /\ calls[i] \in Askings
    BY <1>4, <1>6 DEF PanelShape
  <2>2. calls[i].generation # g
    BY <2>1, <1>4, <1>5 DEF Askings
  <2> QED BY <2>1, <2>2 DEF Its
<1>13. Its(calls'[Len(calls) + 1], g)
  BY <1>6 DEF Its
<1>14. ~Served(calls', g)
  BY <1>6, <1>13 DEF Served
<1>15. \A i \in 1 .. Len(calls') : Its(calls'[i], g) => i = Len(calls')
  BY <1>6, <1>12
<1>16. PanelCalls'
  <2>1. \A i \in 1 .. Len(calls') : Its(calls'[i], g) => \A j \in i + 1 .. Len(calls') : calls'[j].op = "clear"
    BY <1>6, <1>15
  <2> QED BY <2>1, <1>2, <1>7, <1>8, <1>10, <1>14 DEF PanelCalls
<1>17. PanelTrail'
  BY <1>2, <1>7, <1>10 DEF PanelTrail
<1> QED BY <1>11, <1>16, <1>17 DEF PanelInv

LEMMA PanelVanishes == PanelInv /\ Vanish => PanelInv'
<1> SUFFICES ASSUME PanelInv, Vanish PROVE PanelInv'
  OBVIOUS
<1>1. PICK g : g = panel.generation + 1
  OBVIOUS
<1>2. /\ panel' = [on |-> FALSE, shut |-> FALSE, queue |-> <<>>, generation |-> g]
      /\ UNCHANGED <<screen, replies, base, read>>
  BY <1>1 DEF Vanish, Core, reading
<1>3. calls' = Append(calls, [op |-> "hide", generation |-> g])
  BY <1>2 DEF Vanish, Call
<1>4. PanelShape /\ panel.generation \in Nat
  BY DEF PanelInv, PanelShape
<1>5. g \in Nat /\ panel.generation < g
  BY <1>1, <1>4
<1>6. /\ calls' \in Seq(Askings)
      /\ \A i \in 1 .. Len(calls') : calls'[i].generation <= g
  BY <1>3, <1>4, <1>5, Asked
<1>7. ~panel'.on /\ panel'.queue = <<>> /\ panel'.generation = g
  BY <1>2
<1>8. <<>> \in Seq(Int) /\ ToSet(<<>>) = {}
  BY ToSetNone
<1>9. \A r \in replies : r.generation \in Nat /\ r.generation <= g
  BY <1>4, <1>5 DEF PanelShape
<1>10. PanelShape'
  <2>1. panel' \in [on : BOOLEAN, shut : BOOLEAN, queue : Seq(Int), generation : Nat]
    BY <1>2, <1>5, <1>8
  <2> QED BY <2>1, <1>2, <1>4, <1>6, <1>7, <1>8, <1>9 DEF PanelShape
<1> QED BY <1>7, <1>10 DEF PanelInv, PanelCalls, PanelTrail

LEMMA PanelWiped == HistoryInv /\ PumpInv /\ PanelInv /\ Wipe => PanelInv'
<1> SUFFICES ASSUME HistoryInv, PumpInv, PanelInv, Wipe PROVE PanelInv'
  OBVIOUS
<1>1. /\ screen' = <<>> /\ base' = read + 1 /\ panel.on
      /\ UNCHANGED <<panel, replies, read, batcher, missed, events, batch, stream, chunk>>
  BY DEF Wipe, Core, reading, pumping
<1>2. PICK g : g = panel.generation
  OBVIOUS
<1>3. calls' = Append(calls, [op |-> "clear", generation |-> g])
  BY <1>1, <1>2 DEF Wipe, Call
<1>4. PanelShape /\ PanelCalls /\ g \in Nat /\ panel.generation <= g /\ read \in Nat
  BY <1>2 DEF PanelInv, PanelShape, HistoryInv
<1>5. /\ calls' \in Seq(Askings) /\ Len(calls) \in Nat /\ Len(calls') = Len(calls) + 1
      /\ \A i \in 1 .. Len(calls) : calls'[i] = calls[i]
      /\ calls'[Len(calls) + 1] = [op |-> "clear", generation |-> g]
      /\ \A i \in 1 .. Len(calls') : calls'[i].generation <= g
  BY <1>3, <1>4, Asked
<1>6. <<>> \in Seq(Int) /\ ToSet(<<>>) = {}
  BY ToSetNone
<1>7. PanelShape'
  <2>1. base' \in Nat /\ base' >= 1
    BY <1>1, <1>4
  <2>2. \A i \in 1 .. Len(calls') : calls'[i].generation <= panel'.generation
    BY <1>1, <1>2, <1>5
  <2> QED BY <2>1, <2>2, <1>1, <1>4, <1>5, <1>6 DEF PanelShape
<1>8. ~Its(calls'[Len(calls) + 1], g)
  BY <1>5 DEF Its
<1>9. Served(calls', g) <=> Served(calls, g)
  BY <1>5, <1>8 DEF Served
<1>10. PanelCalls'
  <2>1. \A i \in 1 .. Len(calls') : Its(calls'[i], g) => \A j \in i + 1 .. Len(calls') : calls'[j].op = "clear"
    <3> SUFFICES ASSUME NEW i \in 1 .. Len(calls'), Its(calls'[i], g), NEW j \in i + 1 .. Len(calls')
                 PROVE  calls'[j].op = "clear"
      OBVIOUS
    <3>1. i \in 1 .. Len(calls) /\ Its(calls[i], g)
      BY <1>5, <1>8
    <3>2. \A k \in i + 1 .. Len(calls) : calls[k].op = "clear"
      BY <3>1, <1>1, <1>2, <1>4 DEF PanelCalls
    <3>3. j = Len(calls) + 1 \/ j \in i + 1 .. Len(calls)
      <4>1. Len(calls) \in Nat /\ Len(calls') = Len(calls) + 1 /\ i \in Nat
        BY <3>1, <1>5
      <4> QED BY <4>1
    <3>4. CASE j = Len(calls) + 1
      BY <3>4, <1>5
    <3>5. CASE j \in i + 1 .. Len(calls)
      <4>1. j \in 1 .. Len(calls)
        BY <3>1, <3>5, <1>5
      <4> QED BY <3>2, <3>5, <4>1, <1>5
    <3> QED BY <3>3, <3>4, <3>5
  <2>2. Served(calls', g) => batcher.visible /\ \A i \in 1 .. Len(calls') : calls'[i].op = "clear"
    <3> SUFFICES ASSUME Served(calls', g), NEW i \in 1 .. Len(calls') PROVE batcher.visible /\ calls'[i].op = "clear"
      <4>1. Len(calls') \in Nat /\ 1 \in 1 .. Len(calls')
        BY <1>5
      <4> QED BY <4>1
    <3>1. batcher.visible /\ \A k \in 1 .. Len(calls) : calls[k].op = "clear"
      BY <1>1, <1>2, <1>4, <1>9 DEF PanelCalls
    <3>2. CASE i = Len(calls) + 1
      BY <3>1, <3>2, <1>5
    <3>3. CASE i # Len(calls) + 1
      <4>1. i \in 1 .. Len(calls)
        BY <3>3, <1>5
      <4> QED BY <3>1, <4>1, <1>5
    <3> QED BY <3>2, <3>3
  <2> QED BY <2>1, <2>2, <1>1, <1>2, <1>4, <1>6, <1>9 DEF PanelCalls
<1>11. PanelTrail'
  <2>1. PICK w : w = Way
    OBVIOUS
  <2>2. w \in Seq(Int) /\ ToSet(w) \subseteq 0 .. read
    BY <2>1, WayTypes
  <2>3. Way' = w
    BY <2>1, <1>1 DEF Way
  <2>4. ASSUME NEW s \in Seq(Int), ToSet(s) \subseteq 0 .. read PROVE Trail(s \o w, read + 1, missed, read)
    <3>1. PICK u : u = s \o w
      OBVIOUS
    <3>2. u \in Seq(Int) /\ ToSet(u) \subseteq 0 .. read
      BY <3>1, <2>2, <2>4, ToSetConcat, JoinType
    <3>3. read \in Int
      BY <1>4
    <3>4. Trail(u, read + 1, missed, read)
      BY <3>2, <3>3, TrailAfterAll
    <3> QED BY <3>1, <3>4
  <2>5. \A s \in Seq(Int) : ToSet(s) \subseteq 0 .. read => Trail(s \o w, read + 1, missed, read)
    BY <2>4
  <2>6. ASSUME NEW r \in replies
        PROVE  Trail((<<>> \o (r.history \o panel.queue)) \o w, read + 1, missed, read)
    <3>1. r.history \in Seq(Int) /\ ToSet(r.history) \subseteq 0 .. read
          /\ panel.queue \in Seq(Int) /\ ToSet(panel.queue) \subseteq 0 .. read
      BY <1>4 DEF PanelShape
    <3>2. PICK u : u = r.history \o panel.queue
      OBVIOUS
    <3>3. u \in Seq(Int) /\ ToSet(u) \subseteq 0 .. read
      BY <3>1, <3>2, ToSetConcat, JoinType
    <3>4. <<>> \o u = u
      BY <3>3, NoneJoins
    <3> QED BY <2>5, <3>2, <3>3, <3>4
  <2>7. Trail(<<>> \o w, read + 1, missed, read)
    <3>1. ToSet(<<>>) \subseteq 0 .. read
      BY ToSetNone
    <3> QED BY <1>6, <2>5, <3>1
  <2> QED BY <2>3, <2>6, <2>7, <1>1 DEF PanelTrail
<1> QED BY <1>7, <1>10, <1>11 DEF PanelInv

\* An event is handled: what it brought is no longer on its way.
LEMMA WayHandled ==
    ASSUME HistoryInv, PumpInv, Handle
    PROVE  /\ Head(events) \in Seq(Int) /\ ToSet(Head(events)) \subseteq 0 .. read
           /\ Way' \in Seq(Int) /\ Way = Head(events) \o Way'
<1>1. events # <<>> /\ events' = Tail(events) /\ UNCHANGED <<batcher, batch, stream, chunk>>
  BY DEF Handle, Core, reading, pumping
<1>2. PICK p : p = batcher.pending
  OBVIOUS
<1>3. PICK v : v = Way
  OBVIOUS
<1>4. /\ events \in Seq(Seq(Int)) /\ batch \in Seq(Int) /\ p \in Seq(Int) /\ stream \in Seq(Seq(Int))
      /\ v \in Seq(Int) /\ chunk \in Seq(Int) /\ ToSet(v) \subseteq 0 .. read
  BY <1>2, <1>3, WayTypes
<1>5. PICK h : h = Head(events)
  OBVIOUS
<1>6. PICK t : t = Tail(events)
  OBVIOUS
<1>7. h \in Seq(Int) /\ t \in Seq(Seq(Int))
  BY <1>1, <1>4, <1>5, <1>6, TailIs
<1>8. PICK w : w = OnItsWay(t, batch, p, stream, chunk)
  OBVIOUS
<1>9. w \in Seq(Int)
  <2>1. AreParts(t, batch, p, stream, chunk)
    BY <1>4, <1>7 DEF AreParts
  <2>2. OnItsWay(t, batch, p, stream, chunk) \in Seq(Int)
    BY <2>1, WayIs
  <2> QED BY <2>2, <1>8
<1>10. v = h \o w
  <2>1. AreParts(events, batch, p, stream, chunk)
    BY <1>4 DEF AreParts
  <2>2. OnItsWay(events, batch, p, stream, chunk) = Head(events) \o OnItsWay(Tail(events), batch, p, stream, chunk)
    <3>1. events # <<>>
      BY <1>1
    <3> QED BY <2>1, <3>1, WayHandle
  <2> QED BY <2>2, <1>2, <1>3, <1>5, <1>6, <1>8 DEF Way
<1>11. Way' = w
  BY <1>1, <1>2, <1>6, <1>8 DEF Way
<1>12. ToSet(h) \subseteq 0 .. read
  <2>1. ToSet(v) = ToSet(h) \cup ToSet(w)
    BY <1>7, <1>9, <1>10, ToSetConcat
  <2> QED BY <2>1, <1>4
<1> QED BY <1>3, <1>5, <1>7, <1>9, <1>10, <1>11, <1>12

\* Moved to the screen, or to what waits, it is still in its place.
LEMMA TrailToScreen ==
    ASSUME NEW s \in Seq(Int), NEW h \in Seq(Int), NEW w \in Seq(Int), NEW b, NEW A, NEW r,
           Trail(s \o (h \o w), b, A, r)
    PROVE  Trail((s \o h) \o w, b, A, r)
<1>1. (s \o h) \o w = s \o (h \o w)
  BY Joins
<1> QED BY <1>1

LEMMA TrailToQueue ==
    ASSUME NEW s \in Seq(Int), NEW k \in Seq(Int), NEW q \in Seq(Int), NEW h \in Seq(Int), NEW w \in Seq(Int),
           NEW b, NEW A, NEW r, Trail((s \o (k \o q)) \o (h \o w), b, A, r)
    PROVE  Trail((s \o (k \o (q \o h))) \o w, b, A, r)
<1>1. PICK x : x = k \o q
  OBVIOUS
<1>2. x \in Seq(Int) /\ q \o h \in Seq(Int)
  BY <1>1, JoinType
<1>3. k \o (q \o h) = x \o h
  BY <1>1, Joins
<1>4. PICK y : y = s \o x
  OBVIOUS
<1>5. y \in Seq(Int)
  BY <1>2, <1>4, JoinType
<1>6. s \o (x \o h) = y \o h
  <2>1. x \in Seq(Int)
    BY <1>2
  <2>2. \A u \in Seq(Int) : (s \o u) \o h = s \o (u \o h)
    BY Joins, SMTT(30)
  <2> QED BY <2>1, <2>2, <1>4
<1>7. (y \o h) \o w = y \o (h \o w)
  BY <1>5, Joins
<1> QED BY <1>1, <1>3, <1>4, <1>6, <1>7

\* The notice of the end overtakes what waits.
LEMMA TrailToEnd ==
    ASSUME NEW s \in Seq(Int), NEW k \in Seq(Int), NEW w \in Seq(Int), NEW b \in Int, b >= 1, NEW A, NEW r \in Int,
           Trail((s \o k) \o (<<End>> \o w), b, A, r)
    PROVE  Trail(((s \o <<End>>) \o k) \o w, b, A, r)
<1>1. PICK x : x = s \o k
  OBVIOUS
<1>2. PICK z : z = k \o w
  OBVIOUS
<1>3. x \in Seq(Int) /\ z \in Seq(Int)
  BY <1>1, <1>2, JoinType
<1>4. Trail(x \o w, b, A, r)
  BY <1>1, <1>3, TrailWithoutEnd
<1>5. x \o w = s \o z
  BY <1>1, <1>2, Joins
<1>6. Trail(s \o (<<End>> \o z), b, A, r)
  <2>1. b >= 0
    OBVIOUS
  <2>2. Trail(s \o z, b, A, r)
    BY <1>4, <1>5
  <2> QED BY <2>1, <2>2, <1>3, TrailWithEnd
<1>7. PICK e : e = <<End>>
  OBVIOUS
<1>8. e \in Seq(Int)
  BY <1>7, ToSetEnd
<1>9. PICK y : y = s \o e
  OBVIOUS
<1>10. y \in Seq(Int)
  BY <1>8, <1>9, JoinType
<1>11. y \o z = s \o (e \o z)
  <2>1. (s \o e) \o z = s \o (e \o z)
    BY <1>3, <1>8, Joins, ZenonT(60)
  <2> QED BY <2>1, <1>9
<1>12. (y \o k) \o w = y \o z
  BY <1>2, <1>10, Joins
<1> QED BY <1>6, <1>7, <1>9, <1>11, <1>12

\* What the interface does with an event, and with a history.
LEMMA PanelHandles == HistoryInv /\ PumpInv /\ PanelInv /\ Handle => PanelInv'
<1> SUFFICES ASSUME HistoryInv, PumpInv, PanelInv, Handle PROVE PanelInv'
  OBVIOUS
<1>1. UNCHANGED <<calls, replies, base, read, missed, batcher>>
  BY DEF Handle, Core, reading, pumping
<1>2. PICK h : h = Head(events)
  OBVIOUS
<1>3. PICK w : w = Way'
  OBVIOUS
<1>4. h \in Seq(Int) /\ ToSet(h) \subseteq 0 .. read /\ w \in Seq(Int) /\ Way = h \o w
  BY <1>2, <1>3, WayHandled
<1>5. /\ screen \in Seq(Int) /\ ToSet(screen) \subseteq 0 .. read /\ base \in Int /\ base >= 1 /\ read \in Int
      /\ panel \in [on : BOOLEAN, shut : BOOLEAN, queue : Seq(Int), generation : Nat]
      /\ ToSet(panel.queue) \subseteq 0 .. read
      /\ \A r \in replies : r.history \in Seq(Int)
  BY DEF PanelInv, PanelShape, HistoryInv
<1>6. PICK q : q = panel.queue
  OBVIOUS
<1>7. q \in Seq(Int)
  BY <1>5, <1>6
<1>8. CASE ~panel.shut \/ h = <<End>>
  <2>1. screen' = screen \o h /\ panel' = panel
    BY <1>2, <1>8 DEF Handle
  <2>2. screen' \in Seq(Int) /\ ToSet(screen') = ToSet(screen) \cup ToSet(h)
    BY <2>1, <1>4, <1>5, JoinType, ToSetConcat
  <2>3. PanelShape'
    BY <2>1, <2>2, <1>1, <1>4 DEF PanelInv, PanelShape
  <2>4. panel.shut => ToSet(h) \subseteq {0}
    BY <1>8, ToSetEnd
  <2>5. PanelCalls'
    BY <2>1, <2>2, <2>4, <1>1 DEF PanelInv, PanelCalls
  <2>6. ASSUME panel.on, ~panel.shut PROVE Trail(screen' \o w, base, missed, read)
    <3>1. Trail(screen \o (h \o w), base, missed, read)
      BY <2>6, <1>4 DEF PanelInv, PanelTrail
    <3> QED BY <3>1, <2>1, <1>4, <1>5, TrailToScreen
  <2>7. ASSUME panel.on, panel.shut, NEW r \in replies, r.generation = panel.generation
        PROVE  Trail((screen' \o (r.history \o q)) \o w, base, missed, read)
    <3>1. PICK k : k = r.history \o q
      OBVIOUS
    <3>2. k \in Seq(Int)
      BY <3>1, <1>5, <1>7, JoinType
    <3>3. h = <<End>>
      BY <2>7, <1>8
    <3>4. Trail((screen \o k) \o (<<End>> \o w), base, missed, read)
      BY <2>7, <3>1, <3>3, <1>4, <1>6 DEF PanelInv, PanelTrail
    <3>5. Trail(((screen \o <<End>>) \o k) \o w, base, missed, read)
      BY <3>2, <3>4, <1>4, <1>5, TrailToEnd
    <3> QED BY <3>1, <3>3, <3>5, <2>1
  <2>8. PanelTrail'
    BY <2>1, <2>6, <2>7, <1>1, <1>3, <1>6 DEF PanelTrail
  <2> QED BY <2>3, <2>5, <2>8 DEF PanelInv
<1>9. CASE panel.shut /\ h # <<End>>
  <2>1. screen' = screen /\ panel' = [panel EXCEPT !.queue = q \o h]
    BY <1>2, <1>6, <1>9 DEF Handle
  <2>2. PICK x : x = q \o h
    OBVIOUS
  <2>3. x \in Seq(Int) /\ ToSet(x) \subseteq 0 .. read
    BY <2>2, <1>4, <1>5, <1>6, <1>7, JoinType, ToSetConcat
  <2>4. /\ panel' \in [on : BOOLEAN, shut : BOOLEAN, queue : Seq(Int), generation : Nat]
        /\ panel'.queue = x /\ panel'.on = panel.on /\ panel'.shut = panel.shut
        /\ panel'.generation = panel.generation
    BY <2>1, <2>2, <2>3, <1>5
  <2>5. PanelShape'
    BY <2>1, <2>3, <2>4, <1>1 DEF PanelInv, PanelShape
  <2>6. PanelCalls'
    BY <2>1, <2>4, <1>1 DEF PanelInv, PanelCalls
  <2>7. ASSUME panel.on, NEW r \in replies, r.generation = panel.generation
        PROVE  Trail((screen \o (r.history \o x)) \o w, base, missed, read)
    <3>1. PICK k : k = r.history
      OBVIOUS
    <3>2. k \in Seq(Int)
      BY <3>1, <1>5
    <3>3. Trail((screen \o (k \o q)) \o (h \o w), base, missed, read)
      BY <2>7, <3>1, <1>4, <1>6, <1>9 DEF PanelInv, PanelTrail
    <3>4. Trail((screen \o (k \o (q \o h))) \o w, base, missed, read)
      BY <3>2, <3>3, <1>4, <1>5, <1>7, TrailToQueue
    <3> QED BY <3>1, <3>4, <2>2
  <2>8. PanelTrail'
    BY <2>1, <2>4, <2>7, <1>1, <1>3, <1>9 DEF PanelTrail
  <2> QED BY <2>5, <2>6, <2>8 DEF PanelInv
<1> QED BY <1>8, <1>9

LEMMA PanelFinishes == PanelInv /\ Finish => PanelInv'
<1> SUFFICES ASSUME PanelInv, Finish PROVE PanelInv'
  OBVIOUS
<1>1. UNCHANGED <<calls, base, read, missed, batcher, events, batch, stream, chunk>>
  BY DEF Finish, Core, reading, pumping
<1>2. PICK r \in replies :
        /\ replies' = replies \ {r}
        /\ IF r.generation = panel.generation /\ panel.shut
           THEN /\ screen' = screen \o Written(r.history, panel.queue)
                /\ panel' = [panel EXCEPT !.shut = FALSE, !.queue = <<>>]
           ELSE UNCHANGED <<panel, screen>>
  BY DEF Finish
<1>3. Way' = Way
  BY <1>1 DEF Way
<1>4. CASE ~(r.generation = panel.generation /\ panel.shut)
  <2>1. UNCHANGED <<panel, screen>> /\ replies' \subseteq replies
    BY <1>2, <1>4
  <2>2. PanelShape' /\ PanelCalls'
    BY <2>1, <1>1 DEF PanelInv, PanelShape, PanelCalls
  <2>3. PanelTrail'
    BY <2>1, <1>1, <1>3 DEF PanelInv, PanelTrail
  <2> QED BY <2>2, <2>3 DEF PanelInv
<1>5. CASE r.generation = panel.generation /\ panel.shut
  <2>1. PICK x : x = r.history \o panel.queue
    OBVIOUS
  <2>2. /\ screen' = screen \o x /\ panel' = [panel EXCEPT !.shut = FALSE, !.queue = <<>>]
        /\ replies' \subseteq replies
    BY <2>1, <1>2, <1>5 DEF Written
  <2>3. /\ panel \in [on : BOOLEAN, shut : BOOLEAN, queue : Seq(Int), generation : Nat]
        /\ r.history \in Seq(Int) /\ ToSet(r.history) \subseteq 0 .. read
        /\ ToSet(panel.queue) \subseteq 0 .. read /\ screen \in Seq(Int) /\ ToSet(screen) \subseteq 0 .. read
    BY DEF PanelInv, PanelShape
  <2>4. <<>> \in Seq(Int) /\ ToSet(<<>>) = {}
    BY ToSetNone
  <2>5. /\ panel' \in [on : BOOLEAN, shut : BOOLEAN, queue : Seq(Int), generation : Nat]
        /\ panel'.queue = <<>> /\ panel'.on = panel.on /\ ~panel'.shut
        /\ panel'.generation = panel.generation
    BY <2>2, <2>3, <2>4
  <2>6. panel.queue \in Seq(Int)
    BY <2>3
  <2>7. x \in Seq(Int) /\ ToSet(x) \subseteq 0 .. read
    BY <2>1, <2>3, <2>6, JoinType, ToSetConcat
  <2>8. screen' \in Seq(Int) /\ ToSet(screen') \subseteq 0 .. read
    BY <2>2, <2>3, <2>7, JoinType, ToSetConcat
  <2>9. PanelShape'
    BY <2>2, <2>4, <2>5, <2>8, <1>1 DEF PanelInv, PanelShape
  <2>10. PanelCalls'
    BY <2>2, <2>5, <1>1, <1>5 DEF PanelInv, PanelCalls
  <2>11. panel.on => Trail(screen' \o Way, base, missed, read)
    BY <2>1, <2>2, <1>5 DEF PanelInv, PanelTrail
  <2>12. PanelTrail'
    BY <2>5, <2>11, <1>1, <1>3 DEF PanelTrail
  <2> QED BY <2>9, <2>10, <2>12 DEF PanelInv
<1> QED BY <1>4, <1>5

\* The manager serves a call.
LEMMA VisibleIs ==
    ASSUME batcher \in [visible : BOOLEAN, pending : Seq(Int), ready : BOOLEAN], batcher' = SetVisible(TRUE)
    PROVE  batcher'.visible = TRUE /\ batcher'.pending = batcher.pending
<1>1. CASE batcher.visible = TRUE
  BY <1>1 DEF SetVisible
<1>2. CASE batcher.visible # TRUE
  <2>1. batcher' = [batcher EXCEPT !.visible = TRUE, !.pending = batcher.pending]
    BY <1>2 DEF SetVisible
  <2> QED BY <2>1
<1> QED BY <1>1, <1>2

\* After its show, a panel is sent all that follows.
LEMMA PanelServed == HistoryInv /\ PumpInv /\ PanelInv /\ Serve => PanelInv'
<1> SUFFICES ASSUME HistoryInv, PumpInv, PanelInv, Serve PROVE PanelInv'
  OBVIOUS
<1>1. /\ UNCHANGED <<panel, screen, read, missed, events, batch, stream, chunk>>
      /\ calls # <<>> /\ calls' = Tail(calls)
  BY DEF Serve, ui, reading, pumping
<1>2. PICK c : c = Head(calls)
  OBVIOUS
<1>3. Show(c) \/ Hide(c) \/ Clear(c)
  BY <1>2 DEF Serve
<1>4. PICK g : g = panel.generation
  OBVIOUS
<1>5. /\ calls \in Seq(Askings) /\ \A i \in 1 .. Len(calls) : calls[i].generation <= g
      /\ panel \in [on : BOOLEAN, shut : BOOLEAN, queue : Seq(Int), generation : Nat]
  BY <1>4 DEF PanelInv, PanelShape
<1>6. /\ calls' \in Seq(Askings) /\ Len(calls') \in Nat /\ Len(calls) = Len(calls') + 1
      /\ c \in Askings /\ c = calls[1] /\ \A i \in 1 .. Len(calls') : calls'[i] = calls[i + 1]
  BY <1>1, <1>2, <1>5, TailIs
<1>7. \A i \in 1 .. Len(calls') : i + 1 \in 1 .. Len(calls) /\ calls'[i] = calls[i + 1]
  BY <1>6
<1>8. c.generation \in Nat /\ c.generation <= g /\ 1 \in 1 .. Len(calls)
  BY <1>5, <1>6 DEF Askings
<1>9. PICK f : f = Flat(ring)
  OBVIOUS
<1>10. PICK b : b = (IF ring = <<>> THEN read + 1 ELSE Head(Head(ring)))
  OBVIOUS
<1>11. /\ f \in Seq(Int) /\ EndsAt(f, read) /\ ToSet(f) \subseteq 0 .. read
       /\ b = read - Len(f) + 1 /\ b \in Nat /\ b >= 1
  BY <1>9, <1>10, RingBegins
<1>12. PICK n : n = [generation |-> c.generation, history |-> f]
  OBVIOUS
<1>13. n.generation = c.generation /\ n.history = f
  BY <1>12
<1>14. \/ c.op = "show" /\ batcher' = SetVisible(TRUE) /\ replies' = replies \cup {n} /\ base' = b
       \/ c.op = "hide" /\ replies' = replies /\ base' = base
       \/ c.op = "clear" /\ replies' = replies /\ base' = base /\ batcher' = batcher
  BY <1>3, <1>9, <1>10, <1>12 DEF Show, Hide, Clear
<1>15. PanelShape'
  <2>1. \A i \in 1 .. Len(calls') : calls'[i].generation <= panel.generation
    BY <1>4, <1>5, <1>7
  <2>2. \A r \in replies' : /\ r.generation \in Nat /\ r.generation <= panel.generation
                            /\ r.history \in Seq(Int) /\ ToSet(r.history) \subseteq 0 .. read
    <3>1. \A r \in replies : /\ r.generation \in Nat /\ r.generation <= panel.generation
                             /\ r.history \in Seq(Int) /\ ToSet(r.history) \subseteq 0 .. read
      BY DEF PanelInv, PanelShape
    <3>2. replies' \subseteq replies \cup {n}
      BY <1>14
    <3> QED BY <3>1, <3>2, <1>4, <1>8, <1>11, <1>13
  <2>3. base' \in Nat /\ base' >= 1
    BY <1>11, <1>14 DEF PanelInv, PanelShape
  <2> QED BY <2>1, <2>2, <2>3, <1>1, <1>6 DEF PanelInv, PanelShape
<1>16. ASSUME panel.on, Served(calls, g) PROVE PanelCalls' /\ PanelTrail'
  <2>1. batcher.visible /\ \A i \in 1 .. Len(calls) : calls[i].op = "clear"
    BY <1>4, <1>16 DEF PanelInv, PanelCalls
  <2>2. c.op = "clear"
    BY <2>1, <1>6, <1>8
  <2>3. UNCHANGED <<replies, base, batcher>>
    BY <2>2, <1>14
  <2>4. \A i \in 1 .. Len(calls') : calls'[i].op = "clear" /\ ~Its(calls'[i], g)
    BY <2>1, <1>7 DEF Its
  <2>5. Served(calls', g)
    BY <2>4 DEF Served
  <2>6. PanelCalls'
    <3>1. panel.shut => ToSet(screen) \subseteq {0}
      BY <1>16 DEF PanelInv, PanelCalls
    <3> QED BY <3>1, <2>1, <2>3, <2>4, <2>5, <1>1, <1>4 DEF PanelCalls
  <2>7. Way' = Way
    BY <2>3, <1>1 DEF Way
  <2>8. PanelTrail'
    BY <2>3, <2>7, <1>1 DEF PanelInv, PanelTrail
  <2> QED BY <2>6, <2>8
<1>17. ASSUME panel.on, ~Served(calls, g) PROVE panel.shut /\ ToSet(screen) \subseteq {0} /\ \A r \in replies : r.generation # g
  BY <1>4, <1>17 DEF PanelInv, PanelCalls
<1>18. ASSUME panel.on, Its(c, g) PROVE PanelCalls' /\ PanelTrail'
  <2>1. ~Served(calls, g)
    BY <1>6, <1>8, <1>18 DEF Served
  <2>2. panel.shut /\ ToSet(screen) \subseteq {0} /\ \A r \in replies : r.generation # g
    BY <2>1, <1>17, <1>18
  <2>3. batcher' = SetVisible(TRUE) /\ replies' = replies \cup {n} /\ base' = b
    BY <1>14, <1>18 DEF Its
  <2>4. batcher'.visible = TRUE /\ batcher'.pending = batcher.pending
    BY <2>3, VisibleIs DEF PumpInv, BatcherHolds
  <2>5. \A j \in 1 + 1 .. Len(calls) : calls[j].op = "clear"
    BY <1>4, <1>6, <1>8, <1>18 DEF PanelInv, PanelCalls
  <2>6. \A i \in 1 .. Len(calls') : calls'[i].op = "clear" /\ ~Its(calls'[i], g)
    <3> SUFFICES ASSUME NEW i \in 1 .. Len(calls') PROVE calls'[i].op = "clear"
      BY DEF Its
    <3>1. i + 1 \in 1 + 1 .. Len(calls)
      BY <1>7
    <3> QED BY <3>1, <2>5, <1>7
  <2>7. Served(calls', g)
    BY <2>6 DEF Served
  <2>8. PanelCalls'
    BY <2>2, <2>4, <2>6, <2>7, <1>1, <1>4 DEF PanelCalls
  <2>9. Way' = Way
    BY <2>4, <1>1 DEF Way
  <2>10. PICK w : w = Way
    OBVIOUS
  <2>11. PICK q : q = panel.queue
    OBVIOUS
  <2>12. /\ w \in Seq(Int) /\ ToSet(w) \subseteq 0 .. read /\ read \in Nat
         /\ q \in Seq(Int) /\ ToSet(q) \subseteq 0 .. read /\ screen \in Seq(Int)
    BY <2>10, <2>11, WayTypes DEF PanelInv, PanelShape
  <2>13. PICK x : x = q \o w
    OBVIOUS
  <2>14. x \in Seq(Int) /\ ToSet(x) \subseteq 0 .. read
    BY <2>12, <2>13, JoinType, ToSetConcat
  <2>15. Trail(screen \o (f \o x), b, missed, read)
    <3>1. /\ read \in Nat /\ screen \in Seq(Int) /\ ToSet(screen) \subseteq {0} /\ EndsAt(f, read)
          /\ x \in Seq(Int) /\ ToSet(x) \subseteq 0 .. read
      BY <2>2, <2>12, <2>14, <1>11
    <3>2. b \in Int /\ b = read - Len(f) + 1 /\ b >= 1
      BY <1>11
    <3> QED BY <3>1, <3>2, TrailStarts
  <2>16. (screen \o (f \o q)) \o w = screen \o (f \o x)
    <3>1. PICK y : y = f \o q
      OBVIOUS
    <3>2. y \in Seq(Int)
      BY <3>1, <2>12, <1>11, JoinType
    <3>3. y \o w = f \o x
      BY <3>1, <2>12, <2>13, <1>11, Joins
    <3>4. (screen \o y) \o w = screen \o (y \o w)
      BY <3>2, <2>12, Joins
    <3> QED BY <3>1, <3>3, <3>4
  <2>17. Trail((screen \o (n.history \o q)) \o w, b, missed, read)
    BY <2>15, <2>16, <1>13
  <2>18. \A r \in replies' : r.generation = g => r = n
    BY <2>2, <2>3
  <2>19. PanelTrail'
    BY <2>2, <2>3, <2>9, <2>10, <2>11, <2>17, <2>18, <1>1, <1>4 DEF PanelTrail
  <2> QED BY <2>8, <2>19
<1>19. ASSUME panel.on, ~Served(calls, g), ~Its(c, g) PROVE PanelCalls' /\ PanelTrail'
  <2>1. panel.shut /\ ToSet(screen) \subseteq {0} /\ \A r \in replies : r.generation # g
    BY <1>17, <1>19
  <2>2. \A r \in replies' : r.generation # g
    BY <2>1, <1>13, <1>14, <1>19 DEF Its
  <2>3. ~Served(calls', g)
    <3>1. PICK i \in 1 .. Len(calls) : Its(calls[i], g)
      BY <1>19 DEF Served
    <3>2. i # 1
      BY <3>1, <1>6, <1>19
    <3>3. PICK j : j = i - 1
      OBVIOUS
    <3>4. j \in 1 .. Len(calls') /\ i = j + 1
      BY <3>1, <3>2, <3>3, <1>6
    <3>5. Its(calls'[j], g)
      BY <3>1, <3>4, <1>7
    <3> QED BY <3>4, <3>5 DEF Served
  <2>4. \A i \in 1 .. Len(calls') : Its(calls'[i], g) => \A j \in i + 1 .. Len(calls') : calls'[j].op = "clear"
    <3> SUFFICES ASSUME NEW i \in 1 .. Len(calls'), Its(calls'[i], g), NEW j \in i + 1 .. Len(calls')
                 PROVE  calls'[j].op = "clear"
      OBVIOUS
    <3>1. i + 1 \in 1 .. Len(calls) /\ Its(calls[i + 1], g)
      BY <1>7
    <3>2. PICK k : k = i + 1
      OBVIOUS
    <3>3. \A m \in k + 1 .. Len(calls) : calls[m].op = "clear"
      BY <3>1, <3>2, <1>4, <1>19 DEF PanelInv, PanelCalls
    <3>4. j + 1 \in k + 1 .. Len(calls) /\ j \in 1 .. Len(calls')
      BY <3>2, <1>6
    <3> QED BY <3>3, <3>4, <1>7
  <2>5. PanelCalls'
    BY <2>1, <2>2, <2>3, <2>4, <1>1, <1>4 DEF PanelCalls
  <2>6. PanelTrail'
    BY <2>1, <2>2, <1>1, <1>4 DEF PanelTrail
  <2> QED BY <2>5, <2>6
<1>20. ASSUME ~panel.on PROVE PanelCalls' /\ PanelTrail'
  BY <1>1, <1>20 DEF PanelCalls, PanelTrail
<1>21. PanelCalls' /\ PanelTrail'
  BY <1>16, <1>18, <1>19, <1>20
<1> QED BY <1>15, <1>21 DEF PanelInv

LEMMA PanelStep == HistoryInv /\ PumpInv /\ PanelInv /\ [OutputNext]_outputVars => PanelInv'
<1> SUFFICES ASSUME HistoryInv, PumpInv, PanelInv, [OutputNext]_outputVars PROVE PanelInv'
  OBVIOUS
<1>1. CASE Reader \/ Die \/ Waiter \/ Pump \/ Tick
  BY <1>1, PanelRuns
<1>2. CASE Serve
  BY <1>2, PanelServed
<1>3. CASE Appear
  BY <1>3, PanelAppears
<1>4. CASE Vanish
  BY <1>4, PanelVanishes
<1>5. CASE Wipe
  BY <1>5, PanelWiped
<1>6. CASE Handle
  BY <1>6, PanelHandles
<1>7. CASE Finish
  BY <1>7, PanelFinishes
<1>8. CASE UNCHANGED outputVars
  <2>1. UNCHANGED <<panel, screen, calls, replies, base, events, batch, stream, chunk, missed, read, batcher>>
    BY <1>8 DEF outputVars, ui, reading, pumping
  <2> QED BY <2>1, PanelWaits
<1> QED BY <1>1, <1>2, <1>3, <1>4, <1>5, <1>6, <1>7, <1>8 DEF OutputNext, Interface

-----------------------------------------------------------------------------
(* Terminal: nothing is lost from the read to the screen                      *)

OutputInv == HistoryInv /\ PumpInv /\ PanelInv

LEMMA OutputStarts == OutputInit => OutputInv
BY HistoryInit, PumpInit, PanelInit DEF OutputInv

\* The three parts together are inductive.
LEMMA OutputStep == OutputInv /\ [OutputNext]_outputVars => OutputInv'
<1> SUFFICES ASSUME OutputInv, [OutputNext]_outputVars PROVE OutputInv'
  OBVIOUS
<1>1. HistoryInv /\ PumpInv /\ PanelInv
  BY DEF OutputInv
<1>2. HistoryInv'
  BY <1>1, HistoryStep
<1>3. PumpInv'
  BY <1>1, PumpStep
<1>4. PanelInv'
  BY <1>1, PanelStep
<1> QED BY <1>2, <1>3, <1>4 DEF OutputInv

\* A trail from the screen on leaves no gap on it.
LEMMA ScreenFollowsHistory == OutputInv => ScreenHasNoGap
<1> SUFFICES ASSUME OutputInv, panel.on, ~panel.shut
             PROVE  /\ (base .. read) \ missed \subseteq ToSet(screen) \cup Coming
                    /\ \A i \in 1 .. Len(screen) : \A n \in (base .. screen[i] - 1) \ missed :
                          \E j \in 1 .. i - 1 : screen[j] = n
  BY DEF ScreenHasNoGap
<1>1. HistoryInv /\ PumpInv /\ PanelInv
  BY DEF OutputInv
<1>2. PICK w : w = Way
  OBVIOUS
<1>3. /\ w \in Seq(Int) /\ screen \in Seq(Int) /\ base \in Int /\ read \in Int
      /\ Trail(screen \o w, base, missed, read)
  <2>1. w \in Seq(Int)
    BY <1>1, <1>2, WayTypes
  <2>2. Trail(screen \o w, base, missed, read)
    BY <1>1, <1>2 DEF PanelInv, PanelTrail
  <2> QED BY <2>1, <2>2, <1>1 DEF PanelInv, PanelShape, HistoryInv
<1>4. base .. read \subseteq missed \cup ToSet(screen) \cup ToSet(w) /\ Follows(missed, base, screen)
  BY <1>3, TrailConcat
<1>5. ToSet(w) = Coming
  <2>1. PICK p : p = batcher.pending
    OBVIOUS
  <2>2. /\ events \in Seq(Seq(Int)) /\ batch \in Seq(Int) /\ p \in Seq(Int) /\ stream \in Seq(Seq(Int))
        /\ chunk \in Seq(Int)
    BY <2>1, <1>1, WayTypes
  <2>3. AreParts(events, batch, p, stream, chunk)
    BY <2>2 DEF AreParts
  <2>4. ToSet(OnItsWay(events, batch, p, stream, chunk))
          = UNION {ToSet(chunk), ToSet(Flat(stream)), ToSet(p), ToSet(batch), ToSet(Flat(events))}
    BY <2>3, WayIs
  <2> QED BY <2>1, <2>4, <1>2 DEF Way, Coming
<1> QED BY <1>4, <1>5 DEF Follows

LEMMA OutputTyped == OutputInv => OutputTypeOK
<1> SUFFICES ASSUME OutputInv PROVE OutputTypeOK
  OBVIOUS
<1>1. HistoryInv /\ PumpInv /\ PanelInv
  BY DEF OutputInv
<1>2. /\ scene \in Scenes /\ read \in Nat /\ read <= scene.pieces
      /\ reader \in {"read", "send", "done"} /\ (chunk = <<>> <=> reader # "send")
      /\ RingHolds(ring, read, cleared) /\ LogHolds(log, read - Len(chunk))
  BY <1>1 DEF HistoryInv
<1>3. scene.pieces \in Nat
  BY <1>2, LimitsAssumption
<1>4. /\ {alive, lagged} \subseteq BOOLEAN /\ waiter \in {"waits", "quiet", "posted"} /\ Len(stream) <= Capacity
      /\ pump \in {"wait", "poll", "last", "drain", "flush", "exit", "over"}
      /\ (batcher.visible \/ batcher.pending = <<>>)
  BY <1>1 DEF PumpInv, StreamHolds, BatcherHolds, StageHolds
<1>5. /\ Len(ring) <= MaxLines /\ Len(Flat(ring)) <= MaxBytes
      /\ \A i \in 1 .. Len(ring) : Len(ring[i]) \in 1 .. MaxEntry
  BY <1>2 DEF RingHolds, Fits, IsEntries
<1>6. Len(log.now) < MaxLog
  BY <1>2 DEF LogHolds
<1>7. \A i \in 1 .. Len(screen) : screen[i] \in 0 .. read
  <2>1. screen \in Seq(Int) /\ ToSet(screen) \subseteq 0 .. read
    BY <1>1 DEF PanelInv, PanelShape
  <2>2. \A i \in DOMAIN screen : screen[i] \in ToSet(screen)
    BY DEF ToSet
  <2> QED BY <2>1, <2>2
<1>8. read \in 0 .. scene.pieces
  BY <1>2, <1>3
<1> QED BY <1>2, <1>4, <1>5, <1>6, <1>7, <1>8 DEF OutputTypeOK

LEMMA OutputHolds == OutputInv => OutputIsExact
<1> SUFFICES ASSUME OutputInv PROVE OutputIsExact
  OBVIOUS
<1>1. HistoryInv /\ PumpInv
  BY DEF OutputInv
<1>2. KeepsTheEnd
  BY <1>1, HistoryKeepsTheEnd
<1>3. ExitAfterOutput
  BY <1>1, PumpExitsAfterOutput
<1> QED BY <1>2, <1>3, OutputTyped, ScreenFollowsHistory DEF OutputIsExact

\* From the read to the screen nothing is lost, doubled into a gap or late, for
\* every limit of the ring, of the log, of the channel and of a read, whoever
\* shows, hides and wipes the panel (pump, ring.rs, log.rs, batcher.rs,
\* manager.rs and HydrationGate).
THEOREM OutputIsExactHolds == OutputSpec => []OutputIsExact
<1>1. OutputSpec => []OutputInv
  BY OutputStarts, OutputStep, PTL DEF OutputSpec
<1>2. OutputInv => OutputIsExact
  BY OutputHolds
<1> QED BY <1>1, <1>2, PTL
=============================================================================
