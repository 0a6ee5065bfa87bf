----------------------------- MODULE DeskProofs ------------------------------
(* Parts of the desk are right for every scene they are asked to play: the      *)
(* proposals of the agents, the benches, the preferences with their secrets,    *)
(* the calls on a team, the columns of a board with its automations, the         *)
(* library of skills, and the adapters of the runtimes. They share nothing, so   *)
(* each has its own invariant.                                                  *)
EXTENDS Proposals, Bench, Settings, Team, BoardSetup, Library, Runtimes, SiftProofs,
        FiniteSetTheorems, TLAPS

------------------------------------------------------------------------------
(* Proposals: a row that waits for a decision is decided at most once, and what *)
(* the app does for it is done by the call that decided.                        *)

\* What may be asked for, and proposed.
ProposalAsks == UNION {{scene[i] : i \in DOMAIN scene} : scene \in ProposalScenes}
Proposers == {ask \in ProposalAsks : ask.does = "propose"}
ProposalRows == [action: {ask.action : ask \in Proposers}, by: {ask.of : ask \in Proposers},
                 state: {"pending", "accepted", "rejected"}]

JobsKeepShape ==
    \A j \in DOMAIN proposalJobs :
        /\ proposalJobs[j].ask \in ProposalAsks
        /\ DOMAIN proposalJobs[j] = {"ask", "at", "of", "row", "left"}
RowsKeepShape ==
    /\ proposals \in Seq(ProposalRows)
    /\ authorsTold \in Seq(Nat) /\ Len(authorsTold) = Len(proposals)

\* A decision that was begun is about a proposal there is, and it comes to the
\* record with a proposal that was executed, or is rejected, or left to the human.
InDecision(j) == Decides(j) /\ proposalJobs[j].at \notin {"begin", "refused", "done"}
ForTheApp(p) == proposals[p].action.kind \in {"create", "autonomy"}
DecisionsAreSound ==
    \A j \in DOMAIN proposalJobs : InDecision(j) =>
        /\ Proposal(j) \in DOMAIN proposals
        /\ proposalJobs[j].at = "record" /\ proposalJobs[j].ask.accept /\ ForTheApp(Proposal(j))
             => Proposal(j) \in executed
        /\ proposalJobs[j].at = "tell" =>
             proposals[Proposal(j)].state # "pending" /\ authorsTold[Proposal(j)] = 0

\* Of the decisions of one proposal one comes to tell its author.
OneTells ==
    \A i, j \in DOMAIN proposalJobs :
        InDecision(i) /\ InDecision(j) /\ proposalJobs[i].at = "tell" /\ proposalJobs[j].at = "tell"
          /\ Proposal(i) = Proposal(j) => i = j

ProposalInv == JobsKeepShape /\ RowsKeepShape /\ DecisionsAreSound /\ OneTells /\ DecisionsCount

\* What the steps of a request do to it, and only to it.
JobFields == {"ask", "at", "of", "row", "left"}
OnlyJob(j) ==
    /\ DOMAIN proposalJobs' = DOMAIN proposalJobs
    /\ \A i \in DOMAIN proposalJobs : i # j => proposalJobs'[i] = proposalJobs[i]
    /\ DOMAIN proposalJobs'[j] = JobFields
    /\ proposalJobs'[j].ask = proposalJobs[j].ask

LEMMA GoesFacts ==
    ASSUME NEW j \in DOMAIN proposalJobs, DOMAIN proposalJobs[j] = JobFields, NEW at, Goes(j, at)
    PROVE  OnlyJob(j) /\ proposalJobs'[j].at = at
BY DEF Goes, Becomes, OnlyJob, JobFields

LEMMA WritesFacts ==
    ASSUME NEW j \in DOMAIN proposalJobs, DOMAIN proposalJobs[j] = JobFields,
           NEW at, NEW of, NEW row, Writes(j, at, of, row)
    PROVE  OnlyJob(j) /\ proposalJobs'[j].at = at
BY DEF Writes, Becomes, OnlyJob, JobFields

\* A step of a request that leaves the proposals alone, and tells nobody.
LEMMA QuietJob ==
    ASSUME ProposalInv, NEW j \in DOMAIN proposalJobs, OnlyJob(j),
           UNCHANGED <<proposals, authorsTold>>,
           \A p \in executed : p \in executed',
           proposalJobs'[j].at # "tell",
           InDecision(j)' =>
             /\ Proposal(j) \in DOMAIN proposals
             /\ proposalJobs'[j].at = "record" /\ proposalJobs[j].ask.accept /\ ForTheApp(Proposal(j))
                  => Proposal(j) \in executed'
    PROVE  ProposalInv'
<1>2. JobsKeepShape'
  BY DEF OnlyJob, JobFields, ProposalInv, JobsKeepShape
<1>3. RowsKeepShape'
  BY DEF ProposalInv, RowsKeepShape
<1>4. DecisionsAreSound'
  <2> SUFFICES ASSUME NEW i \in DOMAIN proposalJobs, InDecision(i)'
      PROVE  /\ Proposal(i)' \in DOMAIN proposals
             /\ proposalJobs'[i].at = "record" /\ proposalJobs'[i].ask.accept /\ ForTheApp(Proposal(i))'
                  => Proposal(i)' \in executed'
             /\ proposalJobs'[i].at = "tell" =>
                  proposals[Proposal(i)'].state # "pending" /\ authorsTold[Proposal(i)'] = 0
    BY DEF OnlyJob, DecisionsAreSound
  <2>1. CASE i = j
    BY <2>1 DEF OnlyJob, Proposal, ForTheApp
  <2>2. CASE i # j
    <3>1. proposalJobs'[i] = proposalJobs[i]
      BY <2>2 DEF OnlyJob
    <3>2. InDecision(i) /\ Proposal(i)' = Proposal(i) /\ (ForTheApp(Proposal(i))' <=> ForTheApp(Proposal(i)))
      BY <3>1 DEF InDecision, Decides, Proposal, ForTheApp
    <3> QED
      BY <3>1, <3>2 DEF ProposalInv, DecisionsAreSound
  <2> QED
    BY <2>1, <2>2
<1>5. OneTells'
  BY DEF OnlyJob, ProposalInv, OneTells, InDecision, Decides, Proposal
<1>6. DecisionsCount'
  BY DEF ProposalInv, DecisionsCount, AcceptedIsApplied, DecisionIsToldOnce
<1> QED
  BY <1>2, <1>3, <1>4, <1>5, <1>6 DEF ProposalInv

Quiet(j) == Insert(j) \/ Get(j) \/ Update(j) \/ Edit(j) \/ Duplicate(j) \/ Copy(j)
          \/ Reorder(j) \/ Move(j) \/ RemoveAgent(j)
          \/ Propose(j) \/ Look(j) \/ Check(j) \/ Execute(j)
LEMMA JobIsQuiet ==
    ASSUME ProposalInv, NEW j \in DOMAIN proposalJobs, Quiet(j)
    PROVE  ProposalInv'
<1> DEFINE Ended(at) == at \in {"refused", "done"}
           ToRecord == Decides(j) => Proposal(j) \in executed'
<1>1. DOMAIN proposalJobs[j] = JobFields
  BY DEF ProposalInv, JobsKeepShape, JobFields
<1>2. InDecision(j) =>
        /\ Proposal(j) \in DOMAIN proposals
        /\ proposalJobs[j].at = "record" /\ proposalJobs[j].ask.accept /\ ForTheApp(Proposal(j))
             => Proposal(j) \in executed
  BY DEF ProposalInv, DecisionsAreSound
<1>3. /\ UNCHANGED <<proposals, authorsTold>>
      /\ \A p \in executed : p \in executed'
  BY DEF Quiet, Insert, Get, Update, Edit, Duplicate, Copy, Reorder, Move, RemoveAgent, Propose, Look, Check,
         Execute, Wrote
<1>4. /\ OnlyJob(j) /\ proposalJobs'[j].at # "tell"
      /\ InDecision(j)' =>
             /\ Proposal(j) \in DOMAIN proposals
             /\ proposalJobs'[j].at = "record" /\ proposalJobs[j].ask.accept /\ ForTheApp(Proposal(j))
                  => Proposal(j) \in executed'
  <2> HIDE DEF JobFields
  <2> USE <1>1, GoesFacts, WritesFacts
  <2>1. CASE Insert(j)
    <3>1. CASE Goes(j, "refused")
      BY <3>1 DEF InDecision
    <3>2. CASE Wrote(j) /\ Decides(j)
      BY <3>2, <2>1, <1>2 DEF Wrote, InDecision, Insert
    <3>3. CASE Wrote(j) /\ ~Decides(j)
      BY <3>3 DEF Wrote, InDecision, Decides, OnlyJob
    <3> QED
      BY <2>1, <3>1, <3>2, <3>3 DEF Insert
  <2>2. CASE Get(j)
    <3>1. CASE Goes(j, "refused")
      BY <3>1 DEF InDecision
    <3>2. CASE \E a, row : Writes(j, "update", a, row)
      BY <3>2, <2>2, <1>2 DEF Get, InDecision, Decides, OnlyJob
    <3> QED
      BY <2>2, <3>1, <3>2 DEF Get
  <2>3. CASE Update(j)
    <3>1. CASE Goes(j, "refused")
      BY <3>1 DEF InDecision
    <3>2. CASE Wrote(j) /\ Decides(j)
      BY <3>2, <2>3, <1>2 DEF Wrote, InDecision, Update
    <3>3. CASE Wrote(j) /\ ~Decides(j)
      BY <3>3 DEF Wrote, InDecision, Decides, OnlyJob
    <3> QED
      BY <2>3, <3>1, <3>2, <3>3 DEF Update
  <2>4. CASE Edit(j)
    BY <2>4 DEF Edit, Doing, Decides, InDecision, OnlyJob
  <2>5. CASE Duplicate(j)
    BY <2>5 DEF Duplicate, Doing, Decides, InDecision, OnlyJob
  <2>6. CASE Copy(j)
    BY <2>6 DEF Copy, ToCreate, Doing, Decides, InDecision, OnlyJob
  <2>7. CASE Reorder(j)
    <3>1. ~Decides(j)
      BY <2>7 DEF Reorder, Doing, Decides
    <3>2. CASE Goes(j, "refused")
      BY <3>1, <3>2 DEF InDecision
    <3>3. CASE \E left : Becomes(j, [proposalJobs[j] EXCEPT !.at = "move", !.left = left])
      <4>1. OnlyJob(j) /\ proposalJobs'[j].at = "move"
        BY <3>3, ZenonT(60) DEF Becomes, OnlyJob, JobFields
      <4> QED
        BY <4>1, <3>1 DEF InDecision, Decides, OnlyJob
    <3> QED
      BY <2>7, <3>2, <3>3 DEF Reorder
  <2>8. CASE Move(j)
    <3>1. ~Decides(j) /\ proposalJobs[j].at = "move"
      BY <2>8 DEF Move, Doing, Decides
    <3>2. CASE \E at \in {"refused", "done"} : Goes(j, at)
      BY <3>1, <3>2 DEF InDecision
    <3>3. CASE \E left : Becomes(j, [proposalJobs[j] EXCEPT !.left = left])
      <4>1. OnlyJob(j) /\ proposalJobs'[j].at = "move"
        BY <3>3, <3>1 DEF Becomes, OnlyJob, JobFields
      <4> QED
        BY <4>1, <3>1 DEF InDecision, Decides, OnlyJob
    <3> QED
      BY <2>8, <3>2, <3>3 DEF Move
  <2>9. CASE RemoveAgent(j)
    BY <2>9 DEF RemoveAgent, InDecision
  <2>10. CASE Propose(j)
    BY <2>10 DEF Propose, Doing, Decides, InDecision, OnlyJob
  <2>11. CASE Look(j)
    <3>1. CASE Goes(j, "refused")
      BY <3>1 DEF InDecision
    <3>2. CASE Goes(j, "check")
      BY <3>2, <2>11 DEF Look
    <3>3. CASE Goes(j, "record") /\ ~proposalJobs[j].ask.accept
      BY <3>3, <2>11 DEF Look
    <3> QED
      BY <2>11, <3>1, <3>2, <3>3 DEF Look
  <2>12. CASE Check(j)
    BY <2>12, <1>2 DEF Check, Doing, Decides, InDecision
  <2>13. CASE Execute(j)
    <3>1. InDecision(j) /\ Proposal(j) \in DOMAIN proposals
      BY <2>13, <1>2 DEF Execute, Doing, Decides, InDecision
    <3>2. CASE \E at, of, row : at \in {"insert", "get"} /\ Writes(j, at, of, row)
      BY <3>1, <3>2
    <3>3. CASE Goes(j, "refused")
      BY <3>3, <3>1
    <3>4. CASE Goes(j, "record") /\ ~ForTheApp(Proposal(j))
      BY <3>4, <3>1
    <3> DEFINE action == proposals[Proposal(j)].action
               named  == {a \in Present : agentRows[a].handle = action.handle}
    <3>5. CASE action.kind = "create"
      <4>1. ToCreate(j, action.handle, "new")
        BY <3>5, <2>13 DEF Execute
      <4> QED
        BY <4>1, <3>2, <3>3 DEF ToCreate
    <3>6. CASE action.kind = "autonomy" /\ named # {}
      <4> DEFINE a == CHOOSE a \in named : TRUE
      <4>1. Writes(j, "get", a, [agentRows[a] EXCEPT !.autonomy = action.to])
        BY <3>6, <2>13 DEF Execute
      <4> QED
        BY <4>1, <3>2
    <3>7. CASE action.kind = "autonomy" /\ named = {}
      BY <3>3, <3>7, <2>13 DEF Execute
    <3>8. CASE action.kind \notin {"create", "autonomy"}
      BY <3>4, <3>8, <2>13 DEF Execute, ForTheApp
    <3> QED
      BY <3>5, <3>6, <3>7, <3>8
  <2> QED
    BY <2>1, <2>2, <2>3, <2>4, <2>5, <2>6, <2>7, <2>8, <2>9, <2>10, <2>11, <2>12, <2>13 DEF Quiet
<1> QED
  BY <1>3, <1>4, QuietJob

\* A proposal is filed: the ones there were are as they were.
LEMMA FileStep ==
    ASSUME ProposalInv, NEW j \in DOMAIN proposalJobs, File(j)
    PROVE  ProposalInv'
<1> DEFINE row == [action |-> proposalJobs[j].ask.action, by |-> proposalJobs[j].ask.of, state |-> "pending"]
<1>1. DOMAIN proposalJobs[j] = JobFields /\ proposalJobs[j].ask \in ProposalAsks
  BY DEF ProposalInv, JobsKeepShape, JobFields
<1>2. OnlyJob(j) /\ proposalJobs'[j].at = "done"
  BY <1>1, GoesFacts DEF File
<1>3. row \in ProposalRows
  BY <1>1 DEF ProposalRows, Proposers, File, Doing
<1>4. /\ proposals' = Append(proposals, row) /\ authorsTold' = Append(authorsTold, 0) /\ executed' = executed
  BY DEF File
<1>5. proposals \in Seq(ProposalRows) /\ authorsTold \in Seq(Nat) /\ Len(authorsTold) = Len(proposals)
  BY DEF ProposalInv, RowsKeepShape
<1>6. /\ DOMAIN proposals = 1 .. Len(proposals) /\ DOMAIN proposals' = 1 .. Len(proposals) + 1
      /\ \A p \in DOMAIN proposals : proposals'[p] = proposals[p] /\ authorsTold'[p] = authorsTold[p]
      /\ proposals'[Len(proposals) + 1] = row /\ authorsTold'[Len(proposals) + 1] = 0
      /\ Len(proposals) \in Nat
  BY <1>3, <1>4, <1>5
<1>7. JobsKeepShape'
  BY <1>1, <1>2 DEF OnlyJob, JobFields, ProposalInv, JobsKeepShape
<1>8. RowsKeepShape'
  BY <1>3, <1>4, <1>5 DEF RowsKeepShape
<1>9. \A i \in DOMAIN proposalJobs : InDecision(i)' =>
        i # j /\ InDecision(i) /\ proposalJobs'[i] = proposalJobs[i] /\ Proposal(i)' = Proposal(i)
  BY <1>2 DEF OnlyJob, InDecision, Decides, Proposal
<1>10. DecisionsAreSound'
  <2> SUFFICES ASSUME NEW i \in DOMAIN proposalJobs, InDecision(i)'
      PROVE  /\ Proposal(i)' \in DOMAIN proposals'
             /\ proposalJobs'[i].at = "record" /\ proposalJobs'[i].ask.accept /\ ForTheApp(Proposal(i))'
                  => Proposal(i)' \in executed'
             /\ proposalJobs'[i].at = "tell" =>
                  proposals'[Proposal(i)'].state # "pending" /\ authorsTold'[Proposal(i)'] = 0
    BY <1>2 DEF OnlyJob, DecisionsAreSound
  <2>1. Proposal(i) \in DOMAIN proposals /\ Proposal(i)' = Proposal(i) /\ proposalJobs'[i] = proposalJobs[i]
    BY <1>9 DEF ProposalInv, DecisionsAreSound
  <2>2. ForTheApp(Proposal(i))' <=> ForTheApp(Proposal(i))
    BY <2>1, <1>6 DEF ForTheApp
  <2>3. /\ proposalJobs[i].at = "record" /\ proposalJobs[i].ask.accept /\ ForTheApp(Proposal(i))
             => Proposal(i) \in executed
        /\ proposalJobs[i].at = "tell" =>
             proposals[Proposal(i)].state # "pending" /\ authorsTold[Proposal(i)] = 0
    BY <1>9 DEF ProposalInv, DecisionsAreSound
  <2>4. Proposal(i) \in DOMAIN proposals'
    BY <2>1, <1>6
  <2> QED
    BY <2>1, <2>2, <2>3, <2>4, <1>4, <1>6
<1>11. OneTells'
  BY <1>2, <1>9 DEF OnlyJob, ProposalInv, OneTells
<1>12. DecisionsCount'
  <2> SUFFICES ASSUME NEW p \in DOMAIN proposals'
      PROVE  /\ proposals'[p].state = "accepted" /\ proposals'[p].action.kind \in {"create", "autonomy"}
                  => p \in executed'
             /\ authorsTold'[p] <= (IF proposals'[p].state = "pending" THEN 0 ELSE 1)
    BY DEF DecisionsCount, AcceptedIsApplied, DecisionIsToldOnce
  <2>1. CASE p \in DOMAIN proposals
    BY <2>1, <1>4, <1>6 DEF ProposalInv, DecisionsCount, AcceptedIsApplied, DecisionIsToldOnce
  <2>2. CASE p = Len(proposals) + 1
    BY <2>2, <1>6
  <2> QED
    BY <2>1, <2>2, <1>6
<1> QED
  BY <1>7, <1>8, <1>10, <1>11, <1>12 DEF ProposalInv

\* The decision is recorded, unless another one was.
LEMMA RecordStep ==
    ASSUME ProposalInv, NEW j \in DOMAIN proposalJobs, Record(j)
    PROVE  ProposalInv'
<1> DEFINE p == Proposal(j)
           state == IF proposalJobs[j].ask.accept THEN "accepted" ELSE "rejected"
<1>1. DOMAIN proposalJobs[j] = JobFields
  BY DEF ProposalInv, JobsKeepShape, JobFields
<1>2. InDecision(j) /\ proposalJobs[j].at = "record"
  BY DEF Record, Doing, InDecision, Decides
<1>3. CASE proposals[p].state # "pending"
  <2>1. OnlyJob(j) /\ proposalJobs'[j].at = "refused" /\ UNCHANGED <<proposals, authorsTold, executed>>
    BY <1>1, <1>3, GoesFacts DEF Record
  <2> QED
    BY <2>1, QuietJob DEF InDecision
<1>4. CASE proposals[p].state = "pending"
  <2>1. /\ OnlyJob(j) /\ proposalJobs'[j].at = "tell"
        /\ proposals' = [proposals EXCEPT ![p].state = state] /\ UNCHANGED <<authorsTold, executed>>
    BY <1>1, <1>4, GoesFacts DEF Record
  <2>2. /\ p \in DOMAIN proposals
        /\ proposalJobs[j].ask.accept /\ ForTheApp(p) => p \in executed
    BY <1>2 DEF ProposalInv, DecisionsAreSound
  <2>3. proposals \in Seq(ProposalRows) /\ authorsTold \in Seq(Nat) /\ Len(authorsTold) = Len(proposals)
    BY DEF ProposalInv, RowsKeepShape
  <2>4. /\ proposals[p] \in ProposalRows /\ state \in {"accepted", "rejected"}
    BY <2>2, <2>3
  <2> HIDE DEF state, p
  <2>5. /\ proposals' \in Seq(ProposalRows) /\ Len(proposals') = Len(proposals)
        /\ DOMAIN proposals' = DOMAIN proposals
        /\ \A q \in DOMAIN proposals : q # p => proposals'[q] = proposals[q]
        /\ proposals'[p].state = state /\ proposals'[p].action = proposals[p].action
    <3> DEFINE now == [proposals[p] EXCEPT !.state = state]
    <3>1. now \in ProposalRows /\ now.state = state /\ now.action = proposals[p].action
      BY <2>4 DEF ProposalRows
    <3>2. proposals' = [proposals EXCEPT ![p] = now]
      BY <2>1
    <3> HIDE DEF now
    <3> QED
      BY <2>2, <2>3, <3>1, <3>2
  <2> USE DEF p
  <2>6. authorsTold[p] = 0
    BY <2>2, <2>3, <1>4 DEF ProposalInv, DecisionsCount, DecisionIsToldOnce
  <2>7. \A q \in DOMAIN proposals : ForTheApp(q)' <=> ForTheApp(q)
    BY <2>2, <2>5 DEF ForTheApp
  <2>8. \A i \in DOMAIN proposalJobs : InDecision(i)' => InDecision(i) /\ Proposal(i)' = Proposal(i)
                /\ (i # j => proposalJobs'[i] = proposalJobs[i])
    BY <1>2, <2>1 DEF OnlyJob, InDecision, Decides, Proposal
  <2>9. JobsKeepShape'
    BY <2>1 DEF OnlyJob, JobFields, ProposalInv, JobsKeepShape
  <2>10. RowsKeepShape'
    BY <2>1, <2>3, <2>5 DEF RowsKeepShape
  <2>11. DecisionsAreSound'
    <3> SUFFICES ASSUME NEW i \in DOMAIN proposalJobs, InDecision(i)'
        PROVE  /\ Proposal(i)' \in DOMAIN proposals'
               /\ proposalJobs'[i].at = "record" /\ proposalJobs'[i].ask.accept /\ ForTheApp(Proposal(i))'
                    => Proposal(i)' \in executed'
               /\ proposalJobs'[i].at = "tell" =>
                    proposals'[Proposal(i)'].state # "pending" /\ authorsTold'[Proposal(i)'] = 0
      BY <2>1 DEF OnlyJob, DecisionsAreSound
    <3>1. InDecision(i) /\ Proposal(i)' = Proposal(i) /\ Proposal(i) \in DOMAIN proposals
      BY <2>8 DEF ProposalInv, DecisionsAreSound
    <3>2. CASE i = j
      BY <3>1, <3>2, <2>1, <2>4, <2>5, <2>6
    <3>3. CASE i # j
      <4>1. proposalJobs'[i] = proposalJobs[i]
        BY <3>3, <2>8
      <4>2. /\ proposalJobs[i].at = "record" /\ proposalJobs[i].ask.accept /\ ForTheApp(Proposal(i))
                    => Proposal(i) \in executed
            /\ proposalJobs[i].at = "tell" =>
                    proposals[Proposal(i)].state # "pending" /\ authorsTold[Proposal(i)] = 0
        BY <3>1 DEF ProposalInv, DecisionsAreSound
      <4> QED
        BY <4>1, <4>2, <3>1, <1>4, <2>1, <2>5, <2>7
    <3> QED
      BY <3>2, <3>3
  <2>12. OneTells'
    <3>1. \A i \in DOMAIN proposalJobs : i # j /\ InDecision(i)' /\ proposalJobs'[i].at = "tell" => Proposal(i)' # p
      BY <2>8, <1>4 DEF ProposalInv, DecisionsAreSound
    <3>2. Proposal(j)' = p
      BY <2>1 DEF OnlyJob, Proposal
    <3> QED
      BY <3>1, <3>2, <2>1, <2>8 DEF OnlyJob, ProposalInv, OneTells
  <2>13. DecisionsCount'
    <3> SUFFICES ASSUME NEW q \in DOMAIN proposals
        PROVE  /\ proposals'[q].state = "accepted" /\ proposals'[q].action.kind \in {"create", "autonomy"}
                    => q \in executed
               /\ authorsTold[q] <= (IF proposals'[q].state = "pending" THEN 0 ELSE 1)
      BY <2>1, <2>5 DEF DecisionsCount, AcceptedIsApplied, DecisionIsToldOnce
    <3>1. CASE q = p
      BY <3>1, <2>2, <2>4, <2>5, <2>6 DEF ForTheApp, state
    <3>2. CASE q # p
      BY <3>2, <2>5 DEF ProposalInv, DecisionsCount, AcceptedIsApplied, DecisionIsToldOnce
    <3> QED
      BY <3>1, <3>2
  <2> QED
    BY <2>9, <2>10, <2>11, <2>12, <2>13 DEF ProposalInv
<1> QED
  BY <1>3, <1>4

\* The author is told: no other decision of the proposal comes to tell.
LEMMA TellStep ==
    ASSUME ProposalInv, NEW j \in DOMAIN proposalJobs, Tell(j)
    PROVE  ProposalInv'
<1> DEFINE p == Proposal(j)
<1>1. DOMAIN proposalJobs[j] = JobFields
  BY DEF ProposalInv, JobsKeepShape, JobFields
<1>2. InDecision(j) /\ proposalJobs[j].at = "tell"
  BY DEF Tell, Doing, InDecision, Decides
<1>3. OnlyJob(j) /\ proposalJobs'[j].at = "done" /\ UNCHANGED <<proposals, executed>>
  BY <1>1, GoesFacts DEF Tell
<1>4. p \in DOMAIN proposals /\ proposals[p].state # "pending" /\ authorsTold[p] = 0
  BY <1>2 DEF ProposalInv, DecisionsAreSound
<1>5. authorsTold \in Seq(Nat) /\ Len(authorsTold) = Len(proposals) /\ proposals \in Seq(ProposalRows)
  BY DEF ProposalInv, RowsKeepShape
<1>6. /\ authorsTold' \in Seq(Nat) /\ Len(authorsTold') = Len(proposals)
      /\ authorsTold'[p] \in {0, 1}
      /\ \A q \in DOMAIN proposals : q # p => authorsTold'[q] = authorsTold[q]
  <2>1. CASE authorsTold' = authorsTold
    BY <2>1, <1>4, <1>5
  <2>2. CASE authorsTold' = [authorsTold EXCEPT ![p] = @ + 1]
    BY <2>2, <1>4, <1>5
  <2> QED
    BY <2>1, <2>2 DEF Tell
<1>7. \A i \in DOMAIN proposalJobs : InDecision(i)' =>
        i # j /\ InDecision(i) /\ proposalJobs'[i] = proposalJobs[i] /\ Proposal(i)' = Proposal(i)
  BY <1>3 DEF OnlyJob, InDecision, Decides, Proposal
<1>8. JobsKeepShape'
  BY <1>3 DEF OnlyJob, JobFields, ProposalInv, JobsKeepShape
<1>9. RowsKeepShape'
  BY <1>3, <1>5, <1>6 DEF RowsKeepShape
<1>10. DecisionsAreSound'
  <2> SUFFICES ASSUME NEW i \in DOMAIN proposalJobs, InDecision(i)'
      PROVE  /\ Proposal(i)' \in DOMAIN proposals
             /\ proposalJobs'[i].at = "record" /\ proposalJobs'[i].ask.accept /\ ForTheApp(Proposal(i))'
                  => Proposal(i)' \in executed
             /\ proposalJobs'[i].at = "tell" =>
                  proposals[Proposal(i)'].state # "pending" /\ authorsTold'[Proposal(i)'] = 0
    BY <1>3 DEF OnlyJob, DecisionsAreSound
  <2>1. /\ i # j /\ InDecision(i) /\ Proposal(i)' = Proposal(i) /\ proposalJobs'[i] = proposalJobs[i]
        /\ (ForTheApp(Proposal(i))' <=> ForTheApp(Proposal(i)))
    BY <1>3, <1>7 DEF ForTheApp
  <2>2. proposalJobs[i].at = "tell" => Proposal(i) # p
    BY <2>1, <1>2 DEF ProposalInv, OneTells
  <2> QED
    BY <2>1, <2>2, <1>6 DEF ProposalInv, DecisionsAreSound
<1>11. OneTells'
  BY <1>3, <1>7 DEF OnlyJob, ProposalInv, OneTells
<1>12. DecisionsCount'
  BY <1>3, <1>4, <1>6 DEF ProposalInv, DecisionsCount, AcceptedIsApplied, DecisionIsToldOnce
<1> QED
  BY <1>8, <1>9, <1>10, <1>11, <1>12 DEF ProposalInv

LEMMA ProposalInitInv == ProposalInit => ProposalInv
<1> SUFFICES ASSUME ProposalInit PROVE ProposalInv
  OBVIOUS
<1>1. PICK scene \in ProposalScenes :
        proposalJobs = [j \in DOMAIN scene |->
                   [ask |-> scene[j], at |-> "begin", of |-> 1, row |-> Nobody, left |-> <<>>]]
  BY DEF ProposalInit
<1>2. \A j \in DOMAIN scene : scene[j] \in ProposalAsks
  BY DEF ProposalAsks
<1> QED
  BY <1>1, <1>2 DEF ProposalInit, ProposalInv, JobsKeepShape, RowsKeepShape, DecisionsAreSound, OneTells, InDecision,
        Decides, DecisionsCount, AcceptedIsApplied, DecisionIsToldOnce

LEMMA ProposalInvStep == ProposalInv /\ [ProposalNext]_proposalVars => ProposalInv'
<1> SUFFICES ASSUME ProposalInv, [ProposalNext]_proposalVars PROVE ProposalInv'
  OBVIOUS
<1>1. CASE UNCHANGED proposalVars
  BY <1>1 DEF proposalVars, ProposalInv, JobsKeepShape, RowsKeepShape, DecisionsAreSound, OneTells, InDecision,
        Decides, Proposal, ForTheApp, DecisionsCount, AcceptedIsApplied, DecisionIsToldOnce
<1>2. CASE ProposalNext
  <2>1. PICK j \in DOMAIN proposalJobs : Job(j)
    BY <1>2 DEF ProposalNext
  <2>2. Quiet(j) \/ File(j) \/ Record(j) \/ Tell(j)
    BY <2>1 DEF Job, Quiet
  <2> QED
    BY <2>2, JobIsQuiet, FileStep, RecordStep, TellStep
<1> QED
  BY <1>1, <1>2

\* Decisions that overlap: one counts, and what it accepts is done
\* (ProposalService::decide and the guard of decide_proposal).
THEOREM DecisionsCountHolds == ProposalSpec => []DecisionsCount
<1>1. ProposalInv => DecisionsCount
  BY DEF ProposalInv
<1> QED
  BY <1>1, ProposalInitInv, ProposalInvStep, PTL DEF ProposalSpec

------------------------------------------------------------------------------
(* Benches: the requests of a bench wait for each other, the folder it is in    *)
(* follows them step by step, and a tree in use is a prepared one.              *)

\* The turns hold: of two requests of a bench the later waits for the earlier,
\* unless it removes the bench, which waits for nobody.
BenchEnds == {"shared", "bench", "error", "done", "dead"}
Preparation == {"list", "prune", "add", "copy", "setup"}
BenchSteps == BenchOps \union BenchEnds \union Preparation \union {"commit", "conflict", "worktree"}
FolderKinds == {"none", "other", "tree"}
Preparedness == {"no", "copied", "warned", "done"}
BenchJobRows == [ask: [op: BenchOps, bench: Benches], at: BenchSteps, warned: BOOLEAN]
BenchTypeOK ==
    /\ benchJobs \in Seq(BenchJobRows)
    /\ made \in [Benches -> SUBSET Nat] /\ pending \in [Benches -> SUBSET Nat]
    /\ branches \in [Benches -> SUBSET Nat] /\ base \in SUBSET Nat
    /\ prepared \in [Benches -> Preparedness] /\ folders \in [Benches -> FolderKinds]
    /\ registered \subseteq Benches /\ interrupted \subseteq Benches
TurnsHold ==
    \A i, j \in DOMAIN benchJobs :
        i < j /\ Of(i) = Of(j) /\ benchJobs[j].at \in Preparation => benchJobs[i].at \in BenchEnds
\* What is not committed is in a tree, and a tree is not made where one is.
TreesHold ==
    /\ \A b \in Benches : folders[b] # "tree" => pending[b] = {}
    /\ \A i \in DOMAIN benchJobs : benchJobs[i].at = "add" => folders[Of(i)] # "tree"
\* A tree was prepared, or warned of, or it is being prepared, or that was cut short.
TreeIsPrepared ==
    \A b \in Benches : folders[b] = "tree" /\ b \in registered =>
        \/ prepared[b] \in {"done", "warned"} \/ b \in interrupted
        \/ \E i \in DOMAIN benchJobs : Of(i) = b /\ benchJobs[i].at \in {"copy", "setup"}
BenchInv == BenchTypeOK /\ TurnsHold /\ TreesHold /\ TreeIsPrepared /\ WorkIsKept

\* A step of a request changes that request alone, which had not ended.
OnlyBenchJob(i) ==
    /\ benchJobs' \in Seq(BenchJobRows) /\ DOMAIN benchJobs' = DOMAIN benchJobs
    /\ \A j \in DOMAIN benchJobs : j # i => benchJobs'[j] = benchJobs[j]
    /\ benchJobs'[i].ask = benchJobs[i].ask /\ benchJobs[i].at \notin BenchEnds

LEMMA BenchGoesFacts ==
    ASSUME BenchTypeOK, NEW i \in DOMAIN benchJobs, NEW at \in BenchSteps, BenchGoes(i, at)
    PROVE  /\ benchJobs' \in Seq(BenchJobRows) /\ DOMAIN benchJobs' = DOMAIN benchJobs
           /\ \A j \in DOMAIN benchJobs : j # i => benchJobs'[j] = benchJobs[j]
           /\ benchJobs'[i].ask = benchJobs[i].ask
           /\ benchJobs'[i].at = at
<1> DEFINE job == [benchJobs[i] EXCEPT !.at = at]
<1>1. benchJobs \in Seq(BenchJobRows) /\ benchJobs[i] \in BenchJobRows
  BY DEF BenchTypeOK
<1>2. job \in BenchJobRows /\ job.ask = benchJobs[i].ask /\ job.at = at
  BY <1>1 DEF BenchJobRows
<1>3. benchJobs' = [benchJobs EXCEPT ![i] = job]
  BY DEF BenchGoes
<1> HIDE DEF job
<1> QED
  BY <1>1, <1>2, <1>3

LEMMA WarnsFacts ==
    ASSUME BenchTypeOK, NEW i \in DOMAIN benchJobs, NEW at \in BenchSteps, NEW warned \in BOOLEAN,
           WarnsAndGoes(i, warned, at)
    PROVE  /\ benchJobs' \in Seq(BenchJobRows) /\ DOMAIN benchJobs' = DOMAIN benchJobs
           /\ \A j \in DOMAIN benchJobs : j # i => benchJobs'[j] = benchJobs[j]
           /\ benchJobs'[i].ask = benchJobs[i].ask
           /\ benchJobs'[i].at = at
           /\ warned => benchJobs'[i].warned
<1> DEFINE job == [benchJobs[i] EXCEPT !.at = at, !.warned = @ \/ warned]
<1>1. benchJobs \in Seq(BenchJobRows) /\ benchJobs[i] \in BenchJobRows
  BY DEF BenchTypeOK
<1>2. /\ job \in BenchJobRows /\ job.ask = benchJobs[i].ask /\ job.at = at
      /\ warned => job.warned
  BY <1>1 DEF BenchJobRows
<1>3. benchJobs' = [benchJobs EXCEPT ![i] = job]
  BY <1>1, <1>2 DEF WarnsAndGoes, BenchJobRows
<1> HIDE DEF job
<1> QED
  BY <1>1, <1>2, <1>3

\* One request of a bench prepares it at a time.
LEMMA PreparesAlone ==
    ASSUME BenchInv, NEW i \in DOMAIN benchJobs, NEW j \in DOMAIN benchJobs, Of(i) = Of(j),
           benchJobs[i].at \in Preparation, benchJobs[j].at \in Preparation
    PROVE  i = j
<1>1. i \in Nat /\ j \in Nat
  BY DEF BenchInv, BenchTypeOK
<1>2. i < j => benchJobs[i].at \in BenchEnds
  BY DEF BenchInv, TurnsHold
<1>3. j < i => benchJobs[j].at \in BenchEnds
  BY DEF BenchInv, TurnsHold
<1> QED
  BY <1>1, <1>2, <1>3 DEF Preparation, BenchEnds

LEMMA TypedOf == ASSUME BenchTypeOK, NEW i \in DOMAIN benchJobs PROVE Of(i) \in Benches
<1>1. benchJobs[i] \in BenchJobRows
  BY DEF BenchTypeOK
<1> QED
  BY <1>1 DEF BenchJobRows, Of

\* The step of a request touches its own bench; what it must do to that one.
LEMMA OwnBenchStep ==
    ASSUME BenchInv, NEW i \in DOMAIN benchJobs, OnlyBenchJob(i), BenchTypeOK',
           \A b \in Benches : b # Of(i) =>
               /\ folders'[b] = folders[b] /\ pending'[b] = pending[b] /\ prepared'[b] = prepared[b]
               /\ made'[b] = made[b] /\ branches'[b] = branches[b]
               /\ (b \in registered' => b \in registered) /\ (b \in interrupted => b \in interrupted'),
           benchJobs'[i].at \in Preparation => benchJobs[i].at \in Preparation \/ BenchTurn(i),
           folders'[Of(i)] # "tree" => pending'[Of(i)] = {},
           benchJobs'[i].at = "add" => folders'[Of(i)] # "tree",
           folders'[Of(i)] = "tree" => folders[Of(i)] = "tree" \/ benchJobs[i].at = "add",
           folders'[Of(i)] = "tree" /\ Of(i) \in registered' =>
               \/ prepared'[Of(i)] \in {"done", "warned"} \/ Of(i) \in interrupted'
               \/ benchJobs'[i].at \in {"copy", "setup"}
               \/ /\ folders[Of(i)] = "tree" /\ Of(i) \in registered /\ prepared'[Of(i)] = prepared[Of(i)]
                  /\ Of(i) \in interrupted => Of(i) \in interrupted'
                  /\ benchJobs[i].at \notin {"copy", "setup"},
           made'[Of(i)] \subseteq branches'[Of(i)] \union pending'[Of(i)]
    PROVE  BenchInv'
<1>1. \A j \in DOMAIN benchJobs : Of(j)' = Of(j)
  BY DEF OnlyBenchJob, Of
<1>2. \A j \in DOMAIN benchJobs : Of(j) \in Benches
  BY TypedOf DEF BenchInv
<1>3. TurnsHold'
  <2> SUFFICES ASSUME NEW k \in DOMAIN benchJobs, NEW j \in DOMAIN benchJobs,
                      k < j, Of(k) = Of(j), benchJobs'[j].at \in Preparation
      PROVE  benchJobs'[k].at \in BenchEnds
    BY <1>1 DEF TurnsHold, OnlyBenchJob
  <2>1. k \in Nat /\ j \in Nat /\ k \in 1 .. (j - 1)
    BY DEF BenchInv, BenchTypeOK
  <2>2. benchJobs[j].at \in Preparation \/ BenchTurn(j)
    BY DEF OnlyBenchJob
  <2>3. benchJobs[k].at \in BenchEnds
    BY <2>1, <2>2 DEF BenchInv, TurnsHold, BenchTurn, BenchEnds
  <2> QED
    BY <2>3 DEF OnlyBenchJob
<1>4. TreesHold'
  <2>1. ASSUME NEW b \in Benches, folders'[b] # "tree" PROVE pending'[b] = {}
    BY <2>1 DEF BenchInv, TreesHold
  <2>2. ASSUME NEW j \in DOMAIN benchJobs, benchJobs'[j].at = "add", folders'[Of(j)] = "tree"
        PROVE  FALSE
    <3>1. j # i /\ benchJobs[j].at = "add"
      BY <2>2 DEF OnlyBenchJob
    <3>2. folders[Of(j)] # "tree" /\ Of(j) \in Benches
      BY <3>1, <1>2 DEF BenchInv, TreesHold
    <3>3. Of(j) = Of(i) /\ benchJobs[i].at = "add"
      BY <2>2, <3>2
    <3> QED
      BY <3>1, <3>3, PreparesAlone DEF Preparation
  <2> QED
    BY <1>1, <2>1, <2>2 DEF TreesHold, OnlyBenchJob
<1>5. TreeIsPrepared'
  <2> SUFFICES ASSUME NEW b \in Benches, folders'[b] = "tree", b \in registered',
                      prepared'[b] \notin {"done", "warned"}, b \notin interrupted'
      PROVE  \E j \in DOMAIN benchJobs : Of(j) = b /\ benchJobs'[j].at \in {"copy", "setup"}
    BY <1>1 DEF TreeIsPrepared, OnlyBenchJob
  <2>1. CASE b = Of(i) /\ benchJobs'[i].at \in {"copy", "setup"}
    BY <2>1
  <2>2. CASE b # Of(i) \/ benchJobs'[i].at \notin {"copy", "setup"}
    <3>1. /\ folders[b] = "tree" /\ b \in registered /\ prepared[b] \notin {"done", "warned"} /\ b \notin interrupted
          /\ b # Of(i) \/ benchJobs[i].at \notin {"copy", "setup"}
      BY <2>2
    <3>2. PICK j \in DOMAIN benchJobs : Of(j) = b /\ benchJobs[j].at \in {"copy", "setup"}
      BY <3>1 DEF BenchInv, TreeIsPrepared
    <3> QED
      BY <3>1, <3>2 DEF OnlyBenchJob
  <2> QED
    BY <2>1, <2>2
<1>6. WorkIsKept'
  BY <1>2 DEF BenchInv, WorkIsKept
<1> QED
  BY <1>3, <1>4, <1>5, <1>6 DEF BenchInv

LEMMA BenchActionStep ==
    ASSUME BenchInv, NEW i \in DOMAIN benchJobs,
           \/ LooksForBench(i) \/ Reuses(i) \/ Prunes(i) \/ AddsWorktree(i) \/ CopiesIgnored(i) \/ RunsSetup(i)
           \/ Edits(i) \/ Commits(i) \/ BaseMoves(i) \/ Syncs(i) \/ Aborts(i) \/ Publishes(i)
           \/ LooksBeforeRemoving(i) \/ RemovesTree(i) \/ BenchBreaks(i) \/ FolderVanishes(i)
    PROVE  BenchInv'
<1> DEFINE b == Of(i)
<1>1. b \in Benches /\ BenchTypeOK /\ i \in Nat
  BY TypedOf DEF BenchInv, BenchTypeOK
<1>2. /\ made[b] \subseteq branches[b] \union pending[b]
      /\ folders[b] # "tree" => pending[b] = {}
      /\ benchJobs[i].at = "add" => folders[b] # "tree"
  BY <1>1 DEF BenchInv, WorkIsKept, TreesHold
<1>3. ASSUME NEW at \in BenchSteps, BenchGoes(i, at), benchJobs[i].at \notin BenchEnds
      PROVE  OnlyBenchJob(i) /\ benchJobs'[i].at = at
  BY <1>1, <1>3, BenchGoesFacts DEF OnlyBenchJob
<1>4. ASSUME NEW at \in BenchSteps, NEW warned \in BOOLEAN, WarnsAndGoes(i, warned, at), benchJobs[i].at \notin BenchEnds
      PROVE  OnlyBenchJob(i) /\ benchJobs'[i].at = at
  BY <1>1, <1>4, WarnsFacts DEF OnlyBenchJob
<1> HIDE DEF b
<1> USE <1>1, <1>2 DEF Untouched, BenchSteps, BenchOps, BenchEnds, Preparation, FolderKinds, Preparedness
<1>5. CASE LooksForBench(i)
  <2>1. OnlyBenchJob(i) /\ benchJobs'[i].at \in {"shared", "list"}
    <3>1. benchJobs[i].at \notin BenchEnds
      BY <1>5 DEF LooksForBench, BenchEnds
    <3>2. WarnsAndGoes(i, FALSE, "shared") \/ WarnsAndGoes(i, TRUE, "shared") \/ BenchGoes(i, "list")
      BY <1>5 DEF LooksForBench
    <3> QED
      BY <3>1, <3>2, <1>3, <1>4
  <2>2. BenchTypeOK'
    BY <1>5, <2>1 DEF LooksForBench, BenchTypeOK, OnlyBenchJob
  <2> QED
    BY <1>5, <2>1, <2>2, OwnBenchStep DEF LooksForBench, b
<1>6. CASE Reuses(i)
  <2>1. OnlyBenchJob(i) /\ benchJobs'[i].at \in {"bench", "prune"}
    BY <1>6, <1>3 DEF Reuses, BenchEnds
  <2>2. BenchTypeOK'
    BY <1>6, <2>1 DEF Reuses, BenchTypeOK, OnlyBenchJob
  <2> QED
    BY <1>6, <2>1, <2>2, OwnBenchStep DEF Reuses, b, Preparation
<1>7. CASE Prunes(i)
  <2>1. OnlyBenchJob(i) /\ benchJobs'[i].at \in {"error", "add"} /\ (folders[b] = "tree" => benchJobs'[i].at = "error")
    BY <1>7, <1>3 DEF Prunes, BenchEnds, b
  <2>2. BenchTypeOK'
    BY <1>7, <2>1 DEF Prunes, BenchTypeOK, OnlyBenchJob
  <2> QED
    BY <1>7, <2>1, <2>2, OwnBenchStep DEF Prunes, b, Preparation
<1>8. CASE AddsWorktree(i)
  <2>1. OnlyBenchJob(i) /\ benchJobs'[i].at = "copy"
    BY <1>8, <1>3 DEF AddsWorktree, BenchEnds
  <2>2. BranchFor(b) \in SUBSET Nat /\ made[b] \subseteq BranchFor(b)
    BY <1>8 DEF AddsWorktree, BranchFor, NoBranch, BenchTypeOK
  <2>3. BenchTypeOK'
    BY <1>8, <2>1, <2>2 DEF AddsWorktree, BenchTypeOK, OnlyBenchJob, b
  <2>4. /\ branches'[b] = BranchFor(b) /\ folders'[b] = "tree" /\ made' = made /\ pending'[b] = {}
        /\ \A c \in Benches : c # b => /\ branches'[c] = branches[c] /\ folders'[c] = folders[c]
                                       /\ prepared'[c] = prepared[c] /\ pending'[c] = pending[c]
                                       /\ (c \in registered' => c \in registered)
                                       /\ (c \in interrupted => c \in interrupted')
        /\ benchJobs[i].at = "add"
    BY <1>8 DEF AddsWorktree, BenchTypeOK, b
  <2> QED
    BY <2>1, <2>2, <2>3, <2>4, OwnBenchStep DEF b, Preparation
<1>9. CASE CopiesIgnored(i)
  <2>1. /\ OnlyBenchJob(i) /\ benchJobs'[i].at \in {"setup", "bench"} /\ benchJobs[i].at = "copy"
        /\ prepared'[b] \in {"copied", "warned", "done"}
        /\ prepared'[b] = "copied" => benchJobs'[i].at = "setup"
        /\ prepared' \in [Benches -> Preparedness]
        /\ \A c \in Benches : c # b => prepared'[c] = prepared[c]
    <3>1. PICK missing \in BOOLEAN :
         /\ WarnsAndGoes(i, missing, IF around.setup THEN "setup" ELSE "bench")
         /\ prepared' = [prepared EXCEPT ![b] =
                CASE around.setup -> "copied" [] ~around.setup /\ missing -> "warned" [] OTHER -> "done"]
      BY <1>9 DEF CopiesIgnored, b
    <3>2. benchJobs[i].at = "copy" /\ benchJobs[i].at \notin BenchEnds
      BY <1>9 DEF CopiesIgnored, BenchEnds
    <3>3. OnlyBenchJob(i) /\ benchJobs'[i].at = IF around.setup THEN "setup" ELSE "bench"
      BY <3>1, <3>2, <1>4
    <3> QED
      BY <3>1, <3>2, <3>3 DEF BenchTypeOK
  <2>2. BenchTypeOK'
    BY <1>9, <2>1 DEF CopiesIgnored, BenchTypeOK, OnlyBenchJob
  <2> QED
    BY <1>9, <2>1, <2>2, OwnBenchStep DEF CopiesIgnored, b, Preparation
<1>10. CASE RunsSetup(i)
  <2>1. /\ OnlyBenchJob(i) /\ benchJobs'[i].at = "bench" /\ benchJobs[i].at = "setup"
        /\ prepared'[b] \in {"warned", "done"}
        /\ prepared' \in [Benches -> Preparedness]
        /\ \A c \in Benches : c # b => prepared'[c] = prepared[c]
    <3>1. PICK ok \in BOOLEAN :
         /\ WarnsAndGoes(i, ~ok, "bench")
         /\ prepared' = [prepared EXCEPT ![b] = IF ok THEN "done" ELSE "warned"]
      BY <1>10 DEF RunsSetup, SetupWarns, b
    <3>2. benchJobs[i].at = "setup" /\ benchJobs[i].at \notin BenchEnds
      BY <1>10 DEF RunsSetup, BenchEnds
    <3>3. OnlyBenchJob(i) /\ benchJobs'[i].at = "bench"
      BY <3>1, <3>2, <1>4
    <3> QED
      BY <3>1, <3>2, <3>3 DEF BenchTypeOK
  <2>2. BenchTypeOK'
    BY <1>10, <2>1 DEF RunsSetup, BenchTypeOK, OnlyBenchJob
  <2> QED
    BY <1>10, <2>1, <2>2, OwnBenchStep DEF RunsSetup, b, Preparation
<1>11. CASE Edits(i)
  <2>1. OnlyBenchJob(i) /\ benchJobs'[i].at \in {"commit", "done"} /\ benchJobs[i].at = "edit"
    BY <1>11, <1>3 DEF Edits, BenchEnds
  <2>2. \/ UNCHANGED <<pending, made>>
        \/ /\ folders[b] = "tree"
           /\ pending' = [pending EXCEPT ![b] = @ \union {i}] /\ made' = [made EXCEPT ![b] = @ \union {i}]
    BY <1>11 DEF Edits, b
  <2>3. pending' \in [Benches -> SUBSET Nat] /\ made' \in [Benches -> SUBSET Nat]
    BY <2>2 DEF BenchTypeOK
  <2>4. /\ \A c \in Benches : c # b => pending'[c] = pending[c] /\ made'[c] = made[c]
        /\ folders[b] # "tree" => pending'[b] = {}
        /\ made'[b] \subseteq branches[b] \union pending'[b]
    BY <2>2 DEF BenchTypeOK
  <2>5. BenchTypeOK'
    BY <1>11, <2>1, <2>3 DEF Edits, BenchTypeOK, OnlyBenchJob
  <2> QED
    BY <1>11, <2>1, <2>4, <2>5, OwnBenchStep DEF Edits, b, Preparation
<1>12. CASE Commits(i)
  <2>1. OnlyBenchJob(i) /\ benchJobs'[i].at = "done" /\ benchJobs[i].at = "commit"
    BY <1>12, <1>3 DEF Commits, BenchEnds
  <2>2. \/ UNCHANGED <<branches, pending>>
        \/ /\ branches' = [branches EXCEPT ![b] = @ \union pending[b]]
           /\ pending' = [pending EXCEPT ![b] = {}]
    BY <1>12 DEF Commits, b
  <2>3. pending' \in [Benches -> SUBSET Nat] /\ branches' \in [Benches -> SUBSET Nat]
    BY <2>2 DEF BenchTypeOK
  <2>4. /\ \A c \in Benches : c # b => pending'[c] = pending[c] /\ branches'[c] = branches[c]
        /\ folders[b] # "tree" => pending'[b] = {}
        /\ made[b] \subseteq branches'[b] \union pending'[b]
    BY <2>2 DEF BenchTypeOK
  <2>5. BenchTypeOK'
    BY <1>12, <2>1, <2>3 DEF Commits, BenchTypeOK, OnlyBenchJob
  <2> QED
    BY <1>12, <2>1, <2>4, <2>5, OwnBenchStep DEF Commits, b, Preparation
<1>13. CASE BaseMoves(i)
  <2>1. OnlyBenchJob(i) /\ benchJobs'[i].at = "done" /\ benchJobs[i].at = "base"
    BY <1>13, <1>3 DEF BaseMoves, BenchEnds
  <2>2. base' \in SUBSET Nat
    BY <1>13 DEF BaseMoves, BaseChanges, BenchTypeOK
  <2>3. BenchTypeOK'
    BY <1>13, <2>1, <2>2 DEF BaseMoves, BenchTypeOK, OnlyBenchJob
  <2> QED
    BY <1>13, <2>1, <2>3, OwnBenchStep DEF BaseMoves, b, Preparation
<1>14. CASE Syncs(i)
  <2>1. OnlyBenchJob(i) /\ benchJobs'[i].at \in {"error", "done", "conflict"} /\ benchJobs[i].at = "sync"
    BY <1>14, <1>3 DEF Syncs, BenchEnds
  <2>2. branches' = branches \/ branches' = [branches EXCEPT ![b] = @ \union base]
    BY <1>14 DEF Syncs, b
  <2>3. branches' \in [Benches -> SUBSET Nat]
    BY <2>2 DEF BenchTypeOK
  <2>4. /\ \A c \in Benches : c # b => branches'[c] = branches[c]
        /\ made[b] \subseteq branches'[b] \union pending[b]
    BY <2>2 DEF BenchTypeOK
  <2>5. BenchTypeOK'
    BY <1>14, <2>1, <2>3 DEF Syncs, BenchTypeOK, OnlyBenchJob
  <2> QED
    BY <1>14, <2>1, <2>4, <2>5, OwnBenchStep DEF Syncs, b, Preparation
<1>15. CASE Aborts(i)
  <2>1. OnlyBenchJob(i) /\ benchJobs'[i].at = "error" /\ benchJobs[i].at = "conflict"
    BY <1>15, <1>3 DEF Aborts, BenchEnds
  <2>2. BenchTypeOK'
    BY <1>15, <2>1 DEF Aborts, Aborted, BenchTypeOK, OnlyBenchJob
  <2> QED
    BY <1>15, <2>1, <2>2, OwnBenchStep DEF Aborts, Aborted, b, Preparation
<1>16. CASE Publishes(i)
  <2>1. OnlyBenchJob(i) /\ benchJobs'[i].at \in {"error", "done"} /\ benchJobs[i].at = "publish"
    BY <1>16, <1>3 DEF Publishes, BenchEnds
  <2>2. BenchTypeOK'
    BY <1>16, <2>1 DEF Publishes, BenchTypeOK, OnlyBenchJob
  <2> QED
    BY <1>16, <2>1, <2>2, OwnBenchStep DEF Publishes, b, Preparation
<1>17. CASE LooksBeforeRemoving(i)
  <2>1. OnlyBenchJob(i) /\ benchJobs'[i].at \in {"error", "done", "worktree"} /\ benchJobs[i].at = "remove"
    <3>1. BenchGoes(i, "done") \/ BenchGoes(i, "error") \/ BenchGoes(i, "worktree")
      BY <1>17 DEF LooksBeforeRemoving
    <3> QED
      BY <3>1, <1>17, <1>3 DEF LooksBeforeRemoving, BenchEnds
  <2>2. BenchTypeOK'
    BY <1>17, <2>1 DEF LooksBeforeRemoving, BenchTypeOK, OnlyBenchJob
  <2> QED
    BY <1>17, <2>1, <2>2, OwnBenchStep DEF LooksBeforeRemoving, b, Preparation
<1>18. CASE RemovesTree(i)
  <2>1. OnlyBenchJob(i) /\ benchJobs'[i].at \in {"error", "done"} /\ benchJobs[i].at = "worktree"
    BY <1>18, <1>3 DEF RemovesTree, BenchEnds
  <2>2. \/ UNCHANGED <<folders, registered, pending>>
        \/ /\ pending[b] = {} /\ pending' = [pending EXCEPT ![b] = {}]
           /\ folders' = [folders EXCEPT ![b] = "none"] /\ registered' = registered \ {b}
    BY <1>18 DEF RemovesTree, Removable, b
  <2>3. /\ pending' \in [Benches -> SUBSET Nat] /\ folders' \in [Benches -> FolderKinds] /\ registered' \subseteq registered
        /\ registered \subseteq Benches
    BY <2>2 DEF BenchTypeOK
  <2>4. /\ \A c \in Benches : c # b => pending'[c] = pending[c] /\ folders'[c] = folders[c]
        /\ pending'[b] = pending[b]
        /\ folders'[b] = "tree" => folders[b] = "tree"
        /\ folders'[b] # "tree" => pending'[b] = {}
    BY <2>2 DEF BenchTypeOK
  <2>5. BenchTypeOK'
    BY <1>18, <2>1, <2>3 DEF RemovesTree, BenchTypeOK, OnlyBenchJob
  <2>6. UNCHANGED <<made, branches, prepared, interrupted>>
    BY <1>18 DEF RemovesTree
  <2> QED
    BY <2>1, <2>3, <2>4, <2>5, <2>6, OwnBenchStep DEF b, Preparation
<1>19. CASE BenchBreaks(i)
  <2>1. OnlyBenchJob(i) /\ benchJobs'[i].at = "error" /\ benchJobs[i].at \in Preparation
    BY <1>19, <1>3 DEF BenchBreaks, BenchEnds, Preparation
  <2>2. /\ interrupted' \subseteq Benches /\ interrupted \subseteq interrupted'
        /\ benchJobs[i].at \in {"copy", "setup"} => b \in interrupted'
    BY <1>19 DEF BenchBreaks, BenchTypeOK, b
  <2>3. BenchTypeOK'
    BY <1>19, <2>1, <2>2 DEF BenchBreaks, BenchTypeOK, OnlyBenchJob
  <2> QED
    BY <1>19, <2>1, <2>2, <2>3, OwnBenchStep DEF BenchBreaks, b
<1>20. CASE FolderVanishes(i)
  <2>1. OnlyBenchJob(i) /\ benchJobs'[i].at = "done" /\ benchJobs[i].at = "vanish"
    BY <1>20, <1>3 DEF FolderVanishes, BenchEnds
  <2>2. /\ folders' = [folders EXCEPT ![b] = "none"] /\ pending' = [pending EXCEPT ![b] = {}]
        /\ made' = [made EXCEPT ![b] = @ \ pending[b]]
    BY <1>20 DEF FolderVanishes, b
  <2>3. /\ pending' \in [Benches -> SUBSET Nat] /\ folders' \in [Benches -> FolderKinds] /\ made' \in [Benches -> SUBSET Nat]
    BY <2>2 DEF BenchTypeOK
  <2>4. /\ \A c \in Benches : c # b => pending'[c] = pending[c] /\ folders'[c] = folders[c] /\ made'[c] = made[c]
        /\ pending'[b] = {} /\ folders'[b] = "none"
        /\ made'[b] \subseteq branches[b]
    BY <2>2 DEF BenchTypeOK
  <2>5. BenchTypeOK'
    BY <1>20, <2>1, <2>3 DEF FolderVanishes, BenchTypeOK, OnlyBenchJob
  <2> QED
    BY <1>20, <2>1, <2>4, <2>5, OwnBenchStep DEF FolderVanishes, b, Preparation
<1> QED
  BY <1>5, <1>6, <1>7, <1>8, <1>9, <1>10, <1>11, <1>12, <1>13, <1>14, <1>15, <1>16, <1>17, <1>18, <1>19, <1>20

LEMMA BenchInitInv == BenchInit => BenchInv
<1> SUFFICES ASSUME BenchInit PROVE BenchInv
  OBVIOUS
<1>1. PICK scene \in BenchScenes :
         benchJobs = [i \in DOMAIN scene |-> [ask |-> scene[i], at |-> scene[i].op, warned |-> FALSE]]
  BY DEF BenchInit
<1>2. scene \in Seq([op: BenchOps, bench: Benches])
  BY BenchScenesAssumption
<1>3. /\ DOMAIN scene = 1 .. Len(scene) /\ Len(scene) \in Nat
      /\ \A i \in 1 .. Len(scene) : scene[i] \in [op: BenchOps, bench: Benches] /\ scene[i].op \in BenchOps
  <2> DEFINE AskedFor == [op: BenchOps, bench: Benches]
  <2>1. scene \in Seq(AskedFor) /\ \A ask \in AskedFor : ask.op \in BenchOps
    BY <1>2
  <2> HIDE DEF AskedFor
  <2>2. DOMAIN scene = 1 .. Len(scene) /\ Len(scene) \in Nat /\ \A i \in 1 .. Len(scene) : scene[i] \in AskedFor
    BY <2>1
  <2> QED
    BY <2>1, <2>2 DEF AskedFor
<1>4. /\ benchJobs \in Seq(BenchJobRows)
      /\ \A i \in DOMAIN benchJobs : benchJobs[i].at \in BenchOps
  <2>1. \A i \in 1 .. Len(scene) :
          [ask |-> scene[i], at |-> scene[i].op, warned |-> FALSE] \in BenchJobRows
    BY <1>3 DEF BenchJobRows, BenchSteps
  <2> QED
    BY <1>1, <1>3, <2>1
<1>5. BenchTypeOK
  BY <1>4 DEF BenchInit, BenchTypeOK, BaseChanges, NoBranch, FolderKinds, Preparedness
<1> QED
  BY <1>4, <1>5 DEF BenchInit, BenchInv, TurnsHold, TreesHold, TreeIsPrepared, WorkIsKept, BenchOps, Preparation

LEMMA BenchInvStep == BenchInv /\ [BenchNext]_benchVars => BenchInv'
<1> SUFFICES ASSUME BenchInv, [BenchNext]_benchVars PROVE BenchInv'
  OBVIOUS
<1>1. CASE UNCHANGED benchVars
  BY <1>1 DEF benchVars, BenchInv, BenchTypeOK, TurnsHold, TreesHold, TreeIsPrepared, WorkIsKept, Of
<1>2. CASE BenchNext
  BY <1>2, BenchActionStep DEF BenchNext
<1> QED
  BY <1>1, <1>2

\* A request that becomes ready without a warning was prepared just now, or it
\* found a tree, which the invariant says is prepared.
LEMMA ReadyStep ==
    ASSUME BenchInv, NEW i \in DOMAIN benchJobs, ReadyQuietly(i), BenchNext
    PROVE  prepared'[Of(i)] = "done" \/ WarnedBefore(i) \/ Of(i) \in interrupted
<1> DEFINE b == Of(i)
<1>1. b \in Benches /\ BenchTypeOK /\ i \in Nat
  BY TypedOf DEF BenchInv, BenchTypeOK
<1> USE DEF BenchSteps, BenchOps, BenchEnds, Preparation
<1>2. ASSUME NEW j \in DOMAIN benchJobs, NEW at \in BenchSteps, BenchGoes(j, at), j # i \/ at # "bench"
      PROVE  FALSE
  BY <1>1, <1>2, BenchGoesFacts DEF ReadyQuietly
<1>3. ASSUME NEW j \in DOMAIN benchJobs, NEW at \in BenchSteps, NEW warned \in BOOLEAN,
             WarnsAndGoes(j, warned, at), j # i \/ at # "bench" \/ warned
      PROVE  FALSE
  BY <1>1, <1>3, WarnsFacts DEF ReadyQuietly
<1>4. PICK j \in DOMAIN benchJobs :
        \/ LooksForBench(j) \/ Reuses(j) \/ Prunes(j) \/ AddsWorktree(j) \/ CopiesIgnored(j) \/ RunsSetup(j)
        \/ Edits(j) \/ Commits(j) \/ BaseMoves(j) \/ Syncs(j) \/ Aborts(j) \/ Publishes(j)
        \/ LooksBeforeRemoving(j) \/ RemovesTree(j) \/ BenchBreaks(j) \/ FolderVanishes(j)
  BY DEF BenchNext
<1>5. CASE Reuses(j)
  <2>1. j = i /\ benchJobs[i].at = "list" /\ b \in registered /\ folders[b] = "tree" /\ prepared' = prepared
    BY <1>5, <1>2 DEF Reuses, Untouched
  <2>2. \A k \in DOMAIN benchJobs : ~(Of(k) = b /\ benchJobs[k].at \in {"copy", "setup"})
    BY <2>1, PreparesAlone
  <2> QED
    BY <1>1, <2>1, <2>2 DEF BenchInv, TreeIsPrepared, WarnedBefore
<1>6. CASE CopiesIgnored(j)
  <2>1. PICK missing \in BOOLEAN :
         /\ WarnsAndGoes(j, missing, IF around.setup THEN "setup" ELSE "bench")
         /\ prepared' = [prepared EXCEPT ![Of(j)] =
                CASE around.setup -> "copied" [] ~around.setup /\ missing -> "warned" [] OTHER -> "done"]
    BY <1>6 DEF CopiesIgnored
  <2>2. j = i /\ ~missing /\ ~around.setup
    BY <2>1, <1>3
  <2> QED
    BY <1>1, <2>1, <2>2 DEF BenchTypeOK
<1>7. CASE RunsSetup(j)
  <2>1. PICK ok \in BOOLEAN :
         /\ WarnsAndGoes(j, ~ok, "bench")
         /\ prepared' = [prepared EXCEPT ![Of(j)] = IF ok THEN "done" ELSE "warned"]
    BY <1>7 DEF RunsSetup, SetupWarns
  <2>2. j = i /\ ok
    BY <2>1, <1>3
  <2> QED
    BY <1>1, <2>1, <2>2 DEF BenchTypeOK
<1>8. CASE LooksForBench(j)
  <2>1. WarnsAndGoes(j, FALSE, "shared") \/ WarnsAndGoes(j, TRUE, "shared") \/ BenchGoes(j, "list")
    BY <1>8 DEF LooksForBench
  <2> QED
    BY <2>1, <1>2, <1>3
<1>9. CASE LooksBeforeRemoving(j)
  <2>1. BenchGoes(j, "done") \/ BenchGoes(j, "error") \/ BenchGoes(j, "worktree")
    BY <1>9 DEF LooksBeforeRemoving
  <2> QED
    BY <2>1, <1>2
<1>10. CASE Prunes(j) \/ AddsWorktree(j) \/ Edits(j) \/ Commits(j) \/ BaseMoves(j) \/ BenchBreaks(j) \/ FolderVanishes(j)
  BY <1>10, <1>2 DEF Prunes, AddsWorktree, Edits, Commits, BaseMoves, BenchBreaks, FolderVanishes
<1>11. CASE Syncs(j) \/ Aborts(j) \/ Publishes(j) \/ RemovesTree(j)
  BY <1>11, <1>2 DEF Syncs, Aborts, Publishes, RemovesTree
<1> QED
  BY <1>4, <1>5, <1>6, <1>7, <1>8, <1>9, <1>10, <1>11

\* What was made in a bench is kept, and a start that says nothing of its bench
\* gives one that is prepared (prepare_workdir, remove_bench).
THEOREM BenchesAreSafeHolds == BenchSpec => BenchesAreSafe
<1>1. BenchInv /\ BenchInv' /\ [BenchNext]_benchVars => [WorkIsKept' /\ QuietBenchIsPrepared]_benchVars
  BY ReadyStep DEF BenchInv, QuietBenchIsPrepared
<1> QED
  BY <1>1, BenchInitInv, BenchInvStep, PTL DEF BenchSpec, BenchesAreSafe

------------------------------------------------------------------------------
(* Preferences: the file, the copy an app shows and the secrets of the system   *)
(* follow each other.                                                           *)

SettingsRows == [days: Int, relaunch: BOOLEAN, muted: BOOLEAN, onboarding: BOOLEAN,
                 lastTeam: ShownTeams \union {NotSet}, running: SUBSET RunningAgents,
                 secrets: SUBSET [slot: SecretSlots, masked: SecretValues]]
FileRows == [kind: {"missing", "unreadable", "json"}, json: SettingsRows]
Saving == {"write", "written", "rename", "answer"}
AppFields == {"at", "current", "form", "next", "doing", "limits", "warning", "relaunched"}
SettingsTypeOK ==
    /\ settingsFile \in FileRows /\ settingsTmp \in FileRows
    /\ vault \in [SecretSlots -> SecretValues \union {NotSet}]
    /\ secretTold \in [SecretSlots -> SecretValues \union {NotSet, "?"}]
    /\ answered \in SettingsRows /\ attempted \in SettingsRows
    /\ DOMAIN app = AppFields /\ app.at \in {"off", "starting", "loaded", "up"} \union Saving
    /\ app.current \in SettingsRows /\ app.form \in SettingsRows /\ app.next \in SettingsRows

\* What the file says at each point of a command: the settings answered last until
\* it is renamed, and those of the command from then on.
FileFollows ==
    /\ settingsFile # Unreadable
    /\ app.at \in {"off", "starting", "loaded"} => Read(settingsFile) \in {answered, attempted}
    /\ app.at = "loaded" => app.current = Read(settingsFile)
    /\ app.at \in {"up", "write", "written", "rename"} => Read(settingsFile) = answered
    /\ app.at = "answer" => Read(settingsFile) = app.next
    /\ app.at \in Saving => attempted = app.next /\ Normalized(app.next) = app.next
    /\ app.at = "rename" => settingsTmp = Json(app.next)

\* A secret that was told is kept is in the keychain, and named by all the settings
\* there are: the file's, the program's, and those on their way to the file.
Names(s, slot, v) ==
    /\ \E r \in s.secrets : r.slot = slot
    /\ \A r \in s.secrets : r.slot = slot => r.masked = v
SecretsFollow ==
    /\ app.at = "rename" => settingsTmp = Json(app.next)
    /\ app.at = "answer" => settingsFile = Json(app.next)
    /\ \A slot \in SecretSlots :
        /\ secretTold[slot] = NotSet => vault[slot] = NotSet
        /\ secretTold[slot] \in SecretValues =>
             /\ vault[slot] = secretTold[slot]
             /\ Names(settingsFile.json, slot, vault[slot])
             /\ app.at \in {"loaded", "up"} \union Saving => Names(app.current, slot, vault[slot])
             /\ app.at \in Saving => Names(app.next, slot, vault[slot])
    /\ app.at \in Saving /\ app.doing[1] \in {"secret", "forget"} =>
        /\ app.doing[2] \in SecretSlots /\ app.doing[3] \in SecretValues \union {NotSet}
        /\ vault[app.doing[2]] = app.doing[3]
        /\ app.doing[3] # NotSet => Names(app.next, app.doing[2], app.doing[3])

SettingsInv == SettingsTypeOK /\ ("edit" \notin settingsScene => FileFollows) /\ SecretsFollow

LEMMA NormalFacts ==
    ASSUME NEW s \in SettingsRows
    PROVE  /\ Normalized(s) \in SettingsRows /\ Normalized(s).secrets = s.secrets
           /\ Normalized(Normalized(s)) = Normalized(s)
<1>1. CASE s.days < 1
  <2>1. Normalized(s) = [s EXCEPT !.days = 1]
    BY <1>1 DEF Normalized, SettingsRows
  <2> DEFINE t == [s EXCEPT !.days = 1]
  <2>2. t \in SettingsRows /\ t.secrets = s.secrets /\ t.days = 1
    BY DEF SettingsRows
  <2>3. [t EXCEPT !.days = 1] = t
    BY <2>2 DEF SettingsRows
  <2>4. Normalized(t) = [t EXCEPT !.days = 1]
    BY <2>2 DEF Normalized, SettingsRows
  <2> QED
    BY <2>1, <2>2, <2>3, <2>4
<1>2. CASE ~(s.days < 1)
  <2>1. Normalized(s) = s
    BY <1>2 DEF Normalized, SettingsRows
  <2> QED
    BY <2>1
<1> QED
  BY <1>1, <1>2

LEMMA DefaultsFacts ==
    /\ Defaults \in SettingsRows /\ Defaults.secrets = {} /\ Normalized(Defaults) = Defaults
    /\ NoSettings \in FileRows /\ NoSettings # Unreadable /\ NoSettings.json = Defaults
    /\ Unreadable \in FileRows /\ Unreadable.json = Defaults
    /\ \A s \in SettingsRows : Json(s) \in FileRows /\ Json(s) # Unreadable /\ Json(s).json = s
    /\ Off.at = "off" /\ Off.current = Defaults /\ Off.form = Defaults /\ Off.next = Defaults
    /\ DOMAIN Off = AppFields
<1>1. Defaults \in SettingsRows /\ Defaults.secrets = {} /\ Defaults.days = 2
  BY DEF Defaults, SettingsRows
<1>2. Normalized(Defaults) = Defaults
  BY <1>1 DEF Normalized, SettingsRows
<1> HIDE DEF Defaults
<1>3. /\ NoSettings \in FileRows /\ NoSettings # Unreadable /\ NoSettings.json = Defaults
      /\ Unreadable \in FileRows /\ Unreadable.json = Defaults
  BY <1>1 DEF NoSettings, Unreadable, FileRows
<1>4. \A s \in SettingsRows : Json(s) \in FileRows /\ Json(s) # Unreadable /\ Json(s).json = s
  BY DEF Json, Unreadable, FileRows
<1>5. /\ Off.at = "off" /\ Off.current = Defaults /\ Off.form = Defaults /\ Off.next = Defaults
      /\ DOMAIN Off = AppFields
  BY DEF Off, AppFields
<1> QED
  BY <1>1, <1>2, <1>3, <1>4, <1>5

\* What a command makes of the settings, before it is written.
LEMMA UpdatesStep ==
    ASSUME SettingsInv, NEW next \in SettingsRows, NEW doing, Updates(next, doing),
           vault' \in [SecretSlots -> SecretValues \union {NotSet}],
           secretTold' \in [SecretSlots -> SecretValues \union {NotSet, "?"}],
           \A slot \in SecretSlots :
               /\ secretTold'[slot] # "?" => /\ secretTold'[slot] = secretTold[slot] /\ vault'[slot] = vault[slot]
                                             /\ Names(app.current, slot, vault[slot]) => Names(next, slot, vault[slot]),
           doing[1] \in {"secret", "forget"} =>
               /\ doing[2] \in SecretSlots /\ doing[3] \in SecretValues \union {NotSet}
               /\ vault'[doing[2]] = doing[3]
               /\ doing[3] # NotSet => Names(next, doing[2], doing[3])
    PROVE  SettingsInv'
<1> DEFINE nx == Normalized(next)
<1>1. /\ nx \in SettingsRows /\ nx.secrets = next.secrets /\ Normalized(nx) = nx
  BY NormalFacts
<1> HIDE DEF nx
<1>2. /\ app.at = "up" /\ DOMAIN app' = AppFields /\ app'.at = "write" /\ app'.next = nx /\ app'.doing = doing
      /\ app'.current = app.current /\ app'.form = app.form
      /\ attempted' = nx
      /\ UNCHANGED <<settingsScene, settingsFile, settingsTmp, corrupt, answered>>
  BY DEF Updates, SettingsInv, SettingsTypeOK, AppFields, nx
<1>3. SettingsTypeOK'
  BY <1>1, <1>2 DEF SettingsInv, SettingsTypeOK, Saving
<1>4. ("edit" \notin settingsScene => FileFollows)'
  BY <1>1, <1>2 DEF SettingsInv, FileFollows, Saving, Read
<1>5. SecretsFollow'
  <2>1. ASSUME NEW slot \in SecretSlots, secretTold'[slot] = NotSet PROVE vault'[slot] = NotSet
    BY <2>1, SecretValuesAssumption DEF SettingsInv, SecretsFollow, NotSet
  <2>2. ASSUME NEW slot \in SecretSlots, secretTold'[slot] \in SecretValues
        PROVE  /\ vault'[slot] = secretTold'[slot]
               /\ Names(settingsFile.json, slot, vault'[slot]) /\ Names(app.current, slot, vault'[slot]) /\ Names(nx, slot, vault'[slot])
    <3>1. /\ secretTold'[slot] = secretTold[slot] /\ vault'[slot] = vault[slot]
          /\ Names(app.current, slot, vault[slot]) => Names(next, slot, vault[slot])
      BY <2>2, SecretValuesAssumption
    <3>2. vault[slot] = secretTold[slot] /\ Names(settingsFile.json, slot, vault[slot]) /\ Names(app.current, slot, vault[slot])
      BY <2>2, <3>1, <1>2 DEF SettingsInv, SecretsFollow
    <3> QED
      BY <1>1, <1>2, <3>1, <3>2 DEF Names
  <2>3. doing[1] \in {"secret", "forget"} /\ doing[3] # NotSet => Names(nx, doing[2], doing[3])
    BY <1>1, <1>2 DEF Names
  <2> QED
    BY <1>2, <2>1, <2>2, <2>3 DEF SecretsFollow
<1> QED
  BY <1>3, <1>4, <1>5 DEF SettingsInv

\* The steps of a start, of a save, and those that end the program.
LEMMA LoadsStep ==
    ASSUME SettingsInv, NEW from \in {"off", "starting"}, NEW warned,
           NEW to, to = (IF from = "off" THEN "starting" ELSE "loaded"), Loads(from, to, warned)
    PROVE  SettingsInv'
<1> DEFINE now == Read(settingsFile)
<1>1. now \in SettingsRows /\ now.secrets = settingsFile.json.secrets
  BY NormalFacts DEF SettingsInv, SettingsTypeOK, FileRows, Read
<1> HIDE DEF now
<1>2. /\ app.at = from /\ DOMAIN app' = AppFields /\ app'.at = to
      /\ app'.current = now /\ app'.form = app.form /\ app'.next = app.next
      /\ UNCHANGED <<settingsScene, settingsTmp, vault, answered, secretTold, attempted>>
  BY DEF Loads, SettingsInv, SettingsTypeOK, AppFields, now
<1>3. \/ settingsFile' = settingsFile
      \/ settingsFile = Unreadable /\ settingsFile' = NoSettings
  BY DEF Loads
<1>4. settingsFile'.json = settingsFile.json /\ settingsFile' \in FileRows
  BY <1>3, DefaultsFacts DEF SettingsInv, SettingsTypeOK, Saving
<1>5. SettingsTypeOK'
  BY <1>1, <1>2, <1>4 DEF SettingsInv, SettingsTypeOK, Saving
<1>6. ("edit" \notin settingsScene => FileFollows)'
  BY <1>2, <1>3 DEF SettingsInv, FileFollows, Saving, Read, now
<1>7. SecretsFollow'
  BY <1>1, <1>2, <1>4 DEF SettingsInv, SecretsFollow, Saving, Names
<1> QED
  BY <1>5, <1>6, <1>7 DEF SettingsInv

LEMMA ServesStep == SettingsInv /\ ServesSettings => SettingsInv'
<1> SUFFICES ASSUME SettingsInv, ServesSettings PROVE SettingsInv'
  OBVIOUS
<1>2. /\ app.at = "loaded" /\ DOMAIN app' = AppFields /\ app'.at = "up"
      /\ app'.current = app.current /\ app'.form = app.current /\ app'.next = app.next
      /\ answered' = app.current /\ attempted' = app.current
      /\ UNCHANGED <<settingsScene, settingsFile, settingsTmp, corrupt, vault, secretTold>>
  BY DEF ServesSettings, SettingsInv, SettingsTypeOK, AppFields
<1>5. SettingsTypeOK'
  BY <1>2 DEF SettingsInv, SettingsTypeOK, Saving
<1>6. ("edit" \notin settingsScene => FileFollows)'
  BY <1>2 DEF SettingsInv, FileFollows, Saving, Read
<1>7. SecretsFollow'
  BY <1>2 DEF SettingsInv, SecretsFollow, Saving, Names
<1> QED
  BY <1>5, <1>6, <1>7 DEF SettingsInv

LEMMA OpensStep == SettingsInv /\ OpensForm => SettingsInv'
<1> SUFFICES ASSUME SettingsInv, OpensForm PROVE SettingsInv'
  OBVIOUS
<1>2. /\ app.at = "up" /\ DOMAIN app' = AppFields /\ app'.at = "up"
      /\ app'.current = app.current /\ app'.form = app.current /\ app'.next = app.next
      /\ UNCHANGED <<settingsScene, settingsFile, settingsTmp, corrupt, vault, answered, secretTold, attempted>>
  BY DEF OpensForm, SettingsInv, SettingsTypeOK, AppFields
<1>5. SettingsTypeOK'
  BY <1>2 DEF SettingsInv, SettingsTypeOK, Saving
<1>6. ("edit" \notin settingsScene => FileFollows)'
  BY <1>2 DEF SettingsInv, FileFollows, Saving, Read
<1>7. SecretsFollow'
  BY <1>2 DEF SettingsInv, SecretsFollow, Saving, Names
<1> QED
  BY <1>5, <1>6, <1>7 DEF SettingsInv

LEMMA TmpStep == SettingsInv /\ (WritesTmp \/ FillsTmp \/ Renames) => SettingsInv'
<1> SUFFICES ASSUME SettingsInv, WritesTmp \/ FillsTmp \/ Renames PROVE SettingsInv'
  OBVIOUS
<1>2. /\ DOMAIN app' = AppFields /\ app'.current = app.current /\ app'.form = app.form /\ app'.next = app.next
      /\ app'.doing = app.doing
      /\ UNCHANGED <<settingsScene, corrupt, vault, answered, secretTold, attempted>>
      /\ \/ app.at = "write" /\ app'.at = "written" /\ settingsTmp' = Unreadable /\ UNCHANGED settingsFile
         \/ app.at = "written" /\ app'.at = "rename" /\ settingsTmp' = Json(app.next) /\ UNCHANGED settingsFile
         \/ /\ app.at = "rename" /\ app'.at = "answer" /\ settingsFile' = settingsTmp /\ settingsTmp' = NoSettings
  BY DEF WritesTmp, FillsTmp, Renames, SaveGoes, SettingsInv, SettingsTypeOK, AppFields
<1>3. app.at = "rename" => settingsTmp = Json(app.next)
  BY DEF SettingsInv, SecretsFollow
<1>4. app.next \in SettingsRows
  BY DEF SettingsInv, SettingsTypeOK, Saving
<1>5. SettingsTypeOK'
  BY <1>2, <1>4, DefaultsFacts DEF SettingsInv, SettingsTypeOK, Saving
<1>6. ("edit" \notin settingsScene => FileFollows)'
  BY <1>2, <1>3, <1>4, DefaultsFacts DEF SettingsInv, FileFollows, Saving, Read
<1>7. SecretsFollow'
  BY <1>2, <1>3, <1>4, DefaultsFacts DEF SettingsInv, SecretsFollow, Saving, Names
<1> QED
  BY <1>5, <1>6, <1>7 DEF SettingsInv

LEMMA OffStep ==
    ASSUME SettingsInv, app' = Off,
           UNCHANGED <<settingsScene, settingsFile, settingsTmp, vault>>,
           \/ UNCHANGED <<answered, secretTold, attempted>>
           \/ /\ app.at = "answer" /\ answered' = app.next /\ UNCHANGED <<secretTold, attempted>>
    PROVE  SettingsInv'
<1>1. DOMAIN app' = AppFields /\ app'.at = "off" /\ app'.current = Defaults /\ app'.form = Defaults
      /\ app'.next = Defaults
  BY DefaultsFacts
<1>2. app.next \in SettingsRows
  BY DEF SettingsInv, SettingsTypeOK, Saving
<1>3. "edit" \notin settingsScene => Read(settingsFile) \in {answered, attempted}
                                     /\ (app.at = "answer" => Read(settingsFile) = app.next)
  BY DEF SettingsInv, SettingsTypeOK, FileFollows, Saving
<1>5. SettingsTypeOK'
  BY <1>1, <1>2, DefaultsFacts DEF SettingsInv, SettingsTypeOK, Saving
<1>6. ("edit" \notin settingsScene => FileFollows)'
  BY <1>1, <1>3 DEF SettingsInv, FileFollows, Saving, Read
<1>7. SecretsFollow'
  BY <1>1 DEF SettingsInv, SecretsFollow, Saving, Names
<1> QED
  BY <1>5, <1>6, <1>7 DEF SettingsInv

LEMMA AppliesStep == SettingsInv /\ Applies => SettingsInv'
<1> SUFFICES ASSUME SettingsInv, Applies PROVE SettingsInv'
  OBVIOUS
<1>1. /\ app.at = "answer" /\ answered' = app.next
      /\ secretTold' = IF app.doing[1] \in {"secret", "forget"}
                       THEN [secretTold EXCEPT ![app.doing[2]] = app.doing[3]] ELSE secretTold
      /\ UNCHANGED <<settingsScene, settingsFile, settingsTmp, corrupt, vault, attempted>>
  BY DEF Applies
<1>2. app.next \in SettingsRows /\ DOMAIN app = AppFields
  BY DEF SettingsInv, SettingsTypeOK
<1>3. /\ secretTold' \in [SecretSlots -> SecretValues \union {NotSet, "?"}]
      /\ \A slot \in SecretSlots :
           /\ secretTold'[slot] = NotSet => vault[slot] = NotSet
           /\ secretTold'[slot] \in SecretValues =>
                vault[slot] = secretTold'[slot] /\ Names(app.next, slot, vault[slot]) /\ Names(settingsFile.json, slot, vault[slot])
  <2>1. settingsFile.json = app.next
    BY <1>1, <1>2, DefaultsFacts DEF SettingsInv, SecretsFollow
  <2>2. secretTold \in [SecretSlots -> SecretValues \union {NotSet, "?"}]
    BY DEF SettingsInv, SettingsTypeOK
  <2>3. \A slot \in SecretSlots :
           /\ secretTold[slot] = NotSet => vault[slot] = NotSet
           /\ secretTold[slot] \in SecretValues => vault[slot] = secretTold[slot] /\ Names(app.next, slot, vault[slot])
    BY <1>1 DEF SettingsInv, SecretsFollow, Saving
  <2>4. CASE app.doing[1] \in {"secret", "forget"}
    <3>1. /\ app.doing[2] \in SecretSlots /\ app.doing[3] \in SecretValues \union {NotSet}
          /\ vault[app.doing[2]] = app.doing[3]
          /\ app.doing[3] # NotSet => Names(app.next, app.doing[2], app.doing[3])
      BY <1>1, <2>4 DEF SettingsInv, SecretsFollow, Saving
    <3> DEFINE s == app.doing[2]
               v == app.doing[3]
    <3>2. secretTold' = [secretTold EXCEPT ![s] = v]
      BY <1>1, <2>4
    <3> HIDE DEF s, v
    <3>3. s \in SecretSlots /\ v \in SecretValues \union {NotSet} /\ vault[s] = v
          /\ (v # NotSet => Names(app.next, s, v))
      BY <3>1 DEF s, v
    <3> QED
      BY <2>1, <2>2, <2>3, <3>2, <3>3, SecretValuesAssumption
  <2>5. CASE app.doing[1] \notin {"secret", "forget"}
    BY <1>1, <2>1, <2>2, <2>3, <2>5
  <2> QED
    BY <2>4, <2>5
<1>4. CASE app' = Off
  <2>1. DOMAIN app' = AppFields /\ app'.at = "off" /\ app'.current = Defaults /\ app'.form = Defaults
        /\ app'.next = Defaults
    BY <1>4, DefaultsFacts
  <2>2. SettingsTypeOK'
    BY <1>1, <1>2, <1>3, <2>1, DefaultsFacts DEF SettingsInv, SettingsTypeOK
  <2>3. ("edit" \notin settingsScene => FileFollows)'
    BY <1>1, <2>1 DEF SettingsInv, FileFollows, Saving, Read
  <2>4. SecretsFollow'
    BY <1>1, <1>3, <2>1 DEF SecretsFollow, Saving, Names
  <2> QED
    BY <2>2, <2>3, <2>4 DEF SettingsInv
<1>5. CASE app' # Off
  <2>1. /\ DOMAIN app' = AppFields /\ app'.at = "up" /\ app'.current = app.next /\ app'.form = app.form
        /\ app'.next = app.next
    BY <1>2, <1>5 DEF Applies, AppFields
  <2>2. SettingsTypeOK'
    BY <1>1, <1>2, <1>3, <2>1 DEF SettingsInv, SettingsTypeOK
  <2>3. ("edit" \notin settingsScene => FileFollows)'
    BY <1>1, <2>1 DEF SettingsInv, FileFollows, Saving, Read
  <2>4. SecretsFollow'
    BY <1>1, <1>3, <2>1 DEF SecretsFollow, Saving, Names
  <2> QED
    BY <2>2, <2>3, <2>4 DEF SettingsInv
<1> QED
  BY <1>4, <1>5

LEMMA FailsStep == SettingsInv /\ SaveFails => SettingsInv'
<1> SUFFICES ASSUME SettingsInv, SaveFails PROVE SettingsInv'
  OBVIOUS
<1>1. /\ app.at \in {"write", "written", "rename"}
      /\ UNCHANGED <<settingsScene, settingsFile, settingsTmp, corrupt, vault, answered, secretTold, attempted>>
  BY DEF SaveFails
<1>2. CASE app' = Off
  BY <1>1, <1>2, OffStep
<1>3. CASE app' # Off
  <2>1. /\ DOMAIN app' = AppFields /\ app'.at = "up" /\ app'.current = app.current /\ app'.form = app.form
        /\ app'.next = app.next
    BY <1>3 DEF SaveFails, AppFields, SettingsInv, SettingsTypeOK
  <2>2. SettingsTypeOK'
    BY <1>1, <2>1 DEF SettingsInv, SettingsTypeOK
  <2>3. ("edit" \notin settingsScene => FileFollows)'
    BY <1>1, <2>1 DEF SettingsInv, FileFollows, Saving, Read
  <2>4. SecretsFollow'
    BY <1>1, <2>1 DEF SettingsInv, SecretsFollow, Saving, Names
  <2> QED
    BY <2>2, <2>3, <2>4 DEF SettingsInv
<1> QED
  BY <1>2, <1>3

LEMMA EditedStep == SettingsInv /\ EditsByHand => SettingsInv'
<1> SUFFICES ASSUME SettingsInv, EditsByHand PROVE SettingsInv'
  OBVIOUS
<1>1. /\ app.at = "off" /\ "edit" \in settingsScene /\ settingsFile' = Unreadable
      /\ answered' = Defaults /\ attempted' = Defaults /\ secretTold' = [s \in SecretSlots |-> "?"]
      /\ UNCHANGED <<settingsScene, settingsTmp, corrupt, vault, app>>
  BY DEF EditsByHand
<1>2. SettingsTypeOK'
  BY <1>1, DefaultsFacts DEF SettingsInv, SettingsTypeOK
<1>3. SecretsFollow'
  BY <1>1, SecretValuesAssumption DEF SecretsFollow, Saving, NotSet
<1> QED
  BY <1>1, <1>2, <1>3 DEF SettingsInv

\* The commands that leave the secrets alone.
LEMMA PlainStep ==
    ASSUME SettingsInv, NEW next, NEW doing, Updates(next, doing), next \in SettingsRows,
           next.secrets = app.current.secrets, doing[1] \notin {"secret", "forget"},
           UNCHANGED <<vault, secretTold>>
    PROVE  SettingsInv'
<1>1. \A slot \in SecretSlots : Names(app.current, slot, vault[slot]) => Names(next, slot, vault[slot])
  BY DEF Names
<1> QED
  BY <1>1, UpdatesStep DEF SettingsInv, SettingsTypeOK

LEMMA SecretSetStep ==
    ASSUME SettingsInv, NEW slot \in SecretSlots, NEW value \in SecretValues, SecretSet(slot, value)
    PROVE  SettingsInv'
<1> DEFINE next == [app.current EXCEPT !.secrets = Pushed(@, [slot |-> slot, masked |-> value])]
           doing == <<"secret", slot, value>>
<1>1. app.current \in SettingsRows
  BY DEF SettingsInv, SettingsTypeOK
<1>2. /\ Updates(next, doing)
      /\ vault' = [vault EXCEPT ![slot] = value] /\ secretTold' = [secretTold EXCEPT ![slot] = "?"]
  BY DEF SecretSet
<1>3. next \in SettingsRows /\ next.secrets = Pushed(app.current.secrets, [slot |-> slot, masked |-> value])
  BY <1>1 DEF SettingsRows, Pushed
<1>4. /\ vault' \in [SecretSlots -> SecretValues \union {NotSet}] /\ vault'[slot] = value
      /\ secretTold' \in [SecretSlots -> SecretValues \union {NotSet, "?"}] /\ secretTold'[slot] = "?"
      /\ \A s \in SecretSlots : s # slot => vault'[s] = vault[s] /\ secretTold'[s] = secretTold[s]
  BY <1>2 DEF SettingsInv, SettingsTypeOK
<1>5. doing[1] = "secret" /\ doing[2] = slot /\ doing[3] = value
  OBVIOUS
<1> HIDE DEF next, doing
<1>6. \A s \in SecretSlots : \A v : s # slot /\ Names(app.current, s, v) => Names(next, s, v)
  BY <1>3 DEF Names, Pushed, SameSlot
<1>7. Names(next, slot, value)
  <2> DEFINE new == [slot |-> slot, masked |-> value]
  <2>1. new.slot = slot /\ new.masked = value
    OBVIOUS
  <2>2. next.secrets = {r \in app.current.secrets : ~SameSlot(r, new)} \union {new}
    BY <1>3 DEF Pushed
  <2> HIDE DEF new
  <2> QED
    BY <2>1, <2>2 DEF Names, SameSlot
<1> QED
  BY <1>2, <1>3, <1>4, <1>5, <1>6, <1>7, UpdatesStep

LEMMA SecretDeleteStep ==
    ASSUME SettingsInv, NEW slot \in SecretSlots, SecretDelete(slot)
    PROVE  SettingsInv'
<1> DEFINE next == [app.current EXCEPT !.secrets = {r \in @ : r.slot # slot}]
           doing == <<"forget", slot, NotSet>>
<1>1. app.current \in SettingsRows
  BY DEF SettingsInv, SettingsTypeOK
<1>2. /\ Updates(next, doing)
      /\ vault' = [vault EXCEPT ![slot] = NotSet] /\ secretTold' = [secretTold EXCEPT ![slot] = "?"]
  BY DEF SecretDelete
<1>3. next \in SettingsRows /\ next.secrets = {r \in app.current.secrets : r.slot # slot}
  BY <1>1 DEF SettingsRows
<1>4. /\ vault' \in [SecretSlots -> SecretValues \union {NotSet}] /\ vault'[slot] = NotSet
      /\ secretTold' \in [SecretSlots -> SecretValues \union {NotSet, "?"}] /\ secretTold'[slot] = "?"
      /\ \A s \in SecretSlots : s # slot => vault'[s] = vault[s] /\ secretTold'[s] = secretTold[s]
  BY <1>2 DEF SettingsInv, SettingsTypeOK
<1>5. doing[1] = "forget" /\ doing[2] = slot /\ doing[3] = NotSet
  OBVIOUS
<1> HIDE DEF next, doing
<1>6. \A s \in SecretSlots : \A v : s # slot /\ Names(app.current, s, v) => Names(next, s, v)
  BY <1>3 DEF Names
<1> QED
  BY <1>2, <1>3, <1>4, <1>5, <1>6, UpdatesStep

LEMMA CommandStep ==
    ASSUME SettingsInv,
           SettingsSave \/ SettingsReset \/ OnboardingDone \/ LastTeam \/ ToggleMute \/ RememberRunning
    PROVE  SettingsInv'
<1>1. app.current \in SettingsRows /\ app.form \in SettingsRows
  BY DEF SettingsInv, SettingsTypeOK
<1>2. CASE SettingsSave
  <2>1. PICK days \in 0..2, relaunch \in BOOLEAN :
          Updates(FromForm(app.current, [app.form EXCEPT !.days = days, !.relaunch = relaunch]), <<"form">>)
    BY <1>2 DEF SettingsSave
  <2> DEFINE form == [app.form EXCEPT !.days = days, !.relaunch = relaunch]
             next == FromForm(app.current, form)
  <2>2. form \in SettingsRows
    <3>1. days \in Int
      OBVIOUS
    <3>2. [app.form EXCEPT !.days = days] \in SettingsRows
      BY <1>1, <3>1 DEF SettingsRows
    <3>3. \A s \in SettingsRows : [s EXCEPT !.relaunch = relaunch] \in SettingsRows
      BY DEF SettingsRows
    <3>4. form = [[app.form EXCEPT !.days = days] EXCEPT !.relaunch = relaunch]
      OBVIOUS
    <3> QED
      BY <3>2, <3>3, <3>4
  <2> HIDE DEF form
  <2>3. next \in SettingsRows /\ next.secrets = app.current.secrets
    BY <1>1, <2>2 DEF FromForm, SettingsRows
  <2>4. <<"form">>[1] \notin {"secret", "forget"} /\ Updates(next, <<"form">>)
    BY <2>1 DEF form
  <2> HIDE DEF next
  <2> QED
    BY <1>2, <2>3, <2>4, PlainStep DEF SettingsSave
<1>3. CASE SettingsReset
  <2> DEFINE next == Reset(app.current)
  <2>1. next \in SettingsRows /\ next.secrets = app.current.secrets
    <3>1. Defaults \in SettingsRows
      BY DefaultsFacts
    <3> QED
      BY <1>1, <3>1 DEF Reset, SettingsRows
  <2>2. <<"reset">>[1] \notin {"secret", "forget"} /\ Updates(next, <<"reset">>)
    BY <1>3 DEF SettingsReset
  <2> HIDE DEF next
  <2> QED
    BY <1>3, <2>1, <2>2, PlainStep DEF SettingsReset
<1>4. CASE OnboardingDone
  <2> DEFINE next == [app.current EXCEPT !.onboarding = TRUE]
  <2>1. next \in SettingsRows /\ next.secrets = app.current.secrets
    BY <1>1 DEF SettingsRows
  <2>2. <<"onboarding">>[1] \notin {"secret", "forget"} /\ Updates(next, <<"onboarding">>)
    BY <1>4 DEF OnboardingDone
  <2> HIDE DEF next
  <2> QED
    BY <1>4, <2>1, <2>2, PlainStep DEF OnboardingDone
<1>5. CASE LastTeam
  <2>1. PICK t \in ShownTeams \union {NotSet} : Updates([app.current EXCEPT !.lastTeam = t], <<"team">>)
    BY <1>5 DEF LastTeam
  <2> DEFINE next == [app.current EXCEPT !.lastTeam = t]
  <2>2. next \in SettingsRows /\ next.secrets = app.current.secrets
    BY <1>1 DEF SettingsRows
  <2>3. <<"team">>[1] \notin {"secret", "forget"} /\ Updates(next, <<"team">>)
    BY <2>1
  <2> HIDE DEF next
  <2> QED
    BY <1>5, <2>2, <2>3, PlainStep DEF LastTeam
<1>6. CASE ToggleMute
  <2> DEFINE next == [app.current EXCEPT !.muted = ~@]
  <2>1. next \in SettingsRows /\ next.secrets = app.current.secrets
    BY <1>1 DEF SettingsRows
  <2>2. <<"mute">>[1] \notin {"secret", "forget"} /\ Updates(next, <<"mute">>)
    BY <1>6 DEF ToggleMute
  <2> HIDE DEF next
  <2> QED
    BY <1>6, <2>1, <2>2, PlainStep DEF ToggleMute
<1>7. CASE RememberRunning
  <2>1. PICK running \in SUBSET RunningAgents : Updates([app.current EXCEPT !.running = running], <<"quit">>)
    BY <1>7 DEF RememberRunning
  <2> DEFINE next == [app.current EXCEPT !.running = running]
  <2>2. next \in SettingsRows /\ next.secrets = app.current.secrets
    BY <1>1 DEF SettingsRows
  <2>3. <<"quit">>[1] \notin {"secret", "forget"} /\ Updates(next, <<"quit">>)
    BY <2>1
  <2> HIDE DEF next
  <2> QED
    BY <1>7, <2>2, <2>3, PlainStep DEF RememberRunning
<1> QED
  BY <1>2, <1>3, <1>4, <1>5, <1>6, <1>7

LEMMA SettingsInitInv == SettingsInit => SettingsInv
<1> SUFFICES ASSUME SettingsInit PROVE SettingsInv
  OBVIOUS
<1>1. /\ settingsFile = NoSettings /\ settingsTmp = NoSettings /\ app = Off
      /\ answered = Defaults /\ attempted = Defaults
      /\ \A slot \in SecretSlots : vault[slot] = NotSet /\ secretTold[slot] = NotSet
  BY DEF SettingsInit
<1>2. SettingsTypeOK
  BY <1>1, DefaultsFacts DEF SettingsInit, SettingsTypeOK
<1>3. FileFollows
  BY <1>1, DefaultsFacts DEF FileFollows, Read, Saving
<1>4. SecretsFollow
  BY <1>1, DefaultsFacts, SecretValuesAssumption DEF SecretsFollow, Saving
<1> QED
  BY <1>2, <1>3, <1>4 DEF SettingsInv

LEMMA SettingsInvStep == SettingsInv /\ [SettingsNext]_settingsVars => SettingsInv'
<1> SUFFICES ASSUME SettingsInv, [SettingsNext]_settingsVars PROVE SettingsInv'
  OBVIOUS
<1>1. CASE UNCHANGED settingsVars
  BY <1>1 DEF settingsVars, SettingsInv, SettingsTypeOK, FileFollows, SecretsFollow, Read, Saving
<1>2. CASE LogStarts \/ HubStarts
  BY <1>2, LoadsStep DEF LogStarts, HubStarts
<1>3. CASE AppDies
  BY <1>3, OffStep DEF AppDies
<1>4. CASE \E s \in SecretSlots : SecretDelete(s) \/ \E v \in SecretValues : SecretSet(s, v)
  BY <1>4, SecretDeleteStep, SecretSetStep
<1> QED
  BY <1>1, <1>2, <1>3, <1>4, ServesStep, OpensStep, CommandStep, TmpStep, AppliesStep, FailsStep, EditedStep
     DEF SettingsNext

\* What the user was told is kept, is kept: a program that dies at any point of a
\* save leaves the settings of before or of after, and the secrets a user was told
\* are kept are given (SettingsFile::save, commands/settings.rs).
THEOREM PreferencesHoldAlways == SettingsSpec => []PreferencesHold
<1>1. SettingsInv => PreferencesHold
  <2> SUFFICES ASSUME SettingsInv PROVE PreferencesHold
    OBVIOUS
  <2>1. RestartKeepsSettings
    BY DEF SettingsInv, SettingsTypeOK, FileFollows, RestartKeepsSettings, Saving
  <2>2. ASSUME app.at = "up", NEW s \in SecretSlots, secretTold[s] \in SecretValues
        PROVE  /\ <<s, secretTold[s]>> \in SecretEnv
               /\ \A r \in app.current.secrets : r.slot = s => r.masked = secretTold[s]
    <3>1. vault[s] = secretTold[s] /\ Names(app.current, s, vault[s])
      BY <2>2 DEF SettingsInv, SecretsFollow
    <3> QED
      BY <2>2, <3>1, SecretValuesAssumption DEF Names, SecretEnv
  <2>3. ASSUME NEW s \in SecretSlots, secretTold[s] = NotSet, NEW v \in SecretValues
        PROVE  <<s, v>> \notin SecretEnv
    BY <2>3 DEF SettingsInv, SecretsFollow, SecretEnv
  <2> QED
    BY <2>1, <2>2, <2>3 DEF PreferencesHold, ToldSecretsAreGiven
<1> QED
  BY <1>1, SettingsInitInv, SettingsInvStep, PTL DEF SettingsSpec

------------------------------------------------------------------------------
(* Teams: whoever a call was to start has a process, or is reported, or ended   *)
(* of something else; and whoever was retired is killed and waits for no start, *)
(* unless a start overlapped it.                                                *)

\* The requests while they are worked on, and what is known of the agents.
TeamPlaces == {"list", "stop", "start", "read", "registered", "retire", "stopping", "bench",
               "shelve", "refused", "done"}
TeamCalls == [op : TeamOps, agent : Agents, at : TeamPlaces, todo : Seq(Agents),
              targets : SUBSET Agents, failures : SUBSET Agents]
AgentRecords == [state : {"stopped", "running", "failed"}, asked : BOOLEAN, scheduled : BOOLEAN,
                 session : Nat, proc : {"none", "own", "stale"}, told : SUBSET Nat]
AgentsTyped == [Agents -> AgentRecords]
RestartsTyped == [Agents -> {"none", "due", "read", "registered"}]
TeamTypeOK ==
    /\ members \subseteq Agents /\ agents \in AgentsTyped /\ restarts \in RestartsTyped
    /\ calls \in [DOMAIN calls -> TeamCalls] /\ DOMAIN calls \subseteq Nat \ {Policy}

\* The starts that have registered; whoever does is in charge until its spawn.
Spawning(c, a) == c.at = "registered" /\ Head(c.todo) = a
Registering(a) ==
    {i \in DOMAIN calls : Spawning(calls[i], a)}
        \cup (IF restarts[a] = "registered" THEN {Policy} ELSE {})
\* An agent whose starts did not overlap: one at a time, and none beside a process.
Tidy(a) ==
    /\ \A w, v \in InFlight(a) : w = v
    /\ \A w \in Registering(a) :
          Running(a) /\ agents[a].session = w /\ ~agents[a].scheduled
    /\ Up(a) => /\ Running(a) /\ agents[a].proc = "own" /\ ~agents[a].scheduled
                /\ InFlight(a) = {}
\* Who will not come up again, and is told to go.
PutDown(a) == \/ a \in loose
              \/ /\ InFlight(a) = {} /\ agents[a].asked /\ ~agents[a].scheduled
                 /\ Up(a) => agents[a].told # {}
\* Who is not down of what call i did.
Answered(i, a) == \/ Up(a) /\ i \notin agents[a].told
                  \/ \E e \in ended : e[1] = a /\ e[2] # {i}

\* Which calls come to which place, and what those that are not in todo are by then.
PlacesOf(c) ==
    /\ c.at \in {"start", "read", "registered"} => c.op \in {"start", "restart"}
    /\ c.at = "stop" => c.op \in {"stop", "archive", "restart"}
    /\ c.at = "shelve" => c.op = "archive"
    /\ c.at \in {"retire", "stopping", "bench"} => c.op \in {"delete", "retire"}
    /\ c.at \in {"read", "registered", "stopping", "bench"} => c.todo # <<>>
StartsSoFar(i, c) ==
    /\ c.at \in {"start", "read", "registered"} =>
         \A a \in c.targets : a \in ToSet(c.todo) \cup c.failures \/ Answered(i, a)
    /\ c.at = "done" /\ c.op \in {"start", "restart"} =>
         \A a \in c.targets : a \in c.failures \/ Answered(i, a)
DeletesAll(c) ==
    c.at \in {"retire", "stopping", "bench"} /\ c.op = "delete" => members \subseteq c.targets
TeamCallSound(i, c) == PlacesOf(c) /\ StartsSoFar(i, c) /\ DeletesAll(c)

\* Those whose row is gone or about to go.
Away(a) == a \notin members \/ \E i \in DOMAIN calls : a \in Retired(calls[i])
TeamInv ==
    /\ TeamTypeOK
    /\ \A i \in DOMAIN calls : TeamCallSound(i, calls[i])
    /\ \A a \in Agents \ loose : Tidy(a)
    /\ \A a \in Agents : Away(a) => PutDown(a)

\* What a call is owed stays so.
Steady(i) == \A a \in Agents : Answered(i, a) => Answered(i, a)'

LEMMA TodoFacts ==
    ASSUME NEW S, NEW s \in Seq(S), s # <<>>
    PROVE  /\ Head(s) \in S /\ Tail(s) \in Seq(S) /\ Head(s) \in ToSet(s)
           /\ \A a \in ToSet(s) : a = Head(s) \/ a \in ToSet(Tail(s))
<1>1. Head(s) = s[1] /\ 1 \in DOMAIN s /\ Tail(s) \in Seq(S) /\ s[1] \in S
  OBVIOUS
<1>2. ASSUME NEW k \in DOMAIN s, k # 1 PROVE \E l \in DOMAIN Tail(s) : Tail(s)[l] = s[k]
  <2>1. k - 1 \in DOMAIN Tail(s) /\ Tail(s)[k - 1] = s[k]
    BY <1>2
  <2> QED
    BY <2>1
<1> QED
  BY <1>1, <1>2 DEF ToSet

LEMMA NoTodo == <<>> \in Seq(Agents)
OBVIOUS

LEMMA InOrderFacts ==
    ASSUME NEW set \in SUBSET Agents
    PROVE  InOrder(set) \in Seq(Agents) /\ set \subseteq ToSet(InOrder(set))
<1>1. Order \in Seq(Agents)
  BY OrderAssumption DEF Agents
<1>2. InOrder(set) \in Seq(Agents)
  BY <1>1, SiftedIsThinned DEF InOrder
<1>3. \A i \in DOMAIN Order : Order[i] \in set =>
          \E j \in DOMAIN InOrder(set) : InOrder(set)[j] = Order[i]
  BY <1>1, SiftedHas DEF InOrder
<1>4. \A a \in set : \E i \in DOMAIN Order : Order[i] = a
  BY DEF Agents, ToSet
<1> QED
  BY <1>2, <1>3, <1>4 DEF ToSet

\* Which starts a step of a call leaves under way, and whom it has retired.
LEMMA CallFlights ==
    ASSUME TeamTypeOK, NEW i \in DOMAIN calls, NEW c \in TeamCalls, StepsThrough(i, c)
    PROVE  /\ calls' \in [DOMAIN calls -> TeamCalls] /\ DOMAIN calls' = DOMAIN calls
           /\ calls'[i] = c /\ \A k \in DOMAIN calls : k # i => calls'[k] = calls[k]
           /\ i # Policy
           /\ restarts' = restarts => \A a \in Agents :
                /\ InFlight(a)' = (InFlight(a) \ {i}) \cup (IF Starting(c, a) THEN {i} ELSE {})
                /\ Registering(a)'
                     = (Registering(a) \ {i}) \cup (IF Spawning(c, a) THEN {i} ELSE {})
           /\ \A a \in Agents : (\E k \in DOMAIN calls' : a \in Retired(calls'[k])) =>
                a \in Retired(c) \/ \E k \in DOMAIN calls : a \in Retired(calls[k])
<1>1. calls \in [DOMAIN calls -> TeamCalls] /\ i # Policy
  BY DEF TeamTypeOK
<1>2. /\ calls' \in [DOMAIN calls -> TeamCalls] /\ DOMAIN calls' = DOMAIN calls
      /\ calls'[i] = c /\ \A k \in DOMAIN calls : k # i => calls'[k] = calls[k]
  BY <1>1 DEF StepsThrough
<1>3. ASSUME restarts' = restarts, NEW a \in Agents
      PROVE  InFlight(a)' = (InFlight(a) \ {i}) \cup (IF Starting(c, a) THEN {i} ELSE {})
  <2>1. {k \in DOMAIN calls' : Starting(calls'[k], a)}
          = ({k \in DOMAIN calls : Starting(calls[k], a)} \ {i})
              \cup (IF Starting(c, a) THEN {i} ELSE {})
    <3>1. \A k \in DOMAIN calls : k # i => (Starting(calls'[k], a) <=> Starting(calls[k], a))
      BY <1>2, Zenon
    <3>2. Starting(calls'[i], a) <=> Starting(c, a)
      BY <1>2, Zenon
    <3> QED
      BY <1>2, <3>1, <3>2
  <2> QED
    BY <1>1, <1>3, <2>1 DEF InFlight
<1>4. ASSUME restarts' = restarts, NEW a \in Agents
      PROVE  Registering(a)'
               = (Registering(a) \ {i}) \cup (IF Spawning(c, a) THEN {i} ELSE {})
  <2>1. {k \in DOMAIN calls' : Spawning(calls'[k], a)}
          = ({k \in DOMAIN calls : Spawning(calls[k], a)} \ {i})
              \cup (IF Spawning(c, a) THEN {i} ELSE {})
    <3>1. \A k \in DOMAIN calls : k # i => (Spawning(calls'[k], a) <=> Spawning(calls[k], a))
      BY <1>2, Zenon
    <3>2. Spawning(calls'[i], a) <=> Spawning(c, a)
      BY <1>2, Zenon
    <3> QED
      BY <1>2, <3>1, <3>2
  <2> QED
    BY <1>1, <1>4, <2>1 DEF Registering
<1>5. ASSUME NEW a \in Agents, NEW k \in DOMAIN calls', a \in Retired(calls'[k])
      PROVE  a \in Retired(c) \/ \E l \in DOMAIN calls : a \in Retired(calls[l])
  BY <1>2, <1>5, Zenon
<1> QED
  BY <1>1, <1>2, <1>3, <1>4, <1>5

\* A step of a call, and of no call.
LEMMA CallSteps ==
    ASSUME TeamInv, NEW i \in DOMAIN calls, NEW c \in TeamCalls, StepsThrough(i, c),
           TeamCallSound(i, c)', members' \subseteq members, agents' \in AgentsTyped,
           restarts' = restarts,
           \A k \in DOMAIN calls : k # i => Steady(k),
           \A a \in Agents \ loose' : Tidy(a)',
           \A a \in Agents : Away(a)' => PutDown(a)'
    PROVE  TeamInv'
<1>1. calls \in [DOMAIN calls -> TeamCalls] /\ members \subseteq Agents /\ TeamTypeOK
  BY DEF TeamInv, TeamTypeOK
<1>2. /\ calls' \in [DOMAIN calls -> TeamCalls] /\ DOMAIN calls' = DOMAIN calls
      /\ calls'[i] = c /\ \A k \in DOMAIN calls : k # i => calls'[k] = calls[k]
  BY <1>1, CallFlights
<1>3. ASSUME NEW k \in DOMAIN calls, k # i PROVE TeamCallSound(k, calls[k])'
  <2>1. PICK d : d = calls[k]
    OBVIOUS
  <2>2. d \in TeamCalls /\ TeamCallSound(k, d) /\ calls'[k] = d /\ d.targets \subseteq Agents
    BY <1>1, <1>2, <1>3, <2>1 DEF TeamInv, TeamCalls
  <2>3. TeamCallSound(k, d)'
    BY <1>3, <2>2 DEF TeamCallSound, PlacesOf, StartsSoFar, DeletesAll, Steady
  <2> QED
    BY <2>2, <2>3 DEF TeamCallSound, PlacesOf, StartsSoFar, DeletesAll
<1>4. TeamCallSound(i, calls[i])'
  BY <1>2 DEF TeamCallSound, PlacesOf, StartsSoFar, DeletesAll
<1>5. TeamTypeOK'
  BY <1>1, <1>2 DEF TeamTypeOK
<1> QED
  BY <1>2, <1>3, <1>4, <1>5 DEF TeamInv

LEMMA AgentSteps ==
    ASSUME TeamInv, UNCHANGED <<calls, members>>, agents' \in AgentsTyped,
           restarts' \in RestartsTyped, \A k \in DOMAIN calls : Steady(k),
           \A a \in Agents \ loose' : Tidy(a)',
           \A a \in Agents : PutDown(a) => PutDown(a)'
    PROVE  TeamInv'
<1>1. TeamTypeOK /\ TeamTypeOK'
  BY DEF TeamInv, TeamTypeOK
<1>2. ASSUME NEW k \in DOMAIN calls PROVE TeamCallSound(k, calls[k])'
  <2>1. PICK d : d = calls[k]
    OBVIOUS
  <2>2. d \in TeamCalls /\ TeamCallSound(k, d) /\ calls'[k] = d /\ d.targets \subseteq Agents
    BY <1>1, <1>2, <2>1 DEF TeamInv, TeamTypeOK, TeamCalls
  <2>3. TeamCallSound(k, d)'
    BY <1>2, <2>2 DEF TeamCallSound, PlacesOf, StartsSoFar, DeletesAll, Steady
  <2> QED
    BY <2>2, <2>3 DEF TeamCallSound, PlacesOf, StartsSoFar, DeletesAll
<1>3. \A a \in Agents : Away(a)' => Away(a)
  BY DEF Away, Retired
<1> QED
  BY <1>1, <1>2, <1>3 DEF TeamInv

\* What is done to one agent leaves the others as they are.
OthersStay(a) ==
    /\ loose \subseteq loose' /\ \A e \in ended : e[1] # a => e \in ended'
    /\ \A b \in Agents : b # a => /\ agents'[b] = agents[b]
                                  /\ InFlight(b)' = InFlight(b)
                                  /\ Registering(b)' = Registering(b)
LEMMA OneAgent ==
    ASSUME TeamInv, NEW a \in Agents, OthersStay(a)
    PROVE  /\ \A b \in Agents \ loose' : b # a => Tidy(b)'
           /\ \A b \in Agents : b # a /\ PutDown(b) => PutDown(b)'
<1>1. ASSUME NEW b \in Agents \ loose', b # a PROVE Tidy(b)'
  <2>1. Tidy(b) /\ agents'[b] = agents[b]
        /\ InFlight(b)' = InFlight(b) /\ Registering(b)' = Registering(b)
    BY <1>1 DEF TeamInv, OthersStay
  <2> QED
    BY <2>1 DEF Tidy, Up, Running
<1>2. ASSUME NEW b \in Agents, b # a, PutDown(b) PROVE PutDown(b)'
  <2>1. agents'[b] = agents[b] /\ InFlight(b)' = InFlight(b) /\ loose \subseteq loose'
    BY <1>2 DEF OthersStay
  <2> QED
    BY <1>2, <2>1 DEF PutDown, Up
<1> QED
  BY <1>1, <1>2
LEMMA OneAnswer ==
    ASSUME NEW a \in Agents, OthersStay(a), NEW k, Answered(k, a) => Answered(k, a)'
    PROVE  Steady(k)
<1>1. ASSUME NEW b \in Agents, b # a, Answered(k, b) PROVE Answered(k, b)'
  <2>1. agents'[b] = agents[b] /\ \A e \in ended : e[1] = b => e \in ended'
    BY <1>1 DEF OthersStay
  <2> QED
    BY <1>1, <2>1 DEF Answered, Up
<1> QED
  BY <1>1 DEF Steady

LEMMA WhoRegistersIsInFlight ==
    ASSUME NEW a \in Agents PROVE Registering(a) \subseteq InFlight(a)
BY DEF Registering, InFlight, Spawning, Starting

\* A stop by call i; a start that gives up or is refused; one that registers;
\* and one that spawns.
LEMMA StopEffect ==
    ASSUME TeamInv, NEW i \in DOMAIN calls, NEW a \in Agents, Stop(i, a), ended' = ended,
           loose \subseteq loose',
           \A b \in Agents : InFlight(b)' = InFlight(b) /\ Registering(b)' = Registering(b)
    PROVE  /\ agents' \in AgentsTyped
           /\ \A k \in DOMAIN calls : k # i => Steady(k)
           /\ \A b \in Agents \ loose' : Tidy(b)'
           /\ \A b \in Agents : PutDown(b) => PutDown(b)'
           /\ InFlight(a) = {} \/ a \in loose' => PutDown(a)'
<1>1. agents \in AgentsTyped /\ i \in Nat
  BY DEF TeamInv, TeamTypeOK
<1>2. PICK told \in SUBSET Nat :
        /\ agents[a].told \subseteq told /\ told \subseteq agents[a].told \cup {i}
        /\ Running(a) /\ Up(a) => i \in told
        /\ agents' = [agents EXCEPT ![a] =
              [@ EXCEPT !.asked = TRUE, !.scheduled = FALSE,
                        !.state = IF Running(a) THEN "running" ELSE "stopped", !.told = told]]
  <2>1. agents[a].told \in SUBSET Nat
    BY <1>1 DEF AgentsTyped, AgentRecords
  <2> DEFINE told == agents[a].told \cup (IF Running(a) /\ Up(a) THEN {i} ELSE {})
  <2>2. told \in SUBSET Nat
    BY <1>1, <2>1
  <2> QED
    BY <2>1, <2>2 DEF Stop
<1>3. /\ agents' \in AgentsTyped /\ \A b \in Agents : b # a => agents'[b] = agents[b]
      /\ agents'[a].asked /\ ~agents'[a].scheduled /\ agents'[a].told = told
      /\ agents'[a].session = agents[a].session /\ agents'[a].proc = agents[a].proc
      /\ Running(a) => Running(a)'
  BY <1>1, <1>2 DEF AgentsTyped, AgentRecords, Running
<1>4. OthersStay(a) /\ (Up(a)' <=> Up(a))
  BY <1>3 DEF OthersStay, Up
<1>5. ASSUME a \notin loose' PROVE Tidy(a)'
  <2>1. Tidy(a)
    BY <1>4, <1>5 DEF TeamInv, OthersStay
  <2> QED
    BY <1>3, <1>4, <2>1 DEF Tidy
<1>6. InFlight(a) = {} \/ a \in loose' => PutDown(a)'
  <2>1. CASE a \in loose'
    BY <2>1 DEF PutDown
  <2>2. CASE InFlight(a) = {} /\ a \notin loose'
    <3>1. Up(a) => Running(a)
      BY <1>4, <2>2 DEF TeamInv, OthersStay, Tidy
    <3> QED
      BY <1>2, <1>3, <1>4, <2>2, <3>1 DEF PutDown
  <2> QED
    BY <2>1, <2>2
<1>7. PutDown(a) => PutDown(a)'
  BY <1>4, <1>6 DEF PutDown, OthersStay
<1>8. ASSUME NEW k \in DOMAIN calls, k # i PROVE Steady(k)
  <2>1. Answered(k, a) => Answered(k, a)'
    BY <1>2, <1>3, <1>4, <1>8 DEF Answered
  <2> QED
    BY <1>4, <2>1, OneAnswer
<1> QED
  BY <1>3, <1>4, <1>5, <1>6, <1>7, <1>8, OneAgent

LEMMA GiveUpEffect ==
    ASSUME TeamInv, NEW a \in Agents, NEW w \in InFlight(a), GivesUp(a),
           UNCHANGED <<loose, ended>>,
           \A b \in Agents : /\ InFlight(b)' = IF b = a THEN InFlight(b) \ {w} ELSE InFlight(b)
                             /\ Registering(b)'
                                  = IF b = a THEN Registering(b) \ {w} ELSE Registering(b)
    PROVE  /\ agents' \in AgentsTyped /\ \A k \in DOMAIN calls : Steady(k)
           /\ \A b \in Agents \ loose' : Tidy(b)'
           /\ \A b \in Agents : PutDown(b) => PutDown(b)'
<1>1. agents \in AgentsTyped
  BY DEF TeamInv, TeamTypeOK
<1>2. /\ agents' \in AgentsTyped /\ \A b \in Agents : b # a => agents'[b] = agents[b]
      /\ agents'[a].proc = agents[a].proc /\ agents'[a].told = agents[a].told
  BY <1>1 DEF GivesUp, AgentsTyped, AgentRecords
<1>3. OthersStay(a) /\ (Up(a)' <=> Up(a))
  BY <1>2 DEF OthersStay, Up
<1>4. ASSUME a \notin loose' PROVE Tidy(a)'
  <2>1. Tidy(a) /\ InFlight(a)' = {} /\ Registering(a)' = {}
    BY <1>4, WhoRegistersIsInFlight DEF TeamInv, Tidy
  <2>2. ~Up(a)
    BY <2>1 DEF Tidy
  <2> QED
    BY <1>3, <2>1, <2>2 DEF Tidy
<1>5. PutDown(a) => PutDown(a)'
  BY DEF PutDown
<1>6. ASSUME NEW k \in DOMAIN calls PROVE Steady(k)
  <2>1. Answered(k, a) => Answered(k, a)'
    BY <1>2, <1>3 DEF Answered
  <2> QED
    BY <1>3, <2>1, OneAnswer
<1> QED
  BY <1>2, <1>3, <1>4, <1>5, <1>6, OneAgent

LEMMA RegisterEffect ==
    ASSUME TeamInv, NEW a \in Agents, NEW w \in InFlight(a), w \in Nat, Registers(a, w),
           UNCHANGED <<loose, ended>>,
           \A b \in Agents : /\ InFlight(b)' = InFlight(b)
                             /\ Registering(b)'
                                  = IF b = a THEN Registering(b) \cup {w} ELSE Registering(b)
    PROVE  /\ agents' \in AgentsTyped /\ \A k \in DOMAIN calls : Steady(k)
           /\ \A b \in Agents \ loose' : Tidy(b)'
           /\ \A b \in Agents : PutDown(b) => PutDown(b)'
<1>1. agents \in AgentsTyped
  BY DEF TeamInv, TeamTypeOK
<1>2. /\ agents' \in AgentsTyped /\ \A b \in Agents : b # a => agents'[b] = agents[b]
      /\ agents'[a].state = "running" /\ agents'[a].session = w /\ ~agents'[a].scheduled
      /\ agents'[a].told = agents[a].told
      /\ agents'[a].proc = IF agents[a].proc = "none" THEN "none" ELSE "stale"
  BY <1>1 DEF Registers, AgentsTyped, AgentRecords, Up
<1>3. OthersStay(a) /\ (Up(a)' <=> Up(a))
  BY <1>2 DEF OthersStay, Up
<1>4. ASSUME a \notin loose' PROVE Tidy(a)'
  <2>1. Tidy(a) /\ \A v \in InFlight(a) : v = w
    BY <1>4 DEF TeamInv, Tidy
  <2>2. ~Up(a) /\ \A v \in Registering(a)' : v = w
    BY <2>1, WhoRegistersIsInFlight DEF Tidy
  <2> QED
    BY <1>2, <1>3, <2>1, <2>2 DEF Tidy, Running
<1>5. PutDown(a) => PutDown(a)'
  BY DEF PutDown
<1>6. ASSUME NEW k \in DOMAIN calls PROVE Steady(k)
  <2>1. Answered(k, a) => Answered(k, a)'
    BY <1>2, <1>3 DEF Answered
  <2> QED
    BY <1>3, <2>1, OneAnswer
<1> QED
  BY <1>2, <1>3, <1>4, <1>5, <1>6, OneAgent

LEMMA ComesUpEffect ==
    ASSUME TeamInv, NEW a \in Agents, NEW w \in Registering(a), ComesUp(a, w), loose' = loose,
           \A b \in Agents : /\ InFlight(b)' = IF b = a THEN InFlight(b) \ {w} ELSE InFlight(b)
                             /\ Registering(b)'
                                  = IF b = a THEN Registering(b) \ {w} ELSE Registering(b)
    PROVE  /\ agents' \in AgentsTyped /\ \A k \in DOMAIN calls : Steady(k)
           /\ \A b \in Agents \ loose' : Tidy(b)'
           /\ \A b \in Agents : PutDown(b) => PutDown(b)'
           /\ \A k \in DOMAIN calls : Answered(k, a)'
<1>1. agents \in AgentsTyped /\ w \in InFlight(a)
  BY WhoRegistersIsInFlight DEF TeamInv, TeamTypeOK
<1>2. PICK proc \in {"own", "stale"} :
        /\ agents[a].session = w => proc = "own"
        /\ agents' = [agents EXCEPT ![a] = [@ EXCEPT !.proc = proc, !.told = {}]]
  BY DEF ComesUp
<1>3. /\ agents' \in AgentsTyped /\ \A b \in Agents : b # a => agents'[b] = agents[b]
      /\ agents'[a].state = agents[a].state /\ agents'[a].scheduled = agents[a].scheduled
      /\ agents'[a].told = {} /\ agents'[a].proc = proc
  BY <1>1, <1>2 DEF AgentsTyped, AgentRecords
<1>4. OthersStay(a)
  BY <1>3 DEF OthersStay, ComesUp
<1>5. ASSUME a \notin loose' PROVE Tidy(a)'
  <2>1. Tidy(a)
    BY <1>5 DEF TeamInv
  <2>2. InFlight(a)' = {} /\ Registering(a)' = {}
    BY <1>1, <2>1, WhoRegistersIsInFlight DEF Tidy
  <2>3. Running(a)' /\ ~agents'[a].scheduled /\ agents'[a].proc = "own"
    BY <1>2, <1>3, <2>1 DEF Tidy, Running
  <2> QED
    BY <2>2, <2>3 DEF Tidy
<1>6. PutDown(a) => PutDown(a)'
  BY <1>1 DEF PutDown
<1>7. \A k \in DOMAIN calls : Answered(k, a)'
  BY <1>3 DEF Answered, Up
<1>8. \A k \in DOMAIN calls : Steady(k)
  BY <1>4, <1>7, OneAnswer
<1> QED
  BY <1>3, <1>4, <1>5, <1>6, <1>7, <1>8, OneAgent

LEMMA NothingStirs ==
    ASSUME TeamInv, UNCHANGED <<agents, loose, ended>>
    PROVE  agents' \in AgentsTyped /\ \A k : Steady(k)
BY DEF TeamInv, TeamTypeOK, Steady, Answered, Up

LEMMA AwayFacts ==
    ASSUME TeamInv, NEW i \in DOMAIN calls, NEW c \in TeamCalls, StepsThrough(i, c),
           NEW a \in Agents, Away(a)'
    PROVE  a \in Retired(c) \/ a \in members \ members' \/ Away(a)
<1>1. (\E k \in DOMAIN calls' : a \in Retired(calls'[k])) =>
          a \in Retired(c) \/ \E k \in DOMAIN calls : a \in Retired(calls[k])
  BY CallFlights DEF TeamInv
<1>2. a \notin members' \/ \E k \in DOMAIN calls' : a \in Retired(calls'[k])
  BY DEF Away, Retired
<1> QED
  BY <1>1, <1>2 DEF Away

\* A call that goes on without a start under way: nothing is in flight but what was.
LEMMA FlightsStay ==
    ASSUME TeamInv, NEW i \in DOMAIN calls, NEW c \in TeamCalls, StepsThrough(i, c),
           restarts' = restarts,
           calls[i].at \notin {"read", "registered"}, c.at \notin {"read", "registered"}
    PROVE  \A b \in Agents : InFlight(b)' = InFlight(b) /\ Registering(b)' = Registering(b)
<1> TAKE a \in Agents
<1>1. /\ InFlight(a)' = InFlight(a) \ {i} /\ Registering(a)' = Registering(a) \ {i}
      /\ i # Policy
  BY CallFlights DEF TeamInv, Starting, Spawning
<1>2. i \notin InFlight(a) /\ i \notin Registering(a)
  BY <1>1 DEF InFlight, Registering, Starting, Spawning
<1> QED
  BY <1>1, <1>2

\* A step of a call that stirs no agent, and neither begins nor ends a start.
LEMMA QuietSteps ==
    ASSUME TeamInv, NEW i \in DOMAIN calls, NEW c \in TeamCalls, StepsThrough(i, c),
           UNCHANGED <<agents, restarts, loose, ended>>, members' \subseteq members,
           calls[i].at \notin {"read", "registered"}, c.at \notin {"read", "registered"},
           TeamCallSound(i, c)',
           \A a \in Agents : a \in Retired(c) \/ a \in members \ members' => PutDown(a)
    PROVE  TeamInv'
<1>2. \A a \in Agents : InFlight(a)' = InFlight(a) /\ Registering(a)' = Registering(a)
  BY FlightsStay
<1>3. ASSUME NEW a \in Agents \ loose' PROVE Tidy(a)'
  <2>1. Tidy(a)
    BY <1>3 DEF TeamInv
  <2> QED
    BY <1>2, <2>1 DEF Tidy, Up, Running
<1>4. ASSUME NEW a \in Agents, Away(a)' PROVE PutDown(a)'
  <2>1. PutDown(a)
    BY <1>4, AwayFacts DEF TeamInv
  <2> QED
    BY <1>2, <2>1 DEF PutDown, Up
<1> QED
  BY <1>3, <1>4, NothingStirs, CallSteps

LEMMA ListStep == ASSUME TeamInv, NEW i \in DOMAIN calls, List(i) PROVE TeamInv'
<1>1. calls[i] \in TeamCalls /\ members \subseteq Agents /\ calls[i].at = "list"
  BY DEF TeamInv, TeamTypeOK, List
<1>2. UNCHANGED <<members, agents, restarts, loose, ended>>
  BY DEF List
<1>3. CASE Moves(i, "refused", <<>>)
  <2>1. PICK c : c = [calls[i] EXCEPT !.at = "refused", !.todo = <<>>]
    OBVIOUS
  <2>2. c \in TeamCalls /\ c.at = "refused"
    BY <1>1, <2>1, NoTodo DEF TeamCalls, TeamPlaces
  <2>3. TeamCallSound(i, c)' /\ Retired(c) = {}
    BY <2>2 DEF TeamCallSound, PlacesOf, StartsSoFar, DeletesAll, Retired
  <2> QED
    BY <1>1, <1>2, <1>3, <2>1, <2>2, <2>3, QuietSteps DEF Moves
<1>4. ASSUME NEW first \in {"stop", "start", "retire"}, NEW targets \in SUBSET Agents,
             StepsThrough(i, [calls[i] EXCEPT !.at = first, !.todo = InOrder(targets),
                                              !.targets = targets]),
             first = "stop" => calls[i].op \in {"stop", "archive", "restart"},
             first = "start" => calls[i].op \in {"start", "restart"},
             first = "retire" => calls[i].op \in {"delete", "retire"},
             first = "retire" /\ calls[i].op = "delete" => members' \subseteq targets
      PROVE  TeamInv'
  <2>1. PICK c : c = [calls[i] EXCEPT !.at = first, !.todo = InOrder(targets), !.targets = targets]
    OBVIOUS
  <2>2. InOrder(targets) \in Seq(Agents) /\ targets \subseteq ToSet(InOrder(targets))
    BY InOrderFacts
  <2>3. /\ c \in TeamCalls /\ c.at = first /\ c.targets = targets /\ c.op = calls[i].op
        /\ c.targets \subseteq ToSet(c.todo)
    BY <1>1, <2>1, <2>2 DEF TeamCalls, TeamPlaces
  <2>4. TeamCallSound(i, c)' /\ Retired(c) = {}
    BY <1>4, <2>3 DEF TeamCallSound, PlacesOf, StartsSoFar, DeletesAll, Retired
  <2> QED
    BY <1>1, <1>2, <1>4, <2>1, <2>3, <2>4, QuietSteps
<1>5. Alive \in SUBSET Agents /\ StartTargets \in SUBSET Agents
  BY <1>1 DEF Alive, StartTargets
<1>7. CASE ~Moves(i, "refused", <<>>)
  <2> DEFINE op == calls[i].op
             restart == op = "restart" /\ Alive # {}
             targets == CASE op \in {"stop", "archive"} \/ restart -> Alive
                          [] op = "start" \/ (op = "restart" /\ Alive = {}) -> StartTargets
                          [] op = "delete" -> members
                          [] OTHER -> {calls[i].agent} \cap members
             first == IF op \in {"stop", "archive"} \/ restart THEN "stop"
                      ELSE IF op \in {"start", "restart"} THEN "start"
                      ELSE "retire"
  <2>1. StepsThrough(i, [calls[i] EXCEPT !.at = first, !.todo = InOrder(targets),
                                         !.targets = targets])
    BY <1>7 DEF List
  <2>2. op \in TeamOps
    BY <1>1 DEF TeamCalls
  <2>3. targets \in SUBSET Agents /\ (op = "delete" => targets = members)
    BY <1>1, <1>5, <2>2 DEF TeamOps
  <2>4. /\ first \in {"stop", "start", "retire"}
        /\ first = "stop" => op \in {"stop", "archive", "restart"}
        /\ first = "start" => op \in {"start", "restart"}
        /\ first = "retire" => op \in {"delete", "retire"}
    BY <2>2 DEF TeamOps
  <2> HIDE DEF targets, first
  <2> QED
    BY <1>2, <1>4, <2>1, <2>3, <2>4
<1> QED
  BY <1>3, <1>7

LEMMA StopsStep ==
    ASSUME TeamInv, NEW i \in DOMAIN calls, StopNext(i) \/ Stopped(i) PROVE TeamInv'
<1>1. calls[i] \in TeamCalls /\ TeamCallSound(i, calls[i]) /\ calls[i].at = "stop"
  BY DEF TeamInv, TeamTypeOK, StopNext, Stopped
<1>2. calls[i].op \in {"stop", "archive", "restart"}
  BY <1>1 DEF TeamCallSound, PlacesOf
<1>3. CASE StopNext(i)
  <2>1. calls[i].todo \in Seq(Agents) /\ calls[i].todo # <<>>
    BY <1>1, <1>3 DEF TeamCalls, StopNext
  <2>2. Head(calls[i].todo) \in Agents /\ Tail(calls[i].todo) \in Seq(Agents)
    BY <2>1, TodoFacts
  <2>3. PICK c : c = [calls[i] EXCEPT !.at = "stop", !.todo = Tail(calls[i].todo)]
    OBVIOUS
  <2>4. c \in TeamCalls /\ c.at = "stop" /\ c.op = calls[i].op /\ StepsThrough(i, c)
    BY <1>1, <1>3, <2>2, <2>3 DEF TeamCalls, TeamPlaces, StopNext, Moves
  <2>5. TeamCallSound(i, c)' /\ Retired(c) = {}
    BY <1>2, <2>4 DEF TeamCallSound, PlacesOf, StartsSoFar, DeletesAll, Retired
  <2>6. UNCHANGED <<members, restarts, loose, ended>> /\ Stop(i, Head(calls[i].todo))
    BY <1>3 DEF StopNext
  <2>7. /\ agents' \in AgentsTyped
        /\ \A k \in DOMAIN calls : k # i => Steady(k)
        /\ \A b \in Agents \ loose' : Tidy(b)'
        /\ \A b \in Agents : PutDown(b) => PutDown(b)'
    BY <1>1, <2>2, <2>4, <2>6, FlightsStay, StopEffect
  <2>8. \A a \in Agents : Away(a)' => Away(a)
    BY <2>4, <2>5, <2>6, AwayFacts
  <2> QED
    BY <2>4, <2>5, <2>6, <2>7, <2>8, CallSteps DEF TeamInv
<1>4. CASE Stopped(i)
  <2>1. UNCHANGED <<members, agents, restarts, loose, ended>>
    BY <1>4 DEF Stopped
  <2>2. calls[i].targets \in SUBSET Agents
    BY <1>1 DEF TeamCalls
  <2>3. /\ InOrder(calls[i].targets) \in Seq(Agents)
        /\ calls[i].targets \subseteq ToSet(InOrder(calls[i].targets))
    BY <2>2, InOrderFacts
  <2>4. PICK at, todo : /\ Moves(i, at, todo) /\ todo \in Seq(Agents)
                        /\ \/ at = "start" /\ calls[i].op = "restart"
                                /\ calls[i].targets \subseteq ToSet(todo)
                           \/ at = "shelve" /\ calls[i].op = "archive"
                           \/ at = "done" /\ calls[i].op = "stop"
    <3>1. CASE calls[i].op = "restart"
      BY <1>4, <2>3, <3>1 DEF Stopped
    <3>2. CASE calls[i].op = "archive"
      <4>1. Moves(i, "shelve", <<>>) /\ <<>> \in Seq(Agents)
        BY <1>4, <3>2 DEF Stopped
      <4> QED
        BY <3>2, <4>1
    <3>3. CASE calls[i].op = "stop"
      <4>1. Moves(i, "done", <<>>) /\ <<>> \in Seq(Agents)
        BY <1>4, <3>3 DEF Stopped
      <4> QED
        BY <3>3, <4>1
    <3> QED
      BY <1>2, <3>1, <3>2, <3>3
  <2>5. PICK c : c = [calls[i] EXCEPT !.at = at, !.todo = todo]
    OBVIOUS
  <2>6. /\ c \in TeamCalls /\ c.at = at /\ c.todo = todo /\ c.op = calls[i].op
        /\ c.targets = calls[i].targets
    BY <1>1, <2>4, <2>5 DEF TeamCalls, TeamPlaces
  <2>7. TeamCallSound(i, c)' /\ Retired(c) = {} /\ c.at \notin {"read", "registered"}
    BY <2>4, <2>6 DEF TeamCallSound, PlacesOf, StartsSoFar, DeletesAll, Retired
  <2> QED
    BY <1>1, <2>1, <2>4, <2>5, <2>6, <2>7, QuietSteps DEF Moves
<1> QED
  BY <1>3, <1>4

\* The row was read, and then: call i as it goes on, after a start that failed.
LEMMA ReportStep ==
    ASSUME TeamInv, NEW i \in DOMAIN calls, calls[i].at \in {"start", "read", "registered"},
           calls[i].todo # <<>>, Reports(i, Head(calls[i].todo))
    PROVE  \E c \in TeamCalls :
             /\ StepsThrough(i, c) /\ c.at = "start" /\ Retired(c) = {}
             /\ Steady(i) /\ members' = members => TeamCallSound(i, c)'
<1>1. calls[i] \in TeamCalls /\ TeamCallSound(i, calls[i])
  BY DEF TeamInv, TeamTypeOK
<1> PICK a, rest : a = Head(calls[i].todo) /\ rest = Tail(calls[i].todo)
  OBVIOUS
<1>2. calls[i].todo \in Seq(Agents)
  BY <1>1 DEF TeamCalls
<1>3. a \in Agents /\ rest \in Seq(Agents) /\ \A b \in ToSet(calls[i].todo) : b = a \/ b \in ToSet(rest)
  BY <1>2, TodoFacts
<1>4. PICK c : c = [calls[i] EXCEPT !.at = "start", !.todo = rest,
                                    !.failures = calls[i].failures \cup {a}]
  OBVIOUS
<1>5. /\ c \in TeamCalls /\ c.at = "start" /\ c.todo = rest /\ c.op = calls[i].op
      /\ c.targets = calls[i].targets /\ c.failures = calls[i].failures \cup {a}
  BY <1>1, <1>3, <1>4 DEF TeamCalls, TeamPlaces
<1>6. StepsThrough(i, c)
  BY <1>4 DEF Reports
<1>7. ASSUME Steady(i), members' = members PROVE TeamCallSound(i, c)'
  <2>1. \A b \in c.targets : b \in ToSet(c.todo) \cup c.failures \/ Answered(i, b)'
    BY <1>1, <1>3, <1>5, <1>7 DEF TeamCallSound, StartsSoFar, Steady, TeamCalls
  <2> QED
    BY <1>1, <1>5, <2>1 DEF TeamCallSound, PlacesOf, StartsSoFar, DeletesAll
<1> QED
  BY <1>5, <1>6, <1>7 DEF Retired

\* The start of the head of the list goes on to another place.
LEMMA OnwardStep ==
    ASSUME TeamInv, NEW i \in DOMAIN calls, calls[i].at \in {"start", "read"},
           calls[i].todo # <<>>, NEW at \in {"read", "registered"}, Moves(i, at, calls[i].todo)
    PROVE  \E c \in TeamCalls :
             /\ StepsThrough(i, c) /\ c.at = at /\ c.todo = calls[i].todo /\ Retired(c) = {}
             /\ Steady(i) /\ members' = members => TeamCallSound(i, c)'
<1>1. calls[i] \in TeamCalls /\ TeamCallSound(i, calls[i])
  BY DEF TeamInv, TeamTypeOK
<1>2. PICK c : c = [calls[i] EXCEPT !.at = at, !.todo = calls[i].todo]
  OBVIOUS
<1>3. /\ c \in TeamCalls /\ c.at = at /\ c.todo = calls[i].todo /\ c.op = calls[i].op
      /\ c.targets = calls[i].targets /\ c.failures = calls[i].failures
  BY <1>1, <1>2 DEF TeamCalls, TeamPlaces
<1>4. StepsThrough(i, c)
  BY <1>2 DEF Moves
<1>5. ASSUME Steady(i), members' = members PROVE TeamCallSound(i, c)'
  <2>1. \A b \in c.targets : b \in ToSet(c.todo) \cup c.failures \/ Answered(i, b)'
    BY <1>1, <1>3, <1>5 DEF TeamCallSound, StartsSoFar, Steady, TeamCalls
  <2> QED
    BY <1>1, <1>3, <2>1 DEF TeamCallSound, PlacesOf, StartsSoFar, DeletesAll
<1> QED
  BY <1>3, <1>4, <1>5 DEF Retired

LEMMA StartBeginsStep == ASSUME TeamInv, NEW i \in DOMAIN calls, StartBegins(i) PROVE TeamInv'
<1> PICK a : a = Head(calls[i].todo)
  OBVIOUS
<1>1. /\ calls[i].at = "start" /\ calls[i].todo # <<>> /\ calls[i] \in TeamCalls
      /\ UNCHANGED <<members, agents, restarts, ended>>
  BY DEF StartBegins, TeamInv, TeamTypeOK
<1>2. calls[i].todo \in Seq(Agents) /\ a \in Agents
  BY <1>1, TodoFacts DEF TeamCalls
<1>3. agents' \in AgentsTyped /\ \A k : Steady(k)
  BY <1>1 DEF TeamInv, TeamTypeOK, Steady, Answered, Up
<1>4. CASE Starts(a)
  <2>1. Loosens(a, InFlight(a)) /\ Moves(i, "read", calls[i].todo)
    BY <1>4 DEF StartBegins
  <2>2. PICK c \in TeamCalls :
          /\ StepsThrough(i, c) /\ c.at = "read" /\ c.todo = calls[i].todo /\ Retired(c) = {}
          /\ TeamCallSound(i, c)'
    BY <1>1, <1>3, <2>1, OnwardStep
  <2>3. i \notin InFlight(a) /\ i # Policy
    BY <1>1 DEF InFlight, Starting, TeamInv, TeamTypeOK
  <2>4. i \notin Registering(a)
    BY <2>3, <1>2, WhoRegistersIsInFlight
  <2>5. \A b \in Agents :
          /\ InFlight(b)' = IF b = a THEN InFlight(b) \cup {i} ELSE InFlight(b)
          /\ Registering(b)' = Registering(b)
    <3> TAKE b \in Agents
    <3>1. /\ InFlight(b)' = (InFlight(b) \ {i}) \cup (IF Starting(c, b) THEN {i} ELSE {})
          /\ Registering(b)' = (Registering(b) \ {i}) \cup (IF Spawning(c, b) THEN {i} ELSE {})
      BY <1>1, <2>2, CallFlights DEF TeamInv
    <3>2. i \notin InFlight(b) /\ i \notin Registering(b)
      BY <1>1, <2>3 DEF InFlight, Registering, Starting, Spawning
    <3>3. (Starting(c, b) <=> b = a) /\ ~Spawning(c, b)
      BY <2>2 DEF Starting, Spawning
    <3> QED
      BY <3>1, <3>2, <3>3
  <2>6. a \in loose' \/ ~Up(a)
    <3>1. ASSUME a \notin loose' PROVE ~Up(a)
      BY <1>2, <1>4, <2>1, <3>1 DEF TeamInv, Tidy, Starts, Loosens
    <3> QED
      BY <3>1
  <2>7. OthersStay(a)
    BY <1>1, <2>1, <2>5 DEF OthersStay, Loosens
  <2>8. ASSUME a \notin loose' PROVE Tidy(a)' /\ ~Away(a)'
    <3>1. InFlight(a) = {} /\ Registering(a) = {} /\ ~Up(a)
          /\ \A k \in DOMAIN calls : a \notin Retired(calls[k])
      BY <1>2, <2>1, <2>6, <2>8, WhoRegistersIsInFlight DEF Loosens
    <3>2. InFlight(a)' = {i} /\ Registering(a)' = {} /\ ~Up(a)'
      BY <1>1, <1>2, <2>5, <3>1 DEF Up
    <3>3. ~Away(a)'
      BY <1>1, <1>2, <1>4, <2>2, <3>1, AwayFacts DEF Away, Starts
    <3> QED
      BY <3>2, <3>3 DEF Tidy
  <2>9. \A b \in Agents \ loose' : Tidy(b)'
    BY <2>7, <2>8, <1>2, OneAgent
  <2>10. ASSUME NEW b \in Agents, Away(b)' PROVE PutDown(b)'
    <3>1. CASE b = a
      BY <2>8, <2>10, <3>1 DEF PutDown
    <3>2. CASE b # a
      <4>1. PutDown(b)
        BY <1>1, <2>2, <2>10, AwayFacts DEF TeamInv
      <4> QED
        BY <1>2, <2>7, <3>2, <4>1, OneAgent
    <3> QED
      BY <3>1, <3>2
  <2> QED
    BY <1>1, <1>3, <2>2, <2>9, <2>10, CallSteps
<1>5. CASE ~Starts(a)
  <2>1. loose' = loose /\ Reports(i, a)
    BY <1>5 DEF StartBegins
  <2>2. PICK c \in TeamCalls : StepsThrough(i, c) /\ c.at = "start" /\ Retired(c) = {}
                               /\ TeamCallSound(i, c)'
    BY <1>1, <1>3, <2>1, ReportStep
  <2> QED
    BY <1>1, <2>1, <2>2, QuietSteps
<1> QED
  BY <1>4, <1>5

LEMMA StartRegistersStep ==
    ASSUME TeamInv, NEW i \in DOMAIN calls, StartRegisters(i) \/ StartSpawns(i) PROVE TeamInv'
<1> PICK a : a = Head(calls[i].todo)
  OBVIOUS
<1>1. /\ calls[i].at \in {"read", "registered"} /\ calls[i] \in TeamCalls
      /\ UNCHANGED <<members, restarts, loose>> /\ TeamCallSound(i, calls[i])
      /\ i \in Nat /\ i # Policy
  BY DEF StartRegisters, StartSpawns, TeamInv, TeamTypeOK
<1>2. /\ calls[i].todo \in Seq(Agents) /\ calls[i].todo # <<>> /\ a \in Agents
      /\ Tail(calls[i].todo) \in Seq(Agents)
      /\ \A b \in ToSet(calls[i].todo) : b = a \/ b \in ToSet(Tail(calls[i].todo))
  BY <1>1, TodoFacts DEF TeamCalls, TeamCallSound, PlacesOf
<1>3. /\ i \in InFlight(a)
      /\ calls[i].at = "registered" => i \in Registering(a)
      /\ \A b \in Agents : b # a => i \notin InFlight(b) /\ i \notin Registering(b)
  BY <1>1 DEF InFlight, Registering, Starting, Spawning
\* What is in flight when the start is over, and when it has registered.
<1>4. ASSUME NEW c \in TeamCalls, StepsThrough(i, c), c.at = "start"
      PROVE  \A b \in Agents :
               /\ InFlight(b)' = IF b = a THEN InFlight(b) \ {i} ELSE InFlight(b)
               /\ Registering(b)' = IF b = a THEN Registering(b) \ {i} ELSE Registering(b)
  <2> TAKE b \in Agents
  <2>1. InFlight(b)' = InFlight(b) \ {i} /\ Registering(b)' = Registering(b) \ {i}
    BY <1>1, <1>4, CallFlights DEF TeamInv, Starting, Spawning
  <2> QED
    BY <1>3, <2>1
<1>5. ASSUME NEW c \in TeamCalls, StepsThrough(i, c), c.at = "registered", c.todo = calls[i].todo
      PROVE  \A b \in Agents :
               /\ InFlight(b)' = InFlight(b)
               /\ Registering(b)' = IF b = a THEN Registering(b) \cup {i} ELSE Registering(b)
  <2> TAKE b \in Agents
  <2>1. /\ InFlight(b)' = (InFlight(b) \ {i}) \cup (IF Starting(c, b) THEN {i} ELSE {})
        /\ Registering(b)' = (Registering(b) \ {i}) \cup (IF Spawning(c, b) THEN {i} ELSE {})
    BY <1>1, <1>5, CallFlights DEF TeamInv
  <2>2. (Starting(c, b) <=> b = a) /\ (Spawning(c, b) <=> b = a)
    BY <1>5 DEF Starting, Spawning
  <2> QED
    BY <1>3, <2>1, <2>2
\* Each outcome: the agent, and the call.
<1>6. ASSUME NEW c \in TeamCalls, StepsThrough(i, c), Retired(c) = {}, TeamCallSound(i, c)',
             agents' \in AgentsTyped, \A k \in DOMAIN calls : Steady(k),
             \A b \in Agents \ loose' : Tidy(b)', \A b \in Agents : PutDown(b) => PutDown(b)'
      PROVE  TeamInv'
  <2>1. \A b \in Agents : Away(b)' => Away(b)
    BY <1>1, <1>6, AwayFacts
  <2> QED
    BY <1>1, <1>6, <2>1, CallSteps DEF TeamInv
<1>7. CASE GivesUp(a) /\ ended' = ended /\ Reports(i, a)
  <2>1. PICK c \in TeamCalls :
          /\ StepsThrough(i, c) /\ c.at = "start" /\ Retired(c) = {}
          /\ Steady(i) /\ members' = members => TeamCallSound(i, c)'
    BY <1>1, <1>2, <1>7, ReportStep
  <2>2. /\ agents' \in AgentsTyped
        /\ \A k \in DOMAIN calls : Steady(k)
        /\ \A b \in Agents \ loose' : Tidy(b)'
        /\ \A b \in Agents : PutDown(b) => PutDown(b)'
    BY <1>1, <1>2, <1>3, <1>4, <1>7, <2>1, GiveUpEffect
  <2> QED
    BY <1>1, <1>6, <2>1, <2>2
<1>8. CASE Registers(a, i) /\ ended' = ended /\ Moves(i, "registered", calls[i].todo)
           /\ calls[i].at = "read"
  <2>1. PICK c \in TeamCalls :
          /\ StepsThrough(i, c) /\ c.at = "registered" /\ c.todo = calls[i].todo
          /\ Retired(c) = {}
          /\ Steady(i) /\ members' = members => TeamCallSound(i, c)'
    BY <1>1, <1>2, <1>8, OnwardStep
  <2>2. /\ agents' \in AgentsTyped
        /\ \A k \in DOMAIN calls : Steady(k)
        /\ \A b \in Agents \ loose' : Tidy(b)'
        /\ \A b \in Agents : PutDown(b) => PutDown(b)'
    BY <1>1, <1>2, <1>3, <1>5, <1>8, <2>1, RegisterEffect
  <2> QED
    BY <1>1, <1>6, <2>1, <2>2
<1>9. CASE ComesUp(a, i) /\ Moves(i, "start", Tail(calls[i].todo)) /\ calls[i].at = "registered"
  <2>1. PICK c : c = [calls[i] EXCEPT !.at = "start", !.todo = Tail(calls[i].todo)]
    OBVIOUS
  <2>2. /\ c \in TeamCalls /\ c.at = "start" /\ c.todo = Tail(calls[i].todo)
        /\ c.op = calls[i].op /\ c.targets = calls[i].targets /\ c.failures = calls[i].failures
        /\ StepsThrough(i, c) /\ Retired(c) = {}
    BY <1>1, <1>2, <1>9, <2>1 DEF TeamCalls, TeamPlaces, Moves, Retired
  <2>3. /\ agents' \in AgentsTyped
        /\ \A k \in DOMAIN calls : Steady(k)
        /\ \A b \in Agents \ loose' : Tidy(b)'
        /\ \A b \in Agents : PutDown(b) => PutDown(b)'
        /\ Answered(i, a)'
    BY <1>1, <1>2, <1>3, <1>4, <1>9, <2>2, ComesUpEffect
  <2>4. \A b \in c.targets : b \in ToSet(c.todo) \cup c.failures \/ Answered(i, b)'
    BY <1>1, <1>2, <1>9, <2>2, <2>3 DEF TeamCallSound, StartsSoFar, Steady, TeamCalls
  <2>5. TeamCallSound(i, c)'
    BY <1>1, <2>2, <2>4 DEF TeamCallSound, PlacesOf, StartsSoFar, DeletesAll
  <2> QED
    BY <1>6, <2>2, <2>3, <2>5
<1>10. CASE StartRegisters(i)
  BY <1>7, <1>8, <1>10 DEF StartRegisters
<1>11. CASE StartSpawns(i)
  BY <1>7, <1>9, <1>11 DEF StartSpawns, SpawnFails, GivesUp
<1> QED
  BY <1>10, <1>11

LEMMA StartsDoneStep == ASSUME TeamInv, NEW i \in DOMAIN calls, StartsDone(i) PROVE TeamInv'
<1>1. /\ calls[i] \in TeamCalls /\ TeamCallSound(i, calls[i]) /\ calls[i].at = "start"
      /\ calls[i].todo = <<>> /\ ToSet(<<>>) = {} /\ <<>> \in Seq(Agents)
      /\ UNCHANGED <<members, agents, restarts, loose, ended>>
  BY DEF TeamInv, TeamTypeOK, StartsDone, ToSet
<1>2. PICK c : c = [calls[i] EXCEPT !.at = "done", !.todo = <<>>]
  OBVIOUS
<1>3. /\ c \in TeamCalls /\ c.at = "done" /\ c.op = calls[i].op /\ StepsThrough(i, c)
      /\ c.targets = calls[i].targets /\ c.failures = calls[i].failures /\ Retired(c) = {}
  BY <1>1, <1>2 DEF TeamCalls, TeamPlaces, StartsDone, Moves, Retired
<1>4. \A a \in c.targets : a \in c.failures \/ Answered(i, a)
  BY <1>1, <1>3 DEF TeamCallSound, StartsSoFar
<1>5. TeamCallSound(i, c)'
  BY <1>1, <1>3, <1>4 DEF TeamCallSound, PlacesOf, StartsSoFar, DeletesAll, Answered, Up
<1> QED
  BY <1>1, <1>3, <1>5, QuietSteps

LEMMA RetiresStep ==
    ASSUME TeamInv, NEW i \in DOMAIN calls, RetireReads(i) \/ RetireStop(i) \/ RetireBench(i)
    PROVE  TeamInv'
<1> PICK a, rest : a = Head(calls[i].todo) /\ rest = Tail(calls[i].todo)
  OBVIOUS
<1>1. /\ calls[i] \in TeamCalls /\ TeamCallSound(i, calls[i])
      /\ calls[i].at \in {"retire", "stopping", "bench"} /\ calls[i].todo # <<>>
      /\ UNCHANGED <<members, restarts, ended>>
  BY DEF TeamInv, TeamTypeOK, RetireReads, RetireStop, RetireBench, TeamCallSound, PlacesOf
<1>2. /\ calls[i].op \in {"delete", "retire"} /\ calls[i].targets \in SUBSET Agents
      /\ calls[i].op = "delete" => members \subseteq calls[i].targets
      /\ calls[i].todo \in Seq(Agents)
  BY <1>1 DEF TeamCallSound, PlacesOf, DeletesAll, TeamCalls
<1>3. /\ a \in Agents /\ rest \in Seq(Agents)
      /\ \A b \in ToSet(calls[i].todo) : b = a \/ b \in ToSet(rest)
  BY <1>1, <1>2, TodoFacts
\* The call goes on; those it has stopped are the same, and the head after its stop.
<1>4. ASSUME NEW at \in {"retire", "stopping", "bench", "refused"}, NEW todo \in Seq(Agents),
             Moves(i, at, todo), at \in {"stopping", "bench"} => todo # <<>>
      PROVE  \E c \in TeamCalls : /\ StepsThrough(i, c) /\ c.at = at /\ c.todo = todo
                                  /\ c.targets = calls[i].targets /\ TeamCallSound(i, c)'
  <2>1. PICK c : c = [calls[i] EXCEPT !.at = at, !.todo = todo]
    OBVIOUS
  <2>2. /\ c \in TeamCalls /\ c.at = at /\ c.op = calls[i].op /\ c.todo = todo
        /\ c.targets = calls[i].targets /\ StepsThrough(i, c)
    BY <1>1, <1>4, <2>1 DEF TeamCalls, TeamPlaces, Moves
  <2>3. TeamCallSound(i, c)'
    BY <1>1, <1>2, <1>4, <2>2 DEF TeamCallSound, PlacesOf, StartsSoFar, DeletesAll
  <2> QED
    BY <2>2, <2>3
<1>5. ASSUME NEW b \in Agents, NEW k \in DOMAIN calls, b \in Retired(calls[k]) PROVE PutDown(b)
  BY <1>5 DEF TeamInv, Away
<1>6. CASE RetireReads(i)
  <2>1. /\ UNCHANGED <<agents, loose>> /\ calls[i].at = "retire"
        /\ Moves(i, "stopping", calls[i].todo) \/ Moves(i, "refused", <<>>)
    BY <1>6 DEF RetireReads
  <2>2. CASE Moves(i, "stopping", calls[i].todo)
    <3>1. PICK c \in TeamCalls : /\ StepsThrough(i, c) /\ c.at = "stopping"
                                 /\ c.todo = calls[i].todo
                                 /\ c.targets = calls[i].targets /\ TeamCallSound(i, c)'
      BY <1>1, <1>2, <1>4, <2>2
    <3>2. Retired(c) = Retired(calls[i])
      BY <2>1, <3>1 DEF Retired
    <3> QED
      BY <1>1, <1>5, <2>1, <3>1, <3>2, QuietSteps
  <2>3. CASE Moves(i, "refused", <<>>)
    <3>1. PICK c \in TeamCalls : /\ StepsThrough(i, c) /\ c.at = "refused"
                                 /\ TeamCallSound(i, c)'
      BY <1>4, <2>3, NoTodo
    <3>2. Retired(c) = {}
      BY <3>1 DEF Retired
    <3> QED
      BY <1>1, <2>1, <3>1, <3>2, QuietSteps
  <2> QED
    BY <2>1, <2>2, <2>3
<1>7. CASE RetireStop(i)
  <2>1. /\ Stop(i, a) /\ calls[i].at = "stopping" /\ Moves(i, "bench", calls[i].todo)
        /\ loose' = IF InFlight(a) = {} THEN loose ELSE loose \cup {a}
    BY <1>7 DEF RetireStop
  <2>2. PICK c \in TeamCalls : /\ StepsThrough(i, c) /\ c.at = "bench" /\ c.todo = calls[i].todo
                               /\ c.targets = calls[i].targets /\ TeamCallSound(i, c)'
    BY <1>1, <1>2, <1>4, <2>1
  <2>3. /\ agents' \in AgentsTyped
        /\ \A k \in DOMAIN calls : k # i => Steady(k)
        /\ \A b \in Agents \ loose' : Tidy(b)'
        /\ \A b \in Agents : PutDown(b) => PutDown(b)'
        /\ PutDown(a)'
    BY <1>1, <1>3, <2>1, <2>2, FlightsStay, StopEffect
  <2>4. ASSUME NEW b \in Agents, b \in Retired(c) PROVE b = a \/ b \in Retired(calls[i])
    BY <1>3, <2>1, <2>2, <2>4 DEF Retired
  <2>5. ASSUME NEW b \in Agents, Away(b)' PROVE PutDown(b)'
    <3>1. b = a \/ Away(b)
      BY <1>1, <2>2, <2>4, <2>5, AwayFacts DEF Away
    <3> QED
      BY <2>3, <3>1 DEF TeamInv
  <2> QED
    BY <1>1, <2>2, <2>3, <2>5, CallSteps
<1>8. CASE RetireBench(i)
  <2>1. /\ UNCHANGED <<agents, loose>> /\ calls[i].at = "bench"
        /\ Moves(i, "retire", rest) \/ Moves(i, "refused", <<>>)
    BY <1>8 DEF RetireBench
  <2>2. CASE Moves(i, "retire", rest)
    <3>1. PICK c \in TeamCalls : /\ StepsThrough(i, c) /\ c.at = "retire" /\ c.todo = rest
                                 /\ c.targets = calls[i].targets /\ TeamCallSound(i, c)'
      BY <1>3, <1>4, <2>2
    <3>2. Retired(c) = Retired(calls[i])
      BY <2>1, <3>1 DEF Retired
    <3> QED
      BY <1>1, <1>5, <2>1, <3>1, <3>2, QuietSteps
  <2>3. CASE Moves(i, "refused", <<>>)
    <3>1. PICK c \in TeamCalls : /\ StepsThrough(i, c) /\ c.at = "refused"
                                 /\ TeamCallSound(i, c)'
      BY <1>4, <2>3, NoTodo
    <3>2. Retired(c) = {}
      BY <3>1 DEF Retired
    <3> QED
      BY <1>1, <2>1, <3>1, <3>2, QuietSteps
  <2> QED
    BY <2>1, <2>2, <2>3
<1> QED
  BY <1>6, <1>7, <1>8

LEMMA ShelveStep == ASSUME TeamInv, NEW i \in DOMAIN calls, Shelve(i) PROVE TeamInv'
<1>1. /\ calls[i] \in TeamCalls /\ TeamCallSound(i, calls[i]) /\ members \subseteq Agents
      /\ UNCHANGED <<agents, restarts, loose, ended>> /\ calls[i].at \in {"shelve", "retire"}
  BY DEF TeamInv, TeamTypeOK, Shelve
<1>2. /\ calls[i].op \notin {"start", "restart"} /\ members' \subseteq members
      /\ \A a \in members \ members' : PutDown(a)
  <2>1. CASE calls[i].at = "shelve"
    BY <1>1, <2>1 DEF Shelve, TeamCallSound, PlacesOf
  <2>2. CASE calls[i].at = "retire" /\ calls[i].todo = <<>>
    <3>1. /\ calls[i].op \in {"delete", "retire"} /\ ToSet(<<>>) = {}
          /\ calls[i].op = "delete" => members \subseteq calls[i].targets
      BY <1>1, <2>2 DEF TeamCallSound, PlacesOf, DeletesAll, ToSet
    <3>2. calls[i].targets = Retired(calls[i]) /\ calls[i].targets \subseteq Agents
      BY <1>1, <2>2, <3>1 DEF Retired, TeamCalls
    <3>3. \A a \in calls[i].targets : PutDown(a)
      BY <3>2 DEF TeamInv, Away
    <3> QED
      BY <3>1, <3>3 DEF Shelve
  <2> QED
    BY <2>1, <2>2 DEF Shelve
<1>3. PICK c : c = [calls[i] EXCEPT !.at = "done", !.todo = <<>>]
  OBVIOUS
<1>4. c \in TeamCalls /\ c.at = "done" /\ c.op = calls[i].op /\ StepsThrough(i, c)
  BY <1>1, <1>3, NoTodo DEF TeamCalls, TeamPlaces, Shelve, Moves
<1>5. TeamCallSound(i, c)' /\ Retired(c) = {}
  BY <1>2, <1>4 DEF TeamCallSound, PlacesOf, StartsSoFar, DeletesAll, Retired
<1> QED
  BY <1>1, <1>2, <1>4, <1>5, QuietSteps

LEMMA ExitStep == ASSUME TeamInv, NEW a \in Agents, Exit(a) PROVE TeamInv'
<1>1. agents \in AgentsTyped /\ Up(a) /\ UNCHANGED <<members, restarts, calls, loose>>
      /\ ended' = ended \cup {<<a, agents[a].told>>}
  BY DEF TeamInv, TeamTypeOK, Exit
<1>2. /\ agents' \in AgentsTyped /\ \A b \in Agents : b # a => agents'[b] = agents[b]
      /\ ~Up(a)' /\ agents'[a].asked = agents[a].asked
      /\ agents[a].asked /\ ~agents[a].scheduled => ~agents'[a].scheduled
  <2>1. CASE agents' = [agents EXCEPT ![a] = [@ EXCEPT !.proc = "none", !.told = {}]]
    BY <1>1, <2>1 DEF AgentsTyped, AgentRecords, Up
  <2>2. ASSUME NEW state \in {"stopped", "failed"}, agents[a].asked => state = "stopped",
               agents' = [agents EXCEPT ![a] = [@ EXCEPT !.proc = "none", !.told = {},
                              !.state = state, !.scheduled = state = "failed" /\ a \in Restarted]]
        PROVE  /\ agents' \in AgentsTyped /\ \A b \in Agents : b # a => agents'[b] = agents[b]
               /\ ~Up(a)' /\ agents'[a].asked = agents[a].asked
               /\ agents[a].asked /\ ~agents[a].scheduled => ~agents'[a].scheduled
    BY <1>1, <2>2 DEF AgentsTyped, AgentRecords, Up
  <2> QED
    BY <2>1, <2>2 DEF Exit
<1>3. \A b \in Agents : InFlight(b)' = InFlight(b) /\ Registering(b)' = Registering(b)
  BY <1>1 DEF InFlight, Registering
<1>4. OthersStay(a)
  BY <1>1, <1>2, <1>3 DEF OthersStay
<1>5. ASSUME a \notin loose' PROVE Tidy(a)'
  <2>1. InFlight(a) = {} /\ Registering(a) = {}
    BY <1>1, <1>5, WhoRegistersIsInFlight DEF TeamInv, Tidy
  <2> QED
    BY <1>2, <1>3, <2>1 DEF Tidy
<1>6. PutDown(a) => PutDown(a)'
  BY <1>1, <1>2, <1>3 DEF PutDown
<1>7. ASSUME NEW k PROVE Steady(k)
  <2>1. Answered(k, a) => Answered(k, a)'
    <3>1. ASSUME k \notin agents[a].told PROVE \E e \in ended' : e[1] = a /\ e[2] # {k}
      <4>1. <<a, agents[a].told>> \in ended' /\ agents[a].told # {k}
        BY <1>1, <3>1
      <4> QED
        BY <4>1
    <3>2. (\E e \in ended : e[1] = a /\ e[2] # {k}) => \E e \in ended' : e[1] = a /\ e[2] # {k}
      BY <1>1
    <3> QED
      BY <3>1, <3>2 DEF Answered
  <2> QED
    BY <1>4, <2>1, OneAnswer
<1>8. restarts' \in RestartsTyped
  BY <1>1 DEF TeamInv, TeamTypeOK
<1> QED
  BY <1>1, <1>2, <1>4, <1>5, <1>6, <1>7, <1>8, OneAgent, AgentSteps

\* Which starts are under way when a restart by policy goes on.
LEMMA RestartFlights ==
    ASSUME TeamInv, NEW a \in Agents, NEW at \in {"none", "due", "read", "registered"},
           restarts' = [restarts EXCEPT ![a] = at], calls' = calls
    PROVE  /\ restarts' \in RestartsTyped /\ Policy \in Nat
           /\ \A b \in Agents : b # a => /\ InFlight(b)' = InFlight(b)
                                         /\ Registering(b)' = Registering(b)
           /\ InFlight(a)' = (InFlight(a) \ {Policy}) \cup (IF at = "none" THEN {} ELSE {Policy})
           /\ Registering(a)'
                = (Registering(a) \ {Policy}) \cup (IF at = "registered" THEN {Policy} ELSE {})
           /\ restarts[a] # "none" <=> Policy \in InFlight(a)
           /\ restarts[a] = "registered" <=> Policy \in Registering(a)
<1>1. restarts \in RestartsTyped /\ DOMAIN calls \subseteq Nat \ {Policy} /\ Policy \in Nat
  BY DEF TeamInv, TeamTypeOK, Policy
<1>2. /\ restarts' \in RestartsTyped /\ restarts'[a] = at
      /\ \A b \in Agents : b # a => restarts'[b] = restarts[b]
  BY <1>1 DEF RestartsTyped
<1>3. Policy \notin {i \in DOMAIN calls : Starting(calls[i], a)}
      /\ Policy \notin {i \in DOMAIN calls : Spawning(calls[i], a)}
  BY <1>1
<1>4. \A b \in Agents : b # a => /\ InFlight(b)' = InFlight(b)
                                 /\ Registering(b)' = Registering(b)
  BY <1>2 DEF InFlight, Registering
<1> QED
  BY <1>1, <1>2, <1>3, <1>4 DEF InFlight, Registering

LEMMA RestartStep == ASSUME TeamInv, NEW a \in Agents, Restart(a) PROVE TeamInv'
<1>1. agents \in AgentsTyped /\ UNCHANGED <<members, calls>> /\ loose \subseteq loose'
  BY DEF TeamInv, TeamTypeOK, Restart, Due, RestartBegins, RestartRegisters, RestartSpawns,
         Loosens
<1>2. CASE Due(a)
  <2>1. /\ agents[a].scheduled /\ restarts' = [restarts EXCEPT ![a] = "due"] /\ ended' = ended
        /\ agents' = [agents EXCEPT ![a].scheduled = FALSE] /\ Loosens(a, InFlight(a))
        /\ restarts[a] = "none"
    BY <1>2 DEF Due
  <2>2. /\ agents' \in AgentsTyped /\ \A b \in Agents : b # a => agents'[b] = agents[b]
        /\ agents'[a].proc = agents[a].proc /\ agents'[a].told = agents[a].told
    BY <1>1, <2>1 DEF AgentsTyped, AgentRecords
  <2>3. /\ restarts' \in RestartsTyped
        /\ \A b \in Agents : b # a => /\ InFlight(b)' = InFlight(b)
                                      /\ Registering(b)' = Registering(b)
        /\ InFlight(a)' = InFlight(a) \cup {Policy} /\ Registering(a)' = Registering(a) \ {Policy}
    BY <1>1, <2>1, RestartFlights
  <2>4. OthersStay(a) /\ (Up(a)' <=> Up(a))
    BY <1>1, <2>1, <2>2, <2>3 DEF OthersStay, Up
  <2>5. ASSUME a \notin loose' PROVE Tidy(a)'
    <3>1. InFlight(a) = {} /\ Registering(a) = {} /\ ~Up(a)
      BY <1>1, <2>1, <2>5, WhoRegistersIsInFlight DEF TeamInv, Tidy, Loosens
    <3> QED
      BY <2>3, <2>4, <3>1 DEF Tidy
  <2>6. PutDown(a) => PutDown(a)'
    BY <1>1, <2>1 DEF PutDown
  <2>7. \A k : Steady(k)
    BY <2>1, <2>2, <2>4, OneAnswer DEF Answered
  <2> QED
    BY <1>1, <2>2, <2>3, <2>4, <2>5, <2>6, <2>7, OneAgent, AgentSteps
<1>3. CASE RestartBegins(a)
  <2>1. PICK at \in {"read", "none"} : restarts' = [restarts EXCEPT ![a] = at]
    BY <1>3 DEF RestartBegins
  <2>2. UNCHANGED <<agents, ended>> /\ restarts[a] = "due"
    BY <1>3 DEF RestartBegins
  <2>3. /\ restarts' \in RestartsTyped
        /\ \A b \in Agents : b # a => /\ InFlight(b)' = InFlight(b)
                                      /\ Registering(b)' = Registering(b)
        /\ InFlight(a)' \subseteq InFlight(a) /\ Registering(a)' = Registering(a)
    <3>1. /\ restarts' \in RestartsTyped
          /\ \A b \in Agents : b # a => /\ InFlight(b)' = InFlight(b)
                                        /\ Registering(b)' = Registering(b)
          /\ InFlight(a)' = (InFlight(a) \ {Policy}) \cup (IF at = "none" THEN {} ELSE {Policy})
          /\ Registering(a)' = Registering(a) \ {Policy}
          /\ Policy \in InFlight(a) /\ Policy \notin Registering(a)
      BY <1>1, <2>1, <2>2, RestartFlights
    <3> QED
      BY <3>1
  <2>4. OthersStay(a) /\ (Up(a)' <=> Up(a)) /\ (Running(a)' <=> Running(a))
    BY <1>1, <2>2, <2>3 DEF OthersStay, Up, Running
  <2>5. ASSUME a \notin loose' PROVE Tidy(a)'
    <3>1. Tidy(a)
      BY <1>1, <2>5 DEF TeamInv
    <3> QED
      BY <2>2, <2>3, <2>4, <3>1 DEF Tidy
  <2>6. PutDown(a) => PutDown(a)'
    BY <1>1, <2>2, <2>3, <2>4 DEF PutDown
  <2>7. \A k : Steady(k)
    BY <2>2 DEF Steady, Answered, Up
  <2> QED
    BY <1>1, <2>2, <2>3, <2>4, <2>5, <2>6, <2>7, OneAgent, AgentSteps
\* What is left of the restart: it is over, or it has registered.
<1>4. ASSUME loose' = loose, restarts[a] # "none", restarts' = [restarts EXCEPT ![a] = "none"]
      PROVE  /\ restarts' \in RestartsTyped /\ Policy \in InFlight(a)
             /\ restarts[a] = "registered" => Policy \in Registering(a)
             /\ \A b \in Agents :
                  /\ InFlight(b)' = IF b = a THEN InFlight(b) \ {Policy} ELSE InFlight(b)
                  /\ Registering(b)'
                       = IF b = a THEN Registering(b) \ {Policy} ELSE Registering(b)
  BY <1>1, <1>4, RestartFlights
<1>5. CASE GivesUp(a) /\ restarts' = [restarts EXCEPT ![a] = "none"] /\ restarts[a] # "none"
           /\ UNCHANGED <<loose, ended>>
  <2>1. /\ agents' \in AgentsTyped /\ restarts' \in RestartsTyped
        /\ \A k \in DOMAIN calls : Steady(k)
        /\ \A b \in Agents \ loose' : Tidy(b)'
        /\ \A b \in Agents : PutDown(b) => PutDown(b)'
    BY <1>4, <1>5, GiveUpEffect
  <2> QED
    BY <1>1, <2>1, AgentSteps
<1>6. CASE Registers(a, Policy) /\ restarts' = [restarts EXCEPT ![a] = "registered"]
           /\ restarts[a] = "read" /\ UNCHANGED <<loose, ended>>
  <2>1. /\ restarts' \in RestartsTyped /\ Policy \in InFlight(a) /\ Policy \in Nat
        /\ \A b \in Agents :
             /\ InFlight(b)' = InFlight(b)
             /\ Registering(b)' = IF b = a THEN Registering(b) \cup {Policy} ELSE Registering(b)
    <3>1. /\ restarts' \in RestartsTyped /\ Policy \in Nat
          /\ \A b \in Agents : b # a => /\ InFlight(b)' = InFlight(b)
                                        /\ Registering(b)' = Registering(b)
          /\ InFlight(a)' = (InFlight(a) \ {Policy}) \cup {Policy}
          /\ Registering(a)' = (Registering(a) \ {Policy}) \cup {Policy}
          /\ Policy \in InFlight(a)
      BY <1>1, <1>6, RestartFlights
    <3> QED
      BY <3>1
  <2>2. /\ agents' \in AgentsTyped
        /\ \A k \in DOMAIN calls : Steady(k)
        /\ \A b \in Agents \ loose' : Tidy(b)'
        /\ \A b \in Agents : PutDown(b) => PutDown(b)'
    BY <1>6, <2>1, RegisterEffect
  <2> QED
    BY <1>1, <2>1, <2>2, AgentSteps
<1>7. CASE ComesUp(a, Policy) /\ restarts' = [restarts EXCEPT ![a] = "none"]
           /\ restarts[a] = "registered" /\ loose' = loose
  <2>1. /\ agents' \in AgentsTyped /\ restarts' \in RestartsTyped
        /\ \A k \in DOMAIN calls : Steady(k)
        /\ \A b \in Agents \ loose' : Tidy(b)'
        /\ \A b \in Agents : PutDown(b) => PutDown(b)'
    BY <1>4, <1>7, ComesUpEffect
  <2> QED
    BY <1>1, <2>1, AgentSteps
<1>8. CASE RestartRegisters(a)
  BY <1>5, <1>6, <1>8 DEF RestartRegisters
<1>9. CASE RestartSpawns(a)
  BY <1>5, <1>7, <1>9 DEF RestartSpawns, SpawnFails, GivesUp
<1> QED
  BY <1>2, <1>3, <1>8, <1>9 DEF Restart

LEMMA TeamInitInv == TeamInit => TeamInv
<1> SUFFICES ASSUME TeamInit PROVE TeamInv
  OBVIOUS
<1>1. PICK scene \in TeamScenes : calls = [i \in DOMAIN scene |-> Idle(scene[i])]
  BY DEF TeamInit
<1>2. /\ DOMAIN calls \subseteq Nat \ {Policy}
      /\ \A i \in DOMAIN calls : scene[i].op \in TeamOps /\ scene[i].agent \in Agents
  <2> DEFINE Requests == [op : TeamOps, agent : Agents]
  <2>1. scene \in Seq(Requests)
    BY TeamScenesAssumption DEF Agents
  <2> HIDE DEF Requests
  <2>2. \A i \in DOMAIN scene : scene[i] \in Requests
    BY <2>1
  <2>3. DOMAIN scene \subseteq Nat \ {0}
    BY <2>1
  <2> QED
    BY <1>1, <2>2, <2>3 DEF Policy, Requests
<1>3. ASSUME NEW i \in DOMAIN calls
      PROVE  /\ calls[i] \in TeamCalls /\ calls[i].at = "list"
             /\ calls[i] = Idle(scene[i]) /\ Retired(calls[i]) = {}
  <2>1. calls[i] = Idle(scene[i]) /\ <<>> \in Seq(Agents)
    BY <1>1, <1>3
  <2>2. calls[i] \in TeamCalls /\ calls[i].at = "list"
    BY <1>2, <1>3, <2>1 DEF Idle, TeamCalls, TeamPlaces
  <2> QED
    BY <2>1, <2>2 DEF Retired
<1>4. TeamTypeOK
  <2>1. agents \in AgentsTyped /\ members \subseteq Agents /\ restarts \in RestartsTyped
    <3> DEFINE Fresh == {AgentOf("stopped", "none"), AgentOf("running", "own")}
    <3>1. agents \in [Agents -> Fresh] /\ members = Agents
          /\ restarts = [a \in Agents |-> "none"]
      BY DEF TeamInit
    <3>2. Fresh \subseteq AgentRecords
      BY DEF AgentOf, AgentRecords
    <3> HIDE DEF Fresh
    <3> QED
      BY <3>1, <3>2 DEF AgentsTyped, RestartsTyped
  <2>2. calls \in [DOMAIN calls -> TeamCalls]
    BY <1>1, <1>3
  <2> QED
    BY <1>2, <2>1, <2>2 DEF TeamTypeOK
<1>5. \A i \in DOMAIN calls : TeamCallSound(i, calls[i])
  BY <1>3 DEF TeamCallSound, PlacesOf, StartsSoFar, DeletesAll
<1>6. ASSUME NEW a \in Agents PROVE Tidy(a)
  <2>1. InFlight(a) = {} /\ Registering(a) = {}
    BY <1>3 DEF TeamInit, InFlight, Registering, Starting, Spawning
  <2>2. agents[a] = AgentOf("stopped", "none") \/ agents[a] = AgentOf("running", "own")
    BY DEF TeamInit
  <2> QED
    BY <2>1, <2>2 DEF Tidy, AgentOf, Up, Running
<1>7. \A a \in Agents : ~Away(a)
  BY <1>3 DEF TeamInit, Away
<1> QED
  BY <1>4, <1>5, <1>6, <1>7 DEF TeamInv

LEMMA TeamInvStep == TeamInv /\ [TeamNext]_teamVars => TeamInv'
<1> SUFFICES ASSUME TeamInv, [TeamNext]_teamVars PROVE TeamInv'
  OBVIOUS
<1>1. CASE UNCHANGED teamVars
  <2>1. /\ UNCHANGED <<members, agents, restarts, calls, loose, ended>>
        /\ agents' \in AgentsTyped /\ restarts' \in RestartsTyped
    BY <1>1 DEF teamVars, TeamInv, TeamTypeOK
  <2>2. \A a \in Agents : InFlight(a)' = InFlight(a) /\ Registering(a)' = Registering(a)
    BY <2>1 DEF InFlight, Registering
  <2>3. \A a \in Agents : (PutDown(a) => PutDown(a)') /\ (Tidy(a) => Tidy(a)')
    BY <2>1, <2>2 DEF PutDown, Tidy, Up, Running
  <2>4. \A k : Steady(k)
    BY <2>1 DEF Steady, Answered, Up
  <2> QED
    BY <2>1, <2>3, <2>4, AgentSteps DEF TeamInv
<1>2. ASSUME NEW i \in DOMAIN calls, Call(i) PROVE TeamInv'
  BY <1>2, ListStep, StopsStep, StartBeginsStep, StartRegistersStep, StartsDoneStep,
     RetiresStep, ShelveStep DEF Call
<1>3. ASSUME NEW a \in Agents, Exit(a) \/ Restart(a) PROVE TeamInv'
  BY <1>3, ExitStep, RestartStep
<1> QED
  BY <1>1, <1>2, <1>3 DEF TeamNext

(* For every team, every policy and all requests made of it at the same time,  *)
(* with every start read, registered and spawned in steps of its own: when a    *)
(* start or a restart of the team is done, whoever it was for has a process,    *)
(* or is reported, or ended of something else than that call's stop; and what   *)
(* is up when its row is gone was killed, unless a start of the agent           *)
(* overlapped its retirement or another start.                                  *)
THEOREM TeamCallsHoldAlways == TeamSpec => []TeamCallsHold
<1>1. TeamInv => TeamCallsHold
  <2> SUFFICES ASSUME TeamInv PROVE TeamCallsHold
    OBVIOUS
  <2>1. NobodyIsLeftDown
    <3>1. ASSUME NEW i \in DOMAIN calls, calls[i].op \in {"start", "restart"},
                 calls[i].at = "done", NEW a \in calls[i].targets
          PROVE  Up(a) \/ a \in calls[i].failures \/ \E e \in ended : e[1] = a /\ e[2] # {i}
      BY <3>1 DEF TeamInv, TeamCallSound, StartsSoFar, Answered
    <3> QED
      BY <3>1 DEF NobodyIsLeftDown
  <2>2. NoProcessOutlivesItsRow
    BY DEF TeamInv, Away, PutDown, NoProcessOutlivesItsRow
  <2> QED
    BY <2>1, <2>2 DEF TeamCallsHold
<1> QED
  BY <1>1, TeamInitInv, TeamInvStep, PTL DEF TeamSpec

------------------------------------------------------------------------------
(* The columns of a board and its automations: what a save makes of the rules   *)
(* suits the columns it writes, and nobody else writes meanwhile. What has      *)
(* fired is remembered for as long as the rules stay.                           *)

SetupFields == {"ask", "at", "rules", "columns", "cards", "edition", "plan"}
SetupPlaces == {"board", "columns", "cards", "replace", "rules", "fire", "end"}
\* A call has the fields of its row, and is where its kind may come.
SetupFits(job) ==
    /\ DOMAIN job = SetupFields /\ job.at \in SetupPlaces
    /\ job.ask.does \in {"columns", "rules", "move", "tick"}
    /\ job.ask.does = "rules" => IsList(job.ask.rules)
    /\ IsList(job.rules) /\ IsList(job.plan) /\ IsList(job.cards)
    /\ job.at \in {"replace", "rules"} => job.ask.does \in {"columns", "rules"}
    /\ job.at = "replace" => job.ask.does = "columns"
    /\ job.at = "cards" => job.ask.does # "rules"
    /\ job.at = "fire" => job.ask.does = "tick"
SetupShape ==
    /\ edition \in Nat /\ crashes \in Nat /\ overlapped \in BOOLEAN /\ IsList(rules)
    /\ DOMAIN placed = DOMAIN BoardCards /\ waited \subseteq DOMAIN BoardCards
    /\ \A i \in DOMAIN setups : SetupFits(setups[i])

\* Of two calls that write one has not begun, or has ended.
Rewrites(job) == job.ask.does \in {"columns", "rules"} /\ job.at \notin {"board", "end"}
OneRewrites == \A i, j \in DOMAIN setups : Rewrites(setups[i]) /\ Rewrites(setups[j]) => i = j
\* A call that is to write has rules that suit the columns there are by then.
AllValid(list, cols) == \A n \in DOMAIN list : Valid(list[n], SlugsOf(cols))
HalfWritten(job) == job.ask.does = "columns" /\ job.at = "rules"
Suits(job, cols) ==
    /\ job.ask.does = "columns" /\ job.at \in {"replace", "rules"} =>
         AllValid(job.plan, job.ask.drafts)
    /\ HalfWritten(job) => cols = job.ask.drafts
    /\ job.ask.does = "rules" /\ job.at = "rules" => job.columns = cols
RulesSuit ==
    /\ OneRewrites
    /\ \A i \in DOMAIN setups : Suits(setups[i], columns)
    /\ (\E i \in DOMAIN setups : HalfWritten(setups[i])) \/ AllValid(rules, columns)
Orderly == ~overlapped /\ crashes = 0 => RulesSuit

\* While the rules are those of the beginning, all calls read them, and a key
\* that has fired is one of them.
IsKey(key) == key = <<key[1], key[2], key[3]>> /\ key[3] \in DOMAIN BoardRules
Fired(key) == <<key[1], key[2], BoardRules[key[3]]>>
ReadsFirst(job, ran) ==
    /\ job.at # "board" => job.rules = BoardRules
    /\ job.at = "board" => job.plan = <<>>
    /\ job.at = "fire" => \A key \in ToSet(job.cards) : IsKey(key)
    /\ job.ask.does = "tick" => \A key \in ToSet(job.plan) : Fired(key) \in ran
RanOnce(keys, ran) ==
    /\ \A key \in keys : IsKey(key) /\ Fired(key) \in DOMAIN ran
    /\ \A of \in DOMAIN ran : ran[of] = 1 /\ \E key \in keys : of = Fired(key)
Rests ==
    /\ rules = BoardRules /\ RanOnce(staleFired, stalls)
    /\ \A i \in DOMAIN setups : ReadsFirst(setups[i], DOMAIN stalls)
Standing == edition = 0 /\ crashes = 0 => Rests
SetupInv == SetupShape /\ Orderly /\ Standing
RulesDiffer == \A m, n \in DOMAIN BoardRules : BoardRules[m] = BoardRules[n] => m = n

------------------------------------------------------------------------------
(* Lists.                                                                       *)

LEMMA SeqsAreLists ==
    ASSUME NEW S, NEW s \in Seq(S)
    PROVE  IsList(s) /\ ToSet(s) \subseteq S /\ DOMAIN s = 1 .. Len(s)
BY DEF IsList, ToSet

LEMMA ListsMove ==
    ASSUME NEW s, IsList(s)
    PROVE  /\ s # <<>> => /\ Head(s) \in ToSet(s) /\ IsList(Tail(s))
                          /\ ToSet(Tail(s)) \subseteq ToSet(s)
           /\ \A e : IsList(Append(s, e)) /\ ToSet(Append(s, e)) = ToSet(s) \cup {e}
           /\ \A e \in ToSet(s) : \E n \in DOMAIN s : s[n] = e
<1> DEFINE S == ToSet(s)
<1>1. s \in Seq(S)
  BY DEF IsList
<1>2. ASSUME s # <<>> PROVE Head(s) \in S /\ IsList(Tail(s)) /\ ToSet(Tail(s)) \subseteq S
  <2>1. Head(s) = s[1] /\ 1 \in DOMAIN s /\ Tail(s) \in Seq(S)
    BY <1>1, <1>2
  <2>2. Head(s) \in S
    BY <2>1 DEF ToSet
  <2> QED BY <2>1, <2>2, SeqsAreLists
<1>3. ASSUME NEW e PROVE IsList(Append(s, e)) /\ ToSet(Append(s, e)) = S \cup {e}
  <2>1. s \in Seq(S \cup {e})
    <3>1. Len(s) \in Nat /\ s \in [1 .. Len(s) -> S]
      BY <1>1
    <3> HIDE DEF S
    <3> QED BY <1>1, <3>1
  <2>2. Append(s, e) \in Seq(S \cup {e})
    BY <2>1
  <2>3. IsList(Append(s, e)) /\ ToSet(Append(s, e)) \subseteq S \cup {e}
    BY <2>2, SeqsAreLists
  <2>4. DOMAIN s = 1 .. Len(s) /\ DOMAIN Append(s, e) = 1 .. (Len(s) + 1) /\ Len(s) \in Nat
        /\ Append(s, e)[Len(s) + 1] = e /\ \A n \in DOMAIN s : Append(s, e)[n] = s[n]
    BY <1>1
  <2>5. S \subseteq ToSet(Append(s, e)) /\ e \in ToSet(Append(s, e))
    <3>1. e \in ToSet(Append(s, e))
      BY <2>4 DEF ToSet
    <3>2. ASSUME NEW x \in S PROVE x \in ToSet(Append(s, e))
      <4>1. PICK n \in DOMAIN s : x = s[n]
        BY DEF ToSet
      <4>2. n \in DOMAIN Append(s, e)
        BY <2>4
      <4> QED BY <2>4, <4>1, <4>2 DEF ToSet
    <3> QED BY <3>1, <3>2
  <2> QED BY <2>3, <2>5
<1>4. \A e \in S : \E n \in DOMAIN s : s[n] = e
  BY DEF ToSet
<1> QED BY <1>2, <1>3, <1>4

LEMMA SetsAreListed ==
    ASSUME NEW S, IsFiniteSet(S)
    PROVE  IsList(SetToSeq(S)) /\ ToSet(SetToSeq(S)) \subseteq S
<1>1. PICK n \in Nat : n = Cardinality(S)
  BY FS_CardinalityType
<1>2. PICK f \in [1 .. n -> S] : \A a, b \in 1 .. n : f[a] = f[b] => a = b
  <2>1. ExistsBijection(1 .. n, S)
    BY <1>1, FS_CardinalityType
  <2> QED BY <2>1 DEF ExistsBijection, Bijection, Injection, IsInjective
<1>3. IsInjective(f)
  BY <1>2 DEF IsInjective
<1>4. SetToSeq(S) \in [1 .. n -> S]
  BY <1>1, <1>2, <1>3 DEF SetToSeq
<1>5. SetToSeq(S) \in Seq(S)
  BY <1>4
<1> QED BY <1>5, SeqsAreLists

LEMMA SiftedList ==
    ASSUME NEW s, IsList(s), NEW T
    PROVE  IsList(Sifted(s, T)) /\ \A n \in DOMAIN Sifted(s, T) : Sifted(s, T)[n] \in T
<1>1. s \in Seq(ToSet(s))
  BY DEF IsList
<1>2. Sifted(s, T) \in Seq(ToSet(s))
  BY <1>1, SiftedIsThinned
<1>3. \A n \in DOMAIN Sifted(s, T) : Sifted(s, T)[n] \in T
  BY <1>1, SiftedHas
<1> QED BY <1>2, <1>3, SeqsAreLists

LEMMA RulesFollow ==
    ASSUME NEW i, NEW of, IsList(of)
    PROVE  IsList(KeptRules(i, of)) /\ AllValid(KeptRules(i, of), Drafts(i))
<1> DEFINE followed == [n \in DOMAIN of |-> Follows(i, of[n])]
           T == {rule \in ToSet(followed) : Survives(i, rule)}
<1>1. followed \in Seq(ToSet(followed))
  <2>1. DOMAIN of = 1 .. Len(of) /\ Len(of) \in Nat
    BY DEF IsList
  <2>2. followed \in [1 .. Len(of) -> ToSet(followed)]
    BY <2>1 DEF ToSet
  <2> HIDE DEF followed
  <2> QED BY <2>1, <2>2
<1>2. KeptRules(i, of) = Sifted(followed, T)
  BY DEF KeptRules
<1> HIDE DEF followed
<1>3. IsList(Sifted(followed, T)) /\ \A n \in DOMAIN Sifted(followed, T) : Sifted(followed, T)[n] \in T
  BY <1>1, SiftedList DEF IsList
<1> QED BY <1>2, <1>3 DEF AllValid, Survives

LEMMA ListedAreListed ==
    ASSUME NEW i, SetupAssumption, SetupShape, IsList(setups[i].rules)
    PROVE  /\ IsList(SetToSeq(Listed(i)))
           /\ setups[i].rules = BoardRules => \A key \in ToSet(SetToSeq(Listed(i))) : IsKey(key)
<1> DEFINE S == DOMAIN BoardCards
           N == DOMAIN setups[i].rules
           L == Listed(i)
<1>1. \A key \in L : key = <<key[1], key[2], key[3]>> /\ key[1] \in S /\ key[3] \in N
  BY DEF Listed, SetupShape
<1>2. IsFiniteSet(S \X N)
  <2>1. N = 1 .. Len(setups[i].rules) /\ Len(setups[i].rules) \in Nat
    BY DEF IsList
  <2>2. IsFiniteSet(N)
    BY <2>1, FS_Interval
  <2> QED BY <2>2, FS_Product DEF SetupAssumption
<1>3. \A a, b \in L : a[1] = b[1] /\ a[3] = b[3] => a = b
  BY DEF Listed
<1> HIDE DEF L, S, N
<1> DEFINE f == [key \in L |-> <<key[1], key[3]>>]
<1>4. \A key \in L : key[1] \in S /\ key[3] \in N
  BY <1>1
<1>5. f \in [L -> S \X N]
  BY <1>4
<1>6. \A a, b \in L : f[a] = f[b] => a = b
  BY <1>3
<1>7. DOMAIN f = L
  OBVIOUS
<1> HIDE DEF f
<1>8. f \in Injection(L, S \X N)
  BY <1>5, <1>6, <1>7 DEF Injection, IsInjective
<1>9. IsFiniteSet(L)
  BY <1>2, <1>8, FS_Injection
<1> QED BY <1>1, <1>9, SetsAreListed DEF IsKey, L, N

------------------------------------------------------------------------------
(* What a step of one call keeps.                                               *)

LEMMA ShapeKeeps ==
    ASSUME NEW i, NEW job, SetupShape, Sets(i, job), SetupFits(job),
           edition' \in Nat, crashes' = crashes, overlapped' \in BOOLEAN, IsList(rules'),
           DOMAIN placed' = DOMAIN placed, waited' \subseteq waited
    PROVE  SetupShape'
<1>1. \A k \in DOMAIN setups' : k \in DOMAIN setups /\ setups'[k] \in {setups[k], job}
  BY DEF Sets
<1>2. \A k \in DOMAIN setups' : SetupFits(setups'[k])
  BY <1>1 DEF SetupShape
<1> QED BY <1>2 DEF SetupShape

\* A call that does not write yet, or not any more, or whose step suits what
\* there is to write.
LEMMA OrderKeeps ==
    ASSUME NEW i, NEW job, SetupShape, Orderly, Sets(i, job), ~HalfWritten(setups[i]),
           Rewrites(job) => Rewrites(setups[i]), RulesSuit => Suits(job, columns),
           UNCHANGED <<columns, rules, crashes, overlapped>>
    PROVE  Orderly'
<1>1. SUFFICES ASSUME RulesSuit PROVE RulesSuit'
  BY DEF Orderly
<1>2. \A k \in DOMAIN setups' : k \in DOMAIN setups /\ (k = i => setups'[k] = job)
                                /\ (k # i => setups'[k] = setups[k])
  BY DEF Sets
<1>3. \A k \in DOMAIN setups' : Rewrites(setups'[k]) => Rewrites(setups[k])
  BY <1>2
<1>4. OneRewrites'
  BY <1>1, <1>2, <1>3 DEF RulesSuit, OneRewrites
<1>5. \A k \in DOMAIN setups' : Suits(setups'[k], columns)
  BY <1>1, <1>2 DEF RulesSuit
<1>6. \A k \in DOMAIN setups : HalfWritten(setups[k]) => k \in DOMAIN setups' /\ HalfWritten(setups'[k])
  BY <1>2 DEF Sets
<1> QED BY <1>1, <1>4, <1>5, <1>6 DEF RulesSuit

LEMMA OthersRest ==
    ASSUME NEW i, NEW job, SetupShape, Standing, Sets(i, job),
           UNCHANGED <<rules, staleFired, stalls, edition, crashes>>,
           Rests => ReadsFirst(job, DOMAIN stalls)
    PROVE  Standing'
<1>1. SUFFICES ASSUME Rests PROVE Rests'
  BY DEF Standing
<1>2. \A k \in DOMAIN setups' : k \in DOMAIN setups /\ setups'[k] \in {setups[k], job}
  BY DEF Sets
<1> QED BY <1>1, <1>2 DEF Rests

------------------------------------------------------------------------------
(* The steps.                                                                   *)

LEMMA ReadBoardKeeps ==
    ASSUME NEW i \in DOMAIN setups, SetupInv, ReadBoard(i)
    PROVE  SetupInv'
<1> DEFINE job == [setups[i] EXCEPT !.at = "columns", !.rules = rules, !.edition = edition]
<1>1. Sets(i, job) /\ setups[i].at = "board"
      /\ UNCHANGED <<columns, rules, placed, waited, staleFired, stalls, edition, crashes>>
  BY DEF ReadBoard
<1>2. SetupFits(setups[i]) /\ SetupShape /\ Orderly /\ Standing
  BY DEF SetupInv, SetupShape
<1>3. /\ job.at = "columns" /\ job.rules = rules /\ job.ask = setups[i].ask
      /\ job.plan = setups[i].plan /\ DOMAIN job = DOMAIN setups[i]
      /\ job.cards = setups[i].cards
  BY <1>2 DEF SetupFits, SetupFields
<1> HIDE DEF job
<1>4. SetupFits(job)
  BY <1>1, <1>2, <1>3 DEF SetupFits, SetupPlaces, SetupShape
<1>5. SetupShape'
  <2>1. overlapped' \in BOOLEAN
    BY <1>2 DEF ReadBoard, SetupShape
  <2> QED BY <1>1, <1>2, <1>4, <2>1, ShapeKeeps DEF SetupShape
<1>6. Orderly'
  <2>1. SUFFICES ASSUME ~overlapped, RulesSuit,
                        job.ask.does \in {"columns", "rules"} =>
                            ~ \E k \in DOMAIN setups : Rewrites(setups[k])
                 PROVE  RulesSuit'
    BY <1>1, <1>2, <1>3 DEF Orderly, ReadBoard, Wants, WritesSetup, Rewrites, SetupShape
  <2>2. \A k \in DOMAIN setups' : k \in DOMAIN setups /\ (k = i => setups'[k] = job)
                                  /\ (k # i => setups'[k] = setups[k])
    BY <1>1 DEF Sets
  <2>3. OneRewrites'
    BY <2>1, <2>2, <1>3 DEF RulesSuit, OneRewrites, Rewrites
  <2>4. Suits(job, columns)
    BY <1>3 DEF Suits, HalfWritten
  <2>5. \A k \in DOMAIN setups' : Suits(setups'[k], columns)
    BY <2>1, <2>2, <2>4 DEF RulesSuit
  <2>6. \A k \in DOMAIN setups : HalfWritten(setups[k]) => k \in DOMAIN setups' /\ HalfWritten(setups'[k])
    BY <1>1, <2>2 DEF Sets, HalfWritten
  <2> QED BY <1>1, <2>1, <2>3, <2>5, <2>6 DEF RulesSuit
<1>7. Standing'
  <2>1. Rests => ReadsFirst(job, DOMAIN stalls)
    BY <1>1, <1>3 DEF Rests, ReadsFirst, ToSet
  <2> QED BY <1>1, <1>2, <2>1, OthersRest
<1> QED BY <1>5, <1>6, <1>7 DEF SetupInv

LEMMA ReadColumnsKeeps ==
    ASSUME NEW i \in DOMAIN setups, SetupInv, ReadColumns(i)
    PROVE  SetupInv'
<1> DEFINE job == [setups[i] EXCEPT !.columns = columns,
                                    !.at = IF Wants(i, {"rules"}) THEN "rules" ELSE "cards"]
<1>1. Sets(i, job) /\ setups[i].at = "columns"
      /\ UNCHANGED <<columns, rules, placed, waited, staleFired, stalls, edition, overlapped, crashes>>
  BY DEF ReadColumns
<1>2. SetupFits(setups[i]) /\ SetupShape /\ Orderly /\ Standing
  BY DEF SetupInv, SetupShape
<1>3. /\ job.at = (IF setups[i].ask.does = "rules" THEN "rules" ELSE "cards")
      /\ job.rules = setups[i].rules /\ job.ask = setups[i].ask /\ job.columns = columns
      /\ job.plan = setups[i].plan /\ DOMAIN job = DOMAIN setups[i] /\ job.cards = setups[i].cards
  BY <1>2 DEF SetupFits, SetupFields, Wants
<1> HIDE DEF job
<1>4. SetupFits(job)
  BY <1>1, <1>2, <1>3 DEF SetupFits, SetupPlaces
<1>5. SetupShape'
  BY <1>1, <1>2, <1>4, ShapeKeeps DEF SetupShape
<1>6. Orderly'
  <2>1. Suits(job, columns) /\ ~HalfWritten(setups[i]) /\ (Rewrites(job) => Rewrites(setups[i]))
    BY <1>1, <1>3 DEF Suits, HalfWritten, Rewrites
  <2> QED BY <1>1, <1>2, <2>1, OrderKeeps
<1>7. Standing'
  <2>1. Rests => ReadsFirst(job, DOMAIN stalls)
    BY <1>1, <1>3 DEF Rests, ReadsFirst
  <2> QED BY <1>1, <1>2, <2>1, OthersRest
<1> QED BY <1>5, <1>6, <1>7 DEF SetupInv

\* A call that ends in this step.
LEMMA EndsFit ==
    ASSUME NEW i \in DOMAIN setups, SetupInv, SetsAt(i, "end")
    PROVE  \E job : /\ Sets(i, job) /\ SetupFits(job) /\ job.at = "end"
                    /\ job.ask = setups[i].ask /\ job.rules = setups[i].rules
                    /\ job.plan = setups[i].plan /\ job.cards = setups[i].cards
                    /\ ~Rewrites(job) /\ ~HalfWritten(job) /\ Suits(job, columns)
<1> DEFINE job == [setups[i] EXCEPT !.at = "end"]
<1>1. SetupFits(setups[i])
  BY DEF SetupInv, SetupShape
<1>2. /\ job.at = "end" /\ job.rules = setups[i].rules /\ job.ask = setups[i].ask
      /\ job.plan = setups[i].plan /\ DOMAIN job = DOMAIN setups[i] /\ job.cards = setups[i].cards
  BY <1>1 DEF SetupFits, SetupFields
<1>3. Sets(i, job)
  BY DEF SetsAt
<1> HIDE DEF job
<1> QED BY <1>1, <1>2, <1>3 DEF SetupFits, SetupPlaces, Rewrites, HalfWritten, Suits

LEMMA EndKeeps ==
    ASSUME NEW i \in DOMAIN setups, SetupInv, SetsAt(i, "end"), setups[i].at # "board", ~HalfWritten(setups[i]),
           UNCHANGED <<columns, rules, staleFired, stalls, edition, overlapped, crashes>>,
           DOMAIN placed' = DOMAIN placed, waited' \subseteq waited
    PROVE  SetupInv'
<1>1. PICK job : /\ Sets(i, job) /\ SetupFits(job) /\ job.at = "end"
                 /\ job.ask = setups[i].ask /\ job.rules = setups[i].rules
                 /\ job.plan = setups[i].plan
                 /\ ~Rewrites(job) /\ Suits(job, columns)
  BY EndsFit
<1>2. SetupShape /\ Orderly /\ Standing
  BY DEF SetupInv
<1>3. SetupShape'
  BY <1>1, <1>2, ShapeKeeps DEF SetupShape
<1>4. Orderly'
  BY <1>1, <1>2, OrderKeeps
<1>5. Rests => ReadsFirst(job, DOMAIN stalls)
  BY <1>1 DEF Rests, ReadsFirst
<1>6. Standing'
  BY <1>1, <1>2, <1>5, OthersRest
<1> QED BY <1>3, <1>4, <1>6 DEF SetupInv

LEMMA ListCardsKeeps ==
    ASSUME NEW i \in DOMAIN setups, SetupInv, ListCards(i)
    PROVE  SetupInv'
<1> DEFINE job == [setups[i] EXCEPT !.at = "replace", !.plan = KeptRules(i, setups[i].rules)]
<1>1. /\ setups[i].at = "cards" /\ setups[i].ask.does = "columns"
      /\ UNCHANGED <<columns, rules, placed, waited, staleFired, stalls, edition, overlapped, crashes>>
  BY DEF ListCards, Wants
<1>2. CASE SetsAt(i, "end")
  BY <1>1, <1>2, EndKeeps DEF HalfWritten
<1>3. CASE Sets(i, job)
  <2>1. SetupFits(setups[i]) /\ SetupShape /\ Orderly /\ Standing
    BY DEF SetupInv, SetupShape
  <2>2. /\ job.at = "replace" /\ job.plan = KeptRules(i, setups[i].rules)
        /\ job.rules = setups[i].rules /\ job.ask = setups[i].ask
        /\ DOMAIN job = DOMAIN setups[i] /\ job.cards = setups[i].cards
    BY <2>1 DEF SetupFits, SetupFields
  <2>3. IsList(job.plan) /\ AllValid(job.plan, job.ask.drafts)
    BY <2>1, <2>2, RulesFollow DEF SetupFits, Drafts
  <2> HIDE DEF job
  <2>4. SetupFits(job)
    BY <1>1, <2>1, <2>2, <2>3 DEF SetupFits, SetupPlaces
  <2>5. SetupShape'
    BY <1>1, <1>3, <2>1, <2>4, ShapeKeeps DEF SetupShape
  <2>6. Suits(job, columns) /\ ~HalfWritten(setups[i]) /\ (Rewrites(job) => Rewrites(setups[i]))
    BY <1>1, <2>2, <2>3 DEF Suits, HalfWritten, Rewrites
  <2>7. Orderly'
    BY <1>1, <1>3, <2>1, <2>6, OrderKeeps
  <2>8. Rests => ReadsFirst(job, DOMAIN stalls)
    BY <1>1, <2>2 DEF Rests, ReadsFirst
  <2>9. Standing'
    BY <1>1, <1>3, <2>1, <2>8, OthersRest
  <2> QED BY <2>5, <2>7, <2>9 DEF SetupInv
<1> QED BY <1>2, <1>3 DEF ListCards

LEMMA ReplaceColumnsKeeps ==
    ASSUME NEW i \in DOMAIN setups, SetupInv, ReplaceColumns(i)
    PROVE  SetupInv'
<1> DEFINE job == [setups[i] EXCEPT !.at = "rules"]
<1>1. setups[i].at = "replace" /\ UNCHANGED <<rules, staleFired, stalls, edition, overlapped, crashes>>
  BY DEF ReplaceColumns
<1>2. SetupFits(setups[i]) /\ SetupShape /\ Orderly /\ Standing /\ setups[i].ask.does = "columns"
  BY <1>1 DEF SetupInv, SetupShape, SetupFits
<1>3. CASE SetsAt(i, "end") /\ UNCHANGED <<columns, placed, waited>>
  BY <1>1, <1>3, EndKeeps DEF HalfWritten
<1>4. CASE /\ Sets(i, job) /\ columns' = Drafts(i)
           /\ DOMAIN placed' = DOMAIN placed /\ waited' \subseteq waited
  <2>1. /\ job.at = "rules" /\ job.plan = setups[i].plan
        /\ job.rules = setups[i].rules /\ job.ask = setups[i].ask
        /\ DOMAIN job = DOMAIN setups[i] /\ job.cards = setups[i].cards
    BY <1>2 DEF SetupFits, SetupFields
  <2> HIDE DEF job
  <2>2. SetupFits(job)
    BY <1>2, <2>1 DEF SetupFits, SetupPlaces
  <2>3. SetupShape'
    BY <1>1, <1>2, <1>4, <2>2, ShapeKeeps DEF SetupShape
  <2>4. Orderly'
    <3>1. SUFFICES ASSUME RulesSuit PROVE RulesSuit'
      BY <1>1, <1>2 DEF Orderly
    <3>2. \A k \in DOMAIN setups' : k \in DOMAIN setups /\ (k = i => setups'[k] = job)
                                    /\ (k # i => setups'[k] = setups[k])
      BY <1>4 DEF Sets
    <3>3. Rewrites(setups[i]) /\ HalfWritten(job) /\ columns' = job.ask.drafts
      BY <1>1, <1>2, <1>4, <2>1 DEF Rewrites, HalfWritten, Drafts
    <3>4. OneRewrites'
      BY <3>1, <3>2, <3>3 DEF RulesSuit, OneRewrites
    <3>5. Suits(job, columns')
      BY <1>1, <1>2, <2>1, <3>1, <3>3 DEF Suits, RulesSuit
    <3>6. ASSUME NEW k \in DOMAIN setups', k # i PROVE Suits(setups'[k], columns')
      <4>1. ~Rewrites(setups[k])
        BY <3>1, <3>2, <3>3, <3>6 DEF RulesSuit, OneRewrites
      <4> QED BY <3>2, <3>6, <4>1 DEF Suits, HalfWritten, Rewrites
    <3>7. \E k \in DOMAIN setups' : HalfWritten(setups'[k])
      BY <1>4, <3>2, <3>3 DEF Sets
    <3> QED BY <3>2, <3>4, <3>5, <3>6, <3>7 DEF RulesSuit
  <2>5. Rests => ReadsFirst(job, DOMAIN stalls)
    BY <1>1, <1>2, <2>1 DEF Rests, ReadsFirst
  <2>6. Standing'
    BY <1>1, <1>2, <1>4, <2>5, OthersRest
  <2> QED BY <2>3, <2>4, <2>6 DEF SetupInv
<1>5. \/ SetsAt(i, "end") /\ UNCHANGED <<columns, placed, waited>>
      \/ /\ Sets(i, job) /\ columns' = Drafts(i)
         /\ DOMAIN placed' = DOMAIN placed /\ waited' \subseteq waited
  BY DEF ReplaceColumns, SetsAt
<1> QED BY <1>3, <1>4, <1>5

LEMMA WriteRulesKeeps ==
    ASSUME NEW i \in DOMAIN setups, SetupInv, WriteRules(i)
    PROVE  SetupInv'
<1>1. setups[i].at = "rules" /\ SetsAt(i, "end")
      /\ UNCHANGED <<columns, placed, waited, staleFired, stalls, overlapped, crashes>>
  BY DEF WriteRules
<1>2. SetupFits(setups[i]) /\ SetupShape /\ Orderly /\ Standing
      /\ setups[i].ask.does \in {"columns", "rules"}
  BY <1>1 DEF SetupInv, SetupShape, SetupFits
<1>3. CASE setups[i].ask.does = "rules" /\ UNCHANGED <<rules, edition>>
  BY <1>1, <1>3, EndKeeps DEF HalfWritten
<1> DEFINE new == IF Wants(i, {"columns"}) THEN setups[i].plan ELSE setups[i].ask.rules
<1>4. CASE /\ rules' = new /\ edition' = edition + 1
           /\ setups[i].ask.does = "rules" => AllValid(new, setups[i].columns)
  <2>1. PICK job : /\ Sets(i, job) /\ SetupFits(job) /\ job.at = "end"
                   /\ job.ask = setups[i].ask /\ job.plan = setups[i].plan
                   /\ ~Rewrites(job) /\ ~HalfWritten(job) /\ Suits(job, columns)
    BY <1>1, EndsFit
  <2>2. IsList(new)
    BY <1>2 DEF SetupFits, Wants
  <2>3. edition \in Nat
    BY <1>2 DEF SetupShape
  <2>4. SetupShape'
    BY <1>1, <1>2, <1>4, <2>1, <2>2, <2>3, ShapeKeeps DEF SetupShape
  <2>5. Orderly'
    <3>1. SUFFICES ASSUME RulesSuit PROVE RulesSuit'
      BY <1>1, <1>2 DEF Orderly
    <3>2. \A k \in DOMAIN setups' : k \in DOMAIN setups /\ (k = i => setups'[k] = job)
                                    /\ (k # i => setups'[k] = setups[k])
      BY <2>1 DEF Sets
    <3>3. \A k \in DOMAIN setups' : Rewrites(setups'[k]) => k # i /\ Rewrites(setups[k])
      BY <2>1, <3>2
    <3>4. OneRewrites'
      BY <3>1, <3>2, <3>3 DEF RulesSuit, OneRewrites
    <3>5. \A k \in DOMAIN setups' : Suits(setups'[k], columns)
      BY <2>1, <3>1, <3>2 DEF RulesSuit
    <3>6. Suits(setups[i], columns)
      BY <3>1 DEF RulesSuit
    <3>7. AllValid(new, columns)
      BY <1>1, <1>2, <1>4, <3>6 DEF Suits, HalfWritten, Wants
    <3> QED BY <1>1, <1>4, <3>4, <3>5, <3>7 DEF RulesSuit
  <2>6. Standing'
    BY <1>4, <2>3 DEF Standing
  <2> QED BY <2>4, <2>5, <2>6 DEF SetupInv
<1>5. \/ setups[i].ask.does = "rules" /\ UNCHANGED <<rules, edition>>
      \/ /\ rules' = new /\ edition' = edition + 1
         /\ setups[i].ask.does = "rules" => AllValid(new, setups[i].columns)
  BY DEF WriteRules, AllValid, Wants
<1> QED BY <1>3, <1>4, <1>5

LEMMA MoveCardKeeps ==
    ASSUME NEW i \in DOMAIN setups, SetupInv, MoveCard(i)
    PROVE  SetupInv'
<1>1. setups[i].at = "cards" /\ SetsAt(i, "end")
      /\ UNCHANGED <<columns, rules, staleFired, stalls, edition, overlapped, crashes>>
  BY DEF MoveCard
<1>2. DOMAIN placed' = DOMAIN placed /\ waited' \subseteq waited
  BY DEF MoveCard
<1> QED BY <1>1, <1>2, EndKeeps DEF HalfWritten

LEMMA TickDoneKeeps ==
    ASSUME NEW i \in DOMAIN setups, SetupInv, TickDone(i)
    PROVE  SetupInv'
<1>1. setups[i].at = "fire" /\ SetsAt(i, "end") /\ waited' = waited /\ placed' = placed
      /\ UNCHANGED <<columns, rules, staleFired, stalls, edition, overlapped, crashes>>
  BY DEF TickDone
<1> QED BY <1>1, EndKeeps DEF HalfWritten

LEMMA WaitsKeeps ==
    ASSUME NEW c \in DOMAIN placed, SetupInv, Waits(c)
    PROVE  SetupInv'
<1>1. waited' = waited \cup {c}
      /\ UNCHANGED <<columns, rules, placed, staleFired, setups, stalls, edition, overlapped, crashes>>
  BY DEF Waits
<1>2. SetupShape'
  BY <1>1 DEF SetupInv, SetupShape
<1>3. Orderly'
  BY <1>1 DEF SetupInv, Orderly, RulesSuit, OneRewrites
<1>4. Standing'
  BY <1>1 DEF SetupInv, Standing, Rests
<1> QED BY <1>2, <1>3, <1>4 DEF SetupInv

LEMMA DiesKeeps ==
    ASSUME SetupInv, Dies
    PROVE  SetupInv'
<1>1. /\ crashes' = crashes + 1
      /\ UNCHANGED <<columns, rules, placed, waited, stalls, edition, overlapped>>
  BY DEF Dies
<1>2. crashes \in Nat /\ SetupShape
  BY DEF SetupInv, SetupShape
<1>3. ASSUME NEW k \in DOMAIN setups' PROVE SetupFits(setups'[k])
  <2> DEFINE job == [setups[k] EXCEPT !.at = "end"]
  <2>1. k \in DOMAIN setups /\ setups'[k] \in {setups[k], job}
    BY <1>3 DEF Dies
  <2>2. SetupFits(setups[k])
    BY <1>2, <2>1 DEF SetupShape
  <2>3. /\ job.at = "end" /\ job.rules = setups[k].rules /\ job.ask = setups[k].ask
        /\ job.plan = setups[k].plan /\ DOMAIN job = DOMAIN setups[k] /\ job.cards = setups[k].cards
    BY <2>2 DEF SetupFits, SetupFields
  <2> HIDE DEF job
  <2>4. SetupFits(job)
    BY <2>2, <2>3 DEF SetupFits, SetupPlaces
  <2> QED BY <2>1, <2>2, <2>4
<1>4. SetupShape'
  BY <1>1, <1>2, <1>3 DEF SetupShape
<1>5. Orderly' /\ Standing'
  BY <1>1, <1>2 DEF Orderly, Standing
<1> QED BY <1>4, <1>5 DEF SetupInv

LEMMA TickCardsKeeps ==
    ASSUME NEW i \in DOMAIN setups, SetupAssumption, SetupInv, TickCards(i)
    PROVE  SetupInv'
<1> DEFINE listed == SetToSeq(Listed(i))
           job == [setups[i] EXCEPT !.at = "fire", !.cards = listed]
<1>1. /\ setups[i].at = "cards" /\ setups[i].ask.does = "tick" /\ Sets(i, job)
      /\ UNCHANGED <<columns, rules, placed, waited, staleFired, stalls, edition, overlapped, crashes>>
  BY DEF TickCards, Wants
<1>2. SetupFits(setups[i]) /\ SetupShape /\ Orderly /\ Standing
  BY DEF SetupInv, SetupShape
<1>3. /\ job.at = "fire" /\ job.cards = listed /\ job.plan = setups[i].plan
      /\ job.rules = setups[i].rules /\ job.ask = setups[i].ask /\ DOMAIN job = DOMAIN setups[i]
  BY <1>2 DEF SetupFits, SetupFields
<1>4. IsList(listed)
  BY <1>2, ListedAreListed DEF SetupFits
<1>5. Rests => \A key \in ToSet(listed) : IsKey(key)
  BY <1>1, <1>2, ListedAreListed DEF Rests, ReadsFirst, SetupFits
<1> HIDE DEF job, listed
<1>6. SetupFits(job)
  BY <1>1, <1>2, <1>3, <1>4 DEF SetupFits, SetupPlaces
<1>7. SetupShape'
  BY <1>1, <1>2, <1>6, ShapeKeeps DEF SetupShape
<1>8. Orderly'
  <2>1. ~Rewrites(job) /\ Suits(job, columns) /\ ~HalfWritten(setups[i])
    BY <1>1, <1>3 DEF Rewrites, Suits, HalfWritten
  <2> QED BY <1>1, <1>2, <2>1, OrderKeeps
<1>9. Standing'
  <2>1. Rests => ReadsFirst(job, DOMAIN stalls)
    BY <1>1, <1>3, <1>5 DEF Rests, ReadsFirst
  <2> QED BY <1>1, <1>2, <2>1, OthersRest
<1> QED BY <1>7, <1>8, <1>9 DEF SetupInv

\* What a key that fires adds, and that it was not there before.
Ran(ran, of, n) == [k \in DOMAIN ran \cup {of} |-> IF k = of THEN n ELSE ran[k]]
LEMMA FiringAdds ==
    ASSUME NEW keys, NEW ran, NEW key, IsKey(key), key \notin keys, RanOnce(keys, ran), RulesDiffer
    PROVE  /\ Fired(key) \notin DOMAIN ran
           /\ DOMAIN Ran(ran, Fired(key), 1) = DOMAIN ran \cup {Fired(key)}
           /\ RanOnce(keys \cup {key}, Ran(ran, Fired(key), 1))
<1>1. Fired(key) \notin DOMAIN ran
  <2>1. SUFFICES ASSUME Fired(key) \in DOMAIN ran PROVE FALSE
    OBVIOUS
  <2>2. PICK other \in keys : Fired(key) = Fired(other) /\ IsKey(other)
    BY <2>1 DEF RanOnce
  <2>3. key[1] = other[1] /\ key[2] = other[2] /\ BoardRules[key[3]] = BoardRules[other[3]]
    BY <2>2 DEF Fired
  <2>4. key = other
    BY <2>2, <2>3 DEF IsKey, RulesDiffer
  <2> QED BY <2>2, <2>4
<1> DEFINE more == Ran(ran, Fired(key), 1)
<1>2. /\ DOMAIN more = DOMAIN ran \cup {Fired(key)} /\ more[Fired(key)] = 1
      /\ \A of \in DOMAIN ran : more[of] = ran[of]
  BY <1>1 DEF Ran
<1> HIDE DEF more
<1>3. RanOnce(keys \cup {key}, more)
  BY <1>2 DEF RanOnce
<1> QED BY <1>1, <1>2, <1>3 DEF more

LEMMA TickFireKeeps ==
    ASSUME NEW i \in DOMAIN setups, RulesDiffer, SetupInv, TickFire(i)
    PROVE  SetupInv'
<1> DEFINE key == Head(setups[i].cards)
           job == [setups[i] EXCEPT !.cards = Tail(@), !.plan = Append(@, key)]
           of == <<key[1], key[2], setups[i].rules[key[3]]>>
           before == IF of \in DOMAIN stalls THEN stalls[of] ELSE 0
<1>1. /\ setups[i].at = "fire" /\ setups[i].cards # <<>> /\ Sets(i, job)
      /\ IF key \notin staleFired
         THEN staleFired' = staleFired \cup {key} /\ stalls' = Ran(stalls, of, before + 1)
         ELSE UNCHANGED <<staleFired, stalls>>
      /\ UNCHANGED <<columns, rules, placed, waited, edition, overlapped, crashes>>
  BY DEF TickFire, FiresNow, Ran
<1>2. SetupFits(setups[i]) /\ SetupShape /\ Orderly /\ Standing /\ setups[i].ask.does = "tick"
  BY <1>1 DEF SetupInv, SetupShape, SetupFits
<1>3. /\ job.at = "fire" /\ job.cards = Tail(setups[i].cards)
      /\ job.plan = Append(setups[i].plan, key)
      /\ job.rules = setups[i].rules /\ job.ask = setups[i].ask /\ DOMAIN job = DOMAIN setups[i]
  BY <1>1, <1>2 DEF SetupFits, SetupFields
<1>4. /\ key \in ToSet(setups[i].cards) /\ IsList(job.cards)
      /\ ToSet(job.cards) \subseteq ToSet(setups[i].cards)
      /\ IsList(job.plan) /\ ToSet(job.plan) = ToSet(setups[i].plan) \cup {key}
  <2>1. IsList(setups[i].cards) /\ IsList(setups[i].plan)
    BY <1>2 DEF SetupFits
  <2>2. /\ Head(setups[i].cards) \in ToSet(setups[i].cards) /\ IsList(Tail(setups[i].cards))
        /\ ToSet(Tail(setups[i].cards)) \subseteq ToSet(setups[i].cards)
    BY <1>1, <2>1, ListsMove
  <2> HIDE DEF key
  <2>3. IsList(Append(setups[i].plan, key)) /\ ToSet(Append(setups[i].plan, key)) = ToSet(setups[i].plan) \cup {key}
    BY <2>1, ListsMove
  <2> QED BY <1>3, <2>2, <2>3 DEF key
<1> HIDE DEF job
<1>5. SetupFits(job)
  BY <1>1, <1>2, <1>3, <1>4 DEF SetupFits, SetupPlaces
<1>6. SetupShape'
  BY <1>1, <1>2, <1>5, ShapeKeeps DEF SetupShape
<1>7. Orderly'
  <2>1. ~Rewrites(job) /\ Suits(job, columns) /\ ~HalfWritten(setups[i])
    BY <1>1, <1>2, <1>3 DEF Rewrites, Suits, HalfWritten
  <2> QED BY <1>1, <1>2, <2>1, OrderKeeps
<1>8. Standing'
  <2>1. SUFFICES ASSUME Rests PROVE Rests'
    BY <1>1, <1>2 DEF Standing
  <2>2. /\ setups[i].rules = BoardRules /\ IsKey(key) /\ RanOnce(staleFired, stalls)
        /\ \A k \in ToSet(setups[i].plan) : Fired(k) \in DOMAIN stalls
        /\ \A k \in ToSet(setups[i].cards) : IsKey(k)
    BY <1>1, <1>2, <1>4, <2>1 DEF Rests, ReadsFirst
  <2>3. of = Fired(key)
    BY <2>2 DEF Fired
  <2>4. /\ RanOnce(staleFired', stalls') /\ DOMAIN stalls \subseteq DOMAIN stalls'
        /\ Fired(key) \in DOMAIN stalls'
    <3>1. CASE key \in staleFired
      BY <1>1, <2>2, <3>1 DEF RanOnce
    <3>2. CASE key \notin staleFired
      <4>1. Fired(key) \notin DOMAIN stalls
            /\ DOMAIN Ran(stalls, Fired(key), 1) = DOMAIN stalls \cup {Fired(key)}
            /\ RanOnce(staleFired \cup {key}, Ran(stalls, Fired(key), 1))
        BY <2>2, <3>2, FiringAdds
      <4>2. stalls' = Ran(stalls, Fired(key), 1) /\ staleFired' = staleFired \cup {key}
        BY <1>1, <2>3, <3>2, <4>1
      <4> QED BY <4>1, <4>2
    <3> QED BY <3>1, <3>2
  <2> HIDE DEF key, of, before
  <2>5. ReadsFirst(job, DOMAIN stalls')
    BY <1>1, <1>2, <1>3, <1>4, <2>2, <2>4 DEF ReadsFirst
  <2>6. \A k \in DOMAIN setups' : k \in DOMAIN setups /\ setups'[k] \in {setups[k], job}
    BY <1>1 DEF Sets
  <2>7. \A k \in DOMAIN setups : ReadsFirst(setups[k], DOMAIN stalls')
    BY <2>1, <2>4 DEF Rests, ReadsFirst
  <2> QED BY <1>1, <2>1, <2>4, <2>5, <2>6, <2>7 DEF Rests
<1> QED BY <1>6, <1>7, <1>8 DEF SetupInv

------------------------------------------------------------------------------
LEMMA SetupBegins ==
    ASSUME SetupAssumption, SetupInit
    PROVE  SetupInv
<1>1. PICK scene \in SetupScenes :
          setups = [i \in DOMAIN scene |-> [ask |-> scene[i], at |-> "board", rules |-> <<>>,
                                            columns |-> <<>>, cards |-> <<>>, edition |-> 0, plan |-> <<>>]]
  BY DEF SetupInit
<1>2. IsList(<<>>)
  BY DEF IsList, ToSet
<1>3. ASSUME NEW i \in DOMAIN setups
      PROVE  SetupFits(setups[i]) /\ setups[i].at = "board" /\ setups[i].plan = <<>>
  <2>1. setups[i] = [ask |-> scene[i], at |-> "board", rules |-> <<>>, columns |-> <<>>,
                     cards |-> <<>>, edition |-> 0, plan |-> <<>>] /\ i \in DOMAIN scene
    BY <1>1
  <2>2. /\ scene[i].does \in {"columns", "rules", "move", "tick"}
        /\ scene[i].does = "rules" => IsList(scene[i].rules)
    BY <2>1 DEF SetupAssumption
  <2> QED BY <1>2, <2>1, <2>2 DEF SetupFits, SetupFields, SetupPlaces
<1>4. SetupShape
  BY <1>3 DEF SetupInit, SetupShape, SetupAssumption
<1>5. Orderly
  BY <1>3 DEF SetupInit, Orderly, RulesSuit, OneRewrites, Suits, HalfWritten, Rewrites, AllValid, SetupAssumption
<1>6. Standing
  <2>1. RanOnce(staleFired, stalls)
    BY DEF SetupInit, RanOnce
  <2>2. \A i \in DOMAIN setups : ReadsFirst(setups[i], DOMAIN stalls)
    BY <1>3 DEF ReadsFirst, ToSet
  <2> QED BY <2>1, <2>2 DEF Standing, Rests, SetupInit
<1> QED BY <1>4, <1>5, <1>6 DEF SetupInv

LEMMA SetupGoesOn ==
    ASSUME SetupAssumption, RulesDiffer, SetupInv, [SetupNext]_setupVars
    PROVE  SetupInv'
<1>1. CASE UNCHANGED setupVars
  <2>1. SetupShape'
    BY <1>1 DEF setupVars, SetupInv, SetupShape
  <2>2. Orderly'
    BY <1>1 DEF setupVars, SetupInv, Orderly, RulesSuit, OneRewrites
  <2>3. Standing'
    BY <1>1 DEF setupVars, SetupInv, Standing, Rests
  <2> QED BY <2>1, <2>2, <2>3 DEF SetupInv
<1>2. CASE SetupNext
  BY <1>2, ReadBoardKeeps, ReadColumnsKeeps, ListCardsKeeps, ReplaceColumnsKeeps, WriteRulesKeeps,
     MoveCardKeeps, TickCardsKeeps, TickFireKeeps, TickDoneKeeps, WaitsKeeps, DiesKeeps DEF SetupNext
<1> QED BY <1>1, <1>2

LEMMA RulesStaySound ==
    ASSUME SetupInv
    PROVE  RulesAreSound
<1>1. RulesKnowTheirColumns
  BY DEF SetupInv, SetupShape, Orderly, RulesSuit, HalfWritten, AllValid, RulesKnowTheirColumns, Wants
<1>2. StaleFiresOnce
  <2>1. SUFFICES ASSUME Rests PROVE
          /\ \A of \in DOMAIN stalls : stalls[of] = 1
          /\ \A i \in DOMAIN setups : Wants(i, {"tick"}) => \A key \in ToSet(setups[i].plan) :
                 <<key[1], key[2], setups[i].rules[key[3]]>> \in DOMAIN stalls
    BY DEF SetupInv, Standing, StaleFiresOnce
  <2>2. ASSUME NEW i \in DOMAIN setups, Wants(i, {"tick"}), NEW key \in ToSet(setups[i].plan)
        PROVE  <<key[1], key[2], setups[i].rules[key[3]]>> \in DOMAIN stalls
    <3>1. setups[i].plan # <<>>
      BY <2>2 DEF ToSet
    <3>2. setups[i].rules = BoardRules /\ Fired(key) \in DOMAIN stalls
      BY <2>1, <2>2, <3>1 DEF Rests, ReadsFirst, Wants
    <3> QED BY <3>2 DEF Fired
  <2> QED BY <2>1, <2>2 DEF Rests, RanOnce
<1> QED BY <1>1, <1>2 DEF RulesAreSound

(* The automations name only columns that are there, as long as saves do not    *)
(* overlap and the process does not end between two writes, and while they stay *)
(* each fires once for a card that stands still (service.rs:2056): for any      *)
(* columns, cards, calls and automations that differ from each other.           *)
THEOREM RulesAreSoundHolds ==
    ASSUME RulesDiffer
    PROVE  SetupSpec => []RulesAreSound
<1>1. SetupInit => SetupInv
  BY SetupBegins, SetupAssumption
<1>2. SetupInv /\ [SetupNext]_setupVars => SetupInv'
  BY SetupGoesOn, SetupAssumption
<1>3. SetupInv => RulesAreSound
  BY RulesStaySound
<1> QED BY <1>1, <1>2, <1>3, PTL DEF SetupSpec

------------------------------------------------------------------------------
(* The library of skills: of the readers that still have to put what they read, *)
(* the one that read last saw all of the folders, or the watcher has been told  *)
(* of what it did not see. The database follows the catalog the same way.       *)

FoldersKnown == ToSet(SkillFolders)
EventsKnown == [kind : {"create", "modify", "remove"}, what : {"folder", "skill", "other"}]
IsShelf(shelf) ==
    shelf = NoFolder \/ (DOMAIN shelf = {"file", "tmp"} /\ IsText(shelf.file) /\ IsText(shelf.tmp))
JobPlaces == {"check", "create", "open", "fill", "rename", "copy", "rest", "files", "folder",
              "user", "load", "set", "read", "sync", "done", "invalid", "refused", "io"}
\* What a command asks suits what it does.
LibraryFits(job) ==
    /\ DOMAIN job = {"ask", "at", "view"} /\ job.at \in JobPlaces
    /\ job.ask.op \in {"save", "import", "delete", "put", "move", "touch", "sync"}
    /\ job.ask.op \notin {"touch", "sync"} => job.ask.folder \in FoldersKnown
    /\ job.ask.op = "move" => job.ask.to \in FoldersKnown
    /\ job.ask.op \in {"save", "import", "put"} => job.ask.text # "half"
    /\ job.at \in {"create", "open", "fill", "rename", "copy", "rest", "files"} =>
         job.ask.op \in {"save", "import"}
    /\ job.at = "folder" => job.ask.op = "delete"
LibraryShape ==
    /\ DOMAIN shelves = FoldersKnown /\ \A f \in FoldersKnown : IsShelf(shelves[f])
    /\ events \in Seq(EventsKnown)
    /\ DOMAIN watcher = {"at", "changed", "loaded"} /\ watcher.changed \in BOOLEAN
    /\ watcher.at \in {"idle", "burst", "load", "set"} /\ (watcher.changed => watcher.at = "burst")
    /\ IsList(libraryJobs) /\ \A i \in DOMAIN libraryJobs : LibraryFits(libraryJobs[i])
    /\ overtaken \in BOOLEAN /\ movedWhole \in BOOLEAN
    /\ DOMAIN readsKept = {"catalog", "mirror"}

\* Half a file is where an import wrote, or two saves; and nobody who renames a
\* file that he wrote alone renames one that is half written.
NoHalf(shelf, f, known) == shelf # NoFolder /\ IsHalf(shelf.file) => f \in known
RenamesWhole(job, disk, known) ==
    job.at = "rename" /\ disk[job.ask.folder] # NoFolder /\ IsHalf(disk[job.ask.folder].tmp) =>
        job.ask.folder \in known
NoHalfSeen(view, known) ==
    \A n \in SkillNames : view[n] # NoSkill /\ view[n].text = "half" => view[n].dir \in known
HalvesKnown ==
    /\ \A f \in FoldersKnown : NoHalf(shelves[f], f, halves)
    /\ NoHalfSeen(skillCatalog, halves)
    /\ watcher.at = "set" => NoHalfSeen(watcher.loaded, halves)
    /\ \A i \in DOMAIN libraryJobs :
        /\ RenamesWhole(libraryJobs[i], shelves, halves)
        /\ libraryJobs[i].at = "set" => NoHalfSeen(libraryJobs[i].view, halves)

\* Who has read and not put yet is in the order of the reads, unless a newer
\* read was put before.
Queue(s) == s \in Seq(Nat) /\ \A m, n \in DOMAIN s : s[m] = s[n] => m = n
HoldsCatalog(who, w, jobs) ==
    \/ who = Watcher /\ w.at = "set"
    \/ who # Watcher /\ who \in DOMAIN jobs /\ jobs[who].at = "set"
ReadBy(who, w, jobs) == IF who = Watcher THEN w.loaded ELSE jobs[who].view
Told == (\E event \in ToSet(events) : Touches(event)) \/ watcher.changed \/ watcher.at = "load"
Newest(queue, w, jobs, now) == IF queue = <<>> THEN now ELSE ReadBy(Last(queue), w, jobs)
CatalogFollows ==
    /\ Queue(readsKept.catalog)
    /\ \A who \in ToSet(readsKept.catalog) : HoldsCatalog(who, watcher, libraryJobs)
    /\ overtaken \/ movedWhole \/ Told
         \/ Newest(readsKept.catalog, watcher, libraryJobs, skillCatalog) = Loaded(shelves)

HoldsMirror(who, jobs) == who \in DOMAIN jobs /\ jobs[who].at = "sync"
Agrees(table, catalog) == \A n \in SkillNames : catalog[n] # NoSkill => table[n] = catalog[n].text
MirrorNewest(queue, jobs, table, catalog) ==
    IF queue = <<>> THEN Agrees(table, catalog) ELSE jobs[Last(queue)].view = catalog
MirrorFollows ==
    /\ Queue(readsKept.mirror)
    /\ \A who \in ToSet(readsKept.mirror) : HoldsMirror(who, libraryJobs)
    /\ \/ overtaken \/ \E i \in DOMAIN libraryJobs : libraryJobs[i].at = "read"
       \/ MirrorNewest(readsKept.mirror, libraryJobs, mirror, skillCatalog)
LibraryInv == LibraryShape /\ HalvesKnown /\ CatalogFollows /\ MirrorFollows

------------------------------------------------------------------------------
(* Lists of events and of readers.                                              *)

LEMMA TellsAdds ==
    ASSUME NEW before \in Seq(EventsKnown), NEW more \in Seq(EventsKnown), NEW after,
           after = IF IsSuffix(more, before) THEN before ELSE before \o more
    PROVE  /\ after \in Seq(EventsKnown)
           /\ \A e \in ToSet(before) \cup ToSet(more) : e \in ToSet(after)
<1> HIDE DEF EventsKnown
<1> DEFINE m == Len(more)
           n == Len(before)
<1>1. m \in Nat /\ n \in Nat /\ DOMAIN more = 1 .. m /\ DOMAIN before = 1 .. n
  OBVIOUS
<1>2. CASE IsSuffix(more, before)
  <2>1. m <= n /\ \A j \in 1 .. m : Reverse(more)[j] = Reverse(before)[j]
    <3>1. /\ Len(Reverse(more)) = m /\ Len(Reverse(before)) = n
          /\ Reverse(more) \in Seq(EventsKnown) /\ Reverse(before) \in Seq(EventsKnown)
      BY <1>1 DEF Reverse
    <3>2. m <= n /\ SubSeq(Reverse(more), 1, m) = SubSeq(Reverse(before), 1, m)
      BY <1>2, <3>1 DEF IsSuffix, IsPrefix
    <3>3. \A j \in 1 .. m : SubSeq(Reverse(more), 1, m)[j] = Reverse(more)[j]
                            /\ SubSeq(Reverse(before), 1, m)[j] = Reverse(before)[j]
      <4> DEFINE a == Reverse(more)
                 b == Reverse(before)
      <4>1. a \in Seq(EventsKnown) /\ b \in Seq(EventsKnown) /\ Len(a) = m /\ Len(b) = n
        BY <3>1
      <4> HIDE DEF a, b
      <4>2. \A j \in 1 .. m : SubSeq(a, 1, m)[j] = a[j] /\ SubSeq(b, 1, m)[j] = b[j]
        BY <1>1, <3>2, <4>1
      <4> QED BY <4>2 DEF a, b
    <3> QED BY <3>2, <3>3
  <2>2. ASSUME NEW k \in 1 .. m PROVE more[k] \in ToSet(before)
    <3>1. m - k + 1 \in 1 .. m /\ n - m + k \in 1 .. n
      BY <1>1, <2>1
    <3>2. Reverse(more)[m - k + 1] = more[k] /\ Reverse(before)[m - k + 1] = before[n - m + k]
      BY <1>1, <2>1, <3>1 DEF Reverse
    <3> QED BY <1>1, <2>1, <3>1, <3>2 DEF ToSet
  <2> QED BY <1>1, <1>2, <2>2 DEF ToSet
<1>3. CASE ~IsSuffix(more, before)
  <2>1. after \in Seq(EventsKnown) /\ Len(after) = n + m
    BY <1>3
  <2>2. \A k \in 1 .. n : k \in DOMAIN after /\ after[k] = before[k]
    BY <1>1, <1>3
  <2>3. \A k \in 1 .. m : n + k \in DOMAIN after /\ after[n + k] = more[k]
    BY <1>1, <1>3
  <2> QED BY <1>1, <2>1, <2>2, <2>3 DEF ToSet
<1> QED BY <1>2, <1>3

\* What Put leaves of those who have read: who read later than the one that puts.
PlaceOf(s, who) == SelectInSeq(s, LAMBDA other : other = who)
LaterThan(s, who) == SubSeq(s, PlaceOf(s, who) + 1, Len(s))
LEMMA PlaceIsFirst ==
    ASSUME NEW s \in Seq(Nat), NEW who \in Nat
    PROVE  /\ PlaceOf(s, who) = 0 => who \notin ToSet(s)
           /\ PlaceOf(s, who) # 0 => PlaceOf(s, who) \in DOMAIN s /\ s[PlaceOf(s, who)] = who
<1> DEFINE I == {n \in 1 .. Len(s) : s[n] = who}
<1>1. PlaceOf(s, who) = IF I # {} THEN Min(I) ELSE 0
  BY DEF PlaceOf, SelectInSeq
<1>2. I \subseteq Nat /\ DOMAIN s = 1 .. Len(s)
  OBVIOUS
<1>3. I # {} => Min(I) \in I
  BY <1>2, LeastOne DEF Min
<1> QED BY <1>1, <1>2, <1>3 DEF ToSet

LEMMA SubSeqFrom ==
    ASSUME NEW s \in Seq(Nat), NEW a \in 1 .. (Len(s) + 1)
    PROVE  /\ SubSeq(s, a, Len(s)) \in Seq(Nat) /\ Len(SubSeq(s, a, Len(s))) = Len(s) - a + 1
           /\ \A n \in 1 .. (Len(s) - a + 1) : SubSeq(s, a, Len(s))[n] = s[a + n - 1]
<1>1. Len(s) \in Nat
  OBVIOUS
<1>2. SubSeq(s, a, Len(s)) \in Seq(Nat)
  OBVIOUS
<1>3. Len(SubSeq(s, a, Len(s))) = Len(s) - a + 1
  BY <1>1
<1>4. ASSUME NEW n \in 1 .. (Len(s) - a + 1) PROVE SubSeq(s, a, Len(s))[n] = s[a + n - 1]
  BY <1>1
<1> QED BY <1>2, <1>3, <1>4

LEMMA LaterKeepsOrder ==
    ASSUME NEW s, Queue(s), NEW who \in Nat
    PROVE  /\ Queue(LaterThan(s, who))
           /\ \A other \in ToSet(LaterThan(s, who)) : other \in ToSet(s) /\ other # who
           /\ PlaceOf(s, who) # 0 => /\ s # <<>>
                                     /\ LaterThan(s, who) = <<>> => Last(s) = who
                                     /\ LaterThan(s, who) # <<>> => Last(LaterThan(s, who)) = Last(s)
<1> DEFINE at == PlaceOf(s, who)
           later == LaterThan(s, who)
<1>1. s \in Seq(Nat) /\ Len(s) \in Nat /\ DOMAIN s = 1 .. Len(s)
  BY DEF Queue
<1>2. at \in 0 .. Len(s) /\ (at # 0 => s[at] = who) /\ (at = 0 => \A n \in 1 .. Len(s) : s[n] # who)
  BY <1>1, PlaceIsFirst DEF ToSet
<1>3. later = SubSeq(s, at + 1, Len(s))
  BY DEF LaterThan
<1> HIDE DEF at, later
<1>4. later \in Seq(Nat) /\ Len(later) = Len(s) - at /\ DOMAIN later = 1 .. Len(later)
      /\ \A n \in 1 .. (Len(s) - at) : later[n] = s[at + n]
  <2>1. at \in Nat /\ at + 1 \in 1 .. (Len(s) + 1)
    BY <1>1, <1>2
  <2>2. /\ later \in Seq(Nat) /\ Len(later) = Len(s) - (at + 1) + 1
        /\ \A n \in 1 .. (Len(s) - (at + 1) + 1) : later[n] = s[(at + 1) + n - 1]
    BY <1>1, <1>3, <2>1, SubSeqFrom
  <2>3. Len(s) - (at + 1) + 1 = Len(s) - at
    BY <1>1, <2>1
  <2>4. ASSUME NEW n \in 1 .. (Len(s) - at) PROVE (at + 1) + n - 1 = at + n
    BY <1>1, <2>1
  <2> QED BY <2>2, <2>3, <2>4
<1>10. at \in Nat /\ at <= Len(s)
  BY <1>1, <1>2
<1>11. ASSUME NEW n \in DOMAIN later
      PROVE  n \in Nat /\ n > 0 /\ at + n \in DOMAIN s /\ later[n] = s[at + n]
  <2>1. n \in 1 .. (Len(s) - at)
    BY <1>4
  <2>2. n \in Nat /\ n > 0 /\ at + n \in 1 .. Len(s)
    BY <1>1, <1>10, <2>1
  <2> QED BY <1>1, <1>4, <2>1, <2>2
<1>5. Queue(later)
  <2>1. ASSUME NEW m \in DOMAIN later, NEW n \in DOMAIN later, later[m] = later[n] PROVE m = n
    <3>1. s[at + m] = s[at + n] /\ at + m \in DOMAIN s /\ at + n \in DOMAIN s
      BY <1>11, <2>1
    <3> QED BY <1>10, <1>11, <3>1 DEF Queue
  <2> QED BY <1>4, <2>1 DEF Queue
<1>6. ASSUME NEW n \in DOMAIN later PROVE later[n] \in ToSet(s) /\ later[n] # who
  <2>1. at + n \in DOMAIN s /\ later[n] = s[at + n] /\ at + n # at /\ n \in Nat /\ n > 0
    BY <1>10, <1>11
  <2>2. CASE at = 0
    BY <1>1, <1>2, <2>1, <2>2 DEF ToSet
  <2>3. CASE at # 0
    <3>1. at \in DOMAIN s
      BY <1>1, <1>2, <2>3
    <3>2. at + n # at
      BY <1>2, <2>1
    <3> QED BY <1>2, <2>1, <2>3, <3>1, <3>2 DEF ToSet, Queue
  <2> QED BY <2>2, <2>3
<1>7. ASSUME at # 0
      PROVE  /\ s # <<>> /\ (later = <<>> => Last(s) = who)
             /\ later # <<>> => Last(later) = Last(s)
  <2>1. s # <<>> /\ Len(s) > 0
    BY <1>1, <1>2, <1>7
  <2>2. later = <<>> => Last(s) = who
    BY <1>1, <1>2, <1>4, <1>7 DEF Last
  <2>3. later # <<>> => Last(later) = Last(s)
    <3>1. later # <<>> => Len(later) > 0
      BY <1>4
    <3>2. later # <<>> => Len(later) \in DOMAIN later /\ at + Len(later) = Len(s)
      BY <1>1, <1>10, <1>4, <3>1
    <3> QED BY <1>11, <3>2 DEF Last
  <2> QED BY <2>1, <2>2, <2>3
<1>8. \A other \in ToSet(later) : other \in ToSet(s) /\ other # who
  BY <1>6 DEF ToSet
<1> QED BY <1>5, <1>7, <1>8 DEF at, later

LEMMA QueueGrows ==
    ASSUME NEW s, Queue(s), NEW who \in Nat, who \notin ToSet(s)
    PROVE  /\ Queue(Append(s, who)) /\ Append(s, who) # <<>> /\ Last(Append(s, who)) = who
           /\ \A other \in ToSet(Append(s, who)) : other \in ToSet(s) \/ other = who
<1>1. s \in Seq(Nat) /\ Len(s) \in Nat /\ DOMAIN s = 1 .. Len(s)
  BY DEF Queue
<1> DEFINE more == Append(s, who)
<1>2. /\ more \in Seq(Nat) /\ Len(more) = Len(s) + 1 /\ DOMAIN more = 1 .. (Len(s) + 1)
      /\ more[Len(s) + 1] = who /\ \A n \in 1 .. Len(s) : more[n] = s[n]
  BY <1>1
<1> HIDE DEF more
<1>3. \A n \in 1 .. Len(s) : s[n] # who
  BY <1>1 DEF ToSet
<1>4. Queue(more)
  <2>1. ASSUME NEW m \in DOMAIN more, NEW n \in DOMAIN more, more[m] = more[n] PROVE m = n
    <3>1. CASE m = Len(s) + 1 \/ n = Len(s) + 1
      BY <1>1, <1>2, <1>3, <2>1, <3>1
    <3>2. CASE m \in 1 .. Len(s) /\ n \in 1 .. Len(s)
      BY <1>1, <1>2, <2>1, <3>2 DEF Queue
    <3> QED BY <1>1, <1>2, <3>1, <3>2
  <2> QED BY <1>2, <2>1 DEF Queue
<1>5. more # <<>> /\ Last(more) = who
  BY <1>1, <1>2 DEF Last
<1>6. \A other \in ToSet(more) : other \in ToSet(s) \/ other = who
  BY <1>1, <1>2 DEF ToSet
<1> QED BY <1>4, <1>5, <1>6 DEF more

LEMMA ListTakes ==
    ASSUME NEW s, IsList(s), NEW i \in DOMAIN s, NEW e
    PROVE  /\ IsList([s EXCEPT ![i] = e]) /\ DOMAIN [s EXCEPT ![i] = e] = DOMAIN s
           /\ [s EXCEPT ![i] = e][i] = e
           /\ \A k \in DOMAIN s : k # i => [s EXCEPT ![i] = e][k] = s[k]
<1> DEFINE t == [s EXCEPT ![i] = e]
<1>1. DOMAIN s = 1 .. Len(s) /\ Len(s) \in Nat
  BY DEF IsList
<1>2. DOMAIN t = DOMAIN s /\ t[i] = e /\ \A k \in DOMAIN s : k # i => t[k] = s[k]
  OBVIOUS
<1>3. t \in [1 .. Len(s) -> ToSet(t)]
  BY <1>1 DEF ToSet
<1> HIDE DEF t
<1>4. IsList(t)
  BY <1>1, <1>3 DEF IsList
<1> QED BY <1>2, <1>4 DEF t

------------------------------------------------------------------------------
(* What the folders hold, as it is read.                                        *)

\* The skill of a folder is the same before and after.
SameSkill(a, b) ==
    /\ (a # NoFolder /\ a.file # NoFile) <=> (b # NoFolder /\ b.file # NoFile)
    /\ a # NoFolder /\ a.file # NoFile => a.file = b.file

LEMMA FirstNamed ==
    ASSUME NEW disk, NEW name, LibraryAssumption, Named(disk, name) # {}
    PROVE  /\ Min(Named(disk, name)) \in Named(disk, name)
           /\ SkillFolders[Min(Named(disk, name))] \in FoldersKnown
<1>1. Named(disk, name) \subseteq DOMAIN SkillFolders /\ DOMAIN SkillFolders \subseteq Nat
  BY DEF Named, LibraryAssumption
<1>2. Min(Named(disk, name)) \in Named(disk, name)
  BY <1>1, LeastOne DEF Min
<1> QED BY <1>1, <1>2 DEF FoldersKnown, ToSet

LEMMA LoadedIsSame ==
    ASSUME LibraryAssumption, NEW before, NEW after,
           \A f \in FoldersKnown : SameSkill(before[f], after[f])
    PROVE  Loaded(after) = Loaded(before)
<1>1. \A i \in DOMAIN SkillFolders : SkillFolders[i] \in FoldersKnown
  BY DEF FoldersKnown, ToSet
<1>2. ASSUME NEW name PROVE Named(after, name) = Named(before, name)
  BY <1>1 DEF Named, HasSkill, SameSkill
<1>3. ASSUME NEW name, Named(before, name) # {}
      PROVE  LET f == SkillFolders[Min(Named(before, name))] IN after[f].file = before[f].file
  <2> DEFINE n == Min(Named(before, name))
  <2>1. n \in Named(before, name) /\ SkillFolders[n] \in FoldersKnown
    BY <1>3, FirstNamed
  <2>2. HasSkill(before, SkillFolders[n])
    BY <2>1 DEF Named
  <2> QED BY <2>1, <2>2 DEF HasSkill, SameSkill
<1> QED BY <1>2, <1>3 DEF Loaded

LEMMA LoadedShowsNoHalf ==
    ASSUME LibraryAssumption, NEW disk, NEW known, \A f \in FoldersKnown : NoHalf(disk[f], f, known)
    PROVE  NoHalfSeen(Loaded(disk), known)
<1>1. SUFFICES ASSUME NEW name \in SkillNames, Loaded(disk)[name] # NoSkill,
                      Loaded(disk)[name].text = "half"
               PROVE  Loaded(disk)[name].dir \in known
  BY DEF NoHalfSeen
<1> DEFINE n == Min(Named(disk, name))
           f == SkillFolders[n]
<1>2. Loaded(disk)[name] = IF Named(disk, name) # {} THEN [text |-> disk[f].file.text, dir |-> f]
                           ELSE IF name \in Builtin THEN [text |-> "builtin", dir |-> "builtin"]
                           ELSE NoSkill
  BY DEF Loaded
<1>3. Named(disk, name) # {}
  BY <1>1, <1>2
<1>4. n \in Named(disk, name) /\ f \in FoldersKnown
  BY <1>3, FirstNamed
<1> HIDE DEF n
<1>5. HasSkill(disk, f)
  BY <1>4 DEF Named
<1>6. disk[f].file.text = "half" /\ Loaded(disk)[name].dir = f
  BY <1>1, <1>2, <1>3
<1> QED BY <1>4, <1>5, <1>6 DEF NoHalf, HasSkill, IsHalf

LEMMA SeenGrows ==
    ASSUME NEW view, NEW known, NEW more, known \subseteq more, NoHalfSeen(view, known)
    PROVE  NoHalfSeen(view, more)
BY DEF NoHalfSeen

------------------------------------------------------------------------------
(* What a step of a command keeps that neither reads the folders nor puts what  *)
(* was read.                                                                    *)

Apart == {"load", "set", "read", "sync"}
JobAt(job, at) == [job EXCEPT !.at = at]
LEMMA CommandGoes ==
    ASSUME NEW i \in DOMAIN libraryJobs, NEW at, LibraryShape, LibraryGoes(i, at)
    PROVE  /\ IsList(libraryJobs') /\ DOMAIN libraryJobs' = DOMAIN libraryJobs
           /\ \A k \in DOMAIN libraryJobs : k # i => libraryJobs'[k] = libraryJobs[k]
           /\ libraryJobs'[i].at = at /\ libraryJobs'[i].ask = libraryJobs[i].ask
           /\ libraryJobs'[i].view = libraryJobs[i].view
           /\ DOMAIN libraryJobs'[i] = {"ask", "at", "view"}
<1>1. IsList(libraryJobs) /\ DOMAIN libraryJobs[i] = {"ask", "at", "view"}
  BY DEF LibraryShape, LibraryFits
<1>2. libraryJobs' = [libraryJobs EXCEPT ![i] = JobAt(libraryJobs[i], at)]
  BY DEF LibraryGoes, JobAt
<1>3. LET job == JobAt(libraryJobs[i], at) IN
      job.at = at /\ job.ask = libraryJobs[i].ask /\ job.view = libraryJobs[i].view
      /\ DOMAIN job = {"ask", "at", "view"}
  BY <1>1 DEF JobAt
<1> QED BY <1>1, <1>2, <1>3, ListTakes

LEMMA CommandKeeps ==
    ASSUME NEW i \in DOMAIN libraryJobs, NEW at, LibraryAssumption, LibraryInv, LibraryGoes(i, at),
           libraryJobs[i].at \notin Apart, at \notin Apart \ {"load"}, LibraryFits(libraryJobs'[i]),
           DOMAIN shelves' = FoldersKnown, \A f \in FoldersKnown : IsShelf(shelves'[f]),
           events' \in Seq(EventsKnown), \A e \in ToSet(events) : e \in ToSet(events'),
           \/ movedWhole' = TRUE
             \/ (movedWhole' = movedWhole /\ Loaded(shelves') = Loaded(shelves))
             \/ (movedWhole' = movedWhole /\ \E e \in ToSet(events') : Touches(e)),
           halves \subseteq halves', \A f \in FoldersKnown : NoHalf(shelves'[f], f, halves'),
           \A k \in DOMAIN libraryJobs' : RenamesWhole(libraryJobs'[k], shelves', halves'),
           UNCHANGED <<skillCatalog, mirror, watcher, readsKept, overtaken>>
    PROVE  LibraryInv'
<1>1. LibraryShape /\ HalvesKnown /\ CatalogFollows /\ MirrorFollows
  BY DEF LibraryInv
<1>2. /\ IsList(libraryJobs') /\ DOMAIN libraryJobs' = DOMAIN libraryJobs
      /\ \A k \in DOMAIN libraryJobs : k # i => libraryJobs'[k] = libraryJobs[k]
      /\ libraryJobs'[i].at = at /\ libraryJobs'[i].view = libraryJobs[i].view
  BY <1>1, CommandGoes
<1>3. LibraryShape'
  <2>1. movedWhole' \in BOOLEAN
    BY <1>1 DEF LibraryShape
  <2> QED BY <1>1, <1>2, <2>1 DEF LibraryShape
<1>4. HalvesKnown'
  <2>1. NoHalfSeen(skillCatalog', halves') /\ (watcher'.at = "set" => NoHalfSeen(watcher'.loaded, halves'))
    BY <1>1, SeenGrows DEF HalvesKnown
  <2>2. \A k \in DOMAIN libraryJobs' : libraryJobs'[k].at = "set" => NoHalfSeen(libraryJobs'[k].view, halves')
    BY <1>1, <1>2, SeenGrows DEF HalvesKnown, Apart
  <2> QED BY <2>1, <2>2 DEF HalvesKnown
<1>5. \A k \in DOMAIN libraryJobs :
          libraryJobs[k].at \in {"set", "read", "sync"} => libraryJobs'[k] = libraryJobs[k]
  BY <1>2 DEF Apart
<1>6. CatalogFollows'
  <2>1. \A who \in ToSet(readsKept.catalog) :
            /\ HoldsCatalog(who, watcher, libraryJobs')
            /\ ReadBy(who, watcher, libraryJobs') = ReadBy(who, watcher, libraryJobs)
    BY <1>1, <1>2, <1>5 DEF CatalogFollows, HoldsCatalog, ReadBy
  <2>2. readsKept.catalog # <<>> => Last(readsKept.catalog) \in ToSet(readsKept.catalog)
    BY <1>1 DEF CatalogFollows, Queue, Last, ToSet
  <2>3. Newest(readsKept.catalog, watcher, libraryJobs', skillCatalog)
          = Newest(readsKept.catalog, watcher, libraryJobs, skillCatalog)
    BY <2>1, <2>2 DEF Newest
  <2>4. Told => Told'
    BY DEF Told
  <2>5. (\E e \in ToSet(events') : Touches(e)) => Told'
    BY DEF Told
  <2>6. overtaken \/ movedWhole' \/ Told'
          \/ Newest(readsKept.catalog, watcher, libraryJobs', skillCatalog) = Loaded(shelves')
    BY <1>1, <2>3, <2>4, <2>5 DEF CatalogFollows
  <2> QED BY <1>1, <2>1, <2>6 DEF CatalogFollows
<1>7. MirrorFollows'
  <2>1. \A who \in ToSet(readsKept.mirror) :
            HoldsMirror(who, libraryJobs') /\ libraryJobs'[who] = libraryJobs[who]
    BY <1>1, <1>2, <1>5 DEF MirrorFollows, HoldsMirror
  <2>2. readsKept.mirror # <<>> => Last(readsKept.mirror) \in ToSet(readsKept.mirror)
    BY <1>1 DEF MirrorFollows, Queue, Last, ToSet
  <2>3. MirrorNewest(readsKept.mirror, libraryJobs', mirror, skillCatalog)
          <=> MirrorNewest(readsKept.mirror, libraryJobs, mirror, skillCatalog)
    BY <2>1, <2>2 DEF MirrorNewest
  <2>4. (\E k \in DOMAIN libraryJobs : libraryJobs[k].at = "read")
          => \E k \in DOMAIN libraryJobs' : libraryJobs'[k].at = "read"
    BY <1>2, <1>5
  <2> QED BY <1>1, <2>1, <2>3, <2>4 DEF MirrorFollows
<1> QED BY <1>3, <1>4, <1>6, <1>7 DEF LibraryInv

\* A step that tells of what it does to one folder.
LEMMA FolderKeeps ==
    ASSUME NEW i \in DOMAIN libraryJobs, NEW at, NEW f \in FoldersKnown, NEW shelf,
           NEW more \in Seq(EventsKnown),
           LibraryAssumption, LibraryInv, LibraryGoes(i, at),
           libraryJobs[i].at \notin Apart, at \notin Apart \ {"load"}, LibraryFits(libraryJobs'[i]),
           shelves' = [shelves EXCEPT ![f] = shelf], IsShelf(shelf), Tells(more),
           (\E e \in ToSet(more) : Touches(e)) \/ SameSkill(shelves[f], shelf),
           halves \subseteq halves', NoHalf(shelf, f, halves'),
           shelf # NoFolder /\ IsHalf(shelf.tmp) =>
               \/ f \in halves'
               \/ \A k \in DOMAIN libraryJobs' : libraryJobs'[k].at = "rename" => libraryJobs'[k].ask.folder # f,
           UNCHANGED <<skillCatalog, mirror, watcher, readsKept, overtaken, movedWhole>>,
           at = "rename" => libraryJobs[i].ask.folder = f
    PROVE  LibraryInv'
<1>1. LibraryShape /\ HalvesKnown
  BY DEF LibraryInv
<1>2. /\ shelves'[f] = shelf /\ DOMAIN shelves' = FoldersKnown
      /\ \A g \in FoldersKnown : g # f => shelves'[g] = shelves[g]
  BY <1>1 DEF LibraryShape
<1>3. \A g \in FoldersKnown : IsShelf(shelves'[g]) /\ NoHalf(shelves'[g], g, halves')
  BY <1>1, <1>2 DEF LibraryShape, HalvesKnown, NoHalf
<1>4. events' \in Seq(EventsKnown) /\ \A e \in ToSet(events) \cup ToSet(more) : e \in ToSet(events')
  BY <1>1, TellsAdds DEF LibraryShape, Tells
<1>5. \/ Loaded(shelves') = Loaded(shelves)
      \/ \E e \in ToSet(events') : Touches(e)
  <2>1. CASE \E e \in ToSet(more) : Touches(e)
    BY <1>4, <2>1
  <2>2. CASE SameSkill(shelves[f], shelf)
    <3>1. \A g \in FoldersKnown : SameSkill(shelves[g], shelves'[g])
      BY <1>2, <2>2 DEF SameSkill
    <3> QED BY <3>1, LoadedIsSame
  <2> QED BY <2>1, <2>2
<1>6. /\ DOMAIN libraryJobs' = DOMAIN libraryJobs
      /\ \A k \in DOMAIN libraryJobs : k # i => libraryJobs'[k] = libraryJobs[k]
      /\ libraryJobs'[i].at = at /\ libraryJobs'[i].ask = libraryJobs[i].ask
  BY <1>1, CommandGoes
<1>7. ASSUME NEW k \in DOMAIN libraryJobs' PROVE RenamesWhole(libraryJobs'[k], shelves', halves')
  <2>1. CASE k = i
    BY <1>2, <1>6, <2>1 DEF RenamesWhole
  <2>2. CASE k # i
    <3>1. libraryJobs'[k] = libraryJobs[k] /\ RenamesWhole(libraryJobs[k], shelves, halves)
          /\ LibraryFits(libraryJobs[k])
      BY <1>1, <1>6, <2>2 DEF HalvesKnown, LibraryShape
    <3>2. CASE libraryJobs[k].at = "rename"
      <4>1. libraryJobs[k].ask.folder \in FoldersKnown
        BY <3>1, <3>2 DEF LibraryFits
      <4> QED BY <1>2, <1>6, <3>1, <3>2, <4>1 DEF RenamesWhole
    <3>3. CASE libraryJobs[k].at # "rename"
      BY <3>1, <3>3 DEF RenamesWhole
    <3> QED BY <3>2, <3>3
  <2> QED BY <2>1, <2>2
<1> QED BY <1>2, <1>3, <1>4, <1>5, <1>7, CommandKeeps

\* A step that leaves the folders alone.
LEMMA NothingTouched ==
    ASSUME NEW i \in DOMAIN libraryJobs, NEW at, LibraryAssumption, LibraryInv, LibraryGoes(i, at),
           libraryJobs[i].at \notin Apart, at \notin Apart \ {"load"}, LibraryFits(libraryJobs'[i]),
           at = "rename" => shelves[libraryJobs[i].ask.folder] = NoFolder
                              \/ ~IsHalf(shelves[libraryJobs[i].ask.folder].tmp),
           events' \in Seq(EventsKnown), \A e \in ToSet(events) : e \in ToSet(events'),
           UNCHANGED <<shelves, skillCatalog, mirror, watcher, histories>>
    PROVE  LibraryInv'
<1>1. LibraryShape /\ HalvesKnown
  BY DEF LibraryInv
<1>2. /\ DOMAIN libraryJobs' = DOMAIN libraryJobs
      /\ \A k \in DOMAIN libraryJobs : k # i => libraryJobs'[k] = libraryJobs[k]
      /\ libraryJobs'[i].at = at /\ libraryJobs'[i].ask = libraryJobs[i].ask
  BY <1>1, CommandGoes
<1>3. UNCHANGED <<shelves, skillCatalog, mirror, watcher, readsKept, overtaken, halves, movedWhole>>
  BY DEF histories
<1>4. \A k \in DOMAIN libraryJobs' : RenamesWhole(libraryJobs'[k], shelves', halves')
  BY <1>1, <1>2, <1>3 DEF HalvesKnown, RenamesWhole
<1>5. DOMAIN shelves' = FoldersKnown /\ \A f \in FoldersKnown : IsShelf(shelves'[f]) /\ NoHalf(shelves'[f], f, halves')
  BY <1>1, <1>3 DEF LibraryShape, HalvesKnown
<1> QED BY <1>3, <1>4, <1>5, CommandKeeps

LEMMA EventsAreKnown ==
    ASSUME NEW kind \in {"create", "modify", "remove"}, NEW what \in {"folder", "skill", "other"}
    PROVE  /\ <<Event(kind, what)>> \in Seq(EventsKnown)
           /\ what = "skill" \/ (what = "folder" /\ kind # "modify") =>
                \E e \in ToSet(<<Event(kind, what)>>) : Touches(e)
<1> DEFINE s == <<Event(kind, what)>>
<1>1. Event(kind, what) \in EventsKnown
  BY DEF Event, EventsKnown
<1>2. s \in Seq(EventsKnown) /\ 1 \in DOMAIN s /\ s[1] = Event(kind, what)
  BY <1>1
<1> HIDE DEF s
<1>3. Event(kind, what) \in ToSet(s)
  BY <1>2 DEF ToSet
<1> QED BY <1>2, <1>3 DEF Touches, Event, s

\* A command that goes on asks the same.
LEMMA StillFits ==
    ASSUME NEW i \in DOMAIN libraryJobs, NEW at \in JobPlaces, LibraryInv, LibraryGoes(i, at),
           at \in {"create", "open", "fill", "rename", "copy", "rest", "files"} =>
               libraryJobs[i].ask.op \in {"save", "import"},
           at = "folder" => libraryJobs[i].ask.op = "delete"
    PROVE  LibraryFits(libraryJobs'[i])
<1>1. LibraryShape /\ LibraryFits(libraryJobs[i])
  BY DEF LibraryInv, LibraryShape
<1>2. /\ libraryJobs'[i].at = at /\ libraryJobs'[i].ask = libraryJobs[i].ask
      /\ DOMAIN libraryJobs'[i] = {"ask", "at", "view"}
  BY <1>1, CommandGoes
<1> QED BY <1>1, <1>2 DEF LibraryFits

------------------------------------------------------------------------------
(* The steps of the commands.                                                   *)

LEMMA CheckKeeps ==
    ASSUME NEW i \in DOMAIN libraryJobs, LibraryAssumption, LibraryInv, SkillChecked(i)
    PROVE  LibraryInv'
<1> DEFINE at == CASE Refused(Order0(i)) -> "invalid"
                   [] ~Refused(Order0(i)) /\ (shelves[Shelf(i)] = NoFolder) = Order0(i).editing -> "refused"
                   [] OTHER -> "create"
<1>1. /\ libraryJobs[i].at = "check" /\ libraryJobs[i].ask.op \in {"save", "import"} /\ LibraryGoes(i, at)
      /\ UNCHANGED <<shelves, skillCatalog, mirror, events, watcher, histories>>
  BY DEF SkillChecked, Order0
<1>2. at \in {"invalid", "refused", "create"}
  OBVIOUS
<1> HIDE DEF at
<1>3. LibraryFits(libraryJobs'[i])
  BY <1>1, <1>2, StillFits DEF JobPlaces
<1> QED BY <1>1, <1>2, <1>3, NothingTouched DEF LibraryInv, LibraryShape, Apart

LEMMA FolderMadeKeeps ==
    ASSUME NEW i \in DOMAIN libraryJobs, LibraryAssumption, LibraryInv, FolderMade(i)
    PROVE  LibraryInv'
<1> DEFINE at == IF Order0(i).op = "save" THEN "open" ELSE "copy"
           f == Shelf(i)
           shelf == [file |-> NoFile, tmp |-> NoFile]
           more == <<Event("create", "folder")>>
<1>1. /\ libraryJobs[i].at = "create" /\ LibraryGoes(i, at) /\ at \in {"open", "copy"}
      /\ UNCHANGED <<skillCatalog, mirror, watcher, histories>>
  BY DEF FolderMade
<1>2. LibraryShape /\ LibraryFits(libraryJobs[i])
  BY DEF LibraryInv, LibraryShape
<1>3. libraryJobs[i].ask.op \in {"save", "import"} /\ f \in FoldersKnown
  BY <1>1, <1>2 DEF LibraryFits, Shelf, Order0
<1>4. LibraryFits(libraryJobs'[i])
  BY <1>1, <1>3, StillFits DEF JobPlaces
<1>5. CASE UNCHANGED <<shelves, events>>
  BY <1>1, <1>2, <1>4, <1>5, NothingTouched DEF LibraryShape, Apart
<1>6. CASE shelves' = [shelves EXCEPT ![f] = shelf] /\ Tells(more)
  <2>1. more \in Seq(EventsKnown) /\ \E e \in ToSet(more) : Touches(e)
    BY EventsAreKnown
  <2>2. IsShelf(shelf) /\ NoHalf(shelf, f, halves) /\ ~IsHalf(shelf.tmp)
    BY DEF IsShelf, IsText, NoHalf, IsHalf
  <2>3. UNCHANGED <<halves, movedWhole, readsKept, overtaken>>
    BY <1>1 DEF histories
  <2> HIDE DEF at, f, shelf, more
  <2> QED BY <1>1, <1>3, <1>4, <1>6, <2>1, <2>2, <2>3, FolderKeeps DEF Apart
<1> QED BY <1>5, <1>6 DEF FolderMade

LEMMA OpenKeeps ==
    ASSUME NEW i \in DOMAIN libraryJobs, LibraryAssumption, LibraryInv, TmpOpened(i)
    PROVE  LibraryInv'
<1> DEFINE f == Shelf(i)
           shelf == Opened(shelves[f], Order0(i).name)
           more == <<Event("modify", "other")>>
<1>1. /\ libraryJobs[i].at = "open"
      /\ UNCHANGED <<skillCatalog, mirror, watcher, readsKept, overtaken, movedWhole>>
  BY DEF TmpOpened
<1>2. LibraryShape /\ LibraryFits(libraryJobs[i]) /\ HalvesKnown
  BY DEF LibraryInv, LibraryShape
<1>3. libraryJobs[i].ask.op \in {"save", "import"} /\ f \in FoldersKnown /\ f = libraryJobs[i].ask.folder
  BY <1>1, <1>2 DEF LibraryFits, Shelf, Order0
<1>4. CASE LibraryGoes(i, "io") /\ UNCHANGED <<shelves, events, halves>>
  <2>1. LibraryFits(libraryJobs'[i])
    BY <1>4, StillFits DEF JobPlaces
  <2> QED BY <1>1, <1>2, <1>4, <2>1, NothingTouched DEF LibraryShape, Apart, histories
<1>5. CASE /\ shelves[f] # NoFolder /\ LibraryGoes(i, "fill") /\ Tells(more)
           /\ shelves' = [shelves EXCEPT ![f] = shelf]
           /\ halves' = IF OthersIn(f, i) = {} THEN halves ELSE halves \union {f}
  <2>1. LibraryFits(libraryJobs'[i])
    BY <1>3, <1>5, StillFits DEF JobPlaces
  <2>2. more \in Seq(EventsKnown)
    BY EventsAreKnown
  <2>3. IsShelf(shelves[f]) /\ NoHalf(shelves[f], f, halves)
    BY <1>2, <1>3 DEF LibraryShape, HalvesKnown
  <2>4. /\ shelf.file = shelves[f].file /\ shelf.tmp = Half(Order0(i).name)
        /\ DOMAIN shelf = {"file", "tmp"} /\ shelf # NoFolder
    BY <1>5, <2>3 DEF Opened, IsShelf, NoFolder
  <2> HIDE DEF shelf
  <2>5. IsShelf(shelf)
    BY <1>5, <2>3, <2>4 DEF IsShelf, IsText, Half
  <2>6. SameSkill(shelves[f], shelf) /\ halves \subseteq halves' /\ NoHalf(shelf, f, halves')
    BY <1>5, <2>3, <2>4 DEF SameSkill, NoHalf
  <2>7. \/ f \in halves'
        \/ \A k \in DOMAIN libraryJobs' : libraryJobs'[k].at = "rename" => libraryJobs'[k].ask.folder # f
    <3>1. SUFFICES ASSUME OthersIn(f, i) = {},
                          NEW k \in DOMAIN libraryJobs', libraryJobs'[k].at = "rename",
                          libraryJobs'[k].ask.folder = f
                   PROVE  FALSE
      BY <1>5
    <3>2. k \in DOMAIN libraryJobs /\ k # i /\ libraryJobs'[k] = libraryJobs[k]
      BY <1>2, <1>5, <3>1, CommandGoes
    <3> QED BY <3>1, <3>2 DEF OthersIn, Shelf, Order0
  <2> HIDE DEF f, more
  <2> QED BY <1>1, <1>3, <1>5, <2>1, <2>2, <2>5, <2>6, <2>7, FolderKeeps DEF Apart
<1> QED BY <1>4, <1>5 DEF TmpOpened

LEMMA FillKeeps ==
    ASSUME NEW i \in DOMAIN libraryJobs, LibraryAssumption, LibraryInv, TmpFilled(i)
    PROVE  LibraryInv'
<1> DEFINE f == Shelf(i)
           text == [name |-> Order0(i).name, text |-> Order0(i).text]
           inTmp == [shelves[f] EXCEPT !.tmp = text]
           inFile == [shelves[f] EXCEPT !.file = text]
           other == <<Event("modify", "other")>>
           skill == <<Event("modify", "skill")>>
<1>1. /\ libraryJobs[i].at = "fill" /\ LibraryGoes(i, "rename")
      /\ UNCHANGED <<skillCatalog, mirror, watcher, histories>>
  BY DEF TmpFilled
<1>2. LibraryShape /\ LibraryFits(libraryJobs[i]) /\ HalvesKnown
  BY DEF LibraryInv, LibraryShape
<1>3. libraryJobs[i].ask.op \in {"save", "import"} /\ f \in FoldersKnown /\ f = libraryJobs[i].ask.folder
      /\ Order0(i).text # "half"
  BY <1>1, <1>2 DEF LibraryFits, Shelf, Order0
<1>4. LibraryFits(libraryJobs'[i])
  BY <1>1, <1>3, StillFits DEF JobPlaces
<1>5. ~IsHalf(text) /\ IsText(text) /\ text # NoFile
  BY <1>3 DEF IsHalf, IsText, NoFile
<1>6. UNCHANGED <<readsKept, overtaken, halves, movedWhole>>
  BY <1>1 DEF histories
<1>7. IsShelf(shelves[f]) /\ NoHalf(shelves[f], f, halves)
  BY <1>2, <1>3 DEF LibraryShape, HalvesKnown
<1> HIDE DEF text
<1>8. CASE shelves[f] # NoFolder /\ shelves' = [shelves EXCEPT ![f] = inTmp] /\ Tells(other)
  <2>1. other \in Seq(EventsKnown)
    BY EventsAreKnown
  <2>2. /\ inTmp.file = shelves[f].file /\ inTmp.tmp = text
        /\ DOMAIN inTmp = {"file", "tmp"} /\ inTmp # NoFolder
    BY <1>7, <1>8 DEF IsShelf, NoFolder
  <2> HIDE DEF inTmp
  <2>3. IsShelf(inTmp) /\ SameSkill(shelves[f], inTmp) /\ NoHalf(inTmp, f, halves') /\ ~IsHalf(inTmp.tmp)
    BY <1>5, <1>6, <1>7, <1>8, <2>2 DEF IsShelf, SameSkill, NoHalf
  <2> HIDE DEF f, other
  <2> QED BY <1>1, <1>3, <1>4, <1>6, <1>8, <2>1, <2>3, FolderKeeps DEF Apart
<1>9. CASE /\ shelves[f] # NoFolder /\ ~IsHalf(shelves[f].tmp)
           /\ shelves' = [shelves EXCEPT ![f] = inFile] /\ Tells(skill)
  <2>1. skill \in Seq(EventsKnown) /\ \E e \in ToSet(skill) : Touches(e)
    BY EventsAreKnown
  <2>2. /\ inFile.tmp = shelves[f].tmp /\ inFile.file = text
        /\ DOMAIN inFile = {"file", "tmp"} /\ inFile # NoFolder
    BY <1>7, <1>9 DEF IsShelf, NoFolder
  <2> HIDE DEF inFile
  <2>3. IsShelf(inFile) /\ NoHalf(inFile, f, halves') /\ ~IsHalf(inFile.tmp)
    BY <1>5, <1>7, <1>9, <2>2 DEF IsShelf, NoHalf
  <2> HIDE DEF f, skill
  <2> QED BY <1>1, <1>3, <1>4, <1>6, <1>9, <2>1, <2>3, FolderKeeps DEF Apart
<1>10. CASE (shelves[f] = NoFolder \/ ~IsHalf(shelves[f].tmp)) /\ UNCHANGED <<shelves, events>>
  BY <1>1, <1>2, <1>3, <1>4, <1>10, NothingTouched DEF LibraryShape, Apart
<1>11. \/ shelves[f] # NoFolder /\ shelves' = [shelves EXCEPT ![f] = inTmp] /\ Tells(other)
       \/ /\ shelves[f] # NoFolder /\ ~IsHalf(shelves[f].tmp)
          /\ shelves' = [shelves EXCEPT ![f] = inFile] /\ Tells(skill)
       \/ (shelves[f] = NoFolder \/ ~IsHalf(shelves[f].tmp)) /\ UNCHANGED <<shelves, events>>
  BY DEF TmpFilled, text
<1> QED BY <1>8, <1>9, <1>10, <1>11

LEMMA RenameKeeps ==
    ASSUME NEW i \in DOMAIN libraryJobs, LibraryAssumption, LibraryInv, TmpRenamed(i)
    PROVE  LibraryInv'
<1> DEFINE f == Shelf(i)
           shelf == [file |-> shelves[f].tmp, tmp |-> NoFile]
           skill == <<Event("modify", "skill")>>
<1>1. libraryJobs[i].at = "rename" /\ UNCHANGED <<skillCatalog, mirror, watcher, histories>>
  BY DEF TmpRenamed
<1>2. LibraryShape /\ LibraryFits(libraryJobs[i]) /\ HalvesKnown
  BY DEF LibraryInv, LibraryShape
<1>3. f \in FoldersKnown /\ f = libraryJobs[i].ask.folder
  BY <1>1, <1>2 DEF LibraryFits, Shelf, Order0
<1>4. CASE LibraryGoes(i, "io") /\ UNCHANGED <<shelves, events>>
  <2>1. LibraryFits(libraryJobs'[i])
    BY <1>4, StillFits DEF JobPlaces
  <2> QED BY <1>1, <1>2, <1>4, <2>1, NothingTouched DEF LibraryShape, Apart
<1>5. CASE /\ shelves[f] # NoFolder /\ LibraryGoes(i, "load") /\ Tells(skill)
           /\ shelves' = [shelves EXCEPT ![f] = shelf]
  <2>1. LibraryFits(libraryJobs'[i])
    BY <1>5, StillFits DEF JobPlaces
  <2>2. skill \in Seq(EventsKnown) /\ \E e \in ToSet(skill) : Touches(e)
    BY EventsAreKnown
  <2>3. UNCHANGED <<readsKept, overtaken, halves, movedWhole>>
    BY <1>1 DEF histories
  <2>4. IsShelf(shelf) /\ ~IsHalf(shelf.tmp)
    BY <1>2, <1>3, <1>5 DEF LibraryShape, IsShelf, IsText, IsHalf
  <2>5. NoHalf(shelf, f, halves)
    BY <1>1, <1>2, <1>3, <1>5 DEF HalvesKnown, RenamesWhole, NoHalf
  <2> HIDE DEF f, shelf, skill
  <2> QED BY <1>1, <1>3, <1>5, <2>1, <2>2, <2>3, <2>4, <2>5, FolderKeeps DEF Apart
<1> QED BY <1>4, <1>5 DEF TmpRenamed

LEMMA CopiesKeep ==
    ASSUME NEW i \in DOMAIN libraryJobs, NEW text, NEW kind \in {"create", "modify"}, NEW at \in {"rest", "files"},
           LibraryAssumption, LibraryInv, libraryJobs[i].at \in {"copy", "rest"},
           IsText(text), text # NoFile, Copies(i, text, Event(kind, "skill"), at)
    PROVE  LibraryInv'
<1> DEFINE f == Shelf(i)
           shelf == [shelves[f] EXCEPT !.file = text]
           skill == <<Event(kind, "skill")>>
<1>1. halves' = halves \union {f}
      /\ UNCHANGED <<skillCatalog, mirror, watcher, readsKept, overtaken, movedWhole>>
  BY DEF Copies
<1>2. LibraryShape /\ LibraryFits(libraryJobs[i]) /\ HalvesKnown
  BY DEF LibraryInv, LibraryShape
<1>3. libraryJobs[i].ask.op \in {"save", "import"} /\ f \in FoldersKnown /\ f = libraryJobs[i].ask.folder
  BY <1>2 DEF LibraryFits, Shelf, Order0
<1>4. CASE LibraryGoes(i, "io") /\ UNCHANGED <<shelves, events>>
  <2>1. LibraryFits(libraryJobs'[i])
    BY <1>4, StillFits DEF JobPlaces
  <2>2. \A k \in DOMAIN libraryJobs' : RenamesWhole(libraryJobs'[k], shelves', halves')
    <3>1. /\ DOMAIN libraryJobs' = DOMAIN libraryJobs
          /\ \A k \in DOMAIN libraryJobs : k # i => libraryJobs'[k] = libraryJobs[k]
          /\ libraryJobs'[i].at = "io"
      BY <1>2, <1>4, CommandGoes
    <3> QED BY <1>1, <1>2, <1>4, <3>1 DEF HalvesKnown, RenamesWhole
  <2>3. \A g \in FoldersKnown : IsShelf(shelves'[g]) /\ NoHalf(shelves'[g], g, halves')
    BY <1>1, <1>2, <1>4 DEF LibraryShape, HalvesKnown, NoHalf
  <2> QED BY <1>1, <1>2, <1>4, <2>1, <2>2, <2>3, CommandKeeps DEF LibraryShape, Apart
<1>5. CASE /\ shelves[f] # NoFolder /\ LibraryGoes(i, at) /\ Tells(skill)
           /\ shelves' = [shelves EXCEPT ![f] = shelf]
  <2>1. LibraryFits(libraryJobs'[i])
    BY <1>3, <1>5, StillFits DEF JobPlaces
  <2>2. skill \in Seq(EventsKnown) /\ \E e \in ToSet(skill) : Touches(e)
    BY EventsAreKnown
  <2>3. IsShelf(shelves[f])
    BY <1>2, <1>3 DEF LibraryShape
  <2>4. shelf.file = text /\ shelf.tmp = shelves[f].tmp /\ DOMAIN shelf = {"file", "tmp"}
    BY <1>5, <2>3 DEF IsShelf
  <2> HIDE DEF shelf
  <2>5. IsShelf(shelf) /\ NoHalf(shelf, f, halves') /\ f \in halves' /\ halves \subseteq halves'
    BY <1>1, <1>5, <2>3, <2>4 DEF IsShelf, NoHalf
  <2> HIDE DEF f, skill
  <2> QED BY <1>1, <1>3, <1>5, <2>1, <2>2, <2>5, FolderKeeps DEF Apart
<1> QED BY <1>4, <1>5 DEF Copies

LEMMA CopyKeeps ==
    ASSUME NEW i \in DOMAIN libraryJobs, LibraryAssumption, LibraryInv, SkillCopied(i)
    PROVE  LibraryInv'
<1> DEFINE text == [name |-> Order0(i).name, text |-> Order0(i).text]
<1>1. CASE libraryJobs[i].at = "copy" /\ Copies(i, Half(Order0(i).name), Event("create", "skill"), "rest")
  <2>1. IsText(Half(Order0(i).name)) /\ Half(Order0(i).name) # NoFile
    BY DEF IsText, Half, NoFile
  <2> QED BY <1>1, <2>1, CopiesKeep
<1>2. CASE libraryJobs[i].at = "rest" /\ Copies(i, text, Event("modify", "skill"), "files")
  <2>1. IsText(text) /\ text # NoFile
    BY DEF IsText, NoFile
  <2> HIDE DEF text
  <2> QED BY <1>2, <2>1, CopiesKeep
<1> QED BY <1>1, <1>2 DEF SkillCopied

LEMMA TellsOther ==
    ASSUME LibraryShape, Tells(<<Event("create", "other")>>) \/ Tells(<<Event("modify", "other")>>)
    PROVE  events' \in Seq(EventsKnown) /\ \A e \in ToSet(events) : e \in ToSet(events')
BY EventsAreKnown, TellsAdds DEF Tells, LibraryShape

LEMMA FilesKeep ==
    ASSUME NEW i \in DOMAIN libraryJobs, LibraryAssumption, LibraryInv, FilesCopied(i)
    PROVE  LibraryInv'
<1>1. libraryJobs[i].at = "files" /\ UNCHANGED <<shelves, skillCatalog, mirror, watcher, histories>>
  BY DEF FilesCopied
<1>2. LibraryShape
  BY DEF LibraryInv
<1>3. CASE LibraryGoes(i, "io") /\ UNCHANGED events
  <2>1. LibraryFits(libraryJobs'[i])
    BY <1>3, StillFits DEF JobPlaces
  <2> QED BY <1>1, <1>2, <1>3, <2>1, NothingTouched DEF LibraryShape, Apart
<1>4. CASE LibraryGoes(i, "load") /\ Tells(<<Event("create", "other")>>)
  <2>1. LibraryFits(libraryJobs'[i])
    BY <1>4, StillFits DEF JobPlaces
  <2>2. events' \in Seq(EventsKnown) /\ \A e \in ToSet(events) : e \in ToSet(events')
    BY <1>2, <1>4, TellsOther
  <2> QED BY <1>1, <1>4, <2>1, <2>2, NothingTouched DEF Apart
<1> QED BY <1>3, <1>4 DEF FilesCopied

LEMMA FilesDeletedKeeps ==
    ASSUME NEW i \in DOMAIN libraryJobs, LibraryAssumption, LibraryInv, FilesDeleted(i)
    PROVE  LibraryInv'
<1> DEFINE f == Shelf(i)
           shelf == [file |-> NoFile, tmp |-> NoFile]
           skill == <<Event("remove", "skill")>>
<1>1. libraryJobs[i].at = "check" /\ libraryJobs[i].ask.op = "delete"
      /\ UNCHANGED <<skillCatalog, mirror, watcher, histories>>
  BY DEF FilesDeleted, Order0
<1>2. LibraryShape /\ LibraryFits(libraryJobs[i]) /\ HalvesKnown
  BY DEF LibraryInv, LibraryShape
<1>3. f \in FoldersKnown
  BY <1>1, <1>2 DEF LibraryFits, Shelf, Order0
<1>4. CASE LibraryGoes(i, "refused") /\ UNCHANGED <<shelves, events>>
  <2>1. LibraryFits(libraryJobs'[i])
    BY <1>4, StillFits DEF JobPlaces
  <2> QED BY <1>1, <1>2, <1>4, <2>1, NothingTouched DEF LibraryShape, Apart
<1>5. CASE /\ shelves[f] # NoFolder /\ shelves' = [shelves EXCEPT ![f] = shelf] /\ LibraryGoes(i, "folder")
           /\ IF HasSkill(shelves, f) THEN Tells(skill) ELSE UNCHANGED events
  <2>1. LibraryFits(libraryJobs'[i])
    BY <1>1, <1>5, StillFits DEF JobPlaces
  <2>2. skill \in Seq(EventsKnown) /\ \E e \in ToSet(skill) : Touches(e)
    BY EventsAreKnown
  <2>3. IsShelf(shelf) /\ NoHalf(shelf, f, halves) /\ ~IsHalf(shelf.tmp) /\ shelf.file = NoFile
    BY DEF IsShelf, IsText, NoHalf, IsHalf
  <2>4. UNCHANGED <<readsKept, overtaken, halves, movedWhole>>
    BY <1>1 DEF histories
  <2>5. CASE HasSkill(shelves, f)
    <3> HIDE DEF f, shelf, skill
    <3> QED BY <1>1, <1>3, <1>5, <2>1, <2>2, <2>3, <2>4, <2>5, FolderKeeps DEF Apart
  <2>6. CASE ~HasSkill(shelves, f)
    <3>1. SameSkill(shelves[f], shelf)
      BY <1>5, <2>3, <2>6 DEF HasSkill, SameSkill
    <3>2. <<>> \in Seq(EventsKnown) /\ Tells(<<>>)
      <4>1. events \in Seq(EventsKnown)
        BY <1>2 DEF LibraryShape
      <4>2. events \o <<>> = events
        BY <4>1
      <4> QED BY <1>5, <2>6, <4>2 DEF Tells
    <3> HIDE DEF f, shelf
    <3> QED BY <1>1, <1>3, <1>5, <2>1, <2>3, <2>4, <3>1, <3>2, FolderKeeps DEF Apart
  <2> QED BY <2>5, <2>6
<1> QED BY <1>4, <1>5 DEF FilesDeleted

LEMMA FolderDeletedKeeps ==
    ASSUME NEW i \in DOMAIN libraryJobs, LibraryAssumption, LibraryInv, FolderDeleted(i)
    PROVE  LibraryInv'
<1> DEFINE f == Shelf(i)
           folder == <<Event("remove", "folder")>>
<1>1. libraryJobs[i].at = "folder" /\ UNCHANGED <<skillCatalog, mirror, watcher, histories>>
  BY DEF FolderDeleted
<1>2. LibraryShape /\ LibraryFits(libraryJobs[i])
  BY DEF LibraryInv, LibraryShape
<1>3. f \in FoldersKnown
  BY <1>1, <1>2 DEF LibraryFits, Shelf, Order0
<1>4. CASE LibraryGoes(i, "io") /\ UNCHANGED <<shelves, events>>
  <2>1. LibraryFits(libraryJobs'[i])
    BY <1>4, StillFits DEF JobPlaces
  <2> QED BY <1>1, <1>2, <1>4, <2>1, NothingTouched DEF LibraryShape, Apart
<1>5. CASE shelves' = [shelves EXCEPT ![f] = NoFolder] /\ Tells(folder) /\ LibraryGoes(i, "load")
  <2>1. LibraryFits(libraryJobs'[i])
    BY <1>5, StillFits DEF JobPlaces
  <2>2. folder \in Seq(EventsKnown) /\ \E e \in ToSet(folder) : Touches(e)
    BY EventsAreKnown
  <2>3. IsShelf(NoFolder) /\ NoHalf(NoFolder, f, halves)
    BY DEF IsShelf, NoHalf
  <2>4. UNCHANGED <<readsKept, overtaken, halves, movedWhole>>
    BY <1>1 DEF histories
  <2> HIDE DEF f, folder
  <2> QED BY <1>1, <1>3, <1>5, <2>1, <2>2, <2>3, <2>4, FolderKeeps DEF Apart
<1> QED BY <1>4, <1>5 DEF FolderDeleted

LEMMA UserPutsKeeps ==
    ASSUME NEW i \in DOMAIN libraryJobs, LibraryAssumption, LibraryInv, UserPuts(i)
    PROVE  LibraryInv'
<1> DEFINE f == Shelf(i)
           shelf == [file |-> [name |-> Order0(i).name, text |-> Order0(i).text], tmp |-> NoFile]
           more == IF shelves[f] = NoFolder THEN <<Event("create", "folder"), Event("modify", "skill")>>
                   ELSE <<Event("modify", "skill")>>
<1>1. /\ libraryJobs[i].at = "user" /\ libraryJobs[i].ask.op = "put" /\ LibraryGoes(i, "done")
      /\ shelves' = [shelves EXCEPT ![f] = shelf] /\ Tells(more)
      /\ UNCHANGED <<skillCatalog, mirror, watcher, histories>>
  BY DEF UserPuts, Order0
<1>2. LibraryShape /\ LibraryFits(libraryJobs[i])
  BY DEF LibraryInv, LibraryShape
<1>3. f \in FoldersKnown /\ Order0(i).text # "half"
  BY <1>1, <1>2 DEF LibraryFits, Shelf, Order0
<1>4. LibraryFits(libraryJobs'[i])
  BY <1>1, StillFits DEF JobPlaces
<1>5. more \in Seq(EventsKnown) /\ \E e \in ToSet(more) : Touches(e)
  <2>1. CASE shelves[f] # NoFolder
    BY <2>1, EventsAreKnown
  <2>2. CASE shelves[f] = NoFolder
    <3>1. Event("create", "folder") \in EventsKnown /\ Event("modify", "skill") \in EventsKnown
      BY DEF Event, EventsKnown
    <3>2. more \in Seq(EventsKnown) /\ more[1] = Event("create", "folder") /\ 1 \in DOMAIN more
      BY <2>2, <3>1
    <3> HIDE DEF more
    <3> QED BY <3>2 DEF ToSet, Touches, Event
  <2> QED BY <2>1, <2>2
<1>6. IsShelf(shelf) /\ NoHalf(shelf, f, halves) /\ ~IsHalf(shelf.tmp)
  BY <1>3 DEF IsShelf, IsText, NoHalf, IsHalf
<1>7. UNCHANGED <<readsKept, overtaken, halves, movedWhole>>
  BY <1>1 DEF histories
<1> HIDE DEF f, shelf, more
<1> QED BY <1>1, <1>3, <1>4, <1>5, <1>6, <1>7, FolderKeeps DEF Apart

LEMMA UserTouchesKeeps ==
    ASSUME NEW i \in DOMAIN libraryJobs, LibraryAssumption, LibraryInv, UserTouches(i)
    PROVE  LibraryInv'
<1>1. /\ libraryJobs[i].at = "user" /\ LibraryGoes(i, "done") /\ Tells(<<Event("modify", "other")>>)
      /\ UNCHANGED <<shelves, skillCatalog, mirror, watcher, histories>>
  BY DEF UserTouches
<1>2. LibraryFits(libraryJobs'[i])
  BY <1>1, StillFits DEF JobPlaces
<1>3. events' \in Seq(EventsKnown) /\ \A e \in ToSet(events) : e \in ToSet(events')
  BY <1>1, TellsOther DEF LibraryInv
<1> QED BY <1>1, <1>2, <1>3, NothingTouched DEF Apart

LEMMA UserMovesKeeps ==
    ASSUME NEW i \in DOMAIN libraryJobs, LibraryAssumption, LibraryInv, UserMoves(i)
    PROVE  LibraryInv'
<1> DEFINE f == Shelf(i)
           to == Order0(i).to
           folder == <<Event("modify", "folder")>>
<1>1. /\ libraryJobs[i].at = "user" /\ libraryJobs[i].ask.op = "move" /\ LibraryGoes(i, "done")
      /\ shelves[f] # NoFolder /\ shelves[to] = NoFolder
      /\ shelves' = [shelves EXCEPT ![to] = shelves[f], ![f] = NoFolder] /\ Tells(folder)
      /\ movedWhole' = TRUE /\ halves' = IF HasHalf(shelves[f]) THEN halves \union {to} ELSE halves
      /\ UNCHANGED <<skillCatalog, mirror, watcher, readsKept, overtaken>>
  BY DEF UserMoves, Order0
<1>2. LibraryShape /\ LibraryFits(libraryJobs[i]) /\ HalvesKnown
  BY DEF LibraryInv, LibraryShape
<1>3. f \in FoldersKnown /\ to \in FoldersKnown /\ f # to
  BY <1>1, <1>2 DEF LibraryFits, Shelf, Order0
<1>4. LibraryFits(libraryJobs'[i])
  BY <1>1, StillFits DEF JobPlaces
<1>5. events' \in Seq(EventsKnown) /\ \A e \in ToSet(events) : e \in ToSet(events')
  <2>1. folder \in Seq(EventsKnown)
    BY EventsAreKnown
  <2> HIDE DEF f, to, folder
  <2> QED BY <1>1, <1>2, <2>1, TellsAdds DEF Tells, LibraryShape
<1>6. /\ shelves'[to] = shelves[f] /\ shelves'[f] = NoFolder /\ DOMAIN shelves' = FoldersKnown
      /\ \A g \in FoldersKnown : g \notin {f, to} => shelves'[g] = shelves[g]
  BY <1>1, <1>2, <1>3 DEF LibraryShape
<1>7. halves \subseteq halves' /\ (HasHalf(shelves[f]) => to \in halves')
  BY <1>1
<1>8. \A g \in FoldersKnown : IsShelf(shelves'[g]) /\ NoHalf(shelves'[g], g, halves')
  BY <1>2, <1>3, <1>6, <1>7 DEF LibraryShape, HalvesKnown, NoHalf, HasHalf, IsShelf
<1>9. ASSUME NEW k \in DOMAIN libraryJobs' PROVE RenamesWhole(libraryJobs'[k], shelves', halves')
  <2>1. /\ DOMAIN libraryJobs' = DOMAIN libraryJobs
        /\ \A j \in DOMAIN libraryJobs : j # i => libraryJobs'[j] = libraryJobs[j]
        /\ libraryJobs'[i].at = "done"
    BY <1>1, <1>2, CommandGoes
  <2>2. CASE k = i
    BY <2>1, <2>2 DEF RenamesWhole
  <2>3. CASE k # i
    <3>1. libraryJobs'[k] = libraryJobs[k] /\ RenamesWhole(libraryJobs[k], shelves, halves)
          /\ LibraryFits(libraryJobs[k])
      BY <1>2, <2>1, <2>3 DEF HalvesKnown, LibraryShape
    <3>2. libraryJobs[k].at = "rename" => libraryJobs[k].ask.folder \in FoldersKnown
      BY <3>1 DEF LibraryFits
    <3> HIDE DEF f, to
    <3> QED BY <1>6, <1>7, <3>1, <3>2 DEF RenamesWhole, HasHalf
  <2> QED BY <2>2, <2>3
<1> HIDE DEF f, to
<1> QED BY <1>1, <1>4, <1>5, <1>6, <1>7, <1>8, <1>9, CommandKeeps DEF Apart

------------------------------------------------------------------------------
(* The readers.                                                                 *)

LEMMA ReadsGo ==
    ASSUME NEW i \in DOMAIN libraryJobs, NEW view, NEW at \in {"set", "read", "sync", "done"},
           LibraryShape, Reads(i, view, at)
    PROVE  /\ IsList(libraryJobs') /\ DOMAIN libraryJobs' = DOMAIN libraryJobs
           /\ \A k \in DOMAIN libraryJobs : k # i => libraryJobs'[k] = libraryJobs[k]
           /\ libraryJobs'[i].at = at /\ libraryJobs'[i].view = view
           /\ \A k \in DOMAIN libraryJobs' : LibraryFits(libraryJobs'[k])
           /\ i \in Nat /\ i # Watcher
<1> DEFINE job == [libraryJobs[i] EXCEPT !.view = view, !.at = at]
<1>1. IsList(libraryJobs) /\ LibraryFits(libraryJobs[i])
  BY DEF LibraryShape
<1>2. libraryJobs' = [libraryJobs EXCEPT ![i] = job]
  BY <1>1 DEF Reads, LibraryFits
<1>3. job.at = at /\ job.ask = libraryJobs[i].ask /\ job.view = view
      /\ DOMAIN job = {"ask", "at", "view"}
  BY <1>1 DEF LibraryFits
<1> HIDE DEF job
<1>4. LibraryFits(job)
  BY <1>1, <1>3 DEF LibraryFits, JobPlaces
<1>5. /\ IsList(libraryJobs') /\ DOMAIN libraryJobs' = DOMAIN libraryJobs /\ libraryJobs'[i] = job
      /\ \A k \in DOMAIN libraryJobs : k # i => libraryJobs'[k] = libraryJobs[k]
  BY <1>1, <1>2, ListTakes
<1>6. i \in Nat /\ i # 0
  BY <1>1 DEF IsList
<1> QED BY <1>3, <1>4, <1>5, <1>6 DEF LibraryShape, Watcher

\* Folders and halves are what they were.
LEMMA HalvesStay ==
    ASSUME HalvesKnown, UNCHANGED <<shelves, halves>>,
           NoHalfSeen(skillCatalog', halves), watcher'.at = "set" => NoHalfSeen(watcher'.loaded, halves),
           \A k \in DOMAIN libraryJobs' :
               \/ k \in DOMAIN libraryJobs /\ libraryJobs'[k] = libraryJobs[k]
               \/ /\ libraryJobs'[k].at # "rename"
                  /\ libraryJobs'[k].at = "set" => NoHalfSeen(libraryJobs'[k].view, halves)
    PROVE  HalvesKnown'
BY DEF HalvesKnown, RenamesWhole

LEMMA LastIsIn ==
    ASSUME NEW s, Queue(s), s # <<>>
    PROVE  Last(s) \in ToSet(s)
BY DEF Queue, Last, ToSet

LEMMA FoldersReadKeeps ==
    ASSUME NEW i \in DOMAIN libraryJobs, LibraryAssumption, LibraryInv, FoldersRead(i)
    PROVE  LibraryInv'
<1>1. /\ libraryJobs[i].at = "load" /\ Reads(i, Loaded(shelves), "set")
      /\ readsKept' = [readsKept EXCEPT !["catalog"] = Append(@, i)]
      /\ UNCHANGED <<shelves, skillCatalog, mirror, events, watcher, overtaken, halves, movedWhole>>
  BY DEF FoldersRead, Begun
<1>2. LibraryShape /\ HalvesKnown /\ CatalogFollows /\ MirrorFollows
  BY DEF LibraryInv
<1>3. /\ IsList(libraryJobs') /\ DOMAIN libraryJobs' = DOMAIN libraryJobs
      /\ \A k \in DOMAIN libraryJobs : k # i => libraryJobs'[k] = libraryJobs[k]
      /\ libraryJobs'[i].at = "set" /\ libraryJobs'[i].view = Loaded(shelves)
      /\ \A k \in DOMAIN libraryJobs' : LibraryFits(libraryJobs'[k])
      /\ i \in Nat /\ i # Watcher
  BY <1>1, <1>2, ReadsGo
<1>4. /\ readsKept'.catalog = Append(readsKept.catalog, i) /\ readsKept'.mirror = readsKept.mirror
      /\ DOMAIN readsKept' = {"catalog", "mirror"}
  BY <1>1, <1>2 DEF LibraryShape
<1>5. LibraryShape'
  BY <1>1, <1>2, <1>3, <1>4 DEF LibraryShape
<1>6. HalvesKnown'
  <2>1. NoHalfSeen(Loaded(shelves), halves)
    BY <1>2, LoadedShowsNoHalf DEF HalvesKnown
  <2> QED BY <1>1, <1>2, <1>3, <2>1, HalvesStay DEF HalvesKnown
<1>7. CatalogFollows'
  <2>1. i \notin ToSet(readsKept.catalog)
    BY <1>1, <1>2, <1>3 DEF CatalogFollows, HoldsCatalog
  <2>2. /\ Queue(readsKept'.catalog) /\ readsKept'.catalog # <<>> /\ Last(readsKept'.catalog) = i
        /\ \A who \in ToSet(readsKept'.catalog) : who \in ToSet(readsKept.catalog) \/ who = i
    BY <1>2, <1>3, <1>4, <2>1, QueueGrows DEF CatalogFollows
  <2>3. \A who \in ToSet(readsKept'.catalog) : HoldsCatalog(who, watcher', libraryJobs')
    BY <1>1, <1>2, <1>3, <2>1, <2>2 DEF CatalogFollows, HoldsCatalog
  <2>4. Newest(readsKept'.catalog, watcher', libraryJobs', skillCatalog') = Loaded(shelves')
    BY <1>1, <1>3, <2>2 DEF Newest, ReadBy
  <2> QED BY <2>2, <2>3, <2>4 DEF CatalogFollows
<1>8. MirrorFollows'
  <2>1. \A who \in ToSet(readsKept.mirror) :
            HoldsMirror(who, libraryJobs') /\ libraryJobs'[who] = libraryJobs[who]
    BY <1>1, <1>2, <1>3 DEF MirrorFollows, HoldsMirror
  <2>2. MirrorNewest(readsKept.mirror, libraryJobs', mirror, skillCatalog)
          <=> MirrorNewest(readsKept.mirror, libraryJobs, mirror, skillCatalog)
    BY <1>2, <2>1, LastIsIn DEF MirrorFollows, MirrorNewest
  <2>3. (\E k \in DOMAIN libraryJobs : libraryJobs[k].at = "read")
          => \E k \in DOMAIN libraryJobs' : libraryJobs'[k].at = "read"
    BY <1>1, <1>3
  <2> QED BY <1>1, <1>2, <1>4, <2>1, <2>2, <2>3 DEF MirrorFollows
<1> QED BY <1>5, <1>6, <1>7, <1>8 DEF LibraryInv

LEMMA CatalogSetKeeps ==
    ASSUME NEW i \in DOMAIN libraryJobs, LibraryAssumption, LibraryInv, CatalogSet(i)
    PROVE  LibraryInv'
<1> DEFINE q == readsKept.catalog
<1>1. /\ libraryJobs[i].at = "set" /\ Reads(i, NoSkill, "read") /\ skillCatalog' = libraryJobs[i].view
      /\ readsKept' = [readsKept EXCEPT !["catalog"] = LaterThan(readsKept.catalog, i)]
      /\ overtaken' = (overtaken \/ PlaceOf(readsKept.catalog, i) = 0)
      /\ UNCHANGED <<shelves, mirror, events, watcher, halves, movedWhole>>
  <2>1. DOMAIN readsKept = {"catalog", "mirror"}
    BY DEF LibraryInv, LibraryShape
  <2> QED BY <2>1 DEF CatalogSet, Put, LaterThan, PlaceOf
<1>2. LibraryShape /\ HalvesKnown /\ CatalogFollows /\ MirrorFollows
  BY DEF LibraryInv
<1>3. /\ IsList(libraryJobs') /\ DOMAIN libraryJobs' = DOMAIN libraryJobs
      /\ \A k \in DOMAIN libraryJobs : k # i => libraryJobs'[k] = libraryJobs[k]
      /\ libraryJobs'[i].at = "read"
      /\ \A k \in DOMAIN libraryJobs' : LibraryFits(libraryJobs'[k])
      /\ i \in Nat /\ i # Watcher
  BY <1>1, <1>2, ReadsGo
<1>4. /\ readsKept'.catalog = LaterThan(q, i) /\ readsKept'.mirror = readsKept.mirror
      /\ DOMAIN readsKept' = {"catalog", "mirror"}
  BY <1>1, <1>2 DEF LibraryShape
<1>5. LibraryShape'
  <2>1. overtaken' \in BOOLEAN
    BY <1>1, <1>2 DEF LibraryShape
  <2> QED BY <1>1, <1>2, <1>3, <1>4, <2>1 DEF LibraryShape
<1>6. HalvesKnown'
  BY <1>1, <1>2, <1>3, HalvesStay DEF HalvesKnown
<1>7. /\ Queue(q) /\ Queue(LaterThan(q, i))
      /\ \A other \in ToSet(LaterThan(q, i)) : other \in ToSet(q) /\ other # i
      /\ PlaceOf(q, i) # 0 => /\ q # <<>>
                              /\ LaterThan(q, i) = <<>> => Last(q) = i
                              /\ LaterThan(q, i) # <<>> => Last(LaterThan(q, i)) = Last(q)
  BY <1>2, <1>3, LaterKeepsOrder DEF CatalogFollows
<1>8. CatalogFollows'
  <2>1. \A who \in ToSet(LaterThan(q, i)) :
            /\ HoldsCatalog(who, watcher, libraryJobs')
            /\ ReadBy(who, watcher, libraryJobs') = ReadBy(who, watcher, libraryJobs)
    BY <1>2, <1>3, <1>7 DEF CatalogFollows, HoldsCatalog, ReadBy
  <2>2. ASSUME PlaceOf(q, i) # 0
        PROVE  Newest(LaterThan(q, i), watcher, libraryJobs', skillCatalog')
                 = Newest(q, watcher, libraryJobs, skillCatalog)
    <3>1. CASE LaterThan(q, i) = <<>>
      BY <1>1, <1>3, <1>7, <2>2, <3>1 DEF Newest, ReadBy
    <3>2. CASE LaterThan(q, i) # <<>>
      BY <1>7, <2>1, <2>2, <3>2, LastIsIn DEF Newest
    <3> QED BY <3>1, <3>2
  <2>3. Told' <=> Told
    BY <1>1 DEF Told
  <2> QED BY <1>1, <1>2, <1>4, <1>7, <2>1, <2>2, <2>3 DEF CatalogFollows
<1>9. MirrorFollows'
  <2>1. \A who \in ToSet(readsKept.mirror) : HoldsMirror(who, libraryJobs')
    BY <1>1, <1>2, <1>3 DEF MirrorFollows, HoldsMirror
  <2> QED BY <1>2, <1>3, <1>4, <2>1 DEF MirrorFollows
<1> QED BY <1>5, <1>6, <1>8, <1>9 DEF LibraryInv

\* Who reads or puts the catalog is as before, if a step is of another job.
LEMMA CatalogStays ==
    ASSUME LibraryShape, CatalogFollows,
           \A k \in DOMAIN libraryJobs : libraryJobs[k].at = "set" =>
               k \in DOMAIN libraryJobs' /\ libraryJobs'[k] = libraryJobs[k],
           readsKept'.catalog = readsKept.catalog, overtaken => overtaken', overtaken' \in BOOLEAN,
           UNCHANGED <<shelves, skillCatalog, events, watcher, movedWhole>>
    PROVE  CatalogFollows'
<1>1. \A who \in ToSet(readsKept.catalog) :
          /\ HoldsCatalog(who, watcher, libraryJobs')
          /\ ReadBy(who, watcher, libraryJobs') = ReadBy(who, watcher, libraryJobs)
  BY DEF CatalogFollows, HoldsCatalog, ReadBy
<1>2. Newest(readsKept.catalog, watcher, libraryJobs', skillCatalog)
        = Newest(readsKept.catalog, watcher, libraryJobs, skillCatalog)
  BY <1>1, LastIsIn DEF CatalogFollows, Newest
<1>3. Told' <=> Told
  BY DEF Told
<1> QED BY <1>1, <1>2, <1>3 DEF CatalogFollows

LEMMA CatalogReadKeeps ==
    ASSUME NEW i \in DOMAIN libraryJobs, LibraryAssumption, LibraryInv, CatalogRead(i)
    PROVE  LibraryInv'
<1>1. /\ libraryJobs[i].at = "read" /\ Reads(i, skillCatalog, "sync")
      /\ readsKept' = [readsKept EXCEPT !["mirror"] = Append(@, i)]
      /\ UNCHANGED <<shelves, skillCatalog, mirror, events, watcher, overtaken, halves, movedWhole>>
  BY DEF CatalogRead, Begun
<1>2. LibraryShape /\ HalvesKnown /\ CatalogFollows /\ MirrorFollows
  BY DEF LibraryInv
<1>3. /\ IsList(libraryJobs') /\ DOMAIN libraryJobs' = DOMAIN libraryJobs
      /\ \A k \in DOMAIN libraryJobs : k # i => libraryJobs'[k] = libraryJobs[k]
      /\ libraryJobs'[i].at = "sync" /\ libraryJobs'[i].view = skillCatalog
      /\ \A k \in DOMAIN libraryJobs' : LibraryFits(libraryJobs'[k])
      /\ i \in Nat /\ i # Watcher
  BY <1>1, <1>2, ReadsGo
<1>4. /\ readsKept'.mirror = Append(readsKept.mirror, i) /\ readsKept'.catalog = readsKept.catalog
      /\ DOMAIN readsKept' = {"catalog", "mirror"}
  BY <1>1, <1>2 DEF LibraryShape
<1>5. LibraryShape'
  BY <1>1, <1>2, <1>3, <1>4 DEF LibraryShape
<1>6. HalvesKnown'
  BY <1>1, <1>2, <1>3, HalvesStay DEF HalvesKnown
<1>7. CatalogFollows'
  BY <1>1, <1>2, <1>3, <1>4, CatalogStays DEF LibraryShape
<1>8. MirrorFollows'
  <2>1. i \notin ToSet(readsKept.mirror)
    BY <1>1, <1>2 DEF MirrorFollows, HoldsMirror
  <2>2. /\ Queue(readsKept'.mirror) /\ readsKept'.mirror # <<>> /\ Last(readsKept'.mirror) = i
        /\ \A who \in ToSet(readsKept'.mirror) : who \in ToSet(readsKept.mirror) \/ who = i
    BY <1>2, <1>3, <1>4, <2>1, QueueGrows DEF MirrorFollows
  <2>3. \A who \in ToSet(readsKept'.mirror) : HoldsMirror(who, libraryJobs')
    BY <1>1, <1>2, <1>3, <2>1, <2>2 DEF MirrorFollows, HoldsMirror
  <2>4. MirrorNewest(readsKept'.mirror, libraryJobs', mirror', skillCatalog')
    BY <1>1, <1>3, <2>2 DEF MirrorNewest
  <2> QED BY <2>2, <2>3, <2>4 DEF MirrorFollows
<1> QED BY <1>5, <1>6, <1>7, <1>8 DEF LibraryInv

LEMMA MirrorWrittenKeeps ==
    ASSUME NEW i \in DOMAIN libraryJobs, LibraryAssumption, LibraryInv, MirrorWritten(i)
    PROVE  LibraryInv'
<1> DEFINE q == readsKept.mirror
           view == libraryJobs[i].view
<1>1. /\ libraryJobs[i].at = "sync" /\ Reads(i, NoSkill, "done")
      /\ mirror' = [n \in SkillNames |-> IF view[n] = NoSkill THEN mirror[n] ELSE view[n].text]
      /\ readsKept' = [readsKept EXCEPT !["mirror"] = LaterThan(readsKept.mirror, i)]
      /\ overtaken' = (overtaken \/ PlaceOf(readsKept.mirror, i) = 0)
      /\ UNCHANGED <<shelves, skillCatalog, events, watcher, halves, movedWhole>>
  <2>1. DOMAIN readsKept = {"catalog", "mirror"}
    BY DEF LibraryInv, LibraryShape
  <2> QED BY <2>1 DEF MirrorWritten, Put, LaterThan, PlaceOf
<1>2. LibraryShape /\ HalvesKnown /\ CatalogFollows /\ MirrorFollows
  BY DEF LibraryInv
<1>3. /\ IsList(libraryJobs') /\ DOMAIN libraryJobs' = DOMAIN libraryJobs
      /\ \A k \in DOMAIN libraryJobs : k # i => libraryJobs'[k] = libraryJobs[k]
      /\ libraryJobs'[i].at = "done"
      /\ \A k \in DOMAIN libraryJobs' : LibraryFits(libraryJobs'[k])
      /\ i \in Nat /\ i # Watcher
  BY <1>1, <1>2, ReadsGo
<1>4. /\ readsKept'.mirror = LaterThan(q, i) /\ readsKept'.catalog = readsKept.catalog
      /\ DOMAIN readsKept' = {"catalog", "mirror"}
  BY <1>1, <1>2 DEF LibraryShape
<1>5. overtaken' \in BOOLEAN
  BY <1>1, <1>2 DEF LibraryShape
<1>6. LibraryShape'
  BY <1>1, <1>2, <1>3, <1>4, <1>5 DEF LibraryShape
<1>7. HalvesKnown'
  BY <1>1, <1>2, <1>3, HalvesStay DEF HalvesKnown
<1>8. CatalogFollows'
  BY <1>1, <1>2, <1>3, <1>4, <1>5, CatalogStays DEF LibraryShape
<1>9. MirrorFollows'
  <2>1. /\ Queue(q) /\ Queue(LaterThan(q, i))
        /\ \A other \in ToSet(LaterThan(q, i)) : other \in ToSet(q) /\ other # i
        /\ PlaceOf(q, i) # 0 => /\ q # <<>>
                                /\ LaterThan(q, i) = <<>> => Last(q) = i
                                /\ LaterThan(q, i) # <<>> => Last(LaterThan(q, i)) = Last(q)
    BY <1>2, <1>3, LaterKeepsOrder DEF MirrorFollows
  <2>2. \A who \in ToSet(LaterThan(q, i)) :
            HoldsMirror(who, libraryJobs') /\ libraryJobs'[who] = libraryJobs[who]
    BY <1>2, <1>3, <2>1 DEF MirrorFollows, HoldsMirror
  <2>3. ASSUME PlaceOf(q, i) # 0, MirrorNewest(q, libraryJobs, mirror, skillCatalog)
        PROVE  MirrorNewest(LaterThan(q, i), libraryJobs', mirror', skillCatalog)
    <3>1. CASE LaterThan(q, i) = <<>>
      <4>1. view = skillCatalog
        BY <2>1, <2>3, <3>1 DEF MirrorNewest
      <4> QED BY <1>1, <3>1, <4>1 DEF MirrorNewest, Agrees
    <3>2. CASE LaterThan(q, i) # <<>>
      BY <2>1, <2>2, <2>3, <3>2, LastIsIn DEF MirrorNewest
    <3> QED BY <3>1, <3>2
  <2>4. (\E k \in DOMAIN libraryJobs : libraryJobs[k].at = "read")
          => \E k \in DOMAIN libraryJobs' : libraryJobs'[k].at = "read"
    BY <1>1, <1>3
  <2> QED BY <1>1, <1>2, <1>4, <2>1, <2>2, <2>3, <2>4 DEF MirrorFollows
<1> QED BY <1>6, <1>7, <1>8, <1>9 DEF LibraryInv

------------------------------------------------------------------------------
(* The watcher.                                                                 *)

\* A step of the watcher that is no reader yet, and still has what it was told.
LEMMA WatcherKeeps ==
    ASSUME LibraryInv, LibraryShape', watcher.at # "set", watcher'.at # "set", Told => Told',
           UNCHANGED <<shelves, skillCatalog, mirror, libraryJobs, histories>>
    PROVE  LibraryInv'
<1>1. LibraryShape /\ HalvesKnown /\ CatalogFollows /\ MirrorFollows
  BY DEF LibraryInv
<1>2. UNCHANGED <<readsKept, overtaken, halves, movedWhole>>
  BY DEF histories
<1>3. HalvesKnown'
  BY <1>1, <1>2, HalvesStay DEF HalvesKnown
<1>4. CatalogFollows'
  <2>1. \A who \in ToSet(readsKept.catalog) :
            /\ HoldsCatalog(who, watcher', libraryJobs')
            /\ ReadBy(who, watcher', libraryJobs') = ReadBy(who, watcher, libraryJobs)
    BY <1>1 DEF CatalogFollows, HoldsCatalog, ReadBy
  <2>2. Newest(readsKept.catalog, watcher', libraryJobs', skillCatalog)
          = Newest(readsKept.catalog, watcher, libraryJobs, skillCatalog)
    BY <1>1, <2>1, LastIsIn DEF CatalogFollows, Newest
  <2> QED BY <1>1, <1>2, <2>1, <2>2 DEF CatalogFollows
<1>5. MirrorFollows'
  BY <1>1, <1>2 DEF MirrorFollows
<1> QED BY <1>3, <1>4, <1>5 DEF LibraryInv

LEMMA EventsTakenKeeps ==
    ASSUME LibraryInv, EventsTaken
    PROVE  LibraryInv'
<1>1. LibraryShape
  BY DEF LibraryInv
<1>2. /\ watcher.at \in {"idle", "burst"} /\ events' = <<>>
      /\ watcher' = [watcher EXCEPT !.at = "burst", !.changed = Changed(watcher.changed, events)]
      /\ UNCHANGED <<shelves, skillCatalog, mirror, libraryJobs, histories>>
  BY <1>1 DEF EventsTaken, LibraryShape
<1>3. watcher'.at = "burst" /\ watcher'.changed = Changed(watcher.changed, events)
      /\ DOMAIN watcher' = {"at", "changed", "loaded"}
  BY <1>1, <1>2 DEF LibraryShape
<1>4. Changed(watcher.changed, events) \in BOOLEAN
  BY <1>1 DEF Changed, LibraryShape
<1>5. Told => Told'
  BY <1>2, <1>3 DEF Told, Changed
<1>6. LibraryShape'
  BY <1>1, <1>2, <1>3, <1>4 DEF LibraryShape, histories
<1> QED BY <1>2, <1>3, <1>5, <1>6, WatcherKeeps

LEMMA BurstEndsKeeps ==
    ASSUME LibraryInv, BurstEnds
    PROVE  LibraryInv'
<1>1. LibraryShape
  BY DEF LibraryInv
<1>2. /\ watcher.at = "burst" /\ events = <<>> /\ watcher'.changed = FALSE
      /\ watcher'.at = (IF watcher.changed THEN "load" ELSE "idle")
      /\ DOMAIN watcher' = {"at", "changed", "loaded"}
      /\ UNCHANGED <<shelves, skillCatalog, mirror, events, libraryJobs, histories>>
  BY <1>1 DEF BurstEnds, LibraryShape
<1>3. Told => Told'
  BY <1>2 DEF Told
<1>4. LibraryShape'
  BY <1>1, <1>2 DEF LibraryShape, histories
<1> QED BY <1>2, <1>3, <1>4, WatcherKeeps

LEMMA WatcherLoadsKeeps ==
    ASSUME LibraryAssumption, LibraryInv, WatcherLoads
    PROVE  LibraryInv'
<1>1. LibraryShape /\ HalvesKnown /\ CatalogFollows /\ MirrorFollows
  BY DEF LibraryInv
<1>2. /\ watcher.at = "load" /\ watcher'.at = "set" /\ watcher'.loaded = Loaded(shelves)
      /\ watcher'.changed = watcher.changed /\ DOMAIN watcher' = {"at", "changed", "loaded"}
      /\ readsKept'.catalog = Append(readsKept.catalog, Watcher) /\ readsKept'.mirror = readsKept.mirror
      /\ DOMAIN readsKept' = {"catalog", "mirror"}
      /\ UNCHANGED <<shelves, skillCatalog, mirror, events, libraryJobs, overtaken, halves, movedWhole>>
  BY <1>1 DEF WatcherLoads, LibraryShape, Begun
<1>3. LibraryShape'
  BY <1>1, <1>2 DEF LibraryShape
<1>4. HalvesKnown'
  <2>1. NoHalfSeen(Loaded(shelves), halves)
    BY <1>1, LoadedShowsNoHalf DEF HalvesKnown
  <2> QED BY <1>1, <1>2, <2>1, HalvesStay DEF HalvesKnown
<1>5. CatalogFollows'
  <2>1. Watcher \notin ToSet(readsKept.catalog) /\ Watcher \in Nat
    BY <1>1, <1>2 DEF CatalogFollows, HoldsCatalog, Watcher
  <2>2. /\ Queue(readsKept'.catalog) /\ readsKept'.catalog # <<>> /\ Last(readsKept'.catalog) = Watcher
        /\ \A who \in ToSet(readsKept'.catalog) : who \in ToSet(readsKept.catalog) \/ who = Watcher
    BY <1>1, <1>2, <2>1, QueueGrows DEF CatalogFollows
  <2>3. \A who \in ToSet(readsKept'.catalog) : HoldsCatalog(who, watcher', libraryJobs')
    BY <1>1, <1>2, <2>1, <2>2 DEF CatalogFollows, HoldsCatalog
  <2>4. Newest(readsKept'.catalog, watcher', libraryJobs', skillCatalog') = Loaded(shelves')
    BY <1>2, <2>2 DEF Newest, ReadBy
  <2> QED BY <2>2, <2>3, <2>4 DEF CatalogFollows
<1>6. MirrorFollows'
  BY <1>1, <1>2 DEF MirrorFollows
<1> QED BY <1>3, <1>4, <1>5, <1>6 DEF LibraryInv

\* The second half of the watcher's task is a job: a new one, or one that is done.
LEMMA SyncBegins ==
    ASSUME LibraryShape, WatcherSets
    PROVE  /\ IsList(libraryJobs') /\ \A k \in DOMAIN libraryJobs' : LibraryFits(libraryJobs'[k])
           /\ \A k \in DOMAIN libraryJobs : libraryJobs[k].at # "done" =>
                 k \in DOMAIN libraryJobs' /\ libraryJobs'[k] = libraryJobs[k]
           /\ \A k \in DOMAIN libraryJobs' :
                 \/ k \in DOMAIN libraryJobs /\ libraryJobs'[k] = libraryJobs[k]
                 \/ libraryJobs'[k].at = "read"
           /\ \E k \in DOMAIN libraryJobs' : libraryJobs'[k].at = "read"
<1> DEFINE sync == LibraryJob([op |-> "sync"], "read")
           free == {j \in DOMAIN libraryJobs : libraryJobs[j] = [sync EXCEPT !.at = "done"]}
<1>1. IsList(libraryJobs) /\ \A k \in DOMAIN libraryJobs : LibraryFits(libraryJobs[k])
  BY DEF LibraryShape
<1>2. sync.at = "read" /\ LibraryFits(sync) /\ [sync EXCEPT !.at = "done"].at = "done"
  BY DEF LibraryJob, LibraryFits, JobPlaces
<1>3. libraryJobs' = IF free = {} THEN Append(libraryJobs, sync)
                     ELSE [libraryJobs EXCEPT ![Min(free)] = sync]
  BY DEF WatcherSets
<1>4. DOMAIN libraryJobs = 1 .. Len(libraryJobs) /\ Len(libraryJobs) \in Nat
  BY <1>1 DEF IsList
<1>5. free \subseteq DOMAIN libraryJobs /\ \A j \in free : libraryJobs[j].at = "done"
  BY <1>2
<1> HIDE DEF sync, free
<1>6. CASE free = {}
  <2> DEFINE n == Len(libraryJobs) + 1
  <2>1. /\ DOMAIN libraryJobs' = 1 .. n /\ libraryJobs'[n] = sync
        /\ \A k \in DOMAIN libraryJobs : k \in 1 .. n /\ libraryJobs'[k] = libraryJobs[k]
    BY <1>1, <1>3, <1>4, <1>6 DEF IsList
  <2>2. IsList(libraryJobs')
    BY <1>1, <1>3, <1>6, ListsMove
  <2>3. n \in 1 .. n /\ \A k \in 1 .. n : k \in DOMAIN libraryJobs \/ k = n
    BY <1>4
  <2> HIDE DEF n
  <2> QED BY <1>1, <1>2, <2>1, <2>2, <2>3
<1>7. CASE free # {}
  <2> DEFINE j == Min(free)
  <2>1. j \in free
    BY <1>4, <1>5, <1>7, LeastOne DEF Min
  <2>2. libraryJobs' = [libraryJobs EXCEPT ![j] = sync]
    BY <1>3, <1>7
  <2> HIDE DEF j
  <2>3. /\ IsList(libraryJobs') /\ DOMAIN libraryJobs' = DOMAIN libraryJobs /\ libraryJobs'[j] = sync
        /\ \A k \in DOMAIN libraryJobs : k # j => libraryJobs'[k] = libraryJobs[k]
    BY <1>1, <1>5, <2>1, <2>2, ListTakes
  <2> QED BY <1>1, <1>2, <1>5, <2>1, <2>3
<1> QED BY <1>6, <1>7

LEMMA WatcherSetsKeeps ==
    ASSUME LibraryAssumption, LibraryInv, WatcherSets
    PROVE  LibraryInv'
<1> DEFINE q == readsKept.catalog
<1>1. LibraryShape /\ HalvesKnown /\ CatalogFollows /\ MirrorFollows
  BY DEF LibraryInv
<1>2. /\ watcher.at = "set" /\ skillCatalog' = watcher.loaded
      /\ readsKept' = [readsKept EXCEPT !["catalog"] = LaterThan(readsKept.catalog, Watcher)]
      /\ overtaken' = (overtaken \/ PlaceOf(readsKept.catalog, Watcher) = 0)
      /\ watcher' = [watcher EXCEPT !.at = "idle", !.loaded = NoSkill]
      /\ UNCHANGED <<shelves, mirror, events, halves, movedWhole>>
  <2>1. DOMAIN readsKept = {"catalog", "mirror"}
    BY <1>1 DEF LibraryShape
  <2> QED BY <2>1 DEF WatcherSets, Put, LaterThan, PlaceOf
<1>3. /\ IsList(libraryJobs') /\ \A k \in DOMAIN libraryJobs' : LibraryFits(libraryJobs'[k])
      /\ \A k \in DOMAIN libraryJobs : libraryJobs[k].at # "done" =>
            k \in DOMAIN libraryJobs' /\ libraryJobs'[k] = libraryJobs[k]
      /\ \A k \in DOMAIN libraryJobs' :
            \/ k \in DOMAIN libraryJobs /\ libraryJobs'[k] = libraryJobs[k]
            \/ libraryJobs'[k].at = "read"
      /\ \E k \in DOMAIN libraryJobs' : libraryJobs'[k].at = "read"
  BY <1>1, SyncBegins
<1>4. /\ readsKept'.catalog = LaterThan(q, Watcher) /\ readsKept'.mirror = readsKept.mirror
      /\ DOMAIN readsKept' = {"catalog", "mirror"} /\ overtaken' \in BOOLEAN
      /\ watcher'.at = "idle" /\ watcher'.changed = watcher.changed
      /\ DOMAIN watcher' = {"at", "changed", "loaded"}
  BY <1>1, <1>2 DEF LibraryShape
<1>5. LibraryShape'
  BY <1>1, <1>2, <1>3, <1>4 DEF LibraryShape
<1>6. HalvesKnown'
  <2>1. \A k \in DOMAIN libraryJobs' :
           \/ k \in DOMAIN libraryJobs /\ libraryJobs'[k] = libraryJobs[k]
           \/ /\ libraryJobs'[k].at # "rename"
              /\ libraryJobs'[k].at = "set" => NoHalfSeen(libraryJobs'[k].view, halves)
    BY <1>3
  <2> QED BY <1>1, <1>2, <1>4, <2>1, HalvesStay DEF HalvesKnown
<1>7. /\ Queue(q) /\ Queue(LaterThan(q, Watcher))
      /\ \A other \in ToSet(LaterThan(q, Watcher)) : other \in ToSet(q) /\ other # Watcher
      /\ PlaceOf(q, Watcher) # 0 =>
            /\ q # <<>>
            /\ LaterThan(q, Watcher) = <<>> => Last(q) = Watcher
            /\ LaterThan(q, Watcher) # <<>> => Last(LaterThan(q, Watcher)) = Last(q)
  <2>1. Watcher \in Nat
    BY DEF Watcher
  <2> QED BY <1>1, <2>1, LaterKeepsOrder DEF CatalogFollows
<1>8. CatalogFollows'
  <2>1. \A who \in ToSet(LaterThan(q, Watcher)) :
            /\ HoldsCatalog(who, watcher', libraryJobs')
            /\ ReadBy(who, watcher', libraryJobs') = ReadBy(who, watcher, libraryJobs)
    BY <1>1, <1>3, <1>7 DEF CatalogFollows, HoldsCatalog, ReadBy
  <2>2. ASSUME PlaceOf(q, Watcher) # 0
        PROVE  Newest(LaterThan(q, Watcher), watcher', libraryJobs', skillCatalog')
                 = Newest(q, watcher, libraryJobs, skillCatalog)
    <3>1. CASE LaterThan(q, Watcher) = <<>>
      BY <1>2, <1>7, <2>2, <3>1 DEF Newest, ReadBy
    <3>2. CASE LaterThan(q, Watcher) # <<>>
      BY <1>7, <2>1, <2>2, <3>2, LastIsIn DEF Newest
    <3> QED BY <3>1, <3>2
  <2>3. Told' <=> Told
    BY <1>2, <1>4 DEF Told
  <2> QED BY <1>1, <1>2, <1>4, <1>7, <2>1, <2>2, <2>3 DEF CatalogFollows
<1>9. MirrorFollows'
  <2>1. \A who \in ToSet(readsKept.mirror) : HoldsMirror(who, libraryJobs')
    BY <1>1, <1>3 DEF MirrorFollows, HoldsMirror
  <2> QED BY <1>1, <1>3, <1>4, <2>1 DEF MirrorFollows
<1> QED BY <1>5, <1>6, <1>8, <1>9 DEF LibraryInv

------------------------------------------------------------------------------
(* From the first state on.                                                     *)

LEMMA LibraryBegins ==
    ASSUME LibraryAssumption, LibraryInit
    PROVE  LibraryInv
<1>1. /\ shelves = SkillsAtFirst /\ skillCatalog = Loaded(SkillsAtFirst)
      /\ mirror = [n \in SkillNames |-> IF skillCatalog[n] = NoSkill THEN NoText ELSE skillCatalog[n].text]
      /\ events = <<>> /\ watcher = [at |-> "idle", changed |-> FALSE, loaded |-> NoSkill]
      /\ readsKept = [catalog |-> <<>>, mirror |-> <<>>] /\ overtaken = FALSE /\ halves = {}
      /\ movedWhole = FALSE
  BY DEF LibraryInit
<1>2. PICK scene \in LibraryScenes :
         libraryJobs = [i \in DOMAIN scene |-> LibraryJob(scene[i], FirstStep[scene[i].op])]
  BY DEF LibraryInit
<1>3. scene \in Seq(ToSet(scene)) /\ \A i \in DOMAIN scene :
         /\ scene[i].op \in {"save", "import", "delete", "put", "move", "touch"}
         /\ scene[i].op # "touch" => scene[i].folder \in FoldersKnown
         /\ scene[i].op = "move" => scene[i].to \in FoldersKnown
         /\ scene[i].op \in {"save", "import", "put"} => scene[i].text # "half"
  BY DEF LibraryAssumption, FoldersKnown, ToSet
<1>4. /\ DOMAIN libraryJobs = DOMAIN scene /\ DOMAIN scene = 1 .. Len(scene) /\ Len(scene) \in Nat
      /\ \A i \in DOMAIN scene : libraryJobs[i] = LibraryJob(scene[i], FirstStep[scene[i].op])
  BY <1>2, <1>3
<1>5. IsList(libraryJobs)
  <2>1. libraryJobs \in [1 .. Len(scene) -> ToSet(libraryJobs)]
    BY <1>2, <1>4 DEF ToSet
  <2> QED BY <1>4, <2>1 DEF IsList
<1>6. ASSUME NEW i \in DOMAIN libraryJobs
      PROVE  LibraryFits(libraryJobs[i]) /\ libraryJobs[i].at \in {"check", "user"}
  <2>1. FirstStep[scene[i].op] \in {"check", "user"}
    BY <1>3, <1>4 DEF FirstStep
  <2> QED BY <1>3, <1>4, <2>1 DEF LibraryJob, LibraryFits, JobPlaces
<1>7. /\ DOMAIN shelves = FoldersKnown
      /\ \A f \in FoldersKnown : IsShelf(shelves[f]) /\ (shelves[f] # NoFolder => ~HasHalf(shelves[f]))
  BY <1>1 DEF LibraryAssumption, FoldersKnown, IsShelf
<1>8. LibraryShape
  <2>1. events \in Seq(EventsKnown) /\ DOMAIN readsKept = {"catalog", "mirror"}
    BY <1>1
  <2>2. /\ DOMAIN watcher = {"at", "changed", "loaded"} /\ watcher.changed = FALSE
        /\ watcher.at = "idle" /\ overtaken \in BOOLEAN /\ movedWhole \in BOOLEAN
    BY <1>1
  <2> QED BY <1>5, <1>6, <1>7, <2>1, <2>2 DEF LibraryShape
<1>9. HalvesKnown
  <2>1. \A f \in FoldersKnown : NoHalf(shelves[f], f, halves)
    BY <1>7 DEF NoHalf, HasHalf
  <2>2. NoHalfSeen(skillCatalog, halves)
    BY <1>1, <2>1, LoadedShowsNoHalf
  <2> QED BY <1>1, <1>6, <2>1, <2>2 DEF HalvesKnown, RenamesWhole
<1>10. Queue(<<>>) /\ ToSet(<<>>) = {}
  BY DEF Queue, ToSet
<1>11. CatalogFollows
  BY <1>1, <1>10 DEF CatalogFollows, Newest
<1>12. MirrorFollows
  BY <1>1, <1>10 DEF MirrorFollows, MirrorNewest, Agrees
<1> QED BY <1>8, <1>9, <1>11, <1>12 DEF LibraryInv

LEMMA LibraryGoesOn ==
    ASSUME LibraryAssumption, LibraryInv, [LibraryNext]_libraryVars
    PROVE  LibraryInv'
<1>1. CASE UNCHANGED libraryVars
  <2>1. UNCHANGED <<shelves, skillCatalog, mirror, events, watcher, libraryJobs,
                    readsKept, overtaken, halves, movedWhole>>
    BY <1>1 DEF libraryVars
  <2> QED BY <2>1 DEF LibraryInv, LibraryShape, HalvesKnown, CatalogFollows, MirrorFollows, Told
<1>2. ASSUME NEW i \in DOMAIN libraryJobs,
             \/ SkillChecked(i) \/ FolderMade(i) \/ TmpOpened(i) \/ TmpFilled(i) \/ TmpRenamed(i)
             \/ SkillCopied(i) \/ FilesCopied(i) \/ FilesDeleted(i) \/ FolderDeleted(i)
      PROVE  LibraryInv'
  BY <1>2, CheckKeeps, FolderMadeKeeps, OpenKeeps, FillKeeps, RenameKeeps, CopyKeeps, FilesKeep,
     FilesDeletedKeeps, FolderDeletedKeeps
<1>3. ASSUME NEW i \in DOMAIN libraryJobs,
             \/ UserPuts(i) \/ UserMoves(i) \/ UserTouches(i)
             \/ FoldersRead(i) \/ CatalogSet(i) \/ CatalogRead(i) \/ MirrorWritten(i)
      PROVE  LibraryInv'
  BY <1>3, UserPutsKeeps, UserMovesKeeps, UserTouchesKeeps, FoldersReadKeeps, CatalogSetKeeps,
     CatalogReadKeeps, MirrorWrittenKeeps
<1>4. CASE EventsTaken \/ BurstEnds \/ WatcherLoads \/ WatcherSets
  BY <1>4, EventsTakenKeeps, BurstEndsKeeps, WatcherLoadsKeeps, WatcherSetsKeeps
<1> QED BY <1>1, <1>2, <1>3, <1>4 DEF LibraryNext

\* Once nobody reads or puts any more, and the watcher has been told nothing,
\* the last read that counts is the catalog itself.
LEMMA LibraryStaysSeen ==
    ASSUME LibraryInv
    PROVE  LibraryIsSeen
<1>1. LibraryShape /\ HalvesKnown /\ CatalogFollows /\ MirrorFollows
  BY DEF LibraryInv
<1>2. HalvesAreNotSaves
  BY <1>1 DEF HalvesKnown, NoHalfSeen, HalvesAreNotSaves
<1>3. ASSUME LibraryRests, ~overtaken
      PROVE  /\ movedWhole \/ skillCatalog = Loaded(shelves)
             /\ \A n \in SkillNames : skillCatalog[n] # NoSkill => mirror[n] = skillCatalog[n].text
  <2>1. /\ events = <<>> /\ watcher.at = "idle" /\ ~watcher.changed
        /\ \A i \in DOMAIN libraryJobs : libraryJobs[i].at \notin {"set", "read", "sync"}
    BY <1>1, <1>3 DEF LibraryRests, LibraryShape
  <2>2. ~Told
    BY <2>1 DEF Told, ToSet
  <2>3. ToSet(readsKept.catalog) = {} /\ ToSet(readsKept.mirror) = {}
    BY <1>1, <2>1 DEF CatalogFollows, HoldsCatalog, MirrorFollows, HoldsMirror
  <2>4. readsKept.catalog = <<>> /\ readsKept.mirror = <<>>
    BY <1>1, <2>3, LastIsIn DEF CatalogFollows, MirrorFollows
  <2> QED BY <1>1, <1>3, <2>1, <2>2, <2>4
          DEF CatalogFollows, MirrorFollows, Newest, MirrorNewest, Agrees
<1> QED BY <1>2, <1>3 DEF LibraryIsSeen, CatalogCatchesUp

\* Once everything is still the catalog is what the folders hold and the table of
\* skills agrees with it, unless an older read was put over a newer one or a whole
\* folder was moved; and half a file is only ever shown of a folder that an import
\* wrote, or two saves, or that was moved meanwhile: for any folders, any number of
\* commands, edits by hand and reloads of the watcher, in any order of their steps
\* (editor.rs:244, watch.rs:42, catalog.rs, commands/skills.rs).
THEOREM LibraryIsSeenHolds == LibrarySpec => []LibraryIsSeen
<1>1. LibraryInit => LibraryInv
  BY LibraryAssumption, LibraryBegins
<1>2. LibraryInv /\ [LibraryNext]_libraryVars => LibraryInv'
  BY LibraryAssumption, LibraryGoesOn
<1>3. LibraryInv => LibraryIsSeen
  BY LibraryStaysSeen
<1> QED BY <1>1, <1>2, <1>3, PTL DEF LibrarySpec

------------------------------------------------------------------------------
(* The adapters of the runtimes: of the readers of their folder the newest saw  *)
(* it as it is, or the watcher has been told; sessions have the rules of the    *)
(* catalog, or are about to get them; an overview asks for what the cache lacks.*)

\* What a job is, by what it was asked.
RuntimePlaces ==
    [save |-> {"begin", "done"},
     calibrate |-> {"begin", "failed", "write", "load", "set", "refresh", "send", "done"},
     start |-> {"begin", "failed", "taken", "live"}, overview |-> {"begin", "detect", "answered"}]
IsCatalog(c) ==
    DOMAIN c = AdapterIds /\ \A id \in AdapterIds : DOMAIN c[id] = {"spec", "own"} /\ IsAdapter(c[id].spec)
RuntimeFits(job) ==
    /\ DOMAIN job = {"ask", "at", "spec", "view", "pending", "found", "answer", "disturbed", "late"}
    /\ job.ask.op \in {"save", "calibrate", "start", "overview"} /\ job.ask.id \in AdapterIds
    /\ job.ask.op = "save" => IsAdapter(job.ask.spec)
    /\ job.at \in RuntimePlaces[job.ask.op]
    /\ IsAdapter(job.spec) /\ IsCatalog(job.view) /\ DOMAIN job.found = AdapterIds
    /\ job.disturbed \in BOOLEAN
\* What was found of a runtime is what the command answered that the job saw.
FoundIs(job) ==
    \A id \in AdapterIds : job.found[id] # NoStatus =>
        /\ job.at # "begin" /\ job.found[id].key = job.found[id].status.of
        /\ job.at = "detect" => job.found[id].key = job.view[id].spec.command
RuntimesShape ==
    /\ IsList(runtimeJobs) /\ \A i \in DOMAIN runtimeJobs : RuntimeFits(runtimeJobs[i]) /\ FoundIs(runtimeJobs[i])
    /\ IsCatalog(adapters) /\ IsCatalog(rulesWatch.loaded)
    /\ DOMAIN adapterFiles = AdapterIds /\ \A id \in AdapterIds : IsAdapter(adapterFiles[id])
    /\ DOMAIN statuses = AdapterIds
    /\ \A id \in AdapterIds : statuses[id] # NoStatus => statuses[id].key = statuses[id].status.of
    /\ DOMAIN rulesWatch = {"at", "loaded"} /\ rulesWatch.at \in {"idle", "set", "refresh", "send"}
    /\ stirred \in BOOLEAN /\ overtakenReads \in BOOLEAN /\ overtakenSends \in BOOLEAN

\* Who has read the folder and not put it yet is in the order of the reads,
\* unless a newer read was put before.
HoldsRead(who, w, jobs) ==
    \/ who = WatcherOf /\ w.at = "set"
    \/ who # WatcherOf /\ who \in DOMAIN jobs /\ jobs[who].at = "set"
FolderReadBy(who, w, jobs) == IF who = WatcherOf THEN w.loaded ELSE jobs[who].view
NewestRead(queue, w, jobs, now) == IF queue = <<>> THEN now ELSE FolderReadBy(Last(queue), w, jobs)
ReadsFollow ==
    /\ Queue(readOrder) /\ \A who \in ToSet(readOrder) : HoldsRead(who, rulesWatch, runtimeJobs)
    /\ overtakenReads \/ stirred
         \/ NewestRead(readOrder, rulesWatch, runtimeJobs, adapters) = LoadedAdapters

\* The sessions have the rules of the catalog, or somebody is about to send them
\* the catalog as it is, unless an older one was sent when nobody was.
HasRules(job, catalog) ==
    job.ask.op = "start" /\ job.at \in {"taken", "live"} /\ ~job.late /\ catalog[job.ask.id].spec # NoAdapter
    => job.spec.rules = catalog[job.ask.id].spec.rules
SessionsFollow ==
    \/ overtakenSends \/ TellsSoon(rulesWatch, runtimeJobs, adapters)
    \/ \A i \in DOMAIN runtimeJobs : HasRules(runtimeJobs[i], adapters)

\* An overview that no change overtook: it saw the catalog as it is, and of each
\* runtime it asks, it has asked, or the cache is of its command.
FreshFor(status, command) == status # NoStatus /\ status.key = command
Overlooks(job, catalog, cache) ==
    job.at = "detect" /\ ~job.disturbed =>
        /\ job.view = catalog
        /\ \A id \in AdapterIds : catalog[id].spec # NoAdapter =>
             id \in job.pending \/ job.found[id] # NoStatus \/ FreshFor(cache[id], catalog[id].spec.command)
AnswersRight(job) ==
    job.at = "answered" /\ ~job.disturbed =>
        \A id \in DOMAIN job.answer : job.view[id].spec.command = job.answer[id].of
OverviewsFollow ==
    \A i \in DOMAIN runtimeJobs : Overlooks(runtimeJobs[i], adapters, statuses) /\ AnswersRight(runtimeJobs[i])
RuntimesInv == RuntimesShape /\ ReadsFollow /\ SessionsFollow /\ OverviewsFollow

------------------------------------------------------------------------------
(* Steps of one job that neither read the folder nor put what was read.         *)

LEMMA LoadedIsCatalog ==
    ASSUME RuntimesAssumption, \A id \in AdapterIds : IsAdapter(adapterFiles[id])
    PROVE  IsCatalog(LoadedAdapters)
BY DEF RuntimesAssumption, IsCatalog, IsAdapter, LoadedAdapters

\* Nobody else is touched: who reads the folder, and what the newest read, stay.
LEMMA ReadsStay ==
    ASSUME ReadsFollow, readOrder' = readOrder,
           \A k \in DOMAIN runtimeJobs : runtimeJobs[k].at = "set" =>
               k \in DOMAIN runtimeJobs' /\ runtimeJobs'[k].at = "set" /\ runtimeJobs'[k].view = runtimeJobs[k].view,
           rulesWatch.at = "set" => rulesWatch' = rulesWatch,
           adapters' = adapters, overtakenReads => overtakenReads', stirred => stirred',
           adapterFiles' = adapterFiles \/ stirred'
    PROVE  ReadsFollow'
<1>1. \A who \in ToSet(readOrder) :
          /\ HoldsRead(who, rulesWatch', runtimeJobs')
          /\ FolderReadBy(who, rulesWatch', runtimeJobs') = FolderReadBy(who, rulesWatch, runtimeJobs)
  BY DEF ReadsFollow, HoldsRead, FolderReadBy
<1>2. NewestRead(readOrder, rulesWatch', runtimeJobs', adapters)
        = NewestRead(readOrder, rulesWatch, runtimeJobs, adapters)
  BY <1>1, LastIsIn DEF ReadsFollow, NewestRead
<1>3. adapterFiles' = adapterFiles => LoadedAdapters' = LoadedAdapters
  BY DEF LoadedAdapters
<1> QED BY <1>1, <1>2, <1>3 DEF ReadsFollow

Aside == {"set", "refresh", "send"}
LEMMA OwnStep ==
    ASSUME RuntimesInv, NEW i \in DOMAIN runtimeJobs, NEW job,
           runtimeJobs' = [runtimeJobs EXCEPT ![i] = job],
           RuntimeFits(job), FoundIs(job),
           runtimeJobs[i].at \notin Aside, job.at \notin Aside,
           HasRules(runtimeJobs[i], adapters) => HasRules(job, adapters),
           Overlooks(job, adapters, statuses), AnswersRight(job),
           \/ UNCHANGED <<adapterFiles, stirred>>
           \/ /\ stirred' = TRUE /\ DOMAIN adapterFiles' = AdapterIds
              /\ \A id \in AdapterIds : IsAdapter(adapterFiles'[id]),
           UNCHANGED <<adapters, statuses, rulesWatch, readOrder, overtakenReads, overtakenSends>>
    PROVE  RuntimesInv'
<1>1. RuntimesShape /\ ReadsFollow /\ SessionsFollow /\ OverviewsFollow
  BY DEF RuntimesInv
<1>2. /\ IsList(runtimeJobs') /\ DOMAIN runtimeJobs' = DOMAIN runtimeJobs /\ runtimeJobs'[i] = job
      /\ \A k \in DOMAIN runtimeJobs : k # i => runtimeJobs'[k] = runtimeJobs[k]
  BY <1>1, ListTakes DEF RuntimesShape
<1>3. RuntimesShape'
  BY <1>1, <1>2 DEF RuntimesShape
<1>4. ReadsFollow'
  BY <1>1, <1>2, ReadsStay DEF Aside
<1>5. SessionsFollow'
  <2>1. CASE TellsSoon(rulesWatch, runtimeJobs, adapters)
    BY <1>2, <2>1 DEF SessionsFollow, TellsSoon, Aside
  <2>2. CASE ~TellsSoon(rulesWatch, runtimeJobs, adapters)
    BY <1>1, <1>2, <2>2 DEF SessionsFollow
  <2> QED BY <2>1, <2>2
<1>6. OverviewsFollow'
  BY <1>1, <1>2 DEF OverviewsFollow
<1> QED BY <1>3, <1>4, <1>5, <1>6 DEF RuntimesInv

\* A job that only goes on is what it was in all the rest.
WentOn(job, at) == [job EXCEPT !.at = at]
LEMMA WentOnFacts ==
    ASSUME NEW job, RuntimeFits(job), NEW at, at \in RuntimePlaces[job.ask.op]
    PROVE  /\ WentOn(job, at).at = at /\ WentOn(job, at).ask = job.ask /\ WentOn(job, at).spec = job.spec
           /\ WentOn(job, at).view = job.view /\ WentOn(job, at).found = job.found
           /\ WentOn(job, at).late = job.late /\ WentOn(job, at).disturbed = job.disturbed
           /\ RuntimeFits(WentOn(job, at))
           /\ FoundIs(job) /\ at \notin {"begin", "detect"} => FoundIs(WentOn(job, at))
<1>1. DOMAIN WentOn(job, at) = DOMAIN job
  BY DEF WentOn
<1>2. /\ WentOn(job, at).at = at /\ WentOn(job, at).ask = job.ask /\ WentOn(job, at).spec = job.spec
      /\ WentOn(job, at).view = job.view /\ WentOn(job, at).found = job.found
      /\ WentOn(job, at).late = job.late /\ WentOn(job, at).disturbed = job.disturbed
  BY DEF WentOn, RuntimeFits
<1>3. RuntimeFits(WentOn(job, at))
  BY <1>1, <1>2 DEF RuntimeFits
<1>4. FoundIs(job) /\ at \notin {"begin", "detect"} => FoundIs(WentOn(job, at))
  BY <1>2 DEF FoundIs
<1> QED BY <1>2, <1>3, <1>4

\* A step that only moves its job on, to where it neither reads nor answers.
LEMMA GoesOnKeeps ==
    ASSUME RuntimesInv, NEW i \in DOMAIN runtimeJobs, NEW at, JobGoes(i, at),
           at \in RuntimePlaces[runtimeJobs[i].ask.op],
           at \in {"done", "failed", "load", "live"}, runtimeJobs[i].at \notin Aside,
           at = "live" => runtimeJobs[i].at = "taken",
           \/ UNCHANGED <<adapterFiles, stirred>>
           \/ /\ stirred' = TRUE /\ DOMAIN adapterFiles' = AdapterIds
              /\ \A id \in AdapterIds : IsAdapter(adapterFiles'[id]),
           UNCHANGED <<adapters, statuses, rulesWatch, readOrder, overtakenReads, overtakenSends>>
    PROVE  RuntimesInv'
<1> DEFINE job == WentOn(runtimeJobs[i], at)
<1>1. RuntimeFits(runtimeJobs[i]) /\ FoundIs(runtimeJobs[i])
  BY DEF RuntimesInv, RuntimesShape
<1>2. runtimeJobs' = [runtimeJobs EXCEPT ![i] = job]
  BY DEF JobGoes, WentOn
<1>3. /\ job.at = at /\ job.ask = runtimeJobs[i].ask /\ job.spec = runtimeJobs[i].spec
      /\ job.late = runtimeJobs[i].late /\ RuntimeFits(job) /\ FoundIs(job)
  BY <1>1, WentOnFacts
<1> HIDE DEF job
<1>4. /\ HasRules(runtimeJobs[i], adapters) => HasRules(job, adapters)
      /\ Overlooks(job, adapters, statuses) /\ AnswersRight(job) /\ job.at \notin Aside
  BY <1>3 DEF HasRules, Overlooks, AnswersRight, Aside
<1> QED BY <1>2, <1>3, <1>4, OwnStep

LEMMA SaveKeeps ==
    ASSUME RuntimesInv, NEW i \in DOMAIN runtimeJobs, UserSavesAdapter(i)
    PROVE  RuntimesInv'
<1>1. RuntimeFits(runtimeJobs[i]) /\ DOMAIN adapterFiles = AdapterIds
      /\ \A id \in AdapterIds : IsAdapter(adapterFiles[id])
  BY DEF RuntimesInv, RuntimesShape
<1>2. runtimeJobs[i].at = "begin" /\ runtimeJobs[i].ask.op = "save" /\ JobGoes(i, "done")
  BY DEF UserSavesAdapter, RuntimeAt, Asked, JobGoes
<1>3. /\ stirred' = TRUE /\ DOMAIN adapterFiles' = AdapterIds
      /\ \A id \in AdapterIds : IsAdapter(adapterFiles'[id])
      /\ UNCHANGED <<adapters, statuses, rulesWatch, readOrder, overtakenReads, overtakenSends>>
  BY <1>1, <1>2 DEF UserSavesAdapter, Asked, RuntimeFits
<1>4. "done" \in RuntimePlaces[runtimeJobs[i].ask.op]
  BY <1>2 DEF RuntimePlaces
<1> QED BY <1>2, <1>3, <1>4, GoesOnKeeps DEF Aside

LEMMA CalibrationReadsKeeps ==
    ASSUME RuntimesAssumption, RuntimesInv, NEW i \in DOMAIN runtimeJobs, CalibrationReads(i)
    PROVE  RuntimesInv'
<1> DEFINE id == runtimeJobs[i].ask.id
           text == IF adapters[id].own THEN adapterFiles[id] ELSE BuiltinAdapters[id]
           job == [runtimeJobs[i] EXCEPT !.at = "write", !.spec = text]
<1>1. RuntimeFits(runtimeJobs[i]) /\ FoundIs(runtimeJobs[i]) /\ RuntimesShape
  BY DEF RuntimesInv, RuntimesShape
<1>2. runtimeJobs[i].at = "begin" /\ runtimeJobs[i].ask.op = "calibrate"
      /\ UNCHANGED <<adapterFiles, adapters, statuses, stirred, rulesWatch, readOrder, overtakenReads, overtakenSends>>
  BY DEF CalibrationReads, RuntimeAt, Asked
<1>3. IsAdapter(text)
  BY <1>1 DEF RuntimesShape, RuntimesAssumption, RuntimeFits
<1>4. CASE text = NoAdapter
  <2>1. JobGoes(i, "failed")
    BY <1>4 DEF CalibrationReads, Asked
  <2>2. "failed" \in RuntimePlaces[runtimeJobs[i].ask.op]
    BY <1>2 DEF RuntimePlaces
  <2> QED BY <1>2, <2>1, <2>2, GoesOnKeeps DEF Aside
<1>5. CASE text # NoAdapter
  <2>1. runtimeJobs' = [runtimeJobs EXCEPT ![i] = job]
    BY <1>5 DEF CalibrationReads, Asked
  <2>2. /\ job.at = "write" /\ job.spec = text /\ job.ask = runtimeJobs[i].ask /\ job.view = runtimeJobs[i].view
        /\ job.found = runtimeJobs[i].found /\ DOMAIN job = DOMAIN runtimeJobs[i]
        /\ job.disturbed = runtimeJobs[i].disturbed
    BY <1>1 DEF RuntimeFits
  <2> HIDE DEF job, text
  <2>3. RuntimeFits(job)
    BY <1>1, <1>2, <1>3, <2>2 DEF RuntimeFits, RuntimePlaces
  <2>4. FoundIs(job)
    BY <1>1, <2>2 DEF FoundIs
  <2>5. HasRules(job, adapters) /\ Overlooks(job, adapters, statuses) /\ AnswersRight(job)
    BY <2>2 DEF HasRules, Overlooks, AnswersRight
  <2> QED BY <1>2, <2>1, <2>2, <2>3, <2>4, <2>5, OwnStep DEF Aside
<1> QED BY <1>4, <1>5

LEMMA CalibrationWritesKeeps ==
    ASSUME RuntimesInv, NEW i \in DOMAIN runtimeJobs, CalibrationWrites(i)
    PROVE  RuntimesInv'
<1>1. RuntimeFits(runtimeJobs[i]) /\ DOMAIN adapterFiles = AdapterIds
      /\ \A id \in AdapterIds : IsAdapter(adapterFiles[id])
  BY DEF RuntimesInv, RuntimesShape
<1>2. /\ runtimeJobs[i].at = "write" /\ runtimeJobs[i].ask.op = "calibrate" /\ JobGoes(i, "load")
      /\ stirred' = TRUE /\ UNCHANGED <<adapters, statuses, rulesWatch, readOrder, overtakenReads, overtakenSends>>
      /\ adapterFiles' = [adapterFiles EXCEPT ![runtimeJobs[i].ask.id] =
             [runtimeJobs[i].spec EXCEPT !.rules = runtimeJobs[i].ask.rules]]
  BY DEF CalibrationWrites, RuntimeAt, Asked
<1>3. IsAdapter([runtimeJobs[i].spec EXCEPT !.rules = runtimeJobs[i].ask.rules])
  BY <1>1 DEF RuntimeFits, IsAdapter
<1>4. DOMAIN adapterFiles' = AdapterIds /\ \A id \in AdapterIds : IsAdapter(adapterFiles'[id])
  BY <1>1, <1>2, <1>3
<1>5. "load" \in RuntimePlaces[runtimeJobs[i].ask.op]
  BY <1>2 DEF RuntimePlaces
<1> QED BY <1>2, <1>4, <1>5, GoesOnKeeps DEF Aside

LEMMA SessionEntersKeeps ==
    ASSUME RuntimesInv, NEW i \in DOMAIN runtimeJobs, SessionEnters(i)
    PROVE  RuntimesInv'
<1>1. /\ runtimeJobs[i].at = "taken" /\ runtimeJobs[i].ask.op = "start" /\ JobGoes(i, "live")
      /\ UNCHANGED <<adapterFiles, adapters, statuses, stirred, rulesWatch, readOrder, overtakenReads, overtakenSends>>
  BY DEF SessionEnters, RuntimeAt, Asked
<1>2. "live" \in RuntimePlaces[runtimeJobs[i].ask.op]
  BY <1>1 DEF RuntimePlaces
<1> QED BY <1>1, <1>2, GoesOnKeeps DEF Aside

LEMMA SessionTakesKeeps ==
    ASSUME RuntimesInv, NEW i \in DOMAIN runtimeJobs, SessionTakes(i)
    PROVE  RuntimesInv'
<1> DEFINE id == runtimeJobs[i].ask.id
           spec == adapters[id].spec
           job == [runtimeJobs[i] EXCEPT !.at = "taken", !.spec = spec]
<1>1. RuntimeFits(runtimeJobs[i]) /\ FoundIs(runtimeJobs[i]) /\ IsCatalog(adapters)
  BY DEF RuntimesInv, RuntimesShape
<1>2. runtimeJobs[i].at = "begin" /\ runtimeJobs[i].ask.op = "start"
      /\ UNCHANGED <<adapterFiles, adapters, statuses, stirred, rulesWatch, readOrder, overtakenReads, overtakenSends>>
  BY DEF SessionTakes, RuntimeAt, Asked
<1>3. IsAdapter(spec)
  BY <1>1 DEF RuntimeFits, IsCatalog
<1>4. CASE id \notin Known
  <2>1. JobGoes(i, "failed")
    BY <1>4 DEF SessionTakes, Asked
  <2>2. "failed" \in RuntimePlaces[runtimeJobs[i].ask.op]
    BY <1>2 DEF RuntimePlaces
  <2> QED BY <1>2, <2>1, <2>2, GoesOnKeeps DEF Aside
<1>5. CASE id \in Known
  <2>1. runtimeJobs' = [runtimeJobs EXCEPT ![i] = job]
    BY <1>5 DEF SessionTakes, Asked
  <2>2. /\ job.at = "taken" /\ job.spec = spec /\ job.ask = runtimeJobs[i].ask /\ job.view = runtimeJobs[i].view
        /\ job.found = runtimeJobs[i].found /\ DOMAIN job = DOMAIN runtimeJobs[i]
        /\ job.disturbed = runtimeJobs[i].disturbed
    BY <1>1 DEF RuntimeFits
  <2> HIDE DEF job
  <2>3. RuntimeFits(job)
    BY <1>1, <1>2, <1>3, <2>2 DEF RuntimeFits, RuntimePlaces
  <2>4. FoundIs(job)
    BY <1>1, <2>2 DEF FoundIs
  <2>5. HasRules(job, adapters) /\ Overlooks(job, adapters, statuses) /\ AnswersRight(job)
    BY <2>2 DEF HasRules, Overlooks, AnswersRight
  <2> QED BY <1>2, <2>1, <2>2, <2>3, <2>4, <2>5, OwnStep DEF Aside
<1> QED BY <1>4, <1>5

LEMMA OverviewBeginsKeeps ==
    ASSUME RuntimesInv, NEW i \in DOMAIN runtimeJobs, OverviewBegins(i)
    PROVE  RuntimesInv'
<1> DEFINE asked == {id \in Known : runtimeJobs[i].ask.refresh \/ ~Fresh0(id)}
           job == [runtimeJobs[i] EXCEPT !.at = "detect", !.view = adapters, !.pending = asked]
<1>1. RuntimeFits(runtimeJobs[i]) /\ FoundIs(runtimeJobs[i]) /\ IsCatalog(adapters)
  BY DEF RuntimesInv, RuntimesShape
<1>2. runtimeJobs[i].at = "begin" /\ runtimeJobs[i].ask.op = "overview"
      /\ UNCHANGED <<adapterFiles, adapters, statuses, stirred, rulesWatch, readOrder, overtakenReads, overtakenSends>>
  BY DEF OverviewBegins, RuntimeAt, Asked
<1>3. runtimeJobs' = [runtimeJobs EXCEPT ![i] = job]
  BY DEF OverviewBegins, Asked
<1>4. \A id \in AdapterIds : adapters[id].spec # NoAdapter =>
          id \in asked \/ FreshFor(statuses[id], adapters[id].spec.command)
  BY DEF Known, Fresh0, FreshFor
<1> HIDE DEF asked
<1>5. /\ job.at = "detect" /\ job.spec = runtimeJobs[i].spec /\ job.ask = runtimeJobs[i].ask
      /\ job.view = adapters /\ job.pending = asked
      /\ job.found = runtimeJobs[i].found /\ DOMAIN job = DOMAIN runtimeJobs[i]
      /\ job.disturbed = runtimeJobs[i].disturbed
  BY <1>1 DEF RuntimeFits
<1> HIDE DEF job
<1>6. RuntimeFits(job)
  BY <1>1, <1>2, <1>5 DEF RuntimeFits, RuntimePlaces
<1>7. FoundIs(job)
  BY <1>1, <1>2, <1>5 DEF FoundIs
<1>8. HasRules(job, adapters) /\ Overlooks(job, adapters, statuses) /\ AnswersRight(job)
  BY <1>4, <1>5 DEF HasRules, Overlooks, AnswersRight
<1> QED BY <1>2, <1>3, <1>5, <1>6, <1>7, <1>8, OwnStep DEF Aside

LEMMA DetectedKeeps ==
    ASSUME RuntimesInv, NEW i \in DOMAIN runtimeJobs, NEW id \in AdapterIds, Detected0(i, id)
    PROVE  RuntimesInv'
<1> DEFINE command == runtimeJobs[i].view[id].spec.command
<1>1. RuntimeFits(runtimeJobs[i]) /\ FoundIs(runtimeJobs[i])
      /\ Overlooks(runtimeJobs[i], adapters, statuses)
  BY DEF RuntimesInv, RuntimesShape, OverviewsFollow
<1>2. runtimeJobs[i].at = "detect" /\ runtimeJobs[i].ask.op = "overview"
      /\ UNCHANGED <<adapterFiles, adapters, statuses, stirred, rulesWatch, readOrder, overtakenReads, overtakenSends>>
  BY DEF Detected0, RuntimeAt, Asked
<1>3. PICK outcome \in {"available", "missing"} :
          runtimeJobs' = [runtimeJobs EXCEPT
              ![i].pending = @ \ {id},
              ![i].found[id] = [key |-> command, status |-> [of |-> command, outcome |-> outcome]]]
  BY DEF Detected0
<1> DEFINE status == [key |-> command, status |-> [of |-> command, outcome |-> outcome]]
           job == [runtimeJobs[i] EXCEPT !.pending = @ \ {id}, !.found[id] = status]
<1>4. runtimeJobs' = [runtimeJobs EXCEPT ![i] = job]
  BY <1>3
<1>5. status # NoStatus /\ status.key = command /\ status.status.of = command
  <2>1. status.status.outcome # NoStatus.status.outcome
    BY DEF NoStatus
  <2> QED BY <2>1
<1> HIDE DEF status
<1>6. /\ job.at = "detect" /\ job.spec = runtimeJobs[i].spec /\ job.ask = runtimeJobs[i].ask
      /\ job.view = runtimeJobs[i].view /\ job.pending = runtimeJobs[i].pending \ {id}
      /\ job.disturbed = runtimeJobs[i].disturbed /\ DOMAIN job = DOMAIN runtimeJobs[i]
      /\ job.found = [runtimeJobs[i].found EXCEPT ![id] = status]
  BY <1>1, <1>2 DEF RuntimeFits
<1> HIDE DEF job
<1>7. DOMAIN job.found = AdapterIds /\ job.found[id] = status
      /\ \A other \in AdapterIds : other # id => job.found[other] = runtimeJobs[i].found[other]
  BY <1>1, <1>6 DEF RuntimeFits
<1>8. RuntimeFits(job)
  BY <1>1, <1>2, <1>6, <1>7 DEF RuntimeFits, RuntimePlaces
<1>9. FoundIs(job)
  BY <1>1, <1>2, <1>5, <1>6, <1>7 DEF FoundIs
<1>10. Overlooks(job, adapters, statuses)
  BY <1>1, <1>2, <1>5, <1>6, <1>7 DEF Overlooks
<1>11. HasRules(job, adapters) /\ AnswersRight(job)
  BY <1>6, <1>2 DEF HasRules, AnswersRight
<1> QED BY <1>2, <1>4, <1>6, <1>8, <1>9, <1>10, <1>11, OwnStep DEF Aside

------------------------------------------------------------------------------
(* Steps that touch many jobs at once.                                          *)

LEMMA MappedIsList ==
    ASSUME NEW s, IsList(s), NEW F, F = [j \in DOMAIN s |-> F[j]]
    PROVE  IsList(F) /\ DOMAIN F = DOMAIN s
<1>1. DOMAIN s = 1 .. Len(s) /\ Len(s) \in Nat
  BY DEF IsList
<1>2. DOMAIN F = 1 .. Len(s) /\ F \in [1 .. Len(s) -> ToSet(F)]
  BY <1>1 DEF ToSet
<1>3. IsList(F)
  BY <1>1, <1>2 DEF IsList
<1> QED BY <1>1, <1>2, <1>3

\* A session that is told has the rules of the catalog.
ToldJob(job, catalog) ==
    IF job.ask.op # "start" THEN job
    ELSE IF job.at = "live" /\ catalog[job.ask.id].spec # NoAdapter
         THEN [job EXCEPT !.spec.rules = catalog[job.ask.id].spec.rules, !.late = FALSE]
    ELSE IF job.at = "taken" THEN [job EXCEPT !.late = TRUE] ELSE job
LEMMA ToldFacts ==
    ASSUME NEW job, NEW catalog, RuntimeFits(job), FoundIs(job), NEW new, new = ToldJob(job, catalog)
    PROVE  /\ RuntimeFits(new) /\ FoundIs(new) /\ HasRules(new, catalog)
           /\ new.at = job.at /\ new.view = job.view
           /\ job.ask.op # "start" => new = job
           /\ job.ask.op = "start" => new.at \notin {"detect", "answered", "set", "refresh", "send"}
<1>1. CASE job.ask.op # "start"
  BY <1>1 DEF ToldJob, HasRules
<1>2. CASE job.ask.op = "start"
  <2> DEFINE given == catalog[job.ask.id].spec.rules
             live == [job EXCEPT !.spec.rules = given, !.late = FALSE]
             taken == [job EXCEPT !.late = TRUE]
  <2>1. job.at \in {"begin", "failed", "taken", "live"} /\ job.ask.id \in AdapterIds
    BY <1>2 DEF RuntimeFits, RuntimePlaces
  <2>2. CASE job.at = "live" /\ catalog[job.ask.id].spec # NoAdapter
    <3>1. new = live
      BY <1>2, <2>1, <2>2 DEF ToldJob
    <3>2. /\ DOMAIN live = DOMAIN job /\ live.at = job.at /\ live.ask = job.ask /\ live.view = job.view
          /\ live.found = job.found /\ live.late = FALSE
          /\ live.disturbed = job.disturbed
          /\ live.spec = [job.spec EXCEPT !.rules = given]
      BY DEF RuntimeFits
    <3> HIDE DEF live
    <3>3. IsAdapter(live.spec) /\ live.spec.rules = given
      BY <3>2 DEF RuntimeFits, IsAdapter
    <3> HIDE DEF given
    <3>4. RuntimeFits(live) /\ FoundIs(live)
      BY <3>2, <3>3 DEF RuntimeFits, FoundIs
    <3>5. HasRules(live, catalog)
      BY <3>2, <3>3 DEF HasRules, given
    <3> QED BY <1>2, <2>1, <3>1, <3>2, <3>4, <3>5
  <2>3. CASE job.at = "taken"
    <3>1. new = taken
      BY <1>2, <2>3 DEF ToldJob
    <3>2. /\ DOMAIN taken = DOMAIN job /\ taken.at = job.at /\ taken.ask = job.ask /\ taken.view = job.view
          /\ taken.found = job.found /\ taken.late = TRUE /\ taken.spec = job.spec
          /\ taken.disturbed = job.disturbed
      BY DEF RuntimeFits
    <3> HIDE DEF taken
    <3>3. RuntimeFits(taken) /\ FoundIs(taken) /\ HasRules(taken, catalog)
      BY <3>2 DEF RuntimeFits, FoundIs, HasRules
    <3> QED BY <1>2, <2>1, <3>1, <3>2, <3>3
  <2>4. CASE job.at # "taken" /\ ~(job.at = "live" /\ catalog[job.ask.id].spec # NoAdapter)
    <3>1. new = job
      BY <1>2, <2>4 DEF ToldJob
    <3> QED BY <1>2, <2>1, <2>4, <3>1 DEF HasRules
  <2> QED BY <2>2, <2>3, <2>4
<1> QED BY <1>1, <1>2

LEMMA TellsKeep ==
    ASSUME RuntimesInv, NEW before, NEW sent, runtimeJobs' = Refreshed(before, sent), SentIn(sent),
           IsList(before), DOMAIN before = DOMAIN runtimeJobs,
           \A k \in DOMAIN before :
               /\ RuntimeFits(before[k]) /\ FoundIs(before[k])
               /\ Overlooks(before[k], adapters, statuses) /\ AnswersRight(before[k])
               /\ runtimeJobs[k].at = "set" => before[k] = runtimeJobs[k],
           rulesWatch.at = "set" => rulesWatch' = rulesWatch,
           DOMAIN rulesWatch' = {"at", "loaded"}, rulesWatch'.loaded = rulesWatch.loaded,
           rulesWatch'.at \in {"idle", "set", "refresh", "send"},
           UNCHANGED <<adapterFiles, adapters, statuses, stirred, readOrder, overtakenReads>>
    PROVE  RuntimesInv'
<1>1. RuntimesShape /\ ReadsFollow /\ OverviewsFollow
  BY DEF RuntimesInv
<1>2. /\ runtimeJobs' = [k \in DOMAIN before |-> runtimeJobs'[k]]
      /\ \A k \in DOMAIN before : runtimeJobs'[k] = ToldJob(before[k], sent)
  BY DEF Refreshed, ToldJob
<1>3. IsList(runtimeJobs') /\ DOMAIN runtimeJobs' = DOMAIN runtimeJobs
  BY <1>2, MappedIsList
<1>4. ASSUME NEW k \in DOMAIN runtimeJobs
      PROVE  /\ RuntimeFits(runtimeJobs'[k]) /\ FoundIs(runtimeJobs'[k]) /\ HasRules(runtimeJobs'[k], sent)
             /\ Overlooks(runtimeJobs'[k], adapters, statuses) /\ AnswersRight(runtimeJobs'[k])
             /\ runtimeJobs'[k].at = before[k].at /\ runtimeJobs'[k].view = before[k].view
  <2>1. PICK new : new = runtimeJobs'[k]
    OBVIOUS
  <2>2. PICK old : old = before[k]
    OBVIOUS
  <2>3. /\ RuntimeFits(old) /\ FoundIs(old) /\ new = ToldJob(old, sent)
        /\ Overlooks(old, adapters, statuses) /\ AnswersRight(old)
    BY <1>2, <2>1, <2>2
  <2>4. PICK catalog : catalog = sent
    OBVIOUS
  <2>5. new = ToldJob(old, catalog)
    BY <2>3, <2>4
  <2>6. /\ RuntimeFits(new) /\ FoundIs(new) /\ HasRules(new, catalog)
        /\ new.at = old.at /\ new.view = old.view
        /\ old.ask.op # "start" => new = old
        /\ old.ask.op = "start" => new.at \notin {"detect", "answered", "set", "refresh", "send"}
    BY <2>3, <2>5, ToldFacts
  <2>7. Overlooks(new, adapters, statuses) /\ AnswersRight(new)
    <3>1. CASE old.ask.op # "start"
      BY <2>3, <2>6, <3>1
    <3>2. CASE old.ask.op = "start"
      BY <2>6, <3>2 DEF Overlooks, AnswersRight
    <3> QED BY <3>1, <3>2
  <2> QED BY <2>1, <2>2, <2>4, <2>6, <2>7
<1>5. RuntimesShape'
  <2>1. overtakenSends' \in BOOLEAN
    BY DEF SentIn
  <2> QED BY <1>1, <1>3, <1>4, <2>1 DEF RuntimesShape
<1>6. ReadsFollow'
  BY <1>1, <1>3, <1>4, ReadsStay
<1>7. SessionsFollow'
  <2>1. CASE sent = adapters
    BY <1>3, <1>4, <2>1 DEF SessionsFollow
  <2>2. CASE sent # adapters
    BY <2>2 DEF SentIn, SessionsFollow
  <2> QED BY <2>1, <2>2
<1>8. OverviewsFollow'
  BY <1>3, <1>4 DEF OverviewsFollow
<1> QED BY <1>5, <1>6, <1>7, <1>8 DEF RuntimesInv

LEMMA WatcherClonesKeeps == RuntimesInv /\ RulesWatcherClones => RuntimesInv'
<1> SUFFICES ASSUME RuntimesInv, RulesWatcherClones PROVE RuntimesInv'
  OBVIOUS
<1>1. RuntimesShape /\ ReadsFollow /\ OverviewsFollow
  BY DEF RuntimesInv
<1>2. /\ rulesWatch.at = "refresh" /\ DOMAIN rulesWatch' = {"at", "loaded"}
      /\ rulesWatch'.at = "send" /\ rulesWatch'.loaded = adapters
      /\ UNCHANGED <<adapterFiles, adapters, statuses, runtimeJobs, stirred, readOrder, overtakenReads, overtakenSends>>
  BY DEF RulesWatcherClones
<1>3. RuntimesShape'
  BY <1>1, <1>2 DEF RuntimesShape
<1>4. ReadsFollow'
  BY <1>1, <1>2, ReadsStay
<1>5. SessionsFollow'
  BY <1>2 DEF SessionsFollow, TellsSoon
<1>6. OverviewsFollow'
  BY <1>1, <1>2 DEF OverviewsFollow
<1> QED BY <1>3, <1>4, <1>5, <1>6 DEF RuntimesInv

LEMMA CalibrationClonesKeeps ==
    ASSUME RuntimesInv, NEW i \in DOMAIN runtimeJobs, CalibrationClones(i)
    PROVE  RuntimesInv'
<1> DEFINE job == [runtimeJobs[i] EXCEPT !.at = "send", !.view = adapters]
<1>1. RuntimesShape /\ ReadsFollow /\ OverviewsFollow
  BY DEF RuntimesInv
<1>2. /\ runtimeJobs[i].at = "refresh" /\ runtimeJobs[i].ask.op = "calibrate"
      /\ runtimeJobs' = [runtimeJobs EXCEPT ![i] = job]
      /\ UNCHANGED <<adapterFiles, adapters, statuses, stirred, rulesWatch, readOrder, overtakenReads, overtakenSends>>
  BY DEF CalibrationClones, RuntimeAt, Asked
<1>3. RuntimeFits(runtimeJobs[i]) /\ FoundIs(runtimeJobs[i]) /\ IsCatalog(adapters)
  BY <1>1 DEF RuntimesShape
<1>4. /\ DOMAIN job = DOMAIN runtimeJobs[i] /\ job.at = "send" /\ job.view = adapters
      /\ job.ask = runtimeJobs[i].ask /\ job.spec = runtimeJobs[i].spec /\ job.found = runtimeJobs[i].found
      /\ job.disturbed = runtimeJobs[i].disturbed
  BY <1>3 DEF RuntimeFits
<1> HIDE DEF job
<1>5. RuntimeFits(job) /\ FoundIs(job)
  BY <1>2, <1>3, <1>4 DEF RuntimeFits, RuntimePlaces, FoundIs
<1>6. Overlooks(job, adapters, statuses) /\ AnswersRight(job)
  BY <1>4 DEF Overlooks, AnswersRight
<1>7. /\ IsList(runtimeJobs') /\ DOMAIN runtimeJobs' = DOMAIN runtimeJobs /\ runtimeJobs'[i] = job
      /\ \A k \in DOMAIN runtimeJobs : k # i => runtimeJobs'[k] = runtimeJobs[k]
  BY <1>1, <1>2, ListTakes DEF RuntimesShape
<1>8. RuntimesShape'
  BY <1>1, <1>2, <1>5, <1>7 DEF RuntimesShape
<1>9. ReadsFollow'
  BY <1>1, <1>2, <1>7, ReadsStay
<1>10. SessionsFollow'
  BY <1>2, <1>4, <1>7 DEF SessionsFollow, TellsSoon
<1>11. OverviewsFollow'
  BY <1>1, <1>2, <1>6, <1>7 DEF OverviewsFollow
<1> QED BY <1>8, <1>9, <1>10, <1>11 DEF RuntimesInv

LEMMA WatcherTellsKeeps == RuntimesInv /\ RulesWatcherTells => RuntimesInv'
<1> SUFFICES ASSUME RuntimesInv, RulesWatcherTells PROVE RuntimesInv'
  OBVIOUS
<1>1. RuntimesShape /\ OverviewsFollow
  BY DEF RuntimesInv
<1>2. /\ rulesWatch.at = "send" /\ DOMAIN rulesWatch' = {"at", "loaded"}
      /\ rulesWatch'.at = "idle" /\ rulesWatch'.loaded = rulesWatch.loaded
      /\ runtimeJobs' = Refreshed(runtimeJobs, rulesWatch.loaded) /\ SentIn(rulesWatch.loaded)
      /\ UNCHANGED <<adapterFiles, adapters, statuses, stirred, readOrder, overtakenReads>>
  BY <1>1 DEF RulesWatcherTells, RuntimesShape
<1>3. PICK before : before = runtimeJobs
  OBVIOUS
<1>4. /\ runtimeJobs' = Refreshed(before, rulesWatch.loaded) /\ IsList(before) /\ DOMAIN before = DOMAIN runtimeJobs
      /\ \A k \in DOMAIN before :
               /\ RuntimeFits(before[k]) /\ FoundIs(before[k])
               /\ Overlooks(before[k], adapters, statuses) /\ AnswersRight(before[k])
               /\ runtimeJobs[k].at = "set" => before[k] = runtimeJobs[k]
  BY <1>1, <1>2, <1>3 DEF RuntimesShape, OverviewsFollow
<1> QED BY <1>2, <1>4, TellsKeep

LEMMA CalibrationTellsKeeps ==
    ASSUME RuntimesInv, NEW i \in DOMAIN runtimeJobs, CalibrationTells(i)
    PROVE  RuntimesInv'
<1>1. RuntimesShape /\ OverviewsFollow
  BY DEF RuntimesInv
<1>2. /\ runtimeJobs[i].at = "send" /\ runtimeJobs[i].ask.op = "calibrate"
      /\ runtimeJobs' = Refreshed([runtimeJobs EXCEPT ![i].at = "done"], runtimeJobs[i].view)
      /\ SentIn(runtimeJobs[i].view)
      /\ UNCHANGED <<adapterFiles, adapters, statuses, stirred, rulesWatch, readOrder, overtakenReads>>
  BY DEF CalibrationTells, RuntimeAt, Asked
<1>3. PICK job : job = WentOn(runtimeJobs[i], "done")
  OBVIOUS
<1>4. PICK before : before = [runtimeJobs EXCEPT ![i] = job]
  OBVIOUS
<1>5. runtimeJobs' = Refreshed(before, runtimeJobs[i].view)
  BY <1>2, <1>3, <1>4 DEF WentOn
<1>6. /\ IsList(before) /\ DOMAIN before = DOMAIN runtimeJobs /\ before[i] = job
      /\ \A k \in DOMAIN runtimeJobs : k # i => before[k] = runtimeJobs[k]
  BY <1>1, <1>4, ListTakes DEF RuntimesShape
<1>7. "done" \in RuntimePlaces[runtimeJobs[i].ask.op] /\ RuntimeFits(runtimeJobs[i]) /\ FoundIs(runtimeJobs[i])
  BY <1>1, <1>2 DEF RuntimePlaces, RuntimesShape
<1>8. RuntimeFits(job) /\ FoundIs(job) /\ job.at = "done"
  BY <1>3, <1>7, WentOnFacts
<1>9. \A k \in DOMAIN before :
               /\ RuntimeFits(before[k]) /\ FoundIs(before[k])
               /\ Overlooks(before[k], adapters, statuses) /\ AnswersRight(before[k])
               /\ runtimeJobs[k].at = "set" => before[k] = runtimeJobs[k]
  <2>1. Overlooks(job, adapters, statuses) /\ AnswersRight(job)
    BY <1>8 DEF Overlooks, AnswersRight
  <2> QED BY <1>1, <1>2, <1>6, <1>8, <2>1 DEF RuntimesShape, OverviewsFollow
<1>10. DOMAIN rulesWatch' = {"at", "loaded"} /\ rulesWatch' = rulesWatch
       /\ rulesWatch'.at \in {"idle", "set", "refresh", "send"}
  BY <1>1, <1>2 DEF RuntimesShape
<1> QED BY <1>2, <1>5, <1>6, <1>9, <1>10, TellsKeep

\* An overview that is overtaken is so, and else as it was.
DisturbedJob(job, yes) == IF yes THEN [job EXCEPT !.disturbed = TRUE] ELSE job
LEMMA DisturbedFacts ==
    ASSUME NEW job, NEW yes \in BOOLEAN, RuntimeFits(job), FoundIs(job), NEW new, new = DisturbedJob(job, yes)
    PROVE  /\ RuntimeFits(new) /\ FoundIs(new) /\ new.at = job.at /\ new.view = job.view
           /\ yes => new.disturbed = TRUE
           /\ ~yes => new = job
<1>1. CASE ~yes
  BY <1>1 DEF DisturbedJob
<1>2. CASE yes
  <2> DEFINE over == [job EXCEPT !.disturbed = TRUE]
  <2>1. new = over
    BY <1>2 DEF DisturbedJob
  <2>2. /\ DOMAIN over = DOMAIN job /\ over.at = job.at /\ over.ask = job.ask /\ over.view = job.view
        /\ over.found = job.found /\ over.spec = job.spec /\ over.disturbed = TRUE
    BY DEF RuntimeFits
  <2> HIDE DEF over
  <2>3. RuntimeFits(over)
    BY <2>2 DEF RuntimeFits
  <2>4. FoundIs(over)
    <3> SUFFICES ASSUME NEW id \in AdapterIds, over.found[id] # NoStatus
                 PROVE  /\ over.at # "begin" /\ over.found[id].key = over.found[id].status.of
                        /\ over.at = "detect" => over.found[id].key = over.view[id].spec.command
      BY DEF FoundIs
    <3>1. job.found[id] # NoStatus
      BY <2>2
    <3>2. /\ job.at # "begin" /\ job.found[id].key = job.found[id].status.of
          /\ job.at = "detect" => job.found[id].key = job.view[id].spec.command
      BY <3>1 DEF FoundIs
    <3> QED BY <2>2, <3>2
  <2> QED BY <1>2, <2>1, <2>2, <2>3, <2>4
<1> QED BY <1>1, <1>2

LEMMA PutsKeep ==
    ASSUME RuntimesInv, NEW who \in Nat, NEW catalog, NEW before, SetCatalog(who, catalog, before),
           IsCatalog(catalog), IsList(before), DOMAIN before = DOMAIN runtimeJobs,
           \A k \in DOMAIN before :
               /\ RuntimeFits(before[k]) /\ FoundIs(before[k])
               /\ Overlooks(before[k], adapters, statuses) /\ AnswersRight(before[k])
               /\ k # who => before[k] = runtimeJobs[k],
           catalog = FolderReadBy(who, rulesWatch, runtimeJobs),
           TellsSoon(rulesWatch', before, catalog), who # WatcherOf => rulesWatch' = rulesWatch,
           DOMAIN rulesWatch' = {"at", "loaded"}, rulesWatch'.loaded = rulesWatch.loaded,
           rulesWatch'.at \in {"idle", "set", "refresh", "send"},
           UNCHANGED <<adapterFiles, stirred, overtakenSends>>
    PROVE  RuntimesInv'
<1> DEFINE q == readOrder
           over(k) == before[k].at = "detect" /\ catalog # adapters
<1>1. RuntimesShape /\ ReadsFollow /\ OverviewsFollow
  BY DEF RuntimesInv
<1>2. /\ adapters' = catalog
      /\ statuses' = [id \in AdapterIds |->
             IF statuses[id].key = catalog[id].spec.command THEN statuses[id] ELSE NoStatus]
      /\ overtakenReads' = (overtakenReads \/ PlaceOf(q, who) = 0) /\ readOrder' = LaterThan(q, who)
      /\ runtimeJobs' = [k \in DOMAIN before |-> runtimeJobs'[k]]
      /\ \A k \in DOMAIN before : runtimeJobs'[k] = DisturbedJob(before[k], over(k))
  BY DEF SetCatalog, PlaceOf, LaterThan, DisturbedJob
<1>3. IsList(runtimeJobs') /\ DOMAIN runtimeJobs' = DOMAIN runtimeJobs
  BY <1>2, MappedIsList
<1>4. ASSUME NEW k \in DOMAIN runtimeJobs
      PROVE  /\ RuntimeFits(runtimeJobs'[k]) /\ FoundIs(runtimeJobs'[k])
             /\ runtimeJobs'[k].at = before[k].at /\ runtimeJobs'[k].view = before[k].view
             /\ over(k) => runtimeJobs'[k].disturbed = TRUE
             /\ ~over(k) => runtimeJobs'[k] = before[k]
  <2>1. PICK new : new = runtimeJobs'[k]
    OBVIOUS
  <2>2. PICK old : old = before[k]
    OBVIOUS
  <2>3. PICK yes \in BOOLEAN : yes = over(k)
    OBVIOUS
  <2>4. RuntimeFits(old) /\ FoundIs(old) /\ new = DisturbedJob(old, yes)
    BY <1>2, <2>1, <2>2, <2>3
  <2>5. /\ RuntimeFits(new) /\ FoundIs(new) /\ new.at = old.at /\ new.view = old.view
        /\ yes => new.disturbed = TRUE
        /\ ~yes => new = old
    BY <2>4, DisturbedFacts
  <2> QED BY <2>1, <2>2, <2>3, <2>5
<1>5. /\ DOMAIN statuses' = AdapterIds
      /\ \A id \in AdapterIds : statuses'[id] # NoStatus => statuses'[id].key = statuses'[id].status.of
  BY <1>1, <1>2 DEF RuntimesShape
<1>6. RuntimesShape'
  <2>1. overtakenReads' \in BOOLEAN
    BY <1>1, <1>2 DEF RuntimesShape
  <2> QED BY <1>1, <1>2, <1>3, <1>4, <1>5, <2>1 DEF RuntimesShape
<1>7. ReadsFollow'
  <2>1. /\ Queue(q) /\ Queue(LaterThan(q, who))
        /\ \A other \in ToSet(LaterThan(q, who)) : other \in ToSet(q) /\ other # who
        /\ PlaceOf(q, who) # 0 => /\ q # <<>>
                                  /\ LaterThan(q, who) = <<>> => Last(q) = who
                                  /\ LaterThan(q, who) # <<>> => Last(LaterThan(q, who)) = Last(q)
    BY <1>1, LaterKeepsOrder DEF ReadsFollow
  <2>2. \A other \in ToSet(LaterThan(q, who)) :
            /\ HoldsRead(other, rulesWatch', runtimeJobs')
            /\ FolderReadBy(other, rulesWatch', runtimeJobs') = FolderReadBy(other, rulesWatch, runtimeJobs)
    <3> SUFFICES ASSUME NEW other \in ToSet(LaterThan(q, who))
                 PROVE  /\ HoldsRead(other, rulesWatch', runtimeJobs')
                        /\ FolderReadBy(other, rulesWatch', runtimeJobs') = FolderReadBy(other, rulesWatch, runtimeJobs)
      OBVIOUS
    <3>1. HoldsRead(other, rulesWatch, runtimeJobs) /\ other # who
      BY <1>1, <2>1 DEF ReadsFollow
    <3>2. CASE other = WatcherOf
      BY <3>1, <3>2 DEF HoldsRead, FolderReadBy
    <3>3. CASE other # WatcherOf
      <4>1. other \in DOMAIN runtimeJobs /\ before[other] = runtimeJobs[other]
        BY <3>1, <3>3 DEF HoldsRead
      <4>2. runtimeJobs'[other].at = runtimeJobs[other].at /\ runtimeJobs'[other].view = runtimeJobs[other].view
        BY <1>4, <4>1
      <4> QED BY <1>3, <3>1, <3>3, <4>1, <4>2 DEF HoldsRead, FolderReadBy
    <3> QED BY <3>2, <3>3
  <2>3. ASSUME PlaceOf(q, who) # 0
        PROVE  NewestRead(LaterThan(q, who), rulesWatch', runtimeJobs', adapters')
                 = NewestRead(q, rulesWatch, runtimeJobs, adapters)
    <3>1. CASE LaterThan(q, who) = <<>>
      BY <1>2, <2>1, <2>3, <3>1 DEF NewestRead
    <3>2. CASE LaterThan(q, who) # <<>>
      BY <2>1, <2>2, <2>3, <3>2, LastIsIn DEF NewestRead
    <3> QED BY <3>1, <3>2
  <2>4. LoadedAdapters' = LoadedAdapters
    BY DEF LoadedAdapters
  <2> QED BY <1>1, <1>2, <2>1, <2>2, <2>3, <2>4 DEF ReadsFollow
<1>8. SessionsFollow'
  BY <1>2, <1>3, <1>4 DEF SessionsFollow, TellsSoon
<1>9. OverviewsFollow'
  <2> SUFFICES ASSUME NEW k \in DOMAIN runtimeJobs
               PROVE  Overlooks(runtimeJobs'[k], adapters', statuses') /\ AnswersRight(runtimeJobs'[k])
    BY <1>3 DEF OverviewsFollow
  <2>1. CASE over(k)
    BY <1>4, <2>1 DEF Overlooks, AnswersRight
  <2>2. CASE ~over(k)
    <3>1. runtimeJobs'[k] = before[k] /\ AnswersRight(before[k]) /\ Overlooks(before[k], adapters, statuses)
      BY <1>4, <2>2
    <3>2. CASE before[k].at # "detect"
      BY <3>1, <3>2 DEF Overlooks
    <3>3. CASE catalog = adapters
      <4>1. \A id \in AdapterIds : FreshFor(statuses[id], catalog[id].spec.command)
                => FreshFor(statuses'[id], catalog[id].spec.command)
        BY <1>2 DEF FreshFor
      <4> QED BY <1>2, <3>1, <3>3, <4>1 DEF Overlooks
    <3> QED BY <2>2, <3>2, <3>3
  <2> QED BY <2>1, <2>2
<1> QED BY <1>6, <1>7, <1>8, <1>9 DEF RuntimesInv

LEMMA WatcherPutsKeeps == RuntimesInv /\ RulesWatcherSets => RuntimesInv'
<1> SUFFICES ASSUME RuntimesInv, RulesWatcherSets PROVE RuntimesInv'
  OBVIOUS
<1>1. RuntimesShape /\ OverviewsFollow
  BY DEF RuntimesInv
<1>2. PICK before : before = runtimeJobs
  OBVIOUS
<1>3. PICK catalog : catalog = rulesWatch.loaded
  OBVIOUS
<1>4. /\ SetCatalog(WatcherOf, catalog, before)
      /\ DOMAIN rulesWatch' = {"at", "loaded"} /\ rulesWatch'.at = "refresh"
      /\ rulesWatch'.loaded = rulesWatch.loaded /\ UNCHANGED <<adapterFiles, stirred, overtakenSends>>
  BY <1>1, <1>2, <1>3 DEF RulesWatcherSets, RuntimesShape
<1>5. /\ IsList(before) /\ DOMAIN before = DOMAIN runtimeJobs
      /\ \A k \in DOMAIN before :
               /\ RuntimeFits(before[k]) /\ FoundIs(before[k])
               /\ Overlooks(before[k], adapters, statuses) /\ AnswersRight(before[k])
               /\ k # WatcherOf => before[k] = runtimeJobs[k]
  BY <1>1, <1>2 DEF RuntimesShape, OverviewsFollow
<1>6. IsCatalog(catalog) /\ catalog = FolderReadBy(WatcherOf, rulesWatch, runtimeJobs)
      /\ TellsSoon(rulesWatch', before, catalog) /\ WatcherOf \in Nat
  BY <1>1, <1>3, <1>4 DEF RuntimesShape, FolderReadBy, TellsSoon, WatcherOf
<1> QED BY <1>4, <1>5, <1>6, PutsKeep

LEMMA CalibrationSetsKeeps ==
    ASSUME RuntimesInv, NEW i \in DOMAIN runtimeJobs, CalibrationSets(i)
    PROVE  RuntimesInv'
<1>1. RuntimesShape /\ OverviewsFollow
  BY DEF RuntimesInv
<1>2. PICK job : job = WentOn(runtimeJobs[i], "refresh")
  OBVIOUS
<1>3. PICK before : before = [runtimeJobs EXCEPT ![i] = job]
  OBVIOUS
<1>4. PICK catalog : catalog = runtimeJobs[i].view
  OBVIOUS
<1>5. /\ runtimeJobs[i].at = "set" /\ runtimeJobs[i].ask.op = "calibrate"
      /\ SetCatalog(i, catalog, before) /\ UNCHANGED <<adapterFiles, stirred, rulesWatch, overtakenSends>>
  BY <1>2, <1>3, <1>4 DEF CalibrationSets, RuntimeAt, Asked, WentOn
<1>6. /\ IsList(before) /\ DOMAIN before = DOMAIN runtimeJobs /\ before[i] = job
      /\ \A k \in DOMAIN runtimeJobs : k # i => before[k] = runtimeJobs[k]
  BY <1>1, <1>3, ListTakes DEF RuntimesShape
<1>7. "refresh" \in RuntimePlaces[runtimeJobs[i].ask.op] /\ RuntimeFits(runtimeJobs[i]) /\ FoundIs(runtimeJobs[i])
  BY <1>1, <1>5 DEF RuntimePlaces, RuntimesShape
<1>8. RuntimeFits(job) /\ FoundIs(job) /\ job.at = "refresh"
  BY <1>2, <1>7, WentOnFacts
<1>9. \A k \in DOMAIN before :
               /\ RuntimeFits(before[k]) /\ FoundIs(before[k])
               /\ Overlooks(before[k], adapters, statuses) /\ AnswersRight(before[k])
               /\ k # i => before[k] = runtimeJobs[k]
  <2>1. Overlooks(job, adapters, statuses) /\ AnswersRight(job)
    BY <1>8 DEF Overlooks, AnswersRight
  <2> QED BY <1>1, <1>6, <1>8, <2>1 DEF RuntimesShape, OverviewsFollow
<1>10. i \in Nat /\ i # WatcherOf
  BY <1>1 DEF RuntimesShape, IsList, WatcherOf
<1>11. IsCatalog(catalog) /\ catalog = FolderReadBy(i, rulesWatch, runtimeJobs) /\ TellsSoon(rulesWatch', before, catalog)
  BY <1>4, <1>6, <1>7, <1>8, <1>10 DEF RuntimeFits, FolderReadBy, TellsSoon
<1>12. DOMAIN rulesWatch' = {"at", "loaded"} /\ rulesWatch' = rulesWatch
       /\ rulesWatch'.at \in {"idle", "set", "refresh", "send"}
  BY <1>1, <1>5 DEF RuntimesShape
<1> QED BY <1>5, <1>6, <1>9, <1>10, <1>11, <1>12, PutsKeep

------------------------------------------------------------------------------
(* Reads of the folder, and the answer of an overview.                          *)

LEMMA ReaderJoins ==
    ASSUME ReadsFollow, NEW who \in Nat, ~HoldsRead(who, rulesWatch, runtimeJobs),
           readOrder' = Append(readOrder, who), adapterFiles' = adapterFiles,
           HoldsRead(who, rulesWatch', runtimeJobs'),
           FolderReadBy(who, rulesWatch', runtimeJobs') = LoadedAdapters,
           \A k \in DOMAIN runtimeJobs : runtimeJobs[k].at = "set" =>
               k \in DOMAIN runtimeJobs' /\ runtimeJobs'[k] = runtimeJobs[k],
           rulesWatch.at = "set" => rulesWatch' = rulesWatch
    PROVE  ReadsFollow'
<1>1. who \notin ToSet(readOrder)
  BY DEF ReadsFollow
<1>2. /\ Queue(readOrder') /\ readOrder' # <<>> /\ Last(readOrder') = who
      /\ \A other \in ToSet(readOrder') : other \in ToSet(readOrder) \/ other = who
  BY <1>1, QueueGrows DEF ReadsFollow
<1>3. \A other \in ToSet(readOrder') : HoldsRead(other, rulesWatch', runtimeJobs')
  BY <1>2 DEF ReadsFollow, HoldsRead
<1>4. LoadedAdapters' = LoadedAdapters
  BY DEF LoadedAdapters
<1> QED BY <1>2, <1>3, <1>4 DEF ReadsFollow, NewestRead

LEMMA RulesWatcherLoadsKeeps == RuntimesAssumption /\ RuntimesInv /\ RulesWatcherLoads => RuntimesInv'
<1> SUFFICES ASSUME RuntimesAssumption, RuntimesInv, RulesWatcherLoads PROVE RuntimesInv'
  OBVIOUS
<1>1. RuntimesShape /\ ReadsFollow /\ SessionsFollow /\ OverviewsFollow
  BY DEF RuntimesInv
<1>2. /\ rulesWatch.at = "idle" /\ stirred' = FALSE /\ readOrder' = Append(readOrder, WatcherOf)
      /\ DOMAIN rulesWatch' = {"at", "loaded"} /\ rulesWatch'.at = "set" /\ rulesWatch'.loaded = LoadedAdapters
      /\ UNCHANGED <<adapterFiles, adapters, statuses, runtimeJobs, overtakenReads, overtakenSends>>
  BY DEF RulesWatcherLoads
<1>3. IsCatalog(LoadedAdapters)
  BY <1>1, LoadedIsCatalog DEF RuntimesShape
<1>4. RuntimesShape'
  BY <1>1, <1>2, <1>3 DEF RuntimesShape
<1>5. ReadsFollow'
  <2>1. /\ WatcherOf \in Nat /\ ~HoldsRead(WatcherOf, rulesWatch, runtimeJobs)
        /\ HoldsRead(WatcherOf, rulesWatch', runtimeJobs')
        /\ FolderReadBy(WatcherOf, rulesWatch', runtimeJobs') = LoadedAdapters
    BY <1>2 DEF HoldsRead, FolderReadBy, WatcherOf
  <2> QED BY <1>1, <1>2, <2>1, ReaderJoins
<1>6. SessionsFollow'
  BY <1>1, <1>2 DEF SessionsFollow, TellsSoon
<1>7. OverviewsFollow'
  BY <1>1, <1>2 DEF OverviewsFollow
<1> QED BY <1>4, <1>5, <1>6, <1>7 DEF RuntimesInv

LEMMA CalibrationLoadsKeeps ==
    ASSUME RuntimesAssumption, RuntimesInv, NEW i \in DOMAIN runtimeJobs, CalibrationLoads(i)
    PROVE  RuntimesInv'
<1> DEFINE job == [runtimeJobs[i] EXCEPT !.at = "set", !.view = LoadedAdapters]
<1>1. RuntimesShape /\ ReadsFollow /\ SessionsFollow /\ OverviewsFollow
  BY DEF RuntimesInv
<1>2. /\ runtimeJobs[i].at = "load" /\ runtimeJobs[i].ask.op = "calibrate" /\ readOrder' = Append(readOrder, i)
      /\ runtimeJobs' = [runtimeJobs EXCEPT ![i] = job]
      /\ UNCHANGED <<adapterFiles, adapters, statuses, stirred, rulesWatch, overtakenReads, overtakenSends>>
  BY DEF CalibrationLoads, RuntimeAt, Asked
<1>3. IsCatalog(LoadedAdapters)
  BY <1>1, LoadedIsCatalog DEF RuntimesShape
<1>4. RuntimeFits(runtimeJobs[i]) /\ FoundIs(runtimeJobs[i])
  BY <1>1 DEF RuntimesShape
<1>5. /\ DOMAIN job = DOMAIN runtimeJobs[i] /\ job.at = "set" /\ job.view = LoadedAdapters
      /\ job.ask = runtimeJobs[i].ask /\ job.spec = runtimeJobs[i].spec /\ job.found = runtimeJobs[i].found
      /\ job.disturbed = runtimeJobs[i].disturbed
  BY <1>4 DEF RuntimeFits
<1> HIDE DEF job
<1>6. RuntimeFits(job) /\ FoundIs(job)
  BY <1>2, <1>3, <1>4, <1>5 DEF RuntimeFits, RuntimePlaces, FoundIs
<1>7. HasRules(job, adapters) /\ Overlooks(job, adapters, statuses) /\ AnswersRight(job)
  BY <1>5 DEF HasRules, Overlooks, AnswersRight
<1>8. /\ IsList(runtimeJobs') /\ DOMAIN runtimeJobs' = DOMAIN runtimeJobs /\ runtimeJobs'[i] = job
      /\ \A k \in DOMAIN runtimeJobs : k # i => runtimeJobs'[k] = runtimeJobs[k]
  BY <1>1, <1>2, ListTakes DEF RuntimesShape
<1>9. RuntimesShape'
  BY <1>1, <1>2, <1>6, <1>8 DEF RuntimesShape
<1>10. ReadsFollow'
  <2>1. i \in Nat /\ i # WatcherOf
    BY <1>1 DEF RuntimesShape, IsList, WatcherOf
  <2>2. /\ ~HoldsRead(i, rulesWatch, runtimeJobs) /\ HoldsRead(i, rulesWatch', runtimeJobs')
        /\ FolderReadBy(i, rulesWatch', runtimeJobs') = LoadedAdapters
    BY <1>2, <1>5, <1>8, <2>1 DEF HoldsRead, FolderReadBy
  <2>3. \A k \in DOMAIN runtimeJobs : runtimeJobs[k].at = "set" =>
            k \in DOMAIN runtimeJobs' /\ runtimeJobs'[k] = runtimeJobs[k]
    BY <1>2, <1>8
  <2> QED BY <1>1, <1>2, <2>1, <2>2, <2>3, ReaderJoins
<1>11. SessionsFollow'
  BY <1>1, <1>2, <1>5, <1>7, <1>8 DEF SessionsFollow, TellsSoon
<1>12. OverviewsFollow'
  BY <1>1, <1>2, <1>7, <1>8 DEF OverviewsFollow
<1> QED BY <1>9, <1>10, <1>11, <1>12 DEF RuntimesInv

LEMMA OverviewAnswersKeeps ==
    ASSUME RuntimesInv, NEW i \in DOMAIN runtimeJobs, OverviewAnswers(i)
    PROVE  RuntimesInv'
<1> DEFINE found == runtimeJobs[i].found
           cache == [id \in AdapterIds |-> IF found[id] # NoStatus THEN found[id] ELSE statuses[id]]
           answer == [id \in Known |-> cache[id].status]
           job == [runtimeJobs[i] EXCEPT !.at = "answered", !.view = adapters, !.answer = answer]
           over(k) == runtimeJobs[k].at = "detect" /\ runtimeJobs[i].disturbed = TRUE
<1>1. RuntimesShape /\ ReadsFollow /\ SessionsFollow /\ OverviewsFollow
  BY DEF RuntimesInv
<1>2. RuntimeFits(runtimeJobs[i]) /\ FoundIs(runtimeJobs[i]) /\ Overlooks(runtimeJobs[i], adapters, statuses)
  BY <1>1 DEF RuntimesShape, OverviewsFollow
<1>3. /\ runtimeJobs[i].at = "detect" /\ runtimeJobs[i].ask.op = "overview" /\ runtimeJobs[i].pending = {}
      /\ statuses' = cache
      /\ UNCHANGED <<adapterFiles, adapters, stirred, rulesWatch, readOrder, overtakenReads, overtakenSends>>
      /\ runtimeJobs' = [k \in DOMAIN runtimeJobs |->
               IF k = i THEN job
               ELSE IF runtimeJobs[k].at = "detect" /\ runtimeJobs[i].disturbed
                    THEN [runtimeJobs[k] EXCEPT !.disturbed = TRUE] ELSE runtimeJobs[k]]
  BY DEF OverviewAnswers, RuntimeAt, Asked
<1>4. runtimeJobs[i].disturbed \in BOOLEAN
  BY <1>2 DEF RuntimeFits
<1>5. /\ IsList(runtimeJobs') /\ DOMAIN runtimeJobs' = DOMAIN runtimeJobs /\ runtimeJobs'[i] = job
      /\ \A k \in DOMAIN runtimeJobs : k # i => runtimeJobs'[k] = DisturbedJob(runtimeJobs[k], over(k))
  <2>1. runtimeJobs' = [k \in DOMAIN runtimeJobs |-> runtimeJobs'[k]]
    BY <1>3
  <2>2. IsList(runtimeJobs') /\ DOMAIN runtimeJobs' = DOMAIN runtimeJobs
    BY <1>1, <2>1, MappedIsList DEF RuntimesShape
  <2> QED BY <1>3, <1>4, <2>2 DEF DisturbedJob
<1>6. /\ DOMAIN cache = AdapterIds
      /\ \A id \in AdapterIds : cache[id] # NoStatus => cache[id].key = cache[id].status.of
  BY <1>1, <1>2 DEF RuntimesShape, FoundIs
<1>7. ASSUME ~runtimeJobs[i].disturbed, NEW id \in AdapterIds
      PROVE  /\ adapters[id].spec # NoAdapter => FreshFor(cache[id], adapters[id].spec.command)
             /\ FreshFor(statuses[id], adapters[id].spec.command)
                  => FreshFor(cache[id], adapters[id].spec.command)
  BY <1>2, <1>3, <1>7 DEF Overlooks, FreshFor, FoundIs
<1>8. /\ DOMAIN job = DOMAIN runtimeJobs[i] /\ job.at = "answered" /\ job.view = adapters /\ job.answer = answer
      /\ job.ask = runtimeJobs[i].ask /\ job.spec = runtimeJobs[i].spec /\ job.found = found
      /\ job.disturbed = runtimeJobs[i].disturbed
  BY <1>2 DEF RuntimeFits
<1>9. \A id \in DOMAIN answer : id \in AdapterIds /\ adapters[id].spec # NoAdapter /\ answer[id] = cache[id].status
  BY DEF Known
<1> HIDE DEF job, cache, answer
<1>10. RuntimeFits(job) /\ FoundIs(job)
  BY <1>1, <1>2, <1>3, <1>8 DEF RuntimeFits, RuntimePlaces, RuntimesShape, FoundIs
<1>11. HasRules(job, adapters) /\ Overlooks(job, adapters, cache) /\ AnswersRight(job)
  <2>1. HasRules(job, adapters) /\ Overlooks(job, adapters, cache)
    BY <1>8 DEF HasRules, Overlooks
  <2>2. AnswersRight(job)
    BY <1>6, <1>7, <1>8, <1>9 DEF AnswersRight, FreshFor
  <2> QED BY <2>1, <2>2
<1>12. ASSUME NEW k \in DOMAIN runtimeJobs, k # i
       PROVE  /\ RuntimeFits(runtimeJobs'[k]) /\ FoundIs(runtimeJobs'[k])
              /\ runtimeJobs'[k].at = runtimeJobs[k].at /\ runtimeJobs'[k].view = runtimeJobs[k].view
              /\ over(k) => runtimeJobs'[k].disturbed = TRUE
              /\ ~over(k) => runtimeJobs'[k] = runtimeJobs[k]
  <2>1. PICK new : new = runtimeJobs'[k]
    OBVIOUS
  <2>2. PICK old : old = runtimeJobs[k]
    OBVIOUS
  <2>3. PICK yes \in BOOLEAN : yes = over(k)
    OBVIOUS
  <2>4. RuntimeFits(old) /\ FoundIs(old) /\ new = DisturbedJob(old, yes)
    BY <1>1, <1>5, <1>12, <2>1, <2>2, <2>3 DEF RuntimesShape
  <2>5. /\ RuntimeFits(new) /\ FoundIs(new) /\ new.at = old.at /\ new.view = old.view
        /\ yes => new.disturbed = TRUE
        /\ ~yes => new = old
    BY <2>4, DisturbedFacts
  <2> QED BY <2>1, <2>2, <2>3, <2>5
<1>13. RuntimesShape'
  BY <1>1, <1>3, <1>5, <1>6, <1>10, <1>12 DEF RuntimesShape
<1>14. ReadsFollow'
  BY <1>1, <1>3, <1>5, <1>12, ReadsStay
<1>15. SessionsFollow'
  <2>1. CASE overtakenSends \/ TellsSoon(rulesWatch, runtimeJobs, adapters)
    BY <1>3, <1>5, <1>12, <2>1 DEF SessionsFollow, TellsSoon
  <2>2. CASE ~overtakenSends /\ ~TellsSoon(rulesWatch, runtimeJobs, adapters)
    <3>1. ASSUME NEW k \in DOMAIN runtimeJobs PROVE HasRules(runtimeJobs'[k], adapters)
      <4>1. CASE k = i
        BY <1>5, <1>11, <4>1
      <4>2. CASE k # i /\ over(k)
        BY <1>12, <4>2 DEF HasRules
      <4>3. CASE k # i /\ ~over(k)
        BY <1>1, <1>12, <2>2, <4>3 DEF SessionsFollow
      <4> QED BY <4>1, <4>2, <4>3
    <3> QED BY <1>3, <1>5, <3>1 DEF SessionsFollow
  <2> QED BY <2>1, <2>2
<1>16. OverviewsFollow'
  <2>1. ASSUME NEW k \in DOMAIN runtimeJobs
        PROVE  Overlooks(runtimeJobs'[k], adapters, cache) /\ AnswersRight(runtimeJobs'[k])
    <3>1. CASE k = i
      BY <1>5, <1>11, <3>1
    <3>2. CASE k # i /\ over(k)
      BY <1>12, <3>2 DEF Overlooks, AnswersRight
    <3>3. CASE k # i /\ ~over(k)
      <4>1. runtimeJobs'[k] = runtimeJobs[k] /\ AnswersRight(runtimeJobs[k])
            /\ Overlooks(runtimeJobs[k], adapters, statuses)
        BY <1>1, <1>12, <3>3 DEF OverviewsFollow
      <4>2. CASE runtimeJobs[k].at # "detect"
        BY <4>1, <4>2 DEF Overlooks
      <4>3. CASE ~runtimeJobs[i].disturbed
        BY <1>7, <4>1, <4>3 DEF Overlooks
      <4> QED BY <1>4, <3>3, <4>1, <4>2, <4>3
    <3> QED BY <3>1, <3>2, <3>3
  <2> QED BY <1>3, <1>5, <2>1 DEF OverviewsFollow
<1> QED BY <1>13, <1>14, <1>15, <1>16 DEF RuntimesInv

LEMMA RuntimesBegin == RuntimesAssumption /\ RuntimesInit => RuntimesInv
<1> SUFFICES ASSUME RuntimesAssumption, RuntimesInit PROVE RuntimesInv
  OBVIOUS
<1>1. PICK scene \in RuntimeScenes : runtimeJobs = [i \in DOMAIN scene |-> RuntimeJob(scene[i])]
  BY DEF RuntimesInit
<1>2. IsList(scene) /\ \A ask \in ToSet(scene) :
         /\ ask.op \in {"save", "calibrate", "start", "overview"} /\ ask.id \in AdapterIds
         /\ ask.op = "save" => IsAdapter(ask.spec)
  BY DEF RuntimesAssumption, IsList
<1>3. IsAdapter(NoAdapter)
  BY DEF IsAdapter, NoAdapter
<1>4. /\ DOMAIN adapterFiles = AdapterIds /\ \A id \in AdapterIds : IsAdapter(adapterFiles[id])
      /\ adapters = LoadedAdapters /\ rulesWatch.at = "idle" /\ rulesWatch.loaded = adapters
      /\ DOMAIN rulesWatch = {"at", "loaded"} /\ DOMAIN statuses = AdapterIds
      /\ \A id \in AdapterIds : statuses[id] = NoStatus
      /\ stirred = FALSE /\ overtakenReads = FALSE /\ overtakenSends = FALSE /\ readOrder = <<>>
  BY <1>3 DEF RuntimesInit
<1>5. IsCatalog(adapters)
  BY <1>4, LoadedIsCatalog
<1>6. IsList(runtimeJobs) /\ DOMAIN runtimeJobs = DOMAIN scene
  BY <1>1, <1>2, MappedIsList
<1>7. ASSUME NEW k \in DOMAIN runtimeJobs
      PROVE  /\ RuntimeFits(runtimeJobs[k]) /\ FoundIs(runtimeJobs[k]) /\ runtimeJobs[k].at = "begin"
  <2>1. runtimeJobs[k] = RuntimeJob(scene[k]) /\ scene[k] \in ToSet(scene)
    BY <1>1, <1>6 DEF ToSet
  <2>2. /\ DOMAIN RuntimeJob(scene[k]) =
             {"ask", "at", "spec", "view", "pending", "found", "answer", "disturbed", "late"}
        /\ RuntimeJob(scene[k]).ask = scene[k] /\ RuntimeJob(scene[k]).at = "begin"
        /\ RuntimeJob(scene[k]).spec = NoAdapter /\ RuntimeJob(scene[k]).view = adapters
        /\ RuntimeJob(scene[k]).disturbed = FALSE
        /\ RuntimeJob(scene[k]).found = [id \in AdapterIds |-> NoStatus]
    BY DEF RuntimeJob
  <2>3. RuntimeFits(RuntimeJob(scene[k]))
    <3>1. /\ scene[k].op \in {"save", "calibrate", "start", "overview"} /\ scene[k].id \in AdapterIds
          /\ scene[k].op = "save" => IsAdapter(scene[k].spec)
      BY <1>2, <2>1
    <3>2. "begin" \in RuntimePlaces[scene[k].op]
      BY <3>1 DEF RuntimePlaces
    <3>3. DOMAIN RuntimeJob(scene[k]).found = AdapterIds
      BY <2>2
    <3> QED BY <1>3, <1>5, <2>2, <3>1, <3>2, <3>3 DEF RuntimeFits
  <2>4. FoundIs(RuntimeJob(scene[k]))
    BY <2>2 DEF FoundIs
  <2> QED BY <2>1, <2>2, <2>3, <2>4
<1>8. RuntimesShape
  BY <1>4, <1>5, <1>6, <1>7 DEF RuntimesShape
<1>9. ReadsFollow
  BY <1>4 DEF ReadsFollow, Queue, NewestRead, ToSet
<1>10. SessionsFollow
  BY <1>7 DEF SessionsFollow, HasRules
<1>11. OverviewsFollow
  BY <1>7 DEF OverviewsFollow, Overlooks, AnswersRight
<1> QED BY <1>8, <1>9, <1>10, <1>11 DEF RuntimesInv

LEMMA RuntimesGoOn == RuntimesAssumption /\ RuntimesInv /\ [RuntimesNext]_runtimesVars => RuntimesInv'
<1> SUFFICES ASSUME RuntimesAssumption, RuntimesInv, [RuntimesNext]_runtimesVars PROVE RuntimesInv'
  OBVIOUS
<1>1. CASE RulesWatcherLoads \/ RulesWatcherSets \/ RulesWatcherClones \/ RulesWatcherTells
  BY <1>1, RulesWatcherLoadsKeeps, WatcherPutsKeeps, WatcherClonesKeeps, WatcherTellsKeeps
<1>2. CASE \E i \in DOMAIN runtimeJobs :
              \/ UserSavesAdapter(i) \/ SessionTakes(i) \/ SessionEnters(i)
              \/ CalibrationReads(i) \/ CalibrationWrites(i) \/ CalibrationLoads(i)
              \/ CalibrationSets(i) \/ CalibrationClones(i) \/ CalibrationTells(i)
              \/ OverviewBegins(i) \/ OverviewAnswers(i) \/ \E id \in AdapterIds : Detected0(i, id)
  BY <1>2, SaveKeeps, SessionTakesKeeps, SessionEntersKeeps, CalibrationReadsKeeps, CalibrationWritesKeeps,
     CalibrationLoadsKeeps, CalibrationSetsKeeps, CalibrationClonesKeeps, CalibrationTellsKeeps, OverviewBeginsKeeps,
     OverviewAnswersKeeps, DetectedKeeps
<1>3. CASE UNCHANGED runtimesVars
  BY <1>3 DEF runtimesVars, RuntimesInv, RuntimesShape, ReadsFollow, SessionsFollow, OverviewsFollow,
              LoadedAdapters
<1> QED BY <1>1, <1>2, <1>3 DEF RuntimesNext

LEMMA CurrentOnceStill == RuntimesInv => RuntimesAreCurrent
<1> SUFFICES ASSUME RuntimesInv PROVE RuntimesAreCurrent
  OBVIOUS
<1>1. RuntimesShape /\ ReadsFollow /\ SessionsFollow /\ OverviewsFollow
  BY DEF RuntimesInv
<1>2. StatusIsOfItsCommand
  BY <1>1 DEF OverviewsFollow, AnswersRight, StatusIsOfItsCommand
<1>3. ASSUME RuntimesRest
      PROVE  rulesWatch.at = "idle" /\ ~stirred /\ \A k \in DOMAIN runtimeJobs : runtimeJobs[k].at \notin Aside
  BY <1>1, <1>3 DEF RuntimesRest, Asked, RuntimesShape, RuntimeFits, RuntimePlaces, Aside
<1>4. ASSUME RuntimesRest, ~overtakenReads PROVE adapters = LoadedAdapters
  <2>1. \A who \in ToSet(readOrder) : FALSE
    BY <1>1, <1>3, <1>4 DEF ReadsFollow, HoldsRead, Aside
  <2>2. readOrder = <<>>
    BY <1>1, <2>1, LastIsIn DEF ReadsFollow
  <2> QED BY <1>1, <1>3, <1>4, <2>2 DEF ReadsFollow, NewestRead
<1>5. ASSUME RuntimesRest, ~overtakenSends, NEW k \in DOMAIN runtimeJobs, RuntimeAt(k, "start", "live"), ~runtimeJobs[k].late,
             Asked(k).id \in Known
      PROVE  runtimeJobs[k].spec.rules = adapters[Asked(k).id].spec.rules
  <2>1. ~TellsSoon(rulesWatch, runtimeJobs, adapters)
    BY <1>3, <1>5 DEF TellsSoon, Aside
  <2> QED BY <1>1, <1>5, <2>1 DEF SessionsFollow, HasRules, RuntimeAt, Asked, Known
<1> QED BY <1>2, <1>4, <1>5 DEF RuntimesAreCurrent, RulesReachSessions

\* "o idle_regex novo vale sem reiniciar agente nenhum" (supervisor/mod.rs:979):
\* once the folder, the watcher and the calibrations rest, the catalog is what the
\* folder holds, unless an older read was put over a newer one; every live session
\* reads its screen by the catalog, unless refresh_state_rules sent an older one
\* that it had cloned before, or the session's start overlapped the change; and what
\* an overview shows of a runtime, its command of now answered, unless a change
\* overtook that overview or one that ended meanwhile: for any adapters, saves,
\* calibrations, starts and overviews, in any order of their steps (detect.rs:301,
\* 311; watch.rs:28; calibrate.rs:58; supervisor/mod.rs:981).
THEOREM RuntimesAreCurrentHolds == RuntimesSpec => []RuntimesAreCurrent
<1>1. RuntimesInit => RuntimesInv
  BY RuntimesBegin, RuntimesAssumption
<1>2. RuntimesInv /\ [RuntimesNext]_runtimesVars => RuntimesInv'
  BY RuntimesGoOn, RuntimesAssumption
<1>3. RuntimesInv => RuntimesAreCurrent
  BY CurrentOnceStill
<1> QED BY <1>1, <1>2, <1>3, PTL DEF RuntimesSpec
=============================================================================
