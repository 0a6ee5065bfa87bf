----------------------------- MODULE Proposals -----------------------------
(***************************************************************************)
(* What an agent proposes and the human decides (aisense-core,             *)
(* proposal/mod.rs), and the changes to the rows of agents it meets there  *)
(* (agent/ops.rs): created, edited, duplicated, put in another order.      *)
(* Each request is a sequence of reads and writes of the store, between    *)
(* which the others run; a write carries the whole row that was read.      *)
(***************************************************************************)
EXTENDS Integers, Sequences, FiniteSetsExt

CONSTANTS
    Founders,          \* the handles of the first agents
    MaxAgents, MaxSuffix,   \* bounds on the agents, and on the suffix of a copy
    ProposalScenes     \* the requests made at the same time

VARIABLES
    agentRows,    \* per id: [handle, autonomy, name, position], or Nobody
    proposals,    \* [action, by, state], in the order they were made
    proposalJobs, \* per request: [ask, at, of, row, left]: the agent, the row to write
    authorsTold,  \* per proposal: how often its author was told of the decision
    executed      \* history: the proposals that were executed

proposalVars == <<agentRows, proposals, proposalJobs, authorsTold, executed>>

Row(handle, name, position) ==
    [handle |-> handle, autonomy |-> "ask", name |-> name, position |-> position]
Nobody == Row(<<"", 0>>, "", 0)
Ids == 1 .. MaxAgents
Present == {a \in Ids : agentRows[a] # Nobody}
HandlesTaken == {agentRows[a].handle : a \in Present}

ProposalInit ==
    /\ agentRows = [a \in Ids |-> IF a \in DOMAIN Founders
                             THEN Row(<<Founders[a], 0>>, "first", a - 1) ELSE Nobody]
    /\ proposals = <<>> /\ authorsTold = <<>> /\ executed = {}
    /\ \E scene \in ProposalScenes :
        proposalJobs = [j \in DOMAIN scene |->
                   [ask |-> scene[j], at |-> "begin", of |-> 1, row |-> Nobody, left |-> <<>>]]

Doing(j, does, at) == proposalJobs[j].ask.does = does /\ proposalJobs[j].at = at
Becomes(j, job) == proposalJobs' = [proposalJobs EXCEPT ![j] = job]
Goes(j, at) == Becomes(j, [proposalJobs[j] EXCEPT !.at = at])
Writes(j, at, of, row) == Becomes(j, [proposalJobs[j] EXCEPT !.at = at, !.of = of, !.row = row])
Proposal(j) == proposalJobs[j].ask.of
Decides(j) == proposalJobs[j].ask.does = "decide"

-----------------------------------------------------------------------------
(* create_agent, update_agent, duplicate_agent, reorder_agents               *)

\* Refused when a sibling has the handle, by the rows read here; it goes last.
ToCreate(j, handle, name) ==
    IF handle \in HandlesTaken THEN Goes(j, "refused")
    ELSE Writes(j, "insert", proposalJobs[j].of, Row(handle, name,
             IF Present = {} THEN 0 ELSE Max({agentRows[a].position : a \in Present}) + 1))

\* After a write: a decision is recorded, anything else is done.
Wrote(j) ==
    /\ Goes(j, IF Decides(j) THEN "record" ELSE "done")
    /\ executed' = IF Decides(j) THEN executed \cup {Proposal(j)} ELSE executed
\* The store refuses a handle that is taken.
Insert(j) ==
    /\ proposalJobs[j].at = "insert" /\ Present # Ids
    /\ IF proposalJobs[j].row.handle \in HandlesTaken
       THEN Goes(j, "refused") /\ UNCHANGED <<agentRows, executed>>
       ELSE /\ agentRows' = [agentRows EXCEPT ![Min(Ids \ Present)] = proposalJobs[j].row] /\ Wrote(j)
    /\ UNCHANGED <<proposals, authorsTold>>

\* update_agent: the draft on the row of now, whose position stays.
Get(j) ==
    LET a == proposalJobs[j].of
    IN  /\ proposalJobs[j].at = "get"
        /\ IF a \notin Present \/ \E b \in Present \ {a} : agentRows[b].handle = proposalJobs[j].row.handle
           THEN Goes(j, "refused")
           ELSE Writes(j, "update", a, [proposalJobs[j].row EXCEPT !.position = agentRows[a].position])
        /\ UNCHANGED <<agentRows, proposals, authorsTold, executed>>
Update(j) ==
    /\ proposalJobs[j].at = "update"
    /\ IF proposalJobs[j].of \notin Present
       THEN Goes(j, "refused") /\ UNCHANGED <<agentRows, executed>>
       ELSE agentRows' = [agentRows EXCEPT ![proposalJobs[j].of] = proposalJobs[j].row] /\ Wrote(j)
    /\ UNCHANGED <<proposals, authorsTold>>

\* The form was filled from the row of when it was opened.
Edit(j) ==
    /\ Doing(j, "edit", "begin")
    /\ IF proposalJobs[j].ask.of \in Present
       THEN Writes(j, "get", proposalJobs[j].ask.of, [agentRows[proposalJobs[j].ask.of] EXCEPT !.name = "edited"])
       ELSE Goes(j, "refused")
    /\ UNCHANGED <<agentRows, proposals, authorsTold, executed>>

\* The first suffix that is free among the siblings, who are read again later.
FreeHandle(handle) ==
    <<handle[1], CHOOSE n \in 2 .. MaxSuffix :
        <<handle[1], n>> \notin HandlesTaken /\ \A k \in 2 .. n - 1 : <<handle[1], k>> \in HandlesTaken>>
Duplicate(j) ==
    /\ Doing(j, "duplicate", "begin")
    /\ IF proposalJobs[j].ask.of \in Present
       THEN Writes(j, "copy", proposalJobs[j].of,
                   [Nobody EXCEPT !.handle = FreeHandle(agentRows[proposalJobs[j].ask.of].handle)])
       ELSE Goes(j, "refused")
    /\ UNCHANGED <<agentRows, proposals, authorsTold, executed>>
Copy(j) ==
    /\ Doing(j, "duplicate", "copy") /\ ToCreate(j, proposalJobs[j].row.handle, "copy")
    /\ UNCHANGED <<agentRows, proposals, authorsTold, executed>>

\* Every agent once, or the list is old.  Only who moved is written, as it was read.
Reorder(j) ==
    LET order == proposalJobs[j].ask.order
        moved == SelectSeq([i \in DOMAIN order |->
                     [id |-> order[i], row |-> [agentRows[order[i]] EXCEPT !.position = i - 1]]],
                     LAMBDA w : agentRows[w.id].position # w.row.position)
    IN  /\ Doing(j, "reorder", "begin")
        /\ IF {order[i] : i \in DOMAIN order} = Present /\ Len(order) = Cardinality(Present)
           THEN Becomes(j, [proposalJobs[j] EXCEPT !.at = "move", !.left = moved])
           ELSE Goes(j, "refused")
        /\ UNCHANGED <<agentRows, proposals, authorsTold, executed>>
Move(j) ==
    LET w == Head(proposalJobs[j].left)
    IN  /\ Doing(j, "reorder", "move")
        /\ IF proposalJobs[j].left = <<>> THEN Goes(j, "done") /\ agentRows' = agentRows
           ELSE IF w.id \notin Present THEN Goes(j, "refused") /\ agentRows' = agentRows
           ELSE /\ agentRows' = [agentRows EXCEPT ![w.id] = w.row]
                /\ Becomes(j, [proposalJobs[j] EXCEPT !.left = Tail(@)])
        /\ UNCHANGED <<proposals, authorsTold, executed>>

RemoveAgent(j) ==
    /\ Doing(j, "remove", "begin") /\ Goes(j, "done")
    /\ agentRows' = [agentRows EXCEPT ![proposalJobs[j].ask.of] = Nobody]
    /\ UNCHANGED <<proposals, authorsTold, executed>>

-----------------------------------------------------------------------------
(* ProposalService                                                           *)

\* check, on the agents of now; what a human will edit has nothing to check.
Sound(action) == CASE action.kind = "create"   -> action.handle \notin HandlesTaken
                   [] action.kind = "autonomy" -> action.handle \in HandlesTaken
                   [] OTHER -> TRUE

\* propose: the check, then the row.
Propose(j) ==
    /\ Doing(j, "propose", "begin") /\ proposalJobs[j].ask.of \in Present
    /\ Goes(j, IF Sound(proposalJobs[j].ask.action) THEN "file" ELSE "refused")
    /\ UNCHANGED <<agentRows, proposals, authorsTold, executed>>
File(j) ==
    /\ Doing(j, "propose", "file") /\ proposalJobs[j].ask.of \in Present /\ Goes(j, "done")
    /\ proposals' = Append(proposals, [action |-> proposalJobs[j].ask.action, by |-> proposalJobs[j].ask.of,
                                       state |-> "pending"])
    /\ authorsTold' = Append(authorsTold, 0)
    /\ UNCHANGED <<agentRows, executed>>

\* decide: what is pending goes on to the check, or to the record.
\* RecordsFirst is the mutant of Look.
RecordsFirst(j) ==
    /\ Doing(j, "decide", "begin") /\ Proposal(j) \in DOMAIN proposals
    /\ Goes(j, IF proposals[Proposal(j)].state # "pending" THEN "refused" ELSE "record")
    /\ UNCHANGED <<agentRows, proposals, authorsTold, executed>>
Look(j) ==
    /\ Doing(j, "decide", "begin") /\ Proposal(j) \in DOMAIN proposals
    /\ Goes(j, IF proposals[Proposal(j)].state # "pending" THEN "refused"
               ELSE IF proposalJobs[j].ask.accept THEN "check" ELSE "record")
    /\ UNCHANGED <<agentRows, proposals, authorsTold, executed>>
Check(j) ==
    /\ Doing(j, "decide", "check")
    /\ Goes(j, IF Sound(proposals[Proposal(j)].action) THEN "execute" ELSE "refused")
    /\ UNCHANGED <<agentRows, proposals, authorsTold, executed>>
\* execute: the agent is created, or found and edited; an edit is left to the human.
Execute(j) ==
    LET action == proposals[Proposal(j)].action
        named  == {a \in Present : agentRows[a].handle = action.handle}
    IN  /\ Doing(j, "decide", "execute")
        /\ CASE action.kind = "create" -> ToCreate(j, action.handle, "new")
             [] action.kind = "autonomy" /\ named # {} ->
                  LET a == CHOOSE a \in named : TRUE
                  IN  Writes(j, "get", a, [agentRows[a] EXCEPT !.autonomy = action.to])
             [] action.kind = "autonomy" /\ named = {} -> Goes(j, "refused")
             [] OTHER -> Goes(j, "record")
        /\ UNCHANGED <<agentRows, proposals, authorsTold, executed>>
\* decide_proposal, if it is still pending.
Record(j) ==
    LET p == Proposal(j)
    IN  /\ Doing(j, "decide", "record")
        /\ IF proposals[p].state # "pending" THEN Goes(j, "refused") /\ proposals' = proposals
           ELSE /\ Goes(j, "tell")
                /\ proposals' = [proposals EXCEPT ![p].state =
                                    IF proposalJobs[j].ask.accept THEN "accepted" ELSE "rejected"]
        /\ UNCHANGED <<agentRows, authorsTold, executed>>
\* Who proposed is told, if it is still there.
Tell(j) ==
    LET p == Proposal(j)
    IN  /\ Doing(j, "decide", "tell") /\ Goes(j, "done")
        /\ authorsTold' = IF proposals[p].by \in Present THEN [authorsTold EXCEPT ![p] = @ + 1] ELSE authorsTold
        /\ UNCHANGED <<agentRows, proposals, executed>>

Job(j) == \/ Insert(j) \/ Get(j) \/ Update(j) \/ Edit(j) \/ Duplicate(j) \/ Copy(j)
          \/ Reorder(j) \/ Move(j) \/ RemoveAgent(j)
          \/ Propose(j) \/ File(j) \/ Look(j) \/ Check(j) \/ Execute(j) \/ Record(j) \/ Tell(j)
ProposalNext == \E j \in DOMAIN proposalJobs : Job(j)
ProposalSpec == ProposalInit /\ [][ProposalNext]_proposalVars

-----------------------------------------------------------------------------
(* What is recorded as accepted was done, when it is the application that    *)
(* does it: the row is marked after the execution, whatever else changed the *)
(* agents in between.                                                        *)
AcceptedIsApplied ==
    \A p \in DOMAIN proposals :
        proposals[p].state = "accepted" /\ proposals[p].action.kind \in {"create", "autonomy"}
            => p \in executed

(* Of two decisions at the same time one counts: the author is told once.    *)
DecisionIsToldOnce ==
    \A p \in DOMAIN proposals : authorsTold[p] <= (IF proposals[p].state = "pending" THEN 0 ELSE 1)

(* Decisions that overlap: one counts, and what it accepts is done.          *)
DecisionsCount == AcceptedIsApplied /\ DecisionIsToldOnce

(* A rejected proposal was not executed.  The code does not hold to it when  *)
(* a rejection comes while an acceptance executes.                           *)
RejectedIsNotApplied ==
    \A p \in DOMAIN proposals : proposals[p].state = "rejected" => p \notin executed

(* reorder_agents writes positions and nothing else.  The code does not hold *)
(* to it: the row it writes is the one it read, autonomy included.           *)
OrderIsAllItWrites ==
    [][\A j \in DOMAIN proposalJobs : proposalJobs[j].ask.does = "reorder" /\ proposalJobs'[j] # proposalJobs[j] =>
          \A a \in Present : agentRows'[a] = [agentRows[a] EXCEPT !.position = agentRows'[a].position]]_proposalVars
=============================================================================
