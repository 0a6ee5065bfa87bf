------------------------------- MODULE Board -------------------------------
(* The board of one team (core/src/board/service.rs over store/src/board.rs).   *)
(* Agents and the human call it at the same time. A call is not a transaction:  *)
(* it awaits the database at every read and every write, runs the commands of a *)
(* column's gate in between, and then runs the automations its write fired, each*)
(* of them again a read and a write. What is still to do for a call is a        *)
(* sequence of steps; a step may put others in front of the rest.               *)
(* Left out: titles, labels, checklists, comments and links, the notices of the *)
(* bus, add_label, notify and create_card among the actions, card_stale, and    *)
(* edits of the columns and automations while calls run.                        *)
EXTENDS Integers, Sequences, FiniteSets, Sift

CONSTANTS
    Agents, Human, System, NoAgent,
    Callers,        \* the agents that call, and Human if the human does
    Cards, NoCard,
    Oldest,         \* the card a behaviour starts with
    Columns, NoColumn,
    Kind,           \* Columns -> ColumnKind
    Position,       \* Columns -> Nat, their order on the board
    WipLimit,       \* Columns -> limit or NoLimit
    WipPerAgent,
    NoLimit,
    Approval,       \* columns with requires_approval
    Differ,         \* columns with approver_must_differ
    Commands,       \* columns with requires_commands
    RuleSets,       \* the automations a team may have, in the order they run
    WriteAttempts,  \* WRITE_ATTEMPTS
    MaxDepth,       \* AUTOMATION_MAX_DEPTH
    MaxCalls        \* bound: calls made in a behaviour

Actors == Agents \cup {Human}
Kinds == {"intake", "ready", "active", "blocked", "review", "terminal"}
Limits == (Nat \ {0}) \cup {NoLimit}

ASSUME BoardShape ==
    /\ Kind \in [Columns -> Kinds] /\ Position \in [Columns -> Nat]
    /\ WipLimit \in [Columns -> Limits] /\ WipPerAgent \in [Columns -> Limits]
    /\ Approval \subseteq Columns /\ Differ \subseteq Columns /\ Commands \subseteq Columns
    /\ \A kind \in {"ready", "terminal"} : \E k \in Columns : Kind[k] = kind
ASSUME Bounds == WriteAttempts \in Nat \ {0} /\ MaxDepth \in Nat /\ MaxCalls \in Nat
ASSUME Names ==
    /\ Callers \subseteq Actors /\ Human \notin Agents /\ System \notin Actors /\ NoAgent \notin Actors \cup {System}
    /\ Oldest \in Cards /\ NoCard \notin Cards /\ NoColumn \notin Columns

VARIABLES
    card,       \* the rows of tasks
    deps,       \* the rows of task_dependencies: <<card, what it depends on>>
    cameFrom,   \* card, column -> `from` of the latest activity row with that `to`
    rules,      \* the automations of the board
    todo,       \* caller -> the steps its call has still to take
    calls       \* how many calls were made

vars == <<card, deps, cameFrom, rules, todo, calls>>

Reasons == {"none", "other"} \cup Cards     \* block_reason: absent, some text, text naming a card
Rows == [col : Columns, assignee : Agents \cup {NoAgent}, archived : BOOLEAN,
         reason : Reasons, approved : Actors \cup {NoAgent}, version : Nat]

\* The automations there can be: when, on which column, what is done.
Actions == [do : {"own", "unblock"}] \cup [do : {"assign"}, who : Agents \cup {NoAgent}]
           \cup [do : {"move"}, to : Columns]
Rules == [when : {"enters", "leaves", "created"}, column : Columns, action : Actions]
ASSUME RowsAndRules == NoCard \notin Rows /\ IsFiniteSet(Cards) /\ RuleSets \subseteq Seq(Rules)

Lowest(S) == CHOOSE k \in S : \A l \in S : Position[k] <= Position[l]
OfKind(kind) == {k \in Columns : Kind[k] = kind}
FirstOf(kind) == IF OfKind(kind) = {} THEN NoColumn ELSE Lowest(OfKind(kind))

Row(k, who, reason) ==
    [col |-> k, assignee |-> who, archived |-> FALSE, reason |-> reason,
     approved |-> NoAgent, version |-> 1]

Exists(c) == card[c] # NoCard

Nowhere == [c \in Cards |-> [k \in Columns |-> NoColumn]]

\* A board with one card, or one where c waits for it while somebody works on it.
OneCard ==
    /\ card = [c \in Cards |-> IF c = Oldest THEN Row(FirstOf("ready"), NoAgent, "none") ELSE NoCard]
    /\ deps = {} /\ cameFrom = Nowhere
Waiting(c, a) ==
    /\ OfKind("blocked") # {} /\ OfKind("active") # {}
    /\ card = [x \in Cards |-> CASE x = c -> Row(FirstOf("blocked"), NoAgent, Oldest)
                                 [] x = Oldest -> Row(FirstOf("active"), a, "none")
                                 [] OTHER -> NoCard]
    /\ deps = {<<c, Oldest>>} /\ cameFrom = Nowhere

Init ==
    /\ OneCard \/ \E c \in Cards \ {Oldest}, a \in Agents : Waiting(c, a)
    /\ rules \in RuleSets
    /\ todo = [p \in Callers |-> <<>>]
    /\ calls = 0

Now(p) == Head(todo[p])

\* The step at the head is done; `steps` come before what is left.
Then(p, steps) == todo' = [todo EXCEPT ![p] = steps \o Tail(@)]

\* An error ends the call. Inside an automation it ends that action only, and
\* with a freed card the rest of its unblock_dependents.
Freeing(s) == s.do \in {"read", "write"} /\ s.edit.kind = "free"
Fails(p) ==
    todo' = [todo EXCEPT ![p] = CASE Now(p).depth = 0 -> <<>>
                                  [] Now(p).depth > 0 /\ Freeing(Now(p)) -> Tail(Tail(@))
                                  [] Now(p).depth > 0 /\ ~Freeing(Now(p)) -> Tail(@)]

------------------------------------------------------------------------------
\* The rules of the board.

\* check_transition
Barred(k, to, reason) ==
    \/ k.archived
    \/ Kind[to] = "blocked" /\ reason = "none" /\ k.reason = "none"

\* Cards of a column other than c, of one agent if `who` is one.
Others(c, k) == {d \in Cards \ {c} : Exists(d) /\ card[d].col = k /\ ~card[d].archived}
OthersOf(c, k, who) == {d \in Others(c, k) : card[d].assignee = who}

\* A slip: one card too many.
RoomForOneMore(c, k, who) ==
    /\ WipLimit[k] # NoLimit => Cardinality(Others(c, k)) <= WipLimit[k]
    /\ WipPerAgent[k] # NoLimit /\ who # NoAgent
         => Cardinality(OthersOf(c, k, who)) <= WipPerAgent[k]

HasRoom(c, k, who) ==
    /\ WipLimit[k] # NoLimit => Cardinality(Others(c, k)) < WipLimit[k]
    /\ WipPerAgent[k] # NoLimit /\ who # NoAgent
         => Cardinality(OthersOf(c, k, who)) < WipPerAgent[k]

Open(c) == Exists(c) /\ ~card[c].archived /\ Kind[card[c].col] # "terminal"

\* dependency_path: everything a card depends on, itself included.
Within(edges, S) == {d \in Cards : \E c \in S : <<c, d>> \in edges}
Depends(edges, a) ==
    LET reach[n \in 0..Cardinality(Cards)] ==
          IF n = 0 THEN {a} ELSE reach[n - 1] \cup Within(edges, reach[n - 1])
    IN  reach[Cardinality(Cards)]
Cyclic(edges, task, on) == task \in Depends(edges, on)

ApprovalTarget(k) ==
    LET later == {l \in Approval : Position[l] > Position[k]}
    IN  IF later # {} THEN Lowest(later) ELSE FirstOf("terminal")

\* Where reject() sends a card of column k: where it came from, else the first active.
Previous(c, k) == IF cameFrom[c][k] \notin {NoColumn, k} THEN cameFrom[c][k] ELSE FirstOf("active")

------------------------------------------------------------------------------
\* The edits update_with() is called with: what each refuses, leaves or changes.

Moves == {"move", "free"}

Refuses(k, e) ==
    \/ e.kind = "claim" /\ (k.archived \/ k.assignee \notin {NoAgent, e.who})
    \/ e.kind \in Moves /\ k.col # e.to /\ Barred(k, e.to, e.reason)
    \/ e.kind = "approve" /\ Barred(k, e.to, "none")

LeavesAlone(k, e) ==
    \/ e.kind = "claim" /\ k.assignee = e.who
    \/ e.kind \in Moves /\ k.col = e.to
    \/ e.kind = "assign" /\ k.assignee = e.who
    \/ e.kind = "own" /\ k.assignee # NoAgent
    \/ e.kind = "archive" /\ k.archived

\* An agent that puts a card nobody owns into an active column becomes its owner.
Owner(k, e) == IF Kind[e.to] = "active" /\ k.assignee = NoAgent THEN e.who ELSE k.assignee

Edited(k, e) ==
    CASE e.kind \in {"claim", "assign", "own"} -> [k EXCEPT !.assignee = e.who]
      [] e.kind \in Moves ->
           [k EXCEPT !.col = e.to, !.assignee = Owner(k, e),
                     !.reason = IF Kind[e.to] = "blocked" /\ e.reason # "none" THEN e.reason ELSE @]
      [] e.kind = "approve" -> [k EXCEPT !.col = e.to, !.approved = e.by]
      [] e.kind = "reject" -> [k EXCEPT !.col = e.to, !.approved = NoAgent]
      [] e.kind = "archive" -> [k EXCEPT !.archived = TRUE]

\* A card that leaves a blocked column loses its reason.
After(k, e) ==
    LET n == [Edited(k, e) EXCEPT !.version = k.version + 1]
    IN  IF n.col # k.col /\ Kind[k.col] = "blocked" THEN [n EXCEPT !.reason = "none"] ELSE n

Edit(kind, to, who, reason, by) ==
    [kind |-> kind, to |-> to, who |-> who, reason |-> reason, by |-> by]

\* The steps of one update_with().
Reading(c, e, actor, depth) ==
    [do |-> "read", card |-> c, edit |-> e, actor |-> actor, depth |-> depth, tries |-> 0]
Writing(s) == [do |-> "write", card |-> s.card, edit |-> s.edit, actor |-> s.actor,
               depth |-> s.depth, tries |-> s.tries, before |-> card[s.card]]
Again(s) == [Reading(s.card, s.edit, s.actor, s.depth) EXCEPT !.tries = s.tries + 1]

Deeper(depth) == depth + 1

\* Where a chain of automations is cut.
Cut(depth) == depth >= MaxDepth

\* automate(): the actions of the rules that match, cut at the maximal depth.
Automated(trigger, k, c, actor, depth) ==
    LET fits == Sifted(rules, {r \in {rules[i] : i \in DOMAIN rules} : r.when = trigger /\ r.column = k})
    IN  IF Cut(depth) THEN <<>>
        ELSE [i \in DOMAIN fits |-> [do |-> "act", action |-> fits[i].action, card |-> c,
                                     actor |-> actor, depth |-> Deeper(depth)]]

------------------------------------------------------------------------------
\* Calls: what an agent or the human asks for.

AgentOf(p) == IF p \in Agents THEN p ELSE NoAgent
Adding(p) == {todo[q][1].card : q \in {r \in Callers \ {p} : todo[r] # <<>> /\ todo[r][1].do \in {"add", "insert"}}}

Asks(p) ==
    LET find(op, c, to, who, reason) ==
          [do |-> "find", op |-> op, card |-> c, to |-> to, who |-> who, reason |-> reason,
           depth |-> 0]
        known == {c \in Cards : Exists(c)}
        new == {c \in Cards \ Adding(p) : ~Exists(c)}
    IN  {find("claim", c, NoColumn, p, "none") : c \in IF p \in Agents THEN known ELSE {}}
        \cup {find("move", c, k, AgentOf(p), "none") : c \in known, k \in Columns}
        \cup {find("move", c, FirstOf("blocked"), AgentOf(p), r) :
                c \in IF OfKind("blocked") = {} THEN {} ELSE known, r \in Reasons}
        \cup {find("assign", c, NoColumn, who, "none") : c \in known, who \in Agents \cup {NoAgent}}
        \cup {find(op, c, NoColumn, AgentOf(p), "none") :
                op \in {"archive", "approve", "reject"}, c \in known}
        \cup {[do |-> "depend", op |-> op, card |-> c, on |-> d, depth |-> 0] :
                op \in {"add", "remove"}, c \in known, d \in known}
        \cup {[do |-> "add", card |-> c, to |-> k, who |-> who, on |-> on, reason |-> "none",
               actor |-> p, depth |-> 0] :
                c \in new, k \in Columns, who \in Agents \cup {NoAgent}, on \in known \cup {NoCard}}

Call(p) ==
    /\ todo[p] = <<>> /\ calls < MaxCalls
    /\ \E a \in Asks(p) : todo' = [todo EXCEPT ![p] = <<a>>]
    /\ calls' = calls + 1
    /\ UNCHANGED <<card, deps, cameFrom, rules>>

At(p, step) == todo[p] # <<>> /\ Now(p).do = step
Rest == UNCHANGED <<deps, cameFrom, rules, calls>>

\* The first read of the card decides whether the gate must run, and where
\* approve() and reject() go; nothing of it is looked at again later.
NeedsApproval(s, k) == s.op = "move" /\ s.to \in Approval /\ k.col # s.to
OwnApproval(s, k, to) == to \in Differ /\ s.who # NoAgent /\ s.who = k.assignee
Target(s, k) ==
    CASE s.op = "approve" -> ApprovalTarget(k.col)
      [] s.op = "reject" -> Previous(s.card, k.col)
      [] OTHER -> s.to

Find(p) ==
    /\ At(p, "find")
    /\ LET s == Now(p)
           k == card[s.card]
           to == Target(s, k)
           edit == Reading(s.card, Edit(s.op, to, s.who, s.reason, p), p, 0)
           gated == /\ s.op = "approve" \/ (s.op = "move" /\ k.col # to)
                    /\ to \in Commands
       IN  IF \/ NeedsApproval(s, k)
              \/ s.op = "approve" /\ OwnApproval(s, k, to)
              \/ s.op = "reject" /\ to = NoColumn
           THEN Fails(p)
           ELSE Then(p, IF gated THEN <<[edit EXCEPT !.do = "gate"], edit>> ELSE <<edit>>)
    /\ Rest /\ UNCHANGED card

\* run_gate(): the commands pass, or the call fails.
GateRuns(p) ==
    /\ At(p, "gate")
    /\ Then(p, <<>>) \/ Fails(p)
    /\ Rest /\ UNCHANGED card

Read(p) ==
    /\ At(p, "read")
    /\ LET s == Now(p)
           k == card[s.card]
       IN  \/ Refuses(k, s.edit) /\ Fails(p)
           \/ ~Refuses(k, s.edit) /\ LeavesAlone(k, s.edit) /\ Then(p, <<>>)
           \/ ~Refuses(k, s.edit) /\ ~LeavesAlone(k, s.edit) /\ Then(p, <<Writing(s)>>)
    /\ Rest /\ UNCHANGED card

\* update_card(): one statement checks the version, the owner and the room.
\* A slip: the version is not compared.
AnyVersion(c, s) == s.edit.kind = "claim" => card[c].assignee = NoAgent
UpToDate(c, s) ==
    /\ card[c].version = s.before.version
    /\ s.edit.kind = "claim" => card[c].assignee = NoAgent
Fits(c, k, n) ==
    n.col # k.col \/ n.assignee # k.assignee => HasRoom(c, n.col, n.assignee)

WriteLands(p) ==
    /\ At(p, "write")
    /\ LET s == Now(p)
           n == After(s.before, s.edit)
       IN  /\ UpToDate(s.card, s) /\ Fits(s.card, s.before, n)
           /\ card' = [card EXCEPT ![s.card] = n]
           /\ Then(p, <<[s EXCEPT !.do = "record"]>>)
    /\ Rest

WriteStale(p) ==
    /\ At(p, "write")
    /\ LET s == Now(p)
       IN  /\ ~UpToDate(s.card, s)
           /\ IF s.tries + 1 < WriteAttempts THEN Then(p, <<Again(s)>>) ELSE Fails(p)
    /\ Rest /\ UNCHANGED card

\* A slip: a full column is tried again like a stale version, without counting.
TriesWhenFull(p) ==
    /\ At(p, "write")
    /\ LET s == Now(p)
       IN  /\ UpToDate(s.card, s) /\ ~Fits(s.card, s.before, After(s.before, s.edit))
           /\ Then(p, <<Reading(s.card, s.edit, s.actor, s.depth)>>)
    /\ Rest /\ UNCHANGED card

WriteFull(p) ==
    /\ At(p, "write")
    /\ LET s == Now(p)
       IN  UpToDate(s.card, s) /\ ~Fits(s.card, s.before, After(s.before, s.edit))
    /\ Fails(p)
    /\ Rest /\ UNCHANGED card

\* after_write(): the activity row, then the automations of the column left and
\* of the one entered.
Recorded(c, from, to) == [cameFrom EXCEPT ![c][to] = from]

Record(p) ==
    /\ At(p, "record")
    /\ LET s == Now(p)
           from == s.before.col
           to == After(s.before, s.edit).col
       IN  /\ cameFrom' = IF s.edit.kind \in Moves \cup {"approve", "reject"}
                          THEN Recorded(s.card, from, to) ELSE cameFrom
           /\ Then(p, IF from = to THEN <<>>
                      ELSE Automated("leaves", from, s.card, s.actor, s.depth)
                             \o Automated("enters", to, s.card, s.actor, s.depth))
    /\ UNCHANGED <<card, deps, rules, calls>>

------------------------------------------------------------------------------
\* act(): one action of an automation.

Dependents(c) == {d \in Cards : <<d, c>> \in deps}
Act(p) ==
    /\ At(p, "act")
    /\ LET s == Now(p)
           a == s.action
           own == AgentOf(s.actor)
           step(e) == <<Reading(s.card, e, System, s.depth)>>
       IN  \/ a.do = "own" /\ own = NoAgent /\ Then(p, <<>>)
           \/ a.do = "own" /\ own # NoAgent
              /\ Then(p, step(Edit("own", NoColumn, own, "none", System)))
           \/ a.do = "assign" /\ Then(p, step(Edit("assign", NoColumn, a.who, "none", System)))
           \/ a.do = "move" /\ a.to \in Approval /\ Fails(p)
           \/ a.do = "move" /\ a.to \notin Approval
              /\ Then(p, step(Edit("move", a.to, NoAgent, "none", System)))
           \/ a.do = "unblock"
              /\ Then(p, <<[do |-> "unblock", card |-> s.card, left |-> Dependents(s.card),
                            depth |-> s.depth, actor |-> System]>>)
    /\ Rest /\ UNCHANGED card

\* unblock_dependents(): the cards that waited for this one, one after another.
Freed(d, c) ==
    /\ ~\E e \in Cards : <<d, e>> \in deps /\ Open(e)
    /\ Kind[card[d].col] = "blocked" /\ card[d].reason = c

Unblock(p) ==
    /\ At(p, "unblock")
    /\ LET s == Now(p)
           free(d) == Reading(d, Edit("free", FirstOf("ready"), NoAgent, "none", System), System, s.depth)
       IN  \/ s.left = {} /\ Then(p, <<>>)
           \/ \E d \in s.left :
                LET on == [s EXCEPT !.left = @ \ {d}]
                IN  Then(p, IF ~card[d].archived /\ Freed(d, s.card) THEN <<free(d), on>> ELSE <<on>>)
    /\ Rest /\ UNCHANGED card

------------------------------------------------------------------------------
\* add(): the cards and the room are looked at, and later the row is inserted.

Add(p) ==
    /\ At(p, "add")
    /\ LET s == Now(p)
       IN  IF \/ s.to \in Approval
              \/ Barred(Row(s.to, s.who, s.reason), s.to, s.reason)
              \/ ~HasRoom(s.card, s.to, s.who)
           THEN Fails(p)
           ELSE Then(p, <<[s EXCEPT !.do = "insert"]>>)
    /\ Rest /\ UNCHANGED card

Insert(p) ==
    /\ At(p, "insert")
    /\ LET s == Now(p)
       IN  /\ card' = [card EXCEPT ![s.card] = Row(s.to, s.who, s.reason)]
           /\ Then(p, <<[s EXCEPT !.do = "link"]>>)
    /\ Rest

\* The row stays when its dependency is refused.
Link(p) ==
    /\ At(p, "link")
    /\ LET s == Now(p)
       IN  IF s.on # NoCard /\ Cyclic(deps, s.card, s.on)
           THEN Fails(p) ELSE Then(p, <<[s EXCEPT !.do = "join"]>>)
    /\ Rest /\ UNCHANGED card

Join(p) ==
    /\ At(p, "join")
    /\ LET s == Now(p)
       IN  /\ deps' = IF s.on = NoCard THEN deps ELSE deps \cup {<<s.card, s.on>>}
           /\ Then(p, Automated("created", s.to, s.card, s.actor, s.depth)
                        \o Automated("enters", s.to, s.card, s.actor, s.depth))
    /\ UNCHANGED <<card, cameFrom, rules, calls>>

\* update() of dependencies: the cycle is looked for first, the row is added later.
Depend(p) ==
    /\ At(p, "depend")
    /\ LET s == Now(p)
       IN  IF s.op = "add" /\ Cyclic(deps, s.card, s.on)
           THEN todo' = [todo EXCEPT ![p] = <<>>]
           ELSE Then(p, <<[s EXCEPT !.do = "edge"]>>)
    /\ Rest /\ UNCHANGED card

Edge(p) ==
    /\ At(p, "edge")
    /\ LET s == Now(p)
           edge == {<<s.card, s.on>>}
       IN  deps' = IF s.op = "add" THEN deps \cup edge ELSE deps \ edge
    /\ Then(p, <<>>)
    /\ UNCHANGED <<card, cameFrom, rules, calls>>

------------------------------------------------------------------------------
Step(p) ==
    \/ Find(p) \/ GateRuns(p) \/ Read(p) \/ WriteLands(p) \/ WriteStale(p) \/ WriteFull(p)
    \/ Record(p) \/ Act(p) \/ Unblock(p) \/ Add(p) \/ Insert(p) \/ Link(p) \/ Join(p) \/ Depend(p) \/ Edge(p)

Next == \E p \in Callers : Call(p) \/ Step(p)

Spec == Init /\ [][Next]_vars

\* The tasks of the runtime go on, and a gate's commands are killed at their
\* timeout; nobody has to call.
FairSpec == Spec /\ \A p \in Callers : WF_vars(Step(p))

------------------------------------------------------------------------------
Steps == {"find", "gate", "read", "write", "record", "act", "unblock", "add", "insert",
          "link", "join", "depend", "edge"}

\* Every row keeps its type, and no automation runs deeper than AUTOMATION_MAX_DEPTH.
TypeOK ==
    /\ card \in [Cards -> Rows \cup {NoCard}]
    /\ deps \subseteq Cards \X Cards
    /\ cameFrom \in [Cards -> [Columns -> Columns \cup {NoColumn}]]
    /\ rules \in RuleSets /\ calls \in 0..MaxCalls
    /\ \A p \in Callers : \A i \in DOMAIN todo[p] :
         todo[p][i].do \in Steps /\ todo[p][i].depth \in 0..MaxDepth

Changes(c) == Exists(c) /\ card'[c] # card[c]

\* The write of two callers on one card is never lost or mixed: what is written
\* is the edit applied to the row as it is at that moment, not as it was read.
NoLostEdit ==
    \A c \in Cards : Changes(c) =>
        \E p \in Callers : At(p, "write") /\ Now(p).card = c
                           /\ card'[c] = After(card[c], Now(p).edit)

\* A card is taken from its owner only by somebody who assigns it explicitly:
\* of two agents that claim it, or that start to work on it, one gets it.
OnlyAssignTakesAway ==
    \A c \in Cards :
        Changes(c) /\ card[c].assignee # NoAgent /\ card'[c].assignee # card[c].assignee =>
            \E p \in Callers : At(p, "write") /\ Now(p).edit.kind = "assign"

\* Writers who meet on a card, whatever they do to it: no edit is mixed with
\* another one and nobody loses the card to a claim (update_with, check_assignee).
EditsAreWhole == [][NoLostEdit /\ OnlyAssignTakesAway]_vars

\* However many calls write at once, a card that enters a column, or changes
\* hands in it, leaves the column within its limits or finds them exceeded no more
\* than they were: update_card() counts in the statement that writes.
MovesFit ==
    [][\A c \in Cards :
         LET n == card'[c]
             here == {d \in Cards : card'[d] # NoCard /\ ~card'[d].archived /\ card'[d].col = n.col}
         IN  Changes(c) /\ (n.col # card[c].col \/ n.assignee # card[c].assignee) /\ ~n.archived =>
               /\ WipLimit[n.col] # NoLimit => Cardinality(here) <= WipLimit[n.col]
               /\ WipPerAgent[n.col] # NoLimit /\ n.assignee # NoAgent =>
                    Cardinality({d \in here : card'[d].assignee = n.assignee})
                      <= WipPerAgent[n.col]]_vars

\* Every call ends, with automations that move a card round in circles and with
\* others that write the same card.
CallsEnd == \A p \in Callers : todo[p] # <<>> ~> todo[p] = <<>>

\* The automations a call sets off stay within AUTOMATION_MAX_DEPTH, and end.
AutomationsEnd == []TypeOK /\ CallsEnd

\* A card enters a column that requires approval only by approve()
\* (service.rs:1198).
EntersByApproval ==
    [][\A c \in Cards :
         Changes(c) /\ card'[c].col # card[c].col /\ card'[c].col \in Approval =>
           \E p \in Callers : At(p, "write") /\ Now(p).edit.kind = "approve"]_vars

\* Two callers do not both pass by the last place of a column (docs/13-quadro-kanban.md:51).
WipHolds ==
    \A k \in Columns :
        WipLimit[k] # NoLimit =>
          Cardinality({c \in Cards : Exists(c) /\ ~card[c].archived /\ card[c].col = k})
            <= WipLimit[k]
==============================================================================
