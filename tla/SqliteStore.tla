---------------------------- MODULE SqliteStore -----------------------------
(***************************************************************************)
(* The store of the program (aisense-store/src): one statement or one      *)
(* transaction for each call, over the tables of migrations/*.sql, whose   *)
(* keys do the rest.  A statement that would break a key fails, and the    *)
(* transaction it is in is rolled back.                                    *)
(***************************************************************************)
EXTENDS Rows

VARIABLES db, told

Tables ==
    [teams: SUBSET TeamRow, agents: SUBSET AgentRow,
     sessions: SUBSET SessionRow, agent_tokens: SUBSET TokenRow,
     skills: SUBSET SkillRow,
     agent_skills: SUBSET [agent: Agents, skill: Skills, enabled: BOOLEAN, position: Nat],
     channels: SUBSET ChannelRow, channel_members: SUBSET MemberRow,
     messages: SUBSET MessageRow, deliveries: SUBSET DeliveryRow,
     boards: SUBSET BoardRow, columns: SUBSET ColumnRow, tasks: SUBSET CardRow,
     task_dependencies: SUBSET DependencyRow, task_comments: SUBSET CommentRow,
     proposals: SUBSET ProposalRow]

Init ==
    /\ told = "Ok"
    /\ db =
        [teams |-> {}, agents |-> {}, sessions |-> {}, agent_tokens |-> {},
         skills |-> {}, agent_skills |-> {}, channels |-> {}, channel_members |-> {},
         messages |-> {}, deliveries |-> {}, boards |-> {}, columns |-> {},
         tasks |-> {}, task_dependencies |-> {}, task_comments |-> {}, proposals |-> {}]

Commit(d) == told' = "Ok" /\ db' = d
Rolls(e)  == told' = e /\ UNCHANGED db

-----------------------------------------------------------------------------
(* The keys of migrations/0001 .. 0007                                       *)

InTeam(table, t) == {r \in table : Home[r.id] = t}
OrNull(who, agents) == IF who \in Agents \ agents THEN None ELSE who

\* ON DELETE CASCADE and SET NULL: the row of a parent that is gone goes too,
\* or forgets it.  (The author of a comment that is NULL reads as the system.)
Cascade(d) ==
    LET teams    == Ids(d.teams)
        agents   == {r \in d.agents : Home[r.id] \in teams}
        people   == Ids(agents)
        sessions == {r \in d.sessions : r.agent \in people}
        channels == {r \in d.channels : Home[r.id] \in teams}
        messages == {r \in d.messages :
                        Home[r.id] \in teams /\ r.to \in Ids(channels) \cup {None}}
        boards   == {r \in d.boards : r.team \in teams}
        tasks    == {r \in d.tasks : Home[r.id] \in teams}
    IN  [d EXCEPT
            !.agents = agents,
            !.sessions = sessions,
            !.agent_tokens = {r \in @ : r.agent \in people /\ r.session \in Ids(sessions)},
            !.agent_skills = {r \in @ : r.agent \in people},
            !.channels = channels,
            !.channel_members =
                {r \in @ : r.agent \in people /\ r.channel \in Ids(channels)},
            !.messages = messages,
            !.deliveries = {r \in @ : r.agent \in people /\ r.message \in Ids(messages)},
            !.boards = boards,
            !.columns = {r \in @ : \E b \in boards : b.team = Home[r.id]},
            !.tasks = {[r EXCEPT !.assignee = OrNull(@, people)] : r \in tasks},
            !.task_dependencies = {r \in @ : {r.task, r.on} \subseteq Ids(tasks)},
            !.task_comments =
                {[r EXCEPT !.author = IF OrNull(@, people) = None THEN "system" ELSE @] :
                    r \in {c \in @ : OnCard[c.id] \in Ids(tasks)}},
            !.proposals = {[r EXCEPT !.by = OrNull(@, people)] :
                            r \in {p \in @ : Home[p.id] \in teams}}]

\* Every reference names a row: what the engine refuses to break.
KeysHold(d) ==
    /\ \A r \in d.agents \cup d.channels \cup d.messages \cup d.tasks \cup d.proposals :
            Home[r.id] \in Ids(d.teams)
    /\ {b.team : b \in d.boards} \subseteq Ids(d.teams)
    /\ \A r \in d.sessions : r.agent \in Ids(d.agents)
    /\ \A r \in d.agent_tokens : r.agent \in Ids(d.agents) /\ r.session \in Ids(d.sessions)
    /\ \A r \in d.agent_skills :
            r.agent \in Ids(d.agents) /\ \E k \in d.skills : k.slug = r.skill
    /\ \A r \in d.channel_members :
            r.agent \in Ids(d.agents) /\ r.channel \in Ids(d.channels)
    /\ \A r \in d.messages : r.to \in Ids(d.channels) \cup {None}
    /\ \A r \in d.deliveries : r.agent \in Ids(d.agents) /\ r.message \in Ids(d.messages)
    /\ \A r \in d.columns : \E b \in d.boards : b.team = Home[r.id]
    /\ \A r \in d.tasks :
            r.column \in Ids(d.columns) /\ r.assignee \in Ids(d.agents) \cup {None}
    /\ \A r \in d.task_dependencies :
            {r.task, r.on} \subseteq Ids(d.tasks) /\ r.task # r.on
    /\ \A r \in d.task_comments :
            OnCard[r.id] \in Ids(d.tasks)
            /\ r.author \in Ids(d.agents) \cup {"human", "system"}
    /\ \A r \in d.proposals : r.by \in Ids(d.agents) \cup {None}

\* A statement that writes the tables d; the error its key violation becomes.
Execute(d, e) == IF KeysHold(d) THEN Commit(d) ELSE Rolls(e)

-----------------------------------------------------------------------------
(* teams.rs, agents.rs                                                       *)

CreateTeam(t) == Commit([db EXCEPT !.teams = @ \cup {[id |-> t, archived |-> FALSE]}])

SetArchived(t, b) ==
    IF t \in Ids(db.teams)
    THEN Commit([db EXCEPT !.teams = Put(@, [id |-> t, archived |-> b])])
    ELSE Rolls("TeamNotFound")

DeleteTeam(t) ==
    IF t \in Ids(db.teams)
    THEN Execute(Cascade([db EXCEPT !.teams = {r \in @ : r.id # t}]), "Backend")
    ELSE Rolls("TeamNotFound")

\* UNIQUE (team_id, handle)
HandleConflict(a, h) ==
    \E r \in db.agents : Home[r.id] = Home[a] /\ r.handle = h /\ r.id # a

CreateAgent(a, h) ==
    IF HandleConflict(a, h) THEN Rolls("DuplicateHandle")
    ELSE Execute([db EXCEPT !.agents = @ \cup {[id |-> a, handle |-> h]}], "TeamNotFound")

UpdateAgent(a, h) ==
    CASE a \notin Ids(db.agents) -> Rolls("AgentNotFound")
      [] a \in Ids(db.agents) /\ HandleConflict(a, h) -> Rolls("DuplicateHandle")
      [] OTHER -> Commit([db EXCEPT !.agents = Put(@, [id |-> a, handle |-> h])])

DeleteAgent(a) ==
    IF a \in Ids(db.agents)
    THEN Execute(Cascade([db EXCEPT !.agents = {r \in @ : r.id # a}]), "Backend")
    ELSE Rolls("AgentNotFound")

-----------------------------------------------------------------------------
(* sessions.rs, tokens.rs                                                    *)

\* The last SessionsKept of the agent.  ORDER BY started_at, id: the clock of
\* the machine is taken not to go back, so that the ids are in that order.
Latest(d, a, n) == Take(Descending(Ids({s \in d.sessions : s.agent = a})), n)

StartSession(s, a) ==
    LET d == [db EXCEPT !.sessions = @ \cup {[id |-> s, agent |-> a, ended |-> FALSE]}]
        kept == ToSet(Latest(d, a, SessionsKept))
    IN  IF KeysHold(d)
        THEN Commit(Cascade([d EXCEPT !.sessions =
                                {r \in @ : r.agent = a => r.id \in kept}]))
        ELSE Rolls("AgentNotFound")

EndSession(s) ==
    Commit([db EXCEPT !.sessions =
        {IF r.id = s THEN [r EXCEPT !.ended = TRUE] ELSE r : r \in @}])

InsertToken(s, a) ==
    Execute([db EXCEPT !.agent_tokens = @ \cup {[session |-> s, agent |-> a]}],
            "AgentOrSessionNotFound")

FindToken(s) == {r \in db.agent_tokens : r.session = s}

RevokeSession(s) == Commit([db EXCEPT !.agent_tokens = {r \in @ : r.session # s}])
RevokeAll        == Commit([db EXCEPT !.agent_tokens = {}])

ListSessions(a, limit) ==
    LET ids == Latest(db, a, limit) IN [n \in DOMAIN ids |-> Row(db.sessions, ids[n])]

-----------------------------------------------------------------------------
(* skills.rs                                                                 *)

\* Reads what is known, then writes each skill that is new or has changed.
SyncSkills(disk, now) ==
    LET known   == {r.slug : r \in db.skills}
        changed == {r \in db.skills : r.slug \in DOMAIN disk /\ r.version # disk[r.slug]}
        new(x)  == [slug |-> x, version |-> disk[x], updated |-> now]
    IN  Commit([db EXCEPT !.skills =
            (@ \ changed) \cup {new(r.slug) : r \in changed}
                          \cup {new(x) : x \in DOMAIN disk \ known}])

SetAgentSkills(a, list) ==
    LET rows(kept) ==
            {[agent |-> a, skill |-> kept[n].skill, enabled |-> kept[n].enabled,
              position |-> n] : n \in DOMAIN kept}
    IN  CASE a \notin Ids(db.agents) -> Rolls("AgentNotFound")
          [] a \in Ids(db.agents)
                /\ ~ {list[n].skill : n \in DOMAIN list} \subseteq {r.slug : r \in db.skills}
                -> Rolls("SkillNotFound")
          [] OTHER -> Commit([db EXCEPT !.agent_skills =
                        {r \in @ : r.agent # a} \cup rows(Dedup(list))])

SkillsOf(a) ==
    LET rows == SetToSortSeq({r \in db.agent_skills : r.agent = a},
                             LAMBDA x, y : x.position < y.position)
    IN  [n \in DOMAIN rows |-> [skill |-> rows[n].skill, enabled |-> rows[n].enabled]]
SkillUsers(k) == {r.agent : r \in {x \in db.agent_skills : x.skill = k}}

-----------------------------------------------------------------------------
(* bus.rs                                                                    *)

CreateChannel(c, slug) ==
    IF \E r \in InTeam(db.channels, Home[c]) : r.slug = slug THEN Rolls("AlreadyExists")
    ELSE Execute([db EXCEPT !.channels = @ \cup {[id |-> c, slug |-> slug, topic |-> 0]}],
                 "TeamNotFound")

SetTopic(c, topic) ==
    IF c \in Ids(db.channels)
    THEN Commit([db EXCEPT !.channels = Put(@, [Row(@, c) EXCEPT !.topic = topic])])
    ELSE Rolls("Corrupt")

DeleteChannel(c) == Commit(Cascade([db EXCEPT !.channels = {r \in @ : r.id # c}]))

\* INSERT OR IGNORE ... SELECT: only an agent of the channel's team goes in; one
\* that did not rolls the whole list back.
SetMembers(c, S) ==
    CASE c \notin Ids(db.channels) -> Rolls("Corrupt")
      [] c \in Ids(db.channels) /\ ~ S \subseteq Ids(InTeam(db.agents, Home[c]))
            -> Rolls("AgentNotFound")
      [] OTHER -> Commit([db EXCEPT !.channel_members =
            {r \in @ : r.channel # c} \cup {[channel |-> c, agent |-> a] : a \in S}])

\* One transaction: the message, then a delivery for each recipient.
InsertMessage(m, to, reply, S) ==
    LET d == [db EXCEPT !.messages = @ \cup {[id |-> m, to |-> to, reply |-> reply]}]
    IN  IF KeysHold(d)
        THEN Execute([d EXCEPT !.deliveries = @ \cup
                        {[message |-> m, agent |-> a, state |-> "pending"] : a \in S}],
                     "AgentNotFound")
        ELSE Rolls("TeamNotFound")

MarkRead(a, S) ==
    LET now == {d \in db.deliveries :
                    d.agent = a /\ d.message \in S /\ d.state \in Unread}
    IN  Commit([db EXCEPT !.deliveries =
                    (@ \ now) \cup {[d EXCEPT !.state = "read"] : d \in now}])

UpdateDelivery(m, a, state) ==
    LET old == {d \in db.deliveries : d.message = m /\ d.agent = a}
    IN  IF old = {} THEN Rolls("Corrupt")
        ELSE Commit([db EXCEPT !.deliveries =
                (@ \ old) \cup {[d EXCEPT !.state = state] : d \in old}])

Prune(first) == Commit(Cascade([db EXCEPT !.messages = {r \in @ : r.id >= first}]))

Inbox(a, unreadOnly, after, limit) ==
    Take(Ascending({d.message : d \in {x \in db.deliveries :
            x.agent = a /\ x.message > after /\ (unreadOnly => x.state \in Unread)}}), limit)

\* By the team of the agent.
UnreadCounts(t) ==
    LET rows == {d \in db.deliveries :
                    d.state \in Unread /\ d.agent \in Ids(InTeam(db.agents, t))}
    IN  [a \in {d.agent : d \in rows} |-> Cardinality({d \in rows : d.agent = a})]

MembersOf(c) == {r.agent : r \in {x \in db.channel_members : x.channel = c}}

-----------------------------------------------------------------------------
(* board.rs                                                                  *)

\* INSERT ... ON CONFLICT(id) DO UPDATE of one column; UNIQUE (board_id, slug).
\* NoTable is the table of a statement that failed.
NoTable == None
InsertColumn(table, id, slug, n) ==
    IF table = NoTable \/ \E r \in table : r.id # id /\ Home[r.id] = Home[id] /\ r.slug = slug
    THEN NoTable ELSE Put(table, [id |-> id, slug |-> slug, position |-> n])
InsertColumns(table, list) ==
    FoldLeftDomain(LAMBDA t, n : InsertColumn(t, list[n].id, list[n].slug, n), table, list)

CreateBoard(t, list) ==
    IF \E b \in db.boards : b.team = t THEN Rolls("AlreadyExists")
    ELSE Execute([db EXCEPT !.boards = @ \cup {[team |-> t, automations |-> 0]},
                            !.columns = IF t \in Ids(db.teams) THEN InsertColumns(@, list) ELSE @],
                 "TeamNotFound")

SetAutomations(t, n) ==
    Commit([db EXCEPT !.boards =
                {IF b.team = t THEN [b EXCEPT !.automations = n] ELSE b : b \in @}])

\* Slugs that are out of the way while the columns are written one by one.
\* SameSlugs is its mutant: the columns keep theirs.
SameSlugs(columns, t) == columns
SpareSlugs(columns, t) ==
    {IF Home[r.id] = t THEN [r EXCEPT !.slug = r.id] ELSE r : r \in columns}

\* One transaction: the cards move, the columns are written, the others go.
\* `tasks.column_id` has no ON DELETE and is checked by each statement, so a
\* move to a column that is not written yet fails too.
ReplaceColumns(t, list, moves) ==
    LET moved == [db EXCEPT !.tasks =
                    {IF r.column \in DOMAIN moves
                     THEN [r EXCEPT !.column = moves[@], !.version = @ + 1] ELSE r : r \in @}]
        columns == InsertColumns(SpareSlugs(db.columns, t), list)
        left == {r \in columns : Home[r.id] = t => \E n \in DOMAIN list : list[n].id = r.id}
    IN  IF ~KeysHold(moved) \/ columns = NoTable THEN Rolls("Backend")
        ELSE Execute([moved EXCEPT !.columns = left], "Corrupt")

InsertCard(c, col, who) ==
    Execute([db EXCEPT !.tasks = @ \cup
                {[id |-> c, column |-> col, assignee |-> who, version |-> 1,
                  archived |-> FALSE]}], "TeamNotFound")

\* The WHERE of the UPDATE: lock and limits are looked at as the row is written.
Matches(card, guard) ==
    LET own    == Row(db.tasks, card.id)
        others == {o \in db.tasks : o.column = card.column /\ ~o.archived /\ o.id # card.id}
    IN  /\ own.version = guard.expected
        /\ guard.unassigned => own.assignee = None
        /\ guard.wip = None \/ Cardinality(others) < guard.wip
        /\ guard.perAgent = None \/ card.assignee = None
            \/ Cardinality({o \in others : o.assignee = card.assignee}) < guard.perAgent

\* When no row was written, a second statement says why.  A version only grows,
\* so a call between the two can at most turn WipFull into Stale.
UpdateCard(card, guard) ==
    LET exists  == card.id \in Ids(db.tasks)
        current == Row(db.tasks, card.id)
        lost    == current.version # guard.expected
                    \/ (guard.unassigned /\ current.assignee # None)
    IN  CASE exists /\ Matches(card, guard) ->
                Execute([db EXCEPT !.tasks = Put(@, card)], "Backend")
          [] ~exists -> Rolls("Corrupt")
          [] exists /\ ~Matches(card, guard) /\ lost -> Rolls("Stale")
          [] OTHER -> Rolls("WipFull")

AddDependency(task, on) ==
    Execute([db EXCEPT !.task_dependencies = @ \cup {[task |-> task, on |-> on]}], "Corrupt")

RemoveDependency(task, on) ==
    Commit([db EXCEPT !.task_dependencies = @ \ {[task |-> task, on |-> on]}])

InsertComment(c, author) ==
    Execute([db EXCEPT !.task_comments = @ \cup {[id |-> c, author |-> author]}], "Corrupt")

GetBoard(t)    == {b \in db.boards : b.team = t}
ListColumns(t) == {c \in db.columns : t \in {b.team : b \in db.boards} /\ Home[c.id] = t}
ListCards(t, archived, who, unassigned) ==
    {c \in InTeam(db.tasks, t) :
        /\ \E col \in db.columns : col.id = c.column
        /\ archived \/ ~c.archived
        /\ who = None \/ c.assignee = who
        /\ ~unassigned \/ c.assignee = None}
Dependencies(t) ==
    {d \in db.task_dependencies : \E c \in db.tasks : c.id = d.task /\ Home[c.id] = t}
ListComments(k) == {c \in db.task_comments : OnCard[c.id] = k}

-----------------------------------------------------------------------------
(* proposals.rs                                                              *)

InsertProposal(p, by) ==
    Execute([db EXCEPT !.proposals = @ \cup {[id |-> p, by |-> by, state |-> "pending"]}],
            "TeamNotFound")

DecideProposal(p, state) ==
    LET row == {r \in db.proposals : r.id = p /\ r.state = "pending"}
    IN  IF row = {} THEN Rolls("NotPending")
        ELSE Commit([db EXCEPT !.proposals =
                (@ \ row) \cup {[r EXCEPT !.state = state] : r \in row}])

ListProposals(t, pendingOnly) ==
    {p \in db.proposals : Home[p.id] = t /\ (~pendingOnly \/ p.state = "pending")}
=============================================================================
