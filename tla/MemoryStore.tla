---------------------------- MODULE MemoryStore -----------------------------
(***************************************************************************)
(* InMemoryStore (aisense-core/src/repo/memory.rs): the store that the     *)
(* tests of the domain run on.  One mutex guards `inner`, so each call is  *)
(* one step; what goes with a row that is deleted is removed by hand.      *)
(* `told` is what the last call returned.                                  *)
(***************************************************************************)
EXTENDS Rows

VARIABLES inner, told

Inner ==
    [teams: SUBSET TeamRow, agents: SUBSET AgentRow,
     sessions: Seq(SessionRow), tokens: SUBSET TokenRow,
     skills: SUBSET SkillRow, agentSkills: SUBSET [agent: Agents, list: Seq(AgentSkill)],
     channels: SUBSET ChannelRow, members: SUBSET MemberRow,
     messages: SUBSET MessageRow, deliveries: SUBSET DeliveryRow,
     boards: SUBSET BoardRow, columns: SUBSET ColumnRow, cards: SUBSET CardRow,
     dependencies: SUBSET DependencyRow, comments: SUBSET CommentRow,
     proposals: SUBSET ProposalRow]

TypeOK == inner \in Inner

Init ==
    /\ told = "Ok"
    /\ inner =
        [teams |-> {}, agents |-> {}, sessions |-> <<>>, tokens |-> {},
         skills |-> {}, agentSkills |-> {}, channels |-> {}, members |-> {},
         messages |-> {}, deliveries |-> {}, boards |-> {}, columns |-> {},
         cards |-> {}, dependencies |-> {}, comments |-> {}, proposals |-> {}]

Ok(i)    == told' = "Ok" /\ inner' = i
Fails(e) == told' = e /\ UNCHANGED inner

-----------------------------------------------------------------------------
(* TeamRepository, AgentRepository                                           *)

CreateTeam(t) == Ok([inner EXCEPT !.teams = @ \cup {[id |-> t, archived |-> FALSE]}])

\* update_team and set_team_archived.
SetArchived(t, b) ==
    IF t \in Ids(inner.teams)
    THEN Ok([inner EXCEPT !.teams = Put(@, [id |-> t, archived |-> b])])
    ELSE Fails("TeamNotFound")

\* forget_orphans: what hangs on a card that is gone.
ForgetOrphans(i) ==
    LET cards == Ids(i.cards)
    IN  [i EXCEPT !.dependencies = {d \in @ : d.task \in cards /\ d.on \in cards},
                  !.comments = {c \in @ : OnCard[c.id] \in cards}]

InTeam(table, t)  == {r \in table : Home[r.id] = t}
OutOf(table, t)   == {r \in table : Home[r.id] # t}

DeliveriesOf(i) ==
    {d \in i.deliveries : d.message \in Ids(i.messages) /\ d.agent \in Ids(i.agents)}

WithoutTeam(t) ==
    LET board == [inner EXCEPT
            !.teams = {r \in @ : r.id # t}, !.agents = OutOf(@, t),
            !.boards = {b \in @ : b.team # t}, !.columns = OutOf(@, t),
            !.cards = OutOf(@, t), !.proposals = OutOf(@, t)]
        bus == [ForgetOrphans(board) EXCEPT
            !.channels = OutOf(@, t),
            !.members = {r \in @ : Home[r.channel] # t},
            !.messages = OutOf(@, t)]
    IN  [bus EXCEPT
            !.deliveries = DeliveriesOf(bus),
            !.agentSkills = {r \in @ : r.agent \in Ids(bus.agents)},
            !.sessions = SelectSeq(@, LAMBDA s : s.agent \in Ids(bus.agents))]

DeleteTeam(t) ==
    IF t \in Ids(inner.teams) THEN Ok(WithoutTeam(t)) ELSE Fails("TeamNotFound")

HandleTaken(a, h) ==
    \E r \in inner.agents : Home[r.id] = Home[a] /\ r.handle = h /\ r.id # a

CreateAgent(a, h) ==
    CASE Home[a] \notin Ids(inner.teams) -> Fails("TeamNotFound")
      [] Home[a] \in Ids(inner.teams) /\ HandleTaken(a, h) -> Fails("DuplicateHandle")
      [] OTHER -> Ok([inner EXCEPT !.agents = @ \cup {[id |-> a, handle |-> h]}])

UpdateAgent(a, h) ==
    CASE a \notin Ids(inner.agents) -> Fails("AgentNotFound")
      [] a \in Ids(inner.agents) /\ HandleTaken(a, h) -> Fails("DuplicateHandle")
      [] OTHER -> Ok([inner EXCEPT !.agents = Put(@, [id |-> a, handle |-> h])])

\* ON DELETE SET NULL, by hand.
Unassigned(cards, a) ==
    {[c EXCEPT !.assignee = IF @ = a THEN None ELSE @] : c \in cards}

\* What the agent wrote on cards stays, as the system's.
Unsigned(comments, a) ==
    {[c EXCEPT !.author = IF @ = a THEN "system" ELSE @] : c \in comments}

DeleteAgent(a) ==
    IF a \notin Ids(inner.agents) THEN Fails("AgentNotFound")
    ELSE Ok([inner EXCEPT
        !.agents = {r \in @ : r.id # a},
        !.sessions = SelectSeq(@, LAMBDA s : s.agent # a),
        !.agentSkills = {r \in @ : r.agent # a},
        !.deliveries = {d \in @ : d.agent # a},
        !.members = {r \in @ : r.agent # a},
        !.proposals = {[p EXCEPT !.by = IF @ = a THEN None ELSE @] : p \in @},
        !.cards = Unassigned(@, a),
        !.comments = Unsigned(@, a)])

-----------------------------------------------------------------------------
(* SessionRepository, TokenRepository                                        *)

\* The history of an agent is cut to its last SessionsKept entries.
Excess(list, a) ==
    {n \in DOMAIN list : list[n].agent = a
        /\ Cardinality({k \in DOMAIN list : k >= n /\ list[k].agent = a}) > SessionsKept}
Pruned(list, a) ==
    LET kept == Ascending(DOMAIN list \ Excess(list, a))
    IN  [n \in DOMAIN kept |-> list[kept[n]]]

StartSession(s, a) ==
    IF a \notin Ids(inner.agents) THEN Fails("AgentNotFound")
    ELSE Ok([inner EXCEPT !.sessions =
            Pruned(Append(@, [id |-> s, agent |-> a, ended |-> FALSE]), a)])

\* A session that was cut away is no error.
EndSession(s) ==
    Ok([inner EXCEPT !.sessions =
        [n \in DOMAIN @ |-> IF @[n].id = s THEN [@[n] EXCEPT !.ended = TRUE] ELSE @[n]]])

SessionIds == {inner.sessions[n].id : n \in DOMAIN inner.sessions}

\* A session that is gone is Corrupt here and AgentNotFound in the other store:
\* one answer for the port, "fails with either" (repo/mod.rs:90).
InsertToken(s, a) ==
    IF a \in Ids(inner.agents) /\ s \in SessionIds
    THEN Ok([inner EXCEPT !.tokens = @ \cup {[session |-> s, agent |-> a]}])
    ELSE Fails("AgentOrSessionNotFound")

\* Tokens of an agent that is gone stay in the map: find_token skips them.
\* The expiry, the same comparison in both stores, is left out.
FindToken(s) ==
    {r \in inner.tokens : r.session = s /\ r.agent \in Ids(inner.agents) /\ s \in SessionIds}

RevokeSession(s) == Ok([inner EXCEPT !.tokens = {r \in @ : r.session # s}])
RevokeAll        == Ok([inner EXCEPT !.tokens = {}])

ListSessions(a, limit) ==
    Take(SelectSeq(Reverse(inner.sessions), LAMBDA s : s.agent = a), limit)

-----------------------------------------------------------------------------
(* SkillRepository                                                           *)

\* sync_skills: `disk` maps the slug of each skill of the library to its version.
SyncSkills(disk, now) ==
    LET Synced(slug) ==
            LET old == {r \in inner.skills : r.slug = slug}
            IN  IF \E r \in old : r.version = disk[slug] THEN old
                ELSE {[slug |-> slug, version |-> disk[slug], updated |-> now]}
    IN  Ok([inner EXCEPT !.skills =
            {r \in @ : r.slug \notin DOMAIN disk} \cup UNION {Synced(x) : x \in DOMAIN disk}])

SetAgentSkills(a, list) ==
    CASE a \notin Ids(inner.agents) -> Fails("AgentNotFound")
      [] a \in Ids(inner.agents)
            /\ \E n \in DOMAIN list : \A r \in inner.skills : r.slug # list[n].skill
            -> Fails("SkillNotFound")
      [] OTHER -> Ok([inner EXCEPT !.agentSkills =
            {r \in @ : r.agent # a} \cup {[agent |-> a, list |-> Dedup(list)]}])

SkillsOf(a) ==
    IF \E r \in inner.agentSkills : r.agent = a
    THEN (CHOOSE r \in inner.agentSkills : r.agent = a).list ELSE <<>>
SkillUsers(k) ==
    {r.agent : r \in {x \in inner.agentSkills : \E n \in DOMAIN x.list : x.list[n].skill = k}}

-----------------------------------------------------------------------------
(* BusRepository                                                             *)

CreateChannel(c, slug) ==
    CASE Home[c] \notin Ids(inner.teams) -> Fails("TeamNotFound")
      [] Home[c] \in Ids(inner.teams)
            /\ \E r \in InTeam(inner.channels, Home[c]) : r.slug = slug -> Fails("AlreadyExists")
      [] OTHER -> Ok([inner EXCEPT !.channels =
                        @ \cup {[id |-> c, slug |-> slug, topic |-> 0]}])

SetTopic(c, topic) ==
    IF c \in Ids(inner.channels)
    THEN Ok([inner EXCEPT !.channels = Put(@, [Row(@, c) EXCEPT !.topic = topic])])
    ELSE Fails("Corrupt")

DeleteChannel(c) ==
    LET left == {m \in inner.messages : m.to # c}
    IN  Ok([inner EXCEPT
            !.channels = {r \in @ : r.id # c},
            !.members = {r \in @ : r.channel # c},
            !.messages = left,
            !.deliveries = {d \in @ : d.message \in Ids(left)}])

SetMembers(c, S) ==
    CASE c \notin Ids(inner.channels) -> Fails("Corrupt")
      [] c \in Ids(inner.channels)
            /\ \E a \in S : a \notin Ids(inner.agents) \/ Home[a] # Home[c]
            -> Fails("AgentNotFound")
      [] OTHER -> Ok([inner EXCEPT !.members =
            {r \in @ : r.channel # c} \cup {[channel |-> c, agent |-> a] : a \in S}])

InsertMessage(m, to, reply, S) ==
    CASE Home[m] \notin Ids(inner.teams) -> Fails("TeamNotFound")
      [] Home[m] \in Ids(inner.teams) /\ ~ S \subseteq Ids(inner.agents) -> Fails("AgentNotFound")
      [] OTHER -> Ok([inner EXCEPT
            !.messages = @ \cup {[id |-> m, to |-> to, reply |-> reply]},
            !.deliveries = @ \cup
                {[message |-> m, agent |-> a, state |-> "pending"] : a \in S}])

MarkRead(a, S) ==
    Ok([inner EXCEPT !.deliveries =
        {IF d.agent = a /\ d.message \in S /\ d.state \in Unread
         THEN [d EXCEPT !.state = "read"] ELSE d : d \in @}])

UpdateDelivery(m, a, state) ==
    IF \E d \in inner.deliveries : d.message = m /\ d.agent = a
    THEN Ok([inner EXCEPT !.deliveries =
            {IF d.message = m /\ d.agent = a THEN [d EXCEPT !.state = state] ELSE d : d \in @}])
    ELSE Fails("Corrupt")

\* prune_messages: what was created before the message `first`.
Prune(first) ==
    LET old == {m \in Ids(inner.messages) : m < first}
    IN  Ok([inner EXCEPT !.messages = {m \in @ : m.id \notin old},
                         !.deliveries = {d \in @ : d.message \notin old}])

Inbox(a, unreadOnly, after, limit) ==
    Take(Ascending({m \in Ids(inner.messages) : m > after
            /\ \E d \in inner.deliveries : d.message = m /\ d.agent = a
                /\ (unreadOnly => d.state \in Unread)}), limit)

\* By the team of the message.
UnreadCounts(t) ==
    [a \in {d.agent : d \in {x \in inner.deliveries : x.state \in Unread /\ Home[x.message] = t}}
        |-> Cardinality({d \in inner.deliveries : d.agent = a /\ d.state \in Unread
                                                  /\ Home[d.message] = t})]

MembersOf(c) == {r.agent : r \in {x \in inner.members : x.channel = c}}

-----------------------------------------------------------------------------
(* BoardRepository                                                           *)

\* Columns in the order of the board, as rows.
Placed(list) ==
    {[id |-> list[n].id, slug |-> list[n].slug, position |-> n] : n \in DOMAIN list}

CreateBoard(t, list) ==
    CASE t \notin Ids(inner.teams) -> Fails("TeamNotFound")
      [] t \in Ids(inner.teams) /\ \E b \in inner.boards : b.team = t -> Fails("AlreadyExists")
      [] OTHER -> Ok([inner EXCEPT
            !.boards = @ \cup {[team |-> t, automations |-> 0]},
            !.columns = @ \cup Placed(list)])

SetAutomations(t, n) ==
    IF \E b \in inner.boards : b.team = t
    THEN Ok([inner EXCEPT !.boards =
            {IF b.team = t THEN [b EXCEPT !.automations = n] ELSE b : b \in @}])
    ELSE Fails("Corrupt")

\* moves: from a column that goes to one that stays, or is new.
Moved(cards, moves) ==
    {IF c.column \in DOMAIN moves
     THEN [c EXCEPT !.column = moves[@], !.version = @ + 1] ELSE c : c \in cards}

\* The cards that were moved stay moved when the call fails.
ReplaceColumns(t, list, moves) ==
    LET cards == Moved(inner.cards, moves)
        gone  == Ids(InTeam(inner.columns, t)) \ {list[n].id : n \in DOMAIN list}
    IN  IF \E c \in cards : c.column \in gone
        THEN told' = "Corrupt" /\ inner' = [inner EXCEPT !.cards = cards]
        ELSE Ok([inner EXCEPT !.cards = cards,
                              !.columns = OutOf(@, t) \cup Placed(list)])

InsertCard(c, col, who) ==
    CASE Home[c] \notin Ids(inner.teams) -> Fails("TeamNotFound")
      [] Home[c] \in Ids(inner.teams) /\ col \notin Ids(inner.columns) -> Fails("Corrupt")
      [] OTHER -> Ok([inner EXCEPT !.cards = @ \cup
            {[id |-> c, column |-> col, assignee |-> who, version |-> 1, archived |-> FALSE]}])

\* card_fits.
Others(card) ==
    {c \in inner.cards : c.column = card.column /\ ~c.archived /\ c.id # card.id}
Fits(card, guard) ==
    /\ guard.wip # None => Cardinality(Others(card)) < guard.wip
    /\ guard.perAgent # None /\ card.assignee # None =>
          Cardinality({c \in Others(card) : c.assignee = card.assignee}) < guard.perAgent

\* update_card: optimistic lock, then the limits of the column.
UpdateCard(card, guard) ==
    LET stale == LET c == Row(inner.cards, card.id)
                 IN  c.version # guard.expected \/ (guard.unassigned /\ c.assignee # None)
    IN  CASE card.id \notin Ids(inner.cards) -> Fails("Corrupt")
          [] card.id \in Ids(inner.cards) /\ stale -> Fails("Stale")
          [] card.id \in Ids(inner.cards) /\ ~stale /\ ~Fits(card, guard) -> Fails("WipFull")
          [] OTHER -> Ok([inner EXCEPT !.cards = Put(@, card)])

AddDependency(task, on) ==
    IF task = on \/ ~ {task, on} \subseteq Ids(inner.cards) THEN Fails("Corrupt")
    ELSE Ok([inner EXCEPT !.dependencies = @ \cup {[task |-> task, on |-> on]}])

RemoveDependency(task, on) ==
    Ok([inner EXCEPT !.dependencies = @ \ {[task |-> task, on |-> on]}])

\* insert_comment, insert_activity.
InsertComment(c, author) ==
    IF OnCard[c] \in Ids(inner.cards)
    THEN Ok([inner EXCEPT !.comments = @ \cup {[id |-> c, author |-> author]}])
    ELSE Fails("Corrupt")

GetBoard(t)    == {b \in inner.boards : b.team = t}
ListColumns(t) == InTeam(inner.columns, t)
\* list_cards, with the filters of CardQuery that are not None.
ListCards(t, archived, who, unassigned) ==
    {c \in InTeam(inner.cards, t) :
        /\ archived \/ ~c.archived
        /\ who = None \/ c.assignee = who
        /\ unassigned => c.assignee = None}
Dependencies(t) == {d \in inner.dependencies : d.task \in Ids(InTeam(inner.cards, t))}
ListComments(k) == {c \in inner.comments : OnCard[c.id] = k}

-----------------------------------------------------------------------------
(* ProposalRepository                                                        *)

InsertProposal(p, by) ==
    IF Home[p] \in Ids(inner.teams)
    THEN Ok([inner EXCEPT !.proposals =
                @ \cup {[id |-> p, by |-> by, state |-> "pending"]}])
    ELSE Fails("TeamNotFound")

\* decide_proposal returns whether it was this call that decided.
DecideProposal(p, state) ==
    IF \E r \in inner.proposals : r.id = p /\ r.state = "pending"
    THEN Ok([inner EXCEPT !.proposals = Put(@, [Row(@, p) EXCEPT !.state = state])])
    ELSE Fails("NotPending")

ListProposals(t, pendingOnly) ==
    {p \in InTeam(inner.proposals, t) : pendingOnly => p.state = "pending"}
=============================================================================
