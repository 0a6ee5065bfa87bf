--------------------------- MODULE StoreContract ----------------------------
(***************************************************************************)
(* The two stores behind the ports, side by side: each call is made to     *)
(* both, as aisense-store/tests/repositories.rs does with its contract.    *)
(*                                                                         *)
(* The calls are those the program makes: an id is new when a row is made, *)
(* a recipient is of the team of the message, a card that is written has   *)
(* one more than the version it was read with.  What a call refers to may  *)
(* be gone, but for the references named at the calls that take them: one  *)
(* store checks those and the other does not, see the README.              *)
(*                                                                         *)
(* A behaviour makes the calls of one group besides those about teams and  *)
(* agents: no row and no key is shared between groups.                     *)
(***************************************************************************)
EXTENDS Rows

CONSTANTS
    Groups,    \* which of the groups below an instance looks at
    Cast,      \* bound: the ids that the rows of a group may take
    MoveToNew  \* whether cards may move to a column of the same edit

ASSUME ContractAssumption ==
    /\ Groups \subseteq {"team", "session", "skill", "channel", "message",
                         "columns", "cards", "history", "proposal"}
    /\ Groups \subseteq DOMAIN Cast
    /\ MoveToNew \in BOOLEAN

VARIABLES inner, said, db, told, used, group

M == INSTANCE MemoryStore WITH told <- said
S == INSTANCE SqliteStore

vars == <<inner, said, db, told, used, group>>

TypeOK ==
    /\ M!TypeOK
    /\ db \in S!Tables
    /\ used \subseteq Teams \cup Agents \cup Channels \cup Columns \cup Cards
            \cup Comments \cup Proposals \cup Sessions \cup Messages
    /\ group \in Groups

Init == M!Init /\ S!Init /\ used = {} /\ group \in Groups

Same     == UNCHANGED <<used, group>>
New(id)  == id \in Cast[group] \ used /\ used' = used \cup {id} /\ UNCHANGED group
\* ULIDs of one process come in order.
Next1(ids, id) == id \in ids /\ New(id) /\ \A n \in ids \cap used : n < id

\* Who may own, write or propose something: an agent of the team, or nobody.
People(t) == Ids(S!InTeam(db.agents, t)) \cup {None}

-----------------------------------------------------------------------------
TeamCalls ==
    \/ \E t \in Teams : New(t) /\ M!CreateTeam(t) /\ S!CreateTeam(t)
    \/ \E t \in Teams : Same /\ M!DeleteTeam(t) /\ S!DeleteTeam(t)
    \/ group = "team" /\ Same
        /\ \E t \in Teams, b \in BOOLEAN : M!SetArchived(t, b) /\ S!SetArchived(t, b)

\* Which handles a group tries: all, or one that is free.
Choice(a) ==
    IF group = "team" THEN Handles
    ELSE {CHOOSE h \in Handles : ~S!HandleConflict(a, h)}

AgentCalls ==
    \/ \E a \in Agents : \E h \in Choice(a) : New(a) /\ M!CreateAgent(a, h) /\ S!CreateAgent(a, h)
    \/ \E a \in Agents : Same /\ M!DeleteAgent(a) /\ S!DeleteAgent(a)
    \/ group = "team" /\ Same
        /\ \E a \in Agents, h \in Handles : M!UpdateAgent(a, h) /\ S!UpdateAgent(a, h)

SessionCalls ==
    /\ group = "session"
    /\ \/ \E s \in Sessions, a \in Agents :
            Next1(Sessions, s) /\ M!StartSession(s, a) /\ S!StartSession(s, a)
       \/ \E s \in Sessions : Same /\ M!EndSession(s) /\ S!EndSession(s)
       \* A token is of the session's own agent.
       \/ \E s \in Sessions, a \in Agents :
            /\ \A r \in db.sessions : r.id = s => r.agent = a
            /\ Same /\ M!InsertToken(s, a) /\ S!InsertToken(s, a)
       \/ \E s \in Sessions : Same /\ M!RevokeSession(s) /\ S!RevokeSession(s)
       \/ Same /\ M!RevokeAll /\ S!RevokeAll

SkillCalls ==
    /\ group = "skill" /\ Same
    /\ \/ \E D \in SUBSET Skills, now \in 1 .. 2 : \E disk \in [D -> 1 .. 2] :
            M!SyncSkills(disk, now) /\ S!SyncSkills(disk, now)
       \/ \E a \in Agents, n \in 0 .. 2 : \E list \in [1 .. n -> AgentSkill] :
            M!SetAgentSkills(a, list) /\ S!SetAgentSkills(a, list)

AnySlug == CHOOSE x \in Slugs : TRUE

ChannelCalls ==
    \/ /\ group \in {"channel", "message"}
       /\ \/ \E c \in Channels, x \in IF group = "channel" THEN Slugs ELSE {AnySlug} :
                New(c) /\ M!CreateChannel(c, x) /\ S!CreateChannel(c, x)
          \/ \E c \in Channels : Same /\ M!DeleteChannel(c) /\ S!DeleteChannel(c)
    \/ /\ group = "channel" /\ Same
       /\ \/ \E c \in Channels, n \in 1 .. 2 : M!SetTopic(c, n) /\ S!SetTopic(c, n)
          \/ \E c \in Channels, A \in SUBSET Agents :
                M!SetMembers(c, A) /\ S!SetMembers(c, A)

\* The channel that a message goes to exists: the memory would take one that
\* was deleted after it was looked up.
MessageCalls ==
    /\ group = "message"
    /\ \/ \E m \in Messages, to \in Ids(db.channels) \cup {None},
             reply \in Ids(db.messages) \cup {None}, A \in SUBSET Agents :
            /\ \A a \in A : Home[a] = Home[m]
            /\ to # None => Home[to] = Home[m]
            /\ Next1(Messages, m)
            /\ M!InsertMessage(m, to, reply, A) /\ S!InsertMessage(m, to, reply, A)
       \/ \E a \in Agents, X \in SUBSET Messages :
            Same /\ M!MarkRead(a, X) /\ S!MarkRead(a, X)
       \/ \E m \in Messages, a \in Agents, x \in {"delivered", "failed"} :
            Same /\ M!UpdateDelivery(m, a, x) /\ S!UpdateDelivery(m, a, x)
       \/ \E m \in Messages : Same /\ M!Prune(m) /\ S!Prune(m)

\* What the editor of columns may send: each column and slug once.
Lists(t) ==
    LET mine == {c \in Columns \cap Cast[group] : Home[c] = t}
    IN  {list \in UNION {[1 .. n -> [id: mine, slug: Slugs]] : n \in 1 .. 2} :
            \A i, j \in DOMAIN list : i # j =>
                list[i].id # list[j].id /\ list[i].slug # list[j].slug}
\* The first columns of a board: any, where columns are what is looked at.
FirstLists(t) ==
    IF group = "columns" \/ Lists(t) = {} THEN Lists(t)
    ELSE {CHOOSE list \in Lists(t) : \A other \in Lists(t) : Len(other) <= Len(list)}
Listed(list) == {list[n].id : n \in DOMAIN list}
Targets(list) == IF MoveToNew THEN Listed(list) ELSE Listed(list) \cap Ids(db.columns)

\* The board exists.  Either all the cards of the columns that go move, or none
\* does: the memory leaves the cards moved when others stop the edit.
ColumnCalls ==
    \/ /\ group \in {"columns", "cards"}
       /\ \E t \in Teams : \E list \in FirstLists(t) :
            /\ Listed(list) \cap used = {}
            /\ used' = used \cup Listed(list) /\ UNCHANGED group
            /\ M!CreateBoard(t, list) /\ S!CreateBoard(t, list)
    \/ /\ group = "columns"
       /\ \E t \in {b.team : b \in db.boards} :
            \/ \E n \in 1 .. 2 : Same /\ M!SetAutomations(t, n) /\ S!SetAutomations(t, n)
            \/ \E list \in Lists(t) :
                LET gone == {c.id : c \in S!ListColumns(t)} \ Listed(list)
                    full == {c \in gone : \E k \in db.tasks : k.column = c}
                IN  /\ \A k \in db.tasks : k.version < MaxVersion
                    /\ \E F \in {full, {}} : \E moves \in [F -> Targets(list)] :
                        /\ (Listed(list) \ Ids(db.columns)) \cap used = {}
                        /\ used' = used \cup Listed(list) /\ UNCHANGED group
                        /\ M!ReplaceColumns(t, list, moves) /\ S!ReplaceColumns(t, list, moves)

\* The column and the assignee exist.
CardCalls ==
    /\ group \in {"columns", "cards"}
    /\ \/ \E c \in Cards, col \in Columns : \E who \in People(Home[c]) :
            /\ Home[col] = Home[c] /\ (Home[c] \in Ids(db.teams) => col \in Ids(db.columns))
            /\ group = "columns" => who = None
            /\ New(c) /\ M!InsertCard(c, col, who) /\ S!InsertCard(c, col, who)
       \/ \E c \in Cards, col \in Ids(db.columns), b \in BOOLEAN, g \in Guards : \E who \in People(Home[c]) :
            /\ group = "cards" /\ Home[col] = Home[c] /\ g.expected < MaxVersion /\ Same
            /\ LET card == [id |-> c, column |-> col, assignee |-> who,
                            version |-> g.expected + 1, archived |-> b]
               IN  M!UpdateCard(card, g) /\ S!UpdateCard(card, g)
       \/ \E c, d \in Cards :
            /\ group = "cards" /\ Same
            /\ \/ M!AddDependency(c, d) /\ S!AddDependency(c, d)
               \/ M!RemoveDependency(c, d) /\ S!RemoveDependency(c, d)

\* The author exists.
HistoryCalls ==
    /\ group = "history"
    /\ \/ \E t \in Teams : \E list \in FirstLists(t) :
            /\ Listed(list) \cap used = {}
            /\ used' = used \cup Listed(list) /\ UNCHANGED group
            /\ M!CreateBoard(t, list) /\ S!CreateBoard(t, list)
       \/ \E c \in Cards, col \in Ids(db.columns) :
            Home[col] = Home[c] /\ New(c) /\ M!InsertCard(c, col, None) /\ S!InsertCard(c, col, None)
       \/ \E x \in Comments :
            \E who \in (People(Home[OnCard[x]]) \ {None}) \cup {"human", "system"} :
            New(x) /\ M!InsertComment(x, who) /\ S!InsertComment(x, who)

\* The agent that proposes exists.
ProposalCalls ==
    /\ group = "proposal"
    /\ \/ \E p \in Proposals : \E who \in People(Home[p]) :
            New(p) /\ M!InsertProposal(p, who) /\ S!InsertProposal(p, who)
       \/ \E p \in Proposals, x \in {"accepted", "rejected"} :
            Same /\ M!DecideProposal(p, x) /\ S!DecideProposal(p, x)

Next ==
    \/ TeamCalls \/ AgentCalls \/ SessionCalls \/ SkillCalls \/ ChannelCalls
    \/ MessageCalls \/ ColumnCalls \/ CardCalls \/ HistoryCalls \/ ProposalCalls

Spec == Init /\ [][Next]_vars

-----------------------------------------------------------------------------
(* Both stores give the same answer to the same call, and hold the same rows *)
(* after it: what the domain's tests show on the store in memory holds for   *)
(* the database, whatever calls came before (tests/repositories.rs:3).  The  *)
(* memory cascades by hand, the database by its keys.                        *)
StoresAgree ==
    /\ said = told
    /\ inner.teams = db.teams /\ inner.agents = db.agents
    /\ ToSet(inner.sessions) = db.sessions
    /\ inner.skills = db.skills
    /\ inner.channels = db.channels /\ inner.members = db.channel_members
    /\ inner.messages = db.messages /\ inner.deliveries = db.deliveries
    /\ inner.boards = db.boards /\ inner.columns = db.columns
    /\ inner.cards = db.tasks /\ inner.dependencies = db.task_dependencies
    /\ inner.comments = db.task_comments /\ inner.proposals = db.proposals

\* Both answer the same queries alike, in the same order: the inbox, the counts
\* of unread messages, the latest sessions, a token, the skills of an agent ...
ReadsAgree ==
    /\ \A a \in Agents :
        /\ \A u \in BOOLEAN, n \in Messages \cup {0}, k \in 1 .. 2 :
                M!Inbox(a, u, n, k) = S!Inbox(a, u, n, k)
        /\ \A k \in 1 .. 2 : M!ListSessions(a, k) = S!ListSessions(a, k)
        /\ M!SkillsOf(a) = S!SkillsOf(a)
    /\ \A s \in Sessions : M!FindToken(s) = S!FindToken(s)
    /\ \A k \in Skills : M!SkillUsers(k) = S!SkillUsers(k)
    /\ \A t \in Teams :
        /\ M!UnreadCounts(t) = S!UnreadCounts(t)
        /\ M!GetBoard(t) = S!GetBoard(t) /\ M!ListColumns(t) = S!ListColumns(t)
        /\ \A b, u \in BOOLEAN, who \in Agents \cup {None} :
                M!ListCards(t, b, who, u) = S!ListCards(t, b, who, u)
        /\ M!Dependencies(t) = S!Dependencies(t)
        /\ \A b \in BOOLEAN : M!ListProposals(t, b) = S!ListProposals(t, b)
    /\ \A c \in Channels : M!MembersOf(c) = S!MembersOf(c)
    /\ \A c \in Cards : M!ListComments(c) = S!ListComments(c)

\* One contract: no sequence of calls tells the two stores apart, or brings
\* either of them to a row that its types and keys rule out.
StoresAreOne == TypeOK /\ StoresAgree /\ ReadsAgree

=============================================================================
