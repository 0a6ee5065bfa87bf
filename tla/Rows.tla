-------------------------------- MODULE Rows --------------------------------
(***************************************************************************)
(* What the ports of aisense-core/src/repo, bus/repo.rs and board/repo.rs  *)
(* store, whichever store is behind them.  A row keeps the columns that    *)
(* some query or constraint reads; names, texts and dates are left out.    *)
(* Ids are ULIDs: new when a row is made, and never used again.  So what   *)
(* an id belongs to (its team, or the card of a comment) is a property of  *)
(* the id: Home and OnCard.                                                *)
(***************************************************************************)
EXTENDS Integers, Sequences, FiniteSets, SequencesExt

CONSTANTS
    Teams, Agents, Channels, Columns, Cards, Comments, Proposals,
    Sessions, Messages,  \* numbers: the order of these ids is that of time
    Skills, Handles, Slugs,
    Home,                \* the team of an agent, channel, message, ...
    OnCard,              \* the card of a comment or of an entry of the history
    None,
    SessionsKept,        \* SESSIONS_KEPT_PER_AGENT
    MaxVersion           \* bound on the version of a card

ASSUME RowsAssumption ==
    /\ Sessions \subseteq Nat /\ Messages \subseteq Nat
    /\ Home \in [Agents \cup Channels \cup Messages \cup Columns \cup Cards
                    \cup Proposals -> Teams]
    /\ OnCard \in [Comments -> Cards]
    /\ SessionsKept \in Nat \ {0} /\ MaxVersion \in Nat \ {0}

TeamRow    == [id: Teams, archived: BOOLEAN]
AgentRow   == [id: Agents, handle: Handles]
SessionRow == [id: Sessions, agent: Agents, ended: BOOLEAN]
\* One token for each session: the token is its session's id.
TokenRow   == [session: Sessions, agent: Agents]
SkillRow   == [slug: Skills, version: Nat, updated: Nat]
AgentSkill == [skill: Skills, enabled: BOOLEAN]
ChannelRow == [id: Channels, slug: Slugs, topic: Nat]
MemberRow  == [channel: Channels, agent: Agents]
\* Only a target that is a channel is a reference; reply is a message or None.
MessageRow == [id: Messages, to: Channels \cup {None}, reply: Messages \cup {None}]
Unread     == {"pending", "delivered"}
DeliveryRow ==
    [message: Messages, agent: Agents, state: Unread \cup {"read", "failed"}]
\* A team has one board, so the board's id is the team's.
BoardRow   == [team: Teams, automations: Nat]
ColumnRow  == [id: Columns, slug: Slugs, position: Nat]
\* `assignee` stands for created_by and approved_by too: all the three become
\* NULL with their agent.
CardRow    == [id: Cards, column: Columns, assignee: Agents \cup {None},
               version: 1 .. MaxVersion, archived: BOOLEAN]
DependencyRow == [task: Cards, on: Cards]
\* A comment, or an entry of the history of a card: both have an author.
CommentRow == [id: Comments, author: Agents \cup {"human", "system"}]
ProposalRow ==
    [id: Proposals, by: Agents \cup {None},
     state: {"pending", "accepted", "rejected"}]

Ids(table)     == {r.id : r \in table}
Row(table, id) == CHOOSE r \in table : r.id = id
Put(table, row) == {r \in table : r.id # row.id} \cup {row}

\* The first n of a sequence: Iterator::take, LIMIT.
Take(s, n)  == SubSeq(s, 1, IF n < Len(s) THEN n ELSE Len(s))
Ascending(S)  == SetToSortSeq(S, <)
Descending(S) == SetToSortSeq(S, >)

\* dedup_agent_skills: of a skill that is listed twice, the first entry.
Dedup(list) ==
    LET kept == {i \in DOMAIN list :
                    \A j \in 1 .. i - 1 : list[j].skill # list[i].skill}
    IN  [n \in 1 .. Cardinality(kept) |-> list[Ascending(kept)[n]]]

\* WriteGuard of a card: None is no limit.
Guards == [expected: 1 .. MaxVersion, unassigned: BOOLEAN,
           wip: {None, 1}, perAgent: {None, 1}]
=============================================================================
