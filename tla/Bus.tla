-------------------------------- MODULE Bus ---------------------------------
(***************************************************************************)
(* What the calls of the bus do to the messages and channels of the store  *)
(* (aisense-core/src/bus/service.rs and bus/mod.rs): send, note, status,   *)
(* the channels, and the guards between a call and its message.  A call of *)
(* a connection is a process that gives way where the code awaits; reads   *)
(* that follow each other are one step.  What becomes of a delivery is in  *)
(* Push, and ask and wait are in Ask.                                      *)
(***************************************************************************)
EXTENDS Guards

CONSTANTS
    Procs,           \* calls that may run at the same time
    Slugs,           \* names of channels
    Parts,           \* what an instance looks at, see Next
    Limits,          \* of a part: the configurations of the guards it may have
    Jobs,            \* of a part: the calls it tries
    MaxCalls,        \* bound: the calls of a behaviour, for each part
    MaxAtOnce,       \* bound: the calls at the same time, for each part
    MaxNow           \* bound on the clock

Edits == {"save", "delete", "join", "leave"}
Addresses == Agents \cup Slugs \cup {"human", "all"}
\* A call names the team of who makes it, and a channel is no agent (Address).
ASSUME BusAssumption ==
    /\ MaxNow \in Nat /\ Agents \cap Teams = {} /\ "human" \notin Agents
    /\ Slugs \cap (Agents \cup {"human", "all"}) = {}
    /\ \A part \in Parts : Limits[part] \subseteq Configs
    /\ \A part \in Parts : \A j \in Jobs[part] :
         /\ j \in [op : {"send"} \cup Edits, who : Agents \cup {"human"}, team : Teams,
                   to : Seq(Addresses), body : Bodies, reply : BOOLEAN, for : SUBSET Agents]
         /\ j.to # <<>> /\ (j.who \in Agents => j.team = Home[j.who])
         /\ j.op \in Edits => Head(j.to) \in Slugs

VARIABLES
    agents,          \* the agents that are not deleted
    channels, members, messages, made,
    at, job,         \* of a process: its next step, and its call
    calls, part,
    passed,          \* history: the messages that the guards let through
    since,           \* history: the last message when an episode of blocks began
    refused,         \* history: what an agent was refused for in its episode
    raced,           \* history: teams resumed between a block and its notice
    joined,          \* history: who joined which channel
    mixed            \* history: channels with two edits of their members at once

store   == <<agents, channels, members, messages, made>>
history == <<passed, since, refused, raced, joined, mixed>>
vars    == <<now, guards, store, at, job, calls, part, history>>

NoJob     == [op |-> "none"]
NoChannel == [n |-> 0, team |-> None, slug |-> None]
Steps == {"idle", "admit", "route", "find", "create", "refind", "read", "insert",
          "warn", "blocked", "notice", "write", "delete"}

TypeOK ==
    /\ now \in 0 .. MaxNow /\ config \in Configs
    /\ paused \subseteq Teams /\ announced_pause \subseteq Teams
    /\ announced \in [Agents -> {None, "rate", "repeated"}]
    /\ agents \subseteq Agents
    /\ \A c, d \in channels : c.team = d.team /\ c.slug = d.slug => c = d
    /\ members \subseteq channels \X agents
    /\ \A m \in messages : m.id \in 1 .. made /\ m.channel \in channels \cup {NoChannel}
    /\ at \in [Procs -> Steps] /\ \A p \in Procs : at[p] = "idle" <=> job[p] = NoJob

Init ==
    /\ GuardsInit
    /\ agents = Agents /\ channels = {} /\ members = {} /\ messages = {} /\ made = 0
    /\ at = [p \in Procs |-> "idle"] /\ job = [p \in Procs |-> NoJob]
    /\ calls = 0 /\ part \in Parts /\ config \in Limits[part]
    /\ passed = <<>> /\ since = [x \in Agents \cup Teams |-> 0]
    /\ refused = [a \in Agents |-> {}] /\ raced = {} /\ joined = {} /\ mixed = {}

-----------------------------------------------------------------------------
(* The store                                                                 *)

Team(t)        == {a \in agents : Home[a] = t}
Named(t, slug) == {c \in channels : c.team = t /\ c.slug = slug}
MembersOf(c)   == {a \in agents : <<c, a>> \in members}

\* insert_message: the message with a delivery for each recipient, or nothing.
Accepts(m) == m.for \subseteq agents /\ m.channel \in channels \cup {NoChannel}
Insert(m)  == /\ messages' = messages \cup {m} /\ made' = made + 1
              /\ UNCHANGED <<agents, channels, members>>
\* A message of the system; `about` is the block it announces.
System(t, for, about) ==
    [id |-> made + 1, team |-> t, from |-> "system", channel |-> NoChannel, for |-> for,
     reply |-> 0, about |-> about, due |-> {}]

-----------------------------------------------------------------------------
(* A call: its steps share `at` and `job`                                    *)

Goto(p, step, j) == at' = [at EXCEPT ![p] = step] /\ job' = [job EXCEPT ![p] = j]
Return(p)        == Goto(p, "idle", NoJob)
Same             == UNCHANGED <<now, calls, part>>
First(j)         == IF j.op # "send" THEN "find" ELSE IF j.who \in Agents THEN "admit" ELSE "route"

EditedBy(p, slug) == at[p] # "idle" /\ job[p].op \in Edits /\ Head(job[p].to) = slug
Undone(j) ==
    CASE j.op = "leave" -> {x \in joined : x.who = j.who /\ x.slug = Head(j.to)}
      [] j.op \in {"save", "delete"} -> {x \in joined : x.slug = Head(j.to)}
      [] OTHER -> {}

\* A call comes in; what it answers, if it is a reply, is a message it was sent.
Begin(p, j) ==
    /\ at[p] = "idle" /\ Cardinality({q \in Procs : at[q] # "idle"}) < MaxAtOnce[part]
    /\ calls < MaxCalls[part] /\ calls' = calls + 1
    /\ j.who \in agents \cup {"human"}
    /\ \E n \in IF j.reply THEN {m.id : m \in {x \in messages : x.team = j.team}} ELSE {0} :
        Goto(p, First(j), [op |-> j.op, who |-> j.who, team |-> j.team, to |-> j.to,
                           body |-> j.body, for |-> j.for, parent |-> n, n |-> calls + 1,
                           channel |-> NoChannel, depth |-> 0, reason |-> None,
                           expected |-> joined])
    /\ joined' = joined \ Undone(j)
    /\ mixed' = IF j.op \in Edits /\ \E q \in Procs : EditedBy(q, Head(j.to))
                THEN mixed \cup {Head(j.to)} ELSE mixed
    /\ UNCHANGED <<now, part, guards, store, passed, since, refused, raced>>

\* dispatch: a message of an agent is counted, or refused, before it is routed.
Admit(p) ==
    LET j == job[p]  key == <<Head(j.to), j.body>>  verdict == Verdict(j.who, key)
    IN  /\ at[p] = "admit" /\ Same
        /\ \/ /\ verdict = "pass" /\ Count(j.who, key) /\ Goto(p, "route", j)
              /\ passed' = Append(passed, [who |-> j.who, key |-> key, time |-> now,
                                           limits |-> config, counts |-> TRUE])
              /\ since' = [since EXCEPT ![j.who] = made]
              /\ refused' = [refused EXCEPT ![j.who] = {}]
           \/ /\ verdict # "pass" /\ Refuse(j.who, key)
              /\ Goto(p, "blocked", [j EXCEPT !.reason = verdict])
              /\ since' = IF paused' # paused THEN [since EXCEPT ![j.team] = made] ELSE since
              /\ refused' = IF verdict = "budget" THEN refused
                            ELSE [refused EXCEPT ![j.who] = @ \cup {verdict}]
              /\ UNCHANGED passed
        /\ UNCHANGED <<store, raced, joined, mixed>>

\* block: reads the handle of the sender, then asks whether this is the first.
Block(p) ==
    /\ at[p] = "blocked" /\ Same
    /\ FirstBlock(job[p].who, job[p].reason)
    /\ IF IsFirst(job[p].who, job[p].reason) THEN Goto(p, "notice", job[p]) ELSE Return(p)
    /\ UNCHANGED <<store, history>>

\* The notice to the person, a message of the system; the call ends as refused.
Notice(p) ==
    LET j == job[p]
    IN  /\ at[p] = "notice" /\ Same /\ Return(p)
        /\ Insert(System(j.team, {},
                <<IF j.reason = "budget" THEN j.team ELSE j.who, j.reason>>))
        /\ UNCHANGED <<guards, history>>

\* How many replies are above a message.
Above(n) ==
    LET stored(k) == {m \in messages : m.id = k /\ m.reply # 0}
        above[k \in 0 .. made] ==
            IF stored(k) = {} THEN 0 ELSE 1 + above[(CHOOSE m \in stored(k) : TRUE).reply]
    IN  above[n]
\* reply_depth, which looks no further than one above the limit.
ReplyDepth(n) ==
    LET limit == config.depth + 1
    IN  IF n = 0 THEN 0 ELSE IF Above(n) + 1 < limit THEN Above(n) + 1 ELSE limit

\* route, up to the write: who gets the message.  A call that fails here was
\* counted by the guards.
Route(p) ==
    LET j == job[p]  to == Head(j.to)  others == Team(j.team) \ {j.who}
        refusedCall ==
            \/ j.who \notin Team(j.team) \cup {"human"}
            \/ j.parent # 0 /\ ~\E m \in messages : m.id = j.parent /\ m.team = j.team
            \/ to \in Agents /\ to \notin others
        depth == IF j.who = "human" THEN 0 ELSE ReplyDepth(j.parent)
        for   == CASE to \in Agents -> {to}
                   [] to = "human" -> {}
                   [] OTHER -> others
    IN  /\ at[p] = "route" /\ Same
        /\ IF refusedCall THEN Return(p)
           ELSE Goto(p, IF to \in Slugs THEN "find" ELSE "insert",
                     [j EXCEPT !.for = for, !.depth = depth])
        /\ UNCHANGED <<guards, store, history>>

\* channel_by_slug, for all the calls that name a channel; the members of one
\* that is saved are looked up first.  To join a channel that is not there is
\* to save it with oneself as its only member.
Find(p) ==
    LET j == job[p]  found == Named(j.team, Head(j.to))
        strangers == j.op = "save" /\ ~ j.for \subseteq Team(j.team)
        with == IF found = {} THEN j ELSE [j EXCEPT !.channel = CHOOSE c \in found : TRUE]
    IN  /\ at[p] = "find" /\ Same
        /\ \/ strangers /\ Return(p)
           \/ ~strangers /\ found # {} /\ Goto(p, CASE j.op \in {"send", "join", "leave"} -> "read"
                                      [] j.op = "save" -> "write"
                                      [] j.op = "delete" -> "delete", with)
           \/ ~strangers /\ found = {} /\ j.op \in {"send", "save"} /\ Goto(p, "create", j)
           \/ found = {} /\ j.op = "join" /\ Goto(p, "find", [j EXCEPT !.op = "save", !.for = {j.who}])
           \/ found = {} /\ j.op \in {"leave", "delete"} /\ Return(p)
        /\ UNCHANGED <<guards, store, history>>

\* create_channel.  A send takes the channel that another made in between; to
\* save one fails.
Create(p) ==
    LET j == job[p]  new == [n |-> j.n, team |-> j.team, slug |-> Head(j.to)]
    IN  /\ at[p] = "create" /\ Same
        /\ IF Named(j.team, Head(j.to)) = {}
           THEN /\ channels' = channels \cup {new}
                /\ Goto(p, IF j.op = "send" THEN "read" ELSE "write", [j EXCEPT !.channel = new])
           ELSE /\ UNCHANGED channels
                /\ IF j.op = "send" THEN Goto(p, "refind", j) ELSE Return(p)
        /\ UNCHANGED <<agents, members, messages, made, guards, history>>

Refind(p) ==
    LET found == Named(job[p].team, Head(job[p].to))
    IN  /\ at[p] = "refind" /\ Same
        /\ IF found = {} THEN Return(p)
           ELSE Goto(p, "read", [job[p] EXCEPT !.channel = CHOOSE c \in found : TRUE])
        /\ UNCHANGED <<guards, store, history>>

\* channel_members: a channel without members is open to the whole team.
Readers(j) == IF MembersOf(j.channel) = {} THEN j.for ELSE j.for \cap MembersOf(j.channel)
\* subscribe_channel: the members with oneself put in or left out.
\* OneselfAlone is the mutant of Subscribed.
OneselfAlone(j) == IF j.op = "join" THEN {j.who} ELSE {}
Subscribed(j) == (MembersOf(j.channel) \ {j.who}) \cup (IF j.op = "join" THEN {j.who} ELSE {})
Read(p) ==
    LET j == job[p]
    IN  /\ at[p] = "read" /\ Same
        /\ IF j.op = "send" THEN Goto(p, "insert", [j EXCEPT !.for = Readers(j)])
           ELSE Goto(p, "write", [j EXCEPT !.for = Subscribed(j)])
        /\ UNCHANGED <<guards, store, history>>

\* Sent: the next address, or the end.
NextAddress(p) ==
    IF Len(job[p].to) = 1 THEN Return(p)
    ELSE Goto(p, First(job[p]),
              [job[p] EXCEPT !.to = Tail(@), !.channel = NoChannel])

\* insert_message, then observer and hub.
InsertMessage(p) ==
    LET j == job[p]
        due == {x.who : x \in {y \in joined \cap j.expected :
                    y.slug = Head(j.to) /\ y.team = j.team /\ y.slug \notin mixed}}
        m == [id |-> made + 1, team |-> j.team, from |-> j.who, channel |-> j.channel,
              for |-> j.for, reply |-> j.parent, about |-> None, due |-> due \ {j.who}]
    IN  /\ at[p] = "insert" /\ Same
        /\ IF ~Accepts(m) THEN Return(p) /\ UNCHANGED store
           ELSE /\ Insert(m)
                /\ IF j.who \in Agents /\ j.depth = config.depth THEN Goto(p, "warn", j)
                   ELSE NextAddress(p)
        /\ UNCHANGED <<guards, history>>

\* The sender of a long chain is told so.  The call fails when it is gone.
Warn(p) ==
    LET j == job[p]
    IN  /\ at[p] = "warn" /\ Same
        /\ IF j.who \in Team(j.team)
           THEN Insert(System(j.team, {j.who}, <<j.who, "depth">>)) /\ NextAddress(p)
           ELSE UNCHANGED store /\ Return(p)
        /\ UNCHANGED <<guards, history>>

\* set_channel_members: the whole list, if the channel and all of them are there.
Write(p) ==
    LET j == job[p]  works == j.channel \in channels /\ j.for \subseteq Team(j.team)
        mine == [team |-> j.team, slug |-> Head(j.to), who |-> j.who, n |-> j.n]
    IN  /\ at[p] = "write" /\ Same /\ Return(p)
        /\ members' = IF works THEN {x \in members : x[1] # j.channel} \cup ({j.channel} \X j.for)
                      ELSE members
        /\ joined' = IF works /\ j.who \in j.for THEN joined \cup {mine} ELSE joined
        /\ UNCHANGED <<guards, agents, channels, messages, made, passed, since, refused, raced, mixed>>

\* delete_channel, with its messages and members.
OtherMembers(c)  == {x \in members : x[1] # c}
Delete(p) ==
    LET c == job[p].channel
    IN  /\ at[p] = "delete" /\ Same /\ Return(p)
        /\ channels' = channels \ {c} /\ members' = OtherMembers(c)
        /\ messages' = {m \in messages : m.channel # c}
        /\ UNCHANGED <<agents, made, guards, history>>

-----------------------------------------------------------------------------
(* The person, and time                                                      *)

ResumeTeam(t) ==
    /\ t \in paused /\ Resume(t)
    /\ passed' = [n \in DOMAIN passed |->
            IF Home[passed[n].who] = t THEN [passed[n] EXCEPT !.counts = FALSE] ELSE passed[n]]
    /\ raced' = IF \E p \in Procs : at[p] = "blocked" /\ job[p].team = t
                THEN raced \cup {t} ELSE raced
    /\ UNCHANGED <<store, at, job, since, refused, joined, mixed>> /\ Same

SetLimits(c) == c # config /\ SetConfig(c) /\ UNCHANGED <<store, at, job, history>> /\ Same

DeleteAgent(a) ==
    /\ a \in agents /\ agents' = agents \ {a}
    /\ members' = {x \in members : x[2] # a}
    /\ joined' = {x \in joined : x.who # a}
    /\ messages' = {[m EXCEPT !.for = @ \ {a}, !.due = @ \ {a}] : m \in messages}
    /\ UNCHANGED <<channels, made, guards, at, job, passed, since, refused, raced, mixed>>
    /\ Same

Tick == now < MaxNow /\ now' = now + 1
        /\ UNCHANGED <<guards, store, at, job, calls, part, history>>

CallNext(p) ==
    \/ \E j \in Jobs[part] : Begin(p, j)
    \/ Admit(p) \/ Block(p) \/ Notice(p) \/ Route(p) \/ Find(p) \/ Create(p) \/ Refind(p)
    \/ Read(p) \/ InsertMessage(p) \/ Warn(p) \/ Write(p) \/ Delete(p)

Next ==
    \/ \E p \in Procs : CallNext(p)
    \/ part \in {"limits", "blocks"} /\ (Tick \/ \E t \in Teams : ResumeTeam(t))
    \/ part = "limits" /\ \E c \in Limits[part] : SetLimits(c)
    \/ part \in {"channels", "threads"} /\ \E a \in Agents : DeleteAgent(a)

Spec == Init /\ [][Next]_vars

-----------------------------------------------------------------------------
(* In no window of time do the guards let through more than the limits that  *)
(* were in force, though they forget what is old and limits change: of an    *)
(* agent, of a team since it was last resumed, and the same message again    *)
(* (docs/07, "Proteções contra laço infinito").                              *)
Window(n, length) == {k \in 1 .. n : passed[n].time - passed[k].time < length}
Mine(n)  == {k \in 1 .. n : passed[k].who = passed[n].who}
Ours(n)  == {k \in 1 .. n : Home[passed[k].who] = Home[passed[n].who] /\ passed[k].counts}
\* The messages that end with n and repeat it.
RepeatsOf(n) ==
    {k \in Mine(n) : \A l \in Mine(n) : l >= k =>
        /\ passed[l].key = passed[n].key
        /\ l > k => \E i \in Mine(n) : i < l /\ passed[l].time - passed[i].time < RepeatWindow}
LimitsHold ==
    \A n \in DOMAIN passed :
        /\ Cardinality(Mine(n) \cap Window(n, Minute)) <= passed[n].limits.rate
        /\ passed[n].counts => Cardinality(Ours(n) \cap Window(n, Hour)) <= passed[n].limits.budget
        /\ Cardinality(RepeatsOf(n)) <= passed[n].limits.identical

\* No block is silent (docs/07, "nunca silencioso"): once the calls are over, a
\* team that is paused and an agent that was refused have a notice of it that is
\* newer than the pause, or than the last message of the agent that passed.
Told(x, reason) == \E m \in messages : m.about = <<x, reason>> /\ m.id > since[x]
Telling(x) == \E p \in Procs : at[p] \in {"blocked", "notice"} /\ x \in {job[p].team, job[p].who}
PauseIsTold == \A t \in paused : Telling(t) \/ Told(t, "budget")
\* A resume between a block and its notice may make the next pause silent.
BlockIsTold ==
    /\ \A t \in paused \ raced : Telling(t) \/ Told(t, "budget")
    /\ \A a \in Agents : \A r \in refused[a] : Telling(a) \/ Told(a, r)

\* What the guards refuse they refuse in time, and they say so (guards.rs); the
\* slugs of a team stay unique among what passes them.
GuardsHold == TypeOK /\ LimitsHold /\ BlockIsTold

\* Who joined a channel before a message was sent to it, and stayed, gets the
\* message, whatever is sent, created, deleted or left meanwhile; only edits of
\* the members at the same time can lose somebody.
JoinsReach == \A m \in messages : m.due \subseteq m.for

\* The reply that makes a chain as long as the limit is stored, and its sender
\* is told once: no earlier and no later reply of it is.
LongThreadsWarn ==
    \A a \in agents :
        (\A p \in Procs : at[p] = "warn" => job[p].who # a) =>
            Cardinality({m \in messages : m.about = <<a, "depth">>}) =
            Cardinality({m \in messages : m.from = a /\ Above(m.id) = config.depth})

\* A message reaches those it is for, and a thread that grows too long the one
\* who makes it so (service.rs:315, service.rs:645).
MessagesReach == JoinsReach /\ LongThreadsWarn
=============================================================================
