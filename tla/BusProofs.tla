------------------------------ MODULE BusProofs ------------------------------
(* Proofs about the bus: in no window do its guards let through more than the *)
(* limits in force, what they refuse is told, and a message to a channel is   *)
(* for all who had joined it.                                                 *)
EXTENDS Bus, SiftProofs, FiniteSetTheorems, TLAPS
------------------------------------------------------------------------------
Reasons     == {"rate", "repeated", "budget"}
Keys        == Addresses \X Bodies
ChannelRows == [n : Nat \ {0}, team : Teams, slug : Addresses]
Joins       == [team : Teams, slug : Addresses, who : Agents \cup {"human"}, n : Nat \ {0}]
Subjects    == (Agents \cup Teams) \X (Reasons \cup {"depth"})
\* The depth of a call is what ReplyDepth returns, whatever it is.
JobRows(depth) ==
    [op : {"send"} \cup Edits, who : Agents \cup {"human"}, team : Teams, to : Seq(Addresses),
     body : Bodies, for : SUBSET (Agents \cup {"human"}), parent : Nat, n : Nat \ {0},
     channel : ChannelRows \cup {NoChannel}, depth : {depth}, reason : Reasons \cup {None},
     expected : SUBSET Joins]
MessageRows ==
    [id : Nat, team : Teams, from : Agents \cup {"human", "system"}, channel : ChannelRows \cup {NoChannel},
     for : SUBSET Agents, reply : Nat, about : Subjects \cup {None}, due : SUBSET (Agents \cup {"human"})]
PassRows == [who : Agents, key : Keys, time : Nat, limits : Configs, counts : BOOLEAN]

GuardTypes ==
    /\ now \in 0 .. MaxNow /\ config \in Configs /\ part \in Parts /\ calls \in Nat
    /\ paused \subseteq Teams /\ announced_pause \subseteq Teams
    /\ announced \in [Agents -> {None, "rate", "repeated"}]
    /\ per_agent \in [Agents -> Seq(Nat)] /\ per_team \in [Teams -> Seq(Nat)]
    /\ repeats \in [Agents -> [key : Keys \cup {None}, n : Nat, last : Nat]]
    /\ passed \in Seq(PassRows) /\ refused \in [Agents -> SUBSET {"rate", "repeated"}]
StoreTypes ==
    /\ agents \subseteq Agents /\ channels \subseteq ChannelRows /\ members \subseteq channels \X agents
    /\ \A c, d \in channels : c.team = d.team /\ c.slug = d.slug => c = d
    /\ made \in Nat /\ messages \subseteq MessageRows
    /\ \A m \in messages : m.id \in 1 .. made /\ m.channel \in channels \cup {NoChannel}
    /\ since \in [Agents \cup Teams -> 0 .. made] /\ joined \subseteq Joins
JobOK(step, j) ==
    /\ j \in JobRows(j.depth) /\ j.to # <<>>
    /\ j.who \in Agents => j.team = Home[j.who]
    /\ step \in {"admit", "blocked", "notice", "warn"} => j.who \in Agents
    /\ step \in {"blocked", "notice"} => j.reason \in Reasons
    /\ step = "delete" => j.channel # NoChannel
JobTypes ==
    /\ at \in [Procs -> Steps] /\ job = [p \in Procs |-> job[p]]
    /\ \A p \in Procs : IF at[p] = "idle" THEN job[p] = NoJob ELSE JobOK(at[p], job[p])

\* Each message that a window still counts has a place of its own in the log.
Follows(S, times, log) ==
    \E f \in [S -> DOMAIN log] :
        /\ \A k \in S : log[f[k]] = times[k]
        /\ \A k, l \in S : f[k] = f[l] => k = l
Times == [k \in DOMAIN passed |-> passed[k].time]
FreshOf(a) == {k \in DOMAIN passed : passed[k].who = a /\ now - passed[k].time < Minute}
FreshIn(t) == {k \in DOMAIN passed : Home[passed[k].who] = t /\ passed[k].counts
                                      /\ now - passed[k].time < Hour}
LogsFollow ==
    /\ \A a \in Agents : Follows(FreshOf(a), Times, per_agent[a])
    /\ \A t \in Teams : Follows(FreshIn(t), Times, per_team[t])
InOrderOfTime ==
    /\ \A k \in DOMAIN passed : passed[k].time <= now
    /\ \A k, l \in DOMAIN passed : k <= l => passed[k].time <= passed[l].time
\* Of each agent: its last message, and how often it has been repeated.
LastOf(a, p) == p \in DOMAIN passed /\ passed[p].who = a
                /\ \A k \in DOMAIN passed : passed[k].who = a => k <= p
RepeatsAreCounted ==
    \A a \in Agents : \A p \in DOMAIN passed : LastOf(a, p) =>
        /\ repeats[a].key = passed[p].key /\ repeats[a].last = passed[p].time
        /\ Cardinality(RepeatsOf(p)) <= repeats[a].n
LimitsInv == LogsFollow /\ InOrderOfTime /\ RepeatsAreCounted /\ LimitsHold

\* A block is on its way to its notice, or there is one that no channel takes
\* away with it.
On(p, step, who, reason) == at[p] = step /\ job[p].who = who /\ job[p].reason = reason
OfTeam(p, step, t) == at[p] = step /\ job[p].team = t /\ job[p].reason = "budget"
Noted(x, reason) ==
    \E m \in messages : m.about = <<x, reason>> /\ m.id > since[x] /\ m.channel = NoChannel
NoticeOf(a, r) == (\E p \in Procs : On(p, "notice", a, r)) \/ Noted(a, r)
PauseNotice(t) == (\E p \in Procs : OfTeam(p, "notice", t)) \/ Noted(t, "budget")
RefusalsAreTold ==
    \A a \in Agents :
        /\ announced[a] \in {"rate", "repeated"} => NoticeOf(a, announced[a])
        /\ \A r \in refused[a] : NoticeOf(a, r) \/ \E p \in Procs : On(p, "blocked", a, r)
PausesAreTold ==
    \A t \in Teams \ raced :
        /\ t \in announced_pause => t \in paused /\ PauseNotice(t)
        /\ \A p \in Procs : OfTeam(p, "blocked", t) => t \in paused
        /\ t \in paused => t \in announced_pause \/ \E p \in Procs : OfTeam(p, "blocked", t)
ToldInv == RefusalsAreTold /\ PausesAreTold
BusInv == GuardTypes /\ StoreTypes /\ JobTypes /\ LimitsInv /\ ToldInv

------------------------------------------------------------------------------
(* Logs: each counted message has a place of its own in the log of the guards.  *)

LEMMA FewerFollow ==
    ASSUME NEW S, NEW R \in SUBSET S, NEW times, NEW times2, NEW log, Follows(S, times, log),
           \A k \in R : times2[k] = times[k]
    PROVE  Follows(R, times2, log)
<1>1. PICK f \in [S -> DOMAIN log] : /\ \A k \in S : log[f[k]] = times[k]
                                     /\ \A k, l \in S : f[k] = f[l] => k = l
  BY DEF Follows
<1> DEFINE g == [k \in R |-> f[k]]
<1>2. /\ g \in [R -> DOMAIN log] /\ \A k \in R : log[g[k]] = times2[k]
      /\ \A k, l \in R : g[k] = g[l] => k = l
  BY <1>1
<1> QED
  BY <1>2 DEF Follows

\* What `retain` forgets is what no window counts any more.
LEMMA SiftedIsFollowed ==
    ASSUME NEW S, NEW times, NEW log \in Seq(Nat), NEW T, Follows(S, times, log),
           \A k \in S : times[k] \in T
    PROVE  Follows(S, times, Sifted(log, T))
<1>1. PICK f \in [S -> DOMAIN log] : /\ \A k \in S : log[f[k]] = times[k]
                                     /\ \A k, l \in S : f[k] = f[l] => k = l
  BY DEF Follows
<1>2. PICK h \in [{i \in DOMAIN log : log[i] \in T} -> DOMAIN Sifted(log, T)] :
          /\ \A i \in DOMAIN log : log[i] \in T => Sifted(log, T)[h[i]] = log[i]
          /\ \A i, j \in DOMAIN log : log[i] \in T /\ log[j] \in T /\ h[i] = h[j] => i = j
  BY SiftedHasPlaces
<1> DEFINE g == [k \in S |-> h[f[k]]]
<1>3. \A k \in S : f[k] \in DOMAIN log /\ log[f[k]] \in T /\ g[k] = h[f[k]]
  BY <1>1
<1>4. g \in [S -> DOMAIN Sifted(log, T)]
  BY <1>2, <1>3
<1> HIDE DEF g
<1>5. \A k \in S : Sifted(log, T)[g[k]] = times[k]
  BY <1>1, <1>2, <1>3
<1>6. \A k, l \in S : g[k] = g[l] => k = l
  BY <1>1, <1>2, <1>3
<1> QED
  BY <1>4, <1>5, <1>6 DEF Follows

LEMMA OneMoreFollows ==
    ASSUME NEW S, NEW n, n \notin S, NEW times, NEW times2, NEW log \in Seq(Nat), NEW t \in Nat,
           Follows(S, times, log), \A k \in S : times2[k] = times[k], times2[n] = t
    PROVE  Follows(S \cup {n}, times2, Append(log, t))
<1>1. PICK f \in [S -> DOMAIN log] : /\ \A k \in S : log[f[k]] = times[k]
                                     /\ \A k, l \in S : f[k] = f[l] => k = l
  BY DEF Follows
<1> DEFINE g == [k \in S \cup {n} |-> IF k = n THEN Len(log) + 1 ELSE f[k]]
           longer == Append(log, t)
<1>2. /\ Len(log) \in Nat /\ DOMAIN log = 1 .. Len(log) /\ DOMAIN longer = 1 .. (Len(log) + 1)
      /\ longer[Len(log) + 1] = t /\ \A i \in DOMAIN log : longer[i] = log[i] /\ i # Len(log) + 1
  OBVIOUS
<1>3. \A k \in S : k # n /\ g[k] = f[k] /\ f[k] \in DOMAIN log
  BY <1>1
<1>4. g[n] = Len(log) + 1
  OBVIOUS
<1>5. g \in [S \cup {n} -> DOMAIN longer]
  BY <1>2, <1>3
<1> HIDE DEF g, longer
<1>6. \A k \in S \cup {n} : longer[g[k]] = times2[k]
  BY <1>1, <1>2, <1>3, <1>4
<1>7. \A k, l \in S \cup {n} : g[k] = g[l] => k = l
  BY <1>1, <1>2, <1>3, <1>4
<1> QED
  BY <1>5, <1>6, <1>7 DEF Follows, longer

LEMMA LogsBound ==
    ASSUME NEW S, NEW times, NEW log \in Seq(Nat), Follows(S, times, log)
    PROVE  IsFiniteSet(S) /\ Cardinality(S) \in Nat /\ Cardinality(S) =< Len(log)
<1>1. PICK f \in [S -> DOMAIN log] : \A k, l \in S : f[k] = f[l] => k = l
  BY DEF Follows
<1>2. Len(log) \in Nat /\ DOMAIN log = 1 .. Len(log)
  OBVIOUS
<1>3. f \in Injection(S, DOMAIN log)
  BY <1>1 DEF Injection, IsInjective
<1>4. IsFiniteSet(DOMAIN log) /\ Cardinality(DOMAIN log) = Len(log)
  <2>1. /\ IsFiniteSet(1 .. Len(log))
        /\ Cardinality(1 .. Len(log)) = IF 1 > Len(log) THEN 0 ELSE Len(log) - 1 + 1
    BY <1>2, FS_Interval
  <2>2. (IF 1 > Len(log) THEN 0 ELSE Len(log) - 1 + 1) = Len(log)
    BY <1>2
  <2> QED
    BY <1>2, <2>1, <2>2
<1> QED
  BY <1>3, <1>4, FS_Injection, FS_CardinalityType

\* A set within another and one more element has one more at most.
LEMMA OneMoreAtMost ==
    ASSUME NEW S, IsFiniteSet(S), NEW x, NEW R \in SUBSET (S \cup {x})
    PROVE  IsFiniteSet(R) /\ Cardinality(R) \in Nat /\ Cardinality(R) =< Cardinality(S) + 1
<1>1. /\ IsFiniteSet(S \cup {x}) /\ Cardinality(S) \in Nat
      /\ Cardinality(S \cup {x}) =< Cardinality(S) + 1
  <2>1. Cardinality(S) \in Nat
    BY FS_CardinalityType
  <2>2. /\ IsFiniteSet(S \cup {x})
        /\ Cardinality(S \cup {x}) = IF x \in S THEN Cardinality(S) ELSE Cardinality(S) + 1
    BY FS_AddElement, Zenon
  <2> QED
    BY <2>1, <2>2
<1>2. /\ IsFiniteSet(R) /\ Cardinality(R) =< Cardinality(S \cup {x})
      /\ Cardinality(R) \in Nat /\ Cardinality(S \cup {x}) \in Nat
  BY <1>1, FS_Subset, FS_CardinalityType
<1> QED
  BY <1>1, <1>2
------------------------------------------------------------------------------
(* A message that passes.                                                       *)

Row(a, key) == [who |-> a, key |-> key, time |-> now, limits |-> config, counts |-> TRUE]
\* It becomes the n-th that passed.
Passes(n, a, key) ==
    /\ n = Len(passed) + 1 /\ passed' = Append(passed, Row(a, key))
    /\ Verdict(a, key) = "pass" /\ Count(a, key) /\ UNCHANGED now

LEMMA PassedGrows ==
    ASSUME GuardTypes, NEW n, NEW a \in Agents, NEW key \in Keys, Passes(n, a, key)
    PROVE  /\ DOMAIN passed = 1 .. (n - 1) /\ n \in Nat \ {0}
           /\ passed' \in Seq(PassRows) /\ DOMAIN passed' = 1 .. n
           /\ \A k \in DOMAIN passed' : k \in DOMAIN passed \/ k = n
           /\ \A k \in DOMAIN passed : passed'[k] = passed[k] /\ k < n /\ k \in DOMAIN passed'
           /\ n \in DOMAIN passed' /\ n \notin DOMAIN passed
           /\ passed'[n] = Row(a, key) /\ Row(a, key) \in PassRows
           /\ \A k \in DOMAIN passed : passed[k] \in PassRows
<1>1. Row(a, key) \in PassRows
  BY DEF Row, PassRows, GuardTypes
<1>2. passed \in Seq(PassRows) /\ passed' = Append(passed, Row(a, key)) /\ n = Len(passed) + 1
  BY DEF GuardTypes, Passes
<1> HIDE DEF Row
<1>3. /\ DOMAIN passed = 1 .. (n - 1) /\ n \in Nat \ {0}
      /\ passed' \in Seq(PassRows) /\ DOMAIN passed' = 1 .. n
      /\ \A k \in DOMAIN passed : passed'[k] = passed[k]
      /\ passed'[n] = Row(a, key)
      /\ \A k \in DOMAIN passed : passed[k] \in PassRows
  BY <1>1, <1>2
<1> QED
  BY <1>1, <1>3

\* What is said of an earlier message looks at none that came after it.
LEMMA EarlierStay ==
    ASSUME GuardTypes, NEW n, NEW a \in Agents, NEW key \in Keys, Passes(n, a, key),
           NEW k \in DOMAIN passed
    PROVE  /\ Mine(k)' = Mine(k) /\ RepeatsOf(k)' = RepeatsOf(k) /\ Ours(k)' = Ours(k)
           /\ \A length : Window(k, length)' = Window(k, length)
<1>1. /\ \A l \in 1 .. k : l \in DOMAIN passed /\ passed'[l] = passed[l]
      /\ k \in 1 .. k
  <2>1. k \in Nat /\ 1 =< k /\ \A l \in 1 .. k : l \in DOMAIN passed
    BY PassedGrows
  <2>2. \A l \in DOMAIN passed : passed'[l] = passed[l]
    BY PassedGrows
  <2> QED
    BY <2>1, <2>2
<1>2. Mine(k)' = Mine(k) /\ Ours(k)' = Ours(k)
  BY <1>1 DEF Mine, Ours
<1>3. \A length : Window(k, length)' = Window(k, length)
  BY <1>1 DEF Window
<1>4. \A l \in Mine(k) : l \in 1 .. k
  BY DEF Mine
<1>5. RepeatsOf(k)' = RepeatsOf(k)
  <2>1. passed'[k] = passed[k] /\ \A l \in Mine(k) : passed'[l] = passed[l]
    BY <1>1, <1>4
  <2> QED
    BY <1>2, <2>1 DEF RepeatsOf
<1> QED
  BY <1>2, <1>3, <1>5

\* What the newest one adds to the windows.
LEMMA NewestIsOneMore ==
    ASSUME GuardTypes, NEW n, NEW a \in Agents, NEW key \in Keys, Passes(n, a, key)
    PROVE  /\ Mine(n)' \cap Window(n, Minute)' \subseteq FreshOf(a) \cup {n}
           /\ Ours(n)' \cap Window(n, Hour)' \subseteq FreshIn(Home[a]) \cup {n}
<1>1. /\ \A k \in 1 .. n : k \in DOMAIN passed \/ k = n
      /\ \A k \in DOMAIN passed : passed'[k] = passed[k]
      /\ passed'[n].who = a /\ passed'[n].time = now
  <2>1. /\ \A k \in 1 .. n : k \in DOMAIN passed \/ k = n
        /\ passed'[n] = Row(a, key)
    BY PassedGrows
  <2>2. \A k \in DOMAIN passed : passed'[k] = passed[k]
    BY PassedGrows
  <2> QED
    BY <2>1, <2>2 DEF Row
<1>2. ASSUME NEW k \in 1 .. n, k # n, k \in Mine(n)', k \in Window(n, Minute)'
      PROVE  k \in FreshOf(a)
  BY <1>1, <1>2 DEF Mine, Window, FreshOf
<1>3. ASSUME NEW k \in 1 .. n, k # n, k \in Ours(n)', k \in Window(n, Hour)'
      PROVE  k \in FreshIn(Home[a])
  BY <1>1, <1>3 DEF Ours, Window, FreshIn
<1>4. \A k \in Mine(n)' : k \in 1 .. n
  BY DEF Mine
<1>5. \A k \in Ours(n)' : k \in 1 .. n
  BY DEF Ours
<1> QED
  BY <1>2, <1>3, <1>4, <1>5

\* A log without what its window has left behind still follows the messages.
LEMMA LogsAreFollowed ==
    ASSUME GuardTypes, LogsFollow, NEW a \in Agents, NEW t \in Teams
    PROVE  /\ Follows(FreshOf(a), Times, Within(per_agent[a], Minute))
           /\ Follows(FreshIn(t), Times, Within(per_team[t], Hour))
           /\ Within(per_agent[a], Minute) \in Seq(Nat) /\ Within(per_team[t], Hour) \in Seq(Nat)
           /\ Len(Within(per_agent[a], Minute)) \in Nat /\ Len(Within(per_team[t], Hour)) \in Nat
<1>1. per_agent[a] \in Seq(Nat) /\ per_team[t] \in Seq(Nat)
  BY DEF GuardTypes
<1>2. \A k \in DOMAIN passed : passed[k].time \in Nat
  <2>1. \A k \in DOMAIN passed : passed[k] \in PassRows
    BY DEF GuardTypes
  <2> QED
    BY <2>1 DEF PassRows
<1>3. \A k \in FreshOf(a) : Times[k] \in {x \in Nat : now - x < Minute}
  BY <1>2 DEF FreshOf, Times
<1>4. \A k \in FreshIn(t) : Times[k] \in {x \in Nat : now - x < Hour}
  BY <1>2 DEF FreshIn, Times
<1>5. Follows(FreshOf(a), Times, per_agent[a]) /\ Follows(FreshIn(t), Times, per_team[t])
  BY DEF LogsFollow
<1>6. Follows(FreshOf(a), Times, Sifted(per_agent[a], {x \in Nat : now - x < Minute}))
  BY <1>1, <1>3, <1>5, SiftedIsFollowed
<1>7. Follows(FreshIn(t), Times, Sifted(per_team[t], {x \in Nat : now - x < Hour}))
  BY <1>1, <1>4, <1>5, SiftedIsFollowed
<1>8. /\ Sifted(per_agent[a], {x \in Nat : now - x < Minute}) \in Seq(Nat)
      /\ Sifted(per_team[t], {x \in Nat : now - x < Hour}) \in Seq(Nat)
  BY <1>1, SiftedIsThinned
<1> QED
  BY <1>6, <1>7, <1>8 DEF Within

\* No more than the limits: the message itself is the last that they allow.
LEMMA NewestIsWithinLimits ==
    ASSUME GuardTypes, LogsFollow, NEW n, NEW a \in Agents, NEW key \in Keys, Passes(n, a, key)
    PROVE  /\ Cardinality(Mine(n)' \cap Window(n, Minute)') =< config.rate
           /\ Cardinality(Ours(n)' \cap Window(n, Hour)') =< config.budget
<1> DEFINE minute == Within(per_agent[a], Minute)  hour == Within(per_team[Home[a]], Hour)
<1>0. Home[a] \in Teams
  BY GuardsAssumption
<1>1. /\ Follows(FreshOf(a), Times, minute) /\ minute \in Seq(Nat) /\ Len(minute) \in Nat
      /\ Follows(FreshIn(Home[a]), Times, hour) /\ hour \in Seq(Nat) /\ Len(hour) \in Nat
  BY <1>0, LogsAreFollowed
<1>2. config.rate \in Nat /\ config.budget \in Nat
  BY GuardsAssumption DEF GuardTypes
<1>3. ~ (Len(minute) >= config.rate) /\ ~ (Len(hour) >= config.budget)
  BY DEF Passes, Verdict
<1> HIDE DEF minute, hour
<1>4. /\ IsFiniteSet(FreshOf(a)) /\ Cardinality(FreshOf(a)) \in Nat
      /\ Cardinality(FreshOf(a)) =< Len(minute)
  BY <1>1, LogsBound
<1>5. /\ IsFiniteSet(FreshIn(Home[a])) /\ Cardinality(FreshIn(Home[a])) \in Nat
      /\ Cardinality(FreshIn(Home[a])) =< Len(hour)
  BY <1>1, LogsBound
<1>6. /\ Cardinality(Mine(n)' \cap Window(n, Minute)') \in Nat
      /\ Cardinality(Mine(n)' \cap Window(n, Minute)') =< Cardinality(FreshOf(a)) + 1
  <2>1. Mine(n)' \cap Window(n, Minute)' \in SUBSET (FreshOf(a) \cup {n})
    BY NewestIsOneMore
  <2> QED
    BY <1>4, <2>1, OneMoreAtMost
<1>7. /\ Cardinality(Ours(n)' \cap Window(n, Hour)') \in Nat
      /\ Cardinality(Ours(n)' \cap Window(n, Hour)') =< Cardinality(FreshIn(Home[a])) + 1
  <2>1. Ours(n)' \cap Window(n, Hour)' \in SUBSET (FreshIn(Home[a]) \cup {n})
    BY NewestIsOneMore
  <2> QED
    BY <1>5, <2>1, OneMoreAtMost
<1> QED
  BY <1>1, <1>2, <1>3, <1>4, <1>5, <1>6, <1>7

LEMMA GreatestOne ==
    ASSUME NEW m \in Nat, NEW U \in SUBSET (1 .. m), U # {}
    PROVE  \E x \in U : \A y \in U : y =< x
<1> DEFINE V == {m - x : x \in U}
<1>1. V \in SUBSET Nat /\ V # {}
  <2>1. \A x \in U : x \in Nat /\ m - x \in Nat
    OBVIOUS
  <2>2. PICK x : x \in U
    OBVIOUS
  <2> QED
    BY <2>1, <2>2
<1>2. PICK v \in V : \A w \in V : v =< w
  BY <1>1, LeastOne
<1>3. PICK x \in U : v = m - x
  BY <1>2
<1>4. \A y \in U : m - x =< m - y
  BY <1>2, <1>3
<1>5. \A y \in U : x \in 1 .. m /\ y \in 1 .. m
  BY <1>3
<1> QED
  BY <1>4, <1>5

\* A message that repeats the last of its agent ends a run one longer than that
\* one's; any other ends a run of its own.
LEMMA NewestRepeats ==
    ASSUME GuardTypes, InOrderOfTime, RepeatsAreCounted,
           NEW n, NEW a \in Agents, NEW key \in Keys, Passes(n, a, key)
    PROVE  /\ Cardinality(RepeatsOf(n)') \in Nat /\ Repeated(a, key) \in Nat
           /\ Cardinality(RepeatsOf(n)') =< Repeated(a, key) + 1
<1>1. /\ \A k \in 1 .. n : k \in DOMAIN passed \/ k = n
      /\ n \in Nat /\ DOMAIN passed = 1 .. (n - 1)
      /\ passed'[n].who = a /\ passed'[n].time = now /\ passed'[n].key = key
  <2>1. /\ \A k \in 1 .. n : k \in DOMAIN passed \/ k = n
        /\ n \in Nat /\ DOMAIN passed = 1 .. (n - 1)
        /\ passed'[n] = Row(a, key)
    BY PassedGrows
  <2> QED
    BY <2>1 DEF Row
<1>2. \A k \in DOMAIN passed : passed'[k] = passed[k] /\ k < n /\ k \in Nat /\ k \in 1 .. n
  <2>1. \A k \in DOMAIN passed : passed'[k] = passed[k]
    BY PassedGrows
  <2> QED
    BY <1>1, <2>1
<1> DEFINE Before == {k \in DOMAIN passed : passed[k].who = a}
<1>3. \A k : k \in Mine(n)' <=> k = n \/ k \in Before
  <2>1. n \in Nat /\ n # 0
    BY PassedGrows
  <2>2. n \in 1 .. n
    BY <2>1
  <2>3. Mine(n)' = {k \in 1 .. n : passed'[k].who = a}
    BY <1>1 DEF Mine
  <2> QED
    BY <1>1, <1>2, <2>2, <2>3
<1>4. Repeated(a, key) \in Nat
  BY DEF Repeated, GuardTypes
<1>5. \A k \in RepeatsOf(n)' : k \in Mine(n)'
  BY DEF RepeatsOf
<1>6. CASE Before = {}
  <2>1. RepeatsOf(n)' \in SUBSET ({} \cup {n})
    BY <1>3, <1>5, <1>6
  <2>2. IsFiniteSet({}) /\ Cardinality({}) = 0
    BY FS_EmptySet
  <2>3. Cardinality(RepeatsOf(n)') \in Nat /\ Cardinality(RepeatsOf(n)') =< 0 + 1
    BY <2>1, <2>2, OneMoreAtMost
  <2> QED
    BY <1>4, <2>3
<1>7. CASE Before # {}
  <2>1. PICK p \in Before : \A k \in Before : k =< p
    <3>1. Before \in SUBSET (1 .. (n - 1)) /\ n - 1 \in Nat
      <4>1. n \in Nat \ {0}
        BY PassedGrows
      <4> QED
        BY <1>1, <4>1
    <3> QED
      BY <1>7, <3>1, GreatestOne
  <2>2. LastOf(a, p) /\ p \in DOMAIN passed /\ passed[p].who = a
    BY <2>1 DEF LastOf
  <2>3. /\ repeats[a].key = passed[p].key /\ repeats[a].last = passed[p].time
        /\ Cardinality(RepeatsOf(p)) =< repeats[a].n
    BY <2>2 DEF RepeatsAreCounted
  <2>4. \A k : k \in Mine(p) <=> k \in Before
    <3>1. \A k \in Before : k \in 1 .. p
      BY <1>1, <2>1
    <3>2. \A k \in 1 .. p : k \in DOMAIN passed
      BY <1>1, <2>2
    <3> QED
      BY <2>2, <3>1, <3>2 DEF Mine
  <2>5. /\ now \in Nat /\ RepeatWindow \in Nat
        /\ \A k \in Before : passed[k].time \in Nat /\ passed[k].time =< passed[p].time
    <3>1. \A k \in DOMAIN passed : passed[k] \in PassRows
      BY DEF GuardTypes
    <3>2. \A k \in Before : passed[k].time =< passed[p].time
      BY <2>1, <2>2 DEF InOrderOfTime
    <3>3. now \in Nat /\ RepeatWindow \in Nat
      BY GuardsAssumption DEF GuardTypes
    <3>4. \A k \in Before : passed[k].time \in Nat
      BY <3>1 DEF PassRows
    <3> QED
      BY <3>2, <3>3, <3>4
  <2>6. ASSUME NEW k \in RepeatsOf(n)', k # n
        PROVE  /\ key = passed[p].key /\ now - passed[p].time < RepeatWindow
               /\ k \in RepeatsOf(p)
    <3>1. k \in Before /\ k =< p /\ k < n /\ k \in Nat /\ n \in Nat
      BY <1>1, <1>2, <1>3, <1>5, <2>1, <2>6
    <3>2. \A l \in Mine(n)' : l >= k =>
            /\ passed'[l].key = key
            /\ l > k => \E i \in Mine(n)' : i < l /\ passed'[l].time - passed'[i].time < RepeatWindow
      BY <1>1 DEF RepeatsOf
    <3> HIDE DEF Before
    <3>3. key = passed[p].key
      BY <1>2, <1>3, <2>1, <2>2, <3>1, <3>2
    <3>4. now - passed[p].time < RepeatWindow
      <4>1. PICK i \in Mine(n)' : i < n /\ passed'[n].time - passed'[i].time < RepeatWindow
        BY <1>1, <1>3, <3>1, <3>2
      <4>2. i \in Before /\ passed'[i] = passed[i]
        BY <1>1, <1>2, <1>3, <4>1 DEF Before
      <4> QED
        BY <1>1, <2>1, <2>5, <4>1, <4>2
    <3>5. ASSUME NEW l \in Mine(p), l >= k
          PROVE  /\ passed[l].key = passed[p].key
                 /\ l > k => \E i \in Mine(p) : i < l /\ passed[l].time - passed[i].time < RepeatWindow
      <4>1. l \in Before /\ l \in Mine(n)' /\ passed'[l] = passed[l] /\ l < n
        BY <1>2, <1>3, <2>4 DEF Before
      <4>2. passed[l].key = passed[p].key
        BY <3>2, <3>3, <3>5, <4>1
      <4>3. ASSUME l > k
            PROVE  \E i \in Mine(p) : i < l /\ passed[l].time - passed[i].time < RepeatWindow
        <5>1. PICK i \in Mine(n)' : i < l /\ passed'[l].time - passed'[i].time < RepeatWindow
          BY <3>2, <3>5, <4>1, <4>3
        <5>2. i \in Before
          <6>1. l \in Nat
            BY <1>2, <4>1 DEF Before
          <6>2. i # n
            BY <1>1, <4>1, <5>1, <6>1
          <6> QED
            BY <1>3, <5>1, <6>2
        <5> QED
          BY <1>2, <2>4, <4>1, <5>1, <5>2 DEF Before
      <4> QED
        BY <4>2, <4>3
    <3>6. k \in RepeatsOf(p)
      BY <2>4, <3>1, <3>5 DEF RepeatsOf
    <3> QED
      BY <3>3, <3>4, <3>6
  <2>7. IsFiniteSet(RepeatsOf(p)) /\ Cardinality(RepeatsOf(p)) \in Nat
    <3>1. RepeatsOf(p) \in SUBSET (1 .. p) /\ p \in Nat
      BY <1>2, <2>2 DEF RepeatsOf, Mine
    <3>2. IsFiniteSet(1 .. p)
      BY <3>1, FS_Interval
    <3> QED
      BY <3>1, <3>2, FS_Subset, FS_CardinalityType
  <2>8. CASE key = passed[p].key /\ now - passed[p].time < RepeatWindow
    <3>1. RepeatsOf(n)' \in SUBSET (RepeatsOf(p) \cup {n})
      BY <2>6
    <3>2. /\ Cardinality(RepeatsOf(n)') \in Nat
          /\ Cardinality(RepeatsOf(n)') =< Cardinality(RepeatsOf(p)) + 1
      BY <2>7, <3>1, OneMoreAtMost
    <3>3. Repeated(a, key) = repeats[a].n
      BY <2>3, <2>8 DEF Repeated
    <3> QED
      BY <1>4, <2>3, <2>7, <3>2, <3>3
  <2>9. CASE ~ (key = passed[p].key /\ now - passed[p].time < RepeatWindow)
    <3>1. RepeatsOf(n)' \in SUBSET ({} \cup {n})
      BY <2>6, <2>9
    <3>2. IsFiniteSet({}) /\ Cardinality({}) = 0
      BY FS_EmptySet
    <3>3. Cardinality(RepeatsOf(n)') \in Nat /\ Cardinality(RepeatsOf(n)') =< 0 + 1
      BY <3>1, <3>2, OneMoreAtMost
    <3> QED
      BY <1>4, <3>3
  <2> QED
    BY <2>8, <2>9
<1> QED
  BY <1>6, <1>7

LEMMA PassKeepsLimits ==
    ASSUME GuardTypes, LimitsInv, NEW n, NEW a \in Agents, NEW key \in Keys, Passes(n, a, key)
    PROVE  LimitsInv'
<1>1. LogsFollow /\ InOrderOfTime /\ RepeatsAreCounted /\ LimitsHold
  BY DEF LimitsInv
<1>2. /\ \A k \in DOMAIN passed' : k \in DOMAIN passed \/ k = n
      /\ passed'[n] = Row(a, key) /\ n \notin DOMAIN passed /\ n \in Nat
      /\ \A k \in DOMAIN passed : passed[k] \in PassRows
  BY PassedGrows
<1>3. \A k \in DOMAIN passed : passed'[k] = passed[k] /\ k < n /\ k \in Nat /\ k \in DOMAIN passed'
  <2>1. /\ \A k \in DOMAIN passed : passed'[k] = passed[k] /\ k < n /\ k \in DOMAIN passed'
        /\ DOMAIN passed = 1 .. (n - 1) /\ n \in Nat
    BY PassedGrows
  <2> QED
    BY <2>1
<1>4. /\ passed'[n].who = a /\ passed'[n].key = key /\ passed'[n].time = now
      /\ passed'[n].limits = config /\ passed'[n].counts = TRUE /\ n \in DOMAIN passed'
  <2>1. n \in DOMAIN passed'
    BY PassedGrows
  <2> QED
    BY <1>2, <2>1 DEF Row
<1>5. /\ now' = now /\ now \in Nat /\ Home[a] \in Teams
      /\ per_agent' = [per_agent EXCEPT ![a] = Append(Within(per_agent[a], Minute), now)]
      /\ per_team' = [per_team EXCEPT ![Home[a]] = Append(Within(per_team[Home[a]], Hour), now)]
      /\ repeats' = [repeats EXCEPT ![a] = [key |-> key, n |-> Repeated(a, key) + 1, last |-> now]]
      /\ per_agent \in [Agents -> Seq(Nat)] /\ per_team \in [Teams -> Seq(Nat)]
      /\ DOMAIN repeats = Agents
  <2>1. now' = now /\ Count(a, key)
    BY DEF Passes
  <2>2. now \in Nat /\ Home[a] \in Teams
    BY GuardsAssumption DEF GuardTypes
  <2>3. /\ per_agent \in [Agents -> Seq(Nat)] /\ per_team \in [Teams -> Seq(Nat)]
        /\ DOMAIN repeats = Agents
    BY DEF GuardTypes
  <2> QED
    BY <2>1, <2>2, <2>3 DEF Count
<1>6. \A k \in DOMAIN passed : Times'[k] = Times[k]
  BY <1>3 DEF Times
<1>7. Times'[n] = now
  BY <1>4 DEF Times
<1>8. LogsFollow'
  <2>1. ASSUME NEW b \in Agents PROVE Follows(FreshOf(b), Times, per_agent[b])'
    <3>1. CASE b = a
      <4>1. /\ Follows(FreshOf(a), Times, Within(per_agent[a], Minute))
            /\ Within(per_agent[a], Minute) \in Seq(Nat)
        BY <1>1, <1>5, LogsAreFollowed
      <4>2. n \notin FreshOf(a) /\ \A k \in FreshOf(a) : Times'[k] = Times[k]
        BY <1>2, <1>6 DEF FreshOf
      <4> PICK log : log = Within(per_agent[a], Minute)
        OBVIOUS
      <4>3. Follows(FreshOf(a) \cup {n}, Times', Append(log, now))
        BY <1>5, <1>7, <4>1, <4>2, OneMoreFollows
      <4>4. FreshOf(a)' \in SUBSET (FreshOf(a) \cup {n})
        BY <1>2, <1>3, <1>5 DEF FreshOf
      <4>5. Follows(FreshOf(a)', Times', Append(log, now))
        BY <4>3, <4>4, FewerFollow
      <4> QED
        BY <1>5, <3>1, <4>5
    <3>2. CASE b # a
      <4>1. Follows(FreshOf(b), Times, per_agent[b]) /\ per_agent'[b] = per_agent[b]
        BY <1>1, <1>5, <3>2 DEF LogsFollow
      <4>2. FreshOf(b)' \in SUBSET FreshOf(b) /\ \A k \in FreshOf(b)' : Times'[k] = Times[k]
        BY <1>2, <1>3, <1>4, <1>5, <1>6, <3>2 DEF FreshOf
      <4>3. Follows(FreshOf(b)', Times', per_agent[b])
        BY <4>1, <4>2, FewerFollow
      <4> QED
        BY <4>1, <4>3
    <3> QED
      BY <3>1, <3>2
  <2>2. ASSUME NEW t \in Teams PROVE Follows(FreshIn(t), Times, per_team[t])'
    <3>1. CASE t = Home[a]
      <4>1. /\ Follows(FreshIn(t), Times, Within(per_team[t], Hour))
            /\ Within(per_team[t], Hour) \in Seq(Nat)
        BY <1>1, LogsAreFollowed
      <4>2. n \notin FreshIn(t) /\ \A k \in FreshIn(t) : Times'[k] = Times[k]
        BY <1>2, <1>6 DEF FreshIn
      <4> PICK log : log = Within(per_team[t], Hour)
        OBVIOUS
      <4>3. Follows(FreshIn(t) \cup {n}, Times', Append(log, now))
        BY <1>5, <1>7, <4>1, <4>2, OneMoreFollows
      <4>4. FreshIn(t)' \in SUBSET (FreshIn(t) \cup {n})
        BY <1>2, <1>3, <1>5 DEF FreshIn
      <4>5. Follows(FreshIn(t)', Times', Append(log, now))
        BY <4>3, <4>4, FewerFollow
      <4> QED
        BY <1>5, <3>1, <4>5
    <3>2. CASE t # Home[a]
      <4>1. Follows(FreshIn(t), Times, per_team[t]) /\ per_team'[t] = per_team[t]
        BY <1>1, <1>5, <3>2 DEF LogsFollow
      <4>2. FreshIn(t)' \in SUBSET FreshIn(t) /\ \A k \in FreshIn(t)' : Times'[k] = Times[k]
        BY <1>2, <1>3, <1>4, <1>5, <1>6, <3>2 DEF FreshIn
      <4>3. Follows(FreshIn(t)', Times', per_team[t])
        BY <4>1, <4>2, FewerFollow
      <4> QED
        BY <4>1, <4>3
    <3> QED
      BY <3>1, <3>2
  <2> QED
    BY <2>1, <2>2 DEF LogsFollow
<1>9. InOrderOfTime'
  <2>1. \A k \in DOMAIN passed' : passed'[k].time =< now
    <3>1. \A k \in DOMAIN passed : passed[k].time =< now
      BY <1>1 DEF InOrderOfTime
    <3>2. now =< now
      BY <1>5
    <3> QED
      BY <1>2, <1>3, <1>4, <3>1, <3>2
  <2>2. \A k, l \in DOMAIN passed' : k =< l => passed'[k].time =< passed'[l].time
    <3>1. \A k, l \in DOMAIN passed : k =< l => passed[k].time =< passed[l].time
      BY <1>1 DEF InOrderOfTime
    <3>2. \A k \in DOMAIN passed : ~ (n =< k)
      BY <1>2, <1>3
    <3>3. \A k \in DOMAIN passed' : passed'[k].time =< passed'[n].time
      BY <1>4, <2>1
    <3> QED
      BY <1>2, <1>3, <3>1, <3>2, <3>3
  <2> QED
    BY <1>5, <2>1, <2>2 DEF InOrderOfTime
<1>10. ASSUME NEW b \in Agents, NEW p \in DOMAIN passed', LastOf(b, p)'
       PROVE  /\ repeats'[b].key = passed'[p].key /\ repeats'[b].last = passed'[p].time
              /\ Cardinality(RepeatsOf(p)') =< repeats'[b].n
  <2>1. CASE b = a
    <3>1. p = n
      <4>1. \A k \in DOMAIN passed' : passed'[k].who = a => k =< p
        BY <1>10, <2>1 DEF LastOf
      <4>2. n =< p
        BY <1>4, <4>1
      <4> QED
        BY <1>2, <1>3, <4>2
    <3>2. repeats'[a] = [key |-> key, n |-> Repeated(a, key) + 1, last |-> now]
      BY <1>5
    <3> QED
      BY <1>1, <1>4, <2>1, <3>1, <3>2, NewestRepeats
  <2>2. CASE b # a
    <3>1. p # n /\ p \in DOMAIN passed /\ passed'[p] = passed[p]
      BY <1>2, <1>3, <1>4, <1>10, <2>2 DEF LastOf
    <3>2. LastOf(b, p)
      BY <1>3, <1>10, <3>1 DEF LastOf
    <3>3. repeats'[b] = repeats[b] /\ RepeatsOf(p)' = RepeatsOf(p)
      BY <1>5, <2>2, <3>1, EarlierStay
    <3> QED
      BY <1>1, <3>1, <3>2, <3>3 DEF RepeatsAreCounted
  <2> QED
    BY <2>1, <2>2
<1>11. ASSUME NEW k \in DOMAIN passed'
       PROVE  /\ Cardinality(Mine(k)' \cap Window(k, Minute)') =< passed'[k].limits.rate
              /\ passed'[k].counts =>
                    Cardinality(Ours(k)' \cap Window(k, Hour)') =< passed'[k].limits.budget
              /\ Cardinality(RepeatsOf(k)') =< passed'[k].limits.identical
  <2>1. CASE k = n
    <3>1. Cardinality(RepeatsOf(n)') =< config.identical
      <4>1. ~ (Repeated(a, key) >= config.identical) /\ config.identical \in Nat
        BY GuardsAssumption DEF Passes, Verdict, GuardTypes
      <4>2. /\ Cardinality(RepeatsOf(n)') \in Nat /\ Repeated(a, key) \in Nat
            /\ Cardinality(RepeatsOf(n)') =< Repeated(a, key) + 1
        BY <1>1, NewestRepeats
      <4> QED
        BY <4>1, <4>2
    <3> QED
      BY <1>1, <1>4, <2>1, <3>1, NewestIsWithinLimits
  <2>2. CASE k # n
    <3>1. k \in DOMAIN passed /\ passed'[k] = passed[k]
      BY <1>2, <1>3, <2>2
    <3>2. /\ Mine(k)' = Mine(k) /\ RepeatsOf(k)' = RepeatsOf(k) /\ Ours(k)' = Ours(k)
          /\ Window(k, Minute)' = Window(k, Minute) /\ Window(k, Hour)' = Window(k, Hour)
      BY <3>1, EarlierStay
    <3>3. /\ Cardinality(Mine(k) \cap Window(k, Minute)) =< passed[k].limits.rate
          /\ passed[k].counts =>
                Cardinality(Ours(k) \cap Window(k, Hour)) =< passed[k].limits.budget
          /\ Cardinality(RepeatsOf(k)) =< passed[k].limits.identical
      BY <1>1, <3>1 DEF LimitsHold
    <3> QED
      BY <3>1, <3>2, <3>3
  <2> QED
    BY <2>1, <2>2
<1>12. RepeatsAreCounted'
  BY <1>10 DEF RepeatsAreCounted
<1>13. LimitsHold'
  BY <1>11 DEF LimitsHold
<1> QED
  BY <1>8, <1>9, <1>12, <1>13 DEF LimitsInv

LEMMA HistoryStays ==
    ASSUME UNCHANGED passed
    PROVE  /\ LimitsHold => LimitsHold'
           /\ \A n : RepeatsOf(n)' = RepeatsOf(n)
           /\ \A a, p : LastOf(a, p)' <=> LastOf(a, p)
<1>1. \A n : Mine(n)' = Mine(n)
  BY DEF Mine
<1>2. \A n : Ours(n)' = Ours(n)
  BY DEF Ours
<1>3. \A n, length : Window(n, length)' = Window(n, length)
  BY DEF Window
<1>4. \A n : RepeatsOf(n)' = RepeatsOf(n)
  BY <1>1 DEF RepeatsOf
<1>5. \A a, p : LastOf(a, p)' <=> LastOf(a, p)
  BY DEF LastOf
<1>6. LimitsHold => LimitsHold'
  BY <1>1, <1>2, <1>3, <1>4 DEF LimitsHold
<1> QED
  BY <1>4, <1>5, <1>6

\* What is refused, time that goes by and a person who lets a team go on only
\* make logs and windows shorter.
LEMMA RefusalKeepsLimits ==
    ASSUME GuardTypes, LimitsInv, NEW a \in Agents, NEW key \in Keys,
           Refuse(a, key), UNCHANGED <<now, passed>>
    PROVE  LimitsInv'
<1>1. LogsFollow /\ InOrderOfTime /\ RepeatsAreCounted /\ LimitsHold
  BY DEF LimitsInv
<1>2. /\ now' = now /\ passed' = passed /\ repeats' = repeats
      /\ per_agent' = per_agent \/ per_agent' = [per_agent EXCEPT ![a] = Within(per_agent[a], Minute)]
      /\ per_team' = per_team \/ per_team' = [per_team EXCEPT ![Home[a]] = Within(per_team[Home[a]], Hour)]
  BY DEF Refuse
<1>3. per_agent \in [Agents -> Seq(Nat)] /\ per_team \in [Teams -> Seq(Nat)]
  BY DEF GuardTypes
<1>4. ASSUME NEW b \in Agents PROVE Follows(FreshOf(b), Times, per_agent'[b])
  <2>1. \/ per_agent'[b] = per_agent[b]
        \/ per_agent'[b] = Within(per_agent[b], Minute)
    BY <1>2, <1>3
  <2>2. Follows(FreshOf(b), Times, per_agent[b])
    BY <1>1 DEF LogsFollow
  <2>3. Follows(FreshOf(b), Times, Within(per_agent[b], Minute))
    <3>1. Home[b] \in Teams
      BY GuardsAssumption
    <3> QED
      BY <1>1, <3>1, LogsAreFollowed
  <2> QED
    BY <2>1, <2>2, <2>3
<1>5. ASSUME NEW t \in Teams PROVE Follows(FreshIn(t), Times, per_team'[t])
  <2>1. \/ per_team'[t] = per_team[t]
        \/ per_team'[t] = Within(per_team[t], Hour)
    BY <1>2, <1>3
  <2>2. Follows(FreshIn(t), Times, per_team[t])
    BY <1>1 DEF LogsFollow
  <2>3. Follows(FreshIn(t), Times, Within(per_team[t], Hour))
    BY <1>1, LogsAreFollowed
  <2> QED
    BY <2>1, <2>2, <2>3
<1>6. Times' = Times /\ \A b : FreshOf(b)' = FreshOf(b) /\ FreshIn(b)' = FreshIn(b)
  BY <1>2 DEF Times, FreshOf, FreshIn
<1>7. LogsFollow'
  BY <1>4, <1>5, <1>6 DEF LogsFollow
<1>8. InOrderOfTime' /\ LimitsHold'
  BY <1>1, <1>2, HistoryStays DEF InOrderOfTime
<1>9. RepeatsAreCounted'
  BY <1>1, <1>2, HistoryStays DEF RepeatsAreCounted
<1> QED
  BY <1>7, <1>8, <1>9 DEF LimitsInv

LEMMA TimeKeepsLimits ==
    ASSUME GuardTypes, LimitsInv, now' = now + 1,
           UNCHANGED <<passed, repeats, per_agent, per_team>>
    PROVE  LimitsInv'
<1>1. LogsFollow /\ InOrderOfTime /\ RepeatsAreCounted /\ LimitsHold
  BY DEF LimitsInv
<1>2. now \in Nat /\ \A k \in DOMAIN passed : passed[k].time \in Nat
  <2>1. \A k \in DOMAIN passed : passed[k] \in PassRows
    BY DEF GuardTypes
  <2> QED
    BY <2>1 DEF GuardTypes, PassRows
<1>3. Minute \in Nat /\ Hour \in Nat /\ Times' = Times
  BY GuardsAssumption DEF Times
<1>4. ASSUME NEW a \in Agents PROVE Follows(FreshOf(a), Times, per_agent[a])'
  <2>1. FreshOf(a)' \in SUBSET FreshOf(a)
    BY <1>2, <1>3 DEF FreshOf
  <2>2. Follows(FreshOf(a), Times, per_agent[a])
    BY <1>1 DEF LogsFollow
  <2>3. Follows(FreshOf(a)', Times, per_agent[a])
    BY <2>1, <2>2, FewerFollow
  <2> QED
    BY <1>3, <2>3
<1>5. ASSUME NEW t \in Teams PROVE Follows(FreshIn(t), Times, per_team[t])'
  <2>1. FreshIn(t)' \in SUBSET FreshIn(t)
    BY <1>2, <1>3 DEF FreshIn
  <2>2. Follows(FreshIn(t), Times, per_team[t])
    BY <1>1 DEF LogsFollow
  <2>3. Follows(FreshIn(t)', Times, per_team[t])
    BY <2>1, <2>2, FewerFollow
  <2> QED
    BY <1>3, <2>3
<1>6. LogsFollow'
  BY <1>4, <1>5 DEF LogsFollow
<1>7. InOrderOfTime'
  <2>1. \A k \in DOMAIN passed : passed[k].time =< now + 1
    BY <1>1, <1>2 DEF InOrderOfTime
  <2> QED
    BY <1>1, <2>1 DEF InOrderOfTime
<1>8. LimitsHold'
  BY <1>1, HistoryStays
<1>9. RepeatsAreCounted'
  BY <1>1, HistoryStays DEF RepeatsAreCounted
<1> QED
  BY <1>6, <1>7, <1>8, <1>9 DEF LimitsInv

LEMMA ResumeKeepsLimits ==
    ASSUME GuardTypes, LimitsInv, NEW t \in Teams, ResumeTeam(t)
    PROVE  LimitsInv' /\ passed' \in Seq(PassRows)
<1>1. LogsFollow /\ InOrderOfTime /\ RepeatsAreCounted /\ LimitsHold
  BY DEF LimitsInv
<1>2. /\ now' = now /\ repeats' = repeats /\ per_agent' = per_agent
      /\ per_team' = [per_team EXCEPT ![t] = <<>>]
      /\ passed' = [n \in DOMAIN passed |->
            IF Home[passed[n].who] = t THEN [passed[n] EXCEPT !.counts = FALSE] ELSE passed[n]]
  BY DEF ResumeTeam, Resume, Same
<1>3. /\ \A k \in DOMAIN passed : passed[k] \in PassRows
      /\ passed \in Seq(PassRows) /\ DOMAIN passed' = DOMAIN passed
      /\ per_team \in [Teams -> Seq(Nat)]
  BY <1>2 DEF GuardTypes
<1>4. \A k \in DOMAIN passed :
          /\ passed'[k].who = passed[k].who /\ passed'[k].key = passed[k].key
          /\ passed'[k].time = passed[k].time /\ passed'[k].limits = passed[k].limits
          /\ passed'[k].counts = (passed[k].counts /\ Home[passed[k].who] # t)
          /\ passed'[k] \in PassRows
  <2> TAKE k \in DOMAIN passed
  <2>1. passed'[k] = IF Home[passed[k].who] = t THEN [passed[k] EXCEPT !.counts = FALSE] ELSE passed[k]
    BY <1>2
  <2>2. passed[k] \in PassRows
    BY <1>3
  <2>3. CASE Home[passed[k].who] = t
    <3>1. passed'[k] = [passed[k] EXCEPT !.counts = FALSE]
      BY <2>1, <2>3
    <3>2. /\ passed'[k].who = passed[k].who /\ passed'[k].key = passed[k].key
          /\ passed'[k].time = passed[k].time /\ passed'[k].limits = passed[k].limits
          /\ passed'[k].counts = FALSE /\ passed'[k] \in PassRows
      BY <2>2, <3>1 DEF PassRows
    <3> QED
      BY <2>3, <3>2
  <2>4. CASE Home[passed[k].who] # t
    <3>1. passed'[k] = passed[k] /\ passed[k].counts \in BOOLEAN
      BY <2>1, <2>2, <2>4 DEF PassRows
    <3> QED
      BY <2>2, <2>4, <3>1
  <2> QED
    BY <2>3, <2>4
<1>5. passed' \in Seq(PassRows)
  <2>1. Len(passed) \in Nat /\ DOMAIN passed = 1 .. Len(passed)
    BY <1>3
  <2>2. passed' = [k \in 1 .. Len(passed) |-> passed'[k]]
    BY <1>2, <2>1
  <2> QED
    BY <1>4, <2>1, <2>2
<1>6. \A a \in Agents : FreshOf(a)' = FreshOf(a)
  BY <1>2, <1>3, <1>4 DEF FreshOf
<1>7. \A s \in Teams : FreshIn(s)' = IF s = t THEN {} ELSE FreshIn(s)
  <2> TAKE s \in Teams
  <2>1. CASE s = t
    BY <1>3, <1>4, <2>1 DEF FreshIn
  <2>2. CASE s # t
    <3>1. \A k \in DOMAIN passed : Home[passed[k].who] = s => passed'[k].counts = passed[k].counts
      BY <1>3, <1>4, <2>2 DEF PassRows
    <3> QED
      BY <1>2, <1>3, <1>4, <2>2, <3>1 DEF FreshIn
  <2> QED
    BY <2>1, <2>2
<1>8. Times' = Times
  BY <1>3, <1>4 DEF Times
<1>9. LogsFollow'
  <2>1. ASSUME NEW s \in Teams PROVE Follows(FreshIn(s)', Times', per_team'[s])
    <3>1. CASE s = t
      <4>1. per_team'[s] = <<>> /\ FreshIn(s)' = {}
        BY <1>2, <1>3, <1>7, <3>1
      <4> DEFINE f == [k \in {} |-> 0]
      <4>2. f \in [{} -> DOMAIN <<>>]
        OBVIOUS
      <4> HIDE DEF f
      <4>3. Follows({}, Times', <<>>)
        BY <4>2 DEF Follows
      <4> QED
        BY <4>1, <4>3
    <3>2. CASE s # t
      <4>1. per_team'[s] = per_team[s] /\ FreshIn(s)' = FreshIn(s)
        BY <1>2, <1>3, <1>7, <3>2
      <4> QED
        BY <1>1, <1>8, <4>1 DEF LogsFollow
    <3> QED
      BY <3>1, <3>2
  <2> QED
    BY <1>1, <1>2, <1>6, <1>8, <2>1 DEF LogsFollow
<1>10. InOrderOfTime'
  BY <1>1, <1>2, <1>3, <1>4 DEF InOrderOfTime
<1>11. ASSUME NEW k \in DOMAIN passed
       PROVE  /\ Mine(k)' = Mine(k) /\ RepeatsOf(k)' = RepeatsOf(k)
              /\ \A length : Window(k, length)' = Window(k, length)
              /\ passed'[k].counts => Ours(k)' = Ours(k)
  <2>1. \A l \in 1 .. k : l \in DOMAIN passed
    <3>1. Len(passed) \in Nat /\ DOMAIN passed = 1 .. Len(passed)
      BY <1>3
    <3> QED
      BY <3>1
  <2>2. Mine(k)' = Mine(k) /\ \A l \in Mine(k) : l \in DOMAIN passed
    BY <1>4, <2>1 DEF Mine
  <2>3. \A length : Window(k, length)' = Window(k, length)
    BY <1>4, <2>1 DEF Window
  <2>4. RepeatsOf(k)' = RepeatsOf(k)
    BY <1>4, <2>2 DEF RepeatsOf
  <2>5. ASSUME passed'[k].counts PROVE Ours(k)' = Ours(k)
    <3>1. Home[passed[k].who] # t
      BY <1>4, <2>5
    <3>2. \A l \in 1 .. k : Home[passed[l].who] = Home[passed[k].who] =>
                passed'[l].counts = passed[l].counts
      BY <1>3, <1>4, <2>1, <3>1, ZenonT(60) DEF PassRows
    <3> QED
      BY <1>4, <2>1, <3>2 DEF Ours
  <2> QED
    BY <2>2, <2>3, <2>4, <2>5
<1>12. LimitsHold'
  <2>1. ASSUME NEW k \in DOMAIN passed
        PROVE  /\ Cardinality(Mine(k)' \cap Window(k, Minute)') =< passed'[k].limits.rate
               /\ passed'[k].counts =>
                     Cardinality(Ours(k)' \cap Window(k, Hour)') =< passed'[k].limits.budget
               /\ Cardinality(RepeatsOf(k)') =< passed'[k].limits.identical
    <3>1. /\ Cardinality(Mine(k) \cap Window(k, Minute)) =< passed[k].limits.rate
          /\ passed[k].counts =>
                Cardinality(Ours(k) \cap Window(k, Hour)) =< passed[k].limits.budget
          /\ Cardinality(RepeatsOf(k)) =< passed[k].limits.identical
      BY <1>1 DEF LimitsHold
    <3>2. passed'[k].counts => passed[k].counts
      BY <1>4
    <3> QED
      BY <1>4, <1>11, <3>1, <3>2
  <2> QED
    BY <1>3, <2>1 DEF LimitsHold
<1>13. RepeatsAreCounted'
  <2>1. ASSUME NEW a \in Agents, NEW p \in DOMAIN passed, LastOf(a, p)'
        PROVE  /\ repeats'[a].key = passed'[p].key /\ repeats'[a].last = passed'[p].time
               /\ Cardinality(RepeatsOf(p)') =< repeats'[a].n
    <3>1. LastOf(a, p)
      BY <1>3, <1>4, <2>1 DEF LastOf
    <3>2. /\ repeats[a].key = passed[p].key /\ repeats[a].last = passed[p].time
          /\ Cardinality(RepeatsOf(p)) =< repeats[a].n
      BY <1>1, <3>1 DEF RepeatsAreCounted
    <3> QED
      BY <1>2, <1>4, <1>11, <3>2
  <2> QED
    BY <1>3, <2>1 DEF RepeatsAreCounted
<1> QED
  BY <1>5, <1>9, <1>10, <1>12, <1>13 DEF LimitsInv
------------------------------------------------------------------------------
(* Calls: a call takes its job from step to step.                               *)

\* The changes of a job: what is changed is a job, of the same caller.
Refused(j, r) == [j EXCEPT !.reason = r]
Routed(j, f, d) == [j EXCEPT !.for = f, !.depth = d]
WithFor(j, f) == [j EXCEPT !.for = f]
OnChannel(j, c) == [j EXCEPT !.channel = c]
Saving(j) == [j EXCEPT !.op = "save", !.for = {j.who}]
NextOne(j) == [j EXCEPT !.to = Tail(@), !.channel = NoChannel]

LEMMA RefusedIsJob ==
    ASSUME NEW j, j \in JobRows(j.depth), NEW r \in Reasons
    PROVE  /\ Refused(j, r) \in JobRows(Refused(j, r).depth) /\ Refused(j, r).to = j.to
           /\ Refused(j, r).who = j.who /\ Refused(j, r).team = j.team
           /\ Refused(j, r).op = j.op
           /\ Refused(j, r).reason = r
<1> HIDE DEF Reasons, ChannelRows, Addresses, NoChannel, Joins
<1> QED
  BY DEF JobRows, Edits, Refused

LEMMA RoutedIsJob ==
    ASSUME NEW j, j \in JobRows(j.depth), NEW f \in SUBSET (Agents \cup {"human"}), NEW d
    PROVE  /\ Routed(j, f, d) \in JobRows(Routed(j, f, d).depth) /\ Routed(j, f, d).to = j.to
           /\ Routed(j, f, d).who = j.who /\ Routed(j, f, d).team = j.team
           /\ Routed(j, f, d).op = j.op
<1> HIDE DEF Reasons, ChannelRows, Addresses, NoChannel, Joins
<1> QED
  BY DEF JobRows, Edits, Routed

LEMMA WithForIsJob ==
    ASSUME NEW j, j \in JobRows(j.depth), NEW f \in SUBSET (Agents \cup {"human"})
    PROVE  /\ WithFor(j, f) \in JobRows(WithFor(j, f).depth) /\ WithFor(j, f).to = j.to
           /\ WithFor(j, f).who = j.who /\ WithFor(j, f).team = j.team
           /\ WithFor(j, f).op = j.op
           /\ WithFor(j, f).channel = j.channel
<1> HIDE DEF Reasons, ChannelRows, Addresses, NoChannel, Joins
<1> QED
  BY DEF JobRows, Edits, WithFor

LEMMA OnChannelIsJob ==
    ASSUME NEW j, j \in JobRows(j.depth), NEW c \in ChannelRows
    PROVE  /\ OnChannel(j, c) \in JobRows(OnChannel(j, c).depth) /\ OnChannel(j, c).to = j.to
           /\ OnChannel(j, c).who = j.who /\ OnChannel(j, c).team = j.team
           /\ OnChannel(j, c).op = j.op
           /\ OnChannel(j, c).channel = c
<1> HIDE DEF Reasons, ChannelRows, Addresses, NoChannel, Joins
<1> QED
  BY DEF JobRows, Edits, OnChannel

LEMMA SavingIsJob ==
    ASSUME NEW j, j \in JobRows(j.depth)
    PROVE  /\ Saving(j) \in JobRows(Saving(j).depth) /\ Saving(j).to = j.to
           /\ Saving(j).who = j.who /\ Saving(j).team = j.team
<1> HIDE DEF Reasons, ChannelRows, Addresses, NoChannel, Joins
<1> QED
  BY DEF JobRows, Edits, Saving

LEMMA NextOneIsJob ==
    ASSUME NEW j, j \in JobRows(j.depth), Tail(j.to) \in Seq(Addresses)
    PROVE  /\ NextOne(j) \in JobRows(NextOne(j).depth) /\ NextOne(j).to = Tail(j.to)
           /\ NextOne(j).who = j.who /\ NextOne(j).team = j.team
           /\ NextOne(j).op = j.op
<1> HIDE DEF Reasons, ChannelRows, Addresses, NoChannel, Joins
<1> QED
  BY DEF JobRows, Edits, NextOne

\* A job that suits a step.
Suits(step, j) == step \in Steps /\ IF step = "idle" THEN j = NoJob ELSE JobOK(step, j)

LEMMA JobsGo ==
    ASSUME JobTypes, NEW p \in Procs, NEW step, NEW j, Suits(step, j), Goto(p, step, j)
    PROVE  /\ JobTypes' /\ at'[p] = step /\ job'[p] = j
           /\ \A q \in Procs : q # p => at'[q] = at[q] /\ job'[q] = job[q]
<1>1. /\ at \in [Procs -> Steps] /\ job = [q \in Procs |-> job[q]] /\ step \in Steps
      /\ at' = [at EXCEPT ![p] = step] /\ job' = [job EXCEPT ![p] = j]
      /\ \A q \in Procs : IF at[q] = "idle" THEN job[q] = NoJob ELSE JobOK(at[q], job[q])
  BY DEF JobTypes, Suits, Goto
<1> HIDE DEF JobOK, Steps
<1>2. /\ at'[p] = step /\ job'[p] = j /\ at' \in [Procs -> Steps] /\ DOMAIN job' = Procs
      /\ \A q \in Procs : q # p => at'[q] = at[q] /\ job'[q] = job[q]
  BY <1>1
<1>3. job' = [q \in Procs |-> job'[q]]
  BY <1>1
<1>4. \A q \in Procs : IF at'[q] = "idle" THEN job'[q] = NoJob ELSE JobOK(at'[q], job'[q])
  BY <1>1, <1>2 DEF Suits
<1> QED
  BY <1>2, <1>3, <1>4 DEF JobTypes

\* Who is about to tell of a block, and the notices that are stored.
Tells == {"blocked", "notice"}
TellersStay ==
    \A q \in Procs : \A step \in Tells :
        (at'[q] = step <=> at[q] = step) /\ (at[q] = step => job'[q] = job[q])
NoticesStay ==
    \A m \in messages : m.channel = NoChannel =>
        \E n \in messages' : n.channel = NoChannel /\ n.id = m.id /\ n.about = m.about
AfterBlocks == <<since, announced, announced_pause, paused, raced, refused>>

LEMMA OthersTell ==
    ASSUME JobTypes, NEW p \in Procs, NEW step, NEW j, Suits(step, j), Goto(p, step, j),
           at[p] \notin Tells, step \notin Tells
    PROVE  TellersStay
<1>1. /\ at'[p] = step
      /\ \A q \in Procs : q # p => at'[q] = at[q] /\ job'[q] = job[q]
  BY JobsGo
<1> QED
  BY <1>1 DEF TellersStay, Tells

LEMMA NotedStays ==
    ASSUME NoticesStay, UNCHANGED since
    PROVE  \A x, reason : Noted(x, reason) => Noted(x, reason)'
BY DEF NoticesStay, Noted

LEMMA ToldStays ==
    ASSUME ToldInv, TellersStay, NoticesStay, UNCHANGED AfterBlocks
    PROVE  ToldInv'
<1>1. /\ since' = since /\ announced' = announced /\ announced_pause' = announced_pause
      /\ paused' = paused /\ raced' = raced /\ refused' = refused
  BY DEF AfterBlocks
<1>2. \A q \in Procs : \A step \in Tells : \A a, r : On(q, step, a, r)' <=> On(q, step, a, r)
  BY DEF TellersStay, On
<1>3. \A q \in Procs : \A step \in Tells : \A t : OfTeam(q, step, t)' <=> OfTeam(q, step, t)
  BY DEF TellersStay, OfTeam
<1>4. \A x, reason : Noted(x, reason) => Noted(x, reason)'
  BY <1>1, NotedStays
<1>5. \A a, r : NoticeOf(a, r) => NoticeOf(a, r)'
  BY <1>2, <1>4 DEF NoticeOf, Tells
<1>6. \A t : PauseNotice(t) => PauseNotice(t)'
  BY <1>3, <1>4 DEF PauseNotice, Tells
<1>7. RefusalsAreTold'
  BY <1>1, <1>2, <1>5 DEF ToldInv, RefusalsAreTold, Tells
<1>8. PausesAreTold'
  BY <1>1, <1>3, <1>6 DEF ToldInv, PausesAreTold, Tells
<1> QED
  BY <1>7, <1>8 DEF ToldInv

LEMMA GuardsStay ==
    ASSUME GuardTypes, LimitsInv, UNCHANGED <<now, guards, part, passed, refused>>, calls' \in Nat
    PROVE  GuardTypes' /\ LimitsInv'
<1>1. /\ now' = now /\ config' = config /\ part' = part /\ passed' = passed /\ refused' = refused
      /\ per_agent' = per_agent /\ per_team' = per_team /\ repeats' = repeats
      /\ paused' = paused /\ announced' = announced /\ announced_pause' = announced_pause
  BY DEF guards
<1>2. GuardTypes'
  BY <1>1 DEF GuardTypes
<1>3. LogsFollow' /\ InOrderOfTime'
  <2>1. Times' = Times /\ \A x : FreshOf(x)' = FreshOf(x) /\ FreshIn(x)' = FreshIn(x)
    BY <1>1 DEF Times, FreshOf, FreshIn
  <2> QED
    BY <1>1, <2>1 DEF LimitsInv, LogsFollow, InOrderOfTime
<1>4. LimitsHold' /\ RepeatsAreCounted'
  BY <1>1, HistoryStays DEF LimitsInv, RepeatsAreCounted
<1> QED
  BY <1>2, <1>3, <1>4 DEF LimitsInv

LEMMA StoreStays ==
    ASSUME StoreTypes, UNCHANGED <<store, since>>, joined' \subseteq joined
    PROVE  StoreTypes' /\ NoticesStay
<1>1. /\ agents' = agents /\ channels' = channels /\ members' = members
      /\ messages' = messages /\ made' = made /\ since' = since
  BY DEF store
<1> QED
  BY <1>1 DEF StoreTypes, NoticesStay

\* A step of a call that only takes it on.
LEMMA CallGoesOn ==
    ASSUME BusInv, NEW p \in Procs, NEW step, NEW j, Suits(step, j), Goto(p, step, j),
           at[p] \notin Tells, step \notin Tells, UNCHANGED <<guards, store, history>>, Same
    PROVE  BusInv'
<1>1. GuardTypes /\ StoreTypes /\ JobTypes /\ LimitsInv /\ ToldInv
  BY DEF BusInv
<1>2. /\ UNCHANGED <<now, guards, part, passed, refused>> /\ calls' \in Nat
      /\ UNCHANGED <<store, since>> /\ joined' \subseteq joined /\ UNCHANGED AfterBlocks
  BY <1>1 DEF history, Same, guards, AfterBlocks, GuardTypes
<1>3. GuardTypes' /\ LimitsInv'
  BY <1>1, <1>2, GuardsStay
<1>4. StoreTypes' /\ NoticesStay
  BY <1>1, <1>2, StoreStays
<1>5. JobTypes' /\ TellersStay
  BY <1>1, JobsGo, OthersTell
<1>6. ToldInv'
  BY <1>1, <1>2, <1>4, <1>5, ToldStays
<1> QED
  BY <1>3, <1>4, <1>5, <1>6 DEF BusInv

LEMMA JobIs ==
    ASSUME BusInv, NEW p \in Procs, at[p] # "idle"
    PROVE  /\ JobOK(at[p], job[p]) /\ job[p] \in JobRows(job[p].depth) /\ job[p].to # <<>>
           /\ job[p].to \in Seq(Addresses) /\ Head(job[p].to) \in Addresses
           /\ job[p].who \in Agents \cup {"human"} /\ job[p].team \in Teams
           /\ job[p].who \in Agents => job[p].team = Home[job[p].who]
           /\ job[p].body \in Bodies /\ job[p].for \subseteq Agents \cup {"human"}
           /\ job[p].channel \in ChannelRows \cup {NoChannel}
           /\ job[p].n \in Nat \ {0} /\ job[p].parent \in Nat
           /\ job[p].op \in {"send", "save", "delete", "join", "leave"}
<1>1. JobOK(at[p], job[p])
  BY DEF BusInv, JobTypes
<1>2. job[p] \in JobRows(job[p].depth) /\ job[p].to # <<>>
  BY <1>1 DEF JobOK
<1> PICK j : j = job[p]
  OBVIOUS
<1>3. /\ j.to \in Seq(Addresses) /\ j.who \in Agents \cup {"human"} /\ j.team \in Teams
      /\ j.body \in Bodies /\ j.for \subseteq Agents \cup {"human"}
      /\ j.channel \in ChannelRows \cup {NoChannel}
      /\ j.n \in Nat \ {0} /\ j.parent \in Nat /\ j.op \in {"send"} \cup Edits
  <2> HIDE DEF Addresses, ChannelRows, NoChannel, Edits
  <2> QED
    BY <1>2 DEF JobRows
<1>4. Head(j.to) \in Addresses
  <2> HIDE DEF Addresses
  <2> QED
    BY <1>2, <1>3
<1> QED
  BY <1>1, <1>2, <1>3, <1>4 DEF JobOK, Edits

\* A call that ends suits no step, and one that goes on suits any but those
\* that need an agent, a reason or a channel.
LEMMA EndsSuit == Suits("idle", NoJob)
BY DEF Suits, Steps

LEMMA JobSuits ==
    ASSUME NEW step \in Steps \ {"idle", "admit", "blocked", "notice", "warn", "delete"}, NEW j,
           j \in JobRows(j.depth), j.to # <<>>, j.who \in Agents => j.team = Home[j.who]
    PROVE  Suits(step, j)
BY DEF Suits, JobOK
------------------------------------------------------------------------------
(* Every step keeps the invariant.                                              *)

LEMMA BeginStep ==
    ASSUME BusInv, NEW p \in Procs, NEW j \in Jobs[part], Begin(p, j)
    PROVE  BusInv'
<1>1. GuardTypes /\ StoreTypes /\ JobTypes /\ LimitsInv /\ ToldInv /\ part \in Parts /\ calls \in Nat
  BY DEF BusInv, GuardTypes
<1>2. PICK n \in (IF j.reply THEN {m.id : m \in {x \in messages : x.team = j.team}} ELSE {0}) :
        Goto(p, First(j), [op |-> j.op, who |-> j.who, team |-> j.team, to |-> j.to,
                           body |-> j.body, for |-> j.for, parent |-> n, n |-> calls + 1,
                           channel |-> NoChannel, depth |-> 0, reason |-> None,
                           expected |-> joined])
  BY DEF Begin
<1>3. n \in Nat
  <2>1. \A m \in messages : m.id \in Nat
    BY <1>1 DEF StoreTypes
  <2> QED
    BY <2>1
<1>4. /\ j \in [op : {"send"} \cup Edits, who : Agents \cup {"human"}, team : Teams,
                to : Seq(Addresses), body : Bodies, reply : BOOLEAN, for : SUBSET Agents]
      /\ j.to # <<>> /\ (j.who \in Agents => j.team = Home[j.who])
  BY <1>1, BusAssumption
<1>5. /\ j.op \in {"send"} \cup Edits /\ j.who \in Agents \cup {"human"} /\ j.team \in Teams
      /\ j.to \in Seq(Addresses) /\ j.body \in Bodies /\ j.for \in SUBSET (Agents \cup {"human"})
  <2> HIDE DEF Edits, Addresses
  <2> QED
    BY <1>4
<1>6. joined \in SUBSET Joins
  BY <1>1 DEF StoreTypes
<1> DEFINE new == [op |-> j.op, who |-> j.who, team |-> j.team, to |-> j.to,
                   body |-> j.body, for |-> j.for, parent |-> n, n |-> calls + 1,
                   channel |-> NoChannel, depth |-> 0, reason |-> None,
                   expected |-> joined]
<1>7. new \in JobRows(new.depth) /\ new.to = j.to /\ new.who = j.who /\ new.team = j.team
  <2> HIDE DEF Edits, Addresses, Joins, NoChannel, ChannelRows, Reasons
  <2>1. calls + 1 \in Nat \ {0}
    BY <1>1
  <2> QED
    BY <1>3, <1>5, <1>6, <2>1 DEF JobRows
<1>8. First(j) \in {"find", "admit", "route"} /\ (First(j) = "admit" => j.who \in Agents)
  BY DEF First
<1> PICK row : row = new
  OBVIOUS
<1> HIDE DEF new
<1>9. Suits(First(j), row)
  <2>1. JobOK(First(j), row)
    BY <1>4, <1>7, <1>8 DEF JobOK
  <2> QED
    BY <1>8, <2>1 DEF Suits, Steps
<1>10. Goto(p, First(j), row)
  BY <1>2 DEF new
<1>11. at[p] \notin Tells /\ First(j) \notin Tells
  BY <1>8 DEF Begin, Tells
<1>12. /\ UNCHANGED <<now, guards, part, passed, refused>> /\ calls' \in Nat
       /\ UNCHANGED <<store, since>> /\ joined' \subseteq joined /\ UNCHANGED AfterBlocks
  BY <1>1 DEF Begin, guards, AfterBlocks
<1>13. GuardTypes' /\ LimitsInv'
  BY <1>1, <1>12, GuardsStay
<1>14. StoreTypes' /\ NoticesStay
  BY <1>1, <1>12, StoreStays
<1>15. JobTypes' /\ TellersStay
  BY <1>1, <1>9, <1>10, <1>11, JobsGo, OthersTell
<1>16. ToldInv'
  BY <1>1, <1>12, <1>14, <1>15, ToldStays
<1> QED
  BY <1>13, <1>14, <1>15, <1>16 DEF BusInv

LEMMA RouteStep ==
    ASSUME BusInv, NEW p \in Procs, Route(p)
    PROVE  BusInv'
<1>1. at[p] = "route" /\ at[p] \notin Tells /\ UNCHANGED <<guards, store, history>> /\ Same
  BY DEF Route, Tells
<1>2. CASE Return(p)
  BY <1>1, <1>2, EndsSuit, CallGoesOn DEF Return, Tells
<1>3. CASE ~ Return(p)
  <2> DEFINE to == Head(job[p].to)  others == Team(job[p].team) \ {job[p].who}
             depth == IF job[p].who = "human" THEN 0 ELSE ReplyDepth(job[p].parent)
             for == CASE to \in Agents -> {to} [] to = "human" -> {} [] OTHER -> others
             step == IF to \in Slugs THEN "find" ELSE "insert"
  <2>1. Goto(p, step, Routed(job[p], for, depth))
    BY <1>3 DEF Route, Routed
  <2>2. for \in SUBSET (Agents \cup {"human"})
    <3>1. others \in SUBSET Agents
      BY DEF Team, BusInv, StoreTypes
    <3>2. CASE to \in Agents
      <4>1. for = {to}
        BY <3>2, BusAssumption
      <4> QED
        BY <3>2, <4>1
    <3>3. CASE to = "human"
      <4>1. for = {}
        BY <3>3, BusAssumption
      <4> QED
        BY <4>1
    <3>4. CASE to \notin Agents /\ to # "human"
      <4>1. for = others
        BY <3>4
      <4> QED
        BY <3>1, <4>1
    <3> QED
      BY <3>2, <3>3, <3>4
  <2>3. step \in {"find", "insert"}
    OBVIOUS
  <2> HIDE DEF for, depth, step
  <2>4. PICK s, f, d : s = step /\ f = for /\ d = depth
    OBVIOUS
  <2>5. PICK k : k = Routed(job[p], f, d)
    OBVIOUS
  <2>6. /\ job[p] \in JobRows(job[p].depth) /\ job[p].to # <<>>
        /\ job[p].who \in Agents => job[p].team = Home[job[p].who]
    BY <1>1, JobIs
  <2>7. /\ k \in JobRows(k.depth)
        /\ k.who = job[p].who /\ k.team = job[p].team /\ k.to = job[p].to
    <3> PICK j : j = job[p]
      OBVIOUS
    <3>1. j \in JobRows(j.depth) /\ f \in SUBSET (Agents \cup {"human"}) /\ k = Routed(j, f, d)
      BY <2>2, <2>4, <2>5, <2>6
    <3>2. /\ k \in JobRows(k.depth)
          /\ k.who = j.who /\ k.team = j.team /\ k.to = j.to
      BY <3>1, RoutedIsJob
    <3> QED
      BY <3>2
  <2>8. Suits(s, k)
    BY <2>3, <2>4, <2>6, <2>7, JobSuits DEF Steps
  <2>9. Goto(p, s, k) /\ s \notin Tells
    BY <2>1, <2>3, <2>4, <2>5 DEF Tells
  <2> QED
    BY <1>1, <2>8, <2>9, CallGoesOn
<1> QED
  BY <1>2, <1>3

LEMMA FindStep ==
    ASSUME BusInv, NEW p \in Procs, Find(p)
    PROVE  BusInv'
<1> DEFINE j == job[p]  found == Named(j.team, Head(j.to))
           next == CASE j.op \in {"send", "join", "leave"} -> "read"
                     [] j.op = "save" -> "write"
                     [] j.op = "delete" -> "delete"
<1>1. at[p] = "find" /\ at[p] \notin Tells /\ UNCHANGED <<guards, store, history>> /\ Same
  BY DEF Find, Tells
<1>2. \/ Return(p)
      \/ found # {} /\ Goto(p, next, OnChannel(j, CHOOSE c \in found : TRUE))
      \/ Goto(p, "create", j)
      \/ Goto(p, "find", Saving(j))
  BY DEF Find, OnChannel, Saving
<1>3. /\ j \in JobRows(j.depth) /\ j.to # <<>> /\ (j.who \in Agents => j.team = Home[j.who])
      /\ j.op \in {"send", "save", "delete", "join", "leave"}
  BY <1>1, JobIs
<1> HIDE DEF j
<1>4. CASE Return(p)
  BY <1>1, <1>4, EndsSuit, CallGoesOn DEF Return, Tells
<1>5. CASE found # {} /\ Goto(p, next, OnChannel(j, CHOOSE c \in found : TRUE))
  <2>1. PICK c : c = CHOOSE x \in found : TRUE
    OBVIOUS
  <2>2. c \in ChannelRows
    <3>1. found \subseteq ChannelRows
      BY DEF BusInv, StoreTypes, Named
    <3> QED
      BY <1>5, <2>1, <3>1
  <2>3. PICK k : k = OnChannel(j, c)
    OBVIOUS
  <2>4. /\ k \in JobRows(k.depth) /\ k.to = j.to /\ k.who = j.who /\ k.team = j.team
        /\ k.channel = c
    BY <1>3, <2>2, <2>3, OnChannelIsJob
  <2>5. next \in {"read", "write", "delete"}
    <3>1. j.op \in {"send", "join", "leave"} => next = "read"
      OBVIOUS
    <3>2. j.op = "save" => next = "write"
      OBVIOUS
    <3>3. j.op = "delete" => next = "delete"
      OBVIOUS
    <3> QED
      BY <1>3, <3>1, <3>2, <3>3
  <2> HIDE DEF next
  <2>6. PICK step : step = next
    OBVIOUS
  <2>7. c # NoChannel
    BY <2>2 DEF ChannelRows, NoChannel
  <2>8. Suits(step, k)
    <3>1. JobOK(step, k)
      BY <1>3, <2>4, <2>5, <2>6, <2>7 DEF JobOK
    <3> QED
      BY <2>5, <2>6, <3>1 DEF Suits, Steps
  <2>9. Goto(p, step, k) /\ step \notin Tells
    BY <1>5, <2>1, <2>3, <2>5, <2>6 DEF Tells
  <2> QED
    BY <1>1, <2>8, <2>9, CallGoesOn
<1>6. CASE Goto(p, "create", j)
  <2>1. PICK k : k = j
    OBVIOUS
  <2>2. Suits("create", k)
    BY <1>3, <2>1, JobSuits DEF Steps
  <2>3. Goto(p, "create", k)
    BY <1>6, <2>1
  <2> QED
    BY <1>1, <2>2, <2>3, CallGoesOn DEF Tells
<1>7. CASE Goto(p, "find", Saving(j))
  <2>1. PICK k : k = Saving(j)
    OBVIOUS
  <2>2. Suits("find", k)
    BY <1>3, <2>1, SavingIsJob, JobSuits DEF Steps
  <2>3. Goto(p, "find", k)
    BY <1>7, <2>1
  <2> QED
    BY <1>1, <2>2, <2>3, CallGoesOn DEF Tells
<1> QED
  BY <1>2, <1>4, <1>5, <1>6, <1>7

LEMMA RefindStep ==
    ASSUME BusInv, NEW p \in Procs, Refind(p)
    PROVE  BusInv'
<1> DEFINE j == job[p]  found == Named(j.team, Head(j.to))
<1>1. at[p] = "refind" /\ at[p] \notin Tells /\ UNCHANGED <<guards, store, history>> /\ Same
  BY DEF Refind, Tells
<1>2. \/ Return(p)
      \/ found # {} /\ Goto(p, "read", OnChannel(j, CHOOSE c \in found : TRUE))
  BY DEF Refind, OnChannel
<1>3. j \in JobRows(j.depth) /\ j.to # <<>> /\ (j.who \in Agents => j.team = Home[j.who])
  BY <1>1, JobIs
<1> HIDE DEF j
<1>4. CASE Return(p)
  BY <1>1, <1>4, EndsSuit, CallGoesOn DEF Return, Tells
<1>5. CASE found # {} /\ Goto(p, "read", OnChannel(j, CHOOSE c \in found : TRUE))
  <2>1. PICK c : c = CHOOSE x \in found : TRUE
    OBVIOUS
  <2>2. c \in ChannelRows
    <3>1. found \subseteq ChannelRows
      BY DEF BusInv, StoreTypes, Named
    <3> QED
      BY <1>5, <2>1, <3>1
  <2>3. PICK k : k = OnChannel(j, c)
    OBVIOUS
  <2>4. Suits("read", k)
    BY <1>3, <2>2, <2>3, OnChannelIsJob, JobSuits DEF Steps
  <2>5. Goto(p, "read", k)
    BY <1>5, <2>1, <2>3
  <2> QED
    BY <1>1, <2>4, <2>5, CallGoesOn DEF Tells
<1> QED
  BY <1>2, <1>4, <1>5

LEMMA ReadStep ==
    ASSUME BusInv, NEW p \in Procs, Read(p)
    PROVE  BusInv'
<1> DEFINE j == job[p]
<1>1. at[p] = "read" /\ at[p] \notin Tells /\ UNCHANGED <<guards, store, history>> /\ Same
  BY DEF Read, Tells
<1>2. PICK step \in {"insert", "write"}, for \in {Readers(j), Subscribed(j)} :
          Goto(p, step, WithFor(j, for))
  BY DEF Read, WithFor
<1>3. /\ j \in JobRows(j.depth) /\ j.to # <<>> /\ (j.who \in Agents => j.team = Home[j.who])
      /\ j.for \subseteq Agents \cup {"human"} /\ j.who \in Agents \cup {"human"}
  BY <1>1, JobIs
<1>4. for \in SUBSET (Agents \cup {"human"})
  <2>1. MembersOf(j.channel) \subseteq Agents
    BY DEF MembersOf, BusInv, StoreTypes
  <2> HIDE DEF j
  <2>2. Readers(j) \subseteq Agents \cup {"human"} /\ Subscribed(j) \subseteq Agents \cup {"human"}
    BY <1>3, <2>1 DEF Readers, Subscribed
  <2> QED
    BY <1>2, <2>2
<1> HIDE DEF j
<1>5. PICK k : k = WithFor(j, for)
  OBVIOUS
<1>6. Suits(step, k)
  BY <1>2, <1>3, <1>4, <1>5, WithForIsJob, JobSuits DEF Steps
<1>7. Goto(p, step, k) /\ step \notin Tells
  BY <1>2, <1>5 DEF Tells
<1> QED
  BY <1>1, <1>6, <1>7, CallGoesOn

\* The steps that change the store.
LEMMA CallStores ==
    ASSUME BusInv, NEW p \in Procs, NEW step, NEW j, Suits(step, j), Goto(p, step, j),
           at[p] \notin Tells, step \notin Tells, UNCHANGED guards, Same,
           UNCHANGED <<passed, AfterBlocks>>, StoreTypes', NoticesStay
    PROVE  BusInv'
<1>1. GuardTypes /\ JobTypes /\ LimitsInv /\ ToldInv
  BY DEF BusInv
<1>2. UNCHANGED <<now, guards, part, passed, refused>> /\ calls' \in Nat
  BY <1>1 DEF AfterBlocks, Same, GuardTypes
<1>3. GuardTypes' /\ LimitsInv'
  BY <1>1, <1>2, GuardsStay
<1>4. JobTypes' /\ TellersStay
  BY <1>1, JobsGo, OthersTell
<1>5. ToldInv'
  BY <1>1, <1>4, ToldStays
<1> QED
  BY <1>3, <1>4, <1>5 DEF BusInv

LEMMA CreateStep ==
    ASSUME BusInv, NEW p \in Procs, Create(p)
    PROVE  BusInv'
<1> DEFINE j == job[p]  new == [n |-> j.n, team |-> j.team, slug |-> Head(j.to)]
<1>1. /\ at[p] = "create" /\ at[p] \notin Tells /\ Same
      /\ UNCHANGED <<agents, members, messages, made, guards, history>>
  BY DEF Create, Tells
<1>2. \/ UNCHANGED channels /\ (Goto(p, "refind", j) \/ Return(p))
      \/ /\ Named(j.team, Head(j.to)) = {} /\ channels' = channels \cup {new}
         /\ (Goto(p, "read", OnChannel(j, new)) \/ Goto(p, "write", OnChannel(j, new)))
  BY DEF Create, OnChannel
<1>3. /\ j \in JobRows(j.depth) /\ j.to # <<>> /\ (j.who \in Agents => j.team = Home[j.who])
      /\ j.n \in Nat \ {0} /\ j.team \in Teams /\ Head(j.to) \in Addresses
  BY <1>1, JobIs
<1> HIDE DEF j
<1>4. /\ UNCHANGED <<guards, passed, AfterBlocks>> /\ UNCHANGED <<since, joined>>
      /\ history' = history
  BY <1>1 DEF history, AfterBlocks, guards
<1>5. NoticesStay
  BY <1>1 DEF NoticesStay
<1>6. CASE UNCHANGED channels /\ (Goto(p, "refind", j) \/ Return(p))
  <2>1. UNCHANGED store
    BY <1>1, <1>6 DEF store
  <2>2. CASE Return(p)
    BY <1>1, <2>1, <2>2, EndsSuit, CallGoesOn DEF Return, Tells
  <2>3. CASE Goto(p, "refind", j)
    <3>1. PICK k : k = j
      OBVIOUS
    <3>2. Suits("refind", k)
      BY <1>3, <3>1, JobSuits DEF Steps
    <3>3. Goto(p, "refind", k)
      BY <2>3, <3>1
    <3> QED
      BY <1>1, <2>1, <3>2, <3>3, CallGoesOn DEF Tells
  <2> QED
    BY <1>6, <2>2, <2>3
<1>7. CASE /\ Named(j.team, Head(j.to)) = {} /\ channels' = channels \cup {new}
           /\ (Goto(p, "read", OnChannel(j, new)) \/ Goto(p, "write", OnChannel(j, new)))
  <2>1. PICK step \in {"read", "write"} : Goto(p, step, OnChannel(j, new))
    BY <1>7
  <2>2. new \in ChannelRows
    BY <1>3 DEF ChannelRows
  <2>3. PICK c : c = new
    OBVIOUS
  <2>4. PICK k : k = OnChannel(j, c)
    OBVIOUS
  <2>5. Suits(step, k)
    BY <1>3, <2>2, <2>3, <2>4, OnChannelIsJob, JobSuits DEF Steps
  <2>6. Goto(p, step, k) /\ step \notin Tells
    BY <2>1, <2>3, <2>4 DEF Tells
  <2>7. StoreTypes'
    <3>1. /\ channels' \subseteq ChannelRows /\ members' \subseteq channels' \X agents'
          /\ agents' \subseteq Agents
      BY <1>1, <1>7, <2>2 DEF BusInv, StoreTypes
    <3>2. \A d, e \in channels' : d.team = e.team /\ d.slug = e.slug => d = e
      <4>1. \A d \in channels : ~ (d.team = new.team /\ d.slug = new.slug)
        BY <1>7 DEF Named
      <4>2. \A d, e \in channels : d.team = e.team /\ d.slug = e.slug => d = e
        BY DEF BusInv, StoreTypes
      <4>3. \A d \in channels' : d \in channels \/ d = new
        BY <1>7
      <4> HIDE DEF new
      <4> QED
        BY <4>1, <4>2, <4>3
    <3>3. /\ made' \in Nat /\ messages' \subseteq MessageRows
          /\ \A m \in messages' : m.id \in 1 .. made' /\ m.channel \in channels' \cup {NoChannel}
      BY <1>1, <1>7 DEF BusInv, StoreTypes
    <3>4. since' \in [Agents \cup Teams -> 0 .. made'] /\ joined' \subseteq Joins
      BY <1>1, <1>4 DEF BusInv, StoreTypes
    <3> QED
      BY <3>1, <3>2, <3>3, <3>4 DEF StoreTypes
  <2> QED
    BY <1>1, <1>4, <1>5, <2>5, <2>6, <2>7, CallStores
<1> QED
  BY <1>2, <1>6, <1>7

\* The next address of a message, or the end of the call.
LEMMA NextAddressSuits ==
    ASSUME BusInv, NEW p \in Procs, at[p] # "idle", NextAddress(p)
    PROVE  \E step, k : Suits(step, k) /\ Goto(p, step, k) /\ step \notin Tells
<1>1. CASE Return(p)
  BY <1>1, EndsSuit DEF Return, Tells
<1>2. CASE ~ Return(p)
  <2>1. PICK j : j = job[p]
    OBVIOUS
  <2>2. Len(j.to) # 1 /\ Goto(p, First(j), NextOne(j))
    BY <1>2, <2>1 DEF NextAddress, NextOne
  <2>3. /\ j \in JobRows(j.depth) /\ j.to # <<>> /\ (j.who \in Agents => j.team = Home[j.who])
        /\ j.to \in Seq(Addresses)
    BY <2>1, JobIs
  <2>4. Tail(j.to) \in Seq(Addresses) /\ Tail(j.to) # <<>>
    <3> HIDE DEF Addresses
    <3>1. Len(j.to) \in Nat /\ Len(j.to) # 0 /\ Len(j.to) # 1
      BY <2>2, <2>3
    <3>2. Tail(j.to) \in Seq(Addresses) /\ Len(Tail(j.to)) = Len(j.to) - 1
      BY <2>3, <3>1
    <3>3. PICK rest : rest = Tail(j.to)
      OBVIOUS
    <3>4. rest \in Seq(Addresses) /\ Len(rest) # 0
      BY <3>1, <3>2, <3>3
    <3>5. rest # <<>>
      BY <3>4
    <3> QED
      BY <3>2, <3>3, <3>5
  <2>5. PICK k : k = NextOne(j)
    OBVIOUS
  <2>6. k \in JobRows(k.depth) /\ k.to = Tail(j.to) /\ k.who = j.who /\ k.team = j.team
    BY <2>3, <2>4, <2>5, NextOneIsJob
  <2>7. First(j) \in {"find", "admit", "route"} /\ (First(j) = "admit" => j.who \in Agents)
    BY DEF First
  <2>8. JobOK(First(j), k)
    BY <2>3, <2>4, <2>6, <2>7 DEF JobOK
  <2>9. Suits(First(j), k) /\ First(j) \notin Tells
    BY <2>7, <2>8 DEF Suits, Steps, Tells
  <2> QED
    BY <2>2, <2>5, <2>9
<1> QED
  BY <1>1, <1>2

\* A message that is stored.
LEMMA InsertKeepsStore ==
    ASSUME BusInv, NEW m, Insert(m), m \in MessageRows, m.id = made + 1,
           m.channel \in channels \cup {NoChannel}, UNCHANGED <<since, joined>>
    PROVE  StoreTypes' /\ NoticesStay /\ m \in messages'
<1>1. StoreTypes
  BY DEF BusInv
<1>2. /\ messages' = messages \cup {m} /\ made' = made + 1
      /\ agents' = agents /\ channels' = channels /\ members' = members
  BY DEF Insert
<1>3. \A x \in messages' : x.id \in 1 .. made' /\ x.channel \in channels' \cup {NoChannel}
  BY <1>1, <1>2 DEF StoreTypes
<1>4. since' \in [Agents \cup Teams -> 0 .. made']
  <2>1. made \in Nat /\ since \in [Agents \cup Teams -> 0 .. made]
    BY <1>1 DEF StoreTypes
  <2>2. 0 .. made \subseteq 0 .. (made + 1)
    BY <2>1
  <2> QED
    BY <1>2, <2>1, <2>2
<1>5. NoticesStay
  BY <1>2 DEF NoticesStay
<1>6. made' \in Nat /\ messages' \subseteq MessageRows
  BY <1>1, <1>2 DEF StoreTypes
<1> QED
  BY <1>1, <1>2, <1>3, <1>4, <1>5, <1>6 DEF StoreTypes

LEMMA InsertMessageStep ==
    ASSUME BusInv, NEW p \in Procs, InsertMessage(p)
    PROVE  BusInv'
<1> DEFINE due == {x.who : x \in {y \in joined \cap job[p].expected :
                    y.slug = Head(job[p].to) /\ y.team = job[p].team /\ y.slug \notin mixed}}
           new == [id |-> made + 1, team |-> job[p].team, from |-> job[p].who,
                   channel |-> job[p].channel, for |-> job[p].for, reply |-> job[p].parent,
                   about |-> None, due |-> due \ {job[p].who}]
<1>1. /\ at[p] = "insert" /\ at[p] \notin Tells /\ Same /\ UNCHANGED <<guards, history>>
      /\ at[p] # "idle"
  BY DEF InsertMessage, Tells
<1>2. \/ Return(p) /\ UNCHANGED store
      \/ /\ Accepts(new) /\ Insert(new)
         /\ (job[p].who \in Agents /\ Goto(p, "warn", job[p])) \/ NextAddress(p)
  BY DEF InsertMessage
<1>3. /\ job[p].who \in Agents \cup {"human"} /\ job[p].team \in Teams
      /\ job[p].parent \in Nat /\ job[p].channel \in ChannelRows \cup {NoChannel}
      /\ JobOK("insert", job[p])
  BY <1>1, JobIs
<1>4. CASE Return(p) /\ UNCHANGED store
  BY <1>1, <1>4, EndsSuit, CallGoesOn DEF Return, Tells
<1>5. CASE /\ Accepts(new) /\ Insert(new)
           /\ (job[p].who \in Agents /\ Goto(p, "warn", job[p])) \/ NextAddress(p)
  <2>1. due \subseteq Agents \cup {"human"}
    <3>1. \A y \in joined : y.who \in Agents \cup {"human"}
      BY DEF BusInv, StoreTypes, Joins
    <3> QED
      BY <3>1
  <2>2. new.for \subseteq Agents /\ new.channel \in channels \cup {NoChannel}
    BY <1>5 DEF Accepts, BusInv, StoreTypes
  <2> HIDE DEF due
  <2>3. new \in MessageRows /\ new.id = made + 1
    <3>1. made + 1 \in Nat
      BY DEF BusInv, StoreTypes
    <3> HIDE DEF ChannelRows, NoChannel, Subjects
    <3> QED
      BY <1>3, <2>1, <2>2, <3>1 DEF MessageRows
  <2> HIDE DEF new
  <2>4. /\ UNCHANGED <<guards, passed, AfterBlocks>> /\ UNCHANGED <<since, joined>>
    BY <1>1 DEF history, AfterBlocks, guards
  <2>5. StoreTypes' /\ NoticesStay
    BY <1>5, <2>2, <2>3, <2>4, InsertKeepsStore
  <2>6. \E step, k : Suits(step, k) /\ Goto(p, step, k) /\ step \notin Tells
    <3>1. CASE job[p].who \in Agents /\ Goto(p, "warn", job[p])
      <4>1. Suits("warn", job[p])
        BY <1>3, <3>1 DEF Suits, JobOK, Steps
      <4> QED
        BY <3>1, <4>1 DEF Tells
    <3>2. CASE NextAddress(p)
      BY <1>1, <3>2, NextAddressSuits
    <3> QED
      BY <1>5, <3>1, <3>2
  <2> QED
    BY <1>1, <2>4, <2>5, <2>6, CallStores
<1> QED
  BY <1>2, <1>4, <1>5

LEMMA WarnStep ==
    ASSUME BusInv, NEW p \in Procs, Warn(p)
    PROVE  BusInv'
<1> DEFINE j == job[p]  new == System(j.team, {j.who}, <<j.who, "depth">>)
<1>1. /\ at[p] = "warn" /\ at[p] \notin Tells /\ Same /\ UNCHANGED <<guards, history>>
      /\ at[p] # "idle"
  BY DEF Warn, Tells
<1>2. \/ Return(p) /\ UNCHANGED store
      \/ Insert(new) /\ NextAddress(p)
  BY DEF Warn
<1>3. j.who \in Agents /\ j.team \in Teams
  BY <1>1, JobIs DEF JobOK
<1>4. CASE Return(p) /\ UNCHANGED store
  BY <1>1, <1>4, EndsSuit, CallGoesOn DEF Return, Tells
<1>5. CASE Insert(new) /\ NextAddress(p)
  <2>1. new \in MessageRows /\ new.id = made + 1 /\ new.channel = NoChannel
    <3> HIDE DEF j
    <3>1. made + 1 \in Nat
      BY DEF BusInv, StoreTypes
    <3>2. <<j.who, "depth">> \in Subjects
      BY <1>3 DEF Subjects
    <3> HIDE DEF ChannelRows, NoChannel, Subjects
    <3> QED
      BY <1>3, <3>1, <3>2 DEF MessageRows, System
  <2> HIDE DEF new
  <2>2. UNCHANGED <<guards, passed, AfterBlocks>> /\ UNCHANGED <<since, joined>>
    BY <1>1 DEF history, AfterBlocks, guards
  <2>3. StoreTypes' /\ NoticesStay
    BY <1>5, <2>1, <2>2, InsertKeepsStore
  <2>4. \E step, k : Suits(step, k) /\ Goto(p, step, k) /\ step \notin Tells
    BY <1>1, <1>5, NextAddressSuits
  <2> QED
    BY <1>1, <2>2, <2>3, <2>4, CallStores
<1> QED
  BY <1>2, <1>4, <1>5

LEMMA WriteStep ==
    ASSUME BusInv, NEW p \in Procs, Write(p)
    PROVE  BusInv'
<1> DEFINE j == job[p]  works == j.channel \in channels /\ j.for \subseteq Team(j.team)
           mine == [team |-> j.team, slug |-> Head(j.to), who |-> j.who, n |-> j.n]
<1>1. /\ at[p] = "write" /\ at[p] \notin Tells /\ Same /\ Return(p)
      /\ UNCHANGED <<guards, agents, channels, messages, made, passed, since, refused, raced, mixed>>
      /\ members' = IF works THEN {x \in members : x[1] # j.channel} \cup ({j.channel} \X j.for)
                    ELSE members
      /\ joined' = IF works /\ j.who \in j.for THEN joined \cup {mine} ELSE joined
  BY DEF Write, Tells
<1>2. /\ j.who \in Agents \cup {"human"} /\ j.team \in Teams
      /\ j.n \in Nat \ {0} /\ Head(j.to) \in Addresses
  BY <1>1, JobIs
<1>3. UNCHANGED <<guards, passed, AfterBlocks>> /\ NoticesStay
  BY <1>1 DEF AfterBlocks, NoticesStay, guards
<1>4. StoreTypes
  BY DEF BusInv
<1> HIDE DEF j
<1>5. members' \subseteq channels \X agents
  <2>1. members \subseteq channels \X agents
    BY <1>4 DEF StoreTypes
  <2>2. CASE works
    <3>1. {j.channel} \X j.for \subseteq channels \X agents
      BY <2>2 DEF Team
    <3>2. {x \in members : x[1] # j.channel} \subseteq channels \X agents
      BY <2>1
    <3> QED
      BY <1>1, <2>2, <3>1, <3>2
  <2>3. CASE ~ works
    BY <1>1, <2>1, <2>3
  <2> QED
    BY <2>2, <2>3
<1>6. joined' \subseteq Joins
  <2>1. mine \in Joins
    BY <1>2 DEF Joins
  <2> HIDE DEF mine, works
  <2> QED
    BY <1>1, <1>4, <2>1 DEF StoreTypes
<1>7. StoreTypes'
  BY <1>1, <1>4, <1>5, <1>6 DEF StoreTypes
<1> QED
  BY <1>1, <1>3, <1>7, EndsSuit, CallStores DEF Return, Tells

LEMMA DeleteStep ==
    ASSUME BusInv, NEW p \in Procs, Delete(p)
    PROVE  BusInv'
<1>1. PICK c : c = job[p].channel
  OBVIOUS
<1>2. /\ at[p] = "delete" /\ at[p] \notin Tells /\ Same /\ Return(p)
      /\ channels' = channels \ {c} /\ members' = OtherMembers(c)
      /\ messages' = {m \in messages : m.channel # c}
      /\ UNCHANGED <<agents, made, guards, history>>
  BY <1>1 DEF Delete, Tells
<1>3. c # NoChannel
  BY <1>1, <1>2, JobIs DEF JobOK
<1>4. UNCHANGED <<guards, passed, AfterBlocks>> /\ UNCHANGED <<since, joined>>
  BY <1>2 DEF history, AfterBlocks, guards
<1>5. NoticesStay
  BY <1>2, <1>3 DEF NoticesStay
<1>6. StoreTypes
  BY DEF BusInv
<1>7. members' \subseteq channels' \X agents
  <2>1. \A x \in members : x \in channels \X agents /\ (x[1] # c => x \in channels' \X agents)
    <3>1. members \subseteq channels \X agents
      BY <1>6 DEF StoreTypes
    <3> QED
      BY <1>2, <3>1
  <2> QED
    BY <1>2, <2>1 DEF OtherMembers
<1>8. \A m \in messages' : m.id \in 1 .. made' /\ m.channel \in channels' \cup {NoChannel}
  BY <1>2, <1>6 DEF StoreTypes
<1>9. StoreTypes'
  BY <1>2, <1>4, <1>6, <1>7, <1>8 DEF StoreTypes
<1> QED
  BY <1>2, <1>4, <1>5, <1>9, EndsSuit, CallStores DEF Return, Tells

LEMMA DeleteAgentStep ==
    ASSUME BusInv, NEW a \in Agents, DeleteAgent(a)
    PROVE  BusInv'
<1>1. /\ agents' = agents \ {a} /\ members' = {x \in members : x[2] # a}
      /\ joined' = {x \in joined : x.who # a}
      /\ messages' = {[m EXCEPT !.for = @ \ {a}, !.due = @ \ {a}] : m \in messages}
      /\ UNCHANGED <<channels, made, guards, at, job, passed, since, refused, raced, mixed>>
      /\ Same
  BY DEF DeleteAgent
<1>2. GuardTypes /\ StoreTypes /\ JobTypes /\ LimitsInv /\ ToldInv
  BY DEF BusInv
<1>3. \A m \in messages :
          LET n == [m EXCEPT !.for = @ \ {a}, !.due = @ \ {a}]
          IN  /\ n \in MessageRows /\ n.id = m.id /\ n.channel = m.channel /\ n.about = m.about
  <2> TAKE m \in messages
  <2>1. m \in MessageRows
    BY <1>2 DEF StoreTypes
  <2> HIDE DEF ChannelRows, NoChannel, Subjects
  <2> QED
    BY <2>1 DEF MessageRows
<1>4. NoticesStay
  BY <1>1, <1>3 DEF NoticesStay
<1>5. members' \subseteq channels' \X agents'
  <2>1. \A x \in members : x[2] # a => x \in channels \X (agents \ {a})
    <3>1. members \subseteq channels \X agents
      BY <1>2 DEF StoreTypes
    <3> QED
      BY <3>1
  <2> QED
    BY <1>1, <2>1
<1>6. /\ messages' \subseteq MessageRows
      /\ \A m \in messages' : m.id \in 1 .. made' /\ m.channel \in channels' \cup {NoChannel}
  <2>1. \A m \in messages : m.id \in 1 .. made /\ m.channel \in channels \cup {NoChannel}
    BY <1>2 DEF StoreTypes
  <2> QED
    BY <1>1, <1>3, <2>1, ZenonT(60)
<1>7. StoreTypes'
  BY <1>1, <1>2, <1>5, <1>6 DEF StoreTypes
<1>8. /\ UNCHANGED <<now, guards, part, passed, refused>> /\ calls' \in Nat
      /\ UNCHANGED AfterBlocks
  BY <1>1, <1>2 DEF Same, guards, AfterBlocks, GuardTypes
<1>9. GuardTypes' /\ LimitsInv'
  BY <1>2, <1>8, GuardsStay
<1>10. JobTypes' /\ TellersStay
  BY <1>1, <1>2 DEF JobTypes, TellersStay
<1>11. ToldInv'
  BY <1>2, <1>4, <1>8, <1>10, ToldStays
<1> QED
  BY <1>7, <1>9, <1>10, <1>11 DEF BusInv

LEMMA NoticeStep ==
    ASSUME BusInv, NEW p \in Procs, Notice(p)
    PROVE  BusInv'
<1> PICK j : j = job[p]
  OBVIOUS
<1> DEFINE x == IF j.reason = "budget" THEN j.team ELSE j.who
           new == System(j.team, {}, <<x, j.reason>>)
<1>1. /\ at[p] = "notice" /\ Same /\ UNCHANGED <<guards, history>> /\ Insert(new)
      /\ Goto(p, "idle", NoJob)
  BY DEF Notice, Return
<1>2. GuardTypes /\ StoreTypes /\ JobTypes /\ LimitsInv /\ ToldInv
  BY DEF BusInv
<1>3. j.who \in Agents /\ j.team \in Teams /\ j.reason \in Reasons /\ j.team = Home[j.who]
  BY <1>1, JobIs DEF JobOK
<1>4. new \in MessageRows /\ new.id = made + 1 /\ new.channel = NoChannel
      /\ new.about = <<x, j.reason>>
  <2>1. made + 1 \in Nat
    BY <1>2 DEF StoreTypes
  <2>2. <<x, j.reason>> \in Subjects
    BY <1>3 DEF Subjects
  <2> HIDE DEF ChannelRows, NoChannel, Subjects, x
  <2> QED
    BY <1>3, <2>1, <2>2 DEF MessageRows, System
<1>5. /\ UNCHANGED <<guards, passed, AfterBlocks>> /\ UNCHANGED <<since, joined>>
      /\ UNCHANGED <<now, guards, part, passed, refused>> /\ calls' \in Nat
  BY <1>1, <1>2 DEF history, AfterBlocks, guards, Same, GuardTypes
<1> HIDE DEF new
<1>6. StoreTypes' /\ NoticesStay /\ new \in messages'
  BY <1>1, <1>4, <1>5, InsertKeepsStore
<1>7. /\ JobTypes' /\ at'[p] = "idle"
      /\ \A q \in Procs : q # p => at'[q] = at[q] /\ job'[q] = job[q]
  BY <1>1, <1>2, EndsSuit, JobsGo
<1>8. GuardTypes' /\ LimitsInv'
  BY <1>2, <1>5, GuardsStay
<1>9. Noted(x, j.reason)'
  <2>1. since[x] \in 0 .. made /\ made \in Nat
    BY <1>2, <1>3 DEF StoreTypes
  <2> HIDE DEF x
  <2>2. PICK subject : subject = <<x, j.reason>>
    OBVIOUS
  <2>3. PICK m : m = new
    OBVIOUS
  <2>4. m \in messages' /\ m.about = subject /\ m.id > since[x] /\ m.channel = NoChannel
    BY <1>4, <1>6, <2>1, <2>2, <2>3
  <2> QED
    BY <1>5, <2>2, <2>4 DEF Noted
<1>10. \A y, r : Noted(y, r) => Noted(y, r)'
  BY <1>5, <1>6, NotedStays
<1>11. \A a \in Agents : \A r \in {"rate", "repeated"} : NoticeOf(a, r) => NoticeOf(a, r)'
  <2> TAKE a \in Agents
  <2> TAKE r \in {"rate", "repeated"}
  <2>1. ASSUME NEW q \in Procs, On(q, "notice", a, r) PROVE NoticeOf(a, r)'
    <3>1. CASE q = p
      <4>1. a = x /\ r = j.reason
        BY <2>1, <3>1 DEF On
      <4> QED
        BY <1>9, <4>1 DEF NoticeOf
    <3>2. CASE q # p
      BY <1>7, <2>1, <3>2 DEF On, NoticeOf
    <3> QED
      BY <3>1, <3>2
  <2> QED
    BY <1>10, <2>1 DEF NoticeOf
<1>12. \A t : PauseNotice(t) => PauseNotice(t)'
  <2> TAKE t
  <2>1. ASSUME NEW q \in Procs, OfTeam(q, "notice", t) PROVE PauseNotice(t)'
    <3>1. CASE q = p
      <4>1. t = x /\ j.reason = "budget"
        BY <2>1, <3>1 DEF OfTeam
      <4> QED
        BY <1>9, <4>1 DEF PauseNotice
    <3>2. CASE q # p
      BY <1>7, <2>1, <3>2 DEF OfTeam, PauseNotice
    <3> QED
      BY <3>1, <3>2
  <2> QED
    BY <1>10, <2>1 DEF PauseNotice
<1>13. /\ \A q \in Procs : \A a, r : On(q, "blocked", a, r)' <=> On(q, "blocked", a, r)
       /\ \A q \in Procs : \A t : OfTeam(q, "blocked", t)' <=> OfTeam(q, "blocked", t)
  BY <1>1, <1>7 DEF On, OfTeam
<1>14. /\ announced' = announced /\ announced_pause' = announced_pause
       /\ paused' = paused /\ raced' = raced /\ refused' = refused
       /\ \A a \in Agents : refused[a] \subseteq {"rate", "repeated"}
  BY <1>2, <1>5 DEF AfterBlocks, GuardTypes
<1>15. RefusalsAreTold'
  BY <1>2, <1>11, <1>13, <1>14 DEF ToldInv, RefusalsAreTold
<1>16. PausesAreTold'
  BY <1>2, <1>12, <1>13, <1>14 DEF ToldInv, PausesAreTold
<1> QED
  BY <1>6, <1>7, <1>8, <1>15, <1>16 DEF BusInv, ToldInv

\* A block that is not the first of its episode was told before.
LEMMA BlockStep ==
    ASSUME BusInv, NEW p \in Procs, Block(p)
    PROVE  BusInv'
<1> PICK j : j = job[p]
  OBVIOUS
<1> PICK step, k : /\ step = (IF IsFirst(j.who, j.reason) THEN "notice" ELSE "idle")
                   /\ k = (IF IsFirst(j.who, j.reason) THEN j ELSE NoJob)
  OBVIOUS
<1>1. /\ at[p] = "blocked" /\ Same /\ UNCHANGED <<store, history>> /\ Goto(p, step, k)
      /\ FirstBlock(j.who, j.reason)
  BY DEF Block, Return
<1>2. GuardTypes /\ StoreTypes /\ JobTypes /\ LimitsInv /\ ToldInv
  BY DEF BusInv
<1>3. /\ j.who \in Agents /\ j.team \in Teams /\ j.reason \in Reasons /\ j.team = Home[j.who]
      /\ JobOK("blocked", j)
  BY <1>1, JobIs DEF JobOK
<1>4. Suits(step, k)
  <2>1. JobOK("notice", j)
    BY <1>3 DEF JobOK
  <2> QED
    BY <2>1, EndsSuit DEF Suits, Steps
<1>5. /\ JobTypes' /\ at'[p] = step /\ job'[p] = k
      /\ \A q \in Procs : q # p => at'[q] = at[q] /\ job'[q] = job[q]
  BY <1>1, <1>2, <1>4, JobsGo
<1>6. /\ since' = since /\ raced' = raced /\ refused' = refused /\ passed' = passed
      /\ joined' = joined /\ paused' = paused /\ UNCHANGED store
      /\ now' = now /\ part' = part /\ calls' = calls
      /\ UNCHANGED <<config, per_agent, per_team, repeats>>
  BY <1>1 DEF history, FirstBlock, Same
<1>7. StoreTypes' /\ NoticesStay
  BY <1>2, <1>6, StoreStays
<1>8. /\ announced' \in [Agents -> {None, "rate", "repeated"}] /\ announced_pause' \subseteq Teams
      /\ \A a \in Agents : a # j.who \/ j.reason = "budget" => announced'[a] = announced[a]
      /\ j.reason # "budget" => announced'[j.who] = j.reason /\ announced_pause' = announced_pause
      /\ j.reason = "budget" => announced_pause' = announced_pause \cup {j.team}
  BY <1>1, <1>2, <1>3 DEF FirstBlock, GuardTypes, Reasons
<1>9. GuardTypes'
  BY <1>2, <1>6, <1>8 DEF GuardTypes
<1>10. LimitsInv'
  <2>1. Times' = Times /\ \A x : FreshOf(x)' = FreshOf(x) /\ FreshIn(x)' = FreshIn(x)
    BY <1>6 DEF Times, FreshOf, FreshIn
  <2>2. LogsFollow' /\ InOrderOfTime'
    BY <1>2, <1>6, <2>1 DEF LimitsInv, LogsFollow, InOrderOfTime
  <2>3. LimitsHold' /\ RepeatsAreCounted'
    BY <1>2, <1>6, HistoryStays DEF LimitsInv, RepeatsAreCounted
  <2> QED
    BY <2>2, <2>3 DEF LimitsInv
<1>11. /\ \A x, r : Noted(x, r) => Noted(x, r)'
  BY <1>6, <1>7, NotedStays
<1>12. /\ \A a, r : NoticeOf(a, r) => NoticeOf(a, r)'
       /\ \A t : PauseNotice(t) => PauseNotice(t)'
  <2>1. \A q \in Procs : \A a, r : On(q, "notice", a, r) => On(q, "notice", a, r)'
    BY <1>1, <1>5 DEF On
  <2>2. \A q \in Procs : \A t : OfTeam(q, "notice", t) => OfTeam(q, "notice", t)'
    BY <1>1, <1>5 DEF OfTeam
  <2> QED
    BY <1>11, <2>1, <2>2 DEF NoticeOf, PauseNotice
<1>13. j.reason # "budget" => NoticeOf(j.who, j.reason)'
  <2> SUFFICES ASSUME j.reason # "budget" PROVE NoticeOf(j.who, j.reason)'
    OBVIOUS
  <2>1. CASE IsFirst(j.who, j.reason)
    <3>1. On(p, "notice", j.who, j.reason)'
      BY <1>5, <2>1 DEF On
    <3> QED
      BY <3>1 DEF NoticeOf
  <2>2. CASE ~ IsFirst(j.who, j.reason)
    <3>1. announced[j.who] = j.reason /\ j.reason \in {"rate", "repeated"}
      BY <1>3, <2>2 DEF IsFirst, Reasons
    <3>2. NoticeOf(j.who, j.reason)
      BY <1>2, <1>3, <3>1 DEF ToldInv, RefusalsAreTold
    <3> QED
      BY <1>12, <3>2
  <2> QED
    BY <2>1, <2>2
<1>14. RefusalsAreTold'
  <2>1. ASSUME NEW a \in Agents, announced'[a] \in {"rate", "repeated"}
        PROVE  NoticeOf(a, announced[a])'
    <3>1. PICK r : r = announced'[a]
      OBVIOUS
    <3>2. CASE a = j.who /\ j.reason # "budget"
      <4>1. r = j.reason
        BY <1>8, <3>1, <3>2
      <4>2. NoticeOf(a, r)'
        BY <1>13, <3>2, <4>1
      <4> QED
        BY <3>1, <4>2
    <3>3. CASE a # j.who \/ j.reason = "budget"
      <4>1. r = announced[a] /\ r \in {"rate", "repeated"}
        BY <1>8, <2>1, <3>1, <3>3
      <4>2. NoticeOf(a, r)
        BY <1>2, <4>1 DEF ToldInv, RefusalsAreTold
      <4>3. NoticeOf(a, r)'
        BY <1>12, <4>2
      <4> QED
        BY <3>1, <4>3
    <3> QED
      BY <3>2, <3>3
  <2>2. ASSUME NEW a \in Agents, NEW r \in refused'[a]
        PROVE  NoticeOf(a, r)' \/ \E q \in Procs : On(q, "blocked", a, r)'
    <3>1. r \in refused[a] /\ r \in {"rate", "repeated"}
      BY <1>2, <1>6, <2>2 DEF GuardTypes
    <3>2. NoticeOf(a, r) \/ \E q \in Procs : On(q, "blocked", a, r)
      BY <1>2, <3>1 DEF ToldInv, RefusalsAreTold
    <3>3. ASSUME NEW q \in Procs, On(q, "blocked", a, r)
          PROVE  NoticeOf(a, r)' \/ On(q, "blocked", a, r)'
      <4>1. CASE q = p
        BY <1>13, <3>1, <3>3, <4>1 DEF On
      <4>2. CASE q # p
        BY <1>5, <3>3, <4>2 DEF On
      <4> QED
        BY <4>1, <4>2
    <3> QED
      BY <1>12, <3>2, <3>3
  <2> QED
    BY <2>1, <2>2 DEF RefusalsAreTold
<1>15. PausesAreTold'
  <2> SUFFICES ASSUME NEW t \in Teams \ raced
               PROVE  /\ t \in announced_pause' => t \in paused /\ PauseNotice(t)'
                      /\ \A q \in Procs : OfTeam(q, "blocked", t)' => t \in paused
                      /\ t \in paused => \/ t \in announced_pause'
                                         \/ \E q \in Procs : OfTeam(q, "blocked", t)'
    BY <1>6 DEF PausesAreTold
  <2>1. /\ t \in announced_pause => t \in paused /\ PauseNotice(t)
        /\ \A q \in Procs : OfTeam(q, "blocked", t) => t \in paused
        /\ t \in paused => t \in announced_pause \/ \E q \in Procs : OfTeam(q, "blocked", t)
    BY <1>2 DEF ToldInv, PausesAreTold
  <2>2. \A q \in Procs : OfTeam(q, "blocked", t)' => OfTeam(q, "blocked", t)
    BY <1>5 DEF OfTeam
  <2>3. ASSUME j.reason = "budget", t = j.team
        PROVE  t \in paused /\ t \in announced_pause' /\ PauseNotice(t)'
    <3>1. OfTeam(p, "blocked", t)
      BY <1>1, <2>3 DEF OfTeam
    <3>2. PauseNotice(t)'
      <4>1. CASE IsFirst(j.who, j.reason)
        <5>1. OfTeam(p, "notice", t)'
          BY <1>5, <2>3, <4>1 DEF OfTeam
        <5> QED
          BY <5>1 DEF PauseNotice
      <4>2. CASE ~ IsFirst(j.who, j.reason)
        <5>1. t \in announced_pause
          BY <1>3, <2>3, <4>2 DEF IsFirst
        <5> QED
          BY <1>12, <2>1, <5>1
      <4> QED
        BY <4>1, <4>2
    <3> QED
      BY <1>8, <2>1, <2>3, <3>1, <3>2
  <2>4. ASSUME ~ (j.reason = "budget" /\ t = j.team)
        PROVE  /\ t \in announced_pause' <=> t \in announced_pause
               /\ \A q \in Procs : OfTeam(q, "blocked", t) => OfTeam(q, "blocked", t)'
    <3>1. t \in announced_pause' <=> t \in announced_pause
      BY <1>8, <2>4
    <3>2. \A q \in Procs : OfTeam(q, "blocked", t) => q # p
      BY <2>4 DEF OfTeam
    <3>3. \A q \in Procs : OfTeam(q, "blocked", t) => OfTeam(q, "blocked", t)'
      BY <1>5, <3>2 DEF OfTeam
    <3> QED
      BY <3>1, <3>3
  <2> QED
    BY <1>12, <2>1, <2>2, <2>3, <2>4
<1> QED
  BY <1>5, <1>7, <1>9, <1>10, <1>14, <1>15 DEF BusInv, ToldInv

\* The log of the guards is a list of times, whatever it is sifted by.
LEMMA LogsAreLogs ==
    ASSUME GuardTypes, NEW a \in Agents, NEW t \in Teams
    PROVE  Within(per_agent[a], Minute) \in Seq(Nat) /\ Within(per_team[t], Hour) \in Seq(Nat)
<1>1. per_agent[a] \in Seq(Nat) /\ per_team[t] \in Seq(Nat)
  BY DEF GuardTypes
<1> QED
  BY <1>1, SiftedIsThinned DEF Within

LEMMA PassStep ==
    ASSUME BusInv, NEW p \in Procs, at[p] = "admit", Same, UNCHANGED <<store, raced, joined, mixed>>,
           NEW j, j = job[p], NEW key, key = <<Head(j.to), j.body>>,
           Verdict(j.who, key) = "pass", Count(j.who, key), Goto(p, "route", j),
           passed' = Append(passed, Row(j.who, key)),
           since' = [since EXCEPT ![j.who] = made], refused' = [refused EXCEPT ![j.who] = {}]
    PROVE  BusInv'
<1>1. GuardTypes /\ StoreTypes /\ JobTypes /\ LimitsInv /\ ToldInv
  BY DEF BusInv
<1>2. /\ j.who \in Agents /\ j.team = Home[j.who] /\ Head(j.to) \in Addresses /\ j.body \in Bodies
      /\ j \in JobRows(j.depth) /\ j.to # <<>> /\ Home[j.who] \in Teams /\ j.who \notin Teams
  <2>1. Agents \cap Teams = {} /\ Home \in [Agents -> Teams]
    BY BusAssumption, GuardsAssumption
  <2>2. JobOK("admit", j) /\ Head(j.to) \in Addresses /\ j.body \in Bodies
    BY JobIs
  <2> QED
    BY <2>1, <2>2 DEF JobOK
<1>3. key \in Keys
  BY <1>2 DEF Keys
<1>4. PICK n : n = Len(passed) + 1
  OBVIOUS
<1>5. Passes(n, j.who, key)
  BY <1>4 DEF Passes, Same
<1>6. LimitsInv'
  BY <1>1, <1>2, <1>3, <1>5, PassKeepsLimits
<1>7. passed' \in Seq(PassRows)
  BY <1>1, <1>2, <1>3, <1>5, PassedGrows
<1>8. /\ now' = now /\ config' = config /\ part' = part /\ calls' = calls
      /\ paused' = paused /\ announced_pause' = announced_pause
      /\ announced' = [announced EXCEPT ![j.who] = None]
      /\ per_agent' = [per_agent EXCEPT ![j.who] = Append(Within(per_agent[j.who], Minute), now)]
      /\ per_team' = [per_team EXCEPT ![Home[j.who]] = Append(Within(per_team[Home[j.who]], Hour), now)]
      /\ repeats' = [repeats EXCEPT ![j.who] = [key |-> key, n |-> Repeated(j.who, key) + 1, last |-> now]]
  BY DEF Same, Count
<1>9. GuardTypes'
  <2>1. now \in Nat
    BY <1>1 DEF GuardTypes
  <2>2. /\ per_agent' \in [Agents -> Seq(Nat)] /\ per_team' \in [Teams -> Seq(Nat)]
    <3>1. /\ Within(per_agent[j.who], Minute) \in Seq(Nat)
          /\ Within(per_team[Home[j.who]], Hour) \in Seq(Nat)
      BY <1>1, <1>2, LogsAreLogs
    <3>2. /\ Append(Within(per_agent[j.who], Minute), now) \in Seq(Nat)
          /\ Append(Within(per_team[Home[j.who]], Hour), now) \in Seq(Nat)
      BY <2>1, <3>1
    <3>3. per_agent \in [Agents -> Seq(Nat)] /\ per_team \in [Teams -> Seq(Nat)]
      BY <1>1 DEF GuardTypes
    <3> QED
      BY <1>8, <3>2, <3>3
  <2>3. repeats' \in [Agents -> [key : Keys \cup {None}, n : Nat, last : Nat]]
    <3>1. repeats \in [Agents -> [key : Keys \cup {None}, n : Nat, last : Nat]]
      BY <1>1 DEF GuardTypes
    <3>2. Repeated(j.who, key) + 1 \in Nat
      BY <1>2, <3>1 DEF Repeated
    <3> HIDE DEF Keys
    <3>3. [key |-> key, n |-> Repeated(j.who, key) + 1, last |-> now] \in
             [key : Keys \cup {None}, n : Nat, last : Nat]
      BY <1>3, <2>1, <3>2
    <3> QED
      BY <1>8, <3>1, <3>3
  <2>4. announced' \in [Agents -> {None, "rate", "repeated"}]
    BY <1>1, <1>8 DEF GuardTypes
  <2>5. refused' \in [Agents -> SUBSET {"rate", "repeated"}]
    BY <1>1 DEF GuardTypes
  <2> QED
    BY <1>1, <1>7, <1>8, <2>2, <2>3, <2>4, <2>5 DEF GuardTypes
<1>10. /\ agents' = agents /\ channels' = channels /\ members' = members
       /\ messages' = messages /\ made' = made /\ joined' = joined
  BY DEF store
<1>11. StoreTypes'
  <2>1. made \in Nat /\ since \in [Agents \cup Teams -> 0 .. made]
    BY <1>1 DEF StoreTypes
  <2>2. made \in 0 .. made
    BY <2>1
  <2>3. since' \in [Agents \cup Teams -> 0 .. made]
    BY <2>1, <2>2
  <2> QED
    BY <1>1, <1>10, <2>3 DEF StoreTypes
<1>12. Suits("route", j)
  BY <1>2, JobSuits DEF Steps
<1>13. JobTypes' /\ TellersStay
  BY <1>1, <1>12, JobsGo, OthersTell DEF Tells
<1>14. \A x \in Agents \cup Teams : x # j.who => \A r : Noted(x, r) => Noted(x, r)'
  <2>1. \A x \in Agents \cup Teams : x # j.who => since'[x] = since[x]
    BY <1>1 DEF StoreTypes
  <2> QED
    BY <1>10, <2>1 DEF Noted
<1>15. /\ \A q \in Procs : \A step \in Tells : \A a, r : On(q, step, a, r)' <=> On(q, step, a, r)
       /\ \A q \in Procs : \A step \in Tells : \A t : OfTeam(q, step, t)' <=> OfTeam(q, step, t)
  BY <1>13 DEF TellersStay, On, OfTeam
<1>16. /\ \A a \in Agents : a # j.who => \A r : NoticeOf(a, r) => NoticeOf(a, r)'
       /\ \A t \in Teams : PauseNotice(t) => PauseNotice(t)'
  BY <1>2, <1>14, <1>15 DEF NoticeOf, PauseNotice, Tells
<1>17. RefusalsAreTold'
  <2>1. /\ \A a \in Agents : a # j.who => announced'[a] = announced[a] /\ refused'[a] = refused[a]
        /\ announced'[j.who] = None /\ refused'[j.who] = {} /\ None \notin {"rate", "repeated"}
    BY <1>1, <1>2, <1>8, GuardsAssumption DEF GuardTypes
  <2>2. ASSUME NEW a \in Agents, a # j.who
        PROVE  /\ announced'[a] \in {"rate", "repeated"} => NoticeOf(a, announced[a])'
               /\ \A r \in refused'[a] : NoticeOf(a, r)' \/ \E q \in Procs : On(q, "blocked", a, r)'
    <3>1. PICK x : x = announced[a]
      OBVIOUS
    <3>2. /\ x \in {"rate", "repeated"} => NoticeOf(a, x)
          /\ \A r \in refused[a] : NoticeOf(a, r) \/ \E q \in Procs : On(q, "blocked", a, r)
      BY <1>1, <3>1 DEF ToldInv, RefusalsAreTold
    <3>3. x = announced'[a] /\ refused'[a] = refused[a]
      BY <2>1, <2>2, <3>1
    <3>4. /\ x \in {"rate", "repeated"} => NoticeOf(a, x)'
          /\ \A r \in refused[a] : NoticeOf(a, r)' \/ \E q \in Procs : On(q, "blocked", a, r)'
      BY <1>15, <1>16, <2>2, <3>2 DEF Tells
    <3> QED
      BY <3>3, <3>4
  <2>3. ASSUME NEW a \in Agents, a = j.who
        PROVE  announced'[a] \notin {"rate", "repeated"} /\ refused'[a] = {}
    BY <2>1, <2>3
  <2> QED
    BY <2>2, <2>3 DEF RefusalsAreTold
<1>18. PausesAreTold'
  BY <1>1, <1>8, <1>15, <1>16 DEF ToldInv, PausesAreTold, Tells
<1> QED
  BY <1>6, <1>9, <1>11, <1>13, <1>17, <1>18 DEF BusInv, ToldInv

LEMMA RefuseStep ==
    ASSUME BusInv, NEW p \in Procs, at[p] = "admit", Same,
           UNCHANGED <<store, passed, raced, joined, mixed>>,
           NEW j, j = job[p], NEW key, key = <<Head(j.to), j.body>>,
           NEW verdict, verdict = Verdict(j.who, key), verdict # "pass",
           Refuse(j.who, key), Goto(p, "blocked", Refused(j, verdict)),
           since' = IF paused' # paused THEN [since EXCEPT ![j.team] = made] ELSE since,
           refused' = IF verdict = "budget" THEN refused
                      ELSE [refused EXCEPT ![j.who] = @ \cup {verdict}]
    PROVE  BusInv'
<1>1. GuardTypes /\ StoreTypes /\ JobTypes /\ LimitsInv /\ ToldInv
  BY DEF BusInv
<1>2. /\ j.who \in Agents /\ j.team = Home[j.who] /\ Head(j.to) \in Addresses /\ j.body \in Bodies
      /\ j \in JobRows(j.depth) /\ j.to # <<>> /\ j.team \in Teams
      /\ \A a \in Agents : a \notin Teams
  <2>1. Agents \cap Teams = {} /\ Home \in [Agents -> Teams]
    BY BusAssumption, GuardsAssumption
  <2>2. JobOK("admit", j) /\ Head(j.to) \in Addresses /\ j.body \in Bodies
    BY JobIs
  <2> QED
    BY <2>1, <2>2 DEF JobOK
<1>3. key \in Keys
  BY <1>2 DEF Keys
<1>4. verdict \in Reasons
  BY DEF Verdict, Reasons
<1>5. /\ now' = now /\ part' = part /\ calls' = calls /\ config' = config
      /\ passed' = passed /\ raced' = raced /\ joined' = joined
      /\ agents' = agents /\ channels' = channels /\ members' = members
      /\ messages' = messages /\ made' = made
      /\ repeats' = repeats /\ announced' = announced /\ announced_pause' = announced_pause
      /\ paused' = IF verdict = "budget" THEN paused \cup {j.team} ELSE paused
  BY <1>2 DEF store, Same, Refuse
<1>6. LimitsInv'
  BY <1>1, <1>2, <1>3, <1>5, RefusalKeepsLimits
<1>7. PICK k : k = Refused(j, verdict)
  OBVIOUS
<1>8. k \in JobRows(k.depth) /\ k.to = j.to /\ k.who = j.who /\ k.team = j.team /\ k.reason = verdict
  BY <1>2, <1>4, <1>7, RefusedIsJob
<1>9. Suits("blocked", k) /\ Goto(p, "blocked", k)
  <2>1. JobOK("blocked", k)
    BY <1>2, <1>4, <1>8 DEF JobOK
  <2> QED
    BY <1>7, <2>1 DEF Suits, Steps
<1>10. /\ JobTypes' /\ at'[p] = "blocked" /\ job'[p] = k
       /\ \A q \in Procs : q # p => at'[q] = at[q] /\ job'[q] = job[q]
  BY <1>1, <1>9, JobsGo
<1>11. GuardTypes'
  <2>1. /\ per_agent' \in [Agents -> Seq(Nat)] /\ per_team' \in [Teams -> Seq(Nat)]
    <3>1. /\ Within(per_agent[j.who], Minute) \in Seq(Nat)
          /\ Within(per_team[j.team], Hour) \in Seq(Nat)
      BY <1>1, <1>2, LogsAreLogs
    <3>2. per_agent \in [Agents -> Seq(Nat)] /\ per_team \in [Teams -> Seq(Nat)]
      BY <1>1 DEF GuardTypes
    <3>3. /\ per_agent' = per_agent \/ per_agent' = [per_agent EXCEPT ![j.who] = Within(per_agent[j.who], Minute)]
          /\ per_team' = per_team \/ per_team' = [per_team EXCEPT ![j.team] = Within(per_team[j.team], Hour)]
      BY <1>2 DEF Refuse
    <3>4. PICK log, hour : /\ log = Within(per_agent[j.who], Minute)
                           /\ hour = Within(per_team[j.team], Hour)
      OBVIOUS
    <3>5. per_agent' \in [Agents -> Seq(Nat)]
      BY <3>1, <3>2, <3>3, <3>4
    <3>6. per_team' \in [Teams -> Seq(Nat)]
      BY <3>1, <3>2, <3>3, <3>4
    <3> QED
      BY <3>5, <3>6
  <2>2. refused' \in [Agents -> SUBSET {"rate", "repeated"}]
    <3>1. refused \in [Agents -> SUBSET {"rate", "repeated"}]
      BY <1>1 DEF GuardTypes
    <3>2. verdict # "budget" => verdict \in {"rate", "repeated"}
      BY <1>4 DEF Reasons
    <3> QED
      BY <3>1, <3>2
  <2> QED
    BY <1>1, <1>2, <1>5, <2>1, <2>2 DEF GuardTypes
<1>12. StoreTypes'
  <2>1. made \in Nat /\ since \in [Agents \cup Teams -> 0 .. made]
    BY <1>1 DEF StoreTypes
  <2>2. made \in 0 .. made
    BY <2>1
  <2>3. since' \in [Agents \cup Teams -> 0 .. made]
    BY <2>1, <2>2
  <2> QED
    BY <1>1, <1>5, <2>3 DEF StoreTypes
<1>13. \A x \in Agents \cup Teams : paused' = paused \/ x # j.team =>
           since'[x] = since[x] /\ \A r : Noted(x, r) => Noted(x, r)'
  <2>1. \A x \in Agents \cup Teams : paused' = paused \/ x # j.team => since'[x] = since[x]
    BY <1>1 DEF StoreTypes
  <2> QED
    BY <1>5, <2>1 DEF Noted
<1>14. /\ \A q \in Procs : \A a, r : On(q, "notice", a, r)' <=> On(q, "notice", a, r)
       /\ \A q \in Procs : \A t : OfTeam(q, "notice", t)' <=> OfTeam(q, "notice", t)
       /\ \A q \in Procs : \A a, r : On(q, "blocked", a, r) => On(q, "blocked", a, r)'
       /\ \A q \in Procs : \A t : OfTeam(q, "blocked", t) => OfTeam(q, "blocked", t)'
       /\ On(p, "blocked", j.who, verdict)'
       /\ \A q \in Procs : \A t : OfTeam(q, "blocked", t)' =>
              OfTeam(q, "blocked", t) \/ (t = j.team /\ verdict = "budget")
       /\ verdict = "budget" => OfTeam(p, "blocked", j.team)'
  BY <1>8, <1>10 DEF On, OfTeam
<1>15. \A a \in Agents : \A r : NoticeOf(a, r) => NoticeOf(a, r)'
  BY <1>2, <1>13, <1>14 DEF NoticeOf
<1>16. \A t \in Teams : (paused' = paused \/ t # j.team) => (PauseNotice(t) => PauseNotice(t)')
  BY <1>13, <1>14 DEF PauseNotice
<1>17. RefusalsAreTold'
  <2>1. \A a \in Agents : announced[a] \in {"rate", "repeated"} => NoticeOf(a, announced[a])'
    <3> TAKE a \in Agents
    <3>1. PICK x : x = announced[a]
      OBVIOUS
    <3>2. x \in {"rate", "repeated"} => NoticeOf(a, x)
      BY <1>1, <3>1 DEF ToldInv, RefusalsAreTold
    <3>3. x \in {"rate", "repeated"} => NoticeOf(a, x)'
      BY <1>15, <3>2
    <3>4. x = announced'[a]
      BY <1>5, <3>1
    <3> QED
      BY <3>1, <3>3, <3>4
  <2>2. \A a \in Agents : \A r \in refused[a] :
            NoticeOf(a, r)' \/ \E q \in Procs : On(q, "blocked", a, r)'
    <3>1. \A a \in Agents : \A r \in refused[a] :
            NoticeOf(a, r) \/ \E q \in Procs : On(q, "blocked", a, r)
      BY <1>1 DEF ToldInv, RefusalsAreTold
    <3> QED
      BY <1>14, <1>15, <3>1
  <2>3. \A a \in Agents : \A r \in refused'[a] : r \in refused[a] \/ (a = j.who /\ r = verdict)
    BY <1>1, <1>2 DEF GuardTypes
  <2> QED
    BY <1>5, <1>14, <2>1, <2>2, <2>3 DEF RefusalsAreTold
<1>18. PausesAreTold'
  <2> SUFFICES ASSUME NEW t \in Teams \ raced
               PROVE  /\ t \in announced_pause => t \in paused' /\ PauseNotice(t)'
                      /\ \A q \in Procs : OfTeam(q, "blocked", t)' => t \in paused'
                      /\ t \in paused' => \/ t \in announced_pause
                                          \/ \E q \in Procs : OfTeam(q, "blocked", t)'
    BY <1>5 DEF PausesAreTold
  <2>1. /\ t \in announced_pause => t \in paused /\ PauseNotice(t)
        /\ \A q \in Procs : OfTeam(q, "blocked", t) => t \in paused
        /\ t \in paused => t \in announced_pause \/ \E q \in Procs : OfTeam(q, "blocked", t)
    BY <1>1 DEF ToldInv, PausesAreTold
  <2>2. paused \subseteq paused' /\ (verdict = "budget" => j.team \in paused')
        /\ \A x \in paused' : x \in paused \/ (x = j.team /\ verdict = "budget")
    BY <1>5
  <2>3. t \in announced_pause => PauseNotice(t)'
    <3> SUFFICES ASSUME t \in announced_pause PROVE PauseNotice(t)'
      OBVIOUS
    <3>1. t \in paused /\ PauseNotice(t)
      BY <2>1
    <3>2. paused' = paused \/ t # j.team
      BY <1>5, <3>1
    <3> QED
      BY <1>16, <3>1, <3>2
  <2> QED
    BY <1>14, <2>1, <2>2, <2>3
<1> QED
  BY <1>6, <1>10, <1>11, <1>12, <1>17, <1>18 DEF BusInv, ToldInv

LEMMA AdmitStep ==
    ASSUME BusInv, NEW p \in Procs, Admit(p)
    PROVE  BusInv'
<1>1. PICK j : j = job[p]
  OBVIOUS
<1>2. PICK key : key = <<Head(j.to), j.body>>
  OBVIOUS
<1>3. PICK verdict : verdict = Verdict(j.who, key)
  OBVIOUS
<1>4. /\ at[p] = "admit" /\ Same /\ UNCHANGED <<store, raced, joined, mixed>>
      /\ \/ /\ verdict = "pass" /\ Count(j.who, key) /\ Goto(p, "route", j)
            /\ passed' = Append(passed, Row(j.who, key))
            /\ since' = [since EXCEPT ![j.who] = made]
            /\ refused' = [refused EXCEPT ![j.who] = {}]
         \/ /\ verdict # "pass" /\ Refuse(j.who, key)
            /\ Goto(p, "blocked", Refused(j, verdict))
            /\ since' = IF paused' # paused THEN [since EXCEPT ![j.team] = made] ELSE since
            /\ refused' = IF verdict = "budget" THEN refused
                          ELSE [refused EXCEPT ![j.who] = @ \cup {verdict}]
            /\ UNCHANGED passed
  BY <1>1, <1>2, <1>3 DEF Admit, Row, Refused
<1>5. CASE verdict = "pass"
  BY <1>1, <1>2, <1>3, <1>4, <1>5, PassStep
<1>6. CASE verdict # "pass"
  BY <1>1, <1>2, <1>3, <1>4, <1>6, RefuseStep
<1> QED
  BY <1>5, <1>6

\* A resume forgets the blocks of every agent, and the notice of the team.
LEMMA ResumeStep ==
    ASSUME BusInv, NEW t \in Teams, ResumeTeam(t)
    PROVE  BusInv'
<1>1. GuardTypes /\ StoreTypes /\ JobTypes /\ LimitsInv /\ ToldInv
  BY DEF BusInv
<1>2. /\ now' = now /\ part' = part /\ calls' = calls /\ config' = config
      /\ agents' = agents /\ channels' = channels /\ members' = members
      /\ messages' = messages /\ made' = made /\ joined' = joined
      /\ at' = at /\ job' = job /\ since' = since /\ refused' = refused
      /\ repeats' = repeats /\ per_agent' = per_agent
      /\ per_team' = [per_team EXCEPT ![t] = <<>>]
      /\ paused' = paused \ {t} /\ announced_pause' = announced_pause \ {t}
      /\ announced' = [a \in Agents |-> None]
  BY DEF ResumeTeam, Resume, Same, store
<1>3. raced' = IF \E p \in Procs : at[p] = "blocked" /\ job[p].team = t
               THEN raced \cup {t} ELSE raced
  BY DEF ResumeTeam
<1>4. LimitsInv' /\ passed' \in Seq(PassRows)
  BY <1>1, ResumeKeepsLimits
<1>5. GuardTypes'
  BY <1>1, <1>2, <1>4 DEF GuardTypes
<1>6. StoreTypes' /\ JobTypes'
  BY <1>1, <1>2 DEF StoreTypes, JobTypes
<1>7. /\ \A q, step, a, r : On(q, step, a, r)' <=> On(q, step, a, r)
      /\ \A q, step, s : OfTeam(q, step, s)' <=> OfTeam(q, step, s)
      /\ \A x, r : Noted(x, r)' <=> Noted(x, r)
  BY <1>2 DEF On, OfTeam, Noted
<1>8. /\ \A a, r : NoticeOf(a, r)' <=> NoticeOf(a, r)
      /\ \A s : PauseNotice(s)' <=> PauseNotice(s)
  BY <1>7 DEF NoticeOf, PauseNotice
<1>9. RefusalsAreTold'
  <2>1. \A a \in Agents : announced'[a] = None /\ None \notin {"rate", "repeated"}
    BY <1>2, GuardsAssumption
  <2>2. \A a \in Agents : \A r \in refused[a] :
            NoticeOf(a, r) \/ \E q \in Procs : On(q, "blocked", a, r)
    BY <1>1 DEF ToldInv, RefusalsAreTold
  <2> QED
    BY <1>2, <1>7, <1>8, <2>1, <2>2 DEF RefusalsAreTold
<1>10. PausesAreTold'
  <2> SUFFICES ASSUME NEW s \in Teams \ raced'
               PROVE  /\ s \in announced_pause' => s \in paused' /\ PauseNotice(s)
                      /\ \A q \in Procs : OfTeam(q, "blocked", s) => s \in paused'
                      /\ s \in paused' => \/ s \in announced_pause'
                                          \/ \E q \in Procs : OfTeam(q, "blocked", s)
    BY <1>7, <1>8 DEF PausesAreTold
  <2>1. s \in Teams \ raced
    BY <1>3
  <2>2. /\ s \in announced_pause => s \in paused /\ PauseNotice(s)
        /\ \A q \in Procs : OfTeam(q, "blocked", s) => s \in paused
        /\ s \in paused => s \in announced_pause \/ \E q \in Procs : OfTeam(q, "blocked", s)
    BY <1>1, <2>1 DEF ToldInv, PausesAreTold
  <2>3. s = t => \A q \in Procs : ~ OfTeam(q, "blocked", s)
    BY <1>3 DEF OfTeam
  <2> QED
    BY <1>2, <2>2, <2>3
<1> QED
  BY <1>4, <1>5, <1>6, <1>9, <1>10 DEF BusInv, ToldInv

LEMMA LimitsStep ==
    ASSUME BusInv, NEW c \in Limits[part], SetLimits(c)
    PROVE  BusInv'
<1>1. GuardTypes /\ StoreTypes /\ JobTypes /\ LimitsInv /\ ToldInv
  BY DEF BusInv
<1>2. /\ now' = now /\ part' = part /\ calls' = calls /\ config' = c /\ passed' = passed
      /\ repeats' = repeats /\ per_agent' = per_agent /\ per_team' = per_team
      /\ UNCHANGED <<store, since, joined>> /\ at' = at /\ job' = job
      /\ UNCHANGED AfterBlocks
  BY DEF SetLimits, SetConfig, Same, history, AfterBlocks
<1>3. c \in Configs
  BY <1>1, BusAssumption DEF GuardTypes
<1>4. GuardTypes'
  BY <1>1, <1>2, <1>3 DEF GuardTypes, AfterBlocks
<1>5. LimitsInv'
  <2>1. Times' = Times /\ \A x : FreshOf(x)' = FreshOf(x) /\ FreshIn(x)' = FreshIn(x)
    BY <1>2 DEF Times, FreshOf, FreshIn
  <2>2. LogsFollow' /\ InOrderOfTime'
    BY <1>1, <1>2, <2>1 DEF LimitsInv, LogsFollow, InOrderOfTime
  <2>3. LimitsHold' /\ RepeatsAreCounted'
    BY <1>1, <1>2, HistoryStays DEF LimitsInv, RepeatsAreCounted
  <2> QED
    BY <2>2, <2>3 DEF LimitsInv
<1>6. StoreTypes' /\ NoticesStay
  BY <1>1, <1>2, StoreStays
<1>7. JobTypes' /\ TellersStay
  BY <1>1, <1>2 DEF JobTypes, TellersStay
<1>8. ToldInv'
  BY <1>1, <1>2, <1>6, <1>7, ToldStays
<1> QED
  BY <1>4, <1>5, <1>6, <1>7, <1>8 DEF BusInv

LEMMA TimeStep ==
    ASSUME BusInv, Tick
    PROVE  BusInv'
<1>1. GuardTypes /\ StoreTypes /\ JobTypes /\ LimitsInv /\ ToldInv
  BY DEF BusInv
<1>2. /\ now < MaxNow /\ now' = now + 1 /\ part' = part /\ calls' = calls /\ UNCHANGED guards
      /\ passed' = passed /\ UNCHANGED <<store, since, joined>> /\ at' = at /\ job' = job
      /\ UNCHANGED AfterBlocks /\ UNCHANGED <<config, passed, repeats, per_agent, per_team>>
  BY DEF Tick, history, AfterBlocks, guards
<1>3. now' \in 0 .. MaxNow
  BY <1>1, <1>2, BusAssumption DEF GuardTypes
<1>4. GuardTypes'
  BY <1>1, <1>2, <1>3 DEF GuardTypes, AfterBlocks
<1>5. LimitsInv'
  BY <1>1, <1>2, TimeKeepsLimits
<1>6. StoreTypes' /\ NoticesStay
  BY <1>1, <1>2, StoreStays
<1>7. JobTypes' /\ TellersStay
  BY <1>1, <1>2 DEF JobTypes, TellersStay
<1>8. ToldInv'
  BY <1>1, <1>2, <1>6, <1>7, ToldStays
<1> QED
  BY <1>4, <1>5, <1>6, <1>7, <1>8 DEF BusInv

LEMMA NothingStep ==
    ASSUME BusInv, UNCHANGED vars
    PROVE  BusInv'
<1>1. GuardTypes /\ StoreTypes /\ JobTypes /\ LimitsInv /\ ToldInv
  BY DEF BusInv
<1>2. /\ UNCHANGED <<now, guards, part, passed, refused>> /\ calls' = calls
      /\ UNCHANGED <<store, since, joined>> /\ at' = at /\ job' = job
      /\ UNCHANGED AfterBlocks
  BY DEF vars, history, AfterBlocks, guards
<1>3. GuardTypes' /\ LimitsInv'
  <2>1. calls' \in Nat
    BY <1>1, <1>2 DEF GuardTypes
  <2> QED
    BY <1>1, <1>2, <2>1, GuardsStay
<1>4. StoreTypes' /\ NoticesStay
  BY <1>1, <1>2, StoreStays
<1>5. JobTypes' /\ TellersStay
  BY <1>1, <1>2 DEF JobTypes, TellersStay
<1>6. ToldInv'
  BY <1>1, <1>2, <1>4, <1>5, ToldStays
<1> QED
  BY <1>3, <1>4, <1>5, <1>6 DEF BusInv

------------------------------------------------------------------------------
(* What follows from it.                                                        *)

LEMMA InitIsFine == Init => BusInv
<1> SUFFICES ASSUME Init PROVE BusInv
  OBVIOUS
<1>1. GuardTypes
  <2>1. /\ part \in Parts /\ config \in Configs /\ now \in 0 .. MaxNow
    BY BusAssumption DEF Init, GuardsInit
  <2>2. /\ per_agent = [a \in Agents |-> <<>>] /\ per_team = [t \in Teams |-> <<>>]
        /\ <<>> \in Seq(Nat) /\ <<>> \in Seq(PassRows)
    BY DEF Init, GuardsInit
  <2>3. repeats \in [Agents -> [key : Keys \cup {None}, n : Nat, last : Nat]]
    <3> HIDE DEF Keys
    <3> QED
      BY DEF Init, GuardsInit, NoRepeat
  <2>4. per_agent \in [Agents -> Seq(Nat)] /\ per_team \in [Teams -> Seq(Nat)]
    BY <2>2
  <2> QED
    BY <2>1, <2>2, <2>3, <2>4 DEF GuardTypes, Init, GuardsInit
<1>2. StoreTypes
  BY DEF Init, StoreTypes
<1>3. JobTypes
  BY DEF Init, JobTypes, Steps
<1>4. passed = <<>> /\ DOMAIN passed = {}
  BY DEF Init
<1>5. LimitsInv
  <2>1. LogsFollow
    <3> DEFINE f == [k \in {} |-> 0]
    <3>1. f \in [{} -> DOMAIN <<>>]
      OBVIOUS
    <3> HIDE DEF f
    <3>2. Follows({}, Times, <<>>)
      BY <3>1 DEF Follows
    <3>3. \A x : FreshOf(x) = {} /\ FreshIn(x) = {}
      BY <1>4 DEF FreshOf, FreshIn
    <3>4. (\A a \in Agents : per_agent[a] = <<>>) /\ (\A t \in Teams : per_team[t] = <<>>)
      BY DEF Init, GuardsInit
    <3> QED
      BY <3>2, <3>3, <3>4 DEF LogsFollow
  <2> QED
    BY <1>4, <2>1 DEF LimitsInv, InOrderOfTime, RepeatsAreCounted, LimitsHold
<1>6. ToldInv
  <2>1. /\ \A a \in Agents : announced[a] = None /\ refused[a] = {} /\ None \notin {"rate", "repeated"}
        /\ paused = {} /\ announced_pause = {} /\ \A p \in Procs : at[p] # "blocked"
    BY GuardsAssumption DEF Init, GuardsInit
  <2> QED
    BY <2>1 DEF ToldInv, RefusalsAreTold, PausesAreTold, OfTeam
<1> QED
  BY <1>1, <1>2, <1>3, <1>5, <1>6 DEF BusInv

LEMMA GuardsFollow == BusInv => GuardsHold
<1> SUFFICES ASSUME BusInv PROVE GuardsHold
  OBVIOUS
<1>1. GuardTypes /\ StoreTypes /\ JobTypes /\ LimitsInv /\ ToldInv
  BY DEF BusInv
<1>2. TypeOK
  <2>1. \A p \in Procs : at[p] = "idle" <=> job[p] = NoJob
    <3> TAKE p \in Procs
    <3>1. CASE at[p] = "idle"
      BY <1>1, <3>1 DEF JobTypes
    <3>2. CASE at[p] # "idle"
      <4>1. job[p].op # "none"
        BY <3>2, JobIs
      <4> QED
        BY <3>2, <4>1 DEF NoJob
    <3> QED
      BY <3>1, <3>2
  <2> QED
    BY <1>1, <2>1 DEF TypeOK, GuardTypes, StoreTypes, JobTypes
<1>3. LimitsHold
  BY <1>1 DEF LimitsInv
<1>4. \A x, r : Noted(x, r) => Told(x, r)
  BY DEF Noted, Told
<1>5. \A p \in Procs : \A a, r : On(p, "blocked", a, r) \/ On(p, "notice", a, r) => Telling(a)
  BY DEF On, Telling
<1>6. \A p \in Procs : \A t : OfTeam(p, "blocked", t) \/ OfTeam(p, "notice", t) => Telling(t)
  BY DEF OfTeam, Telling
<1>7. /\ \A a, r : NoticeOf(a, r) => Telling(a) \/ Told(a, r)
      /\ \A t : PauseNotice(t) => Telling(t) \/ Told(t, "budget")
  BY <1>4, <1>5, <1>6 DEF NoticeOf, PauseNotice
<1>8. \A t \in paused \ raced : Telling(t) \/ Told(t, "budget")
  <2>1. paused \subseteq Teams
    BY <1>1 DEF GuardTypes
  <2>2. \A t \in Teams \ raced :
            /\ t \in announced_pause => t \in paused /\ PauseNotice(t)
            /\ t \in paused => t \in announced_pause \/ \E p \in Procs : OfTeam(p, "blocked", t)
    BY <1>1 DEF ToldInv, PausesAreTold
  <2> QED
    BY <1>6, <1>7, <2>1, <2>2
<1>9. \A a \in Agents : \A r \in refused[a] : Telling(a) \/ Told(a, r)
  BY <1>1, <1>5, <1>7 DEF ToldInv, RefusalsAreTold
<1> QED
  BY <1>2, <1>3, <1>8, <1>9 DEF GuardsHold, BlockIsTold

LEMMA BusStep == BusInv /\ [Next]_vars => BusInv'
<1> SUFFICES ASSUME BusInv, [Next]_vars PROVE BusInv'
  OBVIOUS
<1>1. CASE \E p \in Procs : CallNext(p)
  <2>1. PICK p \in Procs : CallNext(p)
    BY <1>1
  <2> QED
    BY <2>1, BeginStep, AdmitStep, BlockStep, NoticeStep, RouteStep, FindStep, CreateStep,
       RefindStep, ReadStep, InsertMessageStep, WarnStep, WriteStep, DeleteStep DEF CallNext
<1>2. CASE Tick \/ \E t \in Teams : ResumeTeam(t)
  BY <1>2, TimeStep, ResumeStep
<1>3. CASE \E c \in Limits[part] : SetLimits(c)
  BY <1>3, LimitsStep
<1>4. CASE \E a \in Agents : DeleteAgent(a)
  BY <1>4, DeleteAgentStep
<1>5. CASE UNCHANGED vars
  BY <1>5, NothingStep
<1> QED
  BY <1>1, <1>2, <1>3, <1>4, <1>5 DEF Next

\* What the guards refuse they refuse in time, and they say so: in no window of
\* time do more messages pass than the limits in force, of an agent, of a team
\* or the same one again, and every block is told but for a resume in between.
THEOREM GuardsHoldAlways == Spec => []GuardsHold
BY InitIsFine, BusStep, GuardsFollow, PTL DEF Spec

------------------------------------------------------------------------------
(* Who joined a channel gets what is sent to it: of the calls under way, none   *)
(* takes away a member that joined, unless two edits of the channel overlap.    *)

\* The joins that a call is to heed: a message, those there were when its call began.
NamedBy(j, x) == x.slug = Head(j.to) /\ x.team = j.team
HeededBy(j, x) == NamedBy(j, x) /\ (j.op = "send" => x \in j.expected)

\* Which calls come to which step, and whose channel they have by then.
OpFits(step, j) ==
    /\ j.op # "send" => step \in {"find", "create", "read", "write", "delete"}
    /\ step = "delete" => j.op = "delete"
    /\ step = "read" => j.op \in {"send", "join", "leave"}
    /\ step = "create" => j.op \in {"send", "save"}
    /\ step = "write" => j.op \in {"save", "join", "leave"}
    /\ j.op # "send" \/ step \in {"find", "create", "refind", "read"} => Head(j.to) \in Slugs
    /\ step \in {"read", "write", "delete"} => j.channel.team = j.team /\ j.channel.slug = Head(j.to)
PlacesFit == \A p \in Procs : at[p] # "idle" => OpFits(at[p], job[p])
\* A call has a number of its own, and a join that of a call that is over.
NumbersApart ==
    /\ \A p \in Procs : at[p] # "idle" => job[p].n <= calls
    /\ \A x \in joined : x.n <= calls
    /\ \A p \in Procs : at[p] # "idle" => \A x \in job[p].expected : x.n <= calls
    /\ \A p, q \in Procs : at[p] # "idle" /\ at[q] # "idle" =>
          /\ p # q => job[p].n # job[q].n
          /\ \A x \in job[p].expected : x.n # job[q].n
    /\ \A q \in Procs : at[q] # "idle" => \A x \in joined : x.n # job[q].n
EditsApart ==
    \A p, q \in Procs :
        p # q /\ at[p] # "idle" /\ at[q] # "idle" /\ job[p].op # "send" /\ job[q].op # "send"
          /\ Head(job[p].to) = Head(job[q].to) => Head(job[p].to) \in mixed
IsMember(x, chans, mems) ==
    \E c \in chans : c.team = x.team /\ c.slug = x.slug /\ <<c, x.who>> \in mems
JoinedAreMembers ==
    \A x \in joined :
        /\ x.who \in agents /\ Home[x.who] = x.team /\ x.slug \in Slugs
        /\ x.slug \notin mixed => IsMember(x, channels, members)
\* What a call knows of a join it is to heed, at each of its steps.
Heeds(step, j, x, chans) ==
    /\ j.op \notin {"save", "delete"}
    /\ x.who = j.who => j.op # "leave"
    /\ j.op = "send" /\ step \in {"find", "create", "refind", "read", "insert"} =>
         x.who \in j.for \cup {j.who}
    /\ step = "read" => j.channel \in chans
    /\ step = "write" => x.who \in j.for
CallsHeed ==
    \A p \in Procs : at[p] # "idle" =>
        \A x \in joined : x.slug \notin mixed /\ HeededBy(job[p], x) =>
            Heeds(at[p], job[p], x, channels)
JoinInv == PlacesFit /\ NumbersApart /\ EditsApart /\ JoinedAreMembers /\ CallsHeed

\* A call that goes on is the same call.
Continues(i, j) ==
    /\ j.n = i.n /\ j.expected = i.expected
    /\ j.op # "send" => i.op # "send" /\ Head(j.to) = Head(i.to)
HeedsAll(step, j, chans) ==
    \A x \in joined : x.slug \notin mixed /\ HeededBy(j, x) => Heeds(step, j, x, chans)

LEMMA GotoFacts ==
    ASSUME BusInv, NEW p \in Procs, NEW step, NEW j, Goto(p, step, j)
    PROVE  /\ at'[p] = step /\ job'[p] = j
           /\ \A q \in Procs : q # p => at'[q] = at[q] /\ job'[q] = job[q]
BY DEF BusInv, JobTypes, Goto

\* A step of a call that leaves the joins and adds at most a channel.
LEMMA CallKeepsJoins ==
    ASSUME BusInv, JoinInv, NEW p \in Procs, at[p] # "idle", NEW step, NEW j, Goto(p, step, j),
           step # "idle" => Continues(job[p], j) /\ OpFits(step, j) /\ HeedsAll(step, j, channels'),
           UNCHANGED <<calls, joined, mixed, agents, members>>, channels \subseteq channels'
    PROVE  JoinInv'
<1>1. /\ at'[p] = step /\ job'[p] = j
      /\ \A q \in Procs : q # p => at'[q] = at[q] /\ job'[q] = job[q]
  BY GotoFacts
<1>2. /\ calls' = calls /\ joined' = joined /\ mixed' = mixed /\ agents' = agents
      /\ members' = members
  OBVIOUS
<1>3. PlacesFit'
  BY <1>1 DEF JoinInv, PlacesFit
<1>4. NumbersApart'
  BY <1>1, <1>2 DEF JoinInv, NumbersApart, Continues
<1>5. EditsApart'
  BY <1>1, <1>2 DEF JoinInv, EditsApart, Continues
<1>6. JoinedAreMembers'
  BY <1>2 DEF JoinInv, JoinedAreMembers, IsMember
<1>7. \A i, x, s : Heeds(s, i, x, channels) => Heeds(s, i, x, channels')
  BY DEF Heeds
<1>8. CallsHeed'
  BY <1>1, <1>2, <1>7 DEF JoinInv, CallsHeed, HeedsAll
<1> QED
  BY <1>3, <1>4, <1>5, <1>6, <1>8 DEF JoinInv

LEMMA JoinsRest ==
    ASSUME JoinInv, UNCHANGED <<at, job, calls, joined, mixed, agents, members, channels>>
    PROVE  JoinInv'
<1>1. /\ at' = at /\ job' = job /\ calls' = calls /\ joined' = joined /\ mixed' = mixed
      /\ agents' = agents /\ members' = members /\ channels' = channels
  OBVIOUS
<1> QED
  BY <1>1 DEF JoinInv, PlacesFit, NumbersApart, EditsApart, JoinedAreMembers, CallsHeed

LEMMA EndKeepsJoins ==
    ASSUME BusInv, JoinInv, NEW p \in Procs, at[p] # "idle", Return(p),
           UNCHANGED <<calls, joined, mixed, agents, members, channels>>
    PROVE  JoinInv'
BY CallKeepsJoins DEF Return

\* A message that is before the guards, or is refused by them, heeds nothing yet.
Early == {"admit", "route", "blocked", "notice", "warn"}
LEMMA EarlyHeeds ==
    ASSUME NEW step \in Early, NEW j, j.op = "send", NEW chans
    PROVE  OpFits(step, j) /\ HeedsAll(step, j, chans)
BY DEF Early, OpFits, HeedsAll, Heeds
LEMMA EarlySends ==
    ASSUME JoinInv, NEW p \in Procs, at[p] \in Early \cup {"refind", "insert"}
    PROVE  at[p] # "idle" /\ job[p].op = "send"
BY DEF JoinInv, PlacesFit, OpFits, Early

LEMMA JoinsBegin ==
    ASSUME BusInv, JoinInv, NEW p \in Procs, NEW j \in Jobs[part], Begin(p, j)
    PROVE  JoinInv'
<1>1. PICK n \in (IF j.reply THEN {m.id : m \in {x \in messages : x.team = j.team}} ELSE {0}) :
        Goto(p, First(j), [op |-> j.op, who |-> j.who, team |-> j.team, to |-> j.to,
                           body |-> j.body, for |-> j.for, parent |-> n, n |-> calls + 1,
                           channel |-> NoChannel, depth |-> 0, reason |-> None,
                           expected |-> joined])
  BY DEF Begin
<1> PICK row : row = [op |-> j.op, who |-> j.who, team |-> j.team, to |-> j.to,
                      body |-> j.body, for |-> j.for, parent |-> n, n |-> calls + 1,
                      channel |-> NoChannel, depth |-> 0, reason |-> None,
                      expected |-> joined]
  OBVIOUS
<1>2. row.op = j.op /\ row.who = j.who /\ row.team = j.team /\ row.to = j.to /\ row.n = calls + 1
      /\ row.expected = joined
  OBVIOUS
<1>3. /\ at'[p] = First(j) /\ job'[p] = row
      /\ \A q \in Procs : q # p => at'[q] = at[q] /\ job'[q] = job[q]
  BY <1>1, GotoFacts
<1>4. /\ j.op \in {"send"} \cup Edits /\ (j.op \in Edits => Head(j.to) \in Slugs)
      /\ calls \in Nat
  <2>1. part \in Parts /\ calls \in Nat
    BY DEF BusInv, GuardTypes
  <2>2. j \in [op : {"send"} \cup Edits, who : Agents \cup {"human"}, team : Teams,
               to : Seq(Addresses), body : Bodies, reply : BOOLEAN, for : SUBSET Agents]
        /\ (j.op \in Edits => Head(j.to) \in Slugs)
    BY <2>1, BusAssumption
  <2> HIDE DEF Edits, Addresses
  <2> QED
    BY <2>1, <2>2
<1>5. /\ at[p] = "idle" /\ calls' = calls + 1 /\ joined' = joined \ Undone(j)
      /\ mixed' = IF j.op \in Edits /\ \E q \in Procs : EditedBy(q, Head(j.to))
                  THEN mixed \cup {Head(j.to)} ELSE mixed
      /\ agents' = agents /\ channels' = channels /\ members' = members
  BY DEF Begin, store
<1>6. First(j) = IF j.op # "send" THEN "find" ELSE IF j.who \in Agents THEN "admit" ELSE "route"
  BY DEF First
<1>7. PlacesFit'
  <2>1. OpFits(First(j), row)
    BY <1>2, <1>4, <1>6 DEF OpFits
  <2> QED
    BY <1>3, <2>1 DEF JoinInv, PlacesFit
<1>8. NumbersApart'
  <2>1. \A q \in Procs : at[q] # "idle" => job[q].n \in Nat
    BY JobIs
  <2>2. \A x \in joined : x.n \in Nat
    BY DEF BusInv, StoreTypes, Joins
  <2>3. \A q \in Procs : at[q] # "idle" => \A x \in job[q].expected : x.n \in Nat
    <3> TAKE q \in Procs
    <3> HAVE at[q] # "idle"
    <3>1. job[q] \in JobRows(job[q].depth)
      BY JobIs
    <3>2. job[q].expected \subseteq Joins
      <4> HIDE DEF Edits, Addresses, Joins, NoChannel, ChannelRows, Reasons
      <4> QED
        BY <3>1 DEF JobRows
    <3> QED
      BY <3>2 DEF Joins
  <2>4. joined' \subseteq joined
    BY <1>5
  <2>5. \A q \in Procs : at'[q] # "idle" => job'[q].n <= calls'
    BY <2>1, <1>2, <1>3, <1>4, <1>5 DEF JoinInv, NumbersApart
  <2>6. \A x \in joined' : x.n <= calls'
    BY <2>2, <2>4, <1>4, <1>5 DEF JoinInv, NumbersApart
  <2>7. \A q \in Procs : at'[q] # "idle" => \A x \in job'[q].expected : x.n <= calls'
    BY <2>2, <2>3, <1>2, <1>3, <1>4, <1>5 DEF JoinInv, NumbersApart
  <2>8. \A q \in Procs : at'[q] # "idle" => \A x \in joined' : x.n # job'[q].n
    BY <2>2, <2>4, <1>2, <1>3, <1>4, <1>5 DEF JoinInv, NumbersApart
  <2>9. ASSUME NEW q \in Procs, NEW r \in Procs, at'[q] # "idle", at'[r] # "idle"
        PROVE  /\ q # r => job'[q].n # job'[r].n
               /\ \A x \in job'[q].expected : x.n # job'[r].n
    <3>1. CASE q = p /\ r = p
      BY <3>1, <2>2, <1>2, <1>3, <1>4 DEF JoinInv, NumbersApart
    <3>2. CASE q = p /\ r # p
      BY <3>2, <2>1, <2>2, <2>9, <1>2, <1>3, <1>4 DEF JoinInv, NumbersApart
    <3>3. CASE q # p /\ r = p
      BY <3>3, <2>1, <2>3, <2>9, <1>2, <1>3, <1>4 DEF JoinInv, NumbersApart
    <3>4. CASE q # p /\ r # p
      BY <3>4, <2>9, <1>3 DEF JoinInv, NumbersApart
    <3> QED
      BY <3>1, <3>2, <3>3, <3>4
  <2> QED
    BY <2>5, <2>6, <2>7, <2>8, <2>9 DEF NumbersApart
<1>9. EditsApart'
  <2> SUFFICES ASSUME NEW q \in Procs, NEW r \in Procs, q # r, at'[q] # "idle", at'[r] # "idle",
                      job'[q].op # "send", job'[r].op # "send",
                      Head(job'[q].to) = Head(job'[r].to)
               PROVE  Head(job'[q].to) \in mixed'
    BY DEF EditsApart
  <2>1. ASSUME NEW s \in Procs, s # p, at[s] # "idle", job[s].op # "send", j.op # "send",
               Head(job[s].to) = Head(j.to)
        PROVE  Head(j.to) \in mixed'
    <3>1. job[s].op \in Edits
      BY <2>1, JobIs DEF Edits
    <3>2. EditedBy(s, Head(j.to))
      BY <2>1, <3>1 DEF EditedBy
    <3> QED
      BY <3>2, <2>1, <1>4, <1>5
  <2>2. CASE q = p \/ r = p
    BY <2>1, <2>2, <1>2, <1>3
  <2>3. CASE q # p /\ r # p
    BY <2>3, <1>3, <1>5 DEF JoinInv, EditsApart
  <2> QED
    BY <2>2, <2>3
<1>10. JoinedAreMembers'
  <2>1. joined' \subseteq joined /\ mixed \subseteq mixed'
    BY <1>5
  <2> QED
    BY <2>1, <1>5 DEF JoinInv, JoinedAreMembers
<1>11. CallsHeed'
  <2> SUFFICES ASSUME NEW q \in Procs, at'[q] # "idle", NEW x \in joined', x.slug \notin mixed',
                      HeededBy(job'[q], x)
               PROVE  Heeds(at'[q], job'[q], x, channels')
    BY DEF CallsHeed
  <2>1. x \in joined /\ x.slug \notin mixed
    BY <1>5
  <2>2. CASE q # p
    BY <2>1, <2>2, <1>3, <1>5 DEF JoinInv, CallsHeed
  <2>3. CASE q = p
    <3>1. x.slug = Head(j.to) /\ x \notin Undone(j)
      BY <2>3, <1>2, <1>3, <1>5 DEF HeededBy, NamedBy
    <3>2. j.op \notin {"save", "delete"} /\ (x.who = j.who => j.op # "leave")
      BY <3>1, <2>1 DEF Undone
    <3> QED
      BY <3>2, <2>3, <1>2, <1>3, <1>6 DEF Heeds
  <2> QED
    BY <2>2, <2>3
<1> QED
  BY <1>7, <1>8, <1>9, <1>10, <1>11 DEF JoinInv

LEMMA JoinsRoute ==
    ASSUME BusInv, JoinInv, NEW p \in Procs, Route(p)
    PROVE  JoinInv'
<1>1. /\ at[p] = "route" /\ at[p] # "idle" /\ UNCHANGED <<guards, store, history>> /\ Same
      /\ job[p].op = "send"
  BY EarlySends DEF Route, Early
<1>2. /\ UNCHANGED <<calls, joined, mixed, agents, members, channels>> /\ channels' = channels
  BY <1>1 DEF store, history, Same
<1>3. CASE Return(p)
  BY <1>1, <1>2, <1>3, EndKeepsJoins
<1> PICK j : j = job[p]
  OBVIOUS
<1> DEFINE to == Head(j.to)
           others == Team(j.team) \ {j.who}
           for == CASE to \in Agents -> {to} [] to = "human" -> {} [] OTHER -> others
           depth == IF j.who = "human" THEN 0 ELSE ReplyDepth(j.parent)
           row == Routed(j, for, depth)
           step == IF to \in Slugs THEN "find" ELSE "insert"
<1>4. CASE Goto(p, step, row)
  <2>1. /\ row.op = j.op /\ row.to = j.to /\ row.who = j.who /\ row.team = j.team /\ row.n = j.n
        /\ row.expected = j.expected /\ row.for = for
    <3>1. j \in JobRows(j.depth)
      BY <1>1, JobIs
    <3> HIDE DEF for, depth, Edits, Addresses, Joins, NoChannel, ChannelRows, Reasons
    <3> QED
      BY <3>1 DEF JobRows, Routed
  <2> PICK r : r = row
    OBVIOUS
  <2> HIDE DEF row, depth
  <2>2. Continues(j, r) /\ OpFits(step, r)
    BY <1>1, <2>1 DEF Continues, OpFits
  <2>3. HeedsAll(step, r, channels')
    <3> SUFFICES ASSUME NEW x \in joined, HeededBy(r, x)
                 PROVE  Heeds(step, r, x, channels')
      BY DEF HeedsAll
    <3>1. x.slug = to /\ x.team = j.team /\ x.slug \in Slugs /\ x.who \in agents /\ Home[x.who] = x.team
      BY <2>1 DEF HeededBy, NamedBy, JoinInv, JoinedAreMembers
    <3>2. to \notin Agents /\ to # "human"
      BY <3>1, BusAssumption
    <3>3. for = others
      BY <3>2
    <3>4. x.who \in for \cup {j.who}
      BY <3>1, <3>3 DEF Team
    <3> QED
      BY <3>4, <2>1, <1>1 DEF Heeds
  <2> QED
    BY <1>1, <1>2, <1>4, <2>2, <2>3, CallKeepsJoins
<1>5. Return(p) \/ Goto(p, step, row)
  BY DEF Route, Routed
<1> QED
  BY <1>3, <1>4, <1>5

\* What a channel does to a call that found it.
LEMMA FoundFacts ==
    ASSUME BusInv, NEW p \in Procs, at[p] # "idle", NEW c
    PROVE  LET j == job[p]  r == OnChannel(j, c)
           IN  /\ r.op = j.op /\ r.to = j.to /\ r.who = j.who /\ r.team = j.team /\ r.n = j.n
               /\ r.expected = j.expected /\ r.for = j.for /\ r.channel = c
<1> PICK j : j = job[p]
  OBVIOUS
<1>1. j \in JobRows(j.depth)
  BY JobIs
<1> HIDE DEF Edits, Addresses, Joins, NoChannel, ChannelRows, Reasons
<1> QED
  BY <1>1 DEF JobRows, OnChannel

LEMMA StepHeeds ==
    ASSUME JoinInv, NEW p \in Procs, at[p] # "idle"
    PROVE  HeedsAll(at[p], job[p], channels) /\ OpFits(at[p], job[p])
BY DEF JoinInv, CallsHeed, HeedsAll, PlacesFit

\* A join that a call is to heed is of a channel that is there.
LEMMA HeededIsThere ==
    ASSUME JoinInv, NEW j, NEW x \in joined, x.slug \notin mixed, HeededBy(j, x)
    PROVE  Named(j.team, Head(j.to)) # {}
BY DEF JoinInv, JoinedAreMembers, IsMember, HeededBy, NamedBy, Named

LEMMA OnChannelHeeds ==
    ASSUME BusInv, JoinInv, NEW p \in Procs, at[p] \in {"find", "create", "refind"}, NEW c,
           c.team = job[p].team, c.slug = Head(job[p].to), NEW chans, c \in chans,
           NEW step \in {"read", "write", "delete"},
           step = "read" => job[p].op \in {"send", "join", "leave"},
           step = "write" => job[p].op = "save",
           step = "delete" => job[p].op = "delete"
    PROVE  LET r == OnChannel(job[p], c)
           IN  Continues(job[p], r) /\ OpFits(step, r) /\ HeedsAll(step, r, chans)
<1> PICK j : j = job[p]
  OBVIOUS
<1> PICK r : r = OnChannel(j, c)
  OBVIOUS
<1>1. /\ r.op = j.op /\ r.to = j.to /\ r.who = j.who /\ r.team = j.team /\ r.n = j.n
      /\ r.expected = j.expected /\ r.for = j.for /\ r.channel = c
  BY FoundFacts
<1>2. HeedsAll(at[p], j, channels) /\ OpFits(at[p], j)
  BY StepHeeds
<1>3. Continues(j, r) /\ OpFits(step, r)
  BY <1>1, <1>2 DEF Continues, OpFits
<1>4. HeedsAll(step, r, chans)
  <2> SUFFICES ASSUME NEW x \in joined, x.slug \notin mixed, HeededBy(r, x)
               PROVE  Heeds(step, r, x, chans)
    BY DEF HeedsAll
  <2>1. HeededBy(j, x)
    BY <1>1 DEF HeededBy, NamedBy
  <2>2. Heeds(at[p], j, x, channels)
    BY <2>1, <1>2 DEF HeedsAll
  <2> QED
    BY <2>2, <1>1 DEF Heeds
<1> QED
  BY <1>3, <1>4

LEMMA JoinsFind ==
    ASSUME BusInv, JoinInv, NEW p \in Procs, Find(p)
    PROVE  JoinInv'
<1>1. /\ at[p] = "find" /\ at[p] # "idle" /\ UNCHANGED <<guards, store, history>> /\ Same
  BY DEF Find
<1>2. /\ UNCHANGED <<calls, joined, mixed, agents, members, channels>> /\ channels' = channels
  BY <1>1 DEF store, history, Same
<1> DEFINE j == job[p]
           found == Named(j.team, Head(j.to))
           c == CHOOSE d \in found : TRUE
           step == CASE j.op \in {"send", "join", "leave"} -> "read"
                     [] j.op = "save" -> "write"
                     [] j.op = "delete" -> "delete"
<1>3. j.op \in {"send", "save", "delete", "join", "leave"} /\ Head(j.to) \in Slugs
  BY <1>1, JobIs, StepHeeds DEF OpFits
<1>4. CASE Return(p)
  BY <1>1, <1>2, <1>4, EndKeepsJoins
<1>5. CASE found # {} /\ Goto(p, step, OnChannel(j, c))
  <2>1. c \in channels /\ c.team = j.team /\ c.slug = Head(j.to)
    BY <1>5 DEF Named
  <2>2. /\ step \in {"read", "write", "delete"}
        /\ step = "read" => j.op \in {"send", "join", "leave"}
        /\ step = "write" => j.op = "save"
        /\ step = "delete" => j.op = "delete"
    BY <1>3
  <2> HIDE DEF c, step
  <2>3. LET r == OnChannel(j, c)
        IN  Continues(j, r) /\ OpFits(step, r) /\ HeedsAll(step, r, channels')
    BY <1>1, <1>2, <2>1, <2>2, OnChannelHeeds
  <2> QED
    BY <1>1, <1>2, <1>5, <2>3, CallKeepsJoins
<1>6. CASE found = {} /\ j.op \in {"send", "save"} /\ Goto(p, "create", j)
  <2>1. OpFits("create", j) /\ Continues(j, j)
    BY <1>3, <1>6 DEF OpFits, Continues
  <2>2. HeedsAll("create", j, channels')
    BY <1>6, HeededIsThere DEF HeedsAll
  <2> QED
    BY <1>1, <1>2, <1>6, <2>1, <2>2, CallKeepsJoins
<1>7. CASE found = {} /\ j.op = "join" /\ Goto(p, "find", Saving(j))
  <2> PICK r : r = Saving(j)
    OBVIOUS
  <2>1. /\ r.op = "save" /\ r.to = j.to /\ r.team = j.team /\ r.n = j.n /\ r.expected = j.expected
    <3> PICK i : i = job[p]
      OBVIOUS
    <3>1. i \in JobRows(i.depth)
      BY <1>1, JobIs
    <3> HIDE DEF Edits, Addresses, Joins, NoChannel, ChannelRows, Reasons
    <3> QED
      BY <3>1 DEF JobRows, Saving
  <2>2. OpFits("find", r) /\ Continues(j, r)
    BY <1>3, <1>7, <2>1 DEF OpFits, Continues
  <2>3. HeedsAll("find", r, channels')
    <3> SUFFICES ASSUME NEW x \in joined, x.slug \notin mixed, HeededBy(r, x) PROVE FALSE
      BY DEF HeedsAll
    <3>1. HeededBy(j, x)
      BY <1>7, <2>1 DEF HeededBy, NamedBy
    <3> QED
      BY <3>1, <1>7, HeededIsThere
  <2> QED
    BY <1>1, <1>2, <1>7, <2>2, <2>3, CallKeepsJoins
<1>8. \/ Return(p)
      \/ found # {} /\ Goto(p, step, OnChannel(j, c))
      \/ found = {} /\ j.op \in {"send", "save"} /\ Goto(p, "create", j)
      \/ found = {} /\ j.op = "join" /\ Goto(p, "find", Saving(j))
  BY DEF Find, OnChannel, Saving
<1> QED
  BY <1>4, <1>5, <1>6, <1>7, <1>8

LEMMA JoinsCreate ==
    ASSUME BusInv, JoinInv, NEW p \in Procs, Create(p)
    PROVE  JoinInv'
<1>1. /\ at[p] = "create" /\ at[p] # "idle" /\ Same
      /\ UNCHANGED <<agents, members, messages, made, guards, history>>
  BY DEF Create
<1>2. UNCHANGED <<calls, joined, mixed, agents, members>>
  BY <1>1 DEF history, Same
<1> DEFINE j == job[p]
           new == [n |-> j.n, team |-> j.team, slug |-> Head(j.to)]
           step == IF j.op = "send" THEN "read" ELSE "write"
<1>3. j.op \in {"send", "save"} /\ Head(j.to) \in Slugs
  BY <1>1, StepHeeds DEF OpFits
<1>4. CASE Return(p) /\ channels' = channels
  BY <1>1, <1>2, <1>4, EndKeepsJoins
<1>5. CASE channels' = channels \cup {new} /\ Goto(p, step, OnChannel(j, new))
  <2>1. new \in channels' /\ new.team = j.team /\ new.slug = Head(j.to)
    BY <1>5
  <2>2. /\ step \in {"read", "write", "delete"}
        /\ step = "read" => j.op \in {"send", "join", "leave"}
        /\ step = "write" => j.op = "save"
        /\ step # "delete"
    BY <1>3
  <2> HIDE DEF new, step
  <2>3. LET r == OnChannel(j, new)
        IN  Continues(j, r) /\ OpFits(step, r) /\ HeedsAll(step, r, channels')
    BY <1>1, <2>1, <2>2, OnChannelHeeds
  <2> QED
    BY <1>1, <1>2, <1>5, <2>3, CallKeepsJoins
<1>6. CASE j.op = "send" /\ Goto(p, "refind", j) /\ channels' = channels
  <2>1. OpFits("refind", j) /\ Continues(j, j)
    BY <1>3, <1>6 DEF OpFits, Continues
  <2>2. HeedsAll("refind", j, channels')
    BY <1>1, <1>6, StepHeeds DEF HeedsAll, Heeds
  <2> QED
    BY <1>1, <1>2, <1>6, <2>1, <2>2, CallKeepsJoins
<1>7. \/ Return(p) /\ channels' = channels
      \/ channels' = channels \cup {new} /\ Goto(p, step, OnChannel(j, new))
      \/ j.op = "send" /\ Goto(p, "refind", j) /\ channels' = channels
  BY DEF Create, OnChannel
<1> QED
  BY <1>4, <1>5, <1>6, <1>7

LEMMA JoinsRefind ==
    ASSUME BusInv, JoinInv, NEW p \in Procs, Refind(p)
    PROVE  JoinInv'
<1>1. /\ at[p] = "refind" /\ at[p] # "idle" /\ UNCHANGED <<guards, store, history>> /\ Same
      /\ job[p].op = "send"
  BY EarlySends DEF Refind
<1>2. /\ UNCHANGED <<calls, joined, mixed, agents, members, channels>> /\ channels' = channels
  BY <1>1 DEF store, history, Same
<1> DEFINE j == job[p]
           found == Named(j.team, Head(j.to))
           c == CHOOSE d \in found : TRUE
<1>3. CASE Return(p)
  BY <1>1, <1>2, <1>3, EndKeepsJoins
<1>4. CASE found # {} /\ Goto(p, "read", OnChannel(j, c))
  <2>1. c \in channels /\ c.team = j.team /\ c.slug = Head(j.to)
    BY <1>4 DEF Named
  <2> HIDE DEF c
  <2>2. LET r == OnChannel(j, c)
        IN  Continues(j, r) /\ OpFits("read", r) /\ HeedsAll("read", r, channels')
    BY <1>1, <1>2, <2>1, OnChannelHeeds
  <2> QED
    BY <1>1, <1>2, <1>4, <2>2, CallKeepsJoins
<1> QED
  BY <1>3, <1>4 DEF Refind, OnChannel

\* Of a call that read the members, who joined is among them.
LEMMA ReadFinds ==
    ASSUME BusInv, JoinInv, NEW p \in Procs, at[p] = "read", NEW x \in joined, x.slug \notin mixed,
           HeededBy(job[p], x)
    PROVE  x.who \in MembersOf(job[p].channel)
<1>1. OpFits("read", job[p]) /\ Heeds("read", job[p], x, channels)
  BY StepHeeds DEF HeedsAll
<1>2. /\ job[p].channel \in channels /\ job[p].channel.team = job[p].team
      /\ job[p].channel.slug = Head(job[p].to)
  BY <1>1 DEF OpFits, Heeds
<1>3. x.who \in agents /\ IsMember(x, channels, members)
  BY DEF JoinInv, JoinedAreMembers
<1>4. PICK c \in channels : c.team = x.team /\ c.slug = x.slug /\ <<c, x.who>> \in members
  BY <1>3 DEF IsMember
<1>5. c = job[p].channel
  BY <1>2, <1>4 DEF BusInv, StoreTypes, HeededBy, NamedBy
<1> QED
  BY <1>3, <1>4, <1>5 DEF MembersOf

LEMMA JoinsRead ==
    ASSUME BusInv, JoinInv, NEW p \in Procs, Read(p)
    PROVE  JoinInv'
<1>1. /\ at[p] = "read" /\ at[p] # "idle" /\ UNCHANGED <<guards, store, history>> /\ Same
  BY DEF Read
<1>2. /\ UNCHANGED <<calls, joined, mixed, agents, members, channels>> /\ channels' = channels
  BY <1>1 DEF store, history, Same
<1> PICK j : j = job[p]
  OBVIOUS
<1> DEFINE for == IF j.op = "send" THEN Readers(j) ELSE Subscribed(j)
           step == IF j.op = "send" THEN "insert" ELSE "write"
<1> PICK r : r = WithFor(j, for)
  OBVIOUS
<1>3. /\ r.op = j.op /\ r.to = j.to /\ r.who = j.who /\ r.team = j.team /\ r.n = j.n
      /\ r.expected = j.expected /\ r.for = for /\ r.channel = j.channel
  <2>1. j \in JobRows(j.depth)
    BY <1>1, JobIs
  <2> HIDE DEF for, Edits, Addresses, Joins, NoChannel, ChannelRows, Reasons
  <2> QED
    BY <2>1 DEF JobRows, WithFor
<1>4. OpFits("read", j) /\ j.op \in {"send", "join", "leave"}
  BY <1>1, StepHeeds DEF OpFits
<1>5. Continues(j, r) /\ OpFits(step, r)
  BY <1>3, <1>4 DEF Continues, OpFits
<1>6. HeedsAll(step, r, channels')
  <2> SUFFICES ASSUME NEW x \in joined, x.slug \notin mixed, HeededBy(r, x)
               PROVE  Heeds(step, r, x, channels')
    BY DEF HeedsAll
  <2>1. HeededBy(j, x)
    BY <1>3 DEF HeededBy, NamedBy
  <2>2. Heeds("read", j, x, channels)
    BY <2>1, <1>1, StepHeeds DEF HeedsAll
  <2>3. x.who \in MembersOf(j.channel)
    BY <2>1, <1>1, ReadFinds
  <2>4. CASE j.op = "send"
    <3>1. x.who \in j.for \cup {j.who}
      BY <2>2, <2>4 DEF Heeds
    <3>2. x.who \in for \cup {j.who}
      BY <3>1, <2>3, <2>4 DEF Readers
    <3> QED
      BY <3>2, <2>4, <1>3 DEF Heeds
  <2>5. CASE j.op # "send"
    <3>1. x.who = j.who => j.op = "join"
      BY <2>2, <2>5, <1>4 DEF Heeds
    <3>2. x.who \in for
      BY <3>1, <2>3, <2>5 DEF Subscribed
    <3> QED
      BY <3>1, <3>2, <2>5, <1>3, <1>4 DEF Heeds
  <2> QED
    BY <2>4, <2>5
<1>7. Goto(p, step, r)
  BY DEF Read, WithFor
<1> QED
  BY <1>1, <1>2, <1>5, <1>6, <1>7, CallKeepsJoins

\* A message goes on to its next address.
LEMMA JoinsNextAddress ==
    ASSUME BusInv, JoinInv, NEW p \in Procs, at[p] \in Early \cup {"insert"}, NextAddress(p),
           UNCHANGED <<calls, joined, mixed, agents, members, channels>>
    PROVE  JoinInv'
<1>1. at[p] # "idle" /\ job[p].op = "send"
  BY EarlySends
<1> PICK j : j = job[p]
  OBVIOUS
<1> PICK r : r = NextOne(j)
  OBVIOUS
<1>2. r.op = j.op /\ r.n = j.n /\ r.expected = j.expected
  <2>1. j \in JobRows(j.depth)
    BY <1>1, JobIs
  <2> HIDE DEF Edits, Addresses, Joins, NoChannel, ChannelRows, Reasons
  <2> QED
    BY <2>1 DEF JobRows, NextOne
<1>3. Return(p) \/ Goto(p, First(j), r)
  BY DEF NextAddress, NextOne
<1>4. First(j) \in Early
  BY <1>1 DEF First, Early
<1>5. OpFits(First(j), r) /\ HeedsAll(First(j), r, channels')
  BY <1>1, <1>2, <1>4, EarlyHeeds
<1>6. Continues(j, r)
  BY <1>1, <1>2 DEF Continues
<1>7. CASE Goto(p, First(j), r)
  BY <1>1, <1>5, <1>6, <1>7, CallKeepsJoins
<1> QED
  BY <1>1, <1>3, <1>7, EndKeepsJoins

\* The steps of a message that only count it, refuse it or store it.
LEMMA JoinsSend ==
    ASSUME BusInv, JoinInv, NEW p \in Procs,
           Admit(p) \/ Block(p) \/ Notice(p) \/ InsertMessage(p) \/ Warn(p)
    PROVE  JoinInv'
<1>1. at[p] \in Early \cup {"insert"}
  BY DEF Admit, Block, Notice, InsertMessage, Warn, Early
<1>2. at[p] # "idle" /\ job[p].op = "send"
  BY <1>1, EarlySends
<1>3. /\ UNCHANGED <<calls, joined, mixed, agents, members, channels>> /\ channels' = channels
  BY DEF Admit, Block, Notice, InsertMessage, Warn, Insert, store, history, Same
<1> PICK j : j = job[p]
  OBVIOUS
<1>4. \/ Return(p) \/ NextAddress(p)
      \/ \E step \in Early : Goto(p, step, j)
      \/ Goto(p, "blocked", Refused(j, Verdict(j.who, <<Head(j.to), j.body>>)))
  BY DEF Admit, Block, Notice, InsertMessage, Warn, Early, Refused
<1>5. ASSUME NEW step \in Early, Goto(p, step, j)
      PROVE  JoinInv'
  <2>1. OpFits(step, j) /\ HeedsAll(step, j, channels') /\ Continues(j, j)
    BY <1>2, EarlyHeeds DEF Continues
  <2> QED
    BY <1>2, <1>3, <1>5, <2>1, CallKeepsJoins
<1>6. ASSUME NEW v, Goto(p, "blocked", Refused(j, v))
      PROVE  JoinInv'
  <2> PICK r : r = Refused(j, v)
    OBVIOUS
  <2>1. r.op = j.op /\ r.n = j.n /\ r.expected = j.expected
    <3>1. j \in JobRows(j.depth)
      BY <1>2, JobIs
    <3> HIDE DEF Edits, Addresses, Joins, NoChannel, ChannelRows, Reasons
    <3> QED
      BY <3>1 DEF JobRows, Refused
  <2>2. OpFits("blocked", r) /\ HeedsAll("blocked", r, channels') /\ Continues(j, r)
    BY <1>2, <2>1, EarlyHeeds DEF Continues, Early
  <2> QED
    BY <1>2, <1>3, <1>6, <2>2, CallKeepsJoins
<1> QED
  BY <1>1, <1>2, <1>3, <1>4, <1>5, <1>6, EndKeepsJoins, JoinsNextAddress

LEMMA JoinsWrite ==
    ASSUME BusInv, JoinInv, NEW p \in Procs, Write(p)
    PROVE  JoinInv'
<1> PICK j : j = job[p]
  OBVIOUS
<1>1. at[p] = "write" /\ at[p] # "idle" /\ Return(p) /\ Same
  BY DEF Write
<1>2. /\ agents' = agents /\ channels' = channels /\ mixed' = mixed /\ calls' = calls
  BY DEF Write, Same
<1> DEFINE works == j.channel \in channels /\ j.for \subseteq Team(j.team)
           mine == [team |-> j.team, slug |-> Head(j.to), who |-> j.who, n |-> j.n]
<1>3. CASE ~works
  <2>1. members' = members /\ joined' = joined
    BY <1>3 DEF Write
  <2> QED
    BY <1>1, <1>2, <2>1, EndKeepsJoins
<1>4. CASE works
  <2>1. /\ members' = {x \in members : x[1] # j.channel} \cup ({j.channel} \X j.for)
        /\ joined' = IF j.who \in j.for THEN joined \cup {mine} ELSE joined
    BY <1>4 DEF Write
  <2>2. /\ at'[p] = "idle"
        /\ \A q \in Procs : q # p => at'[q] = at[q] /\ job'[q] = job[q]
    BY <1>1, GotoFacts DEF Return
  <2>3. /\ OpFits("write", j) /\ HeedsAll("write", j, channels)
        /\ j.channel.team = j.team /\ j.channel.slug = Head(j.to) /\ Head(j.to) \in Slugs
        /\ j.op # "send"
    BY <1>1, StepHeeds DEF OpFits
  <2>4. mine.team = j.team /\ mine.slug = Head(j.to) /\ mine.who = j.who /\ mine.n = j.n
    OBVIOUS
  <2> PICK new : new = mine
    OBVIOUS
  <2>5. \A x \in joined' : x \in joined \/ (x = new /\ j.who \in j.for)
    BY <2>1
  <2> HIDE DEF mine
  <2>6. PlacesFit' /\ EditsApart'
    BY <2>2, <1>2 DEF JoinInv, PlacesFit, EditsApart
  <2>7. NumbersApart'
    <3>1. \A q \in Procs : at[q] # "idle" /\ q # p => job[q].n # new.n
      BY <1>1, <2>4 DEF JoinInv, NumbersApart
    <3>2. new.n <= calls
      BY <1>1, <2>4 DEF JoinInv, NumbersApart
    <3>3. \A x \in joined' : x.n <= calls'
      BY <2>5, <3>2, <1>2 DEF JoinInv, NumbersApart
    <3>4. \A q \in Procs : at'[q] # "idle" => \A x \in joined' : x.n # job'[q].n
      BY <2>2, <2>5, <3>1 DEF JoinInv, NumbersApart
    <3>5. \A q \in Procs : at'[q] # "idle" => q # p /\ at[q] # "idle" /\ job'[q] = job[q]
      BY <2>2
    <3> QED
      BY <3>3, <3>4, <3>5, <1>2 DEF JoinInv, NumbersApart
  <2>8. JoinedAreMembers'
    <3> SUFFICES ASSUME NEW x \in joined'
                 PROVE  /\ x.who \in agents /\ Home[x.who] = x.team /\ x.slug \in Slugs
                        /\ x.slug \notin mixed => IsMember(x, channels, members')
      BY <1>2 DEF JoinedAreMembers
    <3>1. CASE x = new /\ j.who \in j.for
      <4>1. j.who \in agents /\ Home[j.who] = j.team
        BY <3>1, <1>4 DEF Team
      <4>2. <<j.channel, j.who>> \in members'
        BY <3>1, <2>1
      <4> QED
        BY <3>1, <4>1, <4>2, <1>4, <2>3, <2>4 DEF IsMember
    <3>2. CASE x \in joined
      <4>1. x.who \in agents /\ Home[x.who] = x.team /\ x.slug \in Slugs
        BY <3>2 DEF JoinInv, JoinedAreMembers
      <4>2. ASSUME x.slug \notin mixed PROVE IsMember(x, channels, members')
        <5>1. PICK c \in channels : c.team = x.team /\ c.slug = x.slug /\ <<c, x.who>> \in members
          BY <4>2, <3>2 DEF JoinInv, JoinedAreMembers, IsMember
        <5>2. CASE c = j.channel
          <6>1. HeededBy(j, x)
            BY <5>1, <5>2, <2>3 DEF HeededBy, NamedBy
          <6>2. x.who \in j.for
            BY <6>1, <4>2, <3>2, <2>3 DEF HeedsAll, Heeds
          <6>3. <<c, x.who>> \in members'
            BY <6>2, <5>2, <2>1
          <6> QED
            BY <5>1, <6>3 DEF IsMember
        <5>3. CASE c # j.channel
          <6>1. <<c, x.who>>[1] = c
            OBVIOUS
          <6>2. <<c, x.who>> \in members'
            BY <5>1, <5>3, <6>1, <2>1
          <6> QED
            BY <5>1, <6>2 DEF IsMember
        <5> QED
          BY <5>2, <5>3
      <4> QED
        BY <4>1, <4>2
    <3> QED
      BY <2>5, <3>1, <3>2
  <2>9. CallsHeed'
    <3> SUFFICES ASSUME NEW q \in Procs, at'[q] # "idle", NEW x \in joined', x.slug \notin mixed,
                        HeededBy(job'[q], x)
                 PROVE  Heeds(at'[q], job'[q], x, channels')
      BY <1>2 DEF CallsHeed
    <3>1. q # p /\ at[q] # "idle" /\ at'[q] = at[q] /\ job'[q] = job[q]
      BY <2>2
    <3>2. CASE x \in joined
      BY <3>1, <3>2, <1>2 DEF JoinInv, CallsHeed
    <3>3. CASE x = new
      <4>1. CASE job[q].op = "send"
        <5>1. x \in job[q].expected
          BY <3>1, <4>1 DEF HeededBy
        <5>2. x.n # job[p].n
          BY <5>1, <3>1, <1>1 DEF JoinInv, NumbersApart
        <5> QED
          BY <5>2, <3>3, <2>4
      <4>2. CASE job[q].op # "send"
        <5>1. Head(job[q].to) = Head(job[p].to)
          BY <3>1, <3>3, <2>4 DEF HeededBy, NamedBy
        <5>2. Head(job[q].to) \in mixed
          BY <5>1, <3>1, <4>2, <1>1, <2>3 DEF JoinInv, EditsApart
        <5> QED
          BY <5>2, <3>1 DEF HeededBy, NamedBy
      <4> QED
        BY <4>1, <4>2
    <3> QED
      BY <2>5, <3>2, <3>3
  <2> QED
    BY <2>6, <2>7, <2>8, <2>9 DEF JoinInv
<1> QED
  BY <1>3, <1>4

\* A deletion that may not take what was joined with it finds nobody joined.
LEMMA JoinsDelete ==
    ASSUME BusInv, JoinInv, NEW p \in Procs, Delete(p)
    PROVE  JoinInv'
<1> PICK j : j = job[p]
  OBVIOUS
<1> PICK c : c = j.channel
  OBVIOUS
<1>1. /\ at[p] = "delete" /\ at[p] # "idle" /\ Return(p) /\ Same
      /\ channels' = channels \ {c} /\ members' = OtherMembers(c)
      /\ UNCHANGED <<agents, made, guards, history>>
  BY DEF Delete
<1>2. agents' = agents /\ mixed' = mixed /\ joined' = joined /\ calls' = calls
  BY <1>1 DEF history, Same
<1>3. /\ at'[p] = "idle"
      /\ \A q \in Procs : q # p => at'[q] = at[q] /\ job'[q] = job[q]
  BY <1>1, GotoFacts DEF Return
<1>4. /\ HeedsAll("delete", j, channels) /\ j.op = "delete"
      /\ c.team = j.team /\ c.slug = Head(j.to)
  BY <1>1, StepHeeds DEF OpFits
\* Nobody that counts as joined is in the channel.
<1>5. ASSUME NEW x \in joined, x.slug \notin mixed PROVE ~(c.team = x.team /\ c.slug = x.slug)
  <2>1. ~HeededBy(j, x)
    BY <1>4, <1>5 DEF HeedsAll, Heeds
  <2> QED
    BY <2>1, <1>4 DEF HeededBy, NamedBy
<1>6. PlacesFit' /\ NumbersApart' /\ EditsApart'
  BY <1>2, <1>3 DEF JoinInv, PlacesFit, NumbersApart, EditsApart
<1>7. JoinedAreMembers'
  <2> SUFFICES ASSUME NEW x \in joined, x.slug \notin mixed
               PROVE  IsMember(x, channels', members')
    BY <1>2 DEF JoinInv, JoinedAreMembers
  <2>1. PICK d \in channels : d.team = x.team /\ d.slug = x.slug /\ <<d, x.who>> \in members
    BY DEF JoinInv, JoinedAreMembers, IsMember
  <2>2. d # c /\ <<d, x.who>>[1] = d
    BY <2>1, <1>5
  <2> QED
    BY <1>1, <2>1, <2>2 DEF IsMember, OtherMembers
<1>8. CallsHeed'
  <2> SUFFICES ASSUME NEW q \in Procs, at'[q] # "idle", NEW x \in joined, x.slug \notin mixed,
                      HeededBy(job'[q], x)
               PROVE  Heeds(at'[q], job'[q], x, channels')
    BY <1>2 DEF CallsHeed
  <2>1. q # p /\ at[q] # "idle" /\ at'[q] = at[q] /\ job'[q] = job[q]
    BY <1>3
  <2> PICK i : i = job[q]
    OBVIOUS
  <2>2. Heeds(at[q], i, x, channels) /\ OpFits(at[q], i)
    BY <2>1, StepHeeds DEF HeedsAll
  <2>3. at[q] = "read" => i.channel \in channels'
    <3> HAVE at[q] = "read"
    <3>1. i.channel \in channels /\ i.channel.team = i.team /\ i.channel.slug = Head(i.to)
      BY <2>2 DEF Heeds, OpFits
    <3>2. i.channel # c
      BY <3>1, <2>1, <1>5 DEF HeededBy, NamedBy
    <3> QED
      BY <3>1, <3>2, <1>1
  <2> QED
    BY <2>1, <2>2, <2>3 DEF Heeds
<1> QED
  BY <1>6, <1>7, <1>8 DEF JoinInv

LEMMA JoinsDeleteAgent ==
    ASSUME BusInv, JoinInv, NEW a \in Agents, DeleteAgent(a)
    PROVE  JoinInv'
<1>1. /\ agents' = agents \ {a} /\ members' = {x \in members : x[2] # a}
      /\ joined' = {x \in joined : x.who # a}
      /\ at' = at /\ job' = job /\ calls' = calls /\ mixed' = mixed /\ channels' = channels
  BY DEF DeleteAgent, Same
<1>2. PlacesFit' /\ NumbersApart' /\ EditsApart' /\ CallsHeed'
  BY <1>1 DEF JoinInv, PlacesFit, NumbersApart, EditsApart, CallsHeed
<1>3. JoinedAreMembers'
  <2> SUFFICES ASSUME NEW x \in joined, x.who # a
               PROVE  /\ x.who \in agents' /\ Home[x.who] = x.team /\ x.slug \in Slugs
                      /\ x.slug \notin mixed => IsMember(x, channels, members')
    BY <1>1 DEF JoinedAreMembers
  <2>1. \A c : <<c, x.who>>[2] = x.who
    OBVIOUS
  <2> QED
    BY <1>1, <2>1 DEF JoinInv, JoinedAreMembers, IsMember
<1> QED
  BY <1>2, <1>3 DEF JoinInv

LEMMA JoinsInit == Init => JoinInv
BY DEF Init, JoinInv, PlacesFit, NumbersApart, EditsApart, JoinedAreMembers, CallsHeed

LEMMA JoinsStep == BusInv /\ JoinInv /\ [Next]_vars => JoinInv'
<1> SUFFICES ASSUME BusInv, JoinInv, [Next]_vars PROVE JoinInv'
  OBVIOUS
<1>1. ASSUME NEW p \in Procs, CallNext(p) PROVE JoinInv'
  BY <1>1, JoinsBegin, JoinsSend, JoinsRoute, JoinsFind, JoinsCreate, JoinsRefind, JoinsRead,
     JoinsWrite, JoinsDelete DEF CallNext
<1>2. ASSUME NEW a \in Agents, DeleteAgent(a) PROVE JoinInv'
  BY <1>2, JoinsDeleteAgent
<1>3. CASE UNCHANGED vars
  BY <1>3, JoinsRest DEF vars, store, history
<1>4. CASE Tick
  BY <1>4, JoinsRest DEF Tick, store, history
<1>5. ASSUME NEW t \in Teams, ResumeTeam(t) PROVE JoinInv'
  BY <1>5, JoinsRest DEF ResumeTeam, store, Same
<1>6. ASSUME NEW c, SetLimits(c) PROVE JoinInv'
  BY <1>6, JoinsRest DEF SetLimits, store, history, Same
<1> QED
  BY <1>1, <1>2, <1>3, <1>4, <1>5, <1>6 DEF Next

\* What is stored is for those who had joined (MessagesReach, JoinsReach).
LEMMA ReachStep == BusInv /\ JoinInv /\ JoinsReach /\ [Next]_vars => JoinsReach'
<1> SUFFICES ASSUME BusInv, JoinInv, JoinsReach, [Next]_vars PROVE JoinsReach'
  OBVIOUS
<1>1. ASSUME NEW p \in Procs, InsertMessage(p) PROVE JoinsReach'
  <2> PICK j : j = job[p]
    OBVIOUS
  <2>1. at[p] = "insert" /\ at[p] # "idle" /\ job[p].op = "send"
    BY <1>1, EarlySends DEF InsertMessage
  <2> DEFINE due == {x.who : x \in {y \in joined \cap j.expected :
                         y.slug = Head(j.to) /\ y.team = j.team /\ y.slug \notin mixed}}
             m == [id |-> made + 1, team |-> j.team, from |-> j.who, channel |-> j.channel,
                   for |-> j.for, reply |-> j.parent, about |-> None, due |-> due \ {j.who}]
  <2>2. due \subseteq j.for \cup {j.who}
    <3> SUFFICES ASSUME NEW x \in joined \cap j.expected, x.slug = Head(j.to), x.team = j.team,
                        x.slug \notin mixed
                 PROVE  x.who \in j.for \cup {j.who}
      OBVIOUS
    <3>1. HeededBy(j, x)
      BY DEF HeededBy, NamedBy
    <3>2. Heeds("insert", j, x, channels)
      BY <3>1, <2>1, StepHeeds DEF HeedsAll
    <3> QED
      BY <3>2, <2>1 DEF Heeds
  <2>3. m.due \subseteq m.for
    BY <2>2
  <2>4. messages' \subseteq messages \cup {m}
    BY <1>1 DEF InsertMessage, Insert, store
  <2> HIDE DEF m
  <2> QED
    BY <2>3, <2>4 DEF JoinsReach
<1>2. ASSUME NEW p \in Procs, Notice(p) \/ Warn(p) PROVE JoinsReach'
  <2>1. \A t, for, about : System(t, for, about).due \subseteq System(t, for, about).for
    BY DEF System
  <2>2. \E t, for, about : messages' \subseteq messages \cup {System(t, for, about)}
    BY <1>2 DEF Notice, Warn, Insert, store
  <2> HIDE DEF System
  <2> QED
    BY <2>1, <2>2 DEF JoinsReach
<1>3. ASSUME NEW a \in Agents, DeleteAgent(a) PROVE JoinsReach'
  <2>1. \A m \in messages : [m EXCEPT !.for = @ \ {a}, !.due = @ \ {a}].due
                             \subseteq [m EXCEPT !.for = @ \ {a}, !.due = @ \ {a}].for
    <3> TAKE m \in messages
    <3>1. m \in MessageRows /\ m.due \subseteq m.for
      BY DEF BusInv, StoreTypes, JoinsReach
    <3> HIDE DEF ChannelRows, NoChannel, Subjects
    <3> QED
      BY <3>1 DEF MessageRows
  <2> QED
    BY <1>3, <2>1 DEF DeleteAgent, JoinsReach
<1>4. CASE messages' \subseteq messages
  BY <1>4 DEF JoinsReach
<1>5. ASSUME NEW p \in Procs, CallNext(p) PROVE JoinsReach'
  <2>1. ASSUME NEW j, Begin(p, j) PROVE messages' = messages
    BY <2>1 DEF Begin, store
  <2>2. Delete(p) => messages' \subseteq messages
    BY DEF Delete
  <2>3. Admit(p) \/ Block(p) \/ Route(p) \/ Find(p) \/ Refind(p) \/ Read(p) => messages' = messages
    BY DEF Admit, Block, Route, Find, Refind, Read, store
  <2>4. Create(p) \/ Write(p) => messages' = messages
    BY DEF Create, Write
  <2> QED
    BY <1>1, <1>2, <1>4, <1>5, <2>1, <2>2, <2>3, <2>4 DEF CallNext
<1>6. CASE UNCHANGED vars \/ Tick \/ (\E t \in Teams : ResumeTeam(t)) \/ (\E c \in Limits[part] : SetLimits(c))
  <2>1. messages' = messages
    BY <1>6 DEF vars, Tick, ResumeTeam, SetLimits, store
  <2> QED
    BY <2>1, <1>4
<1> QED
  BY <1>3, <1>5, <1>6 DEF Next

\* Who joined a channel before a message was sent, and stayed, is among those the
\* message is for, unless two edits of the channel overlapped (subscribe_channel,
\* channel_members and insert_message in aisense-core/src/bus/service.rs).
THEOREM JoinsReachHolds == Spec => []JoinsReach
<1>1. Init => JoinsReach
  BY DEF Init, JoinsReach
<1> QED
  BY <1>1, InitIsFine, BusStep, JoinsInit, JoinsStep, ReachStep, PTL DEF Spec
=============================================================================
