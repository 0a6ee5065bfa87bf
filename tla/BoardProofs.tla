----------------------------- MODULE BoardProofs -----------------------------
(* The board is right for every team, whatever its columns, automations and     *)
(* number of cards and of agents that call at once. The invariant says of every *)
(* step a call has still to take what it may rely on: the card it is about is   *)
(* on the board, or is being added by this call alone, and the row a write was  *)
(* read from is older than the row there is or is that row. The second half is  *)
(* about the edits that Cards models: an automation is owed for every checklist *)
(* a write finished, who has looked for a cycle closes none with what it still  *)
(* has to add, and who wrote before a call began is among those it tells.       *)
EXTENDS Board, Cards, SiftProofs, FiniteSetTheorems, TLAPS

\* What an edit and a step can be.
EditKinds == {"claim", "assign", "own", "archive", "move", "free", "approve", "reject"}
Movers == Moves \cup {"approve", "reject"}
Edits == [kind : EditKinds, to : Columns \cup {NoColumn}, who : Agents \cup {NoAgent},
          reason : Reasons, by : Actors \cup {System}]
Finds == [do : {"find"}, op : EditKinds, card : Cards, to : Columns \cup {NoColumn},
          who : Agents \cup {NoAgent}, reason : Reasons, depth : {0}]
Readings == [do : {"gate", "read"}, card : Cards, edit : Edits, actor : Actors \cup {System},
             depth : 0..MaxDepth, tries : Nat]
Writings == [do : {"write", "record"}, card : Cards, edit : Edits, actor : Actors \cup {System},
             depth : 0..MaxDepth, tries : Nat, before : Rows]
Acts == [do : {"act"}, action : Actions, card : Cards, actor : Actors \cup {System}, depth : 0..MaxDepth]
Unblockings == [do : {"unblock"}, card : Cards, left : SUBSET Cards, depth : 0..MaxDepth,
                actor : Actors \cup {System}]
Adds == [do : {"add", "insert", "link", "join"}, card : Cards, to : Columns, who : Agents \cup {NoAgent},
         on : Cards \cup {NoCard}, reason : {"none"}, actor : Actors, depth : {0}]
Links == [do : {"depend", "edge"}, op : {"add", "remove"}, card : Cards, on : Cards, depth : {0}]
AllSteps == Finds \cup Readings \cup Writings \cup Acts \cup Unblockings \cup Adds \cup Links

\* A column is known where an edit moves a card, and a human or an agent approves.
EditSound(e) ==
    /\ e.kind \in Movers => e.to \in Columns
    /\ e.kind = "approve" => e.by \in Actors
\* The row a write was read from is older than the row there is, or is that row; an
\* automation gives a card to its agent only if the row it read belonged to nobody.
ReadFrom(s, row) ==
    /\ s.before.version <= row.version
    /\ s.before.version = row.version => s.before = row
    /\ s.edit.kind = "own" => s.before.assignee = NoAgent
News == {"add", "insert"}
\* What a step is about is on the board of these rows, or is to be put on it.
Sound(s, rows) ==
    /\ s.do \in News <=> rows[s.card] = NoCard
    /\ s.do = "find" => /\ s.op \notin {"free", "own"}
                        /\ s.op = "move" => s.to \in Columns
    /\ s.do \in {"gate", "read", "write", "record"} => EditSound(s.edit)
    /\ s.do = "write" => ReadFrom(s, rows[s.card])
    /\ s.do = "unblock" => \A d \in s.left : rows[d] # NoCard
    /\ s.do \in News \cup {"link", "join", "depend", "edge"} => s.on = NoCard \/ rows[s.on] # NoCard
\* A call begins with its addition, and frees a card before it goes on with the others.
Shaped(t) ==
    /\ \A i \in DOMAIN t : t[i].do \in News => i = 1
    /\ \A i \in DOMAIN t : Freeing(t[i]) => i < Len(t)

StepsSound ==
    \A p \in Callers :
        /\ todo[p] \in Seq(AllSteps) /\ Shaped(todo[p])
        /\ \A i \in DOMAIN todo[p] : Sound(todo[p][i], card)
AddsApart ==
    \A p, q \in Callers :
        p # q /\ todo[p] # <<>> /\ todo[q] # <<>> /\ todo[p][1].do \in News /\ todo[q][1].do \in News
          => todo[p][1].card # todo[q][1].card
RowsHold ==
    /\ card \in [Cards -> Rows \cup {NoCard}]
    /\ deps \subseteq Cards \X Cards
    /\ cameFrom \in [Cards -> [Columns -> Columns \cup {NoColumn}]]
    /\ rules \in RuleSets /\ calls \in 0..MaxCalls /\ DOMAIN todo = Callers
DepsExist == \A c, d \in Cards : <<c, d>> \in deps => Exists(c) /\ Exists(d)
BoardInv == RowsHold /\ StepsSound /\ AddsApart /\ DepsExist

-----------------------------------------------------------------------------
(* What the steps are                                                        *)

LEMMA StepKinds ==
    ASSUME NEW s \in AllSteps
    PROVE  /\ s.do \in Steps /\ s.card \in Cards /\ s.depth \in 0..MaxDepth
           /\ s.do = "find" => s \in Finds
           /\ s.do \in {"gate", "read"} => s \in Readings
           /\ s.do \in {"write", "record"} => s \in Writings
           /\ s.do = "act" => s \in Acts
           /\ s.do = "unblock" => s \in Unblockings
           /\ s.do \in News \cup {"link", "join"} => s \in Adds
           /\ s.do \in {"depend", "edge"} => s \in Links
<1>0. 0 \in 0..MaxDepth
  BY Bounds
<1>1. CASE s \in Finds
  BY <1>0, <1>1 DEF Finds, Steps, News
<1>2. CASE s \in Readings
  BY <1>2 DEF Readings, Steps, News
<1>3. CASE s \in Writings
  BY <1>3 DEF Writings, Steps, News
<1>4. CASE s \in Acts
  BY <1>4 DEF Acts, Steps, News
<1>5. CASE s \in Unblockings
  BY <1>5 DEF Unblockings, Steps, News
<1>6. CASE s \in Adds
  BY <1>0, <1>6 DEF Adds, Steps, News
<1>7. CASE s \in Links
  BY <1>0, <1>7 DEF Links, Steps, News
<1> QED
  BY <1>1, <1>2, <1>3, <1>4, <1>5, <1>6, <1>7 DEF AllSteps

LEMMA StepSets ==
    /\ Finds \subseteq AllSteps /\ Readings \subseteq AllSteps /\ Writings \subseteq AllSteps
    /\ Acts \subseteq AllSteps /\ Unblockings \subseteq AllSteps /\ Adds \subseteq AllSteps
    /\ Links \subseteq AllSteps
BY DEF AllSteps

\* The lowest column of a set there is is one of it.
LEMMA LowestIn ==
    ASSUME NEW S \in SUBSET Columns, S # {}
    PROVE  Lowest(S) \in S
<1>1. \A k \in Columns : Position[k] \in Nat
  BY BoardShape
<1> DEFINE U == {Position[k] : k \in S}
<1>2. U \in SUBSET Nat /\ U # {}
  BY <1>1
<1>3. PICK x \in U : \A y \in U : x =< y
  BY <1>2, LeastOne
<1>4. \E k \in S : \A l \in S : Position[k] <= Position[l]
  BY <1>3
<1> QED
  BY <1>4 DEF Lowest

LEMMA FirstOfIn ==
    ASSUME NEW kind
    PROVE  /\ FirstOf(kind) \in Columns \cup {NoColumn}
           /\ OfKind(kind) # {} => FirstOf(kind) \in Columns
<1>1. OfKind(kind) \in SUBSET Columns
  BY DEF OfKind
<1>2. OfKind(kind) # {} => FirstOf(kind) \in Columns
  BY <1>1, LowestIn DEF FirstOf
<1> QED
  BY <1>2 DEF FirstOf

LEMMA ReadyAndTerminal == FirstOf("ready") \in Columns /\ FirstOf("terminal") \in Columns
<1>1. OfKind("ready") # {} /\ OfKind("terminal") # {}
  BY BoardShape DEF OfKind
<1> QED
  BY <1>1, FirstOfIn

\* What an edit makes of a row: a row of the next version; its agent changes by an
\* assignment, or if there was none.
LEMMA AfterFacts ==
    ASSUME NEW k \in Rows, NEW e \in Edits, EditSound(e)
    PROVE  /\ After(k, e) \in Rows /\ After(k, e).version = k.version + 1
           /\ k.assignee # NoAgent /\ After(k, e).assignee # k.assignee => e.kind \in {"claim", "assign", "own"}
<1> DEFINE m == Edited(k, e)
           n == [m EXCEPT !.version = k.version + 1]
<1>1. m \in Rows /\ (k.assignee # NoAgent /\ m.assignee # k.assignee => e.kind \in {"claim", "assign", "own"})
  <2>0. e.kind \in EditKinds /\ e.who \in Agents \cup {NoAgent} /\ e.reason \in Reasons
    BY DEF Edits
  <2>1. CASE e.kind \in {"claim", "assign", "own"}
    <3>1. m = [k EXCEPT !.assignee = e.who]
      BY <2>1 DEF Edited, Moves
    <3> QED
      BY <2>0, <2>1, <3>1 DEF Rows
  <2>2. CASE e.kind \in Moves
    <3>1. m = [k EXCEPT !.col = e.to, !.assignee = Owner(k, e),
                     !.reason = IF Kind[e.to] = "blocked" /\ e.reason # "none" THEN e.reason ELSE @]
      BY <2>2 DEF Edited, Moves
    <3>2. e.to \in Columns /\ Owner(k, e) \in Agents \cup {NoAgent}
          /\ (k.assignee # NoAgent => Owner(k, e) = k.assignee)
      BY <2>0, <2>2 DEF EditSound, Movers, Owner, Rows
    <3> QED
      BY <2>0, <3>1, <3>2 DEF Rows
  <2>3. CASE e.kind = "approve"
    <3>1. m = [k EXCEPT !.col = e.to, !.approved = e.by]
      BY <2>3 DEF Edited, Moves
    <3> QED
      BY <2>3, <3>1 DEF EditSound, Movers, Rows
  <2>4. CASE e.kind = "reject"
    <3>1. m = [k EXCEPT !.col = e.to, !.approved = NoAgent]
      BY <2>4 DEF Edited, Moves
    <3> QED
      BY <2>4, <3>1 DEF EditSound, Movers, Rows
  <2>5. CASE e.kind = "archive"
    <3>1. m = [k EXCEPT !.archived = TRUE]
      BY <2>5 DEF Edited, Moves
    <3> QED
      BY <3>1 DEF Rows
  <2> QED
    BY <2>0, <2>1, <2>2, <2>3, <2>4, <2>5 DEF EditKinds, Moves
<1> HIDE DEF m
<1>2. n \in Rows /\ n.version = k.version + 1 /\ n.assignee = m.assignee
  BY <1>1 DEF Rows
<1>3. After(k, e) = IF n.col # k.col /\ Kind[k.col] = "blocked" THEN [n EXCEPT !.reason = "none"] ELSE n
  BY DEF After, m
<1> HIDE DEF n
<1>4. /\ [n EXCEPT !.reason = "none"] \in Rows
      /\ [n EXCEPT !.reason = "none"].version = k.version + 1
      /\ [n EXCEPT !.reason = "none"].assignee = m.assignee
  BY <1>2 DEF Rows, Reasons
<1> QED
  BY <1>1, <1>2, <1>3, <1>4

-----------------------------------------------------------------------------
(* What is left of a call                                                    *)

LEMMA TailFacts ==
    ASSUME NEW S, NEW t \in Seq(S), t # <<>>, NEW u \in Seq(S)
    PROVE  /\ u \o Tail(t) \in Seq(S) /\ Len(u \o Tail(t)) = Len(u) + Len(t) - 1
           /\ Len(t) \in Nat \ {0} /\ Len(u) \in Nat
           /\ \A i \in DOMAIN (u \o Tail(t)) :
                \/ i \in DOMAIN u /\ (u \o Tail(t))[i] = u[i]
                \/ /\ i > Len(u) /\ i - Len(u) + 1 \in DOMAIN t /\ i - Len(u) + 1 > 1
                   /\ (u \o Tail(t))[i] = t[i - Len(u) + 1]
<1>1. Tail(t) \in Seq(S) /\ Len(Tail(t)) = Len(t) - 1 /\ \A j \in 1 .. (Len(t) - 1) : Tail(t)[j] = t[j + 1]
  OBVIOUS
<1>2. Len(t) \in Nat \ {0} /\ Len(u) \in Nat /\ DOMAIN t = 1 .. Len(t) /\ DOMAIN u = 1 .. Len(u)
  OBVIOUS
<1> DEFINE v == Tail(t)
<1> HIDE DEF v
<1>3. /\ u \o v \in Seq(S) /\ Len(u \o v) = Len(u) + Len(v)
      /\ \A i \in 1 .. Len(u) + Len(v) : (u \o v)[i] = IF i <= Len(u) THEN u[i] ELSE v[i - Len(u)]
  BY <1>1 DEF v
<1>4. DOMAIN (u \o v) = 1 .. Len(u) + Len(t) - 1 /\ Len(v) = Len(t) - 1
  BY <1>1, <1>2, <1>3 DEF v
<1>5. ASSUME NEW i \in 1 .. Len(u) + Len(t) - 1
      PROVE  \/ i \in DOMAIN u /\ (u \o v)[i] = u[i]
             \/ /\ i > Len(u) /\ i - Len(u) + 1 \in DOMAIN t /\ i - Len(u) + 1 > 1
                /\ (u \o v)[i] = t[i - Len(u) + 1]
  <2>1. CASE i <= Len(u)
    <3>1. i \in DOMAIN u /\ i \in 1 .. Len(u) + Len(v)
      BY <1>2, <1>4, <2>1
    <3> QED
      BY <1>3, <2>1, <3>1
  <2>2. CASE i > Len(u)
    <3>1. i - Len(u) \in 1 .. (Len(t) - 1) /\ i \in 1 .. Len(u) + Len(v)
      BY <1>2, <1>4, <2>2
    <3>2. v[i - Len(u)] = t[i - Len(u) + 1]
      BY <1>1, <3>1 DEF v
    <3> QED
      BY <1>2, <1>3, <2>2, <3>1, <3>2
  <2>3. i <= Len(u) \/ i > Len(u)
    BY <1>2
  <2> QED
    BY <2>1, <2>2, <2>3
<1> QED
  BY <1>2, <1>3, <1>4, <1>5 DEF v

LEMMA ShapedOn ==
    ASSUME NEW t \in Seq(AllSteps), t # <<>>, Shaped(t), NEW u \in Seq(AllSteps),
           \A i \in DOMAIN u : u[i].do \in News => i = 1,
           \A i \in DOMAIN u : Freeing(u[i]) => i < Len(u) \/ Len(t) > 1
    PROVE  Shaped(u \o Tail(t))
<1> DEFINE r == u \o Tail(t)
<1>1. Len(r) = Len(u) + Len(t) - 1 /\ Len(t) \in Nat \ {0} /\ Len(u) \in Nat
  BY TailFacts
<1>2. DOMAIN u = 1 .. Len(u) /\ DOMAIN t = 1 .. Len(t) /\ DOMAIN r = 1 .. Len(r)
  <2>1. r \in Seq(AllSteps)
    BY TailFacts
  <2> QED
    BY <2>1
<1>3. ASSUME NEW i \in DOMAIN r
      PROVE  \/ i \in DOMAIN u /\ r[i] = u[i]
             \/ /\ i > Len(u) /\ i - Len(u) + 1 \in DOMAIN t /\ i - Len(u) + 1 > 1
                /\ r[i] = t[i - Len(u) + 1]
  BY <1>3, TailFacts
<1> HIDE DEF r
<1>4. ASSUME NEW i \in DOMAIN r, r[i].do \in News PROVE i = 1
  BY <1>3, <1>4 DEF Shaped
<1>5. ASSUME NEW i \in DOMAIN r, Freeing(r[i]) PROVE i < Len(r)
  <2>1. CASE i \in DOMAIN u /\ r[i] = u[i]
    BY <1>1, <1>2, <1>5, <2>1
  <2>2. CASE i > Len(u) /\ i - Len(u) + 1 \in DOMAIN t /\ r[i] = t[i - Len(u) + 1]
    <3>1. i - Len(u) + 1 < Len(t)
      BY <1>5, <2>2 DEF Shaped
    <3> QED
      BY <1>1, <1>2, <2>2, <3>1
  <2> QED
    BY <1>3, <2>1, <2>2
<1>6. Shaped(r)
  BY <1>4, <1>5 DEF Shaped
<1> QED
  BY <1>6 DEF r

\* The rows there are stay, in a version that grows when they change; p may put the
\* card on the board that it adds.
RowsGrow(p) ==
    \A c \in Cards :
        /\ card[c] # NoCard =>
             /\ card'[c] \in Rows /\ card[c].version <= card'[c].version
             /\ card[c].version = card'[c].version => card'[c] = card[c]
        /\ card[c] = NoCard /\ card'[c] # NoCard =>
             /\ todo[p] # <<>> /\ todo[p][1].do = "insert" /\ todo[p][1].card = c

LEMMA SoundStays ==
    ASSUME BoardInv, NEW p \in Callers, RowsGrow(p), NEW s \in AllSteps, Sound(s, card),
           s.do \in News => card'[s.card] = NoCard
    PROVE  Sound(s, card')
<1>1. /\ s.card \in Cards
      /\ s.do \in {"write", "record"} => s \in Writings
      /\ s.do = "unblock" => s \in Unblockings
      /\ s.do \in News \cup {"link", "join"} => s \in Adds
      /\ s.do \in {"depend", "edge"} => s \in Links
  BY StepKinds
<1>2. s.do \in News <=> card'[s.card] = NoCard
  BY <1>1, RowsAndRules DEF RowsGrow, Sound
<1>3. s.do = "write" => ReadFrom(s, card'[s.card])
  <2> SUFFICES ASSUME s.do = "write" PROVE ReadFrom(s, card'[s.card])
    OBVIOUS
  <2>1. ReadFrom(s, card[s.card]) /\ card[s.card] # NoCard
    BY DEF Sound, News
  <2>2. s.before.version \in Nat /\ card[s.card].version \in Nat
    BY <1>1, <2>1 DEF BoardInv, RowsHold, Rows, Writings
  <2>3. /\ card'[s.card] \in Rows /\ card[s.card].version <= card'[s.card].version
        /\ card[s.card].version = card'[s.card].version => card'[s.card] = card[s.card]
    BY <1>1, <2>1 DEF RowsGrow
  <2>4. CASE card'[s.card] = card[s.card]
    BY <2>1, <2>4
  <2>5. CASE card'[s.card] # card[s.card]
    <3>1. card'[s.card].version \in Nat
      BY <2>3 DEF Rows
    <3>2. s.before.version <= card[s.card].version
      BY <2>1 DEF ReadFrom
    <3> DEFINE a == s.before.version  b == card[s.card].version  c == card'[s.card].version
    <3>3. a <= c /\ a # c
      <4>1. b <= c /\ b # c /\ a <= b /\ a \in Nat /\ b \in Nat /\ c \in Nat
        BY <2>2, <2>3, <2>5, <3>1, <3>2
      <4> HIDE DEF a, b, c
      <4> QED
        BY <4>1
    <3> QED
      BY <2>1, <3>3 DEF ReadFrom
  <2> QED
    BY <2>4, <2>5
<1>4. s.do = "unblock" => \A d \in s.left : card'[d] # NoCard
  BY <1>1, RowsAndRules DEF Sound, RowsGrow, Unblockings
<1>5. s.do \in News \cup {"link", "join", "depend", "edge"} => s.on = NoCard \/ card'[s.on] # NoCard
  <2>1. s.do \in News \cup {"link", "join", "depend", "edge"} => s.on = NoCard \/ s.on \in Cards
    BY <1>1 DEF Adds, Links
  <2> QED
    BY <2>1, RowsAndRules DEF Sound, RowsGrow
<1> QED
  BY <1>2, <1>3, <1>4, <1>5 DEF Sound

LEMMA SameRowsGrow ==
    ASSUME BoardInv, NEW p \in Callers, card' = card
    PROVE  RowsGrow(p)
BY DEF BoardInv, RowsHold, RowsGrow, Rows

CallsSound == StepsSound' /\ AddsApart' /\ DOMAIN todo' = Callers

LEMMA CallGoesOn ==
    ASSUME BoardInv, NEW p \in Callers, RowsGrow(p),
           NEW r \in Seq(AllSteps), todo' = [todo EXCEPT ![p] = r],
           Shaped(r), \A i \in DOMAIN r : Sound(r[i], card'),
           \A q \in Callers \ {p} :
              r # <<>> /\ r[1].do \in News /\ todo[q] # <<>> /\ todo[q][1].do \in News
                => r[1].card # todo[q][1].card
    PROVE  CallsSound
<1>1. DOMAIN todo = Callers
  BY DEF BoardInv, RowsHold
<1>2. DOMAIN todo' = Callers /\ todo'[p] = r /\ \A q \in Callers \ {p} : todo'[q] = todo[q]
  BY <1>1
<1>3. \A q \in Callers : todo[q] \in Seq(AllSteps) /\ Shaped(todo[q]) /\ \A i \in DOMAIN todo[q] : Sound(todo[q][i], card)
  BY DEF BoardInv, StepsSound
<1>4. ASSUME NEW q \in Callers \ {p}, NEW i \in DOMAIN todo[q] PROVE Sound(todo[q][i], card')
  <2>1. Sound(todo[q][i], card) /\ todo[q][i] \in AllSteps
    BY <1>3, <1>4
  <2>2. ASSUME todo[q][i].do \in News, card'[todo[q][i].card] # NoCard PROVE FALSE
    <3>1. i = 1 /\ todo[q] # <<>>
      BY <1>3, <1>4, <2>2 DEF Shaped
    <3>2. todo[q][i].card \in Cards /\ card[todo[q][i].card] = NoCard
      BY <2>1, <2>2, StepKinds DEF Sound
    <3>3. todo[p] # <<>> /\ todo[p][1].do = "insert" /\ todo[p][1].card = todo[q][i].card
      BY <2>2, <3>2 DEF RowsGrow
    <3>4. todo[p][1].do \in News
      BY <3>3 DEF News
    <3> QED
      BY <1>4, <2>2, <3>1, <3>3, <3>4 DEF BoardInv, AddsApart
  <2> QED
    BY <2>1, <2>2, SoundStays
<1>5. ASSUME NEW q \in Callers
      PROVE  /\ todo'[q] \in Seq(AllSteps) /\ Shaped(todo'[q])
             /\ \A i \in DOMAIN todo'[q] : Sound(todo'[q][i], card')
  <2>1. CASE q = p
    BY <1>2, <2>1
  <2>2. CASE q # p
    <3>1. todo'[q] = todo[q]
      BY <1>2, <2>2
    <3> QED
      BY <1>3, <1>4, <2>2, <3>1
  <2> QED
    BY <2>1, <2>2
<1>6. StepsSound'
  BY <1>5 DEF StepsSound
<1>7. ASSUME NEW q \in Callers, NEW w \in Callers, q # w, todo'[q] # <<>>, todo'[w] # <<>>,
             todo'[q][1].do \in News, todo'[w][1].do \in News
      PROVE  todo'[q][1].card # todo'[w][1].card
  <2>1. CASE q = p
    BY <1>2, <1>7, <2>1
  <2>2. CASE w = p
    BY <1>2, <1>7, <2>2
  <2>3. CASE q # p /\ w # p
    BY <1>2, <1>7, <2>3 DEF BoardInv, AddsApart
  <2> QED
    BY <2>1, <2>2, <2>3
<1> QED
  BY <1>2, <1>6, <1>7 DEF CallsSound, AddsApart

LEMMA HeadFacts ==
    ASSUME BoardInv, NEW p \in Callers, todo[p] # <<>>
    PROVE  /\ todo[p] \in Seq(AllSteps) /\ Shaped(todo[p]) /\ 1 \in DOMAIN todo[p]
           /\ Now(p) = todo[p][1] /\ Now(p) \in AllSteps /\ Sound(Now(p), card)
           /\ Len(todo[p]) \in Nat /\ DOMAIN todo[p] = 1 .. Len(todo[p])
           /\ Freeing(Now(p)) => Len(todo[p]) > 1
<1>1. todo[p] \in Seq(AllSteps) /\ Shaped(todo[p]) /\ \A i \in DOMAIN todo[p] : Sound(todo[p][i], card)
  BY DEF BoardInv, StepsSound
<1>2. 1 \in DOMAIN todo[p] /\ Now(p) = todo[p][1] /\ Len(todo[p]) \in Nat /\ DOMAIN todo[p] = 1 .. Len(todo[p])
  BY <1>1 DEF Now
<1>3. Now(p) \in AllSteps
  BY <1>1, <1>2
<1> QED
  BY <1>1, <1>2, <1>3 DEF Shaped

\* The step at the head is replaced by those of u.
LEMMA ThenGoesOn ==
    ASSUME BoardInv, NEW p \in Callers, RowsGrow(p), todo[p] # <<>>,
           NEW u \in Seq(AllSteps), Then(p, u),
           \A i \in DOMAIN u : u[i].do \in News => i = 1 /\ Now(p).do \in News /\ u[i].card = Now(p).card,
           \A i \in DOMAIN u : Freeing(u[i]) => i < Len(u) \/ Len(todo[p]) > 1,
           \A i \in DOMAIN u : Sound(u[i], card')
    PROVE  CallsSound
<1> DEFINE t == todo[p]
           r == u \o Tail(t)
<1>1. t \in Seq(AllSteps) /\ Shaped(t) /\ Now(p) = t[1] /\ \A i \in DOMAIN t : Sound(t[i], card)
  BY HeadFacts DEF BoardInv, StepsSound
<1>2. DOMAIN todo = Callers /\ todo' = [todo EXCEPT ![p] = r]
  BY DEF BoardInv, RowsHold, Then
<1>3. Shaped(r)
  BY <1>1, ShapedOn
<1>4. /\ r \in Seq(AllSteps)
      /\ \A i \in DOMAIN r :
                \/ i \in DOMAIN u /\ r[i] = u[i]
                \/ /\ i > Len(u) /\ i - Len(u) + 1 \in DOMAIN t /\ i - Len(u) + 1 > 1
                   /\ r[i] = t[i - Len(u) + 1]
  BY <1>1, TailFacts
<1>5. t # <<>>
  OBVIOUS
<1> HIDE DEF r, t
<1>6. ASSUME NEW j \in DOMAIN t, j > 1 PROVE Sound(t[j], card') /\ t[j].do \notin News
  <2>1. Sound(t[j], card) /\ t[j] \in AllSteps /\ t[j].do \notin News
    BY <1>1, <1>6 DEF Shaped
  <2> QED
    BY <2>1, SoundStays
<1>7. ASSUME NEW i \in DOMAIN r PROVE Sound(r[i], card')
  BY <1>4, <1>6, <1>7
<1>8. ASSUME r # <<>>, r[1].do \in News PROVE t[1].do \in News /\ r[1].card = t[1].card
  <2>1. 1 \in DOMAIN r
    BY <1>4, <1>8
  <2>2. 1 \in DOMAIN u /\ r[1] = u[1]
    BY <1>4, <1>6, <1>8, <2>1
  <2> QED
    BY <1>1, <1>8, <2>2
<1>9. ASSUME NEW q \in Callers \ {p}, r # <<>>, r[1].do \in News, todo[q] # <<>>, todo[q][1].do \in News
      PROVE  r[1].card # todo[q][1].card
  BY <1>5, <1>8, <1>9 DEF BoardInv, AddsApart, t
<1> QED
  BY <1>2, <1>3, <1>4, <1>7, <1>9, CallGoesOn

LEMMA OneStep ==
    ASSUME BoardInv, NEW p \in Callers, RowsGrow(p), todo[p] # <<>>,
           NEW x \in AllSteps, Then(p, <<x>>),
           x.do \in News => Now(p).do \in News /\ x.card = Now(p).card,
           Freeing(x) => Freeing(Now(p)),
           Sound(x, card')
    PROVE  CallsSound
<1> DEFINE u == <<x>>
<1>1. u \in Seq(AllSteps) /\ DOMAIN u = {1} /\ u[1] = x /\ Len(u) = 1
  OBVIOUS
<1>2. Freeing(x) => Len(todo[p]) > 1
  BY HeadFacts
<1>3. Then(p, u)
  OBVIOUS
<1> HIDE DEF u
<1> QED
  BY <1>1, <1>2, <1>3, ThenGoesOn

LEMMA TwoSteps ==
    ASSUME BoardInv, NEW p \in Callers, RowsGrow(p), todo[p] # <<>>,
           NEW x \in AllSteps, NEW y \in AllSteps, Then(p, <<x, y>>),
           x.do \notin News, y.do \notin News, ~Freeing(y), Sound(x, card'), Sound(y, card')
    PROVE  CallsSound
<1> DEFINE u == <<x, y>>
<1>1. u \in Seq(AllSteps) /\ DOMAIN u = {1, 2} /\ u[1] = x /\ u[2] = y /\ Len(u) = 2
  OBVIOUS
<1>2. Then(p, u)
  OBVIOUS
<1> HIDE DEF u
<1>3. \A i \in DOMAIN u : u[i].do \notin News /\ Sound(u[i], card')
  BY <1>1
<1>4. \A i \in DOMAIN u : Freeing(u[i]) => i < Len(u)
  BY <1>1
<1> QED
  BY <1>1, <1>2, <1>3, <1>4, ThenGoesOn

LEMMA NoStep ==
    ASSUME BoardInv, NEW p \in Callers, RowsGrow(p), todo[p] # <<>>, Then(p, <<>>)
    PROVE  CallsSound
<1>1. <<>> \in Seq(AllSteps) /\ \A i \in DOMAIN <<>> : FALSE
  OBVIOUS
<1> QED
  BY <1>1, ThenGoesOn

LEMMA DropOne ==
    ASSUME NEW t \in Seq(AllSteps), t # <<>>, Shaped(t)
    PROVE  /\ Tail(t) \in Seq(AllSteps) /\ Shaped(Tail(t)) /\ (Len(t) > 1 => Tail(t) # <<>>)
           /\ \A i \in DOMAIN Tail(t) : i + 1 \in DOMAIN t /\ Tail(t)[i] = t[i + 1] /\ Tail(t)[i].do \notin News
<1> DEFINE v == Tail(t)
<1>1. /\ v \in Seq(AllSteps) /\ Len(v) = Len(t) - 1 /\ Len(t) \in Nat \ {0}
      /\ DOMAIN v = 1 .. Len(v) /\ DOMAIN t = 1 .. Len(t)
      /\ \A j \in 1 .. (Len(t) - 1) : v[j] = t[j + 1]
  OBVIOUS
<1> HIDE DEF v
<1>2. \A i \in DOMAIN v : i + 1 \in DOMAIN t /\ v[i] = t[i + 1] /\ i + 1 # 1
  BY <1>1
<1>3. \A i \in DOMAIN v : v[i].do \notin News
  BY <1>2 DEF Shaped
<1>4. ASSUME NEW i \in DOMAIN v, Freeing(v[i]) PROVE i < Len(v)
  <2>1. i + 1 \in DOMAIN t /\ i + 1 < Len(t)
    BY <1>2, <1>4 DEF Shaped
  <2> QED
    BY <1>1, <2>1
<1>5. Shaped(v)
  BY <1>3, <1>4 DEF Shaped
<1>6. Len(t) > 1 => v # <<>>
  <2>1. Len(<<>>) = 0
    OBVIOUS
  <2>2. Len(t) > 1 => Len(v) # 0
    BY <1>1
  <2> QED
    BY <2>1, <2>2
<1> QED
  BY <1>1, <1>2, <1>3, <1>5, <1>6 DEF v

\* The steps that are left were there, and none of them adds a card.
LEMMA LeftGoesOn ==
    ASSUME BoardInv, NEW p \in Callers, card' = card,
           NEW r \in Seq(AllSteps), todo' = [todo EXCEPT ![p] = r], Shaped(r),
           \A i \in DOMAIN r : Sound(r[i], card) /\ r[i].do \notin News
    PROVE  CallsSound
<1>1. RowsGrow(p)
  BY SameRowsGrow
<1>2. \A i \in DOMAIN r : Sound(r[i], card')
  OBVIOUS
<1>3. r # <<>> => 1 \in DOMAIN r
  OBVIOUS
<1>4. r # <<>> => r[1].do \notin News
  BY <1>3
<1> QED
  BY <1>1, <1>2, <1>4, CallGoesOn

LEMMA FailsGoesOn ==
    ASSUME BoardInv, NEW p \in Callers, todo[p] # <<>>, Fails(p), card' = card
    PROVE  CallsSound
<1> DEFINE t == todo[p]
           d == Now(p).depth
           free == Freeing(Now(p))
           left == CASE d = 0 -> <<>>
                     [] d > 0 /\ free -> Tail(Tail(t))
                     [] d > 0 /\ ~free -> Tail(t)
<1>1. /\ t \in Seq(AllSteps) /\ Shaped(t) /\ Now(p) \in AllSteps /\ t # <<>>
      /\ \A i \in DOMAIN t : Sound(t[i], card)
      /\ free => Len(t) > 1
  BY HeadFacts DEF BoardInv, StepsSound
<1>2. d \in Nat
  BY <1>1, StepKinds, Bounds
<1>3. todo' = [todo EXCEPT ![p] = left]
  BY DEF Fails
<1> HIDE DEF d, free, t
<1>4. CASE d = 0
  <2>1. left = <<>>
    BY <1>4
  <2>2. <<>> \in Seq(AllSteps) /\ Shaped(<<>>) /\ \A i \in DOMAIN <<>> : FALSE
    BY DEF Shaped
  <2>3. todo' = [todo EXCEPT ![p] = <<>>]
    BY <1>3, <2>1
  <2> QED
    BY <2>2, <2>3, LeftGoesOn
<1>5. CASE d > 0 /\ ~free
  <2> DEFINE r == Tail(t)
  <2>1. left = r
    BY <1>2, <1>5
  <2>2. r \in Seq(AllSteps) /\ Shaped(r) /\ \A i \in DOMAIN r : Sound(r[i], card) /\ r[i].do \notin News
    BY <1>1, DropOne
  <2> HIDE DEF r, left
  <2>3. todo' = [todo EXCEPT ![p] = r]
    BY <1>3, <2>1
  <2> QED
    BY <2>2, <2>3, LeftGoesOn
<1>6. CASE d > 0 /\ free
  <2> DEFINE v == Tail(t)  r == Tail(v)
  <2>1. left = r
    BY <1>2, <1>6
  <2>2. v \in Seq(AllSteps) /\ Shaped(v) /\ \A i \in DOMAIN v : Sound(v[i], card) /\ v[i].do \notin News
    BY <1>1, DropOne
  <2>3. v # <<>>
    BY <1>1, <1>6, DropOne
  <2> HIDE DEF v
  <2>4. r \in Seq(AllSteps) /\ Shaped(r) /\ \A i \in DOMAIN r : Sound(r[i], card) /\ r[i].do \notin News
    BY <2>2, <2>3, DropOne
  <2> HIDE DEF r, left
  <2>5. todo' = [todo EXCEPT ![p] = r]
    BY <1>3, <2>1
  <2> QED
    BY <2>4, <2>5, LeftGoesOn
<1> QED
  BY <1>2, <1>4, <1>5, <1>6

-----------------------------------------------------------------------------
(* What the steps make of the invariant                                      *)

LEMMA OnlyTodoChanges ==
    ASSUME BoardInv, CallsSound, Rest, card' = card
    PROVE  BoardInv'
<1>1. RowsHold'
  BY DEF BoardInv, RowsHold, CallsSound, Rest
<1>2. DepsExist'
  BY DEF BoardInv, DepsExist, Exists, Rest
<1> QED
  BY <1>1, <1>2 DEF BoardInv, CallsSound

LEMMA AtFacts ==
    ASSUME BoardInv, NEW p \in Callers, NEW step, At(p, step)
    PROVE  /\ todo[p] # <<>> /\ Now(p) \in AllSteps /\ Now(p).do = step /\ Now(p).card \in Cards
           /\ Sound(Now(p), card) /\ todo[p][1] = Now(p)
           /\ step \notin News => card[Now(p).card] \in Rows
<1>1. todo[p] # <<>> /\ Now(p).do = step
  BY DEF At
<1>2. Now(p) \in AllSteps /\ Sound(Now(p), card) /\ todo[p][1] = Now(p) /\ Now(p).card \in Cards
  BY <1>1, HeadFacts, StepKinds
<1>3. step \notin News => card[Now(p).card] \in Rows
  BY <1>1, <1>2 DEF Sound, BoardInv, RowsHold
<1> QED
  BY <1>1, <1>2, <1>3

LEMMA KnownTarget ==
    ASSUME BoardInv, NEW c \in Cards, NEW k \in Columns
    PROVE  /\ ApprovalTarget(k) \in Columns
           /\ Previous(c, k) \in Columns \cup {NoColumn}
<1>1. ApprovalTarget(k) \in Columns
  <2> DEFINE later == {l \in Approval : Position[l] > Position[k]}
  <2>1. later \in SUBSET Columns
    BY BoardShape
  <2>2. ApprovalTarget(k) = IF later # {} THEN Lowest(later) ELSE FirstOf("terminal")
    BY DEF ApprovalTarget
  <2> HIDE DEF later
  <2> QED
    BY <2>1, <2>2, LowestIn, ReadyAndTerminal
<1>2. Previous(c, k) \in Columns \cup {NoColumn}
  <2>1. cameFrom[c][k] \in Columns \cup {NoColumn}
    BY DEF BoardInv, RowsHold
  <2> QED
    BY <2>1, FirstOfIn DEF Previous
<1> QED
  BY <1>1, <1>2

LEMMA EditFacts ==
    ASSUME NEW kind \in EditKinds, NEW to \in Columns \cup {NoColumn}, NEW who \in Agents \cup {NoAgent},
           NEW reason \in Reasons, NEW by \in Actors \cup {System}
    PROVE  /\ Edit(kind, to, who, reason, by) \in Edits
           /\ Edit(kind, to, who, reason, by).kind = kind
           /\ (kind \in Movers => to \in Columns) /\ (kind = "approve" => by \in Actors)
                => EditSound(Edit(kind, to, who, reason, by))
BY DEF Edit, Edits, EditSound

LEMMA ReadingFacts ==
    ASSUME NEW c \in Cards, NEW e \in Edits, EditSound(e), NEW actor \in Actors \cup {System},
           NEW depth \in 0..MaxDepth, NEW rows, rows[c] # NoCard
    PROVE  /\ Reading(c, e, actor, depth) \in AllSteps
           /\ Reading(c, e, actor, depth).do = "read" /\ Reading(c, e, actor, depth).edit = e
           /\ Sound(Reading(c, e, actor, depth), rows)
<1> DEFINE s == Reading(c, e, actor, depth)
<1>1. s = [do |-> "read", card |-> c, edit |-> e, actor |-> actor, depth |-> depth, tries |-> 0]
  BY DEF Reading
<1>2. s \in Readings /\ s.do = "read" /\ s.edit = e /\ s.card = c
  BY <1>1 DEF Readings
<1> HIDE DEF s
<1>3. Sound(s, rows)
  BY <1>2 DEF Sound, News
<1> QED
  BY <1>2, <1>3, StepSets DEF s

LEMMA GateFacts ==
    ASSUME NEW c \in Cards, NEW e \in Edits, EditSound(e), NEW actor \in Actors \cup {System},
           NEW depth \in 0..MaxDepth, NEW rows, rows[c] # NoCard
    PROVE  /\ [Reading(c, e, actor, depth) EXCEPT !.do = "gate"] \in AllSteps
           /\ [Reading(c, e, actor, depth) EXCEPT !.do = "gate"].do = "gate"
           /\ Sound([Reading(c, e, actor, depth) EXCEPT !.do = "gate"], rows)
<1> DEFINE g == [Reading(c, e, actor, depth) EXCEPT !.do = "gate"]
<1>1. g = [do |-> "gate", card |-> c, edit |-> e, actor |-> actor, depth |-> depth, tries |-> 0]
  BY DEF Reading
<1>2. g \in Readings /\ g.do = "gate" /\ g.edit = e /\ g.card = c
  BY <1>1 DEF Readings
<1> HIDE DEF g
<1>3. Sound(g, rows)
  BY <1>2 DEF Sound, News
<1> QED
  BY <1>2, <1>3, StepSets DEF g

LEMMA FindStep == ASSUME BoardInv, NEW p \in Callers, Find(p) PROVE BoardInv'
<1> DEFINE s == Now(p)
           k == card[s.card]
           to == Target(s, k)
           e == Edit(s.op, to, s.who, s.reason, p)
           edit == Reading(s.card, e, p, 0)
           gate == [edit EXCEPT !.do = "gate"]
           gated == /\ s.op = "approve" \/ (s.op = "move" /\ k.col # to)
                    /\ to \in Commands
           refused == \/ NeedsApproval(s, k)
                      \/ s.op = "approve" /\ OwnApproval(s, k, to)
                      \/ s.op = "reject" /\ to = NoColumn
<1>1. At(p, "find") /\ Rest /\ card' = card /\ IF refused THEN Fails(p) ELSE Then(p, IF gated THEN <<gate, edit>> ELSE <<edit>>)
  BY DEF Find
<1>2. /\ todo[p] # <<>> /\ s \in Finds /\ s.card \in Cards /\ k \in Rows /\ s.do = "find"
      /\ s.op \notin {"free", "own"} /\ (s.op = "move" => s.to \in Columns)
  BY <1>1, AtFacts, StepKinds DEF Sound, News
<1>3. RowsGrow(p)
  BY <1>1, SameRowsGrow
<1>4. CASE refused
  BY <1>1, <1>2, <1>4, FailsGoesOn, OnlyTodoChanges
<1>5. CASE ~refused
  <2>1. /\ s.op \in EditKinds /\ s.to \in Columns \cup {NoColumn} /\ s.who \in Agents \cup {NoAgent}
        /\ s.reason \in Reasons /\ k.col \in Columns
    BY <1>2 DEF Finds, Rows
  <2>2. to \in Columns \cup {NoColumn} /\ (s.op \in Movers => to \in Columns)
    <3>1. CASE s.op = "approve"
      BY <1>2, <2>1, <3>1, KnownTarget DEF Target
    <3>2. CASE s.op = "reject"
      <4>1. to = Previous(s.card, k.col)
        BY <3>2 DEF Target
      <4>2. to # NoColumn
        BY <1>5, <3>2
      <4> QED
        BY <1>2, <2>1, <4>1, <4>2, KnownTarget
    <3>3. CASE s.op \notin {"approve", "reject"}
      <4>1. to = s.to
        BY <3>3 DEF Target
      <4> QED
        BY <1>2, <2>1, <3>3, <4>1 DEF Movers, Moves
    <3> QED
      BY <3>1, <3>2, <3>3
  <2>3. p \in Actors
    BY Names
  <2>4. e \in Edits /\ EditSound(e) /\ e.kind = s.op
    <3> DEFINE o == s.op  w == s.who  r == s.reason
    <3>1. e = Edit(o, to, w, r, p) /\ o \in EditKinds /\ w \in Agents \cup {NoAgent} /\ r \in Reasons
      BY <2>1
    <3>2. to \in Columns \cup {NoColumn} /\ (o \in Movers => to \in Columns) /\ p \in Actors \cup {System}
      BY <2>2, <2>3
    <3> HIDE DEF o, w, r, to, s, e
    <3>3. e \in Edits /\ e.kind = o /\ EditSound(e)
      BY <2>3, <3>1, <3>2, EditFacts
    <3> QED
      BY <3>3 DEF o
  <2>5. 0 \in 0..MaxDepth
    BY Bounds
  <2>6. card'[s.card] # NoCard
    BY <1>1, <1>2, RowsAndRules
  <2> DEFINE c == s.card
  <2>10. p \in Actors \cup {System} /\ c \in Cards /\ card'[c] # NoCard
    BY <1>2, <2>3, <2>6
  <2> HIDE DEF e, s, to, k, gated, refused, c
  <2>7. /\ edit \in AllSteps /\ edit.do = "read" /\ edit.edit = e /\ Sound(edit, card')
        /\ gate \in AllSteps /\ gate.do = "gate" /\ Sound(gate, card')
    BY <2>10, <2>4, <2>5, ReadingFacts, GateFacts DEF c
  <2> HIDE DEF edit, gate
  <2>8. ~Freeing(edit) /\ edit.do \notin News /\ gate.do \notin News
    BY <1>2, <2>4, <2>7 DEF Freeing, News
  <2>9. CallsSound
    <3>1. CASE gated
      BY <1>1, <1>2, <1>3, <1>5, <2>7, <2>8, <3>1, TwoSteps
    <3>2. CASE ~gated
      BY <1>1, <1>2, <1>3, <1>5, <2>7, <2>8, <3>2, OneStep
    <3> QED
      BY <3>1, <3>2
  <2> QED
    BY <1>1, <2>9, OnlyTodoChanges
<1> QED
  BY <1>4, <1>5

LEMMA GateStep == ASSUME BoardInv, NEW p \in Callers, GateRuns(p) PROVE BoardInv'
<1>1. At(p, "gate") /\ Rest /\ card' = card /\ (Then(p, <<>>) \/ Fails(p))
  BY DEF GateRuns
<1>2. CallsSound
  BY <1>1, AtFacts, SameRowsGrow, NoStep, FailsGoesOn
<1> QED
  BY <1>1, <1>2, OnlyTodoChanges

LEMMA ReadStep == ASSUME BoardInv, NEW p \in Callers, Read(p) PROVE BoardInv'
<1> DEFINE s == Now(p)
           k == card[s.card]
           w == Writing(s)
<1>1. At(p, "read") /\ Rest /\ card' = card
  BY DEF Read
<1>2. /\ todo[p] # <<>> /\ s \in Readings /\ s.card \in Cards /\ k \in Rows /\ s.do = "read" /\ EditSound(s.edit)
  BY <1>1, AtFacts, StepKinds DEF Sound, News
<1>3. RowsGrow(p)
  BY <1>1, SameRowsGrow
<1>4. CASE Fails(p) \/ Then(p, <<>>)
  BY <1>1, <1>2, <1>3, <1>4, FailsGoesOn, NoStep, OnlyTodoChanges
<1>5. CASE ~LeavesAlone(k, s.edit) /\ Then(p, <<w>>)
  <2>1. w = [do |-> "write", card |-> s.card, edit |-> s.edit, actor |-> s.actor,
             depth |-> s.depth, tries |-> s.tries, before |-> k]
    BY DEF Writing
  <2> HIDE DEF s, w
  <2>2. w \in Writings /\ w.do = "write" /\ w.edit = s.edit /\ w.card = s.card /\ w.before = k
    BY <1>2, <2>1 DEF Readings, Writings
  <2>3. ReadFrom(w, card'[w.card])
    <3>1. k.version <= k.version
      BY <1>2 DEF Rows
    <3>2. s.edit.kind = "own" => k.assignee = NoAgent
      BY <1>5 DEF LeavesAlone
    <3> QED
      BY <1>1, <2>2, <3>1, <3>2 DEF ReadFrom
  <2>4. Sound(w, card')
    BY <1>1, <1>2, <2>2, <2>3, RowsAndRules DEF Sound, News
  <2>5. (Freeing(w) => Freeing(s)) /\ w.do \notin News /\ w \in AllSteps
    BY <1>2, <2>2, StepSets DEF Freeing, News
  <2>6. CallsSound
    BY <1>2, <1>3, <1>5, <2>4, <2>5, OneStep DEF s
  <2> QED
    BY <1>1, <2>6, OnlyTodoChanges
<1> QED
  BY <1>4, <1>5 DEF Read

\* What lands is the edit of the row there is, which was the row that was read.
LEMMA WrittenFacts ==
    ASSUME BoardInv, NEW p \in Callers, At(p, "write")
    PROVE  /\ todo[p] # <<>> /\ Now(p) \in Writings /\ Now(p).do = "write" /\ Now(p).card \in Cards
           /\ card[Now(p).card] \in Rows /\ Now(p).edit \in Edits /\ EditSound(Now(p).edit)
           /\ UpToDate(Now(p).card, Now(p)) => Now(p).before = card[Now(p).card]
           /\ Now(p).edit.kind = "own" => Now(p).before.assignee = NoAgent
<1> DEFINE s == Now(p)
<1>1. /\ todo[p] # <<>> /\ s \in Writings /\ s.do = "write" /\ s.card \in Cards
      /\ card[s.card] \in Rows /\ EditSound(s.edit) /\ ReadFrom(s, card[s.card])
  BY AtFacts, StepKinds DEF Sound, News
<1>2. s.edit \in Edits
  BY <1>1 DEF Writings
<1> HIDE DEF s
<1>3. UpToDate(s.card, s) => s.before = card[s.card]
  BY <1>1 DEF UpToDate, ReadFrom
<1>4. s.edit.kind = "own" => s.before.assignee = NoAgent
  BY <1>1 DEF ReadFrom
<1> QED
  BY <1>1, <1>2, <1>3, <1>4 DEF s

LEMMA LandStep == ASSUME BoardInv, NEW p \in Callers, WriteLands(p) PROVE BoardInv'
<1> DEFINE s == Now(p)
           c == s.card
           k == card[c]
           n == After(s.before, s.edit)
           x == [s EXCEPT !.do = "record"]
<1>1. At(p, "write") /\ Rest /\ UpToDate(c, s) /\ card' = [card EXCEPT ![c] = n] /\ Then(p, <<x>>)
  BY DEF WriteLands
<1>2. /\ todo[p] # <<>> /\ s \in Writings /\ c \in Cards /\ k \in Rows /\ s.before = k
      /\ s.edit \in Edits /\ EditSound(s.edit)
  BY <1>1, WrittenFacts
<1>3. n \in Rows /\ n.version = k.version + 1
  <2>1. k \in Rows /\ s.edit \in Edits /\ EditSound(s.edit) /\ n = After(k, s.edit)
    BY <1>2
  <2> HIDE DEF n, k, s
  <2> QED
    BY <2>1, AfterFacts
<1>4. x \in Writings /\ x.do = "record" /\ x.edit = s.edit /\ x.card = c
  BY <1>2 DEF Writings
<1>5. card \in [Cards -> Rows \cup {NoCard}]
  BY DEF BoardInv, RowsHold
<1> HIDE DEF s, c, k, n, x
<1>6. /\ card' \in [Cards -> Rows \cup {NoCard}] /\ card'[c] = n
      /\ \A d \in Cards : d # c => card'[d] = card[d]
  BY <1>1, <1>2, <1>3, <1>5
<1>7. RowsGrow(p)
  <2> SUFFICES ASSUME NEW d \in Cards
               PROVE  /\ card[d] # NoCard =>
                           /\ card'[d] \in Rows /\ card[d].version <= card'[d].version
                           /\ card[d].version = card'[d].version => card'[d] = card[d]
                      /\ card[d] = NoCard => card'[d] = NoCard
    BY DEF RowsGrow
  <2>1. CASE d = c
    <3>1. k.version \in Nat /\ card[d] = k /\ card'[d] = n
      BY <1>2, <1>6, <2>1 DEF Rows, k
    <3>2. k.version <= n.version /\ k.version # n.version
      BY <1>3, <3>1
    <3> QED
      BY <1>2, <1>3, <3>1, <3>2, RowsAndRules
  <2>2. CASE d # c
    <3>1. card'[d] = card[d] /\ card[d] \in Rows \cup {NoCard}
      BY <1>5, <1>6, <2>2
    <3> QED
      BY <3>1 DEF Rows
  <2> QED
    BY <2>1, <2>2
<1>8. Sound(x, card')
  <2>1. card'[x.card] # NoCard
    BY <1>3, <1>4, <1>6, RowsAndRules
  <2> QED
    BY <1>2, <1>4, <2>1 DEF Sound, News
<1>9. x \in AllSteps /\ ~Freeing(x) /\ x.do \notin News
  BY <1>4, StepSets DEF Freeing, News
<1>10. CallsSound
  BY <1>1, <1>2, <1>7, <1>8, <1>9, OneStep
<1>11. RowsHold'
  BY <1>1, <1>6, <1>10 DEF BoardInv, RowsHold, CallsSound, Rest
<1>12. DepsExist'
  <2>1. \A d \in Cards : card[d] # NoCard => card'[d] # NoCard
    BY <1>7, RowsAndRules DEF RowsGrow
  <2> QED
    BY <1>1, <2>1 DEF BoardInv, DepsExist, Exists, Rest
<1> QED
  BY <1>10, <1>11, <1>12 DEF BoardInv, CallsSound

LEMMA StaleStep == ASSUME BoardInv, NEW p \in Callers, WriteStale(p) PROVE BoardInv'
<1> DEFINE s == Now(p)
           x == Again(s)
<1>1. At(p, "write") /\ Rest /\ card' = card /\ (Then(p, <<x>>) \/ Fails(p))
  BY DEF WriteStale
<1>2. /\ todo[p] # <<>> /\ s \in Writings /\ s.do = "write" /\ s.card \in Cards /\ card[s.card] \in Rows
      /\ EditSound(s.edit)
  BY <1>1, WrittenFacts
<1>3. RowsGrow(p)
  BY <1>1, SameRowsGrow
<1>4. CASE Fails(p)
  BY <1>1, <1>2, <1>4, FailsGoesOn, OnlyTodoChanges
<1>5. CASE Then(p, <<x>>)
  <2>1. x = [do |-> "read", card |-> s.card, edit |-> s.edit, actor |-> s.actor, depth |-> s.depth,
             tries |-> s.tries + 1]
    BY DEF Again, Reading
  <2> HIDE DEF s, x
  <2>2. x \in Readings /\ x.do = "read" /\ x.edit = s.edit /\ x.card = s.card
    BY <1>2, <2>1 DEF Readings, Writings
  <2>3. Sound(x, card')
    BY <1>1, <1>2, <2>2, RowsAndRules DEF Sound, News
  <2>4. x \in AllSteps /\ x.do \notin News /\ (Freeing(x) => Freeing(s))
    BY <1>2, <2>2, StepSets DEF Freeing, News
  <2>5. CallsSound
    BY <1>2, <1>3, <1>5, <2>3, <2>4, OneStep DEF s
  <2> QED
    BY <1>1, <2>5, OnlyTodoChanges
<1> QED
  BY <1>1, <1>4, <1>5

LEMMA FullStep == ASSUME BoardInv, NEW p \in Callers, WriteFull(p) PROVE BoardInv'
<1>1. At(p, "write") /\ Rest /\ card' = card /\ Fails(p)
  BY DEF WriteFull
<1>2. CallsSound
  BY <1>1, AtFacts, FailsGoesOn
<1> QED
  BY <1>1, <1>2, OnlyTodoChanges

LEMMA ActionKinds ==
    ASSUME NEW a \in Actions
    PROVE  /\ a.do \in {"own", "unblock", "assign", "move"}
           /\ a.do = "assign" => a.who \in Agents \cup {NoAgent}
           /\ a.do = "move" => a.to \in Columns
BY DEF Actions

\* The automations a write sets off are actions on its card.
LEMMA AutomatedActs ==
    ASSUME rules \in RuleSets, NEW trigger, NEW k, NEW c \in Cards, NEW actor \in Actors \cup {System},
           NEW depth \in 0..MaxDepth
    PROVE  Automated(trigger, k, c, actor, depth) \in Seq({a \in Acts : a.card = c})
<1> DEFINE T == {r \in {rules[i] : i \in DOMAIN rules} : r.when = trigger /\ r.column = k}
           fits == Sifted(rules, T)
           S == {a \in Acts : a.card = c}
           act(i) == [do |-> "act", action |-> fits[i].action, card |-> c, actor |-> actor, depth |-> Deeper(depth)]
<1>1. Automated(trigger, k, c, actor, depth)
        = IF Cut(depth) THEN <<>> ELSE [i \in DOMAIN fits |-> act(i)]
  BY DEF Automated
<1>2. rules \in Seq(Rules)
  BY RowsAndRules
<1>3. fits \in Seq(Rules)
  <2> HIDE DEF T
  <2> QED
    BY <1>2, SiftedIsThinned
<1> HIDE DEF fits
<1>4. CASE Cut(depth)
  <2>1. <<>> \in Seq(S)
    OBVIOUS
  <2> QED
    BY <1>1, <1>4, <2>1
<1>5. CASE ~Cut(depth)
  <2>1. Deeper(depth) \in 0..MaxDepth
    BY <1>5, Bounds DEF Cut, Deeper
  <2>2. ASSUME NEW i \in DOMAIN fits PROVE act(i) \in S
    <3>1. fits[i] \in Rules
      BY <1>3, <2>2
    <3>2. fits[i].action \in Actions
      BY <3>1 DEF Rules
    <3> QED
      BY <2>1, <3>2 DEF Acts
  <2>3. DOMAIN fits = 1 .. Len(fits) /\ Len(fits) \in Nat
    BY <1>3
  <2> HIDE DEF S, act
  <2>4. [i \in DOMAIN fits |-> act(i)] \in Seq(S)
    BY <2>2, <2>3
  <2> QED
    BY <1>1, <1>5, <2>4 DEF S
<1> QED
  BY <1>4, <1>5

LEMMA ActsGoOn ==
    ASSUME BoardInv, NEW p \in Callers, todo[p] # <<>>, NEW c \in Cards, card[c] # NoCard, card' = card,
           NEW v \in Seq({a \in Acts : a.card = c}), NEW w \in Seq({a \in Acts : a.card = c}), Then(p, v \o w)
    PROVE  CallsSound
<1> DEFINE S == {a \in Acts : a.card = c}
           u == v \o w
<1>1. u \in Seq(S)
  <2> HIDE DEF S
  <2>1. v \in Seq(S) /\ w \in Seq(S)
    BY DEF S
  <2> QED
    BY <2>1
<1>2. Then(p, u)
  OBVIOUS
<1> HIDE DEF u
<1>3. ASSUME NEW i \in DOMAIN u PROVE u[i] \in AllSteps /\ u[i].do \notin News /\ ~Freeing(u[i]) /\ Sound(u[i], card')
  <2>1. u[i] \in S
    BY <1>1, <1>3
  <2> DEFINE x == u[i]
  <2>2. x \in Acts /\ x.card = c /\ x.do = "act"
    BY <2>1 DEF Acts
  <2> HIDE DEF x
  <2>3. x \in AllSteps /\ x.do \notin News /\ ~Freeing(x) /\ Sound(x, card')
    BY <2>2, StepSets DEF News, Freeing, Sound
  <2> QED
    BY <2>3 DEF x
<1>4. u \in Seq(AllSteps)
  <2>1. Acts \subseteq AllSteps
    BY StepSets
  <2>2. S \subseteq AllSteps
    BY <2>1
  <2> HIDE DEF S
  <2> QED
    BY <1>1, <2>2
<1>5. RowsGrow(p)
  BY SameRowsGrow
<1> QED
  BY <1>2, <1>3, <1>4, <1>5, ThenGoesOn

LEMMA RecordStep == ASSUME BoardInv, NEW p \in Callers, Record(p) PROVE BoardInv'
<1> DEFINE s == Now(p)
           from == s.before.col
           to == After(s.before, s.edit).col
           v == Automated("leaves", from, s.card, s.actor, s.depth)
           w == Automated("enters", to, s.card, s.actor, s.depth)
<1>1. /\ At(p, "record") /\ UNCHANGED <<card, deps, rules, calls>>
      /\ cameFrom' \in {Recorded(s.card, from, to), cameFrom}
      /\ Then(p, <<>>) \/ Then(p, v \o w)
  BY DEF Record
<1>2. /\ todo[p] # <<>> /\ s \in Writings /\ s.card \in Cards /\ card[s.card] \in Rows /\ EditSound(s.edit)
  BY <1>1, AtFacts, StepKinds DEF Sound, News
<1>3. s.before \in Rows /\ s.edit \in Edits /\ s.actor \in Actors \cup {System} /\ s.depth \in 0..MaxDepth
  BY <1>2 DEF Writings
<1>4. from \in Columns /\ to \in Columns
  <2> DEFINE b == s.before  e == s.edit
  <2>1. b \in Rows /\ e \in Edits /\ EditSound(e)
    BY <1>2, <1>3
  <2> HIDE DEF b, e
  <2>2. After(b, e) \in Rows
    BY <2>1, AfterFacts
  <2>3. After(b, e).col \in Columns /\ b.col \in Columns
    BY <2>1, <2>2 DEF Rows
  <2> QED
    BY <2>3 DEF b, e
<1>5. cameFrom' \in [Cards -> [Columns -> Columns \cup {NoColumn}]]
  <2>1. cameFrom \in [Cards -> [Columns -> Columns \cup {NoColumn}]]
    BY DEF BoardInv, RowsHold
  <2> HIDE DEF from, to, s
  <2> QED
    BY <1>1, <1>4, <2>1 DEF Recorded
<1>6. CallsSound
  <2>1. CASE Then(p, <<>>)
    BY <1>1, <1>2, <2>1, SameRowsGrow, NoStep
  <2>2. CASE Then(p, v \o w)
    <3> DEFINE c == s.card
    <3>1. rules \in RuleSets /\ c \in Cards /\ card[c] # NoCard /\ card' = card
      BY <1>1, <1>2, RowsAndRules DEF BoardInv, RowsHold
    <3>2. v \in Seq({a \in Acts : a.card = c}) /\ w \in Seq({a \in Acts : a.card = c})
      <4> DEFINE actor == s.actor  depth == s.depth
      <4>1. actor \in Actors \cup {System} /\ depth \in 0..MaxDepth
        BY <1>3
      <4> HIDE DEF actor, depth, c, from, to
      <4>2. /\ Automated("leaves", from, c, actor, depth) \in Seq({a \in Acts : a.card = c})
            /\ Automated("enters", to, c, actor, depth) \in Seq({a \in Acts : a.card = c})
        BY <3>1, <4>1, AutomatedActs
      <4> QED
        BY <4>2 DEF actor, depth, c
    <3> HIDE DEF v, w, c
    <3> QED
      BY <1>2, <2>2, <3>1, <3>2, ActsGoOn
  <2> QED
    BY <1>1, <2>1, <2>2
<1>7. RowsHold'
  BY <1>1, <1>5, <1>6 DEF BoardInv, RowsHold, CallsSound
<1>8. DepsExist'
  BY <1>1 DEF BoardInv, DepsExist, Exists
<1> QED
  BY <1>6, <1>7, <1>8 DEF BoardInv, CallsSound

LEMMA ActStep == ASSUME BoardInv, NEW p \in Callers, Act(p) PROVE BoardInv'
<1> DEFINE s == Now(p)
           a == s.action
           own == AgentOf(s.actor)
           step(e) == Reading(s.card, e, System, s.depth)
           left == [do |-> "unblock", card |-> s.card, left |-> Dependents(s.card),
                    depth |-> s.depth, actor |-> System]
<1>1. At(p, "act") /\ Rest /\ card' = card
  BY DEF Act
<1>2. /\ todo[p] # <<>> /\ s \in Acts /\ s.card \in Cards /\ card[s.card] \in Rows
  BY <1>1, AtFacts, StepKinds DEF News
<1>3. RowsGrow(p)
  BY <1>1, SameRowsGrow
<1>4. a \in Actions /\ s.depth \in 0..MaxDepth /\ card'[s.card] # NoCard /\ System \in Actors \cup {System}
  BY <1>1, <1>2, RowsAndRules DEF Acts
<1>5. own \in Agents \cup {NoAgent} /\ NoAgent \in Agents \cup {NoAgent} /\ "none" \in Reasons
  BY DEF AgentOf, Reasons
<1>6. ASSUME NEW e \in Edits, EditSound(e), e.kind # "free", Then(p, <<step(e)>>)
      PROVE  CallsSound
  <2> DEFINE c == s.card  d == s.depth  x == Reading(c, e, System, d)
  <2>1. c \in Cards /\ d \in 0..MaxDepth /\ card'[c] # NoCard
    BY <1>2, <1>4
  <2> HIDE DEF c, d
  <2>2. x \in AllSteps /\ x.do = "read" /\ x.edit = e /\ Sound(x, card')
    BY <1>4, <1>6, <2>1, ReadingFacts
  <2>3. Then(p, <<x>>)
    BY <1>6 DEF c, d
  <2> HIDE DEF x
  <2>4. ~Freeing(x) /\ x.do \notin News
    BY <1>6, <2>2 DEF Freeing, News
  <2> QED
    BY <1>2, <1>3, <2>2, <2>3, <2>4, OneStep
<1>7. CASE Then(p, <<>>) \/ Fails(p)
  BY <1>1, <1>2, <1>3, <1>7, NoStep, FailsGoesOn, OnlyTodoChanges
<1>8. CASE a.do = "own" /\ own # NoAgent /\ Then(p, <<step(Edit("own", NoColumn, own, "none", System))>>)
  <2> HIDE DEF own
  <2> DEFINE e == Edit("own", NoColumn, own, "none", System)
  <2>1. e \in Edits /\ e.kind = "own" /\ EditSound(e)
    BY <1>4, <1>5, EditFacts DEF EditKinds, Movers, Moves
  <2> HIDE DEF e, step
  <2>2. CallsSound
    BY <1>6, <1>8, <2>1 DEF e
  <2> QED
    BY <1>1, <2>2, OnlyTodoChanges
<1>9. CASE a.do = "assign" /\ Then(p, <<step(Edit("assign", NoColumn, a.who, "none", System))>>)
  <2> DEFINE w == a.who
  <2>1. w \in Agents \cup {NoAgent}
    BY <1>4, <1>9, ActionKinds
  <2> HIDE DEF w
  <2> DEFINE e == Edit("assign", NoColumn, w, "none", System)
  <2>2. e \in Edits /\ e.kind = "assign" /\ EditSound(e)
    BY <1>4, <1>5, <2>1, EditFacts DEF EditKinds, Movers, Moves
  <2>3. Then(p, <<step(e)>>)
    BY <1>9 DEF w
  <2> HIDE DEF e, step
  <2>4. CallsSound
    BY <1>6, <2>2, <2>3
  <2> QED
    BY <1>1, <2>4, OnlyTodoChanges
<1>10. CASE a.do = "move" /\ Then(p, <<step(Edit("move", a.to, NoAgent, "none", System))>>)
  <2> DEFINE to == a.to
  <2>1. to \in Columns
    BY <1>4, <1>10, ActionKinds
  <2> HIDE DEF to
  <2> DEFINE e == Edit("move", to, NoAgent, "none", System)
  <2>2. e \in Edits /\ e.kind = "move" /\ EditSound(e)
    BY <1>4, <1>5, <2>1, EditFacts DEF EditKinds, Movers, Moves
  <2>3. Then(p, <<step(e)>>)
    BY <1>10 DEF to
  <2> HIDE DEF e, step
  <2>4. CallsSound
    BY <1>6, <2>2, <2>3
  <2> QED
    BY <1>1, <2>4, OnlyTodoChanges
<1>11. CASE Then(p, <<left>>)
  <2>1. Dependents(s.card) \subseteq Cards /\ \A d \in Dependents(s.card) : card'[d] # NoCard
    BY <1>1, <1>2 DEF Dependents, BoardInv, DepsExist, Exists
  <2>2. left \in Unblockings /\ left.do = "unblock" /\ left.card = s.card /\ left.left = Dependents(s.card)
    BY <1>2, <1>4, <2>1 DEF Unblockings
  <2> HIDE DEF left, s
  <2>3. left \in AllSteps /\ ~Freeing(left) /\ left.do \notin News /\ Sound(left, card')
    BY <1>4, <2>1, <2>2, StepSets DEF Freeing, News, Sound
  <2>4. CallsSound
    BY <1>2, <1>3, <1>11, <2>3, OneStep
  <2> QED
    BY <1>1, <2>4, OnlyTodoChanges
<1> QED
  BY <1>7, <1>8, <1>9, <1>10, <1>11 DEF Act

LEMMA UnblockStep == ASSUME BoardInv, NEW p \in Callers, Unblock(p) PROVE BoardInv'
<1> DEFINE s == Now(p)
           e == Edit("free", FirstOf("ready"), NoAgent, "none", System)
           free(d) == Reading(d, e, System, s.depth)
           on(d) == [s EXCEPT !.left = @ \ {d}]
<1>1. /\ At(p, "unblock") /\ Rest /\ card' = card
      /\ \/ Then(p, <<>>)
         \/ \E d \in s.left : Then(p, <<free(d), on(d)>>) \/ Then(p, <<on(d)>>)
  BY DEF Unblock
<1>2. /\ todo[p] # <<>> /\ s \in Unblockings /\ s.card \in Cards /\ card[s.card] \in Rows /\ s.do = "unblock"
      /\ \A d \in s.left : card[d] # NoCard
  BY <1>1, AtFacts, StepKinds DEF News, Sound
<1>3. RowsGrow(p)
  BY <1>1, SameRowsGrow
<1>4. CASE Then(p, <<>>)
  BY <1>1, <1>2, <1>3, <1>4, NoStep, OnlyTodoChanges
<1>5. CASE \E d \in s.left : Then(p, <<free(d), on(d)>>) \/ Then(p, <<on(d)>>)
  <2>1. PICK d \in s.left : Then(p, <<free(d), on(d)>>) \/ Then(p, <<on(d)>>)
    BY <1>5
  <2>2. d \in Cards /\ s.depth \in 0..MaxDepth /\ card'[d] # NoCard /\ System \in Actors \cup {System}
    BY <1>1, <1>2 DEF Unblockings
  <2> DEFINE x == free(d)  y == on(d)
  <2>3. y \in Unblockings /\ y.do = "unblock" /\ y.card = s.card /\ y.left \subseteq s.left
    BY <1>2 DEF Unblockings
  <2>4. Then(p, <<x, y>>) \/ Then(p, <<y>>)
    BY <2>1
  <2>5. e \in Edits /\ EditSound(e)
    <3> DEFINE to == FirstOf("ready")
    <3>1. to \in Columns /\ NoAgent \in Agents \cup {NoAgent} /\ "none" \in Reasons
      BY ReadyAndTerminal DEF Reasons
    <3> HIDE DEF to
    <3>2. Edit("free", to, NoAgent, "none", System) \in Edits /\ EditSound(Edit("free", to, NoAgent, "none", System))
      BY <3>1, EditFacts DEF EditKinds
    <3> QED
      BY <3>2 DEF to
  <2>6. x \in AllSteps /\ x.do = "read" /\ Sound(x, card')
    <3> DEFINE depth == s.depth
    <3>1. depth \in 0..MaxDepth
      BY <2>2
    <3> HIDE DEF depth, e
    <3>2. LET r == Reading(d, e, System, depth) IN r \in AllSteps /\ r.do = "read" /\ Sound(r, card')
      BY <2>2, <2>5, <3>1, ReadingFacts
    <3> QED
      BY <3>2 DEF depth
  <2> HIDE DEF x, y, s
  <2>7. y \in AllSteps /\ ~Freeing(y) /\ y.do \notin News /\ x.do \notin News
    BY <2>3, <2>6, StepSets DEF Freeing, News
  <2>8. Sound(y, card')
    BY <1>1, <1>2, <2>3, RowsAndRules DEF Sound, News
  <2>9. CallsSound
    BY <1>2, <1>3, <2>4, <2>6, <2>7, <2>8, OneStep, TwoSteps
  <2> QED
    BY <1>1, <2>9, OnlyTodoChanges
<1> QED
  BY <1>1, <1>4, <1>5

LEMMA AddStep == ASSUME BoardInv, NEW p \in Callers, Add(p) PROVE BoardInv'
<1> DEFINE s == Now(p)
           x == [s EXCEPT !.do = "insert"]
<1>1. At(p, "add") /\ Rest /\ card' = card /\ (Fails(p) \/ Then(p, <<x>>))
  BY DEF Add
<1>2. todo[p] # <<>> /\ s \in Adds /\ s.do = "add" /\ Sound(s, card)
  BY <1>1, AtFacts, StepKinds DEF News
<1>3. x \in Adds /\ x.do = "insert" /\ x.card = s.card /\ x.on = s.on
  BY <1>2 DEF Adds
<1>4. CASE Fails(p)
  BY <1>1, <1>2, <1>4, FailsGoesOn, OnlyTodoChanges
<1>5. CASE Then(p, <<x>>)
  <2> HIDE DEF x, s
  <2>1. x \in AllSteps /\ ~Freeing(x) /\ s.do \in News /\ Sound(x, card')
    BY <1>1, <1>2, <1>3, StepSets DEF Freeing, News, Sound
  <2>2. CallsSound
    BY <1>1, <1>2, <1>3, <1>5, <2>1, SameRowsGrow, OneStep DEF s
  <2> QED
    BY <1>1, <2>2, OnlyTodoChanges
<1> QED
  BY <1>1, <1>4, <1>5

LEMMA InsertStep == ASSUME BoardInv, NEW p \in Callers, Insert(p) PROVE BoardInv'
<1> DEFINE s == Now(p)
           c == s.card
           n == Row(s.to, s.who, s.reason)
           x == [s EXCEPT !.do = "link"]
<1>1. At(p, "insert") /\ Rest /\ card' = [card EXCEPT ![c] = n] /\ Then(p, <<x>>)
  BY DEF Insert
<1>2. /\ todo[p] # <<>> /\ s \in Adds /\ s.do = "insert" /\ Sound(s, card) /\ c \in Cards
      /\ todo[p][1] = s
  BY <1>1, AtFacts, StepKinds DEF News
<1>3. card[c] = NoCard /\ (s.on = NoCard \/ card[s.on] # NoCard) /\ s.on \in Cards \cup {NoCard}
  BY <1>2 DEF Sound, News, Adds
<1>4. n \in Rows
  <2>1. s.to \in Columns /\ s.who \in Agents \cup {NoAgent} /\ s.reason \in Reasons
    BY <1>2 DEF Adds, Reasons
  <2> QED
    BY <2>1 DEF Row, Rows
<1>5. x \in Adds /\ x.do = "link" /\ x.card = c /\ x.on = s.on
  BY <1>2 DEF Adds
<1>6. card \in [Cards -> Rows \cup {NoCard}]
  BY DEF BoardInv, RowsHold
<1> HIDE DEF c, n, x
<1>7. /\ card' \in [Cards -> Rows \cup {NoCard}] /\ card'[c] = n
      /\ \A d \in Cards : d # c => card'[d] = card[d]
  BY <1>1, <1>2, <1>4, <1>6
<1>8. RowsGrow(p)
  <2> SUFFICES ASSUME NEW d \in Cards
               PROVE  /\ card[d] # NoCard =>
                           /\ card'[d] \in Rows /\ card[d].version <= card'[d].version
                           /\ card[d].version = card'[d].version => card'[d] = card[d]
                      /\ card[d] = NoCard /\ card'[d] # NoCard => d = c
    BY <1>2 DEF RowsGrow, c
  <2>1. CASE d = c
    BY <1>3, <2>1
  <2>2. CASE d # c
    <3>1. card'[d] = card[d] /\ card[d] \in Rows \cup {NoCard}
      BY <1>6, <1>7, <2>2
    <3> QED
      BY <3>1 DEF Rows
  <2> QED
    BY <2>1, <2>2
<1>9. \A d \in Cards : card[d] # NoCard => card'[d] # NoCard
  BY <1>8, RowsAndRules DEF RowsGrow
<1>10. Sound(x, card')
  <2>1. card'[x.card] # NoCard /\ (x.on = NoCard \/ card'[x.on] # NoCard)
    BY <1>3, <1>4, <1>5, <1>7, <1>9, RowsAndRules
  <2> QED
    BY <1>5, <2>1 DEF Sound, News
<1>11. x \in AllSteps /\ ~Freeing(x) /\ x.do \notin News
  BY <1>5, StepSets DEF Freeing, News
<1>12. CallsSound
  BY <1>1, <1>2, <1>8, <1>10, <1>11, OneStep
<1>13. RowsHold'
  BY <1>1, <1>7, <1>12 DEF BoardInv, RowsHold, CallsSound, Rest
<1>14. DepsExist'
  BY <1>1, <1>9 DEF BoardInv, DepsExist, Exists, Rest
<1> QED
  BY <1>12, <1>13, <1>14 DEF BoardInv, CallsSound

LEMMA LinkStep == ASSUME BoardInv, NEW p \in Callers, Link(p) PROVE BoardInv'
<1> DEFINE s == Now(p)
           x == [s EXCEPT !.do = "join"]
<1>1. At(p, "link") /\ Rest /\ card' = card /\ (Fails(p) \/ Then(p, <<x>>))
  BY DEF Link
<1>2. todo[p] # <<>> /\ s \in Adds /\ s.do = "link" /\ Sound(s, card)
  BY <1>1, AtFacts, StepKinds
<1>3. x \in Adds /\ x.do = "join" /\ x.card = s.card /\ x.on = s.on
  BY <1>2 DEF Adds
<1>4. CASE Fails(p)
  BY <1>1, <1>2, <1>4, FailsGoesOn, OnlyTodoChanges
<1>5. CASE Then(p, <<x>>)
  <2> HIDE DEF x, s
  <2>1. x \in AllSteps /\ ~Freeing(x) /\ x.do \notin News /\ Sound(x, card')
    BY <1>1, <1>2, <1>3, StepSets DEF Freeing, News, Sound
  <2>2. CallsSound
    BY <1>1, <1>2, <1>5, <2>1, SameRowsGrow, OneStep
  <2> QED
    BY <1>1, <2>2, OnlyTodoChanges
<1> QED
  BY <1>1, <1>4, <1>5

LEMMA JoinStep == ASSUME BoardInv, NEW p \in Callers, Join(p) PROVE BoardInv'
<1> DEFINE s == Now(p)
           c == s.card
           v == Automated("created", s.to, c, s.actor, s.depth)
           w == Automated("enters", s.to, c, s.actor, s.depth)
<1>1. /\ At(p, "join") /\ UNCHANGED <<card, cameFrom, rules, calls>>
      /\ deps' = (IF s.on = NoCard THEN deps ELSE deps \cup {<<c, s.on>>})
      /\ Then(p, v \o w)
  BY DEF Join
<1>2. /\ todo[p] # <<>> /\ s \in Adds /\ s.do = "join" /\ Sound(s, card) /\ c \in Cards /\ card[c] # NoCard
      /\ s.on = NoCard \/ (s.on \in Cards /\ card[s.on] # NoCard)
  <2>1. todo[p] # <<>> /\ s \in Adds /\ s.do = "join" /\ Sound(s, card) /\ c \in Cards
    BY <1>1, AtFacts, StepKinds
  <2>2. s.on \in Cards \cup {NoCard}
    BY <2>1 DEF Adds
  <2> QED
    BY <2>1, <2>2 DEF Sound, News
<1>3. CallsSound
  <2> DEFINE actor == s.actor  depth == s.depth  to == s.to
  <2>1. rules \in RuleSets /\ actor \in Actors \cup {System} /\ depth \in 0..MaxDepth
    <3>1. 0 \in 0..MaxDepth
      BY Bounds
    <3> QED
      BY <1>2, <3>1 DEF BoardInv, RowsHold, Adds
  <2> HIDE DEF actor, depth, to, c
  <2>2. /\ Automated("created", to, c, actor, depth) \in Seq({a \in Acts : a.card = c})
        /\ Automated("enters", to, c, actor, depth) \in Seq({a \in Acts : a.card = c})
    BY <1>2, <2>1, AutomatedActs
  <2>3. v \in Seq({a \in Acts : a.card = c}) /\ w \in Seq({a \in Acts : a.card = c})
    BY <2>2 DEF to, actor, depth
  <2> HIDE DEF v, w
  <2> QED
    BY <1>1, <1>2, <2>3, ActsGoOn
<1>4. deps' \subseteq Cards \X Cards
  BY <1>1, <1>2 DEF BoardInv, RowsHold
<1>5. RowsHold'
  BY <1>1, <1>3, <1>4 DEF BoardInv, RowsHold, CallsSound
<1>6. DepsExist'
  BY <1>1, <1>2 DEF BoardInv, DepsExist, Exists
<1> QED
  BY <1>3, <1>5, <1>6 DEF BoardInv, CallsSound

LEMMA DependStep == ASSUME BoardInv, NEW p \in Callers, Depend(p) PROVE BoardInv'
<1> DEFINE s == Now(p)
           x == [s EXCEPT !.do = "edge"]
<1>1. At(p, "depend") /\ Rest /\ card' = card /\ (todo' = [todo EXCEPT ![p] = <<>>] \/ Then(p, <<x>>))
  BY DEF Depend
<1>2. todo[p] # <<>> /\ s \in Links /\ s.do = "depend" /\ Sound(s, card)
  BY <1>1, AtFacts, StepKinds
<1>3. x \in Links /\ x.do = "edge" /\ x.card = s.card /\ x.on = s.on
  BY <1>2 DEF Links
<1>4. CASE todo' = [todo EXCEPT ![p] = <<>>]
  <2>1. <<>> \in Seq(AllSteps) /\ Shaped(<<>>) /\ \A i \in DOMAIN <<>> : FALSE
    BY DEF Shaped
  <2>2. CallsSound
    BY <1>1, <1>4, <2>1, LeftGoesOn
  <2> QED
    BY <1>1, <2>2, OnlyTodoChanges
<1>5. CASE Then(p, <<x>>)
  <2> HIDE DEF x, s
  <2>1. x \in AllSteps /\ ~Freeing(x) /\ x.do \notin News /\ Sound(x, card')
    BY <1>1, <1>2, <1>3, StepSets DEF Freeing, News, Sound
  <2>2. CallsSound
    BY <1>1, <1>2, <1>5, <2>1, SameRowsGrow, OneStep
  <2> QED
    BY <1>1, <2>2, OnlyTodoChanges
<1> QED
  BY <1>1, <1>4, <1>5

LEMMA EdgeStep == ASSUME BoardInv, NEW p \in Callers, Edge(p) PROVE BoardInv'
<1> DEFINE s == Now(p)
<1>1. /\ At(p, "edge") /\ UNCHANGED <<card, cameFrom, rules, calls>> /\ Then(p, <<>>)
      /\ deps' \in {deps \cup {<<s.card, s.on>>}, deps \ {<<s.card, s.on>>}}
  BY DEF Edge
<1>2. /\ todo[p] # <<>> /\ s \in Links /\ s.do = "edge" /\ Sound(s, card) /\ s.card \in Cards /\ s.on \in Cards
      /\ card[s.card] # NoCard /\ card[s.on] # NoCard
  <2>1. todo[p] # <<>> /\ s \in Links /\ s.do = "edge" /\ Sound(s, card) /\ s.card \in Cards
    BY <1>1, AtFacts, StepKinds
  <2>2. s.on \in Cards
    BY <2>1 DEF Links
  <2> QED
    BY <2>1, <2>2, Names DEF Sound, News
<1>3. CallsSound
  BY <1>1, <1>2, SameRowsGrow, NoStep
<1>4. deps' \subseteq Cards \X Cards
  BY <1>1, <1>2 DEF BoardInv, RowsHold
<1>5. RowsHold'
  BY <1>1, <1>3, <1>4 DEF BoardInv, RowsHold, CallsSound
<1>6. DepsExist'
  BY <1>1, <1>2 DEF BoardInv, DepsExist, Exists
<1> QED
  BY <1>3, <1>5, <1>6 DEF BoardInv, CallsSound

\* What may be asked for is a step about what is on the board.
LEMMA AsksAreSound ==
    ASSUME BoardInv, NEW p \in Callers, NEW a \in Asks(p)
    PROVE  /\ a \in AllSteps /\ ~Freeing(a) /\ Sound(a, card)
           /\ a.do \in News => a.do = "add" /\ a.card \notin Adding(p)
<1> DEFINE find(op, c, to, who, reason) ==
             [do |-> "find", op |-> op, card |-> c, to |-> to, who |-> who, reason |-> reason, depth |-> 0]
           known == {c \in Cards : Exists(c)}
           new == {c \in Cards \ Adding(p) : ~Exists(c)}
<1>1. ASSUME NEW op \in {"claim", "move", "assign", "archive", "approve", "reject"}, NEW c \in known,
             NEW to \in Columns \cup {NoColumn}, op = "move" => to \in Columns,
             NEW who \in Agents \cup {NoAgent}, NEW reason \in Reasons, a = find(op, c, to, who, reason)
      PROVE  a \in AllSteps /\ a.do = "find" /\ ~Freeing(a) /\ Sound(a, card)
  <2>1. a \in Finds /\ a.do = "find" /\ a.op = op /\ a.to = to /\ a.card = c /\ c \in Cards /\ card[c] # NoCard
    BY <1>1 DEF Finds, EditKinds, Exists
  <2> QED
    BY <1>1, <2>1, StepSets DEF Freeing, Sound, News
<1>2. /\ AgentOf(p) \in Agents \cup {NoAgent} /\ "none" \in Reasons /\ NoAgent \in Agents \cup {NoAgent}
      /\ NoColumn \in Columns \cup {NoColumn}
  BY DEF AgentOf, Reasons
<1>3. CASE a \in {find("claim", c, NoColumn, p, "none") : c \in IF p \in Agents THEN known ELSE {}}
  <2>1. PICK c \in known : a = find("claim", c, NoColumn, p, "none") /\ p \in Agents
    BY <1>3
  <2> QED
    BY <1>1, <1>2, <2>1 DEF News
<1>4. CASE a \in {find("move", c, k, AgentOf(p), "none") : c \in known, k \in Columns}
  <2>1. PICK c \in known, k \in Columns : a = find("move", c, k, AgentOf(p), "none")
    BY <1>4
  <2> QED
    BY <1>1, <1>2, <2>1 DEF News
<1>5. CASE a \in {find("move", c, FirstOf("blocked"), AgentOf(p), r) :
                c \in IF OfKind("blocked") = {} THEN {} ELSE known, r \in Reasons}
  <2>1. PICK c \in known, r \in Reasons : a = find("move", c, FirstOf("blocked"), AgentOf(p), r) /\ OfKind("blocked") # {}
    BY <1>5
  <2>2. FirstOf("blocked") \in Columns
    BY <2>1, FirstOfIn
  <2> QED
    BY <1>1, <1>2, <2>1, <2>2 DEF News
<1>6. CASE a \in {find("assign", c, NoColumn, who, "none") : c \in known, who \in Agents \cup {NoAgent}}
  <2>1. PICK c \in known, who \in Agents \cup {NoAgent} : a = find("assign", c, NoColumn, who, "none")
    BY <1>6
  <2> QED
    BY <1>1, <1>2, <2>1 DEF News
<1>7. CASE a \in {find(op, c, NoColumn, AgentOf(p), "none") : op \in {"archive", "approve", "reject"}, c \in known}
  <2>1. PICK op \in {"archive", "approve", "reject"}, c \in known : a = find(op, c, NoColumn, AgentOf(p), "none")
    BY <1>7
  <2> QED
    BY <1>1, <1>2, <2>1 DEF News
<1>8. CASE a \in {[do |-> "depend", op |-> op, card |-> c, on |-> d, depth |-> 0] :
                op \in {"add", "remove"}, c \in known, d \in known}
  <2>1. PICK op \in {"add", "remove"}, c \in known, d \in known :
            a = [do |-> "depend", op |-> op, card |-> c, on |-> d, depth |-> 0]
    BY <1>8
  <2>2. /\ a \in Links /\ a.do = "depend" /\ a.card \in Cards /\ card[a.card] # NoCard
        /\ a.on \in Cards /\ card[a.on] # NoCard
    BY <2>1 DEF Links, Exists
  <2> QED
    BY <2>2, StepSets DEF Freeing, Sound, News
<1>9. CASE a \in {[do |-> "add", card |-> c, to |-> k, who |-> who, on |-> on, reason |-> "none", actor |-> p, depth |-> 0] :
                c \in new, k \in Columns, who \in Agents \cup {NoAgent}, on \in known \cup {NoCard}}
  <2>1. PICK c \in new, k \in Columns, who \in Agents \cup {NoAgent}, on \in known \cup {NoCard} :
            a = [do |-> "add", card |-> c, to |-> k, who |-> who, on |-> on, reason |-> "none", actor |-> p, depth |-> 0]
    BY <1>9
  <2>2. p \in Actors
    BY Names
  <2> HIDE DEF new, known
  <2>3. c \in Cards \ Adding(p) /\ card[c] = NoCard /\ (on = NoCard \/ (on \in Cards /\ card[on] # NoCard))
    BY <2>1 DEF new, known, Exists
  <2>4. a \in Adds /\ a.do = "add" /\ a.card = c /\ a.on = on
    BY <2>1, <2>2, <2>3 DEF Adds
  <2> QED
    BY <2>3, <2>4, StepSets DEF Freeing, Sound, News
<1> QED
  BY <1>3, <1>4, <1>5, <1>6, <1>7, <1>8, <1>9 DEF Asks

LEMMA CallStep == ASSUME BoardInv, NEW p \in Callers, Call(p) PROVE BoardInv'
<1>1. /\ todo[p] = <<>> /\ calls < MaxCalls /\ calls' = calls + 1
      /\ UNCHANGED <<card, deps, cameFrom, rules>>
  BY DEF Call
<1>2. PICK a \in Asks(p) : todo' = [todo EXCEPT ![p] = <<a>>]
  BY DEF Call
<1>3. a \in AllSteps /\ ~Freeing(a) /\ Sound(a, card) /\ (a.do \in News => a.card \notin Adding(p))
  BY AsksAreSound
<1> DEFINE r == <<a>>
<1>4. r \in Seq(AllSteps) /\ DOMAIN r = {1} /\ r[1] = a /\ todo' = [todo EXCEPT ![p] = r]
  BY <1>2, <1>3
<1> HIDE DEF r
<1>5. Shaped(r) /\ \A i \in DOMAIN r : Sound(r[i], card')
  BY <1>1, <1>3, <1>4 DEF Shaped
<1>6. ASSUME NEW q \in Callers \ {p}, r[1].do \in News, todo[q] # <<>>, todo[q][1].do \in News
      PROVE  r[1].card # todo[q][1].card
  <2>1. todo[q][1].card \in Adding(p)
    BY <1>6 DEF Adding, News
  <2> QED
    BY <1>3, <1>4, <1>6, <2>1
<1>7. CallsSound
  BY <1>1, <1>4, <1>5, <1>6, SameRowsGrow, CallGoesOn
<1>8. RowsHold'
  BY <1>1, <1>7, Bounds DEF BoardInv, RowsHold, CallsSound
<1>9. DepsExist'
  BY <1>1 DEF BoardInv, DepsExist, Exists
<1> QED
  BY <1>7, <1>8, <1>9 DEF BoardInv, CallsSound

LEMMA RowIsOne ==
    ASSUME NEW k \in Columns, NEW who \in Agents \cup {NoAgent}, NEW reason \in Reasons
    PROVE  Row(k, who, reason) \in Rows
BY DEF Row, Rows

LEMMA BoardInitInv == Init => BoardInv
<1> SUFFICES ASSUME Init PROVE BoardInv
  OBVIOUS
<1>1. rules \in RuleSets /\ calls \in 0..MaxCalls /\ DOMAIN todo = Callers /\ \A p \in Callers : todo[p] = <<>>
  BY Bounds DEF Init
<1>2. Nowhere \in [Cards -> [Columns -> Columns \cup {NoColumn}]]
  BY DEF Nowhere
<1>3. StepsSound
  <2> SUFFICES ASSUME NEW p \in Callers
               PROVE  todo[p] \in Seq(AllSteps) /\ Shaped(todo[p]) /\ \A i \in DOMAIN todo[p] : Sound(todo[p][i], card)
    BY DEF StepsSound
  <2>1. todo[p] = <<>>
    BY <1>1
  <2>2. <<>> \in Seq(AllSteps) /\ Shaped(<<>>) /\ \A i \in DOMAIN <<>> : FALSE
    BY DEF Shaped
  <2> QED
    BY <2>1, <2>2
<1>4. AddsApart
  BY <1>1 DEF AddsApart
<1>5. CASE OneCard
  <2>1. Row(FirstOf("ready"), NoAgent, "none") \in Rows
    BY ReadyAndTerminal, RowIsOne DEF Reasons
  <2>2. card \in [Cards -> Rows \cup {NoCard}] /\ deps = {} /\ cameFrom = Nowhere
    BY <1>5, <2>1 DEF OneCard
  <2> QED
    BY <1>1, <1>2, <1>3, <1>4, <2>2 DEF BoardInv, RowsHold, DepsExist
<1>6. CASE \E c \in Cards \ {Oldest}, a \in Agents : Waiting(c, a)
  <2>1. PICK c \in Cards \ {Oldest}, a \in Agents : Waiting(c, a)
    BY <1>6
  <2> DEFINE m == Row(FirstOf("blocked"), NoAgent, Oldest)
             n == Row(FirstOf("active"), a, "none")
  <2>2. FirstOf("blocked") \in Columns /\ FirstOf("active") \in Columns /\ Oldest \in Reasons /\ "none" \in Reasons
    BY <2>1, FirstOfIn, Names DEF Waiting, Reasons
  <2>3. m \in Rows /\ n \in Rows
    BY <2>2, RowIsOne
  <2>4. card = [x \in Cards |-> CASE x = c -> m [] x = Oldest -> n [] OTHER -> NoCard]
    BY <2>1 DEF Waiting
  <2> HIDE DEF m, n
  <2>5. card \in [Cards -> Rows \cup {NoCard}] /\ card[c] # NoCard /\ card[Oldest] # NoCard
    BY <2>3, <2>4, Names, RowsAndRules
  <2>6. deps = {<<c, Oldest>>} /\ cameFrom = Nowhere
    BY <2>1 DEF Waiting
  <2> QED
    BY <1>1, <1>2, <1>3, <1>4, <2>5, <2>6, Names DEF BoardInv, RowsHold, DepsExist, Exists
<1> QED
  BY <1>5, <1>6 DEF Init

LEMMA BoardInvStep == BoardInv /\ [Next]_vars => BoardInv'
<1> SUFFICES ASSUME BoardInv, [Next]_vars PROVE BoardInv'
  OBVIOUS
<1>1. CASE UNCHANGED vars
  BY <1>1 DEF vars, BoardInv, RowsHold, StepsSound, AddsApart, DepsExist, Exists
<1>2. ASSUME NEW p \in Callers, Call(p) \/ Step(p) PROVE BoardInv'
  BY <1>2, CallStep, FindStep, GateStep, ReadStep, LandStep, StaleStep, FullStep, RecordStep, ActStep,
     UnblockStep, AddStep, InsertStep, LinkStep, JoinStep, DependStep, EdgeStep DEF Step
<1> QED
  BY <1>1, <1>2 DEF Next

\* Every row keeps its type, and no automation runs deeper than AUTOMATION_MAX_DEPTH,
\* whatever the automations of the team do to the cards of each other (automate).
THEOREM BoardTypes == Spec => []TypeOK
<1>1. BoardInv => TypeOK
  <2> SUFFICES ASSUME BoardInv PROVE TypeOK
    OBVIOUS
  <2>1. ASSUME NEW p \in Callers, NEW i \in DOMAIN todo[p]
        PROVE  todo[p][i].do \in Steps /\ todo[p][i].depth \in 0..MaxDepth
    <3>1. todo[p][i] \in AllSteps
      BY <2>1 DEF BoardInv, StepsSound
    <3> QED
      BY <3>1, StepKinds
  <2> QED
    BY <2>1 DEF BoardInv, RowsHold, TypeOK
<1> QED
  BY <1>1, BoardInitInv, BoardInvStep, PTL DEF Spec

-----------------------------------------------------------------------------
(* What may happen to a card                                                 *)

\* A row there is changes by a write that lands on it, and is what was read.
LEMMA OnlyWritesChange ==
    ASSUME BoardInv, NEW p \in Callers, Call(p) \/ Step(p), NEW c \in Cards, Changes(c)
    PROVE  /\ WriteLands(p) /\ c = Now(p).card /\ Now(p).before = card[c]
           /\ card'[c] = After(card[c], Now(p).edit)
           /\ \A d \in Cards : d # c => card'[d] = card[d]
<1>1. card[c] # NoCard /\ card'[c] # card[c]
  BY DEF Changes, Exists
<1>2. card \in [Cards -> Rows \cup {NoCard}]
  BY DEF BoardInv, RowsHold
<1>3. CASE WriteLands(p)
  <2>1. /\ At(p, "write") /\ UpToDate(Now(p).card, Now(p))
        /\ card' = [card EXCEPT ![Now(p).card] = After(Now(p).before, Now(p).edit)]
    BY <1>3 DEF WriteLands
  <2>2. Now(p).card \in Cards /\ Now(p).before = card[Now(p).card]
    BY <2>1, WrittenFacts
  <2>3. c = Now(p).card
    BY <1>1, <1>2, <2>1, <2>2
  <2> QED
    BY <1>2, <1>3, <2>1, <2>2, <2>3
<1>4. CASE Insert(p)
  <2>1. At(p, "insert") /\ card' = [card EXCEPT ![Now(p).card] = Row(Now(p).to, Now(p).who, Now(p).reason)]
    BY <1>4 DEF Insert
  <2>2. card[Now(p).card] = NoCard
    BY <2>1, AtFacts DEF Sound, News
  <2> QED
    BY <1>1, <1>2, <2>1, <2>2
<1>5. CASE ~WriteLands(p) /\ ~Insert(p)
  <2>1. card' = card
    BY <1>5 DEF Step, Call, Find, GateRuns, Read, WriteStale, WriteFull, Record, Act, Unblock, Add, Link, Join,
                Depend, Edge
  <2> QED
    BY <1>1, <2>1
<1> QED
  BY <1>3, <1>4, <1>5

\* Writers who meet on a card, whatever they do to it: what lands is the edit of the
\* row as it is, and only an assignment takes a card from its owner (update_with).
THEOREM EditsAreWholeHolds == Spec => EditsAreWhole
<1>1. ASSUME BoardInv, [Next]_vars PROVE [NoLostEdit /\ OnlyAssignTakesAway]_vars
  <2>1. CASE UNCHANGED vars
    BY <2>1
  <2>2. ASSUME NEW p \in Callers, Call(p) \/ Step(p), NEW c \in Cards, Changes(c)
        PROVE  /\ At(p, "write") /\ Now(p).card = c /\ card'[c] = After(card[c], Now(p).edit)
               /\ card[c].assignee # NoAgent /\ card'[c].assignee # card[c].assignee => Now(p).edit.kind = "assign"
    <3> DEFINE s == Now(p)  e == s.edit  k == card[c]
    <3>1. WriteLands(p) /\ c = s.card /\ s.before = k /\ card'[c] = After(k, e)
      BY <1>1, <2>2, OnlyWritesChange
    <3>2. At(p, "write") /\ UpToDate(c, s)
      BY <3>1 DEF WriteLands
    <3>3. k \in Rows /\ e \in Edits /\ EditSound(e) /\ (e.kind = "own" => k.assignee = NoAgent)
      BY <1>1, <3>1, <3>2, WrittenFacts
    <3>4. e.kind = "claim" => k.assignee = NoAgent
      BY <3>2 DEF UpToDate
    <3> HIDE DEF s, e, k
    <3>5. k.assignee # NoAgent /\ After(k, e).assignee # k.assignee => e.kind = "assign"
      BY <3>3, <3>4, AfterFacts
    <3> QED
      BY <3>1, <3>2, <3>5 DEF s, e, k
  <2>3. CASE Next
    <3>1. PICK p \in Callers : Call(p) \/ Step(p)
      BY <2>3 DEF Next
    <3> QED
      BY <2>2, <3>1 DEF NoLostEdit, OnlyAssignTakesAway
  <2> QED
    BY <1>1, <2>1, <2>3
<1> QED
  BY <1>1, BoardInitInv, BoardInvStep, PTL DEF Spec, EditsAreWhole

\* The cards of S that are c or others than c.
LEMMA OneMore ==
    ASSUME NEW c \in Cards, NEW S \in SUBSET (Cards \ {c}), NEW T, T = S \cup {c}, NEW limit \in Limits, limit # NoLimit,
           Cardinality(S) < limit
    PROVE  Cardinality(T) <= limit
<1>1. IsFiniteSet(S)
  BY RowsAndRules, FS_Subset
<1>2. Cardinality(S) \in Nat /\ Cardinality(T) = Cardinality(S) + 1
  BY <1>1, FS_AddElement, FS_CardinalityType
<1>3. limit \in Nat
  BY DEF Limits
<1> QED
  BY <1>2, <1>3

\* However many calls write at once, a card that enters a column, or changes hands
\* in it, leaves the column within its limits (update_card counts as it writes).
THEOREM MovesFitHolds == Spec => MovesFit
<1> DEFINE n(c) == card'[c]
           here(c) == {d \in Cards : card'[d] # NoCard /\ ~card'[d].archived /\ card'[d].col = n(c).col}
           his(c) == {d \in here(c) : card'[d].assignee = n(c).assignee}
           Fit(c) == Changes(c) /\ (n(c).col # card[c].col \/ n(c).assignee # card[c].assignee) /\ ~n(c).archived =>
                       /\ WipLimit[n(c).col] # NoLimit => Cardinality(here(c)) <= WipLimit[n(c).col]
                       /\ WipPerAgent[n(c).col] # NoLimit /\ n(c).assignee # NoAgent =>
                            Cardinality(his(c)) <= WipPerAgent[n(c).col]
<1>1. ASSUME BoardInv, NEW p \in Callers, Call(p) \/ Step(p), NEW c \in Cards PROVE Fit(c)
  <2> SUFFICES ASSUME Changes(c), n(c).col # card[c].col \/ n(c).assignee # card[c].assignee, ~n(c).archived
               PROVE  /\ WipLimit[n(c).col] # NoLimit => Cardinality(here(c)) <= WipLimit[n(c).col]
                      /\ WipPerAgent[n(c).col] # NoLimit /\ n(c).assignee # NoAgent =>
                            Cardinality(his(c)) <= WipPerAgent[n(c).col]
    OBVIOUS
  <2> DEFINE s == Now(p)  e == s.edit  k == card[c]  m == n(c)
  <2>1. /\ WriteLands(p) /\ c = s.card /\ s.before = k /\ m = After(k, e)
        /\ \A d \in Cards : d # c => card'[d] = card[d]
    BY <1>1, OnlyWritesChange
  <2>2. At(p, "write") /\ Fits(c, k, m)
    BY <2>1 DEF WriteLands
  <2>3. k \in Rows /\ e \in Edits /\ EditSound(e)
    BY <1>1, <2>1, <2>2, WrittenFacts
  <2>4. m \in Rows
    <3> HIDE DEF k, e, m
    <3> QED
      BY <2>1, <2>3, AfterFacts
  <2>5. HasRoom(c, m.col, m.assignee)
    BY <2>2 DEF Fits
  <2>6. m.col \in Columns /\ WipLimit[m.col] \in Limits /\ WipPerAgent[m.col] \in Limits
    <3>1. m.col \in Columns
      BY <2>4 DEF Rows
    <3> HIDE DEF m
    <3> QED
      BY <3>1, BoardShape
  <2> DEFINE S == Others(c, m.col)  R == OthersOf(c, m.col, m.assignee)
  <2>7. /\ S \in SUBSET (Cards \ {c}) /\ R \in SUBSET (Cards \ {c})
        /\ here(c) = S \cup {c} /\ his(c) = R \cup {c}
    <3>1. S = {d \in Cards \ {c} : card[d] # NoCard /\ card[d].col = m.col /\ ~card[d].archived}
      BY DEF Others, Exists
    <3>2. R = {d \in S : card[d].assignee = m.assignee}
      BY DEF OthersOf
    <3>3. card'[c] # NoCard /\ ~card'[c].archived
      BY <2>4, RowsAndRules
    <3> HIDE DEF S, R
    <3>4. here(c) = S \cup {c}
      BY <2>1, <3>1, <3>3
    <3> HIDE DEF here
    <3>5. his(c) = R \cup {c}
      BY <2>1, <3>1, <3>2, <3>4
    <3> QED
      BY <3>1, <3>2, <3>4, <3>5
  <2>8. /\ WipLimit[m.col] # NoLimit => Cardinality(S) < WipLimit[m.col]
        /\ WipPerAgent[m.col] # NoLimit /\ m.assignee # NoAgent => Cardinality(R) < WipPerAgent[m.col]
    BY <2>5 DEF HasRoom
  <2> DEFINE H == here(c)  I == his(c)  limit == WipLimit[m.col]  per == WipPerAgent[m.col]
  <2> HIDE DEF S, R, H, I, limit, per
  <2>9. limit # NoLimit => Cardinality(H) <= limit
    BY <2>6, <2>7, <2>8, OneMore DEF H, limit
  <2>10. per # NoLimit /\ m.assignee # NoAgent => Cardinality(I) <= per
    BY <2>6, <2>7, <2>8, OneMore DEF I, per
  <2> QED
    BY <2>9, <2>10 DEF H, I, limit, per
<1>2. ASSUME BoardInv, Next PROVE \A c \in Cards : Fit(c)
  <2>1. PICK p \in Callers : Call(p) \/ Step(p)
    BY <1>2 DEF Next
  <2> HIDE DEF Fit
  <2> QED
    BY <1>1, <1>2, <2>1
<1>3. ASSUME BoardInv, [Next]_vars PROVE [\A c \in Cards : Fit(c)]_vars
  <2> HIDE DEF Fit
  <2> QED
    BY <1>2, <1>3
<1>4. MovesFit <=> [][\A c \in Cards : Fit(c)]_vars
  BY DEF MovesFit
<1> HIDE DEF Fit
<1> QED
  BY <1>3, <1>4, BoardInitInv, BoardInvStep, PTL DEF Spec

-----------------------------------------------------------------------------
(* The cards that can be reached from one: dependency_path of rules.rs.         *)

Onward(from, S) == {d \in ToSet(CardIds) : \E c \in S : <<c, d>> \in from}
\* One step of the recursion in Reaches.
ReachAt(reach, from, set, n) ==
    IF n = 0 THEN set ELSE reach[n - 1] \cup Onward(from, reach[n - 1])
ClosedUnder(from, Z) == \A c \in Z : \A d \in ToSet(CardIds) : <<c, d>> \in from => d \in Z

\* The function that Reaches defines by recursion exists.
LEMMA ReachExists ==
    ASSUME NEW from, NEW set, NEW N \in Nat
    PROVE  \E reach : reach = [n \in 0 .. N |-> ReachAt(reach, from, set, n)]
<1> DEFINE Good(m) == \E reach : reach = [n \in 0 .. m |-> ReachAt(reach, from, set, n)]
           Bad == {m \in 0 .. N : ~Good(m)}
<1>1. SUFFICES ASSUME Bad # {} PROVE FALSE
  OBVIOUS
<1>2. PICK m \in Bad : \A y \in Bad : m =< y
  <2> Bad \in SUBSET Nat
    OBVIOUS
  <2> QED BY <1>1, LeastOne
<1>3. m # 0
  <2>1. Good(0)
    <3> DEFINE g == [n \in 0 .. 0 |-> set]
    <3>1. g = [n \in 0 .. 0 |-> ReachAt(g, from, set, n)]
      BY DEF ReachAt
    <3> QED BY <3>1
  <2> QED BY <2>1, <1>2
<1>4. m - 1 \in 0 .. N /\ m \in Nat
  BY <1>2, <1>3
<1>5. PICK g : g = [n \in 0 .. (m - 1) |-> ReachAt(g, from, set, n)]
  BY <1>2, <1>4
<1> DEFINE h == [n \in 0 .. m |-> IF n = m THEN ReachAt(g, from, set, n) ELSE g[n]]
<1>6. \A n \in 0 .. m : h[n] = ReachAt(h, from, set, n)
  <2> TAKE n \in 0 .. m
  <2>1. n # 0 => h[n - 1] = g[n - 1]
    BY <1>4
  <2>2. CASE n = m
    BY <2>1, <2>2, <1>3 DEF ReachAt
  <2>3. CASE n # m
    <3>1. n \in 0 .. (m - 1)
      BY <2>3, <1>4
    <3>2. g[n] = ReachAt(g, from, set, n)
      BY <3>1, <1>5
    <3> QED BY <2>1, <2>3, <3>2 DEF ReachAt
  <2> QED BY <2>2, <2>3
<1>7. h = [n \in 0 .. m |-> ReachAt(h, from, set, n)]
  <2> h = [n \in 0 .. m |-> h[n]]
    OBVIOUS
  <2> HIDE DEF h
  <2> QED BY <1>6
<1> QED BY <1>2, <1>7

LEMMA ReachesIs ==
    ASSUME NEW from, NEW set
    PROVE  \E reach : /\ Reaches(from, set) = reach[Len(CardIds)]
                      /\ \A n \in 0 .. Len(CardIds) : reach[n] = ReachAt(reach, from, set, n)
<1> DEFINE g == CHOOSE reach : reach = [n \in 0 .. Len(CardIds) |-> ReachAt(reach, from, set, n)]
<1>1. g = [n \in 0 .. Len(CardIds) |-> ReachAt(g, from, set, n)]
  <2>1. \E reach : reach = [n \in 0 .. Len(CardIds) |-> ReachAt(reach, from, set, n)]
    <3>1. Len(CardIds) \in Nat
      BY CardsAssumption
    <3> QED BY <3>1, ReachExists
  <2> QED BY <2>1, Zenon
<1>2. Reaches(from, set) = g[Len(CardIds)]
  BY DEF Reaches, ReachAt, Onward
<1> QED BY <1>1, <1>2

\* What is closed under the edges and holds where one begins holds all one reaches.
LEMMA ReachesWithin ==
    ASSUME NEW from, NEW set, NEW Z, set \subseteq Z, ClosedUnder(from, Z)
    PROVE  Reaches(from, set) \subseteq Z
<1>1. PICK reach : /\ Reaches(from, set) = reach[Len(CardIds)]
                   /\ \A n \in 0 .. Len(CardIds) : reach[n] = ReachAt(reach, from, set, n)
  BY ReachesIs
<1>2. Len(CardIds) \in Nat
  BY CardsAssumption
<1> DEFINE Bad == {n \in 0 .. Len(CardIds) : ~(reach[n] \subseteq Z)}
<1>3. ASSUME Bad # {} PROVE FALSE
  <2>1. PICK n \in Bad : \A y \in Bad : n =< y
    <3> Bad \in SUBSET Nat
      OBVIOUS
    <3> QED BY <1>3, LeastOne
  <2>2. n # 0
    BY <1>1, <2>1 DEF ReachAt
  <2>3. n - 1 \in 0 .. Len(CardIds) /\ n - 1 \notin Bad
    BY <1>2, <2>1, <2>2
  <2>4. reach[n] = reach[n - 1] \cup Onward(from, reach[n - 1])
    BY <1>1, <2>1, <2>2 DEF ReachAt
  <2>5. Onward(from, reach[n - 1]) \subseteq Z
    BY <2>3 DEF ClosedUnder, Onward
  <2> QED BY <2>1, <2>3, <2>4, <2>5
<1>4. Len(CardIds) \in 0 .. Len(CardIds)
  BY <1>2
<1> QED BY <1>1, <1>3, <1>4

\* There are so many steps as there are cards: what one reaches is closed.
LEMMA CardsCount == IsFiniteSet(ToSet(CardIds)) /\ Cardinality(ToSet(CardIds)) =< Len(CardIds)
<1>1. PICK N \in Nat : N = Len(CardIds)
  BY CardsAssumption
<1>2. CardIds \in [1 .. N -> ToSet(CardIds)] /\ \A d \in ToSet(CardIds) : \E n \in 1 .. N : CardIds[n] = d
  BY <1>1, CardsAssumption DEF ToSet
<1>3. CardIds \in Surjection(1 .. N, ToSet(CardIds))
  BY <1>2 DEF Surjection
<1>4. IsFiniteSet(1 .. N) /\ Cardinality(1 .. N) = N
  <2>1. /\ IsFiniteSet(1 .. N)
        /\ Cardinality(1 .. N) = IF 1 > N THEN 0 ELSE N - 1 + 1
    BY FS_Interval
  <2> QED BY <2>1
<1> QED BY <1>1, <1>3, <1>4, FS_Surjection

LEMMA ReachesCloses ==
    ASSUME NEW from, NEW on \in ToSet(CardIds)
    PROVE  on \in Reaches(from, {on}) /\ ClosedUnder(from, Reaches(from, {on})) /\ Reaches(from, {on}) \subseteq ToSet(CardIds)
<1>1. PICK reach : /\ Reaches(from, {on}) = reach[Len(CardIds)]
                   /\ \A n \in 0 .. Len(CardIds) : reach[n] = ReachAt(reach, from, {on}, n)
  BY ReachesIs
<1>2. PICK N \in Nat : N = Len(CardIds)
  BY CardsAssumption
<1> DEFINE Fine(n) == /\ on \in reach[n] /\ reach[n] \subseteq ToSet(CardIds)
                      /\ ClosedUnder(from, reach[n]) \/ Cardinality(reach[n]) >= n + 1
           Bad == {n \in 0 .. N : ~Fine(n)}
<1>3. ASSUME Bad # {} PROVE FALSE
  <2>1. PICK n \in Bad : \A y \in Bad : n =< y
    <3> Bad \in SUBSET Nat
      OBVIOUS
    <3> QED BY <1>3, LeastOne
  <2>2. CASE n = 0
    <3>1. reach[0] = {on}
      <4>1. 0 \in 0 .. Len(CardIds)
        BY <1>2
      <4> QED BY <1>1, <4>1 DEF ReachAt
    <3>2. Cardinality({on}) = 1
      BY FS_Singleton
    <3>3. on \in reach[0] /\ reach[0] \subseteq ToSet(CardIds)
      BY <3>1
    <3>4. Cardinality(reach[0]) >= 0 + 1
      BY <3>1, <3>2
    <3>5. Fine(0)
      BY <3>3, <3>4
    <3> QED BY <2>1, <2>2, <3>5
  <2>3. CASE n # 0
    <3>1. n - 1 \in 0 .. N /\ n - 1 \notin Bad /\ n \in Nat
      BY <1>2, <2>1, <2>3
    <3>2. PICK old, new : old = reach[n - 1] /\ new = reach[n]
      OBVIOUS
    <3>3. on \in old /\ old \subseteq ToSet(CardIds) /\ (ClosedUnder(from, old) \/ Cardinality(old) >= n)
      BY <3>1, <3>2
    <3>4. new = old \cup Onward(from, old)
      BY <1>1, <1>2, <2>1, <2>3, <3>2 DEF ReachAt
    <3>5. on \in new /\ old \subseteq new /\ new \subseteq ToSet(CardIds)
      BY <3>3, <3>4 DEF Onward
    <3>6. CASE ClosedUnder(from, old)
      <4>1. new = old
        BY <3>4, <3>6 DEF ClosedUnder, Onward
      <4> QED BY <2>1, <3>2, <3>5, <3>6, <4>1
    <3>7. CASE ~ClosedUnder(from, old)
      <4>1. new # old
        BY <3>3, <3>4, <3>7 DEF ClosedUnder, Onward
      <4>2. IsFiniteSet(new) /\ Cardinality(new) \in Nat
        BY <3>5, CardsCount, FS_Subset, FS_CardinalityType
      <4>3. Cardinality(old) =< Cardinality(new) /\ Cardinality(new) # Cardinality(old) /\ Cardinality(old) \in Nat
        BY <3>5, <4>1, <4>2, FS_Subset, FS_CardinalityType
      <4>4. Cardinality(new) >= n + 1
        BY <3>1, <3>3, <3>7, <4>2, <4>3
      <4> QED BY <2>1, <3>2, <3>5, <4>4
    <3> QED BY <3>6, <3>7
  <2> QED BY <2>2, <2>3
<1>4. Fine(N)
  <2>1. N \in 0 .. N
    OBVIOUS
  <2> QED BY <1>3, <2>1
<1>5. ~(Cardinality(reach[N]) >= N + 1)
  <2>1. Cardinality(reach[N]) =< Cardinality(ToSet(CardIds)) /\ Cardinality(reach[N]) \in Nat
    BY <1>4, CardsCount, FS_Subset, FS_CardinalityType
  <2>2. Cardinality(ToSet(CardIds)) =< N /\ Cardinality(ToSet(CardIds)) \in Nat
    BY <1>2, CardsCount, FS_CardinalityType
  <2> QED BY <2>1, <2>2
<1> QED BY <1>1, <1>2, <1>4, <1>5

Acyclic(from) == \A c, d \in ToSet(CardIds) : <<c, d>> \in from => c \notin Reaches(from, {d})

\* With fewer edges one reaches less.
LEMMA ReachesLess ==
    ASSUME NEW few, NEW many, few \subseteq many, NEW on \in ToSet(CardIds)
    PROVE  Reaches(few, {on}) \subseteq Reaches(many, {on})
<1>1. PICK Z : Z = Reaches(many, {on})
  OBVIOUS
<1>2. on \in Z /\ ClosedUnder(many, Z)
  BY <1>1, ReachesCloses
<1>3. ClosedUnder(few, Z)
  BY <1>2 DEF ClosedUnder
<1> QED BY <1>1, <1>2, <1>3, ReachesWithin

\* An edge out of a card that one does not reach takes one no further.
LEMMA ReachesSame ==
    ASSUME NEW from, NEW t, NEW o, NEW x \in ToSet(CardIds), t \notin Reaches(from, {x})
    PROVE  Reaches(from \cup {<<t, o>>}, {x}) \subseteq Reaches(from, {x})
<1>1. PICK Z : Z = Reaches(from, {x})
  OBVIOUS
<1>2. x \in Z /\ ClosedUnder(from, Z)
  BY <1>1, ReachesCloses
<1>3. ClosedUnder(from \cup {<<t, o>>}, Z)
  BY <1>1, <1>2 DEF ClosedUnder
<1> QED BY <1>1, <1>2, <1>3, ReachesWithin

\* An edge to a card from which its own cannot be reached closes no cycle.
LEMMA EdgeClosesNone ==
    ASSUME NEW from, Acyclic(from), NEW t \in ToSet(CardIds), NEW o \in ToSet(CardIds), t \notin Reaches(from, {o})
    PROVE  Acyclic(from \cup {<<t, o>>})
<1> DEFINE more == from \cup {<<t, o>>}
<1>1. ASSUME NEW c \in ToSet(CardIds), NEW d \in ToSet(CardIds), <<c, d>> \in more, c \in Reaches(more, {d})
      PROVE  FALSE
  <2>1. CASE c = t /\ d = o
    BY <1>1, <2>1, ReachesSame
  <2>2. CASE <<c, d>> \in from
    <3>1. PICK D : D = Reaches(from, {d})
      OBVIOUS
    <3>2. PICK O : O = Reaches(from, {o})
      OBVIOUS
    <3>3. c \notin D /\ d \in D /\ ClosedUnder(from, D) /\ o \in O /\ ClosedUnder(from, O) /\ t \notin O
      BY <2>2, <3>1, <3>2, ReachesCloses DEF Acyclic
    <3>4. t \in D
      <4> SUFFICES ASSUME t \notin D PROVE FALSE
        OBVIOUS
      <4>1. Reaches(more, {d}) \subseteq D
        BY <3>1, ReachesSame
      <4> QED BY <1>1, <3>3, <4>1
    <3>5. ClosedUnder(more, D \cup O)
      BY <3>3 DEF ClosedUnder
    <3>6. c \in D \cup O
      <4>1. {d} \subseteq D \cup O
        BY <3>3
      <4>2. Reaches(more, {d}) \subseteq D \cup O
        BY <3>5, <4>1, ReachesWithin
      <4> QED BY <1>1, <4>2
    <3>7. d \in O
      BY <2>2, <3>3, <3>6 DEF ClosedUnder
    <3>8. D \subseteq O
      <4>1. {d} \subseteq O
        BY <3>7
      <4>2. Reaches(from, {d}) \subseteq O
        BY <3>3, <4>1, ReachesWithin
      <4> QED BY <3>1, <4>2
    <3> QED BY <3>3, <3>4, <3>8
  <2> QED BY <1>1, <2>1, <2>2
<1> QED BY <1>1 DEF Acyclic

\* An edge less closes none either.
LEMMA LessClosesNone ==
    ASSUME NEW few, NEW many, few \subseteq many, Acyclic(many)
    PROVE  Acyclic(few)
<1>1. ASSUME NEW c \in ToSet(CardIds), NEW d \in ToSet(CardIds), <<c, d>> \in few, c \in Reaches(few, {d})
      PROVE  FALSE
  <2>1. c \in Reaches(many, {d})
    BY <1>1, ReachesLess
  <2> QED BY <1>1, <2>1 DEF Acyclic
<1> QED BY <1>1 DEF Acyclic

-----------------------------------------------------------------------------
(* A call on a card keeps its request from its first step to its end.            *)

Cardset == ToSet(CardIds)
IsCardAsk(ask) ==
    /\ ask.does \in {"update", "check", "link", "comment", "done", "approve", "split"}
    /\ ask.card \in Cardset /\ ask.by # NoOwner
    /\ ask.does = "update" => ask.blockedBy \in Seq(Cardset)
EditFields == {"ask", "at", "before", "tries", "adds", "drops", "earlier", "parts", "past", "result"}
EditPlaces == {"find", "cycle", "read", "write", "record", "complete", "edges", "earlier", "comment", "tell",
               "split", "end"}
AddsOf(job) == IF job.ask.does = "update" THEN job.ask.blockedBy ELSE <<>>
IsEdit(job, all) ==
    /\ DOMAIN job = EditFields /\ IsCardAsk(job.ask) /\ job.at \in EditPlaces
    /\ job.adds \in Seq(Cardset) /\ job.past \subseteq all
    /\ job.at = "edges" /\ job.adds # <<>> => AddsOf(job) # <<>>
EditsHold == IsFiniteSet(DOMAIN edits) /\ \A i \in DOMAIN edits : IsEdit(edits[i], DOMAIN edits)

\* A step of one call: who else is under way stays where it is.
StepOf(i, new) ==
    /\ DOMAIN edits' = DOMAIN edits /\ edits'[i] = new /\ new.ask = edits[i].ask /\ edits[i].at # "end"
    /\ \A k \in DOMAIN edits : k # i => edits'[k] = edits[k]

LEMMA EditsStart == CardInit => EditsHold
<1> SUFFICES ASSUME CardInit PROVE EditsHold
  OBVIOUS
<1>1. PICK scene \in CardScenes : edits = [i \in DOMAIN scene |-> BegunEdit(scene[i])]
  BY DEF CardInit
<1>2. IsFiniteSet(DOMAIN edits)
  BY <1>1, CardsAssumption
<1>3. ASSUME NEW i \in DOMAIN edits PROVE IsEdit(edits[i], DOMAIN edits)
  <2>1. IsCardAsk(scene[i])
    BY <1>1, CardsAssumption DEF IsCardAsk, Cardset
  <2>2. PICK job : job = edits[i]
    OBVIOUS
  <2>3. job = BegunEdit(scene[i])
    BY <1>1, <2>2
  <2>4. DOMAIN job = EditFields /\ job.ask = scene[i] /\ job.at = "find" /\ job.adds = <<>> /\ job.past = {}
    BY <2>3 DEF BegunEdit, EditFields
  <2>5. <<>> \in Seq(Cardset) /\ "find" \in EditPlaces
    BY DEF EditPlaces
  <2> QED BY <2>1, <2>2, <2>4, <2>5 DEF IsEdit
<1> QED BY <1>2, <1>3 DEF EditsHold

LEMMA EditPut ==
    ASSUME EditsHold, NEW i \in DOMAIN edits, edits[i].at # "end", NEW new, PutsEdit(i, new), new.ask = edits[i].ask
    PROVE  StepOf(i, new)
BY DEF PutsEdit, StepOf

\* The call as it goes on, by what its step changes of it.
MovesEdit(new, job, at) ==
    /\ DOMAIN new = DOMAIN job /\ new.ask = job.ask /\ new.at = at
    /\ new.adds = job.adds \/ new.adds = AddsOf(job) \/ (job.adds # <<>> /\ new.adds = Tail(job.adds))
    /\ new.past = job.past \/ new.past \subseteq DOMAIN edits
LEMMA EditMoves ==
    ASSUME EditsHold, NEW i \in DOMAIN edits, NEW new, StepOf(i, new), NEW at \in EditPlaces,
           MovesEdit(new, edits[i], at), at = "edges" => (edits[i].at = "edges" \/ new.adds = AddsOf(edits[i]))
    PROVE  EditsHold'
<1>1. PICK job : job = edits[i]
  OBVIOUS
<1>2. IsEdit(job, DOMAIN edits)
  BY <1>1 DEF EditsHold
<1>3. /\ DOMAIN job = EditFields /\ IsCardAsk(job.ask) /\ job.adds \in Seq(Cardset) /\ job.past \subseteq DOMAIN edits
      /\ job.at = "edges" /\ job.adds # <<>> => AddsOf(job) # <<>>
  BY <1>2 DEF IsEdit
<1>4. AddsOf(job) \in Seq(Cardset)
  BY <1>3 DEF AddsOf, IsCardAsk
<1>5. job.adds # <<>> => Tail(job.adds) \in Seq(Cardset)
  BY <1>3
<1>6. /\ DOMAIN new = EditFields /\ new.ask = job.ask /\ new.at = at /\ new.adds \in Seq(Cardset)
      /\ new.past \subseteq DOMAIN edits
      /\ new.adds = job.adds \/ new.adds = AddsOf(job) \/ job.adds # <<>>
  BY <1>1, <1>3, <1>4, <1>5 DEF MovesEdit
<1>7. AddsOf(new) = AddsOf(job)
  BY <1>6 DEF AddsOf
<1>8. new.at = "edges" /\ new.adds # <<>> => AddsOf(new) # <<>>
  BY <1>1, <1>3, <1>6, <1>7
<1>9. IsEdit(new, DOMAIN edits') /\ DOMAIN edits' = DOMAIN edits
  BY <1>3, <1>6, <1>8 DEF IsEdit, StepOf
<1>10. ASSUME NEW k \in DOMAIN edits' PROVE IsEdit(edits'[k], DOMAIN edits')
  <2>1. CASE k = i
    BY <1>9, <2>1 DEF StepOf
  <2>2. CASE k # i
    <3>1. PICK other : other = edits[k]
      OBVIOUS
    <3>2. IsEdit(other, DOMAIN edits) /\ edits'[k] = other
      BY <1>9, <2>2, <3>1 DEF EditsHold, StepOf
    <3> QED BY <1>9, <3>2 DEF IsEdit
  <2> QED BY <2>1, <2>2
<1>11. IsFiniteSet(DOMAIN edits')
  BY <1>9 DEF EditsHold
<1> QED BY <1>10, <1>11 DEF EditsHold

\* What each step changes of its call, and of what it leaves the rest.
SameBut(new, job, fields) == DOMAIN new = DOMAIN job /\ \A f \in DOMAIN job \ fields : new[f] = job[f]
StepTo(i, at, fields) ==
    StepOf(i, edits'[i]) /\ edits'[i].at = at /\ SameBut(edits'[i], edits[i], fields)
LEMMA StepsTo ==
    ASSUME EditsHold, NEW i \in DOMAIN edits, edits[i].at # "end", NEW new, PutsEdit(i, new),
           NEW at, new.at = at, NEW fields, SameBut(new, edits[i], fields), "ask" \notin fields
    PROVE  StepTo(i, at, fields) /\ edits'[i] = new
<1>1. new.ask = edits[i].ask
  BY DEF SameBut, EditsHold, IsEdit, EditFields
<1>2. StepOf(i, new)
  BY <1>1, EditPut
<1> QED BY <1>2 DEF StepTo, StepOf

\* The first read of a call, and the search for a cycle.
FindDoes(i) ==
    /\ edits[i].at = "find" /\ UNCHANGED <<cardRow, edges, comments, heard, fired, completed, raced>>
    /\ \/ StepTo(i, "end", {"at", "result"})
       \/ \E at \in {"earlier", "split", "cycle", "read"} :
            /\ StepTo(i, at, {"at", "before", "past"}) /\ HereCard(edits[i].ask.card)
            /\ edits'[i].past = {k \in DOMAIN edits : edits[k].at = "end"}
            /\ at # "cycle" => AddsOf(edits[i]) = <<>>
LEMMA FindIs ==
    ASSUME EditsHold, NEW i \in DOMAIN edits, FindCard(i)
    PROVE  FindDoes(i)
<1>1. PICK job : job = edits[i]
  OBVIOUS
<1>2. DOMAIN job = EditFields /\ job.at = "find"
  BY <1>1 DEF EditsHold, IsEdit, FindCard
<1>3. CASE ~HereCard(OnCard(i)) /\ CardEnds(i, "unknown")
  <2>1. PICK new : new = [job EXCEPT !.at = "end", !.result = "unknown"]
    OBVIOUS
  <2>2. PutsEdit(i, new) /\ new.at = "end" /\ SameBut(new, job, {"at", "result"})
    BY <1>1, <1>2, <1>3, <2>1 DEF CardEnds, SameBut, EditFields
  <2>3. StepTo(i, "end", {"at", "result"})
    BY <1>1, <1>2, <2>2, StepsTo
  <2> QED BY <1>1, <1>2, <2>3 DEF FindDoes, FindCard
<1>4. CASE HereCard(OnCard(i)) /\ ~(~HereCard(OnCard(i)) /\ CardEnds(i, "unknown"))
  <2>1. PICK at : at = CASE DoesTo(i, {"comment"}) -> "earlier" [] DoesTo(i, {"split"}) -> "split"
                         [] DoesTo(i, {"update"}) /\ AddsEdges(i) # <<>> -> "cycle" [] OTHER -> "read"
    OBVIOUS
  <2>2. PICK new : new = [job EXCEPT !.before = cardRow[OnCard(i)], !.at = at,
                                     !.past = {j \in DOMAIN edits : edits[j].at = "end"}]
    OBVIOUS
  <2>3. PutsEdit(i, new)
    BY <1>1, <1>4, <2>1, <2>2 DEF FindCard
  <2>4. at \in {"earlier", "split", "cycle", "read"} /\ (at # "cycle" => AddsOf(job) = <<>>)
    BY <1>1, <2>1 DEF DoesTo, CardAsk, AddsEdges, AddsOf
  <2>5. new.at = at /\ SameBut(new, job, {"at", "before", "past"}) /\ new.past = {k \in DOMAIN edits : edits[k].at = "end"}
    BY <1>2, <2>2 DEF SameBut, EditFields
  <2>6. StepTo(i, at, {"at", "before", "past"}) /\ edits'[i] = new
    BY <1>1, <1>2, <2>3, <2>5, StepsTo
  <2>7. HereCard(job.ask.card)
    BY <1>1, <1>4 DEF OnCard, CardAsk
  <2> QED BY <1>1, <1>2, <2>4, <2>5, <2>6, <2>7 DEF FindDoes, FindCard
<1> QED BY <1>3, <1>4 DEF FindCard

LooksDoes(i) ==
    /\ edits[i].at = "cycle" /\ UNCHANGED <<cardRow, edges, comments, heard, fired, completed>>
    /\ \/ StepTo(i, "end", {"at", "result"}) /\ UNCHANGED raced
       \/ /\ StepTo(i, "read", {"at"})
          /\ \A on \in ToSet(AddsOf(edits[i])) : edits[i].ask.card \notin Reaches(edges, {on})
          /\ raced' = (raced \/ \E k \in DOMAIN edits \ {i} : Looking(k))
LEMMA LooksIs ==
    ASSUME EditsHold, NEW i \in DOMAIN edits, LookForCycle(i)
    PROVE  LooksDoes(i)
<1>1. PICK job : job = edits[i]
  OBVIOUS
<1>2. DOMAIN job = EditFields /\ job.at = "cycle"
  BY <1>1 DEF EditsHold, IsEdit, LookForCycle
<1>3. CASE \E on \in ToSet(AddsEdges(i)) : Closes(edges, OnCard(i), on)
  <2>1. PICK new : new = [job EXCEPT !.at = "end", !.result = "cycle"]
    OBVIOUS
  <2>2. PutsEdit(i, new) /\ new.at = "end" /\ SameBut(new, job, {"at", "result"})
    BY <1>1, <1>2, <1>3, <2>1 DEF LookForCycle, CardEnds, SameBut, EditFields
  <2>3. StepTo(i, "end", {"at", "result"})
    BY <1>1, <1>2, <2>2, StepsTo
  <2> QED BY <1>1, <1>2, <1>3, <2>3 DEF LooksDoes, LookForCycle
<1>4. CASE ~\E on \in ToSet(AddsEdges(i)) : Closes(edges, OnCard(i), on)
  <2>1. PICK new : new = [job EXCEPT !.at = "read"]
    OBVIOUS
  <2>2. PutsEdit(i, new) /\ new.at = "read" /\ SameBut(new, job, {"at"})
    BY <1>1, <1>2, <1>4, <2>1 DEF LookForCycle, CardGoes, SameBut, EditFields
  <2>3. StepTo(i, "read", {"at"})
    BY <1>1, <1>2, <2>2, StepsTo
  <2>4. \A on \in ToSet(AddsOf(job)) : job.ask.card \notin Reaches(edges, {on})
    BY <1>1, <1>4 DEF AddsEdges, AddsOf, DoesTo, CardAsk, OnCard, Closes
  <2> QED BY <1>1, <1>2, <1>4, <2>3, <2>4 DEF LooksDoes, LookForCycle
<1> QED BY <1>3, <1>4

\* The read, the write and what follows it.
GoesToEdges(i) == StepTo(i, "edges", {"at", "adds", "drops"}) /\ edits'[i].adds = AddsOf(edits[i])
LEMMA AfterCardIs ==
    ASSUME EditsHold, NEW i \in DOMAIN edits, edits[i].at # "end", AfterCard(i)
    PROVE  GoesToEdges(i)
<1>1. PICK job : job = edits[i]
  OBVIOUS
<1>2. DOMAIN job = EditFields
  BY <1>1 DEF EditsHold, IsEdit
<1>3. PICK drops : drops = IF DoesTo(i, {"update"}) THEN CardAsk(i).unblock ELSE <<>>
  OBVIOUS
<1>4. PICK new : new = [job EXCEPT !.at = "edges", !.adds = AddsEdges(i), !.drops = drops]
  OBVIOUS
<1>5. PutsEdit(i, new)
  BY <1>1, <1>3, <1>4 DEF AfterCard
<1>6. AddsEdges(i) = AddsOf(job)
  BY <1>1 DEF AddsEdges, AddsOf, DoesTo, CardAsk
<1>7. new.at = "edges" /\ SameBut(new, job, {"at", "adds", "drops"}) /\ new.adds = AddsOf(job)
  BY <1>2, <1>4, <1>6 DEF SameBut, EditFields
<1>8. StepTo(i, "edges", {"at", "adds", "drops"}) /\ edits'[i] = new
  BY <1>1, <1>5, <1>7, StepsTo
<1> QED BY <1>1, <1>7, <1>8 DEF GoesToEdges

ReadDoes(i) ==
    /\ edits[i].at = "read" /\ UNCHANGED <<cardRow, edges, comments, heard, fired, completed, raced>>
    /\ \/ StepTo(i, "end", {"at", "result"})
       \/ GoesToEdges(i)
       \/ StepTo(i, "write", {"at", "before"}) /\ edits'[i].before = cardRow[edits[i].ask.card]
LEMMA ReadIs ==
    ASSUME EditsHold, NEW i \in DOMAIN edits, ReadCard(i)
    PROVE  ReadDoes(i)
<1>1. PICK job, row : job = edits[i] /\ row = cardRow[job.ask.card]
  OBVIOUS
<1>2. DOMAIN job = EditFields /\ job.at = "read"
  BY <1>1 DEF EditsHold, IsEdit, ReadCard
<1>3. CardEnds(i, "refused") \/ AfterCard(i) \/ PutsEdit(i, [job EXCEPT !.at = "write", !.before = row])
  BY <1>1 DEF ReadCard, OnCard, CardAsk
<1>4. CASE CardEnds(i, "refused")
  <2>1. PICK new : new = [job EXCEPT !.at = "end", !.result = "refused"]
    OBVIOUS
  <2>2. PutsEdit(i, new) /\ new.at = "end" /\ SameBut(new, job, {"at", "result"})
    BY <1>1, <1>2, <1>4, <2>1 DEF CardEnds, SameBut, EditFields
  <2>3. StepTo(i, "end", {"at", "result"})
    BY <1>1, <1>2, <2>2, StepsTo
  <2> QED BY <1>1, <1>2, <2>3 DEF ReadDoes, ReadCard
<1>5. CASE AfterCard(i)
  <2>1. GoesToEdges(i)
    BY <1>1, <1>2, <1>5, AfterCardIs
  <2> QED BY <1>1, <1>2, <2>1 DEF ReadDoes, ReadCard
<1>6. CASE PutsEdit(i, [job EXCEPT !.at = "write", !.before = row])
  <2>1. PICK new : new = [job EXCEPT !.at = "write", !.before = row]
    OBVIOUS
  <2>2. PutsEdit(i, new) /\ new.at = "write" /\ SameBut(new, job, {"at", "before"}) /\ new.before = row
    BY <1>2, <1>6, <2>1 DEF SameBut, EditFields
  <2>3. StepTo(i, "write", {"at", "before"}) /\ edits'[i] = new
    BY <1>1, <1>2, <2>2, StepsTo
  <2> QED BY <1>1, <1>2, <2>2, <2>3 DEF ReadDoes, ReadCard
<1> QED BY <1>3, <1>4, <1>5, <1>6

WriteDoes(i) ==
    /\ edits[i].at = "write" /\ UNCHANGED <<edges, comments, heard, fired, raced>>
    /\ \/ /\ cardRow[edits[i].ask.card].version = edits[i].before.version
          /\ cardRow' = [cardRow EXCEPT ![edits[i].ask.card] = AfterEdit(i)]
          /\ completed' = IF Complete(AfterEdit(i)) /\ ~Complete(cardRow[edits[i].ask.card])
                          THEN [completed EXCEPT ![edits[i].ask.card] = @ + 1] ELSE completed
          /\ StepTo(i, "record", {"at"})
       \/ /\ UNCHANGED <<cardRow, completed>>
          /\ StepTo(i, "read", {"at", "tries"}) \/ StepTo(i, "end", {"at", "result"})
LEMMA WriteIs ==
    ASSUME EditsHold, NEW i \in DOMAIN edits, WriteCard(i)
    PROVE  WriteDoes(i)
<1>1. PICK job : job = edits[i]
  OBVIOUS
<1>2. DOMAIN job = EditFields /\ job.at = "write"
  BY <1>1 DEF EditsHold, IsEdit, WriteCard
<1>3. CASE cardRow[OnCard(i)].version = job.before.version
  <2>1. PICK new : new = [job EXCEPT !.at = "record"]
    OBVIOUS
  <2>2. PutsEdit(i, new) /\ new.at = "record" /\ SameBut(new, job, {"at"})
    BY <1>1, <1>2, <1>3, <2>1 DEF WriteCard, CardGoes, SameBut, EditFields
  <2>3. StepTo(i, "record", {"at"})
    BY <1>1, <1>2, <2>2, StepsTo
  <2>4. /\ cardRow' = [cardRow EXCEPT ![OnCard(i)] = AfterEdit(i)]
        /\ completed' = IF Complete(AfterEdit(i)) /\ ~Complete(cardRow[OnCard(i)])
                        THEN [completed EXCEPT ![OnCard(i)] = @ + 1] ELSE completed
        /\ UNCHANGED <<edges, comments, heard, fired, raced>>
    BY <1>1, <1>3 DEF WriteCard
  <2>5. OnCard(i) = job.ask.card
    BY <1>1 DEF OnCard, CardAsk
  <2> HIDE DEF AfterEdit, Complete
  <2> QED BY <1>1, <1>2, <1>3, <2>3, <2>4, <2>5 DEF WriteDoes
<1>4. CASE cardRow[OnCard(i)].version # job.before.version
  <2>1. /\ UNCHANGED <<cardRow, completed, edges, comments, heard, fired, raced>>
        /\ PutsEdit(i, [job EXCEPT !.at = "read", !.tries = @ + 1]) \/ CardEnds(i, "conflict")
    BY <1>1, <1>4 DEF WriteCard
  <2>2. CASE PutsEdit(i, [job EXCEPT !.at = "read", !.tries = @ + 1])
    <3>1. PICK new : new = [job EXCEPT !.at = "read", !.tries = @ + 1]
      OBVIOUS
    <3>2. PutsEdit(i, new) /\ new.at = "read" /\ SameBut(new, job, {"at", "tries"})
      BY <1>2, <2>2, <3>1 DEF SameBut, EditFields
    <3>3. StepTo(i, "read", {"at", "tries"})
      BY <1>1, <1>2, <3>2, StepsTo
    <3> QED BY <1>1, <1>2, <2>1, <3>3 DEF WriteDoes
  <2>3. CASE CardEnds(i, "conflict")
    <3>1. PICK new : new = [job EXCEPT !.at = "end", !.result = "conflict"]
      OBVIOUS
    <3>2. PutsEdit(i, new) /\ new.at = "end" /\ SameBut(new, job, {"at", "result"})
      BY <1>1, <1>2, <2>3, <3>1 DEF CardEnds, SameBut, EditFields
    <3>3. StepTo(i, "end", {"at", "result"})
      BY <1>1, <1>2, <3>2, StepsTo
    <3> QED BY <1>1, <1>2, <2>1, <3>3 DEF WriteDoes
  <2> QED BY <2>1, <2>2, <2>3
<1> QED BY <1>3, <1>4

\* The record, the automation, and the dependencies one by one.
RecordDoes(i) ==
    /\ edits[i].at = "record" /\ UNCHANGED <<cardRow, edges, comments, heard, fired, completed, raced>>
    /\ StepTo(i, "complete", {"at"})
FireDoes(i) ==
    /\ edits[i].at = "complete" /\ UNCHANGED <<cardRow, edges, comments, heard, completed, raced>>
    /\ GoesToEdges(i)
    /\ fired' = IF Fires(i) THEN [fired EXCEPT ![edits[i].ask.card] = @ + 1] ELSE fired
LinkDoes(i) ==
    /\ edits[i].at = "edges" /\ UNCHANGED <<cardRow, comments, heard, fired, completed, raced>>
    /\ edits[i].adds # <<>> /\ edges' = edges \cup {<<edits[i].ask.card, Head(edits[i].adds)>>}
    /\ StepTo(i, "edges", {"adds"}) /\ edits'[i].adds = Tail(edits[i].adds)
UnlinkDoes(i) ==
    /\ edits[i].at = "edges" /\ UNCHANGED <<cardRow, comments, heard, fired, completed, raced>>
    /\ edits[i].adds = <<>> /\ edges' \subseteq edges /\ StepTo(i, "edges", {"drops"})
DoneDoes(i) ==
    /\ edits[i].at = "edges" /\ UNCHANGED <<cardRow, edges, comments, heard, fired, completed, raced>>
    /\ StepTo(i, "earlier", {"at", "before"}) \/ StepTo(i, "end", {"at", "result"})
EarlierDoes(i) ==
    /\ edits[i].at = "earlier" /\ UNCHANGED <<cardRow, edges, comments, heard, fired, completed, raced>>
    /\ StepTo(i, "comment", {"at", "earlier"})
    /\ edits'[i].earlier = {edits[j].ask.by : j \in ToSet(comments[edits[i].ask.card])}
InsertDoes(i) ==
    /\ edits[i].at = "comment" /\ UNCHANGED <<cardRow, edges, heard, fired, completed, raced>>
    /\ StepTo(i, "tell", {"at"})
    /\ comments' = [comments EXCEPT ![edits[i].ask.card] = Append(@, i)]
TellDoes(i) ==
    /\ edits[i].at = "tell" /\ UNCHANGED <<cardRow, edges, comments, fired, completed, raced>>
    /\ StepTo(i, "end", {"at", "result"})
    /\ heard' = heard \cup {<<who, i>> : who \in Audience(i)}
SplitDoes(i) ==
    /\ edits[i].at = "split" /\ UNCHANGED <<edges, comments, heard, fired, completed, raced>>
    /\ \/ StepTo(i, "end", {"at", "result"}) /\ UNCHANGED cardRow
       \/ /\ StepTo(i, "split", {"parts"})
          /\ \E c \in Cardset : /\ ~HereCard(c)
                                /\ \E labels : cardRow' = [cardRow EXCEPT ![c] =
                                       [NewRow(edits[i].ask.by, edits[i].ask.card) EXCEPT !.labels = labels]]

LEMMA RecordIs ==
    ASSUME EditsHold, NEW i \in DOMAIN edits, RecordCard(i)
    PROVE  RecordDoes(i)
<1>1. PICK job : job = edits[i]
  OBVIOUS
<1>2. DOMAIN job = EditFields /\ job.at = "record"
  BY <1>1 DEF EditsHold, IsEdit, RecordCard
<1>3. PICK new : new = [job EXCEPT !.at = "complete"]
  OBVIOUS
<1>4. PutsEdit(i, new)
  BY <1>1, <1>3 DEF RecordCard, CardGoes, CardEnds
<1>5. new.at = "complete" /\ SameBut(new, job, {"at"})
  BY <1>1, <1>2, <1>3 DEF SameBut, EditFields
<1>6. StepTo(i, "complete", {"at"}) /\ edits'[i] = new
  BY <1>1, <1>2, <1>4, <1>5, StepsTo
<1> QED BY <1>1, <1>2, <1>5, <1>6 DEF RecordDoes, RecordCard, OnCard, CardAsk

LEMMA FireIs ==
    ASSUME EditsHold, NEW i \in DOMAIN edits, FireComplete(i)
    PROVE  FireDoes(i)
<1>1. edits[i].at = "complete" /\ AfterCard(i) /\ OnCard(i) = edits[i].ask.card
      /\ UNCHANGED <<cardRow, edges, comments, heard, completed, raced>>
      /\ fired' = IF Fires(i) THEN [fired EXCEPT ![OnCard(i)] = @ + 1] ELSE fired
  BY DEF FireComplete, OnCard, CardAsk
<1>2. GoesToEdges(i)
  BY <1>1, AfterCardIs
<1> HIDE DEF Fires
<1> QED BY <1>1, <1>2 DEF FireDoes

LEMMA LinkIs ==
    ASSUME EditsHold, NEW i \in DOMAIN edits, LinkEdge(i)
    PROVE  LinkDoes(i)
<1>1. PICK job : job = edits[i]
  OBVIOUS
<1>2. DOMAIN job = EditFields /\ job.at = "edges"
  BY <1>1 DEF EditsHold, IsEdit, LinkEdge
<1>3. PICK new : new = [job EXCEPT !.adds = Tail(@)]
  OBVIOUS
<1>4. PutsEdit(i, new)
  BY <1>1, <1>3 DEF LinkEdge, CardGoes, CardEnds
<1>5. new.at = "edges" /\ SameBut(new, job, {"adds"}) /\ new.adds = Tail(job.adds)
  BY <1>1, <1>2, <1>3 DEF SameBut, EditFields
<1>6. StepTo(i, "edges", {"adds"}) /\ edits'[i] = new
  BY <1>1, <1>2, <1>4, <1>5, StepsTo
<1> QED BY <1>1, <1>2, <1>5, <1>6 DEF LinkDoes, LinkEdge, OnCard, CardAsk

LEMMA UnlinkIs ==
    ASSUME EditsHold, NEW i \in DOMAIN edits, UnlinkEdge(i)
    PROVE  UnlinkDoes(i)
<1>1. PICK job : job = edits[i]
  OBVIOUS
<1>2. DOMAIN job = EditFields /\ job.at = "edges"
  BY <1>1 DEF EditsHold, IsEdit, UnlinkEdge
<1>3. PICK new : new = [job EXCEPT !.drops = Tail(@)]
  OBVIOUS
<1>4. PutsEdit(i, new)
  BY <1>1, <1>3 DEF UnlinkEdge, CardGoes, CardEnds
<1>5. new.at = "edges" /\ SameBut(new, job, {"drops"})
  BY <1>1, <1>2, <1>3 DEF SameBut, EditFields
<1>6. StepTo(i, "edges", {"drops"}) /\ edits'[i] = new
  BY <1>1, <1>2, <1>4, <1>5, StepsTo
<1> QED BY <1>1, <1>2, <1>5, <1>6 DEF UnlinkDoes, UnlinkEdge, OnCard, CardAsk

LEMMA DoneIs ==
    ASSUME EditsHold, NEW i \in DOMAIN edits, EdgesDone(i)
    PROVE  DoneDoes(i)
<1>1. PICK job, row : job = edits[i] /\ row = cardRow[OnCard(i)]
  OBVIOUS
<1>2. /\ DOMAIN job = EditFields /\ job.at = "edges"
      /\ UNCHANGED <<cardRow, edges, comments, heard, fired, completed, raced>>
  BY <1>1 DEF EditsHold, IsEdit, EdgesDone
<1>3. PutsEdit(i, [job EXCEPT !.at = "earlier", !.before = row]) \/ CardEnds(i, "done")
  BY <1>1 DEF EdgesDone
<1>4. CASE PutsEdit(i, [job EXCEPT !.at = "earlier", !.before = row])
  <2>1. PICK new : new = [job EXCEPT !.at = "earlier", !.before = row]
    OBVIOUS
  <2>2. PutsEdit(i, new) /\ new.at = "earlier" /\ SameBut(new, job, {"at", "before"})
    BY <1>2, <1>4, <2>1 DEF SameBut, EditFields
  <2>3. StepTo(i, "earlier", {"at", "before"})
    BY <1>1, <1>2, <2>2, StepsTo
  <2> QED BY <1>1, <1>2, <2>3 DEF DoneDoes
<1>5. CASE CardEnds(i, "done")
  <2>1. PICK new : new = [job EXCEPT !.at = "end", !.result = "done"]
    OBVIOUS
  <2>2. PutsEdit(i, new) /\ new.at = "end" /\ SameBut(new, job, {"at", "result"})
    BY <1>1, <1>2, <1>5, <2>1 DEF CardEnds, SameBut, EditFields
  <2>3. StepTo(i, "end", {"at", "result"})
    BY <1>1, <1>2, <2>2, StepsTo
  <2> QED BY <1>1, <1>2, <2>3 DEF DoneDoes
<1> QED BY <1>3, <1>4, <1>5


\* A comment, who had commented before it, and who is told; and the parts of a card.

LEMMA EarlierIs ==
    ASSUME EditsHold, NEW i \in DOMAIN edits, ReadEarlier(i)
    PROVE  EarlierDoes(i)
<1>1. PICK job : job = edits[i]
  OBVIOUS
<1>2. DOMAIN job = EditFields /\ job.at = "earlier"
  BY <1>1 DEF EditsHold, IsEdit, ReadEarlier
<1>3. PICK new : new = [job EXCEPT !.at = "comment", !.earlier = {CardAsk(j).by : j \in ToSet(comments[OnCard(i)])}]
  OBVIOUS
<1>4. PutsEdit(i, new)
  BY <1>1, <1>3 DEF ReadEarlier, CardGoes, CardEnds
<1>5. new.at = "comment" /\ SameBut(new, job, {"at", "earlier"}) /\ new.earlier = {edits[j].ask.by : j \in ToSet(comments[job.ask.card])}
  BY <1>1, <1>2, <1>3 DEF SameBut, EditFields, OnCard, CardAsk
<1>6. StepTo(i, "comment", {"at", "earlier"}) /\ edits'[i] = new
  BY <1>1, <1>2, <1>4, <1>5, StepsTo
<1> QED BY <1>1, <1>2, <1>5, <1>6 DEF EarlierDoes, ReadEarlier, OnCard, CardAsk

LEMMA InsertIs ==
    ASSUME EditsHold, NEW i \in DOMAIN edits, InsertComment(i)
    PROVE  InsertDoes(i)
<1>1. PICK job : job = edits[i]
  OBVIOUS
<1>2. DOMAIN job = EditFields /\ job.at = "comment"
  BY <1>1 DEF EditsHold, IsEdit, InsertComment
<1>3. PICK new : new = [job EXCEPT !.at = "tell"]
  OBVIOUS
<1>4. PutsEdit(i, new)
  BY <1>1, <1>3 DEF InsertComment, CardGoes, CardEnds
<1>5. new.at = "tell" /\ SameBut(new, job, {"at"})
  BY <1>1, <1>2, <1>3 DEF SameBut, EditFields
<1>6. StepTo(i, "tell", {"at"}) /\ edits'[i] = new
  BY <1>1, <1>2, <1>4, <1>5, StepsTo
<1> QED BY <1>1, <1>2, <1>5, <1>6 DEF InsertDoes, InsertComment, OnCard, CardAsk

LEMMA TellIs ==
    ASSUME EditsHold, NEW i \in DOMAIN edits, TellComment(i)
    PROVE  TellDoes(i)
<1>1. PICK job : job = edits[i]
  OBVIOUS
<1>2. DOMAIN job = EditFields /\ job.at = "tell"
  BY <1>1 DEF EditsHold, IsEdit, TellComment
<1>3. PICK new : new = [job EXCEPT !.at = "end", !.result = "done"]
  OBVIOUS
<1>4. PutsEdit(i, new)
  BY <1>1, <1>3 DEF TellComment, CardGoes, CardEnds
<1>5. new.at = "end" /\ SameBut(new, job, {"at", "result"})
  BY <1>1, <1>2, <1>3 DEF SameBut, EditFields
<1>6. StepTo(i, "end", {"at", "result"}) /\ edits'[i] = new
  BY <1>1, <1>2, <1>4, <1>5, StepsTo
<1> QED BY <1>1, <1>2, <1>5, <1>6 DEF TellDoes, TellComment, OnCard, CardAsk

LEMMA SplitIs ==
    ASSUME EditsHold, NEW i \in DOMAIN edits, SplitOff(i)
    PROVE  SplitDoes(i)
<1>1. PICK job : job = edits[i]
  OBVIOUS
<1>2. /\ DOMAIN job = EditFields /\ job.at = "split"
      /\ UNCHANGED <<edges, comments, heard, fired, completed, raced>>
  BY <1>1 DEF EditsHold, IsEdit, SplitOff
<1>3. \/ UNCHANGED cardRow /\ \E result \in {"done", "refused"} : CardEnds(i, result)
      \/ /\ PutsEdit(i, [job EXCEPT !.parts = @ + 1])
         /\ \E c \in Cardset : /\ ~HereCard(c)
                               /\ \E labels : cardRow' = [cardRow EXCEPT ![c] =
                                      [NewRow(job.ask.by, job.ask.card) EXCEPT !.labels = labels]]
  BY <1>1 DEF SplitOff, CardAsk, OnCard, Cardset
<1>4. CASE UNCHANGED cardRow /\ \E result \in {"done", "refused"} : CardEnds(i, result)
  <2>1. PICK result \in {"done", "refused"} : CardEnds(i, result)
    BY <1>4
  <2>2. PICK new : new = [job EXCEPT !.at = "end", !.result = result]
    OBVIOUS
  <2>3. PutsEdit(i, new) /\ new.at = "end" /\ SameBut(new, job, {"at", "result"})
    BY <1>1, <1>2, <2>1, <2>2 DEF CardEnds, SameBut, EditFields
  <2>4. StepTo(i, "end", {"at", "result"})
    BY <1>1, <1>2, <2>3, StepsTo
  <2> QED BY <1>1, <1>2, <1>4, <2>4 DEF SplitDoes
<1>5. CASE /\ PutsEdit(i, [job EXCEPT !.parts = @ + 1])
           /\ \E c \in Cardset : /\ ~HereCard(c)
                                 /\ \E labels : cardRow' = [cardRow EXCEPT ![c] =
                                        [NewRow(job.ask.by, job.ask.card) EXCEPT !.labels = labels]]
  <2>1. PICK new : new = [job EXCEPT !.parts = @ + 1]
    OBVIOUS
  <2>2. PutsEdit(i, new) /\ new.at = "split" /\ SameBut(new, job, {"parts"})
    BY <1>2, <1>5, <2>1 DEF SameBut, EditFields
  <2>3. StepTo(i, "split", {"parts"})
    BY <1>1, <1>2, <2>2, StepsTo
  <2> QED BY <1>1, <1>2, <1>5, <2>3 DEF SplitDoes
<1> QED BY <1>3, <1>4, <1>5

CardDoes(i) ==
    \/ FindDoes(i) \/ LooksDoes(i) \/ ReadDoes(i) \/ WriteDoes(i) \/ RecordDoes(i) \/ FireDoes(i)
    \/ LinkDoes(i) \/ UnlinkDoes(i) \/ DoneDoes(i)
    \/ EarlierDoes(i) \/ InsertDoes(i) \/ TellDoes(i) \/ SplitDoes(i)
LEMMA CardStepIs ==
    ASSUME EditsHold, NEW i \in DOMAIN edits, CardEdit(i)
    PROVE  CardDoes(i)
BY FindIs, LooksIs, ReadIs, WriteIs, RecordIs, FireIs, LinkIs, UnlinkIs, DoneIs, EarlierIs, InsertIs, TellIs,
   SplitIs, Zenon DEF CardEdit, CardDoes

\* Where a step may lead a call to.
LEMMA EditsKeep ==
    ASSUME EditsHold, NEW i \in DOMAIN edits, CardDoes(i)
    PROVE  EditsHold'
<1>1. DOMAIN edits[i] = EditFields /\ {k \in DOMAIN edits : edits[k].at = "end"} \subseteq DOMAIN edits
  BY DEF EditsHold, IsEdit
<1>2. ASSUME NEW at \in EditPlaces \ {"edges"}, NEW fields, StepTo(i, at, fields), fields \subseteq EditFields,
             "adds" \notin fields, "at" \in fields, "ask" \notin fields,
             "past" \notin fields \/ edits'[i].past \subseteq DOMAIN edits
      PROVE  EditsHold'
  <2>1. PICK new : new = edits'[i]
    OBVIOUS
  <2>2. StepOf(i, new) /\ MovesEdit(new, edits[i], at)
    BY <1>1, <1>2, <2>1 DEF StepTo, SameBut, MovesEdit, EditFields
  <2> QED BY <1>2, <2>2, EditMoves
<1>3. ASSUME NEW fields, StepTo(i, edits[i].at, fields), fields \subseteq {"adds", "drops", "parts"},
             "adds" \in fields => edits[i].adds # <<>> /\ edits'[i].adds = Tail(edits[i].adds)
      PROVE  EditsHold'
  <2>1. PICK new, at : new = edits'[i] /\ at = edits[i].at
    OBVIOUS
  <2>2. StepOf(i, new) /\ MovesEdit(new, edits[i], at)
    BY <1>1, <1>3, <2>1 DEF StepTo, SameBut, MovesEdit, EditFields
  <2>3. at \in EditPlaces
    BY <2>1 DEF EditsHold, IsEdit
  <2> QED BY <2>1, <2>2, <2>3, EditMoves
<1>4. ASSUME GoesToEdges(i) PROVE EditsHold'
  <2>1. PICK new : new = edits'[i]
    OBVIOUS
  <2>2. StepOf(i, new) /\ MovesEdit(new, edits[i], "edges") /\ new.adds = AddsOf(edits[i])
    BY <1>1, <1>4, <2>1 DEF GoesToEdges, StepTo, SameBut, MovesEdit, EditFields
  <2>3. "edges" \in EditPlaces
    BY DEF EditPlaces
  <2> QED BY <2>2, <2>3, EditMoves
<1>5. CASE FindDoes(i)
  BY <1>1, <1>2, <1>5 DEF FindDoes, EditPlaces, EditFields
<1>6. CASE LooksDoes(i)
  BY <1>2, <1>6 DEF LooksDoes, EditPlaces, EditFields
<1>7. CASE ReadDoes(i)
  BY <1>2, <1>4, <1>7 DEF ReadDoes, EditPlaces, EditFields
<1>8. CASE WriteDoes(i)
  BY <1>2, <1>8 DEF WriteDoes, EditPlaces, EditFields
<1>9. CASE RecordDoes(i) \/ DoneDoes(i) \/ EarlierDoes(i) \/ InsertDoes(i) \/ TellDoes(i)
  BY <1>2, <1>9 DEF RecordDoes, DoneDoes, EarlierDoes, InsertDoes, TellDoes, EditPlaces, EditFields
<1>10. CASE FireDoes(i)
  BY <1>4, <1>10 DEF FireDoes
<1>11. CASE LinkDoes(i) \/ UnlinkDoes(i)
  BY <1>3, <1>11 DEF LinkDoes, UnlinkDoes
<1>12. CASE SplitDoes(i)
  BY <1>2, <1>3, <1>12 DEF SplitDoes, EditPlaces, EditFields
<1> QED BY <1>5, <1>6, <1>7, <1>8, <1>9, <1>10, <1>11, <1>12 DEF CardDoes

-----------------------------------------------------------------------------
(* Rows: a card is written over the row it was read from, and a checklist that   *)
(* a write completed is counted once, or is about to be.                          *)

IsRow(row) == "version" \in DOMAIN row /\ row.version \in Nat \ {0}
\* The row a call has read is older than the row there is, or is that row.
WrittenFrom(job, rows) ==
    job.at = "write" => /\ IsRow(job.before) /\ IsRow(rows[job.ask.card])
                        /\ job.before.version =< rows[job.ask.card].version
                        /\ job.before.version = rows[job.ask.card].version => job.before = rows[job.ask.card]
OnItsWay(job, rows) == job.at \notin {"find", "end"} => IsRow(rows[job.ask.card])
Owes(i) == edits[i].at \in {"record", "complete"} /\ Complete(AfterEdit(i)) /\ ~Complete(edits[i].before)
OwedOn(c) == {i \in DOMAIN edits : OnCard(i) = c /\ Owes(i)}
CardRowsHold ==
    /\ DOMAIN cardRow = Cardset /\ \A c \in Cardset : cardRow[c] = Gone \/ IsRow(cardRow[c])
    /\ completed \in [Cardset -> Nat] /\ fired \in [Cardset -> Nat]
    /\ \A i \in DOMAIN edits : WrittenFrom(edits[i], cardRow) /\ OnItsWay(edits[i], cardRow)
    /\ \A c \in Cardset : completed[c] = fired[c] + Cardinality(OwedOn(c))

LEMMA RowsStart == CardInit => CardRowsHold
<1> SUFFICES ASSUME CardInit PROVE CardRowsHold
  OBVIOUS
<1>1. PICK scene \in CardScenes : edits = [i \in DOMAIN scene |-> BegunEdit(scene[i])]
  BY DEF CardInit
<1>2. \A i \in DOMAIN edits : edits[i].at = "find"
  BY <1>1 DEF BegunEdit
<1>3. /\ DOMAIN cardRow = Cardset
      /\ \A c \in Cardset : cardRow[c] = IF c \in DOMAIN CardsAtFirst THEN CardsAtFirst[c] ELSE Gone
  BY DEF CardInit, Cardset
<1>4. \A c \in Cardset : cardRow[c] = Gone \/ IsRow(cardRow[c])
  BY <1>3, CardsAssumption DEF IsRow
<1>5. fired = [c \in Cardset |-> 0] /\ completed = [c \in Cardset |-> 0]
  BY DEF CardInit, Cardset
<1>6. \A c \in Cardset : OwedOn(c) = {}
  BY <1>2 DEF OwedOn, Owes
<1>7. Cardinality({}) = 0
  BY FS_EmptySet
<1>8. \A i \in DOMAIN edits : WrittenFrom(edits[i], cardRow) /\ OnItsWay(edits[i], cardRow)
  BY <1>2 DEF WrittenFrom, OnItsWay
<1> QED BY <1>3, <1>4, <1>5, <1>6, <1>7, <1>8 DEF CardRowsHold

\* What a call is to write depends on its request and on what it has read.
LEMMA AfterEditSame ==
    ASSUME NEW i, edits'[i].ask = edits[i].ask, edits'[i].before = edits[i].before
    PROVE  AfterEdit(i)' = AfterEdit(i)
BY DEF AfterEdit, EditOf, DoesTo, CardAsk
LEMMA AfterEditIsRow ==
    ASSUME NEW i, IsRow(edits[i].before)
    PROVE  IsRow(AfterEdit(i)) /\ AfterEdit(i).version = edits[i].before.version + 1
<1>1. PICK row, new : row = edits[i].before /\ new = EditOf(i, row)
  OBVIOUS
<1>2. DOMAIN new = DOMAIN row /\ new.version = row.version
  BY <1>1 DEF EditOf, IsRow
<1>3. AfterEdit(i) = [new EXCEPT !.version = new.version + 1]
  BY <1>1 DEF AfterEdit
<1> QED BY <1>1, <1>2, <1>3 DEF IsRow

\* A step that is about no row.
Quiet(i) ==
    /\ UNCHANGED <<cardRow, completed, fired>> /\ StepOf(i, edits'[i])
    /\ Owes(i)' <=> Owes(i)
    /\ WrittenFrom(edits'[i], cardRow) /\ OnItsWay(edits'[i], cardRow)
LEMMA OwedSame ==
    ASSUME NEW i \in DOMAIN edits, StepOf(i, edits'[i]), NEW k \in DOMAIN edits, k # i
    PROVE  OnCard(k)' = OnCard(k) /\ (Owes(k)' <=> Owes(k))
<1>1. edits'[k] = edits[k]
  BY DEF StepOf
<1>2. AfterEdit(k)' = AfterEdit(k)
  BY <1>1, AfterEditSame
<1>3. Complete(AfterEdit(k))' <=> Complete(AfterEdit(k))
  <2> HIDE DEF AfterEdit
  <2> QED BY <1>2 DEF Complete
<1>4. Complete(edits[k].before)' <=> Complete(edits[k].before)
  BY <1>1 DEF Complete
<1> QED BY <1>1, <1>3, <1>4 DEF Owes, OnCard, CardAsk
LEMMA QuietKeeps ==
    ASSUME CardRowsHold, NEW i \in DOMAIN edits, Quiet(i)
    PROVE  CardRowsHold'
<1>1. ASSUME NEW c \in Cardset PROVE OwedOn(c)' = OwedOn(c)
  <2>1. DOMAIN edits' = DOMAIN edits /\ OnCard(i)' = OnCard(i) /\ (Owes(i)' <=> Owes(i))
    BY DEF Quiet, StepOf, OnCard, CardAsk
  <2>2. \A k \in DOMAIN edits : OnCard(k)' = OnCard(k) /\ (Owes(k)' <=> Owes(k))
    BY <2>1, OwedSame DEF Quiet
  <2> HIDE DEF OnCard, Owes
  <2> QED BY <2>1, <2>2 DEF OwedOn
<1>2. ASSUME NEW k \in DOMAIN edits' PROVE WrittenFrom(edits'[k], cardRow') /\ OnItsWay(edits'[k], cardRow')
  <2>1. CASE k = i
    BY <2>1 DEF Quiet
  <2>2. CASE k # i
    <3>1. edits'[k] = edits[k] /\ k \in DOMAIN edits /\ UNCHANGED cardRow
      BY <2>2 DEF Quiet, StepOf
    <3> QED BY <3>1 DEF CardRowsHold
  <2> QED BY <2>1, <2>2
<1>3. UNCHANGED <<cardRow, completed, fired>>
  BY DEF Quiet
<1> QED BY <1>1, <1>2, <1>3 DEF CardRowsHold

LEMMA RowsOf ==
    ASSUME CardRowsHold, EditsHold, NEW i \in DOMAIN edits
    PROVE  /\ WrittenFrom(edits[i], cardRow) /\ OnItsWay(edits[i], cardRow) /\ edits[i].ask.card \in Cardset
           /\ DOMAIN edits[i] = EditFields
  BY DEF CardRowsHold, EditsHold, IsEdit, IsCardAsk

LEMMA RowsQuiet ==
    ASSUME CardRowsHold, EditsHold, NEW i \in DOMAIN edits,
           \/ FindDoes(i) \/ LooksDoes(i) \/ ReadDoes(i) \/ RecordDoes(i) \/ LinkDoes(i) \/ UnlinkDoes(i)
           \/ DoneDoes(i) \/ EarlierDoes(i) \/ InsertDoes(i) \/ TellDoes(i)
           \/ WriteDoes(i) /\ UNCHANGED <<cardRow, completed>> /\ edits'[i].at # "record"
           \/ SplitDoes(i) /\ UNCHANGED cardRow
    PROVE  CardRowsHold'
<1>1. PICK job, new, row : job = edits[i] /\ new = edits'[i] /\ row = cardRow[job.ask.card]
  OBVIOUS
<1>2. /\ WrittenFrom(job, cardRow) /\ OnItsWay(job, cardRow) /\ job.ask.card \in Cardset /\ DOMAIN job = EditFields
      /\ row = Gone \/ IsRow(row)
  BY <1>1, RowsOf DEF CardRowsHold
<1>3. CASE RecordDoes(i)
  <2>1. /\ StepOf(i, new) /\ new.at = "complete" /\ new.ask = job.ask /\ new.before = job.before /\ job.at = "record"
        /\ UNCHANGED <<cardRow, completed, fired>>
    BY <1>1, <1>2, <1>3 DEF RecordDoes, StepTo, SameBut, EditFields
  <2>2. AfterEdit(i)' = AfterEdit(i)
    BY <1>1, <2>1, AfterEditSame
  <2>3. Complete(AfterEdit(i))' <=> Complete(AfterEdit(i))
    <3> HIDE DEF AfterEdit
    <3> QED BY <2>2 DEF Complete
  <2>4. Complete(edits[i].before)' <=> Complete(edits[i].before)
    BY <1>1, <2>1 DEF Complete
  <2>5. Owes(i)' <=> Owes(i)
    BY <1>1, <2>1, <2>3, <2>4 DEF Owes
  <2>6. WrittenFrom(new, cardRow) /\ OnItsWay(new, cardRow)
    BY <1>2, <2>1 DEF WrittenFrom, OnItsWay
  <2>7. Quiet(i)
    BY <1>1, <2>1, <2>5, <2>6 DEF Quiet
  <2> QED BY <2>7, QuietKeeps
<1>4. CASE ~RecordDoes(i)
  <2>1. /\ StepOf(i, new) /\ new.ask = job.ask /\ UNCHANGED <<cardRow, completed, fired>>
        /\ job.at \notin {"record", "complete"} /\ new.at \notin {"record", "complete"}
        /\ new.at = "write" => new.before = row /\ job.at = "read"
        /\ new.at = "end" \/ job.at # "find" \/ HereCard(job.ask.card)
        /\ job.at # "end"
    BY <1>1, <1>2, <1>4 DEF FindDoes, LooksDoes, ReadDoes, LinkDoes, UnlinkDoes, DoneDoes, EarlierDoes, InsertDoes,
       TellDoes, WriteDoes, SplitDoes, GoesToEdges, StepTo, StepOf, SameBut, EditFields
  <2>2. ~Owes(i) /\ ~Owes(i)'
    BY <1>1, <2>1 DEF Owes
  <2>3. new.at # "end" => IsRow(row)
    BY <1>1, <1>2, <2>1 DEF OnItsWay, HereCard
  <2>4. WrittenFrom(new, cardRow) /\ OnItsWay(new, cardRow)
    BY <1>1, <2>1, <2>3 DEF WrittenFrom, OnItsWay, IsRow
  <2>5. Quiet(i)
    BY <1>1, <2>1, <2>2, <2>4 DEF Quiet
  <2> QED BY <2>5, QuietKeeps
<1> QED BY <1>3, <1>4

\* Rows only grow: what a call has read, another's write makes older for good.
Grows(rows, new) ==
    \A c \in Cardset : new[c] = rows[c] \/ (IsRow(new[c]) /\ (IsRow(rows[c]) => new[c].version > rows[c].version))
LEMMA OthersHold ==
    ASSUME CardRowsHold, EditsHold, NEW k \in DOMAIN edits, Grows(cardRow, cardRow')
    PROVE  WrittenFrom(edits[k], cardRow') /\ OnItsWay(edits[k], cardRow')
<1>1. PICK job, row, now : job = edits[k] /\ row = cardRow[job.ask.card] /\ now = cardRow'[job.ask.card]
  OBVIOUS
<1>2. /\ WrittenFrom(job, cardRow) /\ OnItsWay(job, cardRow)
      /\ now = row \/ (IsRow(now) /\ (IsRow(row) => now.version > row.version))
  BY <1>1, RowsOf DEF Grows
<1>3. WrittenFrom(job, cardRow')
  BY <1>1, <1>2 DEF WrittenFrom, IsRow
<1>4. OnItsWay(job, cardRow')
  BY <1>1, <1>2 DEF OnItsWay
<1> QED BY <1>1, <1>3, <1>4

\* The parts of a card are rows of their own.
LEMMA RowsSplit ==
    ASSUME CardRowsHold, EditsHold, NEW i \in DOMAIN edits, SplitDoes(i)
    PROVE  CardRowsHold'
<1>1. CASE UNCHANGED cardRow
  BY <1>1, RowsQuiet
<1>2. CASE cardRow' # cardRow
  <2>1. PICK job, new : job = edits[i] /\ new = edits'[i]
    OBVIOUS
  <2>2. PICK c \in Cardset : /\ ~HereCard(c)
                            /\ \E labels : cardRow' = [cardRow EXCEPT ![c] =
                                   [NewRow(job.ask.by, job.ask.card) EXCEPT !.labels = labels]]
    BY <1>2, <2>1 DEF SplitDoes
  <2>3. PICK labels, row : /\ cardRow' = [cardRow EXCEPT ![c] = row]
                           /\ row = [NewRow(job.ask.by, job.ask.card) EXCEPT !.labels = labels]
    BY <2>2
  <2>4. IsRow(row)
    BY <2>3 DEF NewRow, IsRow
  <2>5. DOMAIN cardRow = Cardset /\ \A d \in Cardset : cardRow[d] = Gone \/ IsRow(cardRow[d])
    BY DEF CardRowsHold
  <2>6. /\ DOMAIN cardRow' = Cardset /\ cardRow'[c] = row /\ \A d \in Cardset : d # c => cardRow'[d] = cardRow[d]
    BY <2>2, <2>3, <2>5
  <2>7. Grows(cardRow, cardRow')
    <3>1. ~IsRow(cardRow[c])
      BY <2>2 DEF HereCard, IsRow, Gone
    <3> QED BY <2>4, <2>6, <3>1 DEF Grows
  <2>8. /\ StepOf(i, new) /\ job.at = "split" /\ new.at = "split" /\ new.ask = job.ask /\ UNCHANGED <<completed, fired>>
    BY <1>2, <2>1, RowsOf DEF SplitDoes, StepTo, StepOf, SameBut, EditFields
  <2>9. ASSUME NEW d \in Cardset PROVE OwedOn(d)' = OwedOn(d)
    <3>1. ~Owes(i) /\ ~Owes(i)' /\ OnCard(i)' = OnCard(i) /\ DOMAIN edits' = DOMAIN edits
      BY <2>1, <2>8 DEF Owes, OnCard, CardAsk, StepOf
    <3>2. \A k \in DOMAIN edits : OnCard(k)' = OnCard(k) /\ (Owes(k)' <=> Owes(k))
      BY <2>1, <2>8, <3>1, OwedSame
    <3> HIDE DEF OnCard, Owes
    <3> QED BY <3>1, <3>2 DEF OwedOn
  <2>10. ASSUME NEW k \in DOMAIN edits' PROVE WrittenFrom(edits'[k], cardRow') /\ OnItsWay(edits'[k], cardRow')
    <3>1. k \in DOMAIN edits /\ WrittenFrom(edits[k], cardRow') /\ OnItsWay(edits[k], cardRow')
      BY <2>7, <2>8, OthersHold DEF StepOf
    <3>2. edits'[k].ask = edits[k].ask /\ (edits'[k].at = edits[k].at) /\ (k # i => edits'[k] = edits[k]) /\ edits'[i].at = "split"
      BY <2>1, <2>8, <3>1 DEF StepOf
    <3> QED BY <2>1, <2>8, <3>1, <3>2 DEF WrittenFrom, OnItsWay
  <2> QED BY <2>4, <2>5, <2>6, <2>8, <2>9, <2>10 DEF CardRowsHold
<1> QED BY <1>1, <1>2

\* A write that completes a checklist is owed one run of the automation.
LEMMA OwedMoves ==
    ASSUME EditsHold, NEW i \in DOMAIN edits, StepOf(i, edits'[i]), NEW c \in Cardset
    PROVE  /\ IsFiniteSet(OwedOn(c)) /\ Cardinality(OwedOn(c)) \in Nat
           /\ OnCard(i) # c => OwedOn(c)' = OwedOn(c)
           /\ OnCard(i) = c /\ Owes(i)' /\ Owes(i) => OwedOn(c)' = OwedOn(c)
           /\ OnCard(i) = c /\ ~Owes(i)' /\ ~Owes(i) => OwedOn(c)' = OwedOn(c)
           /\ OnCard(i) = c /\ Owes(i)' /\ ~Owes(i) => Cardinality(OwedOn(c)') = Cardinality(OwedOn(c)) + 1
           /\ OnCard(i) = c /\ ~Owes(i)' /\ Owes(i) => Cardinality(OwedOn(c)') = Cardinality(OwedOn(c)) - 1
<1>1. DOMAIN edits' = DOMAIN edits /\ OnCard(i)' = OnCard(i)
  BY DEF StepOf, OnCard, CardAsk
<1>2. \A k \in DOMAIN edits : k # i => OnCard(k)' = OnCard(k) /\ (Owes(k)' <=> Owes(k))
  BY OwedSame
<1>3. PICK old, new : old = OwedOn(c) /\ new = OwedOn(c)'
  OBVIOUS
<1>4. new = {k \in DOMAIN edits : OnCard(k)' = c /\ Owes(k)'} /\ old = {k \in DOMAIN edits : OnCard(k) = c /\ Owes(k)}
  <2> HIDE DEF OnCard, Owes
  <2> QED BY <1>1, <1>3 DEF OwedOn
<1>5. IsFiniteSet(old) /\ Cardinality(old) \in Nat
  <2>1. old \subseteq DOMAIN edits
    BY <1>4
  <2> QED BY <2>1, FS_Subset, FS_CardinalityType DEF EditsHold
<1> HIDE DEF OnCard, Owes, OwedOn
<1>6. (OnCard(i) # c \/ (Owes(i)' <=> Owes(i))) => new = old
  BY <1>1, <1>2, <1>4
<1>7. OnCard(i) = c /\ Owes(i)' /\ ~Owes(i) => Cardinality(new) = Cardinality(old) + 1
  <2> SUFFICES ASSUME OnCard(i) = c, Owes(i)', ~Owes(i) PROVE Cardinality(new) = Cardinality(old) + 1
    OBVIOUS
  <2>1. new = old \cup {i} /\ i \notin old
    BY <1>1, <1>2, <1>4
  <2> QED BY <1>5, <2>1, FS_AddElement
<1>8. OnCard(i) = c /\ ~Owes(i)' /\ Owes(i) => Cardinality(new) = Cardinality(old) - 1
  <2> SUFFICES ASSUME OnCard(i) = c, ~Owes(i)', Owes(i) PROVE Cardinality(new) = Cardinality(old) - 1
    OBVIOUS
  <2>1. new = old \ {i} /\ i \in old
    BY <1>1, <1>2, <1>4
  <2> QED BY <1>5, <2>1, FS_RemoveElement
<1> QED BY <1>3, <1>5, <1>6, <1>7, <1>8

LEMMA RowsWrite ==
    ASSUME CardRowsHold, EditsHold, NEW i \in DOMAIN edits, WriteDoes(i)
    PROVE  CardRowsHold'
<1>1. PICK job, new, c, row, after : /\ job = edits[i] /\ new = edits'[i] /\ c = job.ask.card /\ row = cardRow[c]
                                     /\ after = AfterEdit(i)
  OBVIOUS
<1>2. CASE UNCHANGED <<cardRow, completed>> /\ new.at # "record"
  BY <1>1, <1>2, RowsQuiet
<1>3. CASE /\ row.version = job.before.version /\ cardRow' = [cardRow EXCEPT ![c] = after]
           /\ completed' = IF Complete(after) /\ ~Complete(row) THEN [completed EXCEPT ![c] = @ + 1] ELSE completed
           /\ StepTo(i, "record", {"at"})
  <2>1. /\ job.at = "write" /\ DOMAIN job = EditFields /\ UNCHANGED fired /\ c \in Cardset
        /\ WrittenFrom(job, cardRow)
    BY <1>1, RowsOf DEF WriteDoes
  <2>2. StepOf(i, new) /\ new.at = "record" /\ new.ask = job.ask /\ new.before = job.before
    BY <1>1, <1>3, <2>1 DEF StepTo, SameBut, EditFields
  <2>3. IsRow(row) /\ job.before = row
    BY <1>1, <1>3, <2>1 DEF WrittenFrom
  <2>4. IsRow(after) /\ after.version = row.version + 1
    BY <1>1, <2>3, AfterEditIsRow
  <2>5. DOMAIN cardRow = Cardset /\ \A d \in Cardset : cardRow[d] = Gone \/ IsRow(cardRow[d])
    BY DEF CardRowsHold
  <2>6. DOMAIN cardRow' = Cardset /\ cardRow'[c] = after /\ \A d \in Cardset : d # c => cardRow'[d] = cardRow[d]
    BY <1>3, <2>1, <2>5
  <2>7. Grows(cardRow, cardRow')
    BY <1>1, <2>3, <2>4, <2>6 DEF Grows, IsRow
  <2>8. AfterEdit(i)' = after
    BY <1>1, <2>2, AfterEditSame
  <2>9. ~Owes(i) /\ (Owes(i)' <=> Complete(after) /\ ~Complete(row))
    <3>1. (Complete(AfterEdit(i)))' <=> Complete(after)
      <4> HIDE DEF AfterEdit
      <4> QED BY <2>8 DEF Complete
    <3>2. (Complete(edits[i].before))' <=> Complete(row)
      BY <1>1, <2>2, <2>3 DEF Complete
    <3> QED BY <1>1, <2>1, <2>2, <3>1, <3>2 DEF Owes
  <2>10. OnCard(i) = c
    BY <1>1 DEF OnCard, CardAsk
  <2>11. completed \in [Cardset -> Nat] /\ fired \in [Cardset -> Nat]
         /\ \A d \in Cardset : completed[d] = fired[d] + Cardinality(OwedOn(d))
    BY DEF CardRowsHold
  <2>12. completed' \in [Cardset -> Nat]
    BY <1>3, <2>1, <2>11
  <2>13. ASSUME NEW d \in Cardset PROVE completed'[d] = fired'[d] + Cardinality(OwedOn(d)')
    <3>1. PICK n, old : n = Cardinality(OwedOn(d)') /\ old = Cardinality(OwedOn(d))
      OBVIOUS
    <3>2. /\ old \in Nat
          /\ d # c => n = old
          /\ d = c /\ ~Owes(i)' => n = old
          /\ d = c /\ Owes(i)' => n = old + 1
      <4> HIDE DEF Owes, OwedOn, OnCard
      <4> QED BY <1>1, <2>2, <2>9, <2>10, <3>1, OwedMoves
    <3>3. completed'[d] = IF d = c /\ Complete(after) /\ ~Complete(row) THEN completed[d] + 1 ELSE completed[d]
      BY <1>3, <2>1, <2>11
    <3>4. completed[d] = fired[d] + old /\ completed[d] \in Nat /\ fired'[d] = fired[d] /\ fired[d] \in Nat
      BY <2>1, <2>11, <3>1
    <3> HIDE DEF Owes, OwedOn, OnCard, Complete
    <3>5. n = IF d = c /\ Complete(after) /\ ~Complete(row) THEN old + 1 ELSE old
      BY <2>9, <3>2
    <3> QED BY <3>1, <3>2, <3>3, <3>4, <3>5
  <2>14. ASSUME NEW k \in DOMAIN edits' PROVE WrittenFrom(edits'[k], cardRow') /\ OnItsWay(edits'[k], cardRow')
    <3>1. k \in DOMAIN edits /\ WrittenFrom(edits[k], cardRow') /\ OnItsWay(edits[k], cardRow')
      BY <2>2, <2>7, OthersHold DEF StepOf
    <3>2. CASE k = i
      BY <1>1, <2>2, <2>4, <2>6, <3>2 DEF WrittenFrom, OnItsWay
    <3>3. CASE k # i
      BY <2>2, <3>1, <3>3 DEF StepOf
    <3> QED BY <3>2, <3>3
  <2>15. \A d \in Cardset : cardRow'[d] = Gone \/ IsRow(cardRow'[d])
    BY <2>4, <2>5, <2>6
  <2> QED BY <2>1, <2>6, <2>11, <2>12, <2>13, <2>14, <2>15 DEF CardRowsHold
<1>4. \/ /\ row.version = job.before.version /\ cardRow' = [cardRow EXCEPT ![c] = after]
         /\ completed' = IF Complete(after) /\ ~Complete(row) THEN [completed EXCEPT ![c] = @ + 1] ELSE completed
         /\ StepTo(i, "record", {"at"})
      \/ UNCHANGED <<cardRow, completed>> /\ new.at # "record"
  BY <1>1 DEF WriteDoes, StepTo
<1> QED BY <1>2, <1>3, <1>4

LEMMA RowsFire ==
    ASSUME CardRowsHold, EditsHold, NEW i \in DOMAIN edits, FireDoes(i)
    PROVE  CardRowsHold'
<1>1. PICK job, new, c : job = edits[i] /\ new = edits'[i] /\ c = job.ask.card
  OBVIOUS
<1>2. /\ job.at = "complete" /\ DOMAIN job = EditFields /\ UNCHANGED <<cardRow, completed>> /\ c \in Cardset
      /\ OnItsWay(job, cardRow) /\ StepOf(i, new) /\ new.at = "edges"
      /\ fired' = IF Fires(i) THEN [fired EXCEPT ![c] = @ + 1] ELSE fired
  BY <1>1, RowsOf DEF FireDoes, GoesToEdges, StepTo
<1>3. (Owes(i) <=> Fires(i)) /\ ~Owes(i)'
  BY <1>1, <1>2 DEF Owes, Fires
<1>4. OnCard(i) = c
  BY <1>1 DEF OnCard, CardAsk
<1>5. /\ completed \in [Cardset -> Nat] /\ fired \in [Cardset -> Nat]
      /\ \A d \in Cardset : completed[d] = fired[d] + Cardinality(OwedOn(d))
  BY DEF CardRowsHold
<1> HIDE DEF Owes, OwedOn, OnCard, Fires
<1>6. fired' \in [Cardset -> Nat]
  BY <1>2, <1>5
<1>7. ASSUME NEW d \in Cardset PROVE completed'[d] = fired'[d] + Cardinality(OwedOn(d)')
  <2>1. PICK n, old : n = Cardinality(OwedOn(d)') /\ old = Cardinality(OwedOn(d))
    OBVIOUS
  <2>2. /\ old \in Nat
        /\ d # c => n = old
        /\ d = c /\ ~Owes(i) => n = old
        /\ d = c /\ Owes(i) => n = old - 1
    BY <1>1, <1>2, <1>3, <1>4, <2>1, OwedMoves
  <2>3. fired'[d] = IF d = c /\ Owes(i) THEN fired[d] + 1 ELSE fired[d]
    BY <1>2, <1>3, <1>5
  <2>4. completed[d] = fired[d] + old /\ fired[d] \in Nat /\ completed'[d] = completed[d]
    BY <1>2, <1>5, <2>1
  <2> QED BY <2>1, <2>2, <2>3, <2>4
<1>8. ASSUME NEW k \in DOMAIN edits' PROVE WrittenFrom(edits'[k], cardRow') /\ OnItsWay(edits'[k], cardRow')
  <2>1. CASE k = i
    BY <1>1, <1>2, <2>1 DEF WrittenFrom, OnItsWay, StepOf
  <2>2. CASE k # i
    <3>1. edits'[k] = edits[k] /\ k \in DOMAIN edits
      BY <1>2, <2>2 DEF StepOf
    <3> QED BY <1>2, <3>1 DEF CardRowsHold
  <2> QED BY <2>1, <2>2
<1> QED BY <1>2, <1>5, <1>6, <1>7, <1>8 DEF CardRowsHold

LEMMA RowsKeep ==
    ASSUME CardRowsHold, EditsHold, NEW i \in DOMAIN edits, CardDoes(i)
    PROVE  CardRowsHold'
BY RowsQuiet, RowsSplit, RowsWrite, RowsFire, Zenon DEF CardDoes

-----------------------------------------------------------------------------
(* Edges: as long as no two calls have looked for a cycle at the same time, the  *)
(* one that has looked still closes none with any edge it is to add.             *)

\* A call that has looked and not added everything yet, and what it is to add.
Seeks(job) ==
    /\ job.at \in {"read", "write", "record", "complete", "edges"} /\ AddsOf(job) # <<>>
    /\ job.at = "edges" => job.adds # <<>>
Pending(job) == ToSet(IF job.at = "edges" THEN job.adds ELSE AddsOf(job))
Clear(job, from) == \A on \in Pending(job) : job.ask.card \notin Reaches(from, {on})
SeekHolds(all, from) ==
    /\ \A i, k \in DOMAIN all : Seeks(all[i]) /\ Seeks(all[k]) => i = k
    /\ \A i \in DOMAIN all : Seeks(all[i]) => Clear(all[i], from)
EdgesHold == raced \in BOOLEAN /\ (raced \/ (SeekHolds(edits, edges) /\ Acyclic(edges)))

LEMMA EdgesStart == CardInit => EdgesHold
<1> SUFFICES ASSUME CardInit PROVE EdgesHold
  OBVIOUS
<1>1. PICK scene \in CardScenes : edits = [i \in DOMAIN scene |-> BegunEdit(scene[i])]
  BY DEF CardInit
<1>2. \A i \in DOMAIN edits : ~Seeks(edits[i])
  BY <1>1 DEF BegunEdit, Seeks
<1>3. edges = {} /\ raced = FALSE
  BY DEF CardInit
<1>4. Acyclic(edges)
  BY <1>3 DEF Acyclic
<1> QED BY <1>2, <1>3, <1>4 DEF EdgesHold, SeekHolds

LEMMA PendingCards ==
    ASSUME EditsHold, NEW i \in DOMAIN edits
    PROVE  Pending(edits[i]) \subseteq Cardset
<1>1. PICK job : job = edits[i]
  OBVIOUS
<1>2. IsCardAsk(job.ask) /\ job.adds \in Seq(Cardset)
  BY <1>1 DEF EditsHold, IsEdit
<1>3. AddsOf(job) \in Seq(Cardset)
  BY <1>2 DEF AddsOf, IsCardAsk
<1>4. \A s \in Seq(Cardset) : ToSet(s) \subseteq Cardset
  BY DEF ToSet
<1> QED BY <1>1, <1>2, <1>3, <1>4 DEF Pending

\* A step that neither adds nor looks: its call seeks no more than it did.
SeeksLess(new, job) == Seeks(new) => Seeks(job) /\ Pending(new) \subseteq Pending(job) /\ new.ask = job.ask
LEMMA SeekersLess ==
    ASSUME EditsHold, SeekHolds(edits, edges), NEW i \in DOMAIN edits, StepOf(i, edits'[i]),
           SeeksLess(edits'[i], edits[i]), edges' \subseteq edges
    PROVE  SeekHolds(edits', edges')
<1>1. \A k \in DOMAIN edits : SeeksLess(edits'[k], edits[k])
  BY DEF StepOf, SeeksLess
<1>2. DOMAIN edits' = DOMAIN edits
  BY DEF StepOf
<1>3. ASSUME NEW k \in DOMAIN edits, Seeks(edits'[k]) PROVE Clear(edits'[k], edges')
  <2>1. PICK job, new : job = edits[k] /\ new = edits'[k]
    OBVIOUS
  <2>2. Seeks(job) /\ Pending(new) \subseteq Pending(job) /\ new.ask = job.ask
    BY <1>1, <1>3, <2>1 DEF SeeksLess
  <2>3. Clear(job, edges) /\ Pending(job) \subseteq ToSet(CardIds)
    BY <2>1, <2>2, PendingCards DEF SeekHolds, Cardset
  <2>4. ASSUME NEW on \in Pending(new) PROVE new.ask.card \notin Reaches(edges', {on})
    <3>1. new.ask.card \notin Reaches(edges, {on}) /\ on \in ToSet(CardIds)
      BY <2>2, <2>3 DEF Clear
    <3>2. Reaches(edges', {on}) \subseteq Reaches(edges, {on})
      BY <3>1, ReachesLess
    <3> QED BY <3>1, <3>2
  <2> QED BY <2>1, <2>4 DEF Clear
<1>4. ASSUME NEW j \in DOMAIN edits, NEW k \in DOMAIN edits, Seeks(edits'[j]), Seeks(edits'[k]) PROVE j = k
  <2>1. Seeks(edits[j]) /\ Seeks(edits[k])
    BY <1>1, <1>4 DEF SeeksLess
  <2> QED BY <2>1 DEF SeekHolds
<1> QED BY <1>2, <1>3, <1>4 DEF SeekHolds

LEMMA EdgesQuiet ==
    ASSUME EditsHold, EdgesHold, NEW i \in DOMAIN edits,
           \/ FindDoes(i) \/ ReadDoes(i) \/ WriteDoes(i) \/ RecordDoes(i) \/ FireDoes(i) \/ DoneDoes(i)
           \/ EarlierDoes(i) \/ InsertDoes(i) \/ TellDoes(i) \/ SplitDoes(i) \/ UnlinkDoes(i)
           \/ LooksDoes(i) /\ UNCHANGED raced /\ edits'[i].at = "end"
    PROVE  EdgesHold'
<1>1. PICK job, new : job = edits[i] /\ new = edits'[i]
  OBVIOUS
<1>2. DOMAIN job = EditFields
  BY <1>1 DEF EditsHold, IsEdit
<1>3. /\ StepOf(i, new) /\ new.ask = job.ask /\ UNCHANGED raced /\ edges' \subseteq edges
      /\ \/ new.at \in {"end", "write", "record", "complete", "cycle", "split", "earlier", "comment", "tell"}
         \/ new.at = "read" /\ (AddsOf(job) = <<>> \/ job.at = "write")
         \/ new.at = "edges" /\ new.adds = AddsOf(job) /\ job.at \in {"read", "complete"}
         \/ new.at = "edges" /\ new.adds = <<>>
      /\ new.at = "write" => job.at = "read"
      /\ new.at = "record" => job.at = "write"
      /\ new.at = "complete" => job.at = "record"
  BY <1>1, <1>2 DEF FindDoes, LooksDoes, ReadDoes, WriteDoes, RecordDoes, FireDoes, UnlinkDoes, DoneDoes, EarlierDoes,
     InsertDoes, TellDoes, SplitDoes, GoesToEdges, StepTo, StepOf, SameBut, EditFields
<1>4. AddsOf(new) = AddsOf(job)
  BY <1>3 DEF AddsOf
<1>5. SeeksLess(new, job)
  BY <1>3, <1>4 DEF SeeksLess, Seeks, Pending
<1>6. CASE raced
  BY <1>3, <1>6 DEF EdgesHold
<1>7. CASE ~raced
  <2>1. SeekHolds(edits, edges) /\ Acyclic(edges)
    BY <1>7 DEF EdgesHold
  <2>2. SeekHolds(edits', edges')
    BY <1>1, <1>3, <1>5, <2>1, SeekersLess
  <2>3. Acyclic(edges')
    BY <1>3, <2>1, LessClosesNone
  <2> QED BY <1>3, <2>2, <2>3 DEF EdgesHold
<1> QED BY <1>6, <1>7 DEF EdgesHold

LEMMA EdgesLook ==
    ASSUME EditsHold, EdgesHold, NEW i \in DOMAIN edits, LooksDoes(i)
    PROVE  EdgesHold'
<1>1. CASE UNCHANGED raced /\ edits'[i].at = "end"
  BY <1>1, EdgesQuiet
<1>2. CASE /\ StepTo(i, "read", {"at"})
           /\ \A on \in ToSet(AddsOf(edits[i])) : edits[i].ask.card \notin Reaches(edges, {on})
           /\ raced' = (raced \/ \E k \in DOMAIN edits \ {i} : Looking(k))
  <2>1. PICK job, new : job = edits[i] /\ new = edits'[i]
    OBVIOUS
  <2>2. /\ StepOf(i, new) /\ new.at = "read" /\ new.ask = job.ask /\ UNCHANGED edges
        /\ raced' \in BOOLEAN
    BY <1>2, <2>1 DEF StepTo, StepOf, LooksDoes, EdgesHold
  <2>3. CASE raced'
    BY <2>2, <2>3 DEF EdgesHold
  <2>4. CASE ~raced'
    <3>1. ~raced /\ \A k \in DOMAIN edits \ {i} : ~Looking(k)
      BY <1>2, <2>4
    <3>2. \A k \in DOMAIN edits \ {i} : ~Seeks(edits[k])
      BY <3>1 DEF Looking, Seeks, AddsEdges, AddsOf, DoesTo, CardAsk
    <3>3. Acyclic(edges)
      BY <3>1 DEF EdgesHold
    <3>4. \A k \in DOMAIN edits' : Seeks(edits'[k]) => k = i
      BY <2>2, <3>2 DEF StepOf
    <3>5. Clear(new, edges)
      <4>1. AddsOf(new) = AddsOf(job)
        BY <2>2 DEF AddsOf
      <4> QED BY <1>2, <2>1, <2>2, <4>1 DEF Clear, Pending
    <3>6. SeekHolds(edits', edges')
      BY <2>1, <2>2, <3>4, <3>5 DEF SeekHolds
    <3> QED BY <2>2, <3>3, <3>6 DEF EdgesHold
  <2> QED BY <2>3, <2>4
<1> QED BY <1>1, <1>2 DEF LooksDoes, StepTo

LEMMA EdgesLink ==
    ASSUME EditsHold, EdgesHold, NEW i \in DOMAIN edits, LinkDoes(i)
    PROVE  EdgesHold'
<1>1. CASE raced
  BY <1>1 DEF LinkDoes, EdgesHold
<1>2. CASE ~raced
  <2>1. PICK job, new, t, o : job = edits[i] /\ new = edits'[i] /\ t = job.ask.card /\ o = Head(job.adds)
    OBVIOUS
  <2>2. SeekHolds(edits, edges) /\ Acyclic(edges)
    BY <1>2 DEF EdgesHold
  <2>3. /\ job.at = "edges" /\ job.adds # <<>> /\ job.adds \in Seq(Cardset) /\ AddsOf(job) # <<>> /\ t \in Cardset
    BY <2>1 DEF LinkDoes, EditsHold, IsEdit, IsCardAsk
  <2>4. /\ StepOf(i, new) /\ new.at = "edges" /\ new.ask = job.ask /\ new.adds = Tail(job.adds) /\ UNCHANGED raced
        /\ edges' = edges \cup {<<t, o>>}
    BY <2>1 DEF LinkDoes, StepTo, StepOf
  <2>5. Seeks(job) /\ \A k \in DOMAIN edits : Seeks(edits[k]) => k = i
    <3>1. Seeks(job)
      BY <2>3 DEF Seeks
    <3> QED BY <2>1, <2>2, <3>1 DEF SeekHolds
  <2>6. \A on \in ToSet(job.adds) : t \notin Reaches(edges, {on})
    BY <2>1, <2>2, <2>3, <2>5 DEF SeekHolds, Clear, Pending
  <2>7. o \in ToSet(job.adds) /\ ToSet(Tail(job.adds)) \subseteq ToSet(job.adds) /\ ToSet(job.adds) \subseteq Cardset
    BY <2>1, <2>3 DEF ToSet
  <2>8. t \in ToSet(CardIds) /\ o \in ToSet(CardIds) /\ t \notin Reaches(edges, {o})
    BY <2>3, <2>6, <2>7 DEF Cardset
  <2>9. Acyclic(edges')
    <3>1. Acyclic(edges \cup {<<t, o>>})
      BY <2>2, <2>8, EdgeClosesNone
    <3> QED BY <2>4, <3>1
  <2>10. ASSUME NEW on \in Pending(new) PROVE t \notin Reaches(edges', {on})
    <3>1. on \in ToSet(CardIds) /\ t \notin Reaches(edges, {on})
      BY <2>4, <2>6, <2>7 DEF Pending, Cardset
    <3>2. Reaches(edges \cup {<<t, o>>}, {on}) \subseteq Reaches(edges, {on})
      BY <3>1, ReachesSame
    <3> QED BY <2>4, <3>1, <3>2
  <2>11. Clear(new, edges')
    BY <2>1, <2>4, <2>10 DEF Clear
  <2>12. \A k \in DOMAIN edits' : Seeks(edits'[k]) => k = i
    BY <2>4, <2>5 DEF StepOf
  <2>13. SeekHolds(edits', edges')
    BY <2>1, <2>11, <2>12 DEF SeekHolds
  <2> QED BY <1>2, <2>4, <2>9, <2>13 DEF EdgesHold
<1> QED BY <1>1, <1>2

LEMMA EdgesKeep ==
    ASSUME EditsHold, EdgesHold, NEW i \in DOMAIN edits, CardDoes(i)
    PROVE  EdgesHold'
BY EdgesQuiet, EdgesLook, EdgesLink, Zenon DEF CardDoes

-----------------------------------------------------------------------------
(* Comments: who wrote before a call began is among those it has read, until it  *)
(* has told them.                                                                 *)

Told(i, job, all, written, told) ==
    \A j \in job.past : j \in written /\ all[j].ask.by # job.ask.by =>
        /\ job.at \in {"comment", "tell"} => all[j].ask.by \in job.earlier
        /\ job.at = "end" /\ i \in written => <<all[j].ask.by, i>> \in told
TellHolds(i, job, all, written, told) ==
    /\ \A j \in job.past : all[j].at = "end"
    /\ job.result = "done" => job.at = "end"
    /\ Told(i, job, all, written, told)
WrittenIn(c, all) == ToSet(all[c])
CommentsHold ==
    /\ DOMAIN comments = Cardset /\ \A c \in Cardset : comments[c] \in Seq(DOMAIN edits)
    /\ \A c \in Cardset : \A i \in WrittenIn(c, comments) : edits[i].ask.card = c /\ edits[i].at \in {"tell", "end"}
    /\ \A i \in DOMAIN edits : TellHolds(i, edits[i], edits, WrittenIn(edits[i].ask.card, comments), heard)

LEMMA CommentsStart == CardInit => CommentsHold
<1> SUFFICES ASSUME CardInit PROVE CommentsHold
  OBVIOUS
<1>1. PICK scene \in CardScenes : edits = [i \in DOMAIN scene |-> BegunEdit(scene[i])]
  BY DEF CardInit
<1>2. \A i \in DOMAIN edits : edits[i].past = {} /\ edits[i].result = "none"
  BY <1>1 DEF BegunEdit
<1>3. \A i \in DOMAIN edits : TellHolds(i, edits[i], edits, WrittenIn(edits[i].ask.card, comments), heard)
  BY <1>2 DEF TellHolds, Told
<1>4. comments = [c \in Cardset |-> <<>>]
  BY DEF CardInit, Cardset
<1>5. <<>> \in Seq(DOMAIN edits) /\ ToSet(<<>>) = {}
  BY DEF ToSet
<1>6. \A c \in Cardset : WrittenIn(c, comments) = {}
  BY <1>4, <1>5 DEF WrittenIn
<1> QED BY <1>3, <1>4, <1>5, <1>6 DEF CommentsHold

\* A step of a call adds at most its own comment, and at most tells.
Writes(i, new) ==
    /\ DOMAIN comments' = DOMAIN comments /\ heard \subseteq heard' /\ new.past \subseteq DOMAIN edits
    /\ \A c \in Cardset : /\ comments'[c] \in Seq(DOMAIN edits)
                          /\ \/ WrittenIn(c, comments') = WrittenIn(c, comments)
                             \/ WrittenIn(c, comments') = WrittenIn(c, comments) \cup {i} /\ c = new.ask.card /\ new.at = "tell"
LEMMA CommentsStep ==
    ASSUME EditsHold, CommentsHold, NEW i \in DOMAIN edits, NEW new, StepOf(i, new), Writes(i, new),
           edits[i].at = "tell" => new.at = "end",
           TellHolds(i, new, edits, WrittenIn(new.ask.card, comments'), heard')
    PROVE  CommentsHold'
<1>1. PICK job : job = edits[i]
  OBVIOUS
<1>2. /\ DOMAIN edits' = DOMAIN edits /\ edits'[i] = new /\ new.ask = job.ask /\ job.at # "end"
      /\ \A k \in DOMAIN edits : k # i => edits'[k] = edits[k]
  BY <1>1 DEF StepOf
<1>3. \A k \in DOMAIN edits : edits'[k].ask = edits[k].ask /\ edits[k].past \subseteq DOMAIN edits
  BY <1>1, <1>2 DEF EditsHold, IsEdit
<1>4. \A k \in DOMAIN edits : edits[k].ask.card \in Cardset
  BY DEF EditsHold, IsEdit, IsCardAsk
<1>5. \A k \in DOMAIN edits : edits[k].at = "end" => k # i /\ edits'[k] = edits[k]
  BY <1>1, <1>2
<1>6. ASSUME NEW k \in DOMAIN edits, k # i
      PROVE  TellHolds(k, edits'[k], edits', WrittenIn(edits'[k].ask.card, comments'), heard')
  <2>1. PICK other, was, now : other = edits[k] /\ was = WrittenIn(other.ask.card, comments) /\ now = WrittenIn(other.ask.card, comments')
    OBVIOUS
  <2>2. edits'[k] = other /\ TellHolds(k, other, edits, was, heard)
    BY <1>2, <1>6, <2>1 DEF CommentsHold
  <2>3. now = was \/ now = was \cup {i}
    BY <1>4, <2>1 DEF Writes
  <2>4. \A j \in other.past : edits[j].at = "end" /\ j \in DOMAIN edits
    BY <1>3, <2>1, <2>2 DEF TellHolds
  <2>5. \A j \in other.past : edits'[j] = edits[j] /\ j # i
    BY <1>5, <2>4
  <2>6. heard \subseteq heard'
    BY DEF Writes
  <2>7. Told(k, other, edits', now, heard')
    BY <1>6, <2>2, <2>3, <2>5, <2>6 DEF TellHolds, Told
  <2>8. WrittenIn(edits'[k].ask.card, comments') = now
    BY <2>1, <2>2
  <2> QED BY <2>2, <2>4, <2>5, <2>7, <2>8 DEF TellHolds
<1>7. TellHolds(i, edits'[i], edits', WrittenIn(edits'[i].ask.card, comments'), heard')
  <2>1. PICK now : now = WrittenIn(new.ask.card, comments')
    OBVIOUS
  <2>2. \A j \in new.past : edits[j].at = "end"
    BY DEF TellHolds
  <2>3. ASSUME NEW j \in new.past PROVE edits'[j].at = "end" /\ edits'[j].ask = edits[j].ask
    BY <1>2, <1>3, <1>5, <2>2, <2>3 DEF Writes
  <2> QED BY <1>2, <2>1, <2>3 DEF TellHolds, Told
<1>8. ASSUME NEW c \in Cardset, NEW k \in WrittenIn(c, comments')
      PROVE  edits'[k].ask.card = c /\ edits'[k].at \in {"tell", "end"}
  <2>1. CASE k \in WrittenIn(c, comments)
    <3>1. edits[k].ask.card = c /\ edits[k].at \in {"tell", "end"}
      BY <2>1 DEF CommentsHold
    <3>2. k \in DOMAIN edits
      <4>1. comments[c] \in Seq(DOMAIN edits)
        BY DEF CommentsHold
      <4> QED BY <2>1, <4>1 DEF WrittenIn, ToSet
    <3> QED BY <1>1, <1>2, <3>1, <3>2
  <2>2. CASE k \notin WrittenIn(c, comments)
    BY <1>2, <1>8, <2>2 DEF Writes
  <2> QED BY <2>1, <2>2
<1>9. DOMAIN comments' = Cardset /\ \A c \in Cardset : comments'[c] \in Seq(DOMAIN edits')
  BY <1>2 DEF CommentsHold, Writes
<1>10. \A k \in DOMAIN edits' : TellHolds(k, edits'[k], edits', WrittenIn(edits'[k].ask.card, comments'), heard')
  BY <1>2, <1>6, <1>7
<1> QED BY <1>8, <1>9, <1>10 DEF CommentsHold

LEMMA CommentsOf ==
    ASSUME EditsHold, CommentsHold, NEW i \in DOMAIN edits
    PROVE  /\ DOMAIN edits[i] = EditFields /\ edits[i].ask.card \in Cardset /\ edits[i].ask.by # NoOwner
           /\ edits[i].past \subseteq DOMAIN edits
           /\ TellHolds(i, edits[i], edits, WrittenIn(edits[i].ask.card, comments), heard)
           /\ edits[i].at \notin {"tell", "end"} => i \notin WrittenIn(edits[i].ask.card, comments)
  BY DEF CommentsHold, EditsHold, IsEdit, IsCardAsk

LEMMA CommentsQuiet ==
    ASSUME EditsHold, CommentsHold, NEW i \in DOMAIN edits,
           \/ FindDoes(i) \/ LooksDoes(i) \/ ReadDoes(i) \/ WriteDoes(i) \/ RecordDoes(i) \/ FireDoes(i)
           \/ LinkDoes(i) \/ UnlinkDoes(i) \/ DoneDoes(i) \/ EarlierDoes(i) \/ SplitDoes(i)
    PROVE  CommentsHold'
<1>1. PICK job, new, written : job = edits[i] /\ new = edits'[i] /\ written = WrittenIn(job.ask.card, comments)
  OBVIOUS
<1>2. /\ DOMAIN job = EditFields /\ job.ask.card \in Cardset
      /\ TellHolds(i, job, edits, written, heard) /\ job.past \subseteq DOMAIN edits
      /\ job.at \notin {"tell", "end"} => i \notin written
  BY <1>1, CommentsOf
<1>3. /\ StepOf(i, new) /\ new.ask = job.ask /\ UNCHANGED <<comments, heard>> /\ job.at \notin {"tell", "end", "comment"}
      /\ new.past = job.past \/ new.past = {k \in DOMAIN edits : edits[k].at = "end"}
      /\ new.at # "end" => new.result = job.result
      /\ new.at \in {"comment", "tell"} => /\ new.past = job.past
                                           /\ new.earlier = {edits[j].ask.by : j \in ToSet(comments[job.ask.card])}
  BY <1>1, <1>2 DEF FindDoes, LooksDoes, ReadDoes, WriteDoes, RecordDoes, FireDoes, LinkDoes, UnlinkDoes, DoneDoes,
     EarlierDoes, SplitDoes, GoesToEdges, StepTo, StepOf, SameBut, EditFields
<1>4. \A j \in new.past : edits[j].at = "end"
  BY <1>2, <1>3 DEF TellHolds
<1>5. new.result = "done" => new.at = "end"
  BY <1>2, <1>3 DEF TellHolds
<1>6. new.at \in {"comment", "tell"} => \A j \in written : edits[j].ask.by \in new.earlier
  BY <1>1, <1>3 DEF WrittenIn
<1>7. Told(i, new, edits, written, heard)
  BY <1>2, <1>3, <1>6 DEF Told
<1>8. TellHolds(i, new, edits, written, heard)
  BY <1>4, <1>5, <1>7 DEF TellHolds
<1>9. WrittenIn(new.ask.card, comments') = written /\ heard' = heard
  BY <1>1, <1>3 DEF WrittenIn
<1>10. Writes(i, new)
  BY <1>2, <1>3 DEF Writes, WrittenIn, CommentsHold
<1> QED BY <1>1, <1>3, <1>8, <1>9, <1>10, CommentsStep

LEMMA CommentsInsert ==
    ASSUME EditsHold, CommentsHold, NEW i \in DOMAIN edits, InsertDoes(i)
    PROVE  CommentsHold'
<1>1. PICK job, new, c, was : job = edits[i] /\ new = edits'[i] /\ c = job.ask.card /\ was = comments[c]
  OBVIOUS
<1>2. /\ DOMAIN job = EditFields /\ c \in Cardset /\ TellHolds(i, job, edits, WrittenIn(c, comments), heard)
      /\ job.past \subseteq DOMAIN edits
  BY <1>1, CommentsOf
<1>3. /\ StepOf(i, new) /\ new.ask = job.ask /\ job.at = "comment" /\ new.at = "tell" /\ UNCHANGED heard
      /\ new.past = job.past /\ new.result = job.result /\ new.earlier = job.earlier
      /\ comments' = [comments EXCEPT ![c] = Append(was, i)]
  BY <1>1, <1>2 DEF InsertDoes, StepTo, StepOf, SameBut, EditFields
<1>4. DOMAIN comments = Cardset /\ \A d \in Cardset : comments[d] \in Seq(DOMAIN edits)
  BY DEF CommentsHold
<1>5. DOMAIN comments' = Cardset /\ comments'[c] = Append(was, i) /\ \A d \in Cardset : d # c => comments'[d] = comments[d]
  BY <1>2, <1>3, <1>4
<1>6. was \in Seq(DOMAIN edits) /\ Append(was, i) \in Seq(DOMAIN edits)
  BY <1>1, <1>2, <1>4
<1>7. ToSet(Append(was, i)) = ToSet(was) \cup {i}
  <2>1. PICK more : more = Append(was, i)
    OBVIOUS
  <2>2. /\ DOMAIN more = 1 .. (Len(was) + 1) /\ DOMAIN was = 1 .. Len(was) /\ Len(was) \in Nat
        /\ more[Len(was) + 1] = i /\ \A n \in 1 .. Len(was) : more[n] = was[n]
    BY <1>6, <2>1
  <2>3. \A n \in DOMAIN more : n \in 1 .. Len(was) \/ n = Len(was) + 1
    BY <2>2
  <2>4. Len(was) + 1 \in DOMAIN more /\ \A n \in 1 .. Len(was) : n \in DOMAIN more
    BY <2>2
  <2>5. ASSUME NEW x PROVE x \in ToSet(more) <=> x \in ToSet(was) \cup {i}
    BY <2>2, <2>3, <2>4 DEF ToSet
  <2> QED BY <2>1, <2>5
<1>8. WrittenIn(c, comments') = WrittenIn(c, comments) \cup {i} /\ \A d \in Cardset : d # c => WrittenIn(d, comments') = WrittenIn(d, comments)
  BY <1>1, <1>5, <1>7 DEF WrittenIn
<1>9. Writes(i, new)
  BY <1>1, <1>2, <1>3, <1>4, <1>5, <1>6, <1>8 DEF Writes
<1>10. i \notin job.past
  BY <1>1, <1>2, <1>3 DEF TellHolds
<1>11. TellHolds(i, new, edits, WrittenIn(c, comments) \cup {i}, heard)
  BY <1>2, <1>3, <1>10 DEF TellHolds, Told
<1>12. TellHolds(i, new, edits, WrittenIn(new.ask.card, comments'), heard')
  BY <1>1, <1>3, <1>8, <1>11
<1> QED BY <1>1, <1>3, <1>9, <1>12, CommentsStep

LEMMA CommentsTell ==
    ASSUME EditsHold, CommentsHold, NEW i \in DOMAIN edits, TellDoes(i)
    PROVE  CommentsHold'
<1>1. PICK job, new, written : job = edits[i] /\ new = edits'[i] /\ written = WrittenIn(job.ask.card, comments)
  OBVIOUS
<1>2. /\ DOMAIN job = EditFields /\ job.ask.card \in Cardset
      /\ TellHolds(i, job, edits, written, heard) /\ job.past \subseteq DOMAIN edits
  BY <1>1, CommentsOf
<1>3. /\ StepOf(i, new) /\ new.ask = job.ask /\ job.at = "tell" /\ new.at = "end" /\ UNCHANGED comments
      /\ new.past = job.past /\ heard' = heard \cup {<<who, i>> : who \in Audience(i)}
  BY <1>1, <1>2 DEF TellDoes, StepTo, StepOf, SameBut, EditFields
<1>4. WrittenIn(new.ask.card, comments') = written /\ heard \subseteq heard'
  BY <1>1, <1>3 DEF WrittenIn
<1>5. Writes(i, new)
  BY <1>2, <1>3, <1>4 DEF Writes, WrittenIn, CommentsHold
<1>6. ASSUME NEW j \in new.past, j \in written, edits[j].ask.by # new.ask.by
      PROVE  <<edits[j].ask.by, i>> \in heard'
  <2>1. edits[j].ask.by \in job.earlier
    BY <1>2, <1>3, <1>6 DEF TellHolds, Told
  <2>2. j \in DOMAIN edits
    BY <1>1, <1>3, <1>6 DEF EditsHold, IsEdit
  <2>3. edits[j].ask.by # NoOwner
    BY <2>2, CommentsOf
  <2>4. edits[j].ask.by \in Audience(i)
    BY <1>1, <1>3, <1>6, <2>1, <2>3 DEF Audience, CardAsk
  <2> QED BY <1>3, <2>4
<1>7. TellHolds(i, new, edits, written, heard')
  BY <1>2, <1>3, <1>6 DEF TellHolds, Told
<1>8. TellHolds(i, new, edits, WrittenIn(new.ask.card, comments'), heard')
  BY <1>4, <1>7
<1> QED BY <1>1, <1>3, <1>5, <1>8, CommentsStep

LEMMA CommentsKeep ==
    ASSUME EditsHold, CommentsHold, NEW i \in DOMAIN edits, CardDoes(i)
    PROVE  CommentsHold'
BY CommentsQuiet, CommentsInsert, CommentsTell, Zenon DEF CardDoes

-----------------------------------------------------------------------------
(* The calls on cards together.                                                   *)

CardInv == EditsHold /\ CardRowsHold /\ EdgesHold /\ CommentsHold
LEMMA CardInvStart == CardInit => CardInv
BY EditsStart, RowsStart, EdgesStart, CommentsStart, Zenon DEF CardInv
LEMMA CardInvStep == CardInv /\ CardNext => CardInv'
<1> SUFFICES ASSUME CardInv, CardNext PROVE CardInv'
  OBVIOUS
<1>1. EditsHold /\ CardRowsHold /\ EdgesHold /\ CommentsHold
  BY Zenon DEF CardInv
<1>2. PICK i \in DOMAIN edits : CardEdit(i)
  BY Zenon DEF CardNext
<1>3. CardDoes(i)
  BY <1>1, <1>2, CardStepIs, Zenon
<1> QED BY <1>1, <1>3, EditsKeep, RowsKeep, EdgesKeep, CommentsKeep, Zenon DEF CardInv
LEMMA CardInvStutter == CardInv /\ UNCHANGED cardVars => CardInv'
<1> SUFFICES ASSUME CardInv, UNCHANGED cardVars PROVE CardInv'
  OBVIOUS
<1>1. /\ cardRow' = cardRow /\ edges' = edges /\ comments' = comments /\ heard' = heard /\ fired' = fired
      /\ completed' = completed /\ raced' = raced /\ edits' = edits
  BY DEF cardVars
<1>2. EditsHold' /\ EdgesHold'
  BY <1>1 DEF CardInv, EditsHold, EdgesHold
<1>3. CommentsHold'
  BY <1>1 DEF CardInv, CommentsHold
<1>4. CardRowsHold'
  <2>1. ASSUME NEW i PROVE AfterEdit(i)' = AfterEdit(i)
    BY <1>1, AfterEditSame
  <2>2. ASSUME NEW i PROVE Owes(i)' <=> Owes(i)
    <3>1. Complete(AfterEdit(i))' <=> Complete(AfterEdit(i))
      <4> HIDE DEF AfterEdit
      <4> QED BY <2>1 DEF Complete
    <3>2. Complete(edits[i].before)' <=> Complete(edits[i].before)
      BY <1>1 DEF Complete
    <3> QED BY <1>1, <3>1, <3>2 DEF Owes
  <2>3. ASSUME NEW c PROVE OwedOn(c)' = OwedOn(c)
    <3>1. \A i : OnCard(i)' = OnCard(i)
      BY <1>1 DEF OnCard, CardAsk
    <3> HIDE DEF OnCard, Owes
    <3> QED BY <1>1, <2>2, <3>1 DEF OwedOn
  <2> QED BY <1>1, <2>3 DEF CardInv, CardRowsHold
<1> QED BY <1>2, <1>3, <1>4 DEF CardInv

LEMMA CardInvFires == CardInv => CompletionFiresOnce
<1> SUFFICES ASSUME CardInv PROVE CompletionFiresOnce
  OBVIOUS
<1>1. ASSUME NEW c \in Cardset
      PROVE  OwedOn(c) = {i \in DOMAIN edits :
               OnCard(i) = c /\ edits[i].at \in {"record", "complete"}
                 /\ Complete(AfterEdit(i)) /\ ~Complete(edits[i].before)}
  BY DEF OwedOn, Owes
<1>2. ASSUME NEW c \in Cardset
      PROVE  completed[c] = fired[c] + Cardinality({i \in DOMAIN edits :
               OnCard(i) = c /\ edits[i].at \in {"record", "complete"}
                 /\ Complete(AfterEdit(i)) /\ ~Complete(edits[i].before)})
  <2>1. completed[c] = fired[c] + Cardinality(OwedOn(c))
    BY DEF CardInv, CardRowsHold
  <2> HIDE DEF OwedOn
  <2> QED BY <1>1, <2>1
<1> HIDE DEF OnCard, Complete, AfterEdit
<1> QED BY <1>2 DEF CompletionFiresOnce, Quantify, Cardset

LEMMA CardInvCycles == CardInv => OnlyARaceClosesACycle
BY DEF CardInv, EdgesHold, Acyclic, OnlyARaceClosesACycle

LEMMA CardInvTells == CardInv => CommentReachesItsPeople
<1> SUFFICES ASSUME CardInv, NEW i \in DOMAIN edits, NEW j \in edits[i].past, edits[i].result = "done",
                    i \in ToSet(comments[OnCard(i)]), OnCard(j) = OnCard(i), j \in ToSet(comments[OnCard(j)]),
                    CardAsk(j).by # CardAsk(i).by
             PROVE  <<CardAsk(j).by, i>> \in heard
  BY DEF CommentReachesItsPeople
<1>1. TellHolds(i, edits[i], edits, WrittenIn(edits[i].ask.card, comments), heard)
  BY DEF CardInv, CommentsHold
<1> QED BY <1>1 DEF TellHolds, Told, WrittenIn, OnCard, CardAsk

\* However the reads and writes of the calls on a card interleave: an automation of a finished checklist runs once
\* for every time a write finished it (fire_complete of board/service.rs), no dependency closes a cycle unless two
\* calls looked for one at the same time (check_dependency and then add_dependency), and a comment reaches everybody
\* whose own comment was there when the call began (comment_at).
THEOREM CardCallsHoldAlways == CardSpec => []CardCallsHold
<1>1. CardInit => CardInv
  BY CardInvStart
<1>2. CardInv /\ [CardNext]_cardVars => CardInv'
  BY CardInvStep, CardInvStutter
<1>3. CardInv => CardCallsHold
  BY CardInvFires, CardInvCycles, CardInvTells DEF CardCallsHold
<1> QED BY <1>1, <1>2, <1>3, PTL DEF CardSpec
=============================================================================
