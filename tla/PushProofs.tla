----------------------------- MODULE PushProofs -----------------------------
(***************************************************************************)
(* What holds of Push for any number of messages and readers, any capacity *)
(* of the hub and any faults: what is typed is typed once and in the order *)
(* of the broadcast, and what is called delivered was typed.               *)
(***************************************************************************)
EXTENDS Push, SiftProofs, TLAPS

-----------------------------------------------------------------------------
(* The way of a message: queue, channel, injector, terminal                  *)

\* a was broadcast before b; s is in the order of the broadcast; all of s was
\* broadcast before all of t; s is among the first n messages broadcast.
Before(pub, a, b) ==
    \E k, l \in DOMAIN pub : k < l /\ pub[k] = a /\ pub[l] = b
InOrder(pub, s) == \A i, j \in DOMAIN s : i < j => Before(pub, s[i], s[j])
AllBefore(pub, s, t) == \A i \in DOMAIN s, j \in DOMAIN t : Before(pub, s[i], t[j])
Among(pub, s, n) == \A i \in DOMAIN s : \E k \in 1 .. n : s[i] = pub[k]

\* A message goes from the queue q through the channel c and the injector's hands
\* h to the terminal t, and none overtakes another in any of them or between them.
Whole(pub, s, n) == Among(pub, s, n) /\ InOrder(pub, s)
Path(pub, t, h, c, q, n) ==
    /\ Whole(pub, t, n) /\ Whole(pub, h, n) /\ Whole(pub, q, n)
    /\ AllBefore(pub, t, h) /\ AllBefore(pub, t, q) /\ AllBefore(pub, h, q)
    /\ \A k \in DOMAIN c :
         /\ Whole(pub, c[k], n)
         /\ AllBefore(pub, t, c[k]) /\ AllBefore(pub, h, c[k]) /\ AllBefore(pub, c[k], q)
    /\ \A k, l \in DOMAIN c : k < l => AllBefore(pub, c[k], c[l])

\* The queue is handed over: it is the last of the channel.
LEMMA PathHandOver ==
    ASSUME NEW S, NEW pub, NEW t, NEW h, NEW c \in Seq(S), NEW q \in S, NEW n,
           Path(pub, t, h, c, q, n)
    PROVE  Path(pub, t, h, Append(c, q), <<>>, n)
<1> DEFINE d == Append(c, q)
<1>1. /\ DOMAIN d = 1 .. (Len(c) + 1) /\ DOMAIN c = 1 .. Len(c) /\ Len(c) \in Nat
      /\ \A k \in DOMAIN c : d[k] = c[k]
      /\ d[Len(c) + 1] = q
  OBVIOUS
<1>2. \A k \in DOMAIN d : k \in DOMAIN c \/ k = Len(c) + 1
  BY <1>1
<1>3. \A k, l \in DOMAIN d : k < l => k \in DOMAIN c
  BY <1>1
<1> HIDE DEF d
<1>4. /\ Whole(pub, <<>>, n)
      /\ \A s : AllBefore(pub, s, <<>>)
  <2>1. DOMAIN <<>> = {}
    OBVIOUS
  <2> QED
    BY <2>1 DEF Whole, Among, InOrder, AllBefore
<1>5. \A k \in DOMAIN d :
         Whole(pub, d[k], n) /\ AllBefore(pub, t, d[k]) /\ AllBefore(pub, h, d[k])
  BY <1>1, <1>2 DEF Path
<1>6. \A k, l \in DOMAIN d : k < l => AllBefore(pub, d[k], d[l])
  BY <1>1, <1>2, <1>3 DEF Path
<1> QED
  BY <1>4, <1>5, <1>6 DEF Path, d

\* The injector takes the first of the channel.
LEMMA PathTake ==
    ASSUME NEW S, NEW pub, NEW t, NEW c \in Seq(S), c # <<>>, NEW q, NEW n,
           Path(pub, t, <<>>, c, q, n)
    PROVE  Path(pub, t, Head(c), Tail(c), q, n)
<1> DEFINE d == Tail(c)
<1>1. /\ DOMAIN c = 1 .. Len(c) /\ Len(c) \in Nat \ {0} /\ DOMAIN d = 1 .. (Len(c) - 1)
      /\ Head(c) = c[1] /\ \A k \in DOMAIN d : d[k] = c[k + 1]
  OBVIOUS
<1>2. 1 \in DOMAIN c /\ \A k \in DOMAIN d : k + 1 \in DOMAIN c /\ 1 < k + 1
  BY <1>1
<1>3. \A k, l \in DOMAIN d : k < l => k + 1 < l + 1
  BY <1>1
<1> HIDE DEF d
<1>4. \A k \in DOMAIN d :
         /\ Whole(pub, d[k], n)
         /\ AllBefore(pub, t, d[k]) /\ AllBefore(pub, c[1], d[k]) /\ AllBefore(pub, d[k], q)
  BY <1>1, <1>2 DEF Path
<1>5. \A k, l \in DOMAIN d : k < l => AllBefore(pub, d[k], d[l])
  BY <1>1, <1>2, <1>3 DEF Path
<1> QED
  BY <1>1, <1>2, <1>4, <1>5 DEF Path, d

\* The injector drops what it holds.
LEMMA PathSkip ==
    ASSUME NEW pub, NEW t, NEW h, NEW c, NEW q, NEW n, Path(pub, t, h, c, q, n)
    PROVE  Path(pub, t, <<>>, c, q, n)
<1>1. DOMAIN <<>> = {}
  OBVIOUS
<1>2. Whole(pub, <<>>, n) /\ \A s : AllBefore(pub, s, <<>>) /\ AllBefore(pub, <<>>, s)
  BY <1>1 DEF Whole, Among, InOrder, AllBefore
<1> QED
  BY <1>2 DEF Path

\* The injector types what it holds.
LEMMA PathType ==
    ASSUME NEW S, NEW pub, NEW t \in Seq(S), NEW h \in Seq(S), NEW c, NEW q, NEW n,
           Path(pub, t, h, c, q, n)
    PROVE  Path(pub, t \o h, <<>>, c, q, n)
<1> DEFINE u == t \o h
<1>1. /\ DOMAIN u = 1 .. (Len(t) + Len(h)) /\ Len(t) \in Nat /\ Len(h) \in Nat
      /\ DOMAIN t = 1 .. Len(t) /\ DOMAIN h = 1 .. Len(h)
      /\ \A i \in DOMAIN u : u[i] = IF i =< Len(t) THEN t[i] ELSE h[i - Len(t)]
  OBVIOUS
<1>2. \A i \in DOMAIN u : \/ i \in DOMAIN t /\ u[i] = t[i]
                          \/ i - Len(t) \in DOMAIN h /\ u[i] = h[i - Len(t)]
  BY <1>1
<1>3. \A i, j \in DOMAIN u : i < j =>
         \/ i \in DOMAIN t /\ j \in DOMAIN t /\ u[i] = t[i] /\ u[j] = t[j]
         \/ i \in DOMAIN t /\ j - Len(t) \in DOMAIN h /\ u[i] = t[i] /\ u[j] = h[j - Len(t)]
         \/ /\ i - Len(t) \in DOMAIN h /\ j - Len(t) \in DOMAIN h /\ i - Len(t) < j - Len(t)
            /\ u[i] = h[i - Len(t)] /\ u[j] = h[j - Len(t)]
  BY <1>1
<1> HIDE DEF u
<1>4. \A s : AllBefore(pub, t, s) /\ AllBefore(pub, h, s) => AllBefore(pub, u, s)
  BY <1>2 DEF AllBefore
<1>5. Among(pub, u, n)
  BY <1>2 DEF Path, Whole, Among
<1>6. InOrder(pub, u)
  <2>1. InOrder(pub, t) /\ InOrder(pub, h) /\ AllBefore(pub, t, h)
    BY DEF Path, Whole
  <2> QED
    BY <1>3, <2>1 DEF InOrder, AllBefore
<1>7. Path(pub, t, <<>>, c, q, n)
  BY PathSkip
<1>8. DOMAIN <<>> = {}
  OBVIOUS
<1>9. AllBefore(pub, u, <<>>)
  BY <1>8 DEF AllBefore
<1> QED
  BY <1>4, <1>5, <1>6, <1>7, <1>9 DEF Path, Whole, u

\* Messages leave the queue, those that stay keep their order.
LEMMA PathThin ==
    ASSUME NEW S, NEW pub, NEW t, NEW h, NEW c, NEW q \in Seq(S), NEW r, NEW n,
           Path(pub, t, h, c, q, n), Thinned(r, q, Len(q))
    PROVE  Path(pub, t, h, c, r, n)
<1>1. DOMAIN q = 1 .. Len(q)
  OBVIOUS
<1>2. \A s : AllBefore(pub, s, q) => AllBefore(pub, s, r)
  BY <1>1 DEF Thinned, AllBefore
<1>3. Among(pub, r, n)
  BY <1>1 DEF Thinned, Path, Whole, Among
<1>4. InOrder(pub, r)
  BY <1>1 DEF Thinned, Path, Whole, InOrder
<1> QED
  BY <1>2, <1>3, <1>4 DEF Path, Whole

\* The hub task hears a message, and one more is broadcast.
LEMMA PathHear ==
    ASSUME NEW pub, NEW t, NEW h, NEW c, NEW q, NEW n \in Nat, Path(pub, t, h, c, q, n),
           NEW k \in Nat, n =< k
    PROVE  Path(pub, t, h, c, q, k)
<1>1. \A i \in 1 .. n : i \in 1 .. k
  OBVIOUS
<1>2. \A s : Among(pub, s, n) => Among(pub, s, k)
  BY <1>1 DEF Among
<1> QED
  BY <1>2 DEF Path, Whole

LEMMA PathPublish ==
    ASSUME NEW S, NEW pub \in Seq(S), NEW t, NEW h, NEW c, NEW q, NEW n \in 0 .. Len(pub),
           Path(pub, t, h, c, q, n), NEW m \in S
    PROVE  Path(Append(pub, m), t, h, c, q, n)
<1> DEFINE new == Append(pub, m)
<1>1. /\ DOMAIN new = 1 .. (Len(pub) + 1) /\ DOMAIN pub = 1 .. Len(pub) /\ Len(pub) \in Nat
      /\ \A k \in DOMAIN pub : new[k] = pub[k]
  OBVIOUS
<1>2. \A k \in DOMAIN pub : k \in DOMAIN new
  BY <1>1
<1>3. \A k \in 1 .. n : new[k] = pub[k]
  BY <1>1
<1> HIDE DEF new
<1>4. \A a, b : Before(pub, a, b) => Before(new, a, b)
  BY <1>1, <1>2 DEF Before
<1>5. \A s : Whole(pub, s, n) => Whole(new, s, n)
  BY <1>3, <1>4 DEF Whole, Among, InOrder
<1>6. \A r, s : AllBefore(pub, r, s) => AllBefore(new, r, s)
  BY <1>4 DEF AllBefore
<1> QED
  BY <1>5, <1>6 DEF Path, new

\* The message heard joins the queue, behind all that was heard before it.
LEMMA PathEnqueue ==
    ASSUME NEW S, NEW pub \in Seq(S), NEW t, NEW h, NEW c, NEW q \in Seq(S),
           NEW n \in Nat, n + 1 \in DOMAIN pub, Path(pub, t, h, c, q, n)
    PROVE  Path(pub, t, h, c, Append(q, pub[n + 1]), n + 1)
<1> DEFINE r == Append(q, pub[n + 1])
<1>1. /\ DOMAIN r = 1 .. (Len(q) + 1) /\ DOMAIN q = 1 .. Len(q) /\ Len(q) \in Nat
      /\ \A i \in DOMAIN q : r[i] = q[i]
      /\ r[Len(q) + 1] = pub[n + 1]
      /\ DOMAIN pub = 1 .. Len(pub)
  OBVIOUS
<1>2. /\ \A i \in DOMAIN r : i \in DOMAIN q \/ i = Len(q) + 1
      /\ \A i, j \in DOMAIN r : i < j => i \in DOMAIN q
      /\ \A k \in 1 .. n : k \in DOMAIN pub /\ k < n + 1
      /\ \A k \in 1 .. n : k \in 1 .. (n + 1)
      /\ n + 1 \in 1 .. (n + 1)
  BY <1>1
<1> HIDE DEF r
<1>3. \A s : Among(pub, s, n) =>
        \A i \in DOMAIN s : Before(pub, s[i], pub[n + 1])
  BY <1>2 DEF Among, Before
<1>4. \A s : Among(pub, s, n) /\ AllBefore(pub, s, q) => AllBefore(pub, s, r)
  BY <1>1, <1>2, <1>3 DEF AllBefore
<1>5. Path(pub, t, h, c, q, n + 1)
  BY PathHear
<1>6. Among(pub, q, n) /\ InOrder(pub, q)
  BY DEF Path, Whole
<1>7. Among(pub, r, n + 1)
  BY <1>1, <1>2, <1>6 DEF Among
<1>8. InOrder(pub, r)
  BY <1>1, <1>2, <1>3, <1>6 DEF InOrder
<1> QED
  BY <1>4, <1>5, <1>7, <1>8 DEF Path, Whole, r

-----------------------------------------------------------------------------
(* The invariant                                                             *)

\* How much of the broadcast the hub task has handed to the queue, and what the
\* injector is about to type.
Handled == IF hubTask = "resolving" THEN heard - 1 ELSE heard
ToType == IF injector.pc = "typing" THEN injector.items ELSE <<>>

HubInv ==
    /\ \A k, l \in DOMAIN published : published[k] = published[l] => k = l
    /\ hubTask = "resolving" => heard > 0
    /\ injector.pc # "idle" => injector.items # <<>>
    /\ \A n \in DOMAIN tx : tx[n] # <<>>

PathInv == Path(published, terminal, ToType, tx, pending, Handled)

\* What the injector calls delivered, or saw called so, was typed.
SavingInv ==
    /\ injector.pc \in {"reading", "saving"} /\ injector.ok =>
         \A i \in DOMAIN injector.items : injector.items[i] \in ToSet(terminal)
    /\ injector.pc = "saving" /\ injector.seen = "delivered" =>
         Head(injector.items) \in ToSet(terminal)
    /\ DeliveredWasTyped

PushInv == TypeOK /\ HubInv /\ PathInv /\ SavingInv

-----------------------------------------------------------------------------
(* Every step keeps it                                                       *)

\* Ready() after p, with what was handed out so far, took the place of the queue.
LEMMA ReadyKeeps ==
    ASSUME TypeOK, HubInv, NEW p \in Seq(Messages), NEW v \in Views, Ready(p, v),
           Path(published, terminal, ToType, tx, p, Handled'),
           UNCHANGED <<published, injector, terminal>>
    PROVE  /\ PathInv'
           /\ pending' \in Seq(Messages) /\ view' \in Views /\ rested' \in BOOLEAN
           /\ tx' \in Seq(Seq(Messages)) /\ \A n \in DOMAIN tx' : tx'[n] # <<>>
<1>1. ToType' = ToType
  BY DEF ToType
<1>2. tx \in Seq(Seq(Messages)) /\ rested \in BOOLEAN /\ \A n \in DOMAIN tx : tx[n] # <<>>
  BY DEF TypeOK, HubInv
<1> HIDE DEF ToType, Handled
<1>3. CASE p # <<>> /\ v = "idle" /\ rested
  <2>1. pending' = <<>> /\ view' = "busy" /\ rested' = FALSE /\ tx' = Append(tx, p)
    BY <1>3 DEF Ready
  <2>2. Path(published, terminal, ToType, Append(tx, p), <<>>, Handled')
    BY <1>2, PathHandOver
  <2>3. PathInv'
    BY <1>1, <2>1, <2>2 DEF PathInv
  <2>4. \A n \in DOMAIN Append(tx, p) : Append(tx, p)[n] # <<>>
    BY <1>2, <1>3
  <2>5. Append(tx, p) \in Seq(Seq(Messages)) /\ <<>> \in Seq(Messages) /\ "busy" \in Views
    BY <1>2 DEF Views
  <2> QED
    BY <2>1, <2>3, <2>4, <2>5
<1>4. CASE ~ (p # <<>> /\ v = "idle" /\ rested)
  <2>1. pending' = p /\ view' = v /\ UNCHANGED <<rested, tx>>
    BY <1>4 DEF Ready
  <2>2. PathInv'
    BY <1>1, <2>1 DEF PathInv
  <2> QED
    BY <1>2, <2>1, <2>2
<1> QED
  BY <1>3, <1>4

LEMMA HandledType ==
    ASSUME TypeOK, HubInv
    PROVE  /\ Handled \in 0 .. Len(published) /\ Handled =< heard
           /\ published \in Seq(Messages) /\ Len(published) \in Nat
           /\ heard \in 0 .. Len(published) /\ ToType \in Seq(Messages)
<1>1. published \in Seq(Messages) /\ heard \in 0 .. Len(published) /\ injector.items \in Seq(Messages)
  BY DEF TypeOK
<1>2. Len(published) \in Nat /\ <<>> \in Seq(Messages)
  BY <1>1
<1>3. Handled \in 0 .. Len(published) /\ Handled =< heard
  BY <1>1, <1>2 DEF Handled, HubInv
<1>4. ToType \in Seq(Messages)
  BY <1>1, <1>2 DEF ToType
<1> QED
  BY <1>1, <1>2, <1>3, <1>4

LEMMA PublishKeeps ==
    ASSUME PushInv, NEW m \in Messages, Publish(m)
    PROVE  PushInv'
<1>1. /\ published' = Append(published, m)
      /\ UNCHANGED <<agentVars, storeVars, heard, hubTask, queueVars, injector, terminal, reader>>
  BY DEF Publish
<1>2. TypeOK /\ HubInv /\ PathInv /\ SavingInv
  BY DEF PushInv
<1>3. /\ published \in Seq(Messages) /\ Handled \in 0 .. Len(published)
      /\ heard \in 0 .. Len(published)
  BY <1>2, HandledType
<1>4. TypeOK'
  <2>1. published' \in Seq(Messages) /\ heard' \in 0 .. Len(published')
    BY <1>1, <1>3
  <2> QED
    BY <1>1, <1>2, <2>1 DEF TypeOK, agentVars, storeVars, queueVars
<1>5. HubInv'
  <2>1. \A k \in DOMAIN published : published[k] # m
    BY DEF Publish, ToSet
  <2>2. \A k, l \in DOMAIN published' : published'[k] = published'[l] => k = l
    BY <1>1, <1>2, <1>3, <2>1 DEF HubInv
  <2> QED
    BY <1>1, <1>2, <2>2 DEF HubInv, queueVars
<1>6. PathInv'
  <2>1. ToType' = ToType /\ Handled' = Handled
    BY <1>1 DEF ToType, Handled
  <2>2. Path(published', terminal, ToType, tx, pending, Handled)
    BY <1>1, <1>2, <1>3, PathPublish DEF PathInv
  <2> QED
    BY <1>1, <2>1, <2>2 DEF PathInv, queueVars
<1>7. SavingInv'
  BY <1>1, <1>2 DEF SavingInv, DeliveredWasTyped, storeVars
<1> QED
  BY <1>4, <1>5, <1>6, <1>7 DEF PushInv

\* Steps of the hub task that enqueue nothing.
LEMMA HubKeeps ==
    ASSUME PushInv, Hear \/ HearLagged \/ ResolveFails
    PROVE  PushInv'
<1>1. /\ UNCHANGED <<agentVars, storeVars, published, queueVars, injector, terminal, reader>>
      /\ \/ hubTask = "listening" /\ heard < Len(published) /\ heard' = heard + 1 /\ hubTask' = "resolving"
         \/ heard' = heard /\ hubTask = "listening" /\ hubTask' = "ended"
         \/ heard' = heard /\ hubTask = "resolving" /\ hubTask' = "listening"
  BY DEF Hear, HearLagged, ResolveFails
<1>2. TypeOK /\ HubInv /\ PathInv /\ SavingInv
  BY DEF PushInv
<1>3. /\ published \in Seq(Messages) /\ Handled \in 0 .. Len(published)
      /\ heard \in 0 .. Len(published) /\ Len(published) \in Nat
  BY <1>2, HandledType
<1>4. TypeOK'
  <2>1. heard' \in 0 .. Len(published')
    BY <1>1, <1>3
  <2> QED
    BY <1>1, <1>2, <2>1 DEF TypeOK, agentVars, storeVars, queueVars
<1>5. HubInv'
  BY <1>1, <1>2, <1>3 DEF HubInv, queueVars
<1>6. PathInv'
  <2>1. ToType' = ToType
    BY <1>1 DEF ToType
  <2>2. Handled' \in Nat /\ Handled =< Handled' /\ Handled \in Nat
    BY <1>1, <1>3, <1>2 DEF Handled, HubInv
  <2>3. Path(published, terminal, ToType, tx, pending, Handled')
    BY <1>2, <2>2, PathHear DEF PathInv
  <2> QED
    BY <1>1, <2>1, <2>3 DEF PathInv, queueVars
<1>7. SavingInv'
  BY <1>1, <1>2 DEF SavingInv, DeliveredWasTyped, storeVars
<1> QED
  BY <1>4, <1>5, <1>6, <1>7 DEF PushInv

\* What a step of a queue leaves to be shown: ReadyKeeps does the rest.
LEMMA QueueStepKeeps ==
    ASSUME PushInv, NEW p \in Seq(Messages), NEW v \in Views, Ready(p, v),
           Path(published, terminal, ToType, tx, p, Handled'),
           UNCHANGED <<storeVars, published, heard, injector, terminal, reader>>,
           /\ agent' \in Views /\ notice' \in [Tasks -> Views \cup {Quiet}] /\ faults' = faults,
           hubTask' = hubTask \/ hubTask' = "listening"
    PROVE  PushInv'
<1>1. TypeOK /\ HubInv /\ PathInv /\ SavingInv
  BY DEF PushInv
<1>2. /\ PathInv'
      /\ pending' \in Seq(Messages) /\ view' \in Views /\ rested' \in BOOLEAN
      /\ tx' \in Seq(Seq(Messages)) /\ \A n \in DOMAIN tx' : tx'[n] # <<>>
  BY <1>1, ReadyKeeps
<1>3. TypeOK'
  BY <1>1, <1>2 DEF TypeOK, storeVars
<1>4. HubInv'
  BY <1>1, <1>2 DEF HubInv
<1>5. SavingInv'
  BY <1>1 DEF SavingInv, DeliveredWasTyped, storeVars
<1> QED
  BY <1>2, <1>3, <1>4, <1>5 DEF PushInv

LEMMA EnqueueKeeps ==
    ASSUME PushInv, Enqueue
    PROVE  PushInv'
<1> DEFINE q == Queued(pending, published[heard])
<1>1. TypeOK /\ HubInv /\ PathInv
  BY DEF PushInv
<1>2. /\ hubTask = "resolving" /\ hubTask' = "listening" /\ Ready(q, view)
      /\ UNCHANGED <<agentVars, storeVars, published, heard, injector, terminal, reader>>
  BY DEF Enqueue
<1>3. /\ published \in Seq(Messages) /\ heard \in 0 .. Len(published) /\ Len(published) \in Nat
  BY <1>1, HandledType
<1>4. /\ Handled = heard - 1 /\ Handled' = heard /\ heard \in 1 .. Len(published)
      /\ Handled \in Nat /\ Handled + 1 = heard /\ Handled + 1 \in DOMAIN published
  BY <1>1, <1>2, <1>3 DEF Handled, HubInv
<1>5. pending \in Seq(Messages) /\ view \in Views /\ published[heard] \in Messages
  BY <1>1, <1>3, <1>4 DEF TypeOK
<1> HIDE DEF Handled
<1>6. Path(published, terminal, ToType, tx, q, Handled')
  <2>1. CASE published[heard] \in ToSet(pending)
    <3>1. q = pending
      BY <2>1 DEF Queued
    <3>2. Path(published, terminal, ToType, tx, pending, Handled + 1)
      BY <1>1, <1>4, PathHear DEF PathInv
    <3> QED
      BY <3>1, <3>2, <1>4
  <2>2. CASE published[heard] \notin ToSet(pending)
    <3>1. q = Append(pending, published[heard])
      BY <2>2 DEF Queued
    <3>2. Path(published, terminal, ToType, tx, Append(pending, published[Handled + 1]), Handled + 1)
      BY <1>1, <1>3, <1>4, <1>5, PathEnqueue DEF PathInv
    <3> QED
      BY <3>1, <3>2, <1>4
  <2> QED
    BY <2>1, <2>2
<1>7. q \in Seq(Messages)
  BY <1>5 DEF Queued
<1> HIDE DEF q
<1>8. agent' \in Views /\ notice' \in [Tasks -> Views \cup {Quiet}] /\ faults' = faults
  BY <1>1, <1>2 DEF TypeOK, agentVars
<1> QED
  BY <1>2, <1>5, <1>6, <1>7, <1>8, QueueStepKeeps

LEMMA TickKeeps ==
    ASSUME PushInv, Tick
    PROVE  PushInv'
<1>1. TypeOK /\ HubInv /\ PathInv
  BY DEF PushInv
<1>2. /\ Ready(pending, view)
      /\ UNCHANGED <<agentVars, storeVars, published, heard, hubTask, injector, terminal, reader>>
  BY DEF Tick, hubVars
<1>3. Handled' = Handled
  BY <1>2 DEF Handled
<1>4. Path(published, terminal, ToType, tx, pending, Handled')
  BY <1>1, <1>3 DEF PathInv
<1>5. /\ pending \in Seq(Messages) /\ view \in Views
      /\ agent' \in Views /\ notice' \in [Tasks -> Views \cup {Quiet}] /\ faults' = faults
  BY <1>1, <1>2 DEF TypeOK, agentVars
<1> QED
  BY <1>2, <1>4, <1>5, QueueStepKeeps

LEMMA NotifyKeeps ==
    ASSUME PushInv, NEW t \in Tasks, Notify(t)
    PROVE  PushInv'
<1> DEFINE p == PendingAfter(pending, notice[t])
<1>1. TypeOK /\ HubInv /\ PathInv
  BY DEF PushInv
<1>2. /\ Ready(p, notice[t])
      /\ notice[t] # Quiet /\ notice' = [notice EXCEPT ![t] = Quiet]
      /\ UNCHANGED <<faults, agent, storeVars, published, heard, hubTask, injector, terminal, reader>>
  BY DEF Notify, hubVars
<1>3. Handled' = Handled
  BY <1>2 DEF Handled
<1>4. /\ pending \in Seq(Messages) /\ notice[t] \in Views
      /\ agent' \in Views /\ notice' \in [Tasks -> Views \cup {Quiet}] /\ faults' = faults
  BY <1>1, <1>2 DEF TypeOK
<1>5. p \in Seq(Messages) /\ Thinned(p, pending, Len(pending))
  BY <1>4 DEF PendingAfter, Thinned
<1>6. Path(published, terminal, ToType, tx, p, Handled')
  BY <1>1, <1>3, <1>4, <1>5, PathThin DEF PathInv
<1> HIDE DEF p
<1> QED
  BY <1>2, <1>4, <1>5, <1>6, QueueStepKeeps

\* Steps that leave the way of the messages alone: the throttle's timer, the
\* supervisor, the readers and the rows.
LEMMA PathStays ==
    ASSUME PathInv, UNCHANGED <<published, heard, hubTask, terminal, tx, pending>>,
           ToType' = ToType
    PROVE  PathInv'
<1>1. Handled' = Handled
  BY DEF Handled
<1> QED
  BY <1>1 DEF PathInv

LEMMA AgentKeeps ==
    ASSUME PushInv,
           \/ Rest \/ Start \/ Exit
           \/ \E v \in Views \ {"stopped", "starting"} : Detect(v)
           \/ \E r \in Readers : Fetch(r)
    PROVE  PushInv'
<1>1. TypeOK /\ HubInv /\ PathInv /\ SavingInv
  BY DEF PushInv
<1>2. /\ UNCHANGED <<faults, row, published, heard, hubTask, pending, view, tx, injector, terminal>>
      /\ \/ rested' = TRUE /\ UNCHANGED <<agent, notice, reader>>
         \/ \E v \in Views, n \in Tasks :
              /\ agent' = v /\ notice' = [notice EXCEPT ![n] = v]
              /\ UNCHANGED <<rested, reader>>
         \/ /\ UNCHANGED <<rested, agent, notice>>
            /\ \E r \in Readers, items \in SUBSET Messages :
                 reader' = [reader EXCEPT ![r] = [pc |-> "marking", items |-> items]]
  <2>1. CASE Rest
    BY <2>1 DEF Rest, agentVars, storeVars, hubVars
  <2>2. CASE Start \/ Exit
    BY <2>2 DEF Start, Exit, LifeChange, storeVars, hubVars, queueVars, Views, Tasks
  <2>3. CASE \E v \in Views \ {"stopped", "starting"} : Detect(v)
    BY <2>3 DEF Detect, storeVars, hubVars, queueVars, Views, Tasks
  <2>4. CASE \E r \in Readers : Fetch(r)
    <3>1. PICK r \in Readers : Fetch(r)
      BY <2>4
    <3>2. PICK items \in {Unread} \cup {{m} : m \in Unread} :
            reader' = [reader EXCEPT ![r] = [pc |-> "marking", items |-> items]]
      BY <3>1 DEF Fetch
    <3>3. items \in SUBSET Messages
      BY DEF Unread
    <3> QED
      BY <3>1, <3>2, <3>3 DEF Fetch, agentVars, storeVars, hubVars, queueVars
  <2> QED
    BY <2>1, <2>2, <2>3, <2>4
<1>3. TypeOK'
  <2>1. /\ agent' \in Views /\ rested' \in BOOLEAN
        /\ notice' \in [Tasks -> Views \cup {Quiet}]
        /\ reader' \in [Readers -> [pc: {"idle", "marking", "telling"}, items: SUBSET Messages]]
    <3>1. /\ agent \in Views /\ rested \in BOOLEAN
          /\ notice \in [Tasks -> Views \cup {Quiet}]
          /\ reader \in [Readers -> [pc: {"idle", "marking", "telling"}, items: SUBSET Messages]]
      BY <1>1 DEF TypeOK
    <3>2. CASE \E v \in Views, n \in Tasks :
                 /\ agent' = v /\ notice' = [notice EXCEPT ![n] = v]
                 /\ UNCHANGED <<rested, reader>>
      BY <3>1, <3>2
    <3>3. CASE /\ UNCHANGED <<rested, agent, notice>>
               /\ \E r \in Readers, items \in SUBSET Messages :
                    reader' = [reader EXCEPT ![r] = [pc |-> "marking", items |-> items]]
      BY <3>1, <3>3
    <3> QED
      BY <1>2, <3>1, <3>2, <3>3
  <2>2. UNCHANGED <<faults, row, published, heard, hubTask, pending, view, tx, injector, terminal>>
    BY <1>2
  <2> QED
    BY <1>1, <2>1, <2>2 DEF TypeOK
<1>4. HubInv'
  BY <1>1, <1>2 DEF HubInv
<1>5. PathInv'
  BY <1>1, <1>2, PathStays DEF ToType
<1>6. SavingInv'
  BY <1>1, <1>2 DEF SavingInv, DeliveredWasTyped
<1> QED
  BY <1>3, <1>4, <1>5, <1>6 DEF PushInv

\* The rows: stored, or read.  A row that was not yet there cannot be "delivered".
LEMMA RowsKeep ==
    ASSUME PushInv, NEW m \in Messages, Store(m)
    PROVE  PushInv'
<1>1. TypeOK /\ HubInv /\ PathInv /\ SavingInv
  BY DEF PushInv
<1>2. /\ row' = [row EXCEPT ![m] = "pending"]
      /\ UNCHANGED <<agentVars, published, heard, hubTask, queueVars, injector, terminal, reader>>
  BY DEF Store, hubVars
<1>3. TypeOK'
  <2>1. row' \in [Messages -> Rows]
    BY <1>1, <1>2 DEF TypeOK, Rows
  <2> QED
    BY <1>1, <1>2, <2>1 DEF TypeOK, agentVars, queueVars
<1>4. HubInv'
  BY <1>1, <1>2 DEF HubInv, queueVars
<1>5. PathInv'
  BY <1>1, <1>2, PathStays DEF ToType, queueVars
<1>6. SavingInv'
  BY <1>1, <1>2 DEF SavingInv, DeliveredWasTyped, TypeOK
<1> QED
  BY <1>3, <1>4, <1>5, <1>6 DEF PushInv

LEMMA MarkKeeps ==
    ASSUME PushInv, NEW r \in Readers, Mark(r)
    PROVE  PushInv'
<1>1. TypeOK /\ HubInv /\ PathInv /\ SavingInv
  BY DEF PushInv
<1>2. /\ row' = [m \in Messages |-> IF m \in reader[r].items \cap Unread THEN "read" ELSE row[m]]
      /\ reader' = [reader EXCEPT ![r].pc = "telling"]
      /\ UNCHANGED <<agentVars, published, heard, hubTask, queueVars, injector, terminal>>
  BY DEF Mark, hubVars
<1>3. TypeOK'
  <2>1. row' \in [Messages -> Rows]
    BY <1>1, <1>2 DEF TypeOK, Rows
  <2>2. reader' \in [Readers -> [pc: {"idle", "marking", "telling"}, items: SUBSET Messages]]
    BY <1>1, <1>2 DEF TypeOK
  <2> QED
    BY <1>1, <1>2, <2>1, <2>2 DEF TypeOK, agentVars, queueVars
<1>4. HubInv'
  BY <1>1, <1>2 DEF HubInv, queueVars
<1>5. PathInv'
  BY <1>1, <1>2, PathStays DEF ToType, queueVars
<1>6. SavingInv'
  BY <1>1, <1>2 DEF SavingInv, DeliveredWasTyped, TypeOK
<1> QED
  BY <1>3, <1>4, <1>5, <1>6 DEF PushInv

LEMMA ForgetKeeps ==
    ASSUME PushInv, NEW r \in Readers, Forget(r)
    PROVE  PushInv'
<1> DEFINE p == Forgotten(pending, reader[r].items)
<1>1. TypeOK /\ HubInv /\ PathInv /\ SavingInv
  BY DEF PushInv
<1>2. /\ pending' = p
      /\ reader' = [reader EXCEPT ![r] = [pc |-> "idle", items |-> {}]]
      /\ UNCHANGED <<agentVars, row, published, heard, hubTask, view, rested, tx, injector, terminal>>
  BY DEF Forget, storeVars, hubVars
<1>3. pending \in Seq(Messages)
  BY <1>1 DEF TypeOK
<1>4. p \in Seq(Messages) /\ Thinned(p, pending, Len(pending))
  BY <1>3, SiftedIsThinned DEF Forgotten
<1> HIDE DEF p
<1>5. TypeOK'
  <2>1. reader' \in [Readers -> [pc: {"idle", "marking", "telling"}, items: SUBSET Messages]]
    BY <1>1, <1>2 DEF TypeOK
  <2> QED
    BY <1>1, <1>2, <1>4, <2>1 DEF TypeOK, agentVars
<1>6. HubInv'
  BY <1>1, <1>2 DEF HubInv
<1>7. PathInv'
  <2>1. ToType' = ToType /\ Handled' = Handled
    BY <1>2 DEF ToType, Handled
  <2>2. Path(published, terminal, ToType, tx, p, Handled)
    BY <1>1, <1>3, <1>4, PathThin DEF PathInv
  <2> QED
    BY <1>2, <2>1, <2>2 DEF PathInv
<1>8. SavingInv'
  BY <1>1, <1>2 DEF SavingInv, DeliveredWasTyped
<1> QED
  BY <1>5, <1>6, <1>7, <1>8 DEF PushInv

-----------------------------------------------------------------------------
(* The injector                                                              *)

LEMMA TakeKeeps ==
    ASSUME PushInv, TakeInjection
    PROVE  PushInv'
<1>1. TypeOK /\ HubInv /\ PathInv /\ SavingInv
  BY DEF PushInv
<1>2. /\ injector.pc = "idle" /\ tx # <<>> /\ tx' = Tail(tx)
      /\ injector' = [injector EXCEPT !.pc = "typing", !.items = Head(tx)]
      /\ UNCHANGED <<agentVars, row, published, heard, hubTask, pending, view, rested, terminal, reader>>
  BY DEF TakeInjection, storeVars, hubVars
<1>3. tx \in Seq(Seq(Messages)) /\ \A n \in DOMAIN tx : tx[n] # <<>>
  BY <1>1 DEF TypeOK, HubInv
<1>4. /\ Head(tx) \in Seq(Messages) /\ Head(tx) # <<>> /\ Tail(tx) \in Seq(Seq(Messages))
      /\ \A n \in DOMAIN Tail(tx) : Tail(tx)[n] # <<>>
  BY <1>2, <1>3
<1>5. /\ injector' \in [pc: {"idle", "typing", "reading", "saving"},
                        items: Seq(Messages), ok: BOOLEAN, seen: Rows]
      /\ injector'.pc = "typing" /\ injector'.items = Head(tx)
  BY <1>1, <1>2, <1>4 DEF TypeOK
<1>6. TypeOK'
  BY <1>1, <1>2, <1>4, <1>5 DEF TypeOK, agentVars
<1>7. HubInv'
  BY <1>1, <1>2, <1>4, <1>5 DEF HubInv
<1>8. PathInv'
  <2>1. ToType = <<>> /\ ToType' = Head(tx) /\ Handled' = Handled
    BY <1>2, <1>5 DEF ToType, Handled
  <2>2. Path(published, terminal, Head(tx), Tail(tx), pending, Handled)
    BY <1>1, <1>2, <1>3, <2>1, PathTake DEF PathInv
  <2> QED
    BY <1>2, <2>1, <2>2 DEF PathInv
<1>9. SavingInv'
  BY <1>1, <1>2, <1>5 DEF SavingInv, DeliveredWasTyped
<1> QED
  BY <1>6, <1>7, <1>8, <1>9 DEF PushInv

\* write() answers: with the whole text in the terminal, or with an error.
LEMMA TypeKeeps ==
    ASSUME PushInv, Type
    PROVE  PushInv'
<1>1. TypeOK /\ HubInv /\ PathInv /\ SavingInv
  BY DEF PushInv
<1>2. /\ injector.pc = "typing"
      /\ \/ /\ injector' = [injector EXCEPT !.pc = "reading", !.ok = TRUE]
            /\ terminal' = terminal \o injector.items
         \/ /\ injector' = [injector EXCEPT !.pc = "reading", !.ok = FALSE]
            /\ terminal' = terminal
      /\ UNCHANGED <<agentVars, row, published, heard, hubTask, queueVars, reader>>
  BY DEF Type, storeVars, hubVars
<1>3. /\ injector.items \in Seq(Messages) /\ terminal \in Seq(Messages)
      /\ ToType = injector.items /\ injector.items # <<>>
  BY <1>1, <1>2 DEF TypeOK, HubInv, ToType
<1>4. /\ injector' \in [pc: {"idle", "typing", "reading", "saving"},
                        items: Seq(Messages), ok: BOOLEAN, seen: Rows]
      /\ injector'.pc = "reading" /\ injector'.items = injector.items
      /\ injector'.ok => terminal' = terminal \o injector.items
  BY <1>1, <1>2 DEF TypeOK
<1>5. terminal' \in Seq(Messages)
  <2>1. terminal \o injector.items \in Seq(Messages)
    BY <1>3
  <2> QED
    BY <1>2, <1>3, <2>1
<1>6. TypeOK'
  BY <1>1, <1>2, <1>4, <1>5 DEF TypeOK, agentVars, queueVars
<1>7. HubInv'
  BY <1>1, <1>2, <1>3, <1>4 DEF HubInv, queueVars
<1>8. PathInv'
  <2>1. ToType' = <<>> /\ Handled' = Handled
    BY <1>2, <1>4 DEF ToType, Handled
  <2>2. /\ Path(published, terminal \o ToType, <<>>, tx, pending, Handled)
        /\ Path(published, terminal, <<>>, tx, pending, Handled)
    BY <1>1, <1>3, PathType, PathSkip DEF PathInv
  <2>3. Path(published, terminal', <<>>, tx, pending, Handled)
    BY <1>2, <1>3, <2>2
  <2> QED
    BY <1>2, <2>1, <2>3 DEF PathInv, queueVars
<1>9. SavingInv'
  <2> DEFINE u == terminal \o injector.items
  <2>1. /\ \A m \in ToSet(terminal) : m \in ToSet(u)
        /\ \A i \in DOMAIN injector.items : injector.items[i] \in ToSet(u)
    <3>1. /\ DOMAIN u = 1 .. (Len(terminal) + Len(injector.items))
          /\ Len(terminal) \in Nat /\ Len(injector.items) \in Nat
          /\ DOMAIN terminal = 1 .. Len(terminal)
          /\ DOMAIN injector.items = 1 .. Len(injector.items)
          /\ \A i \in DOMAIN terminal : u[i] = terminal[i]
          /\ \A i \in DOMAIN injector.items : u[Len(terminal) + i] = injector.items[i]
      BY <1>3
    <3>2. /\ \A i \in DOMAIN terminal : i \in DOMAIN u
          /\ \A i \in DOMAIN injector.items : Len(terminal) + i \in DOMAIN u
      BY <3>1
    <3> HIDE DEF u
    <3> QED
      BY <3>1, <3>2 DEF ToSet
  <2>2. \A m \in ToSet(terminal) : m \in ToSet(terminal')
    BY <1>2, <2>1
  <2> QED
    BY <1>1, <1>2, <1>4, <2>1, <2>2 DEF SavingInv, DeliveredWasTyped
<1> QED
  BY <1>6, <1>7, <1>8, <1>9 DEF PushInv

\* What NextItem leaves: nothing, or the rest of the injection.
LEMMA NextItemLeaves ==
    ASSUME TypeOK, HubInv, injector.pc \in {"reading", "saving"}, NextItem
    PROVE  /\ injector' \in [pc: {"idle", "typing", "reading", "saving"},
                             items: Seq(Messages), ok: BOOLEAN, seen: Rows]
           /\ \/ injector'.pc = "idle"
              \/ /\ injector'.pc = "reading" /\ injector'.ok = injector.ok
                 /\ injector'.items # <<>>
                 /\ \A i \in DOMAIN injector'.items :
                      \E j \in DOMAIN injector.items : injector'.items[i] = injector.items[j]
<1> DEFINE rest == Tail(injector.items)
<1>1. /\ injector \in [pc: {"idle", "typing", "reading", "saving"},
                       items: Seq(Messages), ok: BOOLEAN, seen: Rows]
      /\ injector.items # <<>>
  BY DEF TypeOK, HubInv
<1>2. injector' = IF rest = <<>> THEN Idle ELSE [injector EXCEPT !.pc = "reading", !.items = rest]
  BY DEF NextItem
<1>3. /\ rest \in Seq(Messages)
      /\ \A i \in DOMAIN rest : i + 1 \in DOMAIN injector.items /\ rest[i] = injector.items[i + 1]
  BY <1>1
<1> HIDE DEF rest
<1>4. CASE rest = <<>>
  BY <1>2, <1>4 DEF Idle, Rows
<1>5. CASE rest # <<>>
  <2>1. injector' = [injector EXCEPT !.pc = "reading", !.items = rest]
    BY <1>2, <1>5
  <2>2. /\ injector'.pc = "reading" /\ injector'.ok = injector.ok /\ injector'.items = rest
        /\ injector' \in [pc: {"idle", "typing", "reading", "saving"},
                          items: Seq(Messages), ok: BOOLEAN, seen: Rows]
    BY <1>1, <1>3, <2>1
  <2> QED
    BY <1>3, <1>5, <2>2
<1> QED
  BY <1>4, <1>5

LEMMA ReadRowKeeps ==
    ASSUME PushInv, ReadRow
    PROVE  PushInv'
<1>1. TypeOK /\ HubInv /\ PathInv /\ SavingInv
  BY DEF PushInv
<1>2. /\ injector.pc = "reading"
      /\ injector' = [injector EXCEPT !.pc = "saving", !.seen = row[Head(injector.items)]]
      /\ UNCHANGED <<agentVars, row, published, heard, hubTask, queueVars, terminal, reader>>
  BY DEF ReadRow, storeVars, hubVars
<1>3. Head(injector.items) \in Messages
  BY <1>1, <1>2 DEF TypeOK, HubInv
<1>4. /\ injector' \in [pc: {"idle", "typing", "reading", "saving"},
                        items: Seq(Messages), ok: BOOLEAN, seen: Rows]
      /\ injector'.pc = "saving" /\ injector'.items = injector.items
      /\ injector'.ok = injector.ok /\ injector'.seen = row[Head(injector.items)]
  BY <1>1, <1>2, <1>3 DEF TypeOK
<1>5. TypeOK'
  BY <1>1, <1>2, <1>4 DEF TypeOK, agentVars, queueVars
<1>6. HubInv'
  BY <1>1, <1>2, <1>4 DEF HubInv, queueVars
<1>7. PathInv'
  BY <1>1, <1>2, <1>4, PathStays DEF ToType, queueVars
<1>8. SavingInv'
  BY <1>1, <1>2, <1>3, <1>4 DEF SavingInv, DeliveredWasTyped
<1> QED
  BY <1>5, <1>6, <1>7, <1>8 DEF PushInv

LEMMA SaveKeeps ==
    ASSUME PushInv, SaveRow \/ LoseRow
    PROVE  PushInv'
<1>1. TypeOK /\ HubInv /\ PathInv /\ SavingInv
  BY DEF PushInv
<1>2. /\ injector.pc \in {"reading", "saving"} /\ NextItem
      /\ \/ row' = row
         \/ /\ injector.pc = "saving"
            /\ row' = [row EXCEPT ![Head(injector.items)] = Outcome(injector.seen, injector.ok)]
      /\ UNCHANGED <<agentVars, published, heard, hubTask, queueVars, terminal, reader>>
  BY DEF SaveRow, LoseRow, storeVars, hubVars
<1>3. /\ injector' \in [pc: {"idle", "typing", "reading", "saving"},
                        items: Seq(Messages), ok: BOOLEAN, seen: Rows]
      /\ \/ injector'.pc = "idle"
         \/ /\ injector'.pc = "reading" /\ injector'.ok = injector.ok
            /\ injector'.items # <<>>
            /\ \A i \in DOMAIN injector'.items :
                 \E j \in DOMAIN injector.items : injector'.items[i] = injector.items[j]
  BY <1>1, <1>2, NextItemLeaves
<1>4. row \in [Messages -> Rows] /\ injector.seen \in Rows /\ injector.items \in Seq(Messages)
      /\ injector.items # <<>>
  BY <1>1, <1>2 DEF TypeOK, HubInv
<1>5. Head(injector.items) = injector.items[1] /\ 1 \in DOMAIN injector.items
  BY <1>4
<1>6. row' \in [Messages -> Rows]
  BY <1>2, <1>4 DEF Outcome, Rows
<1>7. TypeOK'
  BY <1>1, <1>2, <1>3, <1>6 DEF TypeOK, agentVars, queueVars
<1>8. HubInv'
  BY <1>1, <1>2, <1>3 DEF HubInv, queueVars
<1>9. PathInv'
  BY <1>1, <1>2, <1>3, PathStays DEF ToType, queueVars
<1>10. SavingInv'
  <2>1. DeliveredWasTyped'
    <3>1. ASSUME NEW m \in Messages, row'[m] = "delivered" PROVE m \in ToSet(terminal)
      <4>1. CASE row[m] = "delivered"
        BY <1>1, <4>1 DEF SavingInv, DeliveredWasTyped
      <4>2. CASE row[m] # "delivered"
        <5>1. /\ injector.pc = "saving" /\ m = Head(injector.items)
              /\ Outcome(injector.seen, injector.ok) = "delivered"
          BY <1>2, <1>4, <3>1, <4>2
        <5>2. injector.seen = "delivered" \/ injector.ok
          BY <5>1 DEF Outcome
        <5> QED
          BY <1>1, <1>5, <5>1, <5>2 DEF SavingInv
      <4> QED
        BY <4>1, <4>2
    <3> QED
      BY <1>2, <3>1 DEF DeliveredWasTyped
  <2> QED
    BY <1>1, <1>2, <1>3, <2>1 DEF SavingInv
<1> QED
  BY <1>7, <1>8, <1>9, <1>10 DEF PushInv

LEMMA SkipKeeps ==
    ASSUME PushInv, SkipInjection
    PROVE  PushInv'
<1>1. TypeOK /\ HubInv /\ PathInv /\ SavingInv
  BY DEF PushInv
<1>2. /\ injector' = Idle
      /\ UNCHANGED <<agentVars, row, published, heard, hubTask, queueVars, terminal, reader>>
  BY DEF SkipInjection, storeVars, hubVars
<1>3. /\ injector' \in [pc: {"idle", "typing", "reading", "saving"},
                        items: Seq(Messages), ok: BOOLEAN, seen: Rows]
      /\ injector'.pc = "idle"
  BY <1>2 DEF Idle, Rows
<1>4. TypeOK'
  BY <1>1, <1>2, <1>3 DEF TypeOK, agentVars, queueVars
<1>5. HubInv'
  BY <1>1, <1>2, <1>3 DEF HubInv, queueVars
<1>6. PathInv'
  <2>1. ToType' = <<>> /\ Handled' = Handled
    BY <1>2, <1>3 DEF ToType, Handled
  <2>2. Path(published, terminal, <<>>, tx, pending, Handled)
    BY <1>1, PathSkip DEF PathInv
  <2> QED
    BY <1>2, <2>1, <2>2 DEF PathInv, queueVars
<1>7. SavingInv'
  BY <1>1, <1>2, <1>3 DEF SavingInv, DeliveredWasTyped
<1> QED
  BY <1>4, <1>5, <1>6, <1>7 DEF PushInv

-----------------------------------------------------------------------------
(* The theorems                                                              *)

LEMMA InitPush == Init => PushInv
<1> SUFFICES ASSUME Init PROVE PushInv
  OBVIOUS
<1>1. DOMAIN <<>> = {} /\ <<>> \in Seq(Messages) /\ <<>> \in Seq(Seq(Messages)) /\ Len(<<>>) = 0
  OBVIOUS
<1>2. TypeOK
  BY <1>1 DEF Init, TypeOK, Views, Tasks, Idle, Rows
<1>3. HubInv
  BY <1>1 DEF Init, HubInv, Idle
<1>4. PathInv
  <2>1. ToType = <<>> /\ terminal = <<>> /\ pending = <<>> /\ tx = <<>>
    BY DEF Init, ToType, Idle
  <2> QED
    BY <1>1, <2>1 DEF PathInv, Path, Whole, Among, InOrder, AllBefore
<1>5. SavingInv
  BY DEF Init, SavingInv, DeliveredWasTyped, Idle
<1> QED
  BY <1>2, <1>3, <1>4, <1>5 DEF PushInv

LEMMA StepPush == PushInv /\ [Next]_vars => PushInv'
<1> SUFFICES ASSUME PushInv, [Next]_vars PROVE PushInv'
  OBVIOUS
<1>1. CASE \E m \in Messages : Store(m) \/ Publish(m)
  BY <1>1, RowsKeep, PublishKeeps
<1>2. CASE Hear \/ HearLagged \/ ResolveFails
  BY <1>2, HubKeeps
<1>3. CASE Enqueue \/ Tick \/ \E t \in Tasks : Notify(t)
  BY <1>3, EnqueueKeeps, TickKeeps, NotifyKeeps
<1>4. CASE \/ Rest \/ Start \/ Exit
           \/ \E v \in Views \ {"stopped", "starting"} : Detect(v)
           \/ \E r \in Readers : Fetch(r)
  BY <1>4, AgentKeeps
<1>5. CASE InjectorStep \/ SkipInjection \/ LoseRow
  BY <1>5, TakeKeeps, TypeKeeps, ReadRowKeeps, SaveKeeps, SkipKeeps DEF InjectorStep
<1>6. CASE \E r \in Readers : Mark(r) \/ Forget(r)
  BY <1>6, MarkKeeps, ForgetKeeps
<1>7. CASE UNCHANGED vars
  <2>1. /\ UNCHANGED <<agentVars, row, published, heard, hubTask, queueVars>>
        /\ UNCHANGED <<injector, terminal, reader>>
    BY <1>7 DEF vars, storeVars, hubVars
  <2>2. TypeOK'
    BY <2>1 DEF PushInv, TypeOK, agentVars, queueVars
  <2>3. HubInv' /\ SavingInv'
    BY <2>1 DEF PushInv, HubInv, SavingInv, DeliveredWasTyped, queueVars
  <2>4. PathInv'
    BY <2>1, PathStays DEF PushInv, ToType, queueVars
  <2> QED
    BY <2>2, <2>3, <2>4 DEF PushInv
<1> QED
  BY <1>1, <1>2, <1>3, <1>4, <1>5, <1>6, <1>7 DEF Next

\* The delivery by push, all of it: no message overtakes another between the
\* broadcast and the terminal, whatever stops, fails, lags or is read meanwhile.
THEOREM PushInvHolds == Spec => []PushInv
<1> QED
  BY InitPush, StepPush, PTL DEF Spec

\* What was typed was broadcast, once and in that order; what is called delivered
\* was typed (push.rs, commands/push.rs).
THEOREM DeliveryIsTrueHolds == Spec => []DeliveryIsTrue
<1>1. PushInv => DeliveryIsTrue
  <2> SUFFICES ASSUME PushInv PROVE DeliveryIsTrue
    OBVIOUS
  <2>1. TypeOK /\ DeliveredWasTyped
    BY DEF PushInv, SavingInv
  <2>2. /\ DOMAIN terminal = 1 .. Len(terminal) /\ DOMAIN published = 1 .. Len(published)
    BY <2>1 DEF TypeOK
  <2>3. InOrder(published, terminal)
    BY DEF PushInv, PathInv, Path, Whole
  <2>4. TypedInOrder
    BY <2>2, <2>3 DEF TypedInOrder, InOrder, Before
  <2> QED
    BY <2>1, <2>4 DEF DeliveryIsTrue
<1> QED
  BY <1>1, PushInvHolds, PTL

\* Nothing is typed twice: a message leaves the queue when it is handed over, and
\* the hub task hears it once.
TypedOnce == \A i, j \in DOMAIN terminal : terminal[i] = terminal[j] => i = j

THEOREM TypedOnceHolds == Spec => []TypedOnce
<1>1. PushInv => TypedOnce
  <2> SUFFICES ASSUME PushInv, NEW i \in DOMAIN terminal, NEW j \in DOMAIN terminal,
                      terminal[i] = terminal[j], i < j
               PROVE  FALSE
    BY DEF TypedOnce, PushInv, TypeOK
  <2>1. PICK k, l \in DOMAIN published :
          k < l /\ published[k] = terminal[i] /\ published[l] = terminal[j]
    BY DEF PushInv, PathInv, Path, Whole, InOrder, Before
  <2>2. k = l
    BY <2>1 DEF PushInv, HubInv
  <2> QED
    BY <2>1, <2>2 DEF PushInv, TypeOK
<1> QED
  BY <1>1, PushInvHolds, PTL
=============================================================================
