----------------------------- MODULE SiftProofs -----------------------------
(* What Sifted leaves of a list, for lists of any length: a list of the same  *)
(* elements, in the same order.  No induction over the lists is needed that   *)
(* takes an operator: a shortest list that shows otherwise would be one       *)
(* element longer than a list that does not.                                  *)
EXTENDS Sift, WellFoundedInduction, TLAPS

\* q is made of the first n elements of s, in their order, some of them left out.
Thinned(q, s, n) ==
    /\ \A i \in DOMAIN q : \E k \in 1 .. n : q[i] = s[k]
    /\ \A i, j \in DOMAIN q : i < j =>
         \E k, l \in 1 .. n : k < l /\ q[i] = s[k] /\ q[j] = s[l]

\* One step of the loop in Sifted.
KeptAt(kept, s, T, n) ==
    IF n = 0 THEN <<>>
    ELSE IF s[n] \in T THEN Append(kept[n - 1], s[n]) ELSE kept[n - 1]

LEMMA LeastOne ==
    ASSUME NEW U \in SUBSET Nat, U # {}
    PROVE  \E x \in U : \A y \in U : x =< y
<1>1. PICK x \in U : \A y \in U : ~ (<<y, x>> \in OpToRel(<, Nat))
  BY NatLessThanWellFounded, WFMin DEF OpToRel
<1>2. \A y \in U : ~ (y < x)
  BY <1>1 DEF OpToRel
<1> QED
  BY <1>2

\* The function that Sifted defines by recursion exists: a shortest queue for
\* which there is none would be one longer than a queue for which there is one.
LEMMA KeptExists ==
    ASSUME NEW s, Len(s) \in Nat, NEW T
    PROVE  \E kept : kept = [n \in 0 .. Len(s) |-> KeptAt(kept, s, T, n)]
<1> DEFINE Good(m) == \E kept : kept = [n \in 0 .. m |-> KeptAt(kept, s, T, n)]
           Bad == {m \in 0 .. Len(s) : ~Good(m)}
<1>1. SUFFICES ASSUME Bad # {} PROVE FALSE
  OBVIOUS
<1>2. PICK m \in Bad : \A y \in Bad : m =< y
  <2> Bad \in SUBSET Nat
    OBVIOUS
  <2> QED
    BY <1>1, LeastOne
<1>3. m # 0
  <2>1. Good(0)
    <3> DEFINE g == [n \in 0 .. 0 |-> <<>>]
    <3>1. g = [n \in 0 .. 0 |-> KeptAt(g, s, T, n)]
      BY DEF KeptAt
    <3> QED
      BY <3>1
  <2> QED
    BY <2>1, <1>2
<1>4. m - 1 \in 0 .. Len(s) /\ m \in Nat
  BY <1>2, <1>3
<1>5. PICK g : g = [n \in 0 .. (m - 1) |-> KeptAt(g, s, T, n)]
  BY <1>2, <1>4
<1> DEFINE h == [n \in 0 .. m |-> IF n = m THEN KeptAt(g, s, T, n) ELSE g[n]]
<1>6. \A n \in 0 .. m : h[n] = KeptAt(h, s, T, n)
  <2> TAKE n \in 0 .. m
  <2>1. n # 0 => h[n - 1] = g[n - 1]
    BY <1>4
  <2>2. CASE n = m
    BY <2>1, <2>2, <1>3 DEF KeptAt
  <2>3. CASE n # m
    <3>1. n \in 0 .. (m - 1)
      BY <2>3, <1>4
    <3>2. g[n] = KeptAt(g, s, T, n)
      BY <3>1, <1>5
    <3> QED
      BY <2>1, <2>3, <3>2 DEF KeptAt
  <2> QED
    BY <2>2, <2>3
<1>7. h = [n \in 0 .. m |-> KeptAt(h, s, T, n)]
  <2> h = [n \in 0 .. m |-> h[n]]
    OBVIOUS
  <2> HIDE DEF h
  <2> QED
    BY <1>6
<1> QED
  BY <1>2, <1>7

LEMMA SiftedIsKept ==
    ASSUME NEW S, NEW s \in Seq(S), NEW T
    PROVE  \E kept : /\ Sifted(s, T) = kept[Len(s)]
                     /\ \A n \in 0 .. Len(s) : kept[n] = KeptAt(kept, s, T, n)
<1> DEFINE g == CHOOSE kept : kept = [n \in 0 .. Len(s) |-> KeptAt(kept, s, T, n)]
<1>1. g = [n \in 0 .. Len(s) |-> KeptAt(g, s, T, n)]
  <2>1. \E kept : kept = [n \in 0 .. Len(s) |-> KeptAt(kept, s, T, n)]
    <3>1. Len(s) \in Nat
      OBVIOUS
    <3> QED
      BY <3>1, KeptExists, SMTT(30)
  <2> QED
    BY <2>1, Zenon
<1>2. Sifted(s, T) = g[Len(s)]
  BY DEF Sifted, KeptAt
<1> QED
  BY <1>1, <1>2

\* What retain() leaves is a queue of the same messages in the same order.
LEMMA SiftedIsThinned ==
    ASSUME NEW S, NEW s \in Seq(S), NEW T
    PROVE  Sifted(s, T) \in Seq(S) /\ Thinned(Sifted(s, T), s, Len(s))
<1>1. PICK kept : /\ Sifted(s, T) = kept[Len(s)]
                  /\ \A n \in 0 .. Len(s) : kept[n] = KeptAt(kept, s, T, n)
  BY SiftedIsKept
<1> DEFINE Bad == {n \in 0 .. Len(s) : ~ (kept[n] \in Seq(S) /\ Thinned(kept[n], s, n))}
<1>2. ASSUME Bad # {} PROVE FALSE
  <2>1. PICK n \in Bad : \A y \in Bad : n =< y
    <3> Bad \in SUBSET Nat
      OBVIOUS
    <3> QED
      BY <1>2, LeastOne
  <2>2. n # 0
    <3>1. kept[0] = <<>>
      BY <1>1 DEF KeptAt
    <3>2. kept[0] \in Seq(S) /\ Thinned(kept[0], s, 0)
      BY <3>1 DEF Thinned
    <3> QED
      BY <2>1, <3>2
  <2>3. n - 1 \in 0 .. Len(s) /\ n - 1 \notin Bad /\ n \in 1 .. Len(s)
    BY <2>1, <2>2
  <2>4. kept[n - 1] \in Seq(S) /\ Thinned(kept[n - 1], s, n - 1)
    BY <2>3
  <2>5. s[n] \in S /\ kept[n] = IF s[n] \in T THEN Append(kept[n - 1], s[n]) ELSE kept[n - 1]
    BY <1>1, <2>3 DEF KeptAt
  <2> DEFINE q == kept[n - 1]  r == kept[n]
  <2>6. \A i \in 1 .. (n - 1) : i \in 1 .. n /\ i < n
    BY <2>3
  <2>7. CASE s[n] \notin T
    <3>1. r = q
      BY <2>5, <2>7
    <3>2. Thinned(q, s, n)
      BY <2>4, <2>6 DEF Thinned
    <3> QED
      BY <2>1, <2>4, <3>1, <3>2
  <2>8. CASE s[n] \in T
    <3>1. /\ r \in Seq(S) /\ DOMAIN r = 1 .. (Len(q) + 1) /\ Len(q) \in Nat
          /\ r[Len(q) + 1] = s[n] /\ DOMAIN q = 1 .. Len(q)
          /\ \A i \in DOMAIN q : r[i] = q[i]
      BY <2>4, <2>5, <2>8
    <3>2. \A i \in DOMAIN r : i \in DOMAIN q \/ i = Len(q) + 1
      BY <3>1
    <3>3. \A i, j \in DOMAIN r : i < j => i \in DOMAIN q
      BY <3>1
    <3> HIDE DEF q, r
    <3>4. \A i \in DOMAIN r : \E k \in 1 .. n : r[i] = s[k]
      BY <2>3, <2>4, <2>6, <3>1, <3>2 DEF Thinned, q
    <3>5. ASSUME NEW i \in DOMAIN r, NEW j \in DOMAIN r, i < j
          PROVE  \E k, l \in 1 .. n : k < l /\ r[i] = s[k] /\ r[j] = s[l]
      <4>1. CASE j \in DOMAIN q
        BY <2>4, <2>6, <3>1, <3>3, <3>5, <4>1, SMTT(30) DEF Thinned, q
      <4>2. CASE j = Len(q) + 1
        <5>1. PICK k \in 1 .. (n - 1) : q[i] = s[k]
          BY <2>4, <3>3, <3>5 DEF Thinned, q
        <5> QED
          BY <2>3, <2>6, <3>1, <3>3, <3>5, <4>2, <5>1
      <4> QED
        BY <3>2, <4>1, <4>2
    <3> QED
      BY <2>1, <3>1, <3>4, <3>5 DEF Thinned, r
  <2> QED
    BY <2>7, <2>8
<1> QED
  BY <1>1, <1>2

\* What is kept is what is in T, and all of it.
LEMMA SiftedHas ==
    ASSUME NEW S, NEW s \in Seq(S), NEW T
    PROVE  /\ \A j \in DOMAIN Sifted(s, T) : Sifted(s, T)[j] \in T
           /\ \A i \in DOMAIN s : s[i] \in T => \E j \in DOMAIN Sifted(s, T) : Sifted(s, T)[j] = s[i]
<1>1. PICK kept : /\ Sifted(s, T) = kept[Len(s)]
                  /\ \A n \in 0 .. Len(s) : kept[n] = KeptAt(kept, s, T, n)
  BY SiftedIsKept
<1> DEFINE Has(q, n) ==
             /\ q \in Seq(S) /\ \A j \in DOMAIN q : q[j] \in T
             /\ \A i \in 1 .. n : s[i] \in T => \E j \in DOMAIN q : q[j] = s[i]
           Bad == {n \in 0 .. Len(s) : ~ Has(kept[n], n)}
<1>2. ASSUME Bad # {} PROVE FALSE
  <2>1. PICK n \in Bad : \A y \in Bad : n =< y
    <3> Bad \in SUBSET Nat
      OBVIOUS
    <3> QED
      BY <1>2, LeastOne
  <2>2. n # 0
    <3>1. kept[0] = <<>>
      BY <1>1 DEF KeptAt
    <3>2. Has(kept[0], 0)
      BY <3>1
    <3> QED
      BY <2>1, <3>2
  <2>3. n - 1 \in 0 .. Len(s) /\ n - 1 \notin Bad /\ n \in 1 .. Len(s)
    BY <2>1, <2>2
  <2>4. Has(kept[n - 1], n - 1)
    BY <2>3
  <2>5. s[n] \in S /\ kept[n] = IF s[n] \in T THEN Append(kept[n - 1], s[n]) ELSE kept[n - 1]
    BY <1>1, <2>3 DEF KeptAt
  <2>6. \A i \in 1 .. n : i \in 1 .. (n - 1) \/ i = n
    BY <2>3
  <2> DEFINE q == kept[n - 1]  r == kept[n]
  <2>7. CASE s[n] \notin T
    <3>1. r = q
      BY <2>5, <2>7
    <3>2. Has(q, n)
      BY <2>4, <2>6, <2>7
    <3> QED
      BY <2>1, <3>1, <3>2
  <2>8. CASE s[n] \in T
    <3>1. q \in Seq(S) /\ r = Append(q, s[n])
      BY <2>4, <2>5, <2>8
    <3>2. /\ r \in Seq(S) /\ DOMAIN r = 1 .. (Len(q) + 1) /\ Len(q) \in Nat
          /\ r[Len(q) + 1] = s[n] /\ DOMAIN q = 1 .. Len(q)
          /\ \A i \in DOMAIN q : r[i] = q[i]
      BY <2>5, <3>1
    <3>3. /\ \A j \in DOMAIN r : j \in DOMAIN q \/ j = Len(q) + 1
          /\ \A j \in DOMAIN q : j \in DOMAIN r
          /\ Len(q) + 1 \in DOMAIN r
      BY <3>2
    <3> HIDE DEF q, r
    <3>4. \A j \in DOMAIN r : r[j] \in T
      BY <2>4, <2>8, <3>2, <3>3 DEF q
    <3>5. ASSUME NEW i \in 1 .. n, s[i] \in T PROVE \E j \in DOMAIN r : r[j] = s[i]
      <4>1. CASE i = n
        BY <3>2, <3>3, <4>1
      <4>2. CASE i \in 1 .. (n - 1)
        <5>1. PICK j \in DOMAIN q : q[j] = s[i]
          BY <2>4, <3>5, <4>2 DEF q
        <5> QED
          BY <3>2, <3>3, <5>1
      <4> QED
        BY <2>6, <4>1, <4>2
    <3>6. Has(r, n)
      BY <3>2, <3>4, <3>5
    <3> QED
      BY <2>1, <3>6 DEF r
  <2> QED
    BY <2>7, <2>8
<1>3. Len(s) \in 0 .. Len(s) /\ DOMAIN s = 1 .. Len(s)
  OBVIOUS
<1>4. Has(kept[Len(s)], Len(s))
  BY <1>2, <1>3
<1> QED
  BY <1>1, <1>3, <1>4

\* Each element that is kept has a place of its own in what is left.
LEMMA SiftedHasPlaces ==
    ASSUME NEW S, NEW s \in Seq(S), NEW T
    PROVE  \E f \in [{i \in DOMAIN s : s[i] \in T} -> DOMAIN Sifted(s, T)] :
               /\ \A i \in DOMAIN s : s[i] \in T => Sifted(s, T)[f[i]] = s[i]
               /\ \A i, j \in DOMAIN s : s[i] \in T /\ s[j] \in T /\ f[i] = f[j] => i = j
<1>1. PICK kept : /\ Sifted(s, T) = kept[Len(s)]
                  /\ \A n \in 0 .. Len(s) : kept[n] = KeptAt(kept, s, T, n)
  BY SiftedIsKept
<1> DEFINE Of(n) == {i \in 1 .. n : s[i] \in T}
           Places(q, n) ==
             /\ q \in Seq(S)
             /\ \E f \in [Of(n) -> DOMAIN q] :
                  /\ \A i \in Of(n) : q[f[i]] = s[i]
                  /\ \A i, j \in Of(n) : f[i] = f[j] => i = j
           Bad == {n \in 0 .. Len(s) : ~ Places(kept[n], n)}
<1> HIDE DEF Places, Of
<1>2. ASSUME Bad # {} PROVE FALSE
  <2>1. PICK n \in Bad : \A y \in Bad : n =< y
    <3> Bad \in SUBSET Nat
      OBVIOUS
    <3> QED
      BY <1>2, LeastOne
  <2>2. n # 0
    <3>1. kept[0] = <<>>
      BY <1>1 DEF KeptAt
    <3>2. Of(0) = {}
      BY DEF Of
    <3> DEFINE f == [i \in {} |-> 0]
    <3>3. f \in [Of(0) -> DOMAIN <<>>] /\ <<>> \in Seq(S)
      BY <3>2
    <3> HIDE DEF f
    <3>4. Places(<<>>, 0)
      BY <3>2, <3>3 DEF Places
    <3>5. Places(kept[0], 0)
      BY <3>1, <3>4
    <3> QED
      BY <2>1, <3>5
  <2>3. n - 1 \in 0 .. Len(s) /\ n - 1 \notin Bad /\ n \in 1 .. Len(s)
    BY <2>1, <2>2
  <2>4. Places(kept[n - 1], n - 1)
    BY <2>3
  <2>5. s[n] \in S /\ kept[n] = IF s[n] \in T THEN Append(kept[n - 1], s[n]) ELSE kept[n - 1]
    BY <1>1, <2>3 DEF KeptAt
  <2> DEFINE q == kept[n - 1]  r == kept[n]
  <2>6. CASE s[n] \notin T
    <3>1. r = q
      BY <2>5, <2>6
    <3>2. Of(n) = Of(n - 1)
      BY <2>3, <2>6 DEF Of
    <3>3. Places(q, n)
      BY <2>4, <3>2 DEF Places
    <3> QED
      BY <2>1, <3>1, <3>3
  <2>7. CASE s[n] \in T
    <3>1. q \in Seq(S) /\ r = Append(q, s[n])
      BY <2>4, <2>5, <2>7 DEF Places
    <3>2. /\ r \in Seq(S) /\ Len(q) \in Nat /\ DOMAIN q = 1 .. Len(q)
          /\ DOMAIN r = 1 .. (Len(q) + 1) /\ r[Len(q) + 1] = s[n]
          /\ \A i \in DOMAIN q : r[i] = q[i]
      BY <2>5, <3>1
    <3>3. PICK f \in [Of(n - 1) -> DOMAIN q] :
              /\ \A i \in Of(n - 1) : q[f[i]] = s[i]
              /\ \A i, j \in Of(n - 1) : f[i] = f[j] => i = j
      BY <2>4 DEF Places
    <3> HIDE DEF q, r
    <3>4. \A i \in Of(n) : i \in Of(n - 1) \/ i = n
      BY <2>3 DEF Of
    <3> DEFINE g == [i \in Of(n) |-> IF i = n THEN Len(q) + 1 ELSE f[i]]
    <3>5. \A i \in Of(n) : i # n => i \in Of(n - 1) /\ f[i] \in DOMAIN q /\ f[i] # Len(q) + 1 /\ g[i] = f[i]
      BY <3>2, <3>3, <3>4
    <3>6. \A i \in Of(n) : i = n => g[i] = Len(q) + 1
      OBVIOUS
    <3>7. g \in [Of(n) -> DOMAIN r]
      BY <3>2, <3>5
    <3> HIDE DEF g
    <3>8. \A i \in Of(n) : r[g[i]] = s[i]
      BY <3>2, <3>3, <3>5, <3>6
    <3>9. \A i, j \in Of(n) : g[i] = g[j] => i = j
      BY <3>3, <3>5, <3>6
    <3>10. Places(r, n)
      BY <3>2, <3>7, <3>8, <3>9 DEF Places
    <3> QED
      BY <2>1, <3>10 DEF r
  <2> QED
    BY <2>6, <2>7
<1>3. Len(s) \in 0 .. Len(s) /\ DOMAIN s = 1 .. Len(s)
  OBVIOUS
<1>4. Places(kept[Len(s)], Len(s))
  BY <1>2, <1>3
<1>5. Of(Len(s)) = {i \in DOMAIN s : s[i] \in T}
  BY <1>3 DEF Of
<1>6. PICK f \in [Of(Len(s)) -> DOMAIN kept[Len(s)]] :
          /\ \A i \in Of(Len(s)) : kept[Len(s)][f[i]] = s[i]
          /\ \A i, j \in Of(Len(s)) : f[i] = f[j] => i = j
  BY <1>4 DEF Places
<1> QED
  BY <1>1, <1>5, <1>6, ZenonT(60)

\* Of a list that is kept but for one stretch, what is before and what is after.
PlaceBut(j, p, q) == IF j =< p THEN j ELSE j + (q - p)
KeepsBut(d, T, p, q) ==
    p =< q /\ q =< Len(d) /\ \A j \in DOMAIN d : d[j] \in T <=> (j =< p \/ j > q)
IsBut(x, S, d, p, q) ==
    /\ x \in Seq(S) /\ Len(x) = Len(d) - (q - p)
    /\ \A j \in 1 .. (Len(d) - (q - p)) : x[j] = d[PlaceBut(j, p, q)]
LEMMA SiftedBut ==
    ASSUME NEW S, NEW d \in Seq(S), NEW T, NEW p \in Nat, NEW q \in Nat, KeepsBut(d, T, p, q)
    PROVE  IsBut(Sifted(d, T), S, d, p, q)
<1>0. p =< q /\ q =< Len(d) /\ \A j \in DOMAIN d : d[j] \in T <=> (j =< p \/ j > q)
  BY DEF KeepsBut
<1>1. PICK kept : /\ Sifted(d, T) = kept[Len(d)]
                  /\ \A n \in 0 .. Len(d) : kept[n] = KeptAt(kept, d, T, n)
  BY SiftedIsKept
<1> DEFINE many(n) == IF n =< p THEN n ELSE IF n =< q THEN p ELSE n - (q - p)
           Good(s, n) == /\ s \in Seq(S) /\ Len(s) = many(n)
                         /\ \A j \in 1 .. many(n) : s[j] = d[PlaceBut(j, p, q)]
           Bad == {n \in 0 .. Len(d) : ~Good(kept[n], n)}
<1>2. Len(d) \in Nat /\ DOMAIN d = 1 .. Len(d)
  OBVIOUS
<1>3. ASSUME Bad # {} PROVE FALSE
  <2>1. PICK n \in Bad : \A y \in Bad : n =< y
    <3> Bad \in SUBSET Nat
      OBVIOUS
    <3> QED BY <1>3, LeastOne
  <2>2. n # 0
    <3>1. kept[0] = <<>>
      <4>1. 0 \in 0 .. Len(d)
        BY <1>2
      <4> QED BY <1>1, <4>1 DEF KeptAt
    <3>2. Good(kept[0], 0)
      BY <3>1
    <3> QED BY <2>1, <3>2
  <2>3. n - 1 \in 0 .. Len(d) /\ n - 1 \notin Bad /\ n \in 1 .. Len(d) /\ n \in Nat
    BY <2>1, <2>2
  <2>4. Good(kept[n - 1], n - 1)
    BY <2>3
  <2>5. d[n] \in S /\ kept[n] = IF d[n] \in T THEN Append(kept[n - 1], d[n]) ELSE kept[n - 1]
    BY <1>1, <2>3 DEF KeptAt
  <2> DEFINE s == kept[n - 1]
  <2>6. s \in Seq(S) /\ Len(s) = many(n - 1) /\ \A j \in 1 .. many(n - 1) : s[j] = d[PlaceBut(j, p, q)]
    BY <2>4
  <2>7. CASE d[n] \notin T
    <3>1. n > p /\ n =< q
      BY <1>0, <1>2, <2>3, <2>7
    <3>2. many(n) = p /\ many(n - 1) = p
      BY <2>3, <3>1
    <3>3. Good(kept[n], n)
      BY <2>5, <2>6, <2>7, <3>2
    <3> QED BY <2>1, <3>3
  <2>8. CASE d[n] \in T
    <3>1. n =< p \/ n > q
      BY <1>0, <1>2, <2>3, <2>8
    <3>2. many(n) = many(n - 1) + 1 /\ many(n - 1) \in Nat /\ PlaceBut(many(n), p, q) = n
      BY <1>0, <2>3, <3>1 DEF PlaceBut
    <3>3. PICK m, w, v : m = many(n - 1) /\ w = kept[n - 1] /\ v = kept[n]
      OBVIOUS
    <3>4. w \in Seq(S) /\ Len(w) = m /\ m \in Nat /\ v = Append(w, d[n]) /\ d[n] \in S
      BY <2>5, <2>6, <2>8, <3>2, <3>3
    <3>5. /\ v \in Seq(S) /\ Len(v) = m + 1 /\ v[m + 1] = d[n] /\ \A j \in 1 .. m : v[j] = w[j]
          /\ \A j \in 1 .. (m + 1) : j = m + 1 \/ j \in 1 .. m
      BY <3>4
    <3>6. /\ \A j \in 1 .. m : w[j] = d[PlaceBut(j, p, q)]
          /\ many(n) = m + 1 /\ PlaceBut(m + 1, p, q) = n
      BY <2>6, <3>2, <3>3
    <3> HIDE DEF many
    <3>7. \A j \in 1 .. (m + 1) : v[j] = d[PlaceBut(j, p, q)]
      BY <3>5, <3>6
    <3>8. Good(kept[n], n)
      BY <3>3, <3>5, <3>6, <3>7
    <3> QED BY <2>1, <3>8
  <2> QED BY <2>7, <2>8
<1>4. Len(d) \in 0 .. Len(d) /\ many(Len(d)) = Len(d) - (q - p)
  BY <1>0, <1>2
<1>5. Good(kept[Len(d)], Len(d))
  BY <1>3, <1>4
<1> QED BY <1>1, <1>4, <1>5 DEF IsBut
=============================================================================
