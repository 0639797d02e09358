------------------------------ MODULE BodyProofs ------------------------------
(***************************************************************************)
(* Proofs about the body of a document, for any alphabet, any texts and    *)
(* edits, and any number of events, calls, failures and restarts: about    *)
(* the algebra of text (BodyDelta), the editor's side (BodyClient) and the *)
(* server's (BaseControl over body data).                                  *)
(*                                                                         *)
(* First the algebra: what compose, diff and transform do to texts.  Then  *)
(* what a step of the client does to the queues, whatever they hold, and   *)
(* two invariants, each kept by every handler: Flow says what is under way *)
(* in which state of the machine, and Data that whatever is on its way     *)
(* fits the text that it will meet.  The server is the last: a rebase      *)
(* leaves the last newline alone if everyone does.                         *)
(***************************************************************************)
EXTENDS BodyClient, Inductions, FiniteSetTheorems, TLAPS

-----------------------------------------------------------------------------
(* Texts and what deltas make of them *)

Row(X) == Seq(X)

\* What a delta may turn a text of n characters into: no character of the text
\* comes twice.
Source(n) ==
  {s \in Row(Chars \cup (1..n)) :
     \A i, j \in 1..Len(s) : s[i] = s[j] /\ s[i] \notin Chars => i = j}

BodyDeltas == {d \in [len : Nat, to : Row(Chars \cup Nat)] : d.to \in Source(d.len)}

Extend(s, n, m) == s \o [i \in 1..(m - n) |-> n + i]

LEMMA RowOf ==
  ASSUME NEW S, NEW n \in Nat, NEW f \in [1..n -> S]
  PROVE  f \in Row(S) /\ Len(f) = n /\ DOMAIN f = 1..n
  BY DEF Row

LEMMA SameRow ==
  ASSUME NEW S, NEW p \in Row(S), NEW q \in Row(S), Len(p) = Len(q),
         \A i \in 1..Len(p) : p[i] = q[i]
  PROVE  p = q
<1>1. p \in Seq(S) /\ q \in Seq(S)
  BY DEF Row
<1>2. QED
  BY <1>1

Joined(s, t) == s \o t

LEMMA JoinedIs ==
  ASSUME NEW S, NEW s \in Row(S), NEW t \in Row(S)
  PROVE  /\ Joined(s, t) \in Row(S) /\ Len(s) \in Nat /\ Len(t) \in Nat
         /\ Len(Joined(s, t)) = Len(s) + Len(t)
         /\ \A i \in 1..Len(s) : Joined(s, t)[i] = s[i]
         /\ \A i \in 1..Len(t) : Joined(s, t)[Len(s) + i] = t[i]
  BY DEF Row, Joined

LEMMA PrefixIs ==
  ASSUME NEW S, NEW s \in Row(S), NEW k \in 0..Len(s)
  PROVE  /\ SubSeq(s, 1, k) \in Row(S) /\ Len(SubSeq(s, 1, k)) = k
         /\ \A i \in 1..k : SubSeq(s, 1, k)[i] = s[i]
  BY DEF Row

LEMMA SourceIs ==
  ASSUME NEW n \in Nat, NEW s \in Source(n)
  PROVE  /\ s \in Row(Chars \cup (1..n)) /\ Len(s) \in Nat
         /\ \A i \in 1..Len(s) : s[i] \in Chars \cup (1..n)
         /\ \A i, j \in 1..Len(s) : s[i] = s[j] /\ s[i] \notin Chars => i = j
<1>1. s \in Row(Chars \cup (1..n))
  BY DEF Source
<1>2. Len(s) \in Nat /\ \A i \in 1..Len(s) : s[i] \in Chars \cup (1..n)
  BY <1>1 DEF Row
<1> QED
  BY <1>1, <1>2 DEF Source

LEMMA ExtendIs ==
  ASSUME NEW n \in Nat, NEW m \in Nat, n <= m, NEW s \in Source(n)
  PROVE  /\ Extend(s, n, m) \in Source(m)
         /\ Len(s) \in Nat /\ Len(Extend(s, n, m)) = Len(s) + (m - n)
         /\ \A i \in 1..Len(s) : Extend(s, n, m)[i] = s[i]
         /\ \A i \in 1..(m - n) : Extend(s, n, m)[Len(s) + i] = n + i
<1> DEFINE rest == [i \in 1..(m - n) |-> n + i]
           X == Chars \cup (1..m)
<1>1. m - n \in Nat /\ rest \in [1..(m - n) -> X]
  OBVIOUS
<1>2. rest \in Row(X) /\ Len(rest) = m - n /\ \A i \in 1..(m - n) : rest[i] = n + i
  BY <1>1, RowOf
<1>3. /\ s \in Row(Chars \cup (1..n)) /\ (Chars \cup (1..n)) \subseteq X /\ Len(s) \in Nat
      /\ \A i \in 1..Len(s) : s[i] \in Chars \cup (1..n)
      /\ \A i, j \in 1..Len(s) : s[i] = s[j] /\ s[i] \notin Chars => i = j
  BY SourceIs DEF Row
<1>4. s \in Row(X)
  BY <1>3 DEF Row
<1> HIDE DEF rest, X
<1>5. /\ s \o rest \in Row(X) /\ Len(s \o rest) = Len(s) + Len(rest)
      /\ \A i \in 1..Len(s) : (s \o rest)[i] = s[i]
      /\ \A i \in 1..Len(rest) : (s \o rest)[Len(s) + i] = rest[i]
  <2>1. s \in Seq(X) /\ rest \in Seq(X)
    BY <1>2, <1>4 DEF Row
  <2> QED
    BY <2>1 DEF Row
<1> DEFINE e == s \o rest
<1>6. Extend(s, n, m) = e
  BY DEF Extend, rest
<1>7. /\ e \in Row(X) /\ Len(e) = Len(s) + (m - n) /\ Len(s) \in Nat
      /\ \A i \in 1..Len(s) : e[i] = s[i] /\ s[i] \in Chars \cup (1..n)
      /\ \A i \in 1..(m - n) : e[Len(s) + i] = n + i
  BY <1>2, <1>3, <1>5 DEF Row
<1> HIDE DEF e
<1>8. ASSUME NEW i \in 1..Len(e), NEW j \in 1..Len(e), e[i] = e[j], e[i] \notin Chars
      PROVE  i = j
  <2>1. \A k \in 1..Len(e) : k > Len(s) => e[k] = n + (k - Len(s))
    <3> SUFFICES ASSUME NEW k \in 1..Len(e), k > Len(s) PROVE e[k] = n + (k - Len(s))
      OBVIOUS
    <3>1. k - Len(s) \in 1..(m - n) /\ Len(s) + (k - Len(s)) = k
      BY <1>7
    <3> QED
      BY <1>7, <3>1
  <2>2. \A k \in 1..Len(e) : k <= Len(s) => k \in 1..Len(s) /\ e[k] = s[k] /\ e[k] \in Chars \cup (1..n)
    BY <1>7
  <2>3. CASE i <= Len(s) /\ j <= Len(s)
    BY <1>3, <1>8, <2>2, <2>3
  <2>4. CASE i <= Len(s) /\ j > Len(s)
    <3>1. e[i] \in 1..n /\ e[j] = n + (j - Len(s))
      BY <1>8, <2>1, <2>2, <2>4
    <3> QED
      BY <1>7, <1>8, <2>4, <3>1
  <2>5. CASE i > Len(s) /\ j <= Len(s)
    <3>1. e[j] \in 1..n /\ e[i] = n + (i - Len(s))
      BY <1>8, <2>1, <2>2, <2>5
    <3> QED
      BY <1>7, <1>8, <2>5, <3>1
  <2>6. CASE i > Len(s) /\ j > Len(s)
    <3>1. e[j] = n + (j - Len(s)) /\ e[i] = n + (i - Len(s))
      BY <2>1, <2>6
    <3> QED
      BY <1>7, <1>8, <3>1
  <2> QED
    BY <1>7, <2>3, <2>4, <2>5, <2>6
<1>9. e \in Source(m)
  BY <1>7, <1>8 DEF Source, X
<1> QED
  BY <1>6, <1>7, <1>9

\* The greatest element of a set of natural numbers that has a bound.
LEMMA GreatestNatural ==
  ASSUME NEW n \in Nat, NEW S \in SUBSET (0..n), S # {}
  PROVE  \E m \in S : \A k \in S : k <= m
<1> DEFINE Below == {n - k : k \in S}
<1>0. \A k \in S : k \in 0..n
  OBVIOUS
<1>1. Below \in SUBSET Nat
  BY <1>0
<1>5. Below # {}
  <2>1. PICK k \in S : TRUE
    OBVIOUS
  <2>2. n - k \in Below
    BY <2>1
  <2> QED
    BY <2>2
<1>2. PICK l \in Below : \A k \in Below : l <= k
  BY <1>1, <1>5, LeastNatural
<1>3. PICK m \in S : l = n - m
  BY <1>2
<1>4. ASSUME NEW k \in S PROVE k <= m
  <2>1. l <= n - k /\ m \in 0..n /\ k \in 0..n
    BY <1>0, <1>2
  <2> QED
    BY <1>3, <2>1
<1> QED
  BY <1>4

LEMMA SubstituteAt ==
  ASSUME NEW s, Len(s) \in Nat, NEW t \in Source(Len(s))
  PROVE  /\ Len(t) \in Nat /\ Len(Substitute(s, t)) = Len(t)
         /\ \A k \in 1..Len(t) :
              /\ t[k] \notin Chars => t[k] \in 1..Len(s)
              /\ Substitute(s, t)[k] = IF t[k] \in Chars THEN t[k] ELSE s[t[k]]
<1>1. Len(t) \in Nat /\ \A k \in 1..Len(t) : t[k] \in Chars \cup (1..Len(s))
  BY SourceIs
<1>2. \A k \in 1..Len(t) : Substitute(s, t)[k] = IF t[k] \in Chars THEN t[k] ELSE s[t[k]]
  BY DEF Substitute
<1>3. Len(Substitute(s, t)) = Len(t)
  BY <1>1 DEF Substitute
<1> QED
  BY <1>1, <1>2, <1>3

LEMMA SubstituteIn ==
  ASSUME NEW X, NEW s \in Row(X), NEW t \in Source(Len(s))
  PROVE  Substitute(s, t) \in Row(X \cup Chars)
<1>0. Len(s) \in Nat /\ \A i \in 1..Len(s) : s[i] \in X
  BY DEF Row
<1>1. Len(t) \in Nat /\ \A k \in 1..Len(t) : t[k] \in Chars \cup (1..Len(s))
  BY <1>0, SourceIs
<1>2. \A k \in 1..Len(t) : t[k] \notin Chars => t[k] \in 1..Len(s) /\ s[t[k]] \in X
  BY <1>0, <1>1
<1>3. Substitute(s, t) \in [1..Len(t) -> X \cup Chars]
  BY <1>1, <1>2 DEF Substitute
<1> QED
  BY <1>1, <1>3, RowOf DEF Row

LEMMA SubstituteSource ==
  ASSUME NEW n \in Nat, NEW s \in Source(n), NEW t \in Source(Len(s))
  PROVE  Substitute(s, t) \in Source(n)
<1> DEFINE Y == Chars \cup (1..n)
           st == Substitute(s, t)
<1>0. Len(s) \in Nat /\ s \in Row(Y) /\ Y \cup Chars = Y
  BY SourceIs
<1> HIDE DEF Y
<1>1. st \in Row(Y)
  BY <1>0, SubstituteIn
<1>2. /\ Len(t) \in Nat /\ Len(st) = Len(t)
      /\ \A k \in 1..Len(t) :
           /\ t[k] \notin Chars => t[k] \in 1..Len(s)
           /\ st[k] = IF t[k] \in Chars THEN t[k] ELSE s[t[k]]
  BY <1>0, SubstituteAt
<1> HIDE DEF st
<1>3. ASSUME NEW i \in 1..Len(st), NEW j \in 1..Len(st), st[i] = st[j], st[i] \notin Chars
      PROVE  i = j
  <2>1. /\ t[i] \notin Chars /\ t[j] \notin Chars /\ st[i] = s[t[i]] /\ st[j] = s[t[j]]
        /\ t[i] \in 1..Len(s) /\ t[j] \in 1..Len(s)
    BY <1>2, <1>3
  <2>2. t[i] = t[j]
    <3>1. PICK k \in 1..Len(s), l \in 1..Len(s) : k = t[i] /\ l = t[j]
      BY <2>1
    <3>2. s[k] = s[l] /\ s[k] \notin Chars
      BY <1>3, <2>1, <3>1
    <3> QED
      BY <3>1, <3>2, SourceIs
  <2>3. \A k, l \in 1..Len(t) : t[k] = t[l] /\ t[k] \notin Chars => k = l
    BY <1>0, SourceIs
  <2> QED
    BY <1>2, <2>1, <2>2, <2>3
<1> QED
  BY <1>1, <1>3 DEF Source, Y, st

LEMMA SubstituteAgain ==
  ASSUME NEW X, NEW r \in Row(X), NEW s \in Source(Len(r)), NEW t \in Source(Len(s))
  PROVE  Substitute(Substitute(r, s), t) = Substitute(r, Substitute(s, t))
<1> DEFINE rs == Substitute(r, s)
           st == Substitute(s, t)
<1>0. Len(r) \in Nat
  BY DEF Row
<1>1. Len(s) \in Nat /\ st \in Source(Len(r))
  BY <1>0, SourceIs, SubstituteSource
<1>2. /\ rs \in Row(X \cup Chars) /\ Len(rs) = Len(s)
      /\ \A j \in 1..Len(s) : rs[j] = IF s[j] \in Chars THEN s[j] ELSE r[s[j]]
  <2>1. rs \in Row(X \cup Chars)
    BY SubstituteIn
  <2>2. /\ Len(rs) = Len(s)
        /\ \A j \in 1..Len(s) : rs[j] = IF s[j] \in Chars THEN s[j] ELSE r[s[j]]
    BY <1>0, SubstituteAt
  <2> QED
    BY <2>1, <2>2
<1>3. /\ Len(st) = Len(t)
      /\ \A k \in 1..Len(t) :
           /\ t[k] \notin Chars => t[k] \in 1..Len(s)
           /\ st[k] = IF t[k] \in Chars THEN t[k] ELSE s[t[k]]
  BY <1>1, SubstituteAt
<1> HIDE DEF rs, st
<1>5. /\ Substitute(rs, t) \in Row((X \cup Chars) \cup Chars) /\ Len(Substitute(rs, t)) = Len(t)
      /\ \A k \in 1..Len(t) : Substitute(rs, t)[k] = IF t[k] \in Chars THEN t[k] ELSE rs[t[k]]
  BY <1>1, <1>2, SubstituteIn, SubstituteAt
<1>6. /\ Substitute(r, st) \in Row(X \cup Chars) /\ Len(Substitute(r, st)) = Len(st)
      /\ \A k \in 1..Len(st) : Substitute(r, st)[k] = IF st[k] \in Chars THEN st[k] ELSE r[st[k]]
  BY <1>0, <1>1, SubstituteIn, SubstituteAt
<1>7. \A k \in 1..Len(t) : Substitute(rs, t)[k] = Substitute(r, st)[k]
  BY <1>2, <1>3, <1>5, <1>6
<1>8. (X \cup Chars) \cup Chars = X \cup Chars
  OBVIOUS
<1>9. Substitute(rs, t) = Substitute(r, st)
  BY <1>3, <1>5, <1>6, <1>7, <1>8, SameRow DEF Row
<1> QED
  BY <1>9 DEF rs, st

-----------------------------------------------------------------------------
(* Deltas *)

LEMMA DeltaIs ==
  ASSUME NEW d \in BodyDeltas
  PROVE  d.len \in Nat /\ d.to \in Source(d.len)
  BY DEF BodyDeltas

LEMMA UnchoppedIs ==
  ASSUME NEW d \in BodyDeltas, NEW n \in Nat, d.len <= n
  PROVE  /\ Unchopped(d, n) = Extend(d.to, d.len, n)
         /\ Unchopped(d, n) \in Source(n)
         /\ Len(d.to) \in Nat /\ Len(Unchopped(d, n)) = Len(d.to) + (n - d.len)
         /\ \A i \in 1..Len(d.to) : Unchopped(d, n)[i] = d.to[i]
         /\ \A i \in 1..(n - d.len) : Unchopped(d, n)[Len(d.to) + i] = d.len + i
<1>1. d.len \in Nat /\ d.to \in Source(d.len)
  BY DeltaIs
<1>2. Unchopped(d, n) = Extend(d.to, d.len, n)
  BY DEF Unchopped, Extend
<1>5. PICK l \in Nat : l = d.len
  BY <1>1
<1>3. PICK s \in Source(l) : l = d.len /\ s = d.to
  BY <1>1, <1>5
<1>4. /\ Extend(s, l, n) \in Source(n)
      /\ Len(s) \in Nat /\ Len(Extend(s, l, n)) = Len(s) + (n - l)
      /\ \A i \in 1..Len(s) : Extend(s, l, n)[i] = s[i]
      /\ \A i \in 1..(n - l) : Extend(s, l, n)[Len(s) + i] = l + i
  BY <1>3, ExtendIs
<1> QED
  BY <1>2, <1>3, <1>4

\* Chop() takes away what Unchopped() adds, and nothing else.
LEMMA ChopIs ==
  ASSUME NEW n \in Nat, NEW s \in Source(n)
  PROVE  /\ Chop(n, s) \in BodyDeltas /\ Chop(n, s).len <= n
         /\ \A m \in Nat : n <= m => Unchopped(Chop(n, s), m) = Extend(s, n, m)
<1> DEFINE tail(k) == /\ k <= Len(s)
                      /\ \A i \in 0..(k - 1) : s[Len(s) - i] = n - i
           k0 == CHOOSE k \in 0..n : tail(k) /\ ~ (k < n /\ tail(k + 1))
           to == SubSeq(s, 1, Len(s) - k0)
           S == {k \in 0..n : tail(k)}
<1>0. /\ s \in Row(Chars \cup (1..n)) /\ Len(s) \in Nat
      /\ \A i \in 1..Len(s) : s[i] \in Chars \cup (1..n)
      /\ \A i, j \in 1..Len(s) : s[i] = s[j] /\ s[i] \notin Chars => i = j
  BY SourceIs
<1>1. \E k \in 0..n : tail(k) /\ ~ (k < n /\ tail(k + 1))
  <2>1. S \in SUBSET (0..n)
    OBVIOUS
  <2>2. 0 \in S
    BY <1>0
  <2> HIDE DEF S
  <2>3. PICK k \in S : \A l \in S : l <= k
    BY <2>1, <2>2, GreatestNatural
  <2>4. k \in 0..n /\ tail(k)
    BY <2>3 DEF S
  <2>5. ASSUME k < n, tail(k + 1) PROVE FALSE
    <3>1. k + 1 \in 0..n
      BY <2>4, <2>5
    <3>2. k + 1 \in S
      BY <2>5, <3>1 DEF S
    <3> QED
      BY <2>3, <2>4, <3>2
  <2> QED
    BY <2>4, <2>5
<1>2. k0 \in 0..n /\ tail(k0)
  BY <1>1
<1>3. Chop(n, s) = [len |-> n - k0, to |-> to]
  BY DEF Chop
<1> HIDE DEF k0
<1>4. /\ n - k0 \in Nat /\ n - k0 <= n /\ Len(s) - k0 \in Nat /\ k0 <= Len(s)
      /\ \A i \in 0..(k0 - 1) : s[Len(s) - i] = n - i
  BY <1>0, <1>2
<1>41. /\ n - k0 \in Nat /\ Len(s) - k0 \in 0..Len(s) /\ k0 \in 0..n
       /\ Len(s) \in Nat /\ k0 <= Len(s)
  BY <1>0, <1>4, <1>2
<1>5. /\ Len(to) = Len(s) - k0 /\ to \in Row(Chars \cup (1..n))
      /\ \A i \in 1..Len(to) : to[i] = s[i] /\ i \in 1..Len(s)
  <2>1. PICK k \in 0..Len(s) : k = Len(s) - k0
    BY <1>41
  <2>2. /\ Len(to) = k /\ to \in Row(Chars \cup (1..n))
        /\ \A i \in 1..k : to[i] = s[i]
    BY <1>0, <2>1, PrefixIs
  <2> QED
    BY <1>41, <2>1, <2>2
<1> HIDE DEF to, S
<1>6. \A i \in 1..Len(to) : to[i] \in Chars \cup (1..(n - k0))
  <2> SUFFICES ASSUME NEW i \in 1..Len(to), to[i] \notin 1..(n - k0) PROVE to[i] \in Chars
    OBVIOUS
  <2>1. SUFFICES ASSUME to[i] \notin Chars PROVE FALSE
    OBVIOUS
  <2>2. s[i] = to[i] /\ i \in 1..Len(s) /\ i <= Len(s) - k0 /\ s[i] \in 1..n
    BY <1>0, <1>4, <1>5, <2>1
  <2>3. PICK p \in 1..n : p = s[i]
    BY <2>2
  <2>4. p > n - k0
    BY <1>4, <2>2, <2>3
  <2>5. n - p \in 0..(k0 - 1) /\ Len(s) - (n - p) \in 1..Len(s) /\ n - (n - p) = p
    <3>1. \A k, l, q \in Nat : q <= n /\ q > n - k /\ k <= l /\ k <= n =>
            n - q \in 0..(k - 1) /\ l - (n - q) \in 1..l /\ n - (n - q) = q
      OBVIOUS
    <3>2. k0 \in Nat /\ Len(s) \in Nat /\ p \in Nat /\ p <= n /\ k0 <= Len(s) /\ k0 <= n
      BY <1>41
    <3> QED
      BY <2>4, <3>1, <3>2
  <2>6. s[Len(s) - (n - p)] = p
    BY <1>4, <2>5
  <2>7. Len(s) - (n - p) = i
    BY <1>0, <2>1, <2>2, <2>3, <2>5, <2>6
  <2> QED
    BY <1>0, <1>2, <2>2, <2>5, <2>7
<1>7. to \in Source(n - k0)
  <2>1. to \in Row(Chars \cup (1..(n - k0)))
    <3>1. to \in Seq(Chars \cup (1..n))
      BY <1>5 DEF Row
    <3>2. Len(to) \in Nat /\ to \in [1..Len(to) -> Chars \cup (1..(n - k0))]
      BY <1>6, <3>1
    <3> QED
      BY <3>2, RowOf
  <2>2. \A i, j \in 1..Len(to) : to[i] = to[j] /\ to[i] \notin Chars => i = j
    BY <1>0, <1>5
  <2> QED
    BY <2>1, <2>2 DEF Source
<1> DEFINE d == [len |-> n - k0, to |-> to]
<1>8. d \in BodyDeltas /\ d.len <= n
  <2>1. to \in Row(Chars \cup Nat)
    <3>1. to \in Seq(Chars \cup (1..(n - k0)))
      BY <1>4, <1>7, SourceIs DEF Row
    <3>2. to \in Seq(Chars \cup Nat)
      BY <1>4, <3>1
    <3> QED
      BY <3>2 DEF Row
  <2> QED
    BY <1>4, <1>7, <2>1 DEF BodyDeltas
<1>9. ASSUME NEW m \in Nat, n <= m PROVE Unchopped(d, m) = Extend(s, n, m)
  <2>0. d.len = n - k0 /\ d.to = to
    OBVIOUS
  <2> HIDE DEF d
  <2> DEFINE u == Unchopped(d, m)
             e == Extend(s, n, m)
  <2>1. /\ u \in Source(m) /\ Len(to) \in Nat /\ Len(u) = Len(to) + (m - (n - k0))
        /\ \A i \in 1..Len(to) : u[i] = to[i]
        /\ \A i \in 1..(m - (n - k0)) : u[Len(to) + i] = (n - k0) + i
    <3>1. d.len <= m
      BY <1>41, <2>0, <1>9
    <3>2. /\ u \in Source(m) /\ Len(d.to) \in Nat /\ Len(u) = Len(d.to) + (m - d.len)
          /\ \A i \in 1..Len(d.to) : u[i] = d.to[i]
          /\ \A i \in 1..(m - d.len) : u[Len(d.to) + i] = d.len + i
      BY <1>8, <3>1, UnchoppedIs
    <3> QED
      BY <2>0, <3>2
  <2>2. /\ e \in Source(m) /\ Len(e) = Len(s) + (m - n)
        /\ \A i \in 1..Len(s) : e[i] = s[i]
        /\ \A i \in 1..(m - n) : e[Len(s) + i] = n + i
    BY <1>9, ExtendIs
  <2> HIDE DEF u, e
  <2>3. Len(u) = Len(e)
    BY <1>0, <1>2, <1>4, <1>5, <2>1, <2>2
  <2>4. ASSUME NEW i \in 1..Len(u) PROVE u[i] = e[i]
    <3>1. CASE i <= Len(to)
      <4>1. i \in 1..Len(to) /\ i \in 1..Len(s)
        BY <1>5, <2>1, <3>1
      <4> QED
        BY <1>5, <2>1, <2>2, <4>1
    <3>2. CASE i > Len(to) /\ i <= Len(s)
      <4>1. i - Len(to) \in 1..(m - (n - k0)) /\ Len(to) + (i - Len(to)) = i /\ i \in 1..Len(s)
        BY <1>0, <1>4, <2>1, <3>2
      <4>2. u[i] = (n - k0) + (i - Len(to))
        BY <2>1, <4>1
      <4>3. Len(s) - i \in 0..(k0 - 1) /\ Len(s) - (Len(s) - i) = i
        BY <1>0, <1>2, <1>5, <3>2, <4>1
      <4>4. s[i] = n - (Len(s) - i)
        BY <1>4, <4>3
      <4>5. (n - k0) + (i - Len(to)) = n - (Len(s) - i)
        BY <1>0, <1>2, <1>5, <4>1
      <4> QED
        BY <2>2, <4>1, <4>2, <4>4, <4>5
    <3>3. CASE i > Len(s)
      <4>1. i - Len(to) \in 1..(m - (n - k0)) /\ Len(to) + (i - Len(to)) = i
        BY <1>0, <1>2, <1>4, <1>5, <2>1, <3>3
      <4>2. u[i] = (n - k0) + (i - Len(to))
        BY <2>1, <4>1
      <4>3. i - Len(s) \in 1..(m - n) /\ Len(s) + (i - Len(s)) = i
        BY <1>0, <1>9, <2>2, <2>3, <3>3
      <4>4. e[i] = n + (i - Len(s))
        BY <2>2, <4>3
      <4>5. (n - k0) + (i - Len(to)) = n + (i - Len(s))
        BY <1>0, <1>2, <1>5, <4>3
      <4> QED
        BY <4>2, <4>4, <4>5
    <3> QED
      BY <1>0, <2>1, <3>1, <3>2, <3>3
  <2>5. u = e
    <3>1. u \in Row(Chars \cup (1..m)) /\ e \in Row(Chars \cup (1..m))
      BY <2>1, <2>2, SourceIs
    <3> QED
      BY <2>3, <2>4, <3>1, SameRow
  <2> QED
    BY <2>5 DEF u, e
<1> HIDE DEF d
<1>10. Chop(n, s) = d
  BY <1>3 DEF d
<1> QED
  BY <1>8, <1>9, <1>10

LEMMA ExtendTwice ==
  ASSUME NEW l \in Nat, NEW n \in Nat, NEW m \in Nat, l <= n, n <= m, NEW s \in Source(l)
  PROVE  Extend(Extend(s, l, n), n, m) = Extend(s, l, m)
<1> DEFINE e == Extend(s, l, n)
           ee == Extend(e, n, m)
           f == Extend(s, l, m)
<1>1. /\ e \in Source(n) /\ Len(s) \in Nat /\ Len(e) = Len(s) + (n - l)
      /\ \A i \in 1..Len(s) : e[i] = s[i]
      /\ \A i \in 1..(n - l) : e[Len(s) + i] = l + i
  BY ExtendIs
<1>2. /\ f \in Source(m) /\ Len(f) = Len(s) + (m - l)
      /\ \A i \in 1..Len(s) : f[i] = s[i]
      /\ \A i \in 1..(m - l) : f[Len(s) + i] = l + i
  <2>1. l <= m
    OBVIOUS
  <2> QED
    BY <2>1, ExtendIs
<1> HIDE DEF e, f
<1>3. /\ ee \in Source(m) /\ Len(ee) = Len(e) + (m - n)
      /\ \A i \in 1..Len(e) : ee[i] = e[i]
      /\ \A i \in 1..(m - n) : ee[Len(e) + i] = n + i
  BY <1>1, ExtendIs
<1> HIDE DEF ee
<1>4. Len(ee) = Len(f)
  BY <1>1, <1>2, <1>3
<1>5. ASSUME NEW k \in 1..Len(ee) PROVE ee[k] = f[k]
  <2>1. CASE k <= Len(s)
    <3>1. k \in 1..Len(s) /\ k \in 1..Len(e)
      BY <1>1, <2>1
    <3> QED
      BY <1>1, <1>2, <1>3, <3>1
  <2>2. CASE k > Len(s)
    <3>1. PICK i \in 1..(m - l) : k = Len(s) + i
      <4>1. k - Len(s) \in 1..(m - l) /\ k = Len(s) + (k - Len(s))
        BY <1>1, <1>2, <1>4, <2>2
      <4> QED
        BY <4>1
    <3>2. f[k] = l + i
      BY <1>2, <3>1
    <3>3. CASE i <= n - l
      <4>1. i \in 1..(n - l) /\ k \in 1..Len(e)
        BY <1>1, <3>1, <3>3
      <4> QED
        BY <1>1, <1>3, <3>1, <3>2, <4>1
    <3>4. CASE i > n - l
      <4>1. PICK j \in 1..(m - n) : i = (n - l) + j
        <5>1. i - (n - l) \in 1..(m - n) /\ i = (n - l) + (i - (n - l))
          BY <3>4
        <5> QED
          BY <5>1
      <4>2. k = Len(e) + j /\ n + j = l + i
        BY <1>1, <3>1, <4>1
      <4> QED
        BY <1>3, <3>2, <4>1, <4>2
    <3> QED
      BY <3>3, <3>4
  <2> QED
    BY <1>1, <1>3, <2>1, <2>2
<1>6. ee \in Row(Chars \cup (1..m)) /\ f \in Row(Chars \cup (1..m))
  BY <1>2, <1>3, SourceIs
<1>7. ee = f
  BY <1>4, <1>5, <1>6, SameRow
<1> QED
  BY <1>7 DEF e, ee, f

\* What is retained at the end does not matter.
LEMMA ExtendSubstitute ==
  ASSUME NEW n \in Nat, NEW m \in Nat, n <= m, NEW s \in Source(n), NEW t \in Source(Len(s))
  PROVE  Substitute(Extend(s, n, m), Extend(t, Len(s), Len(s) + (m - n)))
           = Extend(Substitute(s, t), n, m)
<1> DEFINE es == Extend(s, n, m)
           et == Extend(t, Len(s), Len(s) + (m - n))
           st == Substitute(s, t)
           left == Substitute(es, et)
           right == Extend(st, n, m)
<1>1. /\ es \in Source(m) /\ Len(s) \in Nat /\ Len(es) = Len(s) + (m - n)
      /\ \A i \in 1..Len(s) : es[i] = s[i]
      /\ \A i \in 1..(m - n) : es[Len(s) + i] = n + i
  BY ExtendIs
<1>2. Len(s) + (m - n) \in Nat /\ (Len(s) + (m - n)) - Len(s) = m - n /\ m - n \in Nat
  BY <1>1
<1>3. /\ et \in Source(Len(s) + (m - n)) /\ Len(t) \in Nat /\ Len(et) = Len(t) + (m - n)
      /\ \A i \in 1..Len(t) : et[i] = t[i]
      /\ \A i \in 1..(m - n) : et[Len(t) + i] = Len(s) + i
  <2>0. Len(s) \in Nat /\ Len(s) + (m - n) \in Nat /\ Len(s) <= Len(s) + (m - n)
    BY <1>1
  <2> HIDE DEF es, et, st, left, right
  <2>1. ASSUME NEW l \in Nat, NEW k \in Nat, l <= k, t \in Source(l)
        PROVE  /\ Extend(t, l, k) \in Source(k)
               /\ Len(t) \in Nat /\ Len(Extend(t, l, k)) = Len(t) + (k - l)
               /\ \A i \in 1..Len(t) : Extend(t, l, k)[i] = t[i]
               /\ \A i \in 1..(k - l) : Extend(t, l, k)[Len(t) + i] = l + i
    BY <2>1, ExtendIs
  <2>2. PICK l \in Nat, k \in Nat : l = Len(s) /\ k = Len(s) + (m - n) /\ l <= k
    BY <2>0
  <2>3. /\ Extend(t, l, k) \in Source(k) /\ Len(t) \in Nat /\ Len(Extend(t, l, k)) = Len(t) + (k - l)
        /\ \A i \in 1..Len(t) : Extend(t, l, k)[i] = t[i]
        /\ \A i \in 1..(k - l) : Extend(t, l, k)[Len(t) + i] = l + i
    BY <2>1, <2>2
  <2>4. k - l = m - n /\ Extend(t, l, k) = et
    BY <1>2, <2>2 DEF et
  <2> QED
    BY <2>2, <2>3, <2>4
<1>4. /\ st \in Source(n) /\ Len(st) = Len(t)
      /\ \A k \in 1..Len(t) :
           /\ t[k] \notin Chars => t[k] \in 1..Len(s)
           /\ st[k] = IF t[k] \in Chars THEN t[k] ELSE s[t[k]]
  BY <1>1, SubstituteSource, SubstituteAt
<1>41. st \in Source(n) /\ et \in Source(Len(es)) /\ Len(es) \in Nat /\ es \in Source(m)
  BY <1>1, <1>2, <1>3, <1>4
<1> HIDE DEF es, et, st
<1>5. /\ left \in Source(m) /\ Len(left) = Len(et)
      /\ \A k \in 1..Len(et) : left[k] = IF et[k] \in Chars THEN et[k] ELSE es[et[k]]
  BY <1>41, SubstituteSource, SubstituteAt
<1>6. /\ right \in Source(m) /\ Len(right) = Len(st) + (m - n)
      /\ \A i \in 1..Len(st) : right[i] = st[i]
      /\ \A i \in 1..(m - n) : right[Len(st) + i] = n + i
  BY <1>41, ExtendIs
<1> HIDE DEF left, right
<1>7. ASSUME NEW k \in 1..Len(left) PROVE left[k] = right[k]
  <2>1. CASE k <= Len(t)
    <3>1. k \in 1..Len(t) /\ k \in 1..Len(et) /\ k \in 1..Len(st)
      BY <1>3, <1>4, <1>5, <2>1
    <3>2. left[k] = IF t[k] \in Chars THEN t[k] ELSE es[t[k]]
      BY <1>3, <1>5, <3>1
    <3>3. right[k] = st[k]
      BY <1>6, <3>1
    <3>4. /\ t[k] \notin Chars => t[k] \in 1..Len(s)
          /\ st[k] = IF t[k] \in Chars THEN t[k] ELSE s[t[k]]
      BY <1>4, <3>1
    <3> QED
      BY <1>1, <3>2, <3>3, <3>4
  <2>2. CASE k > Len(t)
    <3>1. PICK i \in 1..(m - n) : k = Len(t) + i
      <4>1. k - Len(t) \in 1..(m - n) /\ k = Len(t) + (k - Len(t))
        BY <1>2, <1>3, <1>5, <2>2
      <4> QED
        BY <4>1
    <3>2. et[k] = Len(s) + i /\ es[Len(s) + i] = n + i /\ right[k] = n + i
      BY <1>1, <1>3, <1>4, <1>6, <3>1
    <3>3. Len(s) + i \notin Chars
      <4>1. Len(s) + i \in Nat
        BY <1>1, <1>2
      <4> QED
        BY <4>1, CharsAssumption
    <3>4. k \in 1..Len(et)
      BY <1>5
    <3> QED
      BY <1>5, <3>2, <3>3, <3>4
  <2> QED
    BY <1>3, <1>5, <2>1, <2>2
<1>8. Len(left) = Len(right)
  BY <1>3, <1>4, <1>5, <1>6
<1>9. left \in Row(Chars \cup (1..m)) /\ right \in Row(Chars \cup (1..m))
  BY <1>5, <1>6, SourceIs
<1>10. left = right
  BY <1>7, <1>8, <1>9, SameRow
<1> QED
  BY <1>10 DEF left, right, es, et, st

\* The texts.
Text == Row(Chars)

LEMMA TextIs ==
  ASSUME NEW text \in Text
  PROVE  /\ Len(text) \in Nat /\ text \in Row(Chars) /\ text \in Seq(Chars)
         /\ \A i \in 1..Len(text) : text[i] \in Chars
  BY DEF Text, Row

LEMMA ComposedText ==
  ASSUME NEW text \in Text, NEW d \in BodyDeltas, d.len <= Len(text)
  PROVE  /\ ComposeBody(text, d) = Substitute(text, Unchopped(d, Len(text)))
         /\ ComposeBody(text, d) \in Text
         /\ Len(ComposeBody(text, d)) = Len(d.to) + (Len(text) - d.len)
<1>1. ComposeBody(text, d) = Substitute(text, Unchopped(d, Len(text)))
  BY DEF ComposeBody
<1>2. /\ Unchopped(d, Len(text)) \in Source(Len(text))
      /\ Len(Unchopped(d, Len(text))) = Len(d.to) + (Len(text) - d.len)
  BY TextIs, UnchoppedIs
<1>3. PICK u \in Source(Len(text)) : u = Unchopped(d, Len(text))
  BY <1>2
<1>4. Substitute(text, u) \in Row(Chars \cup Chars) /\ Len(Substitute(text, u)) = Len(u)
  <2>1. text \in Row(Chars) /\ Len(text) \in Nat
    BY TextIs
  <2>2. Substitute(text, u) \in Row(Chars \cup Chars)
    BY <2>1, SubstituteIn
  <2>3. Len(Substitute(text, u)) = Len(u)
    BY <2>1, SubstituteAt
  <2> QED
    BY <2>2, <2>3
<1>5. Chars \cup Chars = Chars
  OBVIOUS
<1> QED
  BY <1>1, <1>2, <1>3, <1>4, <1>5 DEF Text

LEMMA EmptyDelta ==
  /\ EmptyBodyDelta \in BodyDeltas /\ EmptyBodyDelta.len = 0
  /\ \A text \in Text : ComposeBody(text, EmptyBodyDelta) = text
<1>1. EmptyBodyDelta \in BodyDeltas /\ EmptyBodyDelta.len = 0 /\ EmptyBodyDelta.to = <<>>
  <2>1. EmptyBodyDelta.len = 0 /\ EmptyBodyDelta.to = <<>> /\ Len(EmptyBodyDelta.to) = 0
    BY DEF EmptyBodyDelta
  <2>2. <<>> \in Row(Chars \cup Nat) /\ <<>> \in Row(Chars \cup (1..0))
    BY DEF Row
  <2>3. EmptyBodyDelta.to \in Source(EmptyBodyDelta.len)
    BY <2>1, <2>2 DEF Source
  <2>4. EmptyBodyDelta \in [len : Nat, to : Row(Chars \cup Nat)]
    BY <2>2 DEF EmptyBodyDelta
  <2> QED
    BY <2>1, <2>3, <2>4 DEF BodyDeltas
<1>2. ASSUME NEW text \in Text PROVE ComposeBody(text, EmptyBodyDelta) = text
  <2> DEFINE n == Len(text)
             u == Unchopped(EmptyBodyDelta, n)
  <2>0. n \in Nat /\ text \in Row(Chars)
    BY TextIs
  <2> HIDE DEF n
  <2>1. /\ u \in Source(n) /\ Len(u) = n
        /\ \A i \in 1..n : u[i] = i
    <3>1. /\ u \in Source(n) /\ Len(u) = Len(EmptyBodyDelta.to) + (n - EmptyBodyDelta.len)
          /\ \A i \in 1..(n - EmptyBodyDelta.len) :
               u[Len(EmptyBodyDelta.to) + i] = EmptyBodyDelta.len + i
      BY <1>1, <2>0, UnchoppedIs
    <3>2. Len(EmptyBodyDelta.to) = 0 /\ n - EmptyBodyDelta.len = n
      BY <1>1, <2>0
    <3>3. \A i \in 1..n : 0 + i = i
      BY <2>0
    <3> QED
      BY <1>1, <2>0, <3>1, <3>2, <3>3
  <2>2. ComposeBody(text, EmptyBodyDelta) = Substitute(text, u) /\ Substitute(text, u) \in Text
    BY <1>1, <1>2, <2>0, ComposedText DEF n
  <2> HIDE DEF u
  <2>3. /\ Len(Substitute(text, u)) = n
        /\ \A i \in 1..n : Substitute(text, u)[i] = IF u[i] \in Chars THEN u[i] ELSE text[u[i]]
    BY <2>0, <2>1, SubstituteAt DEF n
  <2>4. \A i \in 1..n : i \notin Chars
    BY <2>0, CharsAssumption
  <2>5. \A i \in 1..n : Substitute(text, u)[i] = text[i]
    BY <2>1, <2>3, <2>4
  <2>6. Substitute(text, u) \in Row(Chars)
    BY <2>2 DEF Text
  <2>7. Substitute(text, u) = text
    BY <2>0, <2>3, <2>5, <2>6, SameRow DEF n
  <2> QED
    BY <2>2, <2>7
<1> QED
  BY <1>1, <1>2

\* What a composed delta makes of a text is what the one makes, seen through
\* what the other makes.
LEMMA ComposedRows ==
  ASSUME NEW a \in BodyDeltas, NEW b \in BodyDeltas
  PROVE  /\ ComposeDeltas(a, b) \in BodyDeltas
         /\ \A L \in Nat :
              a.len <= L /\ b.len <= Len(a.to) + (L - a.len) =>
                /\ ComposeDeltas(a, b).len <= L
                /\ Unchopped(ComposeDeltas(a, b), L) =
                     Substitute(Unchopped(a, L), Unchopped(b, Len(a.to) + (L - a.len)))
<1> DEFINE n == a.len + (Larger(b.len, Len(a.to)) - Len(a.to))
           s == Unchopped(a, n)
           t == Unchopped(b, Len(s))
           st == Substitute(s, t)
           c == ComposeDeltas(a, b)
<1>1. a.len \in Nat /\ b.len \in Nat /\ Len(a.to) \in Nat /\ Len(b.to) \in Nat
  BY DeltaIs, SourceIs
<1>2. /\ n \in Nat /\ a.len <= n
      /\ Len(a.to) + (n - a.len) = Larger(b.len, Len(a.to))
      /\ b.len <= Larger(b.len, Len(a.to)) /\ Larger(b.len, Len(a.to)) \in Nat
  <2>1. PICK p \in Nat, q \in Nat, r \in Nat : p = a.len /\ q = b.len /\ r = Len(a.to)
    BY <1>1
  <2>2. PICK l \in Nat : l = Larger(q, r) /\ q <= l /\ r <= l
    BY DEF Larger
  <2>3. n = p + (l - r)
    BY <2>1, <2>2
  <2> HIDE DEF n, s, t, st, c
  <2>4. n \in Nat /\ p <= n /\ r + (n - p) = l
    BY <2>2, <2>3
  <2> QED
    BY <2>1, <2>2, <2>4
<1>3. c = Chop(n, st)
  BY DEF ComposeDeltas
<1>0. \A L \in Nat : a.len <= L /\ b.len <= Len(a.to) + (L - a.len) => n <= L
  BY <1>1 DEF Larger
<1> HIDE DEF n
<1>4. s \in Source(n) /\ Len(s) = Larger(b.len, Len(a.to)) /\ s = Extend(a.to, a.len, n)
  BY <1>2, UnchoppedIs
<1>5. t \in Source(Len(s)) /\ t = Extend(b.to, b.len, Len(s)) /\ Len(s) \in Nat /\ b.len <= Len(s)
  BY <1>2, <1>4, UnchoppedIs
<1> HIDE DEF s, t
<1>6. st \in Source(n)
  BY <1>2, <1>4, <1>5, SubstituteSource
<1> HIDE DEF st
<1>7. /\ c \in BodyDeltas /\ c.len <= n
      /\ \A m \in Nat : n <= m => Unchopped(c, m) = Extend(st, n, m)
  BY <1>2, <1>3, <1>6, ChopIs
<1> HIDE DEF c
<1>8. ASSUME NEW L \in Nat, a.len <= L, b.len <= Len(a.to) + (L - a.len)
      PROVE  /\ c.len <= L
             /\ Unchopped(c, L) =
                  Substitute(Unchopped(a, L), Unchopped(b, Len(a.to) + (L - a.len)))
  <2> DEFINE M == Len(s) + (L - n)
             ua == Unchopped(a, L)
             ub == Unchopped(b, M)
  <2>3. n <= L
    BY <1>0, <1>8
  <2>4. M \in Nat /\ M = Len(a.to) + (L - a.len) /\ b.len <= M
    <3>1. Len(s) = Len(a.to) + (n - a.len)
      BY <1>2, <1>4
    <3>2. PICK i \in Nat, j \in Nat, k \in Nat, l \in Nat :
            i = Len(s) /\ j = Len(a.to) /\ k = a.len /\ l = n
      BY <1>1, <1>2, <1>5
    <3> HIDE DEF ua, ub
    <3>3. i = j + (l - k)
      BY <3>1, <3>2
    <3>5. l <= L
      BY <2>3, <3>2
    <3>4. i + (L - l) = j + (L - k) /\ i + (L - l) \in Nat
      BY <3>3, <3>5
    <3> QED
      BY <1>8, <3>2, <3>4
  <2>6. c.len <= L
    <3>1. c.len \in Nat
      BY <1>7, DeltaIs
    <3> QED
      BY <1>2, <1>7, <2>3, <3>1
  <2>7. Unchopped(c, L) = Extend(st, n, L)
    BY <1>7, <2>3
  <2>9. ua = Extend(s, n, L) /\ ub = Extend(t, Len(s), M)
    <3>1. ua = Extend(s, n, L)
      <4>1. a.to \in Source(a.len) /\ a.len \in Nat
        BY DeltaIs
      <4>2. Extend(Extend(a.to, a.len, n), n, L) = Extend(a.to, a.len, L)
        BY <1>2, <2>3, <4>1, ExtendTwice
      <4>3. ua = Extend(a.to, a.len, L)
        BY <1>8, UnchoppedIs
      <4> QED
        BY <1>4, <4>2, <4>3
    <3>2. ub = Extend(t, Len(s), M)
      <4>1. Len(s) <= M
        BY <1>5, <1>2, <2>3
      <4>2. b.to \in Source(b.len) /\ b.len \in Nat /\ b.len <= Len(s)
        BY <1>5, DeltaIs
      <4>3. PICK k \in Nat : k = Len(s) /\ k <= M /\ b.len <= k
        BY <1>5, <4>1, <4>2
      <4>4. Extend(Extend(b.to, b.len, k), k, M) = Extend(b.to, b.len, M)
        BY <2>4, <4>2, <4>3, ExtendTwice
      <4>5. ub = Extend(b.to, b.len, M)
        BY <2>4, UnchoppedIs
      <4> QED
        BY <1>5, <4>3, <4>4, <4>5
    <3> QED
      BY <3>1, <3>2
  <2>10. Substitute(Extend(s, n, L), Extend(t, Len(s), M)) = Extend(st, n, L)
    <3>0. PICK x \in Source(n) : x = s
      BY <1>4
    <3>1. PICK y \in Source(Len(x)) : y = t
      BY <1>5, <3>0
    <3>2. Substitute(Extend(x, n, L), Extend(y, Len(x), Len(x) + (L - n))) =
            Extend(Substitute(x, y), n, L)
      BY <1>2, <2>3, ExtendSubstitute
    <3> QED
      BY <3>0, <3>1, <3>2 DEF st
  <2> HIDE DEF M, ua, ub
  <2> QED
    BY <2>4, <2>6, <2>7, <2>9, <2>10 DEF ua, ub
<1> QED
  BY <1>7, <1>8 DEF c

\* Deltas composed with each other do at once what they do one after the other
\* (BodyDelta._impl_compose()).
THEOREM ComposedDeltas ==
  ASSUME NEW a \in BodyDeltas, NEW b \in BodyDeltas
  PROVE  /\ ComposeDeltas(a, b) \in BodyDeltas
         /\ \A text \in Text :
              a.len <= Len(text) /\ b.len <= Len(ComposeBody(text, a)) =>
                /\ ComposeDeltas(a, b).len <= Len(text)
                /\ ComposeBody(text, ComposeDeltas(a, b)) =
                     ComposeBody(ComposeBody(text, a), b)
<1>1. PICK c \in BodyDeltas : c = ComposeDeltas(a, b)
  BY ComposedRows
<1>2. ASSUME NEW text \in Text, a.len <= Len(text), b.len <= Len(ComposeBody(text, a))
      PROVE  c.len <= Len(text) /\ ComposeBody(text, c) = ComposeBody(ComposeBody(text, a), b)
  <2>1. PICK L \in Nat : L = Len(text) /\ text \in Row(Chars)
    BY TextIs
  <2>2. PICK at \in Text : /\ at = ComposeBody(text, a) /\ at = Substitute(text, Unchopped(a, L))
                           /\ Len(at) = Len(a.to) + (L - a.len)
    BY <1>2, <2>1, ComposedText
  <2>3. PICK M \in Nat : M = Len(at) /\ M = Len(a.to) + (L - a.len)
    BY <2>2, TextIs
  <2>4. /\ c.len <= L
        /\ Unchopped(c, L) = Substitute(Unchopped(a, L), Unchopped(b, M))
    BY <1>1, <1>2, <2>1, <2>2, <2>3, ComposedRows
  <2>5. ComposeBody(at, b) = Substitute(at, Unchopped(b, M))
    BY <1>2, <2>2, <2>3, ComposedText
  <2>6. ComposeBody(text, c) = Substitute(text, Unchopped(c, L))
    BY <2>1, <2>4, ComposedText
  <2>7. /\ Unchopped(a, L) \in Source(L) /\ Len(Unchopped(a, L)) = M
        /\ Unchopped(b, M) \in Source(M)
    BY <1>2, <2>1, <2>2, <2>3, UnchoppedIs
  <2>8. PICK ua \in Source(L), ub \in Source(M) :
          ua = Unchopped(a, L) /\ ub = Unchopped(b, M) /\ Len(ua) = M
    BY <2>7
  <2>9. Substitute(Substitute(text, ua), ub) = Substitute(text, Substitute(ua, ub))
    BY <2>1, <2>8, SubstituteAgain
  <2> QED
    BY <2>1, <2>2, <2>4, <2>5, <2>6, <2>8, <2>9
<1> QED
  BY <1>1, <1>2

LEMMA ExtendNothing ==
  ASSUME NEW n \in Nat, NEW s \in Source(n)
  PROVE  Extend(s, n, n) = s
<1>0. n <= n
  OBVIOUS
<1>1. /\ Extend(s, n, n) \in Source(n) /\ Len(s) \in Nat /\ Len(Extend(s, n, n)) = Len(s) + (n - n)
      /\ \A i \in 1..Len(s) : Extend(s, n, n)[i] = s[i]
  BY <1>0, ExtendIs
<1>2. Len(s) + (n - n) = Len(s)
  BY <1>1
<1>3. s \in Row(Chars \cup (1..n)) /\ Extend(s, n, n) \in Row(Chars \cup (1..n))
  BY <1>1, SourceIs
<1> HIDE DEF Extend
<1> QED
  BY <1>1, <1>2, <1>3, SameRow

LEMMA SliceIs ==
  ASSUME NEW S, NEW s \in Row(S), NEW i \in 1..(Len(s) + 1), NEW j \in 0..Len(s), i <= j + 1
  PROVE  /\ SubSeq(s, i, j) \in Row(S) /\ Len(SubSeq(s, i, j)) = j + 1 - i
         /\ \A k \in 1..(j + 1 - i) : SubSeq(s, i, j)[k] = s[i + k - 1]
  BY DEF Row

\* A sequence with something put before and after it.
LEMMA ThreeParts ==
  ASSUME NEW S, NEW a \in Row(S), NEW b \in Row(S), NEW c \in Row(S)
  PROVE  /\ Joined(Joined(a, b), c) \in Row(S) /\ Len(Joined(Joined(a, b), c)) = (Len(a) + Len(b)) + Len(c)
         /\ \A k \in 1..Len(a) : Joined(Joined(a, b), c)[k] = a[k]
         /\ \A k \in 1..Len(b) : Joined(Joined(a, b), c)[Len(a) + k] = b[k]
         /\ \A k \in 1..Len(c) : Joined(Joined(a, b), c)[(Len(a) + Len(b)) + k] = c[k]
<1>1. PICK ab \in Row(S) : /\ ab = Joined(a, b) /\ Len(ab) = Len(a) + Len(b)
                           /\ Len(a) \in Nat /\ Len(b) \in Nat
                           /\ \A k \in 1..Len(a) : ab[k] = a[k]
                           /\ \A k \in 1..Len(b) : ab[Len(a) + k] = b[k]
  BY JoinedIs
<1>2. PICK abc \in Row(S) : /\ abc = Joined(ab, c) /\ Len(abc) = Len(ab) + Len(c)
                            /\ \A k \in 1..Len(ab) : abc[k] = ab[k]
                            /\ \A k \in 1..Len(c) : abc[Len(ab) + k] = c[k]
  BY JoinedIs
<1>3. \A k \in 1..Len(a) : k \in 1..Len(ab) /\ abc[k] = a[k]
  BY <1>1, <1>2
<1>4. \A k \in 1..Len(b) : Len(a) + k \in 1..Len(ab)
  BY <1>1
<1>5. \A k \in 1..Len(b) : abc[Len(a) + k] = b[k]
  BY <1>1, <1>2, <1>4
<1> QED
  BY <1>1, <1>2, <1>3, <1>5

\* The difference of two texts leads from the one to the other
\* (BodyDelta.diff()).
THEOREM DiffIs ==
  ASSUME NEW old \in Text, NEW new \in Text
  PROVE  /\ DiffBody(old, new) \in BodyDeltas /\ DiffBody(old, new).len <= Len(old)
         /\ ComposeBody(old, DiffBody(old, new)) = new
<1> DEFINE shared(m, n) == /\ SubSeq(old, 1, m) = SubSeq(new, 1, m)
                           /\ SubSeq(old, Len(old) - n + 1, Len(old)) =
                                SubSeq(new, Len(new) - n + 1, Len(new))
           most == Larger(0, IF Len(old) < Len(new) THEN Len(old) ELSE Len(new))
           m0 == CHOOSE i \in 0..most : shared(i, 0) /\ ~ (i < most /\ shared(i + 1, 0))
           n0 == CHOOSE i \in 0..(most - m0) :
                   shared(m0, i) /\ ~ (i < most - m0 /\ shared(m0, i + 1))
           to == [i \in 1..m0 |-> i] \o SubSeq(new, m0 + 1, Len(new) - n0)
                      \o [i \in 1..n0 |-> Len(old) - n0 + i]
           L == Len(old)
           M == Len(new)
<1>1. L \in Nat /\ M \in Nat /\ old \in Row(Chars) /\ new \in Row(Chars)
  BY TextIs
<1>2. DiffBody(old, new) = Chop(Len(old), to)
  BY DEF DiffBody
<1>3. most \in Nat /\ most <= L /\ most <= M
  BY <1>1 DEF Larger
<1> HIDE DEF most
<1>4. \E i \in 0..most : shared(i, 0) /\ ~ (i < most /\ shared(i + 1, 0))
  <2> DEFINE S == {i \in 0..most : shared(i, 0)}
  <2>1. shared(0, 0)
    BY <1>1 DEF Row
  <2> HIDE DEF shared
  <2>2. S \in SUBSET (0..most) /\ 0 \in S
    BY <1>3, <2>1
  <2> HIDE DEF S
  <2>3. PICK i \in S : \A l \in S : l <= i
    BY <1>3, <2>2, GreatestNatural
  <2>4. i \in 0..most /\ shared(i, 0)
    BY <2>3 DEF S
  <2>5. ASSUME i < most, shared(i + 1, 0) PROVE FALSE
    <3>1. i + 1 \in 0..most
      BY <1>3, <2>4, <2>5
    <3>2. i + 1 \in S
      BY <2>5, <3>1 DEF S
    <3> QED
      BY <1>3, <2>3, <2>4, <3>2
  <2> QED
    BY <2>4, <2>5
<1>5. m0 \in 0..most /\ shared(m0, 0)
  <2> HIDE DEF shared
  <2> QED
    BY <1>4
<1> HIDE DEF m0
<1>6. \E i \in 0..(most - m0) : shared(m0, i) /\ ~ (i < most - m0 /\ shared(m0, i + 1))
  <2> DEFINE S == {i \in 0..(most - m0) : shared(m0, i)}
  <2> HIDE DEF shared
  <2>1. PICK r \in Nat : r = most - m0
    BY <1>3, <1>5
  <2>2. S \in SUBSET (0..r) /\ 0 \in S
    BY <1>5, <2>1
  <2> HIDE DEF S
  <2>3. PICK i \in S : \A l \in S : l <= i
    BY <2>2, GreatestNatural
  <2>4. i \in 0..r /\ shared(m0, i)
    BY <2>1, <2>3 DEF S
  <2>5. ASSUME i < r, shared(m0, i + 1) PROVE FALSE
    <3>1. i + 1 \in 0..r
      BY <2>4, <2>5
    <3>2. i + 1 \in S
      BY <2>1, <2>5, <3>1 DEF S
    <3> QED
      BY <2>3, <2>4, <3>2
  <2> QED
    BY <2>1, <2>4, <2>5
<1>7. n0 \in 0..(most - m0) /\ shared(m0, n0)
  <2> HIDE DEF shared
  <2> QED
    BY <1>6
<1> HIDE DEF n0
<1>8. m0 \in Nat /\ n0 \in Nat /\ m0 + n0 <= L /\ m0 + n0 <= M
  BY <1>1, <1>3, <1>5, <1>7
<1>9. \A i \in 1..m0 : old[i] = new[i]
  <2>0. SubSeq(old, 1, m0) = SubSeq(new, 1, m0)
    BY <1>7
  <2>1. m0 \in 0..L /\ m0 \in 0..M
    BY <1>1, <1>8
  <2>2. /\ \A i \in 1..m0 : SubSeq(old, 1, m0)[i] = old[i]
        /\ \A i \in 1..m0 : SubSeq(new, 1, m0)[i] = new[i]
    BY <1>1, <2>1, PrefixIs
  <2> QED
    BY <2>0, <2>2
<1>10. \A i \in 1..n0 : old[(L - n0) + i] = new[(M - n0) + i]
  <2>0. SubSeq(old, L - n0 + 1, L) = SubSeq(new, M - n0 + 1, M)
    BY <1>7
  <2> HIDE DEF L, M, shared
  <2>1. PICK p \in 1..(L + 1), q \in 1..(M + 1) : p = L - n0 + 1 /\ q = M - n0 + 1
    <3>1. L - n0 + 1 \in 1..(L + 1) /\ M - n0 + 1 \in 1..(M + 1)
      BY <1>1, <1>8
    <3> QED
      BY <3>1
  <2>2. /\ L \in 0..L /\ M \in 0..M /\ p <= L + 1 /\ q <= M + 1
        /\ L + 1 - p = n0 /\ M + 1 - q = n0
    BY <1>1, <1>8, <2>1
  <2>3. \A k \in 1..(L + 1 - p) : SubSeq(old, p, L)[k] = old[p + k - 1]
    BY <1>1, <2>2, SliceIs DEF L
  <2>4. \A k \in 1..(M + 1 - q) : SubSeq(new, q, M)[k] = new[q + k - 1]
    BY <1>1, <2>2, SliceIs DEF M
  <2>5. \A k \in 1..n0 : p + k - 1 = (L - n0) + k /\ q + k - 1 = (M - n0) + k
    BY <1>1, <1>8, <2>1
  <2>6. ASSUME NEW k \in 1..n0 PROVE old[(L - n0) + k] = new[(M - n0) + k]
    <3>1. SubSeq(old, p, L)[k] = old[(L - n0) + k]
      BY <2>2, <2>3, <2>5
    <3>2. SubSeq(new, q, M)[k] = new[(M - n0) + k]
      BY <2>2, <2>4, <2>5
    <3> QED
      BY <2>0, <2>1, <3>1, <3>2
  <2> QED
    BY <2>6
<1> HIDE DEF shared
<1> DEFINE a == [i \in 1..m0 |-> i]
           b == SubSeq(new, m0 + 1, Len(new) - n0)
           c == [i \in 1..n0 |-> Len(old) - n0 + i]
           X == Chars \cup (1..L)
<1>11. a \in Row(X) /\ Len(a) = m0 /\ \A i \in 1..m0 : a[i] = i
  <2>1. a \in [1..m0 -> X]
    BY <1>1, <1>8
  <2> QED
    BY <1>8, <2>1, RowOf
<1>12. c \in Row(X) /\ Len(c) = n0 /\ \A i \in 1..n0 : c[i] = (L - n0) + i
  <2>1. c \in [1..n0 -> X]
    BY <1>1, <1>8
  <2> QED
    BY <1>8, <2>1, RowOf
<1>13. /\ b \in Row(X) /\ Len(b) = M - (m0 + n0)
       /\ \A k \in 1..(M - (m0 + n0)) : b[k] = new[m0 + k] /\ b[k] \in Chars
  <2>1. PICK p \in 1..(M + 1), q \in 0..M : p = m0 + 1 /\ q = M - n0 /\ p <= q + 1
    <3>1. m0 + 1 \in 1..(M + 1) /\ M - n0 \in 0..M /\ m0 + 1 <= M - n0 + 1
      BY <1>1, <1>8
    <3> HIDE DEF L, M
    <3> QED
      BY <3>1
  <2>2. /\ b \in Row(Chars) /\ Len(b) = q + 1 - p
        /\ \A k \in 1..(q + 1 - p) : b[k] = new[p + k - 1]
    BY <1>1, <2>1, SliceIs
  <2>3. q + 1 - p = M - (m0 + n0)
    BY <1>1, <1>8, <2>1
  <2>4. \A k \in 1..(M - (m0 + n0)) : p + k - 1 = m0 + k /\ m0 + k \in 1..M
    BY <1>1, <1>8, <2>1
  <2>5. b \in Row(X)
    <3>1. b \in Seq(Chars)
      BY <2>2 DEF Row
    <3>2. b \in Seq(X)
      BY <3>1
    <3> QED
      BY <3>2 DEF Row
  <2> HIDE DEF b, X
  <2>6. \A k \in 1..(M - (m0 + n0)) : b[k] = new[m0 + k]
    BY <2>2, <2>3, <2>4
  <2>7. \A k \in 1..M : new[k] \in Chars
    BY TextIs
  <2> QED
    BY <2>2, <2>3, <2>4, <2>5, <2>6, <2>7
<1>14. to = Joined(Joined(a, b), c)
  BY DEF Joined
<1> HIDE DEF to, a, b, c, L, M
<1> DEFINE B == M - (m0 + n0)
<1>16. B \in Nat /\ M = (m0 + B) + n0
  BY <1>1, <1>8
<1>15. /\ to \in Row(X) /\ Len(to) = M
       /\ \A k \in 1..m0 : to[k] = k
       /\ \A k \in 1..B : to[m0 + k] = new[m0 + k] /\ to[m0 + k] \in Chars
       /\ \A k \in 1..n0 : to[(m0 + B) + k] = (L - n0) + k
  <2> HIDE DEF X, B
  <2>1. Len(b) = B /\ \A k \in 1..B : b[k] = new[m0 + k] /\ b[k] \in Chars
    BY <1>13 DEF B
  <2>2. /\ to \in Row(X) /\ Len(to) = (Len(a) + Len(b)) + Len(c)
        /\ \A k \in 1..Len(a) : to[k] = a[k]
        /\ \A k \in 1..Len(b) : to[Len(a) + k] = b[k]
        /\ \A k \in 1..Len(c) : to[(Len(a) + Len(b)) + k] = c[k]
    <3>1. a \in Row(X) /\ b \in Row(X) /\ c \in Row(X)
      BY <1>11, <1>12, <1>13
    <3> DEFINE abc == Joined(Joined(a, b), c)
    <3>2. /\ abc \in Row(X) /\ Len(abc) = (Len(a) + Len(b)) + Len(c)
          /\ \A k \in 1..Len(a) : abc[k] = a[k]
          /\ \A k \in 1..Len(b) : abc[Len(a) + k] = b[k]
          /\ \A k \in 1..Len(c) : abc[(Len(a) + Len(b)) + k] = c[k]
      BY <3>1, ThreeParts
    <3> HIDE DEF abc
    <3>3. to = abc
      BY <1>14 DEF abc
    <3> QED
      BY <3>2, <3>3
  <2> QED
    BY <1>11, <1>12, <1>16, <2>1, <2>2
<1> HIDE DEF B
<1>17. \A k \in 1..M : \/ k \in 1..m0
                       \/ \E l \in 1..B : k = m0 + l
                       \/ \E l \in 1..n0 : k = (m0 + B) + l
  <2> SUFFICES ASSUME NEW k \in 1..M, k \notin 1..m0, ~ \E l \in 1..B : k = m0 + l
               PROVE  \E l \in 1..n0 : k = (m0 + B) + l
    OBVIOUS
  <2>1. k > m0
    BY <1>1, <1>8
  <2>2. k > m0 + B
    <3>1. SUFFICES ASSUME k <= m0 + B PROVE FALSE
      BY <1>1, <1>8, <1>16
    <3>2. k - m0 \in 1..B /\ k = m0 + (k - m0)
      BY <1>1, <1>8, <1>16, <2>1, <3>1
    <3> QED
      BY <3>2
  <2>3. k - (m0 + B) \in 1..n0 /\ k = (m0 + B) + (k - (m0 + B))
    BY <1>1, <1>8, <1>16, <2>2
  <2> QED
    BY <2>3
<1>18. to \in Source(L)
  <2>1. ASSUME NEW i \in 1..Len(to), NEW j \in 1..Len(to), to[i] = to[j], to[i] \notin Chars
        PROVE  i = j
    <3>1. \A k \in 1..M : to[k] \notin Chars =>
            \/ k \in 1..m0 /\ to[k] = k
            \/ \E l \in 1..n0 : k = (m0 + B) + l /\ to[k] = (L - n0) + l
      BY <1>15, <1>17, SMTT(20)
    <3>2. i \in 1..M /\ j \in 1..M /\ to[j] \notin Chars
      BY <1>15, <2>1
    <3>3. CASE i \in 1..m0 /\ to[i] = i
      <4>1. ASSUME NEW l \in 1..n0, to[j] = (L - n0) + l PROVE FALSE
        <5>1. (L - n0) + l > m0
          BY <1>1, <1>8
        <5>2. i = (L - n0) + l
          BY <2>1, <3>3, <4>1
        <5> QED
          BY <1>8, <3>3, <5>1, <5>2
      <4> QED
        BY <2>1, <3>1, <3>2, <3>3, <4>1
    <3>4. CASE \E l \in 1..n0 : i = (m0 + B) + l /\ to[i] = (L - n0) + l
      <4>0. PICK l \in 1..n0 : i = (m0 + B) + l /\ to[i] = (L - n0) + l
        BY <3>4
      <4>1. CASE j \in 1..m0 /\ to[j] = j
        BY <1>1, <1>8, <2>1, <4>0, <4>1
      <4>2. ASSUME NEW k \in 1..n0, j = (m0 + B) + k, to[j] = (L - n0) + k PROVE i = j
        <5>1. l = k
          BY <1>1, <1>8, <2>1, <4>0, <4>2
        <5> QED
          BY <4>0, <4>2, <5>1
      <4> QED
        BY <3>1, <3>2, <4>1, <4>2
    <3> QED
      BY <2>1, <3>1, <3>2, <3>3, <3>4
  <2> QED
    BY <1>15, <2>1 DEF Source, X
<1>19. /\ Chop(L, to) \in BodyDeltas /\ Chop(L, to).len <= L
       /\ Unchopped(Chop(L, to), L) = to
  BY <1>1, <1>18, ChopIs, ExtendNothing
<1>20. /\ ComposeBody(old, Chop(L, to)) = Substitute(old, to)
       /\ ComposeBody(old, Chop(L, to)) \in Text
  BY <1>19, ComposedText DEF L
<1>21. /\ Len(Substitute(old, to)) = M
       /\ \A k \in 1..M : Substitute(old, to)[k] = IF to[k] \in Chars THEN to[k] ELSE old[to[k]]
  BY <1>1, <1>15, <1>18, SubstituteAt DEF L
<1>22. ASSUME NEW k \in 1..M PROVE Substitute(old, to)[k] = new[k]
  <2>1. CASE k \in 1..m0
    <3>1. to[k] = k /\ k \notin Chars
      BY <1>8, <1>15, <2>1, CharsAssumption
    <3> QED
      BY <1>9, <1>21, <2>1, <3>1
  <2>2. CASE \E l \in 1..B : k = m0 + l
    BY <1>15, <1>21, <2>2
  <2>3. CASE \E l \in 1..n0 : k = (m0 + B) + l
    <3>1. PICK l \in 1..n0 : k = (m0 + B) + l
      BY <2>3
    <3>2. (L - n0) + l \in Nat /\ (m0 + B) + l = (M - n0) + l
      BY <1>1, <1>8, <1>16
    <3>3. to[k] = (L - n0) + l /\ to[k] \notin Chars
      BY <1>15, <3>1, <3>2, CharsAssumption
    <3> QED
      BY <1>10, <1>21, <3>1, <3>2, <3>3
  <2> QED
    BY <1>17, <2>1, <2>2, <2>3
<1>23. Substitute(old, to) = new
  <2>1. Substitute(old, to) \in Row(Chars)
    BY <1>20 DEF Text
  <2> QED
    BY <1>1, <1>21, <1>22, <2>1, SameRow DEF M
<1> QED
  BY <1>2, <1>19, <1>20, <1>23 DEF L

-----------------------------------------------------------------------------
(* Rows one after the other *)

\* FlattenSeq() goes over what each step gives.
RunsOver(f, G, n) ==
  f[1] = G[1] /\ \A i \in 2..n : f[i] = Joined(f[i - 1], G[i])

LEMMA FlattenTrace ==
  ASSUME NEW X, NEW n \in Nat, n > 0, NEW G \in [1..n -> Row(X)]
  PROVE  \E f \in [1..n -> Row(X)] : RunsOver(f, G, n) /\ FlattenSeq(G) = f[n]
<1> DEFINE Does(f) == f = [i \in 1..n |-> IF i = 1 THEN G[i] ELSE f[i - 1] \o G[i]]
           HasRun(k) == \E f \in [1..k -> Row(X)] : RunsOver(f, G, k)
           Done == {k \in Nat : k + 1 <= n => HasRun(k + 1)}
<1>1. 0 \in Done
  <2> DEFINE f == [i \in 1..1 |-> G[1]]
  <2>1. f \in [1..1 -> Row(X)] /\ f[1] = G[1] /\ 2..1 = {}
    OBVIOUS
  <2> HIDE DEF f
  <2>2. HasRun(1)
    BY <2>1 DEF RunsOver
  <2> QED
    BY <2>2
<1>2. ASSUME NEW k \in Nat, k \in Done PROVE k + 1 \in Done
  <2> HIDE DEF HasRun
  <2> SUFFICES ASSUME (k + 1) + 1 <= n PROVE HasRun((k + 1) + 1)
    OBVIOUS
  <2>1. HasRun(k + 1)
    BY <1>2
  <2> USE DEF HasRun
  <2>2. PICK old \in [1..k + 1 -> Row(X)] : RunsOver(old, G, k + 1)
    BY <2>1
  <2>0. /\ k + 1 \in 1..k + 1 /\ (k + 1) + 1 \in 1..n /\ 1 \in 1..k + 1
        /\ 1..(k + 1) + 1 = (1..k + 1) \cup {(k + 1) + 1} /\ (k + 1) + 1 \notin 1..k + 1
    OBVIOUS
  <2> DEFINE last == Joined(old[k + 1], G[(k + 1) + 1])
             f == [i \in 1..(k + 1) + 1 |-> IF i \in 1..k + 1 THEN old[i] ELSE last]
  <2>3. last \in Row(X)
    <3>1. old[k + 1] \in Row(X) /\ G[(k + 1) + 1] \in Row(X)
      BY <2>0
    <3> QED
      BY <3>1, JoinedIs
  <2> HIDE DEF last
  <2>4. f \in [1..(k + 1) + 1 -> Row(X)]
    BY <2>3
  <2>5. (\A i \in 1..k + 1 : f[i] = old[i]) /\ f[(k + 1) + 1] = last
    BY <2>0
  <2> HIDE DEF f
  <2>6. ASSUME NEW i \in 2..(k + 1) + 1 PROVE f[i] = Joined(f[i - 1], G[i])
    <3>1. CASE i \in 2..k + 1
      <4>1. i - 1 \in 1..k + 1 /\ i \in 1..k + 1
        BY <3>1
      <4> QED
        BY <2>2, <2>5, <3>1, <4>1 DEF RunsOver
    <3>2. CASE i = (k + 1) + 1
      <4>1. i - 1 = k + 1
        BY <3>2
      <4> QED
        BY <2>0, <2>5, <3>2, <4>1 DEF last
    <3> QED
      BY <3>1, <3>2
  <2>7. f[1] = G[1]
    BY <2>0, <2>2, <2>5 DEF RunsOver
  <2>8. RunsOver(f, G, (k + 1) + 1)
    BY <2>6, <2>7 DEF RunsOver
  <2> QED
    BY <2>4, <2>8
<1> HIDE DEF Done
<1>3. n - 1 \in Done
  <2>1. n - 1 \in Nat
    OBVIOUS
  <2> QED
    BY <1>1, <1>2, <2>1, Induction
<1>4. PICK f \in [1..n -> Row(X)] : RunsOver(f, G, n)
  <2>1. n - 1 \in Nat /\ (n - 1) + 1 = n
    OBVIOUS
  <2> QED
    BY <1>3, <2>1 DEF Done
<1>5. Does(f)
  <2>1. ASSUME NEW i \in 1..n PROVE f[i] = IF i = 1 THEN G[i] ELSE f[i - 1] \o G[i]
    <3>1. CASE i = 1
      BY <1>4, <3>1 DEF RunsOver
    <3>2. CASE i # 1
      <4>1. i \in 2..n
        BY <3>2
      <4> QED
        BY <1>4, <3>2, <4>1 DEF RunsOver, Joined
    <3> QED
      BY <3>1, <3>2
  <2> QED
    BY <2>1
<1> DEFINE flat == CHOOSE x : Does(x)
<1>6. Does(flat)
  BY <1>5
<1>7. G \in Seq(Row(X)) /\ Len(G) = n
  OBVIOUS
<1>8. FlattenSeq(G) = flat[n]
  BY <1>7 DEF FlattenSeq
<1>9. flat = f
  <2> DEFINE Same == {k \in Nat : k + 1 <= n => flat[k + 1] = f[k + 1]}
  <2> HIDE DEF flat
  <2>1. 0 \in Same
    BY <1>5, <1>6
  <2>2. ASSUME NEW k \in Nat, k \in Same PROVE k + 1 \in Same
    <3> SUFFICES ASSUME (k + 1) + 1 <= n PROVE flat[(k + 1) + 1] = f[(k + 1) + 1]
      OBVIOUS
    <3>1. (k + 1) + 1 \in 1..n /\ (k + 1) + 1 # 1 /\ ((k + 1) + 1) - 1 = k + 1
      OBVIOUS
    <3>2. flat[k + 1] = f[k + 1]
      BY <2>2
    <3>3. PICK j \in 1..n : j = (k + 1) + 1 /\ j # 1 /\ j - 1 = k + 1
      BY <3>1
    <3>4. flat[j] = flat[j - 1] \o G[j]
      BY <1>6, <3>3
    <3>5. f[j] = f[j - 1] \o G[j]
      BY <1>5, <3>3
    <3> QED
      BY <3>2, <3>3, <3>4, <3>5
  <2> HIDE DEF Same
  <2>3. \A k \in Nat : k \in Same
    BY <2>1, <2>2, Induction
  <2>4. ASSUME NEW i \in 1..n PROVE flat[i] = f[i]
    <3>1. i - 1 \in Nat /\ (i - 1) + 1 = i
      OBVIOUS
    <3> QED
      BY <2>3, <3>1 DEF Same
  <2>5. flat = [i \in 1..n |-> flat[i]] /\ f = [i \in 1..n |-> f[i]]
    BY <1>6
  <2> HIDE DEF Does
  <2> QED
    BY <2>4, <2>5
<1> HIDE DEF flat
<1> QED
  BY <1>4, <1>8, <1>9

-----------------------------------------------------------------------------
(* Substituting in rows, part by part *)

LEMMA SubstituteRow ==
  ASSUME NEW s, Len(s) \in Nat, NEW t \in Row(Chars \cup (1..Len(s)))
  PROVE  /\ Len(t) \in Nat /\ Len(Substitute(s, t)) = Len(t)
         /\ \A k \in 1..Len(t) :
              /\ t[k] \notin Chars => t[k] \in 1..Len(s)
              /\ Substitute(s, t)[k] = IF t[k] \in Chars THEN t[k] ELSE s[t[k]]
<1>1. Len(t) \in Nat /\ \A k \in 1..Len(t) : t[k] \in Chars \cup (1..Len(s))
  BY DEF Row
<1>2. \A k \in 1..Len(t) : Substitute(s, t)[k] = IF t[k] \in Chars THEN t[k] ELSE s[t[k]]
  BY DEF Substitute
<1>3. Len(Substitute(s, t)) = Len(t)
  BY <1>1 DEF Substitute
<1> QED
  BY <1>1, <1>2, <1>3

LEMMA SubstituteRowIn ==
  ASSUME NEW X, NEW s \in Row(X), NEW t \in Row(Chars \cup (1..Len(s)))
  PROVE  Substitute(s, t) \in Row(X \cup Chars)
<1>0. Len(s) \in Nat /\ \A i \in 1..Len(s) : s[i] \in X
  BY DEF Row
<1>1. Len(t) \in Nat /\ \A k \in 1..Len(t) : t[k] \in Chars \cup (1..Len(s))
  BY DEF Row
<1>2. \A k \in 1..Len(t) : t[k] \notin Chars => t[k] \in 1..Len(s) /\ s[t[k]] \in X
  BY <1>0, <1>1
<1>3. Substitute(s, t) \in [1..Len(t) -> X \cup Chars]
  BY <1>1, <1>2 DEF Substitute
<1> QED
  BY <1>1, <1>3, RowOf

LEMMA SubstituteJoined ==
  ASSUME NEW X, NEW s \in Row(X), NEW t \in Row(Chars \cup (1..Len(s))),
         NEW u \in Row(Chars \cup (1..Len(s)))
  PROVE  Substitute(s, Joined(t, u)) = Joined(Substitute(s, t), Substitute(s, u))
<1> DEFINE Y == Chars \cup (1..Len(s))
           tu == Joined(t, u)
           st == Substitute(s, t)
           su == Substitute(s, u)
           whole == Substitute(s, tu)
           parts == Joined(st, su)
<1> HIDE DEF Y
<1>1. /\ tu \in Row(Y) /\ Len(t) \in Nat /\ Len(u) \in Nat /\ Len(tu) = Len(t) + Len(u)
      /\ \A i \in 1..Len(t) : tu[i] = t[i]
      /\ \A i \in 1..Len(u) : tu[Len(t) + i] = u[i]
  BY JoinedIs DEF Y
<1> HIDE DEF tu
<1>0. Len(s) \in Nat
  BY DEF Row
<1>2. /\ Len(st) = Len(t) /\ st \in Row(X \cup Chars)
      /\ \A k \in 1..Len(t) : st[k] = IF t[k] \in Chars THEN t[k] ELSE s[t[k]]
  <2>1. /\ Len(st) = Len(t)
        /\ \A k \in 1..Len(t) : st[k] = IF t[k] \in Chars THEN t[k] ELSE s[t[k]]
    BY <1>0, SubstituteRow
  <2>2. st \in Row(X \cup Chars)
    BY SubstituteRowIn
  <2> QED
    BY <2>1, <2>2
<1>3. /\ Len(su) = Len(u) /\ su \in Row(X \cup Chars)
      /\ \A k \in 1..Len(u) : su[k] = IF u[k] \in Chars THEN u[k] ELSE s[u[k]]
  <2>1. /\ Len(su) = Len(u)
        /\ \A k \in 1..Len(u) : su[k] = IF u[k] \in Chars THEN u[k] ELSE s[u[k]]
    BY <1>0, SubstituteRow
  <2>2. su \in Row(X \cup Chars)
    BY SubstituteRowIn
  <2> QED
    BY <2>1, <2>2
<1>4. /\ Len(whole) = Len(tu) /\ whole \in Row(X \cup Chars)
      /\ \A k \in 1..Len(tu) : whole[k] = IF tu[k] \in Chars THEN tu[k] ELSE s[tu[k]]
  <2>0. tu \in Row(Chars \cup (1..Len(s)))
    BY <1>1 DEF Y
  <2>1. /\ Len(whole) = Len(tu)
        /\ \A k \in 1..Len(tu) : whole[k] = IF tu[k] \in Chars THEN tu[k] ELSE s[tu[k]]
    BY <1>0, <2>0, SubstituteRow
  <2>2. whole \in Row(X \cup Chars)
    BY <2>0, SubstituteRowIn
  <2> QED
    BY <2>1, <2>2
<1> DEFINE Z == X \cup Chars
<1> HIDE DEF st, su, whole, Z
<1>5. /\ parts \in Row(Z) /\ Len(parts) = Len(st) + Len(su)
      /\ \A i \in 1..Len(st) : parts[i] = st[i]
      /\ \A i \in 1..Len(su) : parts[Len(st) + i] = su[i]
  <2>1. st \in Row(Z) /\ su \in Row(Z)
    BY <1>2, <1>3 DEF Z
  <2> QED
    BY <2>1, JoinedIs
<1> HIDE DEF parts
<1>6. ASSUME NEW k \in 1..Len(whole) PROVE whole[k] = parts[k]
  <2>1. CASE k \in 1..Len(t)
    <3>1. k \in 1..Len(tu)
      BY <1>1, <2>1
    <3> QED
      BY <1>1, <1>2, <1>4, <1>5, <2>1, <3>1
  <2>2. CASE k > Len(t)
    <3>1. PICK l \in 1..Len(u) : k = Len(t) + l
      <4>1. k - Len(t) \in 1..Len(u) /\ k = Len(t) + (k - Len(t))
        BY <1>1, <1>4, <2>2
      <4> QED
        BY <4>1
    <3>2. k \in 1..Len(tu) /\ tu[k] = u[l] /\ parts[k] = su[l]
      BY <1>1, <1>2, <1>3, <1>4, <1>5, <3>1
    <3> QED
      BY <1>3, <1>4, <3>2
  <2> QED
    BY <1>1, <2>1, <2>2
<1>7. Len(whole) = Len(parts)
  BY <1>1, <1>2, <1>3, <1>4, <1>5
<1>8. whole = parts
  BY <1>4, <1>5, <1>6, <1>7, SameRow DEF Z
<1> QED
  BY <1>8 DEF whole, parts, st, su, tu

LEMMA SubstituteFlatten ==
  ASSUME NEW X, NEW s \in Row(X), NEW n \in Nat, n > 0,
         NEW G \in [1..n -> Row(Chars \cup (1..Len(s)))],
         NEW H \in [1..n -> Row(X \cup Chars)],
         \A g \in 1..n : H[g] = Substitute(s, G[g])
  PROVE  /\ s \in Row(X) /\ H \in [1..n -> Row(X \cup Chars)]
         /\ Substitute(s, FlattenSeq(G)) = FlattenSeq(H)
<1> DEFINE Y == Chars \cup (1..Len(s))
           Z == X \cup Chars
<1> HIDE DEF Y, Z
<1>1. PICK p \in [1..n -> Row(Y)] : RunsOver(p, G, n) /\ FlattenSeq(G) = p[n]
  BY FlattenTrace DEF Y
<1>2. PICK q \in [1..n -> Row(Z)] : RunsOver(q, H, n) /\ FlattenSeq(H) = q[n]
  BY FlattenTrace DEF Z
<1> DEFINE Same == {k \in Nat : k + 1 <= n => Substitute(s, p[k + 1]) = q[k + 1]}
<1>3. 0 \in Same
  <2>1. p[1] = G[1] /\ q[1] = H[1] /\ 1 \in 1..n
    BY <1>1, <1>2 DEF RunsOver
  <2> QED
    BY <2>1
<1>4. ASSUME NEW k \in Nat, k \in Same PROVE k + 1 \in Same
  <2> SUFFICES ASSUME (k + 1) + 1 <= n PROVE Substitute(s, p[(k + 1) + 1]) = q[(k + 1) + 1]
    OBVIOUS
  <2>1. Substitute(s, p[k + 1]) = q[k + 1]
    BY <1>4
  <2> HIDE DEF Same
  <2>2. PICK j \in 2..n : j = (k + 1) + 1 /\ j - 1 = k + 1 /\ j - 1 \in 1..n /\ j \in 1..n
    OBVIOUS
  <2>3. p[j] = Joined(p[j - 1], G[j]) /\ q[j] = Joined(q[j - 1], H[j])
    BY <1>1, <1>2, <2>2 DEF RunsOver
  <2>4. PICK t \in Row(Y), u \in Row(Y) : t = p[j - 1] /\ u = G[j]
    BY <2>2 DEF Y
  <2>5. Substitute(s, Joined(t, u)) = Joined(Substitute(s, t), Substitute(s, u))
    BY SubstituteJoined DEF Y
  <2>6. H[j] = Substitute(s, u) /\ q[j - 1] = Substitute(s, t)
    BY <2>1, <2>2, <2>4
  <2> QED
    BY <2>2, <2>3, <2>4, <2>5, <2>6
<1> HIDE DEF Same
<1>5. n - 1 \in Same
  <2>1. n - 1 \in Nat
    OBVIOUS
  <2> QED
    BY <1>3, <1>4, <2>1, Induction
<1>6. Substitute(s, p[n]) = q[n]
  <2>1. n - 1 \in Nat /\ (n - 1) + 1 = n /\ n <= n
    OBVIOUS
  <2> QED
    BY <1>5, <2>1 DEF Same
<1> QED
  BY <1>1, <1>2, <1>6

-----------------------------------------------------------------------------
(* Rows in which no position comes twice *)

Distinct(t) == \A i, j \in 1..Len(t) : t[i] = t[j] /\ t[i] \notin Chars => i = j

LEMMA DistinctJoined ==
  ASSUME NEW X, NEW t \in Row(X), NEW u \in Row(X), Distinct(t), Distinct(u),
         \A i \in 1..Len(t), j \in 1..Len(u) : t[i] = u[j] => t[i] \in Chars
  PROVE  Distinct(Joined(t, u))
<1>1. PICK tu \in Row(X) :
        /\ tu = Joined(t, u)
        /\ Len(t) \in Nat /\ Len(u) \in Nat /\ Len(tu) = Len(t) + Len(u)
        /\ \A i \in 1..Len(t) : tu[i] = t[i]
        /\ \A i \in 1..Len(u) : tu[Len(t) + i] = u[i]
  BY JoinedIs
<1>2. \A i \in 1..Len(tu) : \/ i \in 1..Len(t) /\ tu[i] = t[i]
                            \/ \E l \in 1..Len(u) : i = Len(t) + l /\ tu[i] = u[l]
  <2> SUFFICES ASSUME NEW i \in 1..Len(tu), i \notin 1..Len(t)
               PROVE  \E l \in 1..Len(u) : i = Len(t) + l /\ tu[i] = u[l]
    BY <1>1
  <2>1. i - Len(t) \in 1..Len(u) /\ i = Len(t) + (i - Len(t))
    BY <1>1
  <2> QED
    BY <1>1, <2>1
<1>3. ASSUME NEW i \in 1..Len(tu), NEW j \in 1..Len(tu), tu[i] = tu[j], tu[i] \notin Chars
      PROVE  i = j
  <2>1. CASE i \in 1..Len(t) /\ tu[i] = t[i] /\ j \in 1..Len(t) /\ tu[j] = t[j]
    BY <1>3, <2>1 DEF Distinct
  <2>2. CASE i \in 1..Len(t) /\ tu[i] = t[i] /\ \E l \in 1..Len(u) : j = Len(t) + l /\ tu[j] = u[l]
    BY <1>3, <2>2
  <2>3. CASE j \in 1..Len(t) /\ tu[j] = t[j] /\ \E l \in 1..Len(u) : i = Len(t) + l /\ tu[i] = u[l]
    BY <1>3, <2>3
  <2>4. CASE /\ \E l \in 1..Len(u) : i = Len(t) + l /\ tu[i] = u[l]
             /\ \E l \in 1..Len(u) : j = Len(t) + l /\ tu[j] = u[l]
    BY <1>3, <2>4 DEF Distinct
  <2> QED
    BY <1>2, <2>1, <2>2, <2>3, <2>4
<1> QED
  BY <1>1, <1>3 DEF Distinct

LEMMA JoinedEntries ==
  ASSUME NEW X, NEW t \in Row(X), NEW u \in Row(X)
  PROVE  /\ Joined(t, u) \in Row(X)
         /\ \A k \in 1..Len(Joined(t, u)) :
              \/ \E i \in 1..Len(t) : Joined(t, u)[k] = t[i]
              \/ \E i \in 1..Len(u) : Joined(t, u)[k] = u[i]
<1>1. PICK tu \in Row(X) :
        /\ tu = Joined(t, u)
        /\ Len(t) \in Nat /\ Len(u) \in Nat /\ Len(tu) = Len(t) + Len(u)
        /\ \A i \in 1..Len(t) : tu[i] = t[i]
        /\ \A i \in 1..Len(u) : tu[Len(t) + i] = u[i]
  BY JoinedIs
<1>2. ASSUME NEW k \in 1..Len(tu)
      PROVE  (\E i \in 1..Len(t) : tu[k] = t[i]) \/ \E i \in 1..Len(u) : tu[k] = u[i]
  <2>1. CASE k \in 1..Len(t)
    BY <1>1, <2>1
  <2>2. CASE k \notin 1..Len(t)
    <3>1. k - Len(t) \in 1..Len(u) /\ k = Len(t) + (k - Len(t))
      BY <1>1, <2>2
    <3> QED
      BY <1>1, <3>1
  <2> QED
    BY <2>1, <2>2
<1> QED
  BY <1>1, <1>2

\* The rows G[1] to G[n] hold no position twice, and no two of them share one.
EachOnce(G, n, l, owner) ==
  /\ G \in [1..n -> Row(Chars \cup (1..l))]
  /\ \A g \in 1..n : Distinct(G[g])
  /\ \A g \in 1..n : \A k \in 1..Len(G[g]) : G[g][k] \notin Chars => owner[G[g][k]] = g

\* If the positions in different rows differ, no position comes twice in all of
\* them together.  `owner' says in which row a position may be.
LEMMA FlattenDistinct ==
  ASSUME NEW l \in Nat, NEW n \in Nat \ {0}, NEW G, NEW owner, EachOnce(G, n, l, owner)
  PROVE  FlattenSeq(G) \in Source(l)
<1>0. /\ G \in [1..n -> Row(Chars \cup (1..l))]
      /\ \A g \in 1..n : Distinct(G[g])
      /\ \A g \in 1..n : \A k \in 1..Len(G[g]) : G[g][k] \notin Chars => owner[G[g][k]] = g
  BY DEF EachOnce
<1> DEFINE Y == Chars \cup (1..l)
           Owned(g, t) == \A k \in 1..Len(t) : t[k] \notin Chars => owner[t[k]] \in 1..g
<1> HIDE DEF Y
<1>1. PICK p \in [1..n -> Row(Y)] : RunsOver(p, G, n) /\ FlattenSeq(G) = p[n]
  <2>1. G \in [1..n -> Row(Y)]
    BY <1>0, Zenon DEF Y
  <2>2. n \in Nat /\ n > 0
    OBVIOUS
  <2> QED
    BY <2>1, <2>2, FlattenTrace
<1> DEFINE Done == {k \in Nat : k + 1 <= n => Distinct(p[k + 1]) /\ Owned(k + 1, p[k + 1])}
<1>2. 0 \in Done
  <2>1. p[1] = G[1] /\ 1 \in 1..n /\ 1 \in 1..1
    BY <1>1 DEF RunsOver
  <2>2. Distinct(p[1]) /\ Owned(1, p[1])
    BY <1>0, <2>1
  <2> QED
    BY <2>2
<1>3. ASSUME NEW k \in Nat, k \in Done PROVE k + 1 \in Done
  <2> HIDE DEF Owned
  <2> SUFFICES ASSUME (k + 1) + 1 <= n
               PROVE  Distinct(p[(k + 1) + 1]) /\ Owned((k + 1) + 1, p[(k + 1) + 1])
    OBVIOUS
  <2>1. Distinct(p[k + 1]) /\ Owned(k + 1, p[k + 1])
    BY <1>3
  <2> HIDE DEF Done
  <2>2. PICK j \in 2..n : j = (k + 1) + 1 /\ j - 1 = k + 1 /\ j - 1 \in 1..n /\ j \in 1..n
    OBVIOUS
  <2>3. p[j] = Joined(p[j - 1], G[j])
    BY <1>1, <2>2 DEF RunsOver
  <2>4. PICK t \in Row(Y), u \in Row(Y) : t = p[j - 1] /\ u = G[j]
    BY <1>0, <2>2 DEF Y
  <2>5. Distinct(t) /\ Distinct(u)
    BY <1>0, <2>1, <2>2, <2>4
  <2>6. \A i \in 1..Len(t) : t[i] \notin Chars => owner[t[i]] \in 1..(j - 1)
    BY <2>1, <2>2, <2>4 DEF Owned
  <2>7. \A i \in 1..Len(u) : u[i] \notin Chars => owner[u[i]] = j
    BY <1>0, <2>2, <2>4
  <2>8. j \notin 1..(j - 1) /\ 1..(j - 1) \subseteq 1..j /\ j \in 1..j
    BY <2>2
  <2>9. \A i \in 1..Len(t), m \in 1..Len(u) : t[i] = u[m] => t[i] \in Chars
    BY <2>6, <2>7, <2>8
  <2>10. Distinct(Joined(t, u))
    BY <2>5, <2>9, DistinctJoined
  <2>13. /\ Joined(t, u) \in Row(Y)
         /\ \A i \in 1..Len(Joined(t, u)) :
              \/ \E m \in 1..Len(t) : Joined(t, u)[i] = t[m]
              \/ \E m \in 1..Len(u) : Joined(t, u)[i] = u[m]
    BY JoinedEntries
  <2>11. ASSUME NEW i \in 1..Len(Joined(t, u)), Joined(t, u)[i] \notin Chars
         PROVE  owner[Joined(t, u)[i]] \in 1..j
    <3>1. CASE \E m \in 1..Len(t) : Joined(t, u)[i] = t[m]
      BY <2>6, <2>8, <2>11, <3>1
    <3>2. CASE \E m \in 1..Len(u) : Joined(t, u)[i] = u[m]
      BY <2>7, <2>8, <2>11, <3>2
    <3> QED
      BY <2>13, <3>1, <3>2
  <2>12. Owned(j, Joined(t, u))
    BY <2>11 DEF Owned
  <2> QED
    BY <2>2, <2>3, <2>4, <2>10, <2>12
<1> HIDE DEF Done
<1>4. n - 1 \in Done
  <2>1. n - 1 \in Nat
    OBVIOUS
  <2> QED
    BY <1>2, <1>3, <2>1, Induction
<1>5. Distinct(p[n])
  <2>1. n - 1 \in Nat /\ (n - 1) + 1 = n /\ n <= n
    OBVIOUS
  <2> HIDE DEF Owned
  <2> QED
    BY <1>4, <2>1 DEF Done
<1>6. p[n] \in Row(Chars \cup (1..l))
  <2>1. n \in 1..n
    OBVIOUS
  <2>2. p[n] \in Row(Y)
    BY <2>1
  <2> QED
    BY <2>2 DEF Y
<1> QED
  BY <1>1, <1>5, <1>6 DEF Source, Distinct

-----------------------------------------------------------------------------
(* What transforming joins *)

LEMMA IndexIs ==
  ASSUME NEW n \in Nat, NEW s \in Source(n), NEW i \in 0..n, Retains(s, i)
  PROVE  /\ IndexIn(s, i) \in 0..Len(s)
         /\ i = 0 => IndexIn(s, i) = 0
         /\ i > 0 => IndexIn(s, i) \in 1..Len(s) /\ s[IndexIn(s, i)] = i
<1>0. Len(s) \in Nat
  BY SourceIs
<1>1. CASE i = 0
  BY <1>0, <1>1 DEF IndexIn
<1>2. CASE i > 0
  <2>1. \E k \in 1..Len(s) : s[k] = i
    BY <1>2 DEF Retains
  <2>2. IndexIn(s, i) = CHOOSE k \in 1..Len(s) : s[k] = i
    BY <1>2 DEF IndexIn
  <2>3. IndexIn(s, i) \in 1..Len(s) /\ s[IndexIn(s, i)] = i
    BY <2>1, <2>2
  <2> QED
    BY <1>0, <1>2, <2>3
<1> QED
  BY <1>1, <1>2

\* Index e is one of the insertions of s that directly follow position i.
Follows(s, i, e) ==
  /\ e \in 1..Len(s) /\ Retains(s, i) /\ e > IndexIn(s, i)
  /\ \A j \in (IndexIn(s, i) + 1)..e : s[j] \in Chars

LEMMA FollowsOnce ==
  ASSUME NEW n \in Nat, NEW s \in Source(n), NEW i \in 0..n, NEW j \in 0..n, NEW e,
         Follows(s, i, e), Follows(s, j, e)
  PROVE  i = j
<1> DEFINE p == IndexIn(s, i)
           q == IndexIn(s, j)
<1>0. Len(s) \in Nat
  BY SourceIs
<1>1. /\ p \in 0..Len(s) /\ (i = 0 => p = 0) /\ (i > 0 => p \in 1..Len(s) /\ s[p] = i)
      /\ q \in 0..Len(s) /\ (j = 0 => q = 0) /\ (j > 0 => q \in 1..Len(s) /\ s[q] = j)
  BY IndexIs DEF Follows
<1>2. /\ e \in 1..Len(s) /\ e > p /\ e > q
      /\ \A k \in (p + 1)..e : s[k] \in Chars
      /\ \A k \in (q + 1)..e : s[k] \in Chars
  BY DEF Follows
<1> HIDE DEF p, q
<1>3. \A k \in 1..n : k \notin Chars
  BY CharsAssumption
<1>4. CASE p = q
  BY <1>0, <1>1, <1>4
<1>5. CASE p < q
  <2>1. q \in (p + 1)..e
    BY <1>0, <1>1, <1>2, <1>5
  <2>2. j > 0 /\ s[q] = j
    BY <1>1, <1>5
  <2> QED
    BY <1>2, <1>3, <2>1, <2>2
<1>6. CASE q < p
  <2>1. p \in (q + 1)..e
    BY <1>0, <1>1, <1>2, <1>6
  <2>2. i > 0 /\ s[p] = i
    BY <1>1, <1>6
  <2> QED
    BY <1>2, <1>3, <2>1, <2>2
<1> QED
  BY <1>0, <1>1, <1>4, <1>5, <1>6

\* x is somewhere in the row s.
Holds(s, x) == \E k \in 1..Len(s) : s[k] = x

LEMMA InsertionsAre ==
  ASSUME NEW n \in Nat, NEW s \in Source(n), NEW i \in 0..n
  PROVE  /\ InsertionsAfter(s, i) \in Row(1..Len(s)) /\ Len(InsertionsAfter(s, i)) \in Nat
         /\ \A k \in 1..Len(InsertionsAfter(s, i)) :
              /\ InsertionsAfter(s, i)[k] \in 1..Len(s)
              /\ Follows(s, i, InsertionsAfter(s, i)[k])
              /\ s[InsertionsAfter(s, i)[k]] \in Chars
         /\ \A k, l \in 1..Len(InsertionsAfter(s, i)) :
              InsertionsAfter(s, i)[k] = InsertionsAfter(s, i)[l] => k = l
         /\ \A e : Follows(s, i, e) => Holds(InsertionsAfter(s, i), e)
<1>0. Len(s) \in Nat
  BY SourceIs
<1> DEFINE v == InsertionsAfter(s, i)
<1>1. CASE ~ Retains(s, i)
  <2>1. v = <<>>
    BY <1>1 DEF InsertionsAfter
  <2> HIDE DEF v
  <2>2. v \in Row(1..Len(s)) /\ Len(v) = 0
    BY <2>1 DEF Row
  <2>3. \A e : ~ Follows(s, i, e)
    BY <1>1 DEF Follows
  <2> QED
    BY <2>2, <2>3 DEF v
<1>2. CASE Retains(s, i)
  <2> DEFINE from == IndexIn(s, i) + 1
             Ends(k) == /\ k = Len(s) + 1 \/ s[k] \notin Chars
                        /\ \A j \in from..(k - 1) : s[j] \in Chars
             past == CHOOSE k \in from..(Len(s) + 1) : Ends(k)
             Stops == {k \in from..(Len(s) + 1) : k = Len(s) + 1 \/ s[k] \notin Chars}
  <2>1. IndexIn(s, i) \in 0..Len(s)
    BY <1>2, IndexIs
  <2>2. v = [k \in 1..(past - from) |-> from + k - 1]
    BY <1>2 DEF InsertionsAfter
  <2>3. \E k \in from..(Len(s) + 1) : Ends(k)
    <3>1. Len(s) + 1 \in Stops /\ Stops \in SUBSET Nat
      BY <1>0, <2>1
    <3> HIDE DEF Stops
    <3>2. PICK k \in Stops : \A l \in Stops : k <= l
      BY <3>1, LeastNatural
    <3>3. k \in from..(Len(s) + 1) /\ (k = Len(s) + 1 \/ s[k] \notin Chars)
      BY <3>2 DEF Stops
    <3>4. ASSUME NEW j \in from..(k - 1), s[j] \notin Chars PROVE FALSE
      <4>1. j \in from..(Len(s) + 1) /\ j < k
        BY <1>0, <2>1, <3>3
      <4>2. j \in Stops
        BY <3>4, <4>1 DEF Stops
      <4> QED
        BY <2>1, <1>0, <3>2, <3>3, <4>1, <4>2
    <3> QED
      BY <3>3, <3>4
  <2>4. past \in from..(Len(s) + 1) /\ Ends(past)
    <3> HIDE DEF Ends
    <3> QED
      BY <2>3
  <2> HIDE DEF past, Stops, v
  <2>5. \A j \in from..(past - 1) : s[j] \in Chars
    BY <2>4
  <2> HIDE DEF Ends
  <2>6. from \in Nat /\ past \in Nat /\ past - from \in Nat
    BY <1>0, <2>1, <2>4
  <2>7. \A k \in 1..(past - from) : from + k - 1 \in 1..Len(s) /\ from + k - 1 \in from..(past - 1)
    BY <1>0, <2>1, <2>4
  <2>8. v \in [1..(past - from) -> 1..Len(s)]
    BY <2>2, <2>7
  <2>9. v \in Row(1..Len(s)) /\ Len(v) = past - from
    BY <2>6, <2>8, RowOf
  <2>10. ASSUME NEW k \in 1..Len(v) PROVE Follows(s, i, v[k]) /\ s[v[k]] \in Chars
    <3>1. PICK e \in from..(past - 1) : e = v[k] /\ e \in 1..Len(s)
      BY <2>2, <2>7, <2>9
    <3>2. e > IndexIn(s, i) /\ \A j \in from..e : j \in from..(past - 1)
      BY <1>0, <2>1, <2>6, <3>1, SMTT(20)
    <3> QED
      BY <1>2, <2>5, <3>1, <3>2 DEF Follows
  <2>11. ASSUME NEW k \in 1..Len(v), NEW l \in 1..Len(v), v[k] = v[l] PROVE k = l
    <3>1. PICK p \in Nat : p = from
      BY <2>6
    <3>2. v[k] = p + k - 1 /\ v[l] = p + l - 1
      BY <2>2, <2>9, <3>1
    <3>3. k \in Nat /\ l \in Nat
      BY <2>6, <2>9
    <3>4. p + k - 1 = p + l - 1
      BY <2>11, <3>2
    <3>5. \A x, y, z \in Nat : x + y - 1 = x + z - 1 => y = z
      OBVIOUS
    <3> QED
      BY <3>3, <3>4, <3>5
  <2>12. \A k \in 1..Len(v) : v[k] \in 1..Len(s)
    BY <2>8, <2>9
  <2>13. ASSUME NEW e, Follows(s, i, e) PROVE Holds(v, e)
    <3>1. e \in 1..Len(s) /\ e >= from /\ \A j \in from..e : s[j] \in Chars
      BY <1>0, <2>1, <2>13 DEF Follows
    <3>2. past > e
      <4>1. ASSUME past <= e PROVE FALSE
        <5>1. past \in from..e /\ past # Len(s) + 1
          BY <1>0, <2>4, <3>1, <4>1
        <5> QED
          BY <2>4, <3>1, <5>1 DEF Ends
      <4> QED
        BY <2>6, <3>1, <4>1
    <3>3. PICK l \in Nat, h \in Nat : l = from /\ h = past
      BY <2>6
    <3>4. e - l + 1 \in 1..(h - l) /\ l + (e - l + 1) - 1 = e
      BY <1>0, <3>1, <3>2, <3>3
    <3>5. v[e - l + 1] = e
      BY <2>2, <3>3, <3>4
    <3> QED
      BY <2>9, <3>3, <3>4, <3>5 DEF Holds
  <2> QED
    BY <2>6, <2>9, <2>10, <2>11, <2>12, <2>13 DEF v
<1> QED
  BY <1>1, <1>2

Added(t, i) ==
  [k \in 1..Len(InsertionsAfter(t, i)) |-> t[InsertionsAfter(t, i)[k]]]

LEMMA AddedAre ==
  ASSUME NEW n \in Nat, NEW t \in Source(n), NEW i \in 0..n
  PROVE  /\ Added(t, i) \in Row(Chars) /\ Len(Added(t, i)) = Len(InsertionsAfter(t, i))
         /\ Len(Added(t, i)) \in Nat
         /\ \A k \in 1..Len(Added(t, i)) :
              /\ Added(t, i)[k] \in Chars
              /\ Added(t, i)[k] = t[InsertionsAfter(t, i)[k]]
<1>1. PICK v \in Row(1..Len(t)) :
        /\ v = InsertionsAfter(t, i) /\ Len(v) \in Nat
        /\ \A k \in 1..Len(v) : t[v[k]] \in Chars
  BY InsertionsAre
<1>2. Added(t, i) = [k \in 1..Len(v) |-> t[v[k]]]
  BY <1>1 DEF Added
<1>3. Added(t, i) \in [1..Len(v) -> Chars]
  BY <1>1, <1>2
<1>4. Added(t, i) \in Row(Chars) /\ Len(Added(t, i)) = Len(v)
  BY <1>1, <1>3, RowOf
<1> QED
  BY <1>1, <1>2, <1>3, <1>4

Both(s, t, n, i) == i < n /\ Retains(s, i + 1) /\ Retains(t, i + 1)

Kept(s, t, n, i) == IF Both(s, t, n, i) THEN <<IndexIn(s, i + 1)>> ELSE <<>>

Groups(s, t, n, first) ==
  [g \in 1..(n + 1) |->
     IF first
     THEN Joined(Joined(InsertionsAfter(s, g - 1), Added(t, g - 1)), Kept(s, t, n, g - 1))
     ELSE Joined(Joined(Added(t, g - 1), InsertionsAfter(s, g - 1)), Kept(s, t, n, g - 1))]

LEMMA TransformIs ==
  ASSUME NEW a, NEW b, NEW first
  PROVE  TransformAs(a, b, first) =
           Chop(Len(Unchopped(a, Larger(a.len, b.len))),
                FlattenSeq(Groups(Unchopped(a, Larger(a.len, b.len)),
                                  Unchopped(b, Larger(a.len, b.len)),
                                  Larger(a.len, b.len), first)))
  BY DEF TransformAs, Groups, Joined, Added, Kept, Both

\* Group g is the only one that the position e may be in.
Owns(s, n, g, e) == Follows(s, g - 1, e) \/ (g <= n /\ e \in 1..Len(s) /\ s[e] = g)

LEMMA OwnsOnce ==
  ASSUME NEW n \in Nat, NEW s \in Source(n), NEW g \in 1..(n + 1), NEW h \in 1..(n + 1), NEW e,
         Owns(s, n, g, e), Owns(s, n, h, e)
  PROVE  g = h
<1>1. g - 1 \in 0..n /\ h - 1 \in 0..n
  OBVIOUS
<1>2. Follows(s, g - 1, e) => s[e] \in Chars
  <2>1. Follows(s, g - 1, e) => e \in (IndexIn(s, g - 1) + 1)..e
    BY <1>1, IndexIs DEF Follows
  <2> QED
    BY <2>1 DEF Follows
<1>3. Follows(s, h - 1, e) => s[e] \in Chars
  <2>1. Follows(s, h - 1, e) => e \in (IndexIn(s, h - 1) + 1)..e
    BY <1>1, IndexIs DEF Follows
  <2> QED
    BY <2>1 DEF Follows
<1>4. Follows(s, g - 1, e) /\ Follows(s, h - 1, e) => g - 1 = h - 1
  BY <1>1, FollowsOnce
<1>5. g \notin Chars /\ h \notin Chars
  BY CharsAssumption
<1> QED
  BY <1>2, <1>3, <1>4, <1>5 DEF Owns

LEMMA KeptIs ==
  ASSUME NEW n \in Nat, NEW s \in Source(n), NEW t \in Source(n), NEW i \in 0..n
  PROVE  /\ Kept(s, t, n, i) \in Row(1..Len(s)) /\ Len(Kept(s, t, n, i)) \in Nat
         /\ Len(Kept(s, t, n, i)) = IF Both(s, t, n, i) THEN 1 ELSE 0
         /\ \A k \in 1..Len(Kept(s, t, n, i)) :
              /\ Kept(s, t, n, i)[k] \in 1..Len(s) /\ i + 1 <= n
              /\ s[Kept(s, t, n, i)[k]] = i + 1
<1>1. CASE Both(s, t, n, i)
  <2>1. i + 1 \in 0..n /\ i + 1 > 0 /\ i + 1 <= n /\ Retains(s, i + 1)
    BY <1>1 DEF Both
  <2>2. PICK e \in 1..Len(s) : e = IndexIn(s, i + 1) /\ s[e] = i + 1
    BY <2>1, IndexIs
  <2>3. PICK v : v = <<e>>
    OBVIOUS
  <2>4. Kept(s, t, n, i) = v
    BY <1>1, <2>2, <2>3 DEF Kept
  <2>5. v \in Row(1..Len(s)) /\ Len(v) = 1 /\ v[1] = e /\ 1..1 = {1}
    BY <2>3 DEF Row
  <2>6. \A k \in 1..Len(v) : v[k] = e
    BY <2>5
  <2> QED
    BY <1>1, <2>1, <2>2, <2>4, <2>5, <2>6
<1>2. CASE ~ Both(s, t, n, i)
  <2>1. PICK v : v = <<>>
    OBVIOUS
  <2>2. Kept(s, t, n, i) = v
    BY <1>2, <2>1 DEF Kept
  <2>3. v \in Row(1..Len(s)) /\ Len(v) = 0
    BY <2>1 DEF Row
  <2> QED
    BY <1>2, <2>2, <2>3
<1> QED
  BY <1>1, <1>2

LEMMA RowInLarger ==
  ASSUME NEW S, NEW T, S \subseteq T, NEW s \in Row(S)
  PROVE  s \in Row(T)
<1>1. s \in Seq(S)
  BY DEF Row
<1>2. s \in Seq(T)
  BY <1>1
<1> QED
  BY <1>2 DEF Row

\* The positions in a group are its own, and none comes twice.
LEMMA GroupIs ==
  ASSUME NEW n \in Nat, NEW s \in Source(n), NEW t \in Source(n), NEW first,
         NEW g \in 1..(n + 1)
  PROVE  /\ Groups(s, t, n, first)[g] \in Row(Chars \cup (1..Len(s)))
         /\ Distinct(Groups(s, t, n, first)[g])
         /\ \A k \in 1..Len(Groups(s, t, n, first)[g]) :
              Groups(s, t, n, first)[g][k] \notin Chars =>
                Owns(s, n, g, Groups(s, t, n, first)[g][k])
<1> DEFINE X == Chars \cup (1..Len(s))
<1>0. Len(s) \in Nat /\ g - 1 \in 0..n /\ (g - 1) + 1 = g
  BY SourceIs
<1>00. Chars \subseteq X /\ (1..Len(s)) \subseteq X
  OBVIOUS
<1> HIDE DEF X
<1>1. PICK there \in Row(X) :
        /\ there = InsertionsAfter(s, g - 1)
        /\ \A k \in 1..Len(there) : /\ Follows(s, g - 1, there[k])
                                    /\ s[there[k]] \in Chars
        /\ Distinct(there)
  <2>1. InsertionsAfter(s, g - 1) \in Row(X)
    <3>1. InsertionsAfter(s, g - 1) \in Row(1..Len(s))
      BY <1>0, InsertionsAre
    <3> QED
      BY <1>00, <3>1, RowInLarger
  <2>2. /\ \A k \in 1..Len(InsertionsAfter(s, g - 1)) :
             /\ Follows(s, g - 1, InsertionsAfter(s, g - 1)[k])
             /\ s[InsertionsAfter(s, g - 1)[k]] \in Chars
        /\ \A k, l \in 1..Len(InsertionsAfter(s, g - 1)) :
             InsertionsAfter(s, g - 1)[k] = InsertionsAfter(s, g - 1)[l] => k = l
    BY <1>0, InsertionsAre
  <2>3. Distinct(InsertionsAfter(s, g - 1))
    BY <2>2 DEF Distinct
  <2> QED
    BY <2>1, <2>2, <2>3
<1>2. PICK added \in Row(X) :
        /\ added = Added(t, g - 1)
        /\ \A k \in 1..Len(added) : added[k] \in Chars
        /\ Distinct(added)
  <2>1. Added(t, g - 1) \in Row(X)
    BY <1>0, <1>00, AddedAre, RowInLarger
  <2>2. \A k \in 1..Len(Added(t, g - 1)) : Added(t, g - 1)[k] \in Chars
    BY <1>0, AddedAre
  <2> QED
    BY <2>1, <2>2 DEF Distinct
<1>3. PICK kept \in Row(X) :
        /\ kept = Kept(s, t, n, g - 1)
        /\ Len(kept) = 0 \/ Len(kept) = 1
        /\ \A k \in 1..Len(kept) : g <= n /\ kept[k] \in 1..Len(s) /\ s[kept[k]] = g
        /\ Distinct(kept)
  <2>1. Kept(s, t, n, g - 1) \in Row(X)
    BY <1>0, <1>00, KeptIs, RowInLarger
  <2>2. /\ Len(Kept(s, t, n, g - 1)) = 0 \/ Len(Kept(s, t, n, g - 1)) = 1
        /\ \A k \in 1..Len(Kept(s, t, n, g - 1)) :
             /\ g <= n /\ Kept(s, t, n, g - 1)[k] \in 1..Len(s)
             /\ s[Kept(s, t, n, g - 1)[k]] = g
    BY <1>0, KeptIs
  <2>3. Distinct(Kept(s, t, n, g - 1))
    BY <2>2 DEF Distinct
  <2> QED
    BY <2>1, <2>2, <2>3
<1>4. g \notin Chars
  BY CharsAssumption
<1>5. \A i \in 1..Len(there), j \in 1..Len(added) :
         /\ there[i] = added[j] => there[i] \in Chars
         /\ added[j] = there[i] => added[j] \in Chars
  BY <1>2
<1>6. PICK two \in Row(X) :
        /\ two = IF first THEN Joined(there, added) ELSE Joined(added, there)
        /\ Distinct(two)
        /\ \A k \in 1..Len(two) : \/ \E i \in 1..Len(there) : two[k] = there[i]
                                  \/ \E i \in 1..Len(added) : two[k] = added[i]
  <2>1. CASE first
    <3>1. Distinct(Joined(there, added))
      BY <1>1, <1>2, <1>5, DistinctJoined
    <3>2. /\ Joined(there, added) \in Row(X)
          /\ \A k \in 1..Len(Joined(there, added)) :
               \/ \E i \in 1..Len(there) : Joined(there, added)[k] = there[i]
               \/ \E i \in 1..Len(added) : Joined(there, added)[k] = added[i]
      BY JoinedEntries
    <3> QED
      BY <2>1, <3>1, <3>2
  <2>2. CASE ~ first
    <3>1. Distinct(Joined(added, there))
      BY <1>1, <1>2, <1>5, DistinctJoined
    <3>2. /\ Joined(added, there) \in Row(X)
          /\ \A k \in 1..Len(Joined(added, there)) :
               \/ \E i \in 1..Len(added) : Joined(added, there)[k] = added[i]
               \/ \E i \in 1..Len(there) : Joined(added, there)[k] = there[i]
      BY JoinedEntries
    <3> QED
      BY <2>2, <3>1, <3>2
  <2> QED
    BY <2>1, <2>2
<1>7. \A k \in 1..Len(two) : two[k] \notin Chars =>
        Follows(s, g - 1, two[k]) /\ s[two[k]] \in Chars
  BY <1>1, <1>2, <1>6
<1>8. \A i \in 1..Len(two), j \in 1..Len(kept) : two[i] = kept[j] => two[i] \in Chars
  BY <1>3, <1>4, <1>7
<1>9. Distinct(Joined(two, kept))
  BY <1>3, <1>6, <1>8, DistinctJoined
<1>10. /\ Joined(two, kept) \in Row(X)
       /\ \A k \in 1..Len(Joined(two, kept)) :
            \/ \E i \in 1..Len(two) : Joined(two, kept)[k] = two[i]
            \/ \E i \in 1..Len(kept) : Joined(two, kept)[k] = kept[i]
  BY JoinedEntries
<1>11. \A k \in 1..Len(Joined(two, kept)) : Joined(two, kept)[k] \notin Chars =>
         Owns(s, n, g, Joined(two, kept)[k])
  BY <1>3, <1>7, <1>10 DEF Owns
<1>12. Groups(s, t, n, first)[g] = Joined(two, kept)
  <2>1. CASE first
    BY <1>1, <1>2, <1>3, <1>6, <2>1 DEF Groups
  <2>2. CASE ~ first
    BY <1>1, <1>2, <1>3, <1>6, <2>2 DEF Groups
  <2> QED
    BY <2>1, <2>2
<1> QED
  BY <1>9, <1>10, <1>11, <1>12 DEF X

LEMMA GroupsTogether ==
  ASSUME NEW n \in Nat, NEW s \in Source(n), NEW t \in Source(n), NEW first
  PROVE  /\ Groups(s, t, n, first) \in [1..(n + 1) -> Row(Chars \cup (1..Len(s)))]
         /\ FlattenSeq(Groups(s, t, n, first)) \in Source(Len(s))
<1> DEFINE G == Groups(s, t, n, first)
           X == Chars \cup (1..Len(s))
           owner == [e \in 1..Len(s) |-> CHOOSE g \in 1..(n + 1) : Owns(s, n, g, e)]
<1>0. Len(s) \in Nat /\ n + 1 \in Nat /\ n + 1 > 0
  BY SourceIs
<1>1. \A g \in 1..(n + 1) :
        /\ G[g] \in Row(Chars \cup (1..Len(s))) /\ Distinct(G[g])
        /\ \A k \in 1..Len(G[g]) : G[g][k] \notin Chars => Owns(s, n, g, G[g][k])
  BY GroupIs
<1>2. G = [g \in 1..(n + 1) |-> G[g]]
  BY DEF Groups
<1> HIDE DEF G
<1>3. G \in [1..(n + 1) -> Row(X)]
  BY <1>1, <1>2
<1>4. ASSUME NEW g \in 1..(n + 1), NEW e, Owns(s, n, g, e) PROVE owner[e] = g
  <2>1. e \in 1..Len(s)
    BY <1>4 DEF Owns, Follows
  <2>2. owner[e] = CHOOSE h \in 1..(n + 1) : Owns(s, n, h, e)
    BY <2>1
  <2>3. owner[e] \in 1..(n + 1) /\ Owns(s, n, owner[e], e)
    BY <1>4, <2>2
  <2> HIDE DEF owner
  <2> QED
    BY <1>4, <2>3, OwnsOnce
<1> HIDE DEF owner
<1>5. \A g \in 1..(n + 1) : \A k \in 1..Len(G[g]) : G[g][k] \notin Chars => owner[G[g][k]] = g
  BY <1>1, <1>4
<1>6. FlattenSeq(G) \in Source(Len(s))
  <2>1. PICK l \in Nat, m \in Nat \ {0} : l = Len(s) /\ m = n + 1
    BY <1>0
  <2>2. EachOnce(G, m, l, owner)
    BY <1>1, <1>3, <1>5, <2>1 DEF EachOnce
  <2>3. FlattenSeq(G) \in Source(l)
    BY <2>2, FlattenDistinct
  <2> QED
    BY <2>1, <2>3
<1> QED
  BY <1>3, <1>6 DEF G

-----------------------------------------------------------------------------
(* Transforming either of two deltas by the other *)

\* A group once its positions are replaced by what they refer to.
MergedGroup(s, t, n, g) ==
  Joined(Joined(Added(s, g - 1), Added(t, g - 1)),
         IF Both(s, t, n, g - 1) THEN <<g>> ELSE <<>>)

\* In rows without characters, or of nothing else.
LEMMA SubstituteParts ==
  ASSUME NEW n \in Nat, NEW s \in Source(n), NEW t \in Source(n), NEW g \in 1..(n + 1)
  PROVE  /\ Substitute(s, InsertionsAfter(s, g - 1)) = Added(s, g - 1)
         /\ Substitute(s, Added(t, g - 1)) = Added(t, g - 1)
         /\ Substitute(s, Kept(s, t, n, g - 1)) = IF Both(s, t, n, g - 1) THEN <<g>> ELSE <<>>
<1>0. Len(s) \in Nat /\ g - 1 \in 0..n /\ (g - 1) + 1 = g
  BY SourceIs
<1>5. \A e \in 1..Len(s) : e \notin Chars
  BY CharsAssumption
<1>1. Substitute(s, InsertionsAfter(s, g - 1)) = Added(s, g - 1)
  <2>1. PICK v : /\ v = InsertionsAfter(s, g - 1)
                 /\ \A k \in 1..Len(v) : v[k] \in 1..Len(s)
    BY <1>0, InsertionsAre
  <2>2. Substitute(s, v) = [k \in 1..Len(v) |-> IF v[k] \in Chars THEN v[k] ELSE s[v[k]]]
    BY DEF Substitute
  <2>3. Added(s, g - 1) = [k \in 1..Len(v) |-> s[v[k]]]
    BY <2>1 DEF Added
  <2>4. \A k \in 1..Len(v) : v[k] \notin Chars
    BY <1>5, <2>1
  <2> QED
    BY <2>1, <2>2, <2>3, <2>4
<1>2. Substitute(s, Added(t, g - 1)) = Added(t, g - 1)
  <2>1. PICK v \in Row(Chars) : v = Added(t, g - 1) /\ \A k \in 1..Len(v) : v[k] \in Chars
    BY <1>0, AddedAre
  <2>2. Substitute(s, v) = [k \in 1..Len(v) |-> IF v[k] \in Chars THEN v[k] ELSE s[v[k]]]
    BY DEF Substitute
  <2>3. v = [k \in 1..Len(v) |-> v[k]]
    BY DEF Row
  <2>4. Substitute(s, v) = [k \in 1..Len(v) |-> v[k]]
    BY <2>1, <2>2
  <2> QED
    BY <2>1, <2>3, <2>4
<1>3. Substitute(s, Kept(s, t, n, g - 1)) = IF Both(s, t, n, g - 1) THEN <<g>> ELSE <<>>
  <2>1. PICK v : /\ v = Kept(s, t, n, g - 1)
                 /\ Len(v) = IF Both(s, t, n, g - 1) THEN 1 ELSE 0
                 /\ \A k \in 1..Len(v) : v[k] \in 1..Len(s) /\ s[v[k]] = (g - 1) + 1
    BY <1>0, KeptIs
  <2>2. Substitute(s, v) = [k \in 1..Len(v) |-> IF v[k] \in Chars THEN v[k] ELSE s[v[k]]]
    BY DEF Substitute
  <2>3. \A k \in 1..Len(v) : v[k] \notin Chars /\ s[v[k]] = g
    BY <1>0, <1>5, <2>1
  <2>4. Substitute(s, v) = [k \in 1..Len(v) |-> g]
    BY <2>2, <2>3
  <2>5. [k \in 1..1 |-> g] = <<g>> /\ [k \in 1..0 |-> g] = <<>>
    OBVIOUS
  <2> QED
    BY <2>1, <2>4, <2>5
<1> QED
  BY <1>1, <1>2, <1>3

LEMMA SubstituteThree ==
  ASSUME NEW X, NEW s \in Row(X), NEW t \in Row(Chars \cup (1..Len(s))),
         NEW u \in Row(Chars \cup (1..Len(s))), NEW v \in Row(Chars \cup (1..Len(s)))
  PROVE  /\ s \in Row(X)
         /\ Substitute(s, Joined(Joined(t, u), v)) =
              Joined(Joined(Substitute(s, t), Substitute(s, u)), Substitute(s, v))
<1>1. PICK tu \in Row(Chars \cup (1..Len(s))) : tu = Joined(t, u)
  BY JoinedIs
<1>2. Substitute(s, tu) = Joined(Substitute(s, t), Substitute(s, u))
  BY <1>1, SubstituteJoined
<1>3. Substitute(s, Joined(tu, v)) = Joined(Substitute(s, tu), Substitute(s, v))
  BY SubstituteJoined
<1> QED
  BY <1>1, <1>2, <1>3

LEMMA SubstituteGroup ==
  ASSUME NEW n \in Nat, NEW s \in Source(n), NEW t \in Source(n), NEW g \in 1..(n + 1)
  PROVE  /\ Substitute(s, Groups(s, t, n, TRUE)[g]) = MergedGroup(s, t, n, g)
         /\ Substitute(t, Groups(t, s, n, FALSE)[g]) = MergedGroup(s, t, n, g)
<1>0. g - 1 \in 0..n /\ (g - 1) + 1 = g
  OBVIOUS
<1>1. s \in Row(Chars \cup (1..n)) /\ t \in Row(Chars \cup (1..n))
  BY SourceIs
<1>2. \A r \in Source(n), u \in Source(n) :
        /\ InsertionsAfter(r, g - 1) \in Row(Chars \cup (1..Len(r)))
        /\ Added(u, g - 1) \in Row(Chars \cup (1..Len(r)))
        /\ Kept(r, u, n, g - 1) \in Row(Chars \cup (1..Len(r)))
  <2> SUFFICES ASSUME NEW r \in Source(n), NEW u \in Source(n)
               PROVE  /\ InsertionsAfter(r, g - 1) \in Row(Chars \cup (1..Len(r)))
                      /\ Added(u, g - 1) \in Row(Chars \cup (1..Len(r)))
                      /\ Kept(r, u, n, g - 1) \in Row(Chars \cup (1..Len(r)))
    OBVIOUS
  <2>1. InsertionsAfter(r, g - 1) \in Row(1..Len(r))
    BY <1>0, InsertionsAre
  <2>2. Added(u, g - 1) \in Row(Chars)
    BY <1>0, AddedAre
  <2>3. Kept(r, u, n, g - 1) \in Row(1..Len(r))
    BY <1>0, KeptIs
  <2>4. Chars \subseteq Chars \cup (1..Len(r)) /\ (1..Len(r)) \subseteq Chars \cup (1..Len(r))
    OBVIOUS
  <2> QED
    BY <2>1, <2>2, <2>3, <2>4, RowInLarger
<1>3. /\ Groups(s, t, n, TRUE)[g] =
           Joined(Joined(InsertionsAfter(s, g - 1), Added(t, g - 1)), Kept(s, t, n, g - 1))
      /\ Groups(t, s, n, FALSE)[g] =
           Joined(Joined(Added(s, g - 1), InsertionsAfter(t, g - 1)), Kept(t, s, n, g - 1))
  BY DEF Groups
<1>4. Both(s, t, n, g - 1) <=> Both(t, s, n, g - 1)
  BY DEF Both
<1>5. Substitute(s, Groups(s, t, n, TRUE)[g]) = MergedGroup(s, t, n, g)
  <2> DEFINE Y == Chars \cup (1..Len(s))
  <2>1. PICK there \in Row(Y), added \in Row(Y), kept \in Row(Y) :
          /\ there = InsertionsAfter(s, g - 1) /\ added = Added(t, g - 1)
          /\ kept = Kept(s, t, n, g - 1)
    BY <1>2
  <2>2. Substitute(s, Joined(Joined(there, added), kept)) =
          Joined(Joined(Substitute(s, there), Substitute(s, added)), Substitute(s, kept))
    BY <1>1, SubstituteThree, SMTT(20)
  <2>3. /\ Substitute(s, there) = Added(s, g - 1)
        /\ Substitute(s, added) = Added(t, g - 1)
        /\ Substitute(s, kept) = IF Both(s, t, n, g - 1) THEN <<g>> ELSE <<>>
    BY <2>1, SubstituteParts
  <2> QED
    BY <1>3, <2>1, <2>2, <2>3 DEF MergedGroup
<1>6. Substitute(t, Groups(t, s, n, FALSE)[g]) = MergedGroup(s, t, n, g)
  <2> DEFINE Y == Chars \cup (1..Len(t))
  <2>1. PICK there \in Row(Y), added \in Row(Y), kept \in Row(Y) :
          /\ there = InsertionsAfter(t, g - 1) /\ added = Added(s, g - 1)
          /\ kept = Kept(t, s, n, g - 1)
    BY <1>2
  <2>2. Substitute(t, Joined(Joined(added, there), kept)) =
          Joined(Joined(Substitute(t, added), Substitute(t, there)), Substitute(t, kept))
    BY <1>1, SubstituteThree, SMTT(20)
  <2>3. /\ Substitute(t, there) = Added(t, g - 1)
        /\ Substitute(t, added) = Added(s, g - 1)
        /\ Substitute(t, kept) = IF Both(s, t, n, g - 1) THEN <<g>> ELSE <<>>
    BY <1>4, <2>1, SubstituteParts
  <2> QED
    BY <1>3, <2>1, <2>2, <2>3 DEF MergedGroup
<1> QED
  BY <1>5, <1>6

LEMMA MergedEitherWay ==
  ASSUME NEW n \in Nat, NEW s \in Source(n), NEW t \in Source(n)
  PROVE  Substitute(s, FlattenSeq(Groups(s, t, n, TRUE))) =
           Substitute(t, FlattenSeq(Groups(t, s, n, FALSE)))
<1> DEFINE G == Groups(s, t, n, TRUE)
           J == Groups(t, s, n, FALSE)
           H == [g \in 1..(n + 1) |-> MergedGroup(s, t, n, g)]
           X == Chars \cup (1..n)
<1>0. n + 1 \in Nat /\ n + 1 > 0 /\ X \cup Chars = X
  OBVIOUS
<1>1. s \in Row(X) /\ t \in Row(X)
  BY SourceIs
<1>2. /\ G \in [1..(n + 1) -> Row(Chars \cup (1..Len(s)))]
      /\ J \in [1..(n + 1) -> Row(Chars \cup (1..Len(t)))]
  BY GroupsTogether
<1>3. \A g \in 1..(n + 1) : H[g] = Substitute(s, G[g]) /\ H[g] = Substitute(t, J[g])
  BY SubstituteGroup
<1>4. H = [g \in 1..(n + 1) |-> H[g]]
  OBVIOUS
<1> HIDE DEF G, J, H, X
<1>8. PICK k \in Nat : k = n + 1 /\ k > 0
  BY <1>0
<1>5. H \in [1..(n + 1) -> Row(X \cup Chars)]
  BY <1>1, <1>2, <1>3, <1>4, SubstituteRowIn
<1>6. Substitute(s, FlattenSeq(G)) = FlattenSeq(H)
  <2>1. /\ G \in [1..k -> Row(Chars \cup (1..Len(s)))] /\ H \in [1..k -> Row(X \cup Chars)]
        /\ \A g \in 1..k : H[g] = Substitute(s, G[g])
    BY <1>2, <1>3, <1>5, <1>8
  <2> QED
    BY <1>1, <1>8, <2>1, SubstituteFlatten, SMTT(20)
<1>7. Substitute(t, FlattenSeq(J)) = FlattenSeq(H)
  <2>1. /\ J \in [1..k -> Row(Chars \cup (1..Len(t)))] /\ H \in [1..k -> Row(X \cup Chars)]
        /\ \A g \in 1..k : H[g] = Substitute(t, J[g])
    BY <1>2, <1>3, <1>5, <1>8
  <2> QED
    BY <1>1, <1>8, <2>1, SubstituteFlatten, SMTT(20)
<1> QED
  BY <1>6, <1>7 DEF G, J

LEMMA LargerIs ==
  ASSUME NEW m \in Nat, NEW n \in Nat
  PROVE  /\ Larger(m, n) \in Nat /\ m <= Larger(m, n) /\ n <= Larger(m, n)
         /\ Larger(m, n) = m \/ Larger(m, n) = n
         /\ Larger(m, n) = Larger(n, m)
  BY DEF Larger

\* What transforming gives is a delta that fits what the other has left.
THEOREM Transformed ==
  ASSUME NEW a \in BodyDeltas, NEW b \in BodyDeltas, NEW first
  PROVE  /\ TransformAs(a, b, first) \in BodyDeltas
         /\ \A text \in Text :
              a.len <= Len(text) /\ b.len <= Len(text) =>
                TransformAs(a, b, first).len <= Len(ComposeBody(text, a))
<1> DEFINE N == Larger(a.len, b.len)
<1>0. a.len \in Nat /\ b.len \in Nat /\ a.to \in Source(a.len)
  BY DeltaIs
<1>1. N \in Nat /\ a.len <= N /\ b.len <= N /\ (N = a.len \/ N = b.len)
  BY <1>0, LargerIs
<1> HIDE DEF N
<1>2. PICK s \in Source(N) : s = Unchopped(a, N) /\ Len(s) = Len(a.to) + (N - a.len) /\ Len(a.to) \in Nat
  BY <1>1, UnchoppedIs
<1>3. PICK t \in Source(N) : t = Unchopped(b, N)
  BY <1>1, UnchoppedIs
<1>4. TransformAs(a, b, first) = Chop(Len(s), FlattenSeq(Groups(s, t, N, first)))
  BY <1>2, <1>3, TransformIs DEF N
<1>5. FlattenSeq(Groups(s, t, N, first)) \in Source(Len(s)) /\ Len(s) \in Nat
  BY <1>1, GroupsTogether, SourceIs
<1>6. TransformAs(a, b, first) \in BodyDeltas /\ TransformAs(a, b, first).len <= Len(s)
  BY <1>4, <1>5, ChopIs
<1>7. ASSUME NEW text \in Text, a.len <= Len(text), b.len <= Len(text)
      PROVE  TransformAs(a, b, first).len <= Len(ComposeBody(text, a))
  <2>1. Len(ComposeBody(text, a)) = Len(a.to) + (Len(text) - a.len) /\ Len(text) \in Nat
    BY <1>7, ComposedText, TextIs
  <2>2. TransformAs(a, b, first).len \in Nat
    BY <1>6, DeltaIs
  <2>3. N <= Len(text)
    BY <1>1, <1>7
  <2>4. PICK al \in Nat, at \in Nat, l \in Nat : al = a.len /\ at = Len(a.to) /\ l = Len(text)
    BY <1>0, <1>2, <2>1
  <2>5. Len(s) <= at + (l - al)
    BY <1>1, <1>2, <2>3, <2>4
  <2> QED
    BY <1>5, <1>6, <2>1, <2>2, <2>4, <2>5
<1> QED
  BY <1>6, <1>7

\* A text changed by a and then by what tt makes of the result.
LEMMA TransformedText ==
  ASSUME NEW a \in BodyDeltas, NEW text \in Text,
         NEW n \in Nat, a.len <= n, n <= Len(text),
         NEW tt \in Source(Len(Unchopped(a, n)))
  PROVE  ComposeBody(ComposeBody(text, a), Chop(Len(Unchopped(a, n)), tt)) =
           Substitute(text, Extend(Substitute(Unchopped(a, n), tt), n, Len(text)))
<1> DEFINE s == Unchopped(a, n)
           c == Chop(Len(s), tt)
<1>0. PICK l \in Nat : l = Len(text)
  BY TextIs
<1>15. s \in Source(n)
  BY UnchoppedIs
<1>1. a.len \in Nat /\ a.to \in Source(a.len) /\ Len(s) \in Nat /\ text \in Row(Chars)
  BY <1>15, DeltaIs, SourceIs, TextIs
<1>2. a.len <= l /\ n <= l
  BY <1>0, <1>1
<1>3. PICK at \in Text : at = ComposeBody(text, a) /\ at = Substitute(text, Unchopped(a, l))
  BY <1>0, <1>2, ComposedText
<1>4. s = Extend(a.to, a.len, n) /\ Len(s) = Len(a.to) + (n - a.len) /\ Len(a.to) \in Nat
  BY UnchoppedIs
<1>16. tt \in Source(Len(s))
  OBVIOUS
<1> HIDE DEF s
<1>5. Unchopped(a, l) = Extend(s, n, l)
  <2>1. Unchopped(a, l) = Extend(a.to, a.len, l)
    BY <1>2, UnchoppedIs
  <2>2. Extend(Extend(a.to, a.len, n), n, l) = Extend(a.to, a.len, l)
    BY <1>1, <1>2, ExtendTwice
  <2> QED
    BY <1>4, <2>1, <2>2
<1>6. PICK m \in Nat : m = Len(s) + (l - n) /\ Len(s) <= m
  <2>1. PICK k \in Nat : k = Len(s)
    BY <1>1
  <2>2. k + (l - n) \in Nat /\ k <= k + (l - n)
    BY <1>2
  <2> QED
    BY <2>1, <2>2
<1>7. PICK es \in Source(l) : es = Extend(s, n, l) /\ Len(es) = m
  BY <1>2, <1>6, <1>15, ExtendIs
<1>8. Len(at) = m
  BY <1>0, <1>2, <1>3, <1>5, <1>7, TextIs, SubstituteAt
<1>9. /\ c \in BodyDeltas /\ c.len <= Len(s) /\ Unchopped(c, m) = Extend(tt, Len(s), m)
  BY <1>1, <1>6, <1>16, ChopIs
<1> HIDE DEF c
<1>10. c.len <= m
  <2>1. c.len \in Nat
    BY <1>9, DeltaIs
  <2> QED
    BY <1>1, <1>6, <1>9, <2>1
<1>11. ComposeBody(at, c) = Substitute(at, Extend(tt, Len(s), m))
  BY <1>8, <1>9, <1>10, ComposedText
<1>12. PICK ett \in Source(m) : ett = Extend(tt, Len(s), m)
  BY <1>1, <1>6, <1>16, ExtendIs
<1>13. Substitute(es, ett) = Extend(Substitute(s, tt), n, l)
  BY <1>2, <1>6, <1>7, <1>12, <1>15, <1>16, ExtendSubstitute
<1>14. Substitute(Substitute(text, es), ett) = Substitute(text, Substitute(es, ett))
  BY <1>0, <1>1, <1>7, <1>12, SubstituteAgain
<1> QED
  BY <1>0, <1>3, <1>5, <1>7, <1>11, <1>12, <1>13, <1>14 DEF c, s

\* Of two deltas of the same text, either may come first if the other is
\* transformed (BodyDelta.transform()).
THEOREM EitherFirst ==
  ASSUME NEW a \in BodyDeltas, NEW b \in BodyDeltas, NEW text \in Text,
         a.len <= Len(text), b.len <= Len(text)
  PROVE  ComposeBody(ComposeBody(text, a), TransformAs(a, b, TRUE)) =
           ComposeBody(ComposeBody(text, b), TransformAs(b, a, FALSE))
<1>0. a.len \in Nat /\ b.len \in Nat /\ Len(text) \in Nat
  BY DeltaIs, TextIs
<1>1. PICK n \in Nat : /\ n = Larger(a.len, b.len) /\ n = Larger(b.len, a.len)
                       /\ a.len <= n /\ b.len <= n /\ n <= Len(text)
  <2>1. PICK k \in Nat, l \in Nat : k = a.len /\ l = b.len
    BY <1>0
  <2>2. /\ Larger(k, l) \in Nat /\ k <= Larger(k, l) /\ l <= Larger(k, l)
        /\ Larger(k, l) = k \/ Larger(k, l) = l
        /\ Larger(k, l) = Larger(l, k)
    BY LargerIs
  <2> QED
    BY <2>1, <2>2
<1>2. PICK s \in Source(n) : s = Unchopped(a, n)
  BY <1>1, UnchoppedIs
<1>3. PICK t \in Source(n) : t = Unchopped(b, n)
  BY <1>1, UnchoppedIs
<1>4. PICK st \in Source(Len(s)) : st = FlattenSeq(Groups(s, t, n, TRUE))
  BY GroupsTogether
<1>5. PICK ts \in Source(Len(t)) : ts = FlattenSeq(Groups(t, s, n, FALSE))
  BY GroupsTogether
<1>6. TransformAs(a, b, TRUE) = Chop(Len(s), st)
  BY <1>1, <1>2, <1>3, <1>4, TransformIs
<1>7. TransformAs(b, a, FALSE) = Chop(Len(t), ts)
  BY <1>1, <1>2, <1>3, <1>5, TransformIs
<1>8. ComposeBody(ComposeBody(text, a), TransformAs(a, b, TRUE)) =
        Substitute(text, Extend(Substitute(s, st), n, Len(text)))
  <2>1. st \in Source(Len(Unchopped(a, n)))
    BY <1>2
  <2>2. ComposeBody(ComposeBody(text, a), Chop(Len(Unchopped(a, n)), st)) =
          Substitute(text, Extend(Substitute(Unchopped(a, n), st), n, Len(text)))
    BY <1>1, <2>1, TransformedText
  <2> QED
    BY <1>2, <1>6, <2>2
<1>9. ComposeBody(ComposeBody(text, b), TransformAs(b, a, FALSE)) =
        Substitute(text, Extend(Substitute(t, ts), n, Len(text)))
  <2>1. ts \in Source(Len(Unchopped(b, n)))
    BY <1>3
  <2>2. ComposeBody(ComposeBody(text, b), Chop(Len(Unchopped(b, n)), ts)) =
          Substitute(text, Extend(Substitute(Unchopped(b, n), ts), n, Len(text)))
    BY <1>1, <2>1, TransformedText
  <2> QED
    BY <1>3, <1>7, <2>2
<1>10. Substitute(s, st) = Substitute(t, ts)
  BY <1>4, <1>5, MergedEitherWay
<1> QED
  BY <1>8, <1>9, <1>10

-----------------------------------------------------------------------------
(* Many deltas one after the other *)

ComposeAll(deltas) == FoldLeft(ComposeDeltas, EmptyBodyDelta, deltas)

\* Folding ComposeDeltas goes over what each step gives.
LEMMA DeltasTrace ==
  ASSUME NEW n \in Nat, NEW deltas \in [1..n -> BodyDeltas]
  PROVE  \E trace \in [0..n -> BodyDeltas] :
           /\ trace[0] = EmptyBodyDelta
           /\ \A i \in 1..n : trace[i] = ComposeDeltas(trace[i - 1], deltas[i])
           /\ ComposeAll(deltas) = trace[n]
<1> DEFINE V == BodyDeltas
           Does(iter) ==
             iter = [S \in SUBSET (1..n) |->
                       IF S = {} THEN EmptyBodyDelta
                       ELSE ComposeDeltas(iter[S \ {Max(S)}], deltas[Max(S)])]
           fold == CHOOSE iter : Does(iter)
<1>0. \A c \in V, d \in BodyDeltas : ComposeDeltas(c, d) \in V
  BY ComposedDeltas
<1>00. EmptyBodyDelta \in V
  BY EmptyDelta
<1> HIDE DEF V
<1>1. \E iter : Does(iter)
  <2> DEFINE step == [ic \in (1..n) \X V |-> ComposeDeltas(ic[2], deltas[ic[1]])]
  <2>1. step \in [(1..n) \X V -> V]
    BY <1>0
  <2>2. \A i \in 1..n, c \in V : step[i, c] = ComposeDeltas(c, deltas[i])
    OBVIOUS
  <2> HIDE DEF step
  <2>3. \E iter \in [SUBSET (1..n) -> V] : IsFold(iter, n, EmptyBodyDelta, step)
    BY <1>00, <2>1, FoldOnSubsets
  <2>4. PICK iter \in [SUBSET (1..n) -> V] : \A S \in SUBSET (1..n) :
          iter[S] = IF S = {} THEN EmptyBodyDelta ELSE step[Max(S), iter[S \ {Max(S)}]]
    BY <2>3 DEF IsFold
  <2>5. ASSUME NEW S \in SUBSET (1..n)
        PROVE  iter[S] = IF S = {} THEN EmptyBodyDelta
                         ELSE ComposeDeltas(iter[S \ {Max(S)}], deltas[Max(S)])
    <3>1. CASE S = {}
      BY <2>4, <3>1
    <3>2. CASE S # {}
      <4>1. Max(S) \in 1..n /\ S \ {Max(S)} \in SUBSET (1..n)
        BY <3>2, MaxIsThere
      <4> QED
        BY <2>2, <2>4, <3>2, <4>1
    <3> QED
      BY <3>1, <3>2
  <2>6. Does(iter)
    BY <2>4, <2>5
  <2> QED
    BY <2>6
<1>2. Does(fold)
  BY <1>1
<1>22. DOMAIN deltas = 1..n
  OBVIOUS
<1>3. ComposeAll(deltas) = fold[1..n]
  BY <1>22 DEF ComposeAll, FoldLeft, MapThenFoldSet
<1> HIDE DEF fold
<1>4. fold[1..0] = EmptyBodyDelta
  BY <1>2, MaxOfInterval
<1>5. ASSUME NEW k \in Nat, k + 1 <= n
      PROVE  fold[1..k + 1] = ComposeDeltas(fold[1..k], deltas[k + 1])
  <2>1. /\ Max(1..k + 1) = k + 1 /\ (1..k + 1) \ {k + 1} = 1..k /\ 1..k + 1 # {}
    BY MaxOfInterval
  <2>2. 1..k + 1 \in SUBSET (1..n)
    BY <1>5
  <2> QED
    BY <1>2, <2>1, <2>2
<1> HIDE DEF Does
<1> DEFINE Good == {k \in Nat : k <= n => fold[1..k] \in V}
<1>6. 0 \in Good
  BY <1>00, <1>4
<1>7. ASSUME NEW k \in Nat, k \in Good PROVE k + 1 \in Good
  <2> SUFFICES ASSUME k + 1 <= n PROVE fold[1..k + 1] \in V
    OBVIOUS
  <2>1. fold[1..k] \in V /\ deltas[k + 1] \in BodyDeltas
    BY <1>7
  <2> QED
    BY <1>0, <1>5, <2>1
<1> HIDE DEF Good
<1>8. \A k \in Nat : k \in Good
  BY <1>6, <1>7, Induction
<1>9. \A k \in 0..n : fold[1..k] \in V
  BY <1>8 DEF Good
<1> DEFINE trace == [k \in 0..n |-> fold[1..k]]
<1>10. trace \in [0..n -> V] /\ trace[0] = EmptyBodyDelta /\ trace[n] = fold[1..n]
  BY <1>4, <1>9
<1>11. ASSUME NEW i \in 1..n PROVE trace[i] = ComposeDeltas(trace[i - 1], deltas[i])
  <2>1. i - 1 \in Nat /\ (i - 1) + 1 = i /\ i - 1 \in 0..n
    OBVIOUS
  <2>2. fold[1..i] = ComposeDeltas(fold[1..i - 1], deltas[i])
    BY <1>5, <2>1
  <2> QED
    BY <2>1, <2>2
<1> HIDE DEF trace
<1> QED
  BY <1>3, <1>10, <1>11 DEF V

\* The texts that deltas lead through.
Replays(deltas, n, history) ==
  \A i \in 1..n : /\ deltas[i].len <= Len(history[i - 1])
                  /\ history[i] = ComposeBody(history[i - 1], deltas[i])

\* Composing deltas and applying them at once comes to the same as applying
\* them one after the other.
THEOREM ReplayAtOnce ==
  ASSUME NEW n \in Nat, NEW deltas \in [1..n -> BodyDeltas], NEW history \in [0..n -> Text],
         Replays(deltas, n, history)
  PROVE  /\ ComposeAll(deltas) \in BodyDeltas
         /\ history[0] \in Text
         /\ ComposeAll(deltas).len <= Len(history[0])
         /\ ComposeBody(history[0], ComposeAll(deltas)) = history[n]
<1>1. PICK trace \in [0..n -> BodyDeltas] :
        /\ trace[0] = EmptyBodyDelta
        /\ \A i \in 1..n : trace[i] = ComposeDeltas(trace[i - 1], deltas[i])
        /\ ComposeAll(deltas) = trace[n]
  BY DeltasTrace
<1>2. history[0] \in Text
  OBVIOUS
<1> DEFINE Good == {k \in Nat : k <= n => /\ trace[k].len <= Len(history[0])
                                          /\ ComposeBody(history[0], trace[k]) = history[k]}
<1>3. 0 \in Good
  <2>1. Len(history[0]) \in Nat
    BY <1>2, TextIs
  <2> QED
    BY <1>1, <1>2, <2>1, EmptyDelta
<1>4. ASSUME NEW k \in Nat, k \in Good PROVE k + 1 \in Good
  <2> SUFFICES ASSUME k + 1 <= n
               PROVE  /\ trace[k + 1].len <= Len(history[0])
                      /\ ComposeBody(history[0], trace[k + 1]) = history[k + 1]
    OBVIOUS
  <2>1. trace[k].len <= Len(history[0]) /\ ComposeBody(history[0], trace[k]) = history[k]
    BY <1>4
  <2> HIDE DEF Good
  <2>2. PICK i \in 1..n : i = k + 1 /\ i - 1 = k /\ k \in 0..n
    OBVIOUS
  <2>3. /\ trace[i] = ComposeDeltas(trace[k], deltas[i])
        /\ deltas[i].len <= Len(history[k]) /\ history[i] = ComposeBody(history[k], deltas[i])
    BY <1>1, <2>2 DEF Replays
  <2>4. PICK a \in BodyDeltas, b \in BodyDeltas, text \in Text :
          a = trace[k] /\ b = deltas[i] /\ text = history[0]
    BY <2>2
  <2>5. a.len <= Len(text) /\ b.len <= Len(ComposeBody(text, a))
    BY <2>1, <2>3, <2>4
  <2>6. /\ ComposeDeltas(a, b).len <= Len(text)
        /\ ComposeBody(text, ComposeDeltas(a, b)) = ComposeBody(ComposeBody(text, a), b)
    BY <2>5, ComposedDeltas
  <2> QED
    BY <2>1, <2>2, <2>3, <2>4, <2>6
<1> HIDE DEF Good
<1>5. n \in Good
  BY <1>3, <1>4, Induction
<1>6. n \in 0..n /\ n <= n
  OBVIOUS
<1> QED
  BY <1>1, <1>2, <1>5, <1>6 DEF Good

-----------------------------------------------------------------------------
(* What becomes of each insertion and deletion *)

LEMMA JoinedHolds ==
  ASSUME NEW X, NEW t \in Row(X), NEW u \in Row(X)
  PROVE  /\ Joined(t, u) \in Row(X)
         /\ \A x : Holds(Joined(t, u), x) <=> Holds(t, x) \/ Holds(u, x)
<1>1. PICK tu \in Row(X) :
        /\ tu = Joined(t, u)
        /\ Len(t) \in Nat /\ Len(u) \in Nat /\ Len(tu) = Len(t) + Len(u)
        /\ \A i \in 1..Len(t) : tu[i] = t[i]
        /\ \A i \in 1..Len(u) : tu[Len(t) + i] = u[i]
  BY JoinedIs
<1>2. ASSUME NEW x, Holds(tu, x) PROVE Holds(t, x) \/ Holds(u, x)
  <2>1. PICK k \in 1..Len(tu) : tu[k] = x
    BY <1>2 DEF Holds
  <2>2. k \in 1..(Len(t) + Len(u))
    BY <1>1
  <2>3. CASE k <= Len(t)
    <3>1. k \in 1..Len(t)
      BY <1>1, <2>2, <2>3
    <3> QED
      BY <1>1, <2>1, <3>1 DEF Holds
  <2>4. CASE k > Len(t)
    <3>1. PICK i \in 1..Len(u) : k = Len(t) + i
      <4>1. k - Len(t) \in 1..Len(u) /\ k = Len(t) + (k - Len(t))
        BY <1>1, <2>2, <2>4
      <4> QED
        BY <4>1
    <3>2. u[i] = x
      BY <1>1, <2>1, <3>1
    <3> QED
      BY <3>2 DEF Holds
  <2> QED
    BY <1>1, <2>2, <2>3, <2>4
<1>3. ASSUME NEW x, Holds(t, x) PROVE Holds(tu, x)
  <2>1. \A i \in 1..Len(t) : i \in 1..Len(tu)
    BY <1>1
  <2> QED
    BY <1>1, <1>3, <2>1 DEF Holds
<1>4. ASSUME NEW x, Holds(u, x) PROVE Holds(tu, x)
  <2>1. \A i \in 1..Len(u) : Len(t) + i \in 1..Len(tu)
    BY <1>1
  <2> QED
    BY <1>1, <1>4, <2>1 DEF Holds
<1> QED
  BY <1>1, <1>2, <1>3, <1>4

LEMMA FlattenHolds ==
  ASSUME NEW X, NEW n \in Nat \ {0}, NEW G \in [1..n -> Row(X)]
  PROVE  /\ FlattenSeq(G) \in Row(X)
         /\ \A x : Holds(FlattenSeq(G), x) <=> \E g \in 1..n : Holds(G[g], x)
<1>1. PICK f \in [1..n -> Row(X)] : RunsOver(f, G, n) /\ FlattenSeq(G) = f[n]
  <2>1. n \in Nat /\ n > 0
    OBVIOUS
  <2> QED
    BY <2>1, FlattenTrace
<1> DEFINE Known(k) == \A x : Holds(f[k], x) <=> \E g \in 1..k : Holds(G[g], x)
           Done == {k \in Nat : k + 1 <= n => Known(k + 1)}
<1>2. 0 \in Done
  <2>1. f[1] = G[1] /\ 1..1 = {1}
    BY <1>1 DEF RunsOver
  <2>2. Known(0 + 1)
    BY <2>1
  <2> HIDE DEF Known
  <2> QED
    BY <2>2
<1>3. ASSUME NEW k \in Nat, k \in Done PROVE k + 1 \in Done
  <2> SUFFICES ASSUME k + 1 + 1 <= n PROVE Known(k + 1 + 1)
    OBVIOUS
  <2>1. PICK i \in 1..n, j \in 2..n : i = k + 1 /\ j = k + 1 + 1 /\ j - 1 = i /\ j \in 1..n
    OBVIOUS
  <2>2. Known(i)
    <3> HIDE DEF Known
    <3> QED
      BY <1>3, <2>1
  <2>3. f[j] = Joined(f[i], G[j])
    BY <1>1, <2>1 DEF RunsOver
  <2>4. PICK t \in Row(X), u \in Row(X) : t = f[i] /\ u = G[j]
    BY <2>1
  <2>5. \A x : Holds(f[j], x) <=> Holds(f[i], x) \/ Holds(G[j], x)
    BY <2>3, <2>4, JoinedHolds
  <2>6. 1..j = 1..i \cup {j}
    BY <2>1
  <2>7. Known(j)
    BY <2>2, <2>5, <2>6
  <2> HIDE DEF Known
  <2> QED
    BY <2>1, <2>7
<1> HIDE DEF Done
<1>4. n - 1 \in Done
  <2>1. n - 1 \in Nat
    OBVIOUS
  <2> QED
    BY <1>2, <1>3, <2>1, Induction
<1>5. Known(n)
  <2>1. n - 1 \in Nat /\ (n - 1) + 1 = n /\ n <= n
    OBVIOUS
  <2> HIDE DEF Known
  <2> QED
    BY <1>4, <2>1 DEF Done
<1>6. f[n] \in Row(X)
  <2>1. n \in 1..n
    OBVIOUS
  <2> QED
    BY <2>1
<1> QED
  BY <1>1, <1>5, <1>6

\* Every insertion follows the last position before it, or the start.
LEMMA InsertionFollows ==
  ASSUME NEW n \in Nat, NEW s \in Source(n), NEW e \in 1..Len(s), s[e] \in Chars
  PROVE  \E i \in 0..n : Holds(InsertionsAfter(s, i), e)
<1>0. Len(s) \in Nat /\ e \in Nat /\ \A k \in 1..Len(s) : s[k] \in Chars \cup (1..n)
  <2>1. Len(s) \in Nat /\ \A k \in 1..Len(s) : s[k] \in Chars \cup (1..n)
    BY SourceIs
  <2>2. e \in Nat
    BY <2>1
  <2> QED
    BY <2>1, <2>2
<1>1. \A k \in 1..n : k \notin Chars
  BY CharsAssumption
<1> DEFINE Starts == {j \in 0..e : j = 0 \/ s[j] \notin Chars}
<1>2. Starts \in SUBSET (0..e) /\ 0 \in Starts
  BY <1>0
<1> HIDE DEF Starts
<1>3. PICK p \in Starts : \A k \in Starts : k <= p
  BY <1>0, <1>2, GreatestNatural
<1>4. p \in 0..e /\ (p = 0 \/ s[p] \notin Chars) /\ \A j \in (p + 1)..e : s[j] \in Chars
  BY <1>0, <1>3 DEF Starts
<1>5. p < e
  BY <1>0, <1>4
<1>6. CASE p = 0
  <2>1. 0 \in 0..n /\ Retains(s, 0) /\ IndexIn(s, 0) = 0
    BY DEF Retains, IndexIn
  <2>2. Follows(s, 0, e)
    BY <1>0, <1>4, <1>5, <1>6, <2>1 DEF Follows
  <2> QED
    BY <2>1, <2>2, InsertionsAre
<1>7. CASE p # 0
  <2>1. p \in 1..Len(s) /\ s[p] \in 1..n
    BY <1>0, <1>4, <1>5, <1>7
  <2>2. PICK i \in 0..n : i = s[p] /\ i > 0 /\ i \notin Chars
    BY <1>1, <2>1
  <2>3. Retains(s, i)
    BY <2>1, <2>2 DEF Retains
  <2>4. IndexIn(s, i) \in 1..Len(s) /\ s[IndexIn(s, i)] = i
    BY <2>2, <2>3, IndexIs
  <2>5. IndexIn(s, i) = p
    BY <2>1, <2>2, <2>4, SourceIs
  <2>6. Follows(s, i, e)
    BY <1>0, <1>4, <1>5, <2>3, <2>5 DEF Follows
  <2> QED
    BY <2>6, InsertionsAre
<1> QED
  BY <1>6, <1>7

LEMMA GroupHolds ==
  ASSUME NEW n \in Nat, NEW s \in Source(n), NEW t \in Source(n), NEW first,
         NEW g \in 1..(n + 1)
  PROVE  \A x : Holds(Groups(s, t, n, first)[g], x) <=>
                  \/ Holds(InsertionsAfter(s, g - 1), x)
                  \/ Holds(Added(t, g - 1), x)
                  \/ Holds(Kept(s, t, n, g - 1), x)
<1> DEFINE X == Chars \cup (1..Len(s))
<1>0. Len(s) \in Nat /\ g - 1 \in 0..n
  BY SourceIs
<1>00. Chars \subseteq X /\ (1..Len(s)) \subseteq X
  OBVIOUS
<1> HIDE DEF X
<1>1. PICK there \in Row(X) : there = InsertionsAfter(s, g - 1)
  <2>1. InsertionsAfter(s, g - 1) \in Row(1..Len(s))
    BY <1>0, InsertionsAre
  <2> QED
    BY <1>00, <2>1, RowInLarger
<1>2. PICK added \in Row(X) : added = Added(t, g - 1)
  BY <1>0, <1>00, AddedAre, RowInLarger
<1>3. PICK kept \in Row(X) : kept = Kept(s, t, n, g - 1)
  BY <1>0, <1>00, KeptIs, RowInLarger
<1>4. PICK two \in Row(X) :
        /\ two = IF first THEN Joined(there, added) ELSE Joined(added, there)
        /\ \A x : Holds(two, x) <=> Holds(there, x) \/ Holds(added, x)
  <2>1. CASE first
    <3>1. /\ Joined(there, added) \in Row(X)
          /\ \A x : Holds(Joined(there, added), x) <=> Holds(there, x) \/ Holds(added, x)
      BY JoinedHolds
    <3> QED
      BY <2>1, <3>1
  <2>2. CASE ~ first
    <3>1. /\ Joined(added, there) \in Row(X)
          /\ \A x : Holds(Joined(added, there), x) <=> Holds(added, x) \/ Holds(there, x)
      BY JoinedHolds
    <3> QED
      BY <2>2, <3>1
  <2> QED
    BY <2>1, <2>2
<1>5. \A x : Holds(Joined(two, kept), x) <=> Holds(two, x) \/ Holds(kept, x)
  BY JoinedHolds
<1>6. Groups(s, t, n, first)[g] = Joined(two, kept)
  <2>1. CASE first
    BY <1>1, <1>2, <1>3, <1>4, <2>1 DEF Groups
  <2>2. CASE ~ first
    BY <1>1, <1>2, <1>3, <1>4, <2>2 DEF Groups
  <2> QED
    BY <2>1, <2>2
<1> QED
  BY <1>1, <1>2, <1>3, <1>4, <1>5, <1>6

LEMMA PartsHold ==
  ASSUME NEW n \in Nat, NEW s \in Source(n), NEW t \in Source(n), NEW i \in 0..n, NEW x
  PROVE  /\ Holds(InsertionsAfter(s, i), x) => x \in 1..Len(s) /\ s[x] \in Chars
         /\ Holds(Added(t, i), x) => x \in Chars /\ Holds(t, x)
         /\ Holds(Kept(s, t, n, i), x) => x \in 1..Len(s) /\ Holds(t, s[x])
<1>1. ASSUME Holds(InsertionsAfter(s, i), x) PROVE x \in 1..Len(s) /\ s[x] \in Chars
  BY <1>1, InsertionsAre DEF Holds
<1>2. ASSUME Holds(Added(t, i), x) PROVE x \in Chars /\ Holds(t, x)
  <2>1. PICK k \in 1..Len(Added(t, i)) : Added(t, i)[k] = x
    BY <1>2 DEF Holds
  <2>2. x \in Chars /\ x = t[InsertionsAfter(t, i)[k]] /\ k \in 1..Len(InsertionsAfter(t, i))
    BY <2>1, AddedAre
  <2>3. InsertionsAfter(t, i)[k] \in 1..Len(t)
    BY <2>2, InsertionsAre
  <2> QED
    BY <2>2, <2>3 DEF Holds
<1>3. ASSUME Holds(Kept(s, t, n, i), x) PROVE x \in 1..Len(s) /\ Holds(t, s[x])
  <2>1. PICK k \in 1..Len(Kept(s, t, n, i)) : Kept(s, t, n, i)[k] = x
    BY <1>3 DEF Holds
  <2>2. x \in 1..Len(s) /\ s[x] = i + 1
    BY <2>1, KeptIs
  <2>3. Both(s, t, n, i)
    <3>1. \A m \in 1..0 : FALSE
      OBVIOUS
    <3> QED
      BY <2>1, <3>1, KeptIs
  <2>4. i + 1 # 0
    OBVIOUS
  <2> QED
    BY <2>2, <2>3, <2>4 DEF Both, Retains, Holds
<1> QED
  BY <1>1, <1>2, <1>3

\* What a transformed delta inserts is what was to be inserted; what it retains
\* is what the first delta inserted, and what was to be retained.
LEMMA RowsKept ==
  ASSUME NEW n \in Nat, NEW s \in Source(n), NEW t \in Source(n), NEW first
  PROVE  /\ \A c \in Chars : Holds(FlattenSeq(Groups(s, t, n, first)), c) <=> Holds(t, c)
         /\ \A e \in 1..Len(s) :
              Holds(FlattenSeq(Groups(s, t, n, first)), e) <=> s[e] \in Chars \/ Holds(t, s[e])
<1> DEFINE X == Chars \cup (1..Len(s))
           G == Groups(s, t, n, first)
<1>0. /\ Len(s) \in Nat /\ n + 1 \in Nat \ {0}
      /\ \A g \in 1..(n + 1) : g - 1 \in 0..n
      /\ \A i \in 0..n : i + 1 \in 1..(n + 1) /\ (i + 1) - 1 = i
      /\ \A c \in Chars, e \in 1..Len(s) : c # e
  <2>1. Len(s) \in Nat
    BY SourceIs
  <2>2. \A c \in Chars, e \in 1..Len(s) : c # e
    BY <2>1, CharsAssumption
  <2> QED
    BY <2>1, <2>2
<1>1. G \in [1..(n + 1) -> Row(X)]
  BY GroupsTogether
<1> HIDE DEF X, G
<1>2. \A x : Holds(FlattenSeq(G), x) <=> \E g \in 1..(n + 1) : Holds(G[g], x)
  BY <1>0, <1>1, FlattenHolds
<1>3. \A x : \A g \in 1..(n + 1) : Holds(G[g], x) <=>
                  \/ Holds(InsertionsAfter(s, g - 1), x)
                  \/ Holds(Added(t, g - 1), x)
                  \/ Holds(Kept(s, t, n, g - 1), x)
  BY GroupHolds DEF G
<1>4. ASSUME NEW i \in 0..n, NEW x,
             Holds(InsertionsAfter(s, i), x) \/ Holds(Added(t, i), x) \/ Holds(Kept(s, t, n, i), x)
      PROVE  Holds(FlattenSeq(G), x)
  BY <1>0, <1>2, <1>3, <1>4
<1>5. ASSUME NEW x, Holds(FlattenSeq(G), x)
      PROVE  \E i \in 0..n :
               Holds(InsertionsAfter(s, i), x) \/ Holds(Added(t, i), x) \/ Holds(Kept(s, t, n, i), x)
  BY <1>0, <1>2, <1>3, <1>5
<1>6. ASSUME NEW c \in Chars, Holds(FlattenSeq(G), c) PROVE Holds(t, c)
  BY <1>0, <1>5, <1>6, PartsHold
<1>7. ASSUME NEW c \in Chars, Holds(t, c) PROVE Holds(FlattenSeq(G), c)
  <2>1. PICK e \in 1..Len(t) : t[e] = c
    BY <1>7 DEF Holds
  <2>2. PICK i \in 0..n : Holds(InsertionsAfter(t, i), e)
    BY <2>1, InsertionFollows
  <2>3. PICK k \in 1..Len(InsertionsAfter(t, i)) : InsertionsAfter(t, i)[k] = e
    BY <2>2 DEF Holds
  <2>4. k \in 1..Len(Added(t, i)) /\ Added(t, i)[k] = c
    BY <2>1, <2>3, AddedAre
  <2>5. Holds(Added(t, i), c)
    BY <2>4 DEF Holds
  <2> QED
    BY <1>4, <2>5
<1>8. ASSUME NEW e \in 1..Len(s), Holds(FlattenSeq(G), e)
      PROVE  s[e] \in Chars \/ Holds(t, s[e])
  BY <1>0, <1>5, <1>8, PartsHold
<1>9. ASSUME NEW e \in 1..Len(s), s[e] \in Chars PROVE Holds(FlattenSeq(G), e)
  <2>1. PICK i \in 0..n : Holds(InsertionsAfter(s, i), e)
    BY <1>9, InsertionFollows
  <2> QED
    BY <1>4, <2>1
<1>10. ASSUME NEW e \in 1..Len(s), s[e] \notin Chars, Holds(t, s[e])
       PROVE  Holds(FlattenSeq(G), e)
  <2>1. s[e] \in 1..n
    BY <1>10, SourceIs
  <2>2. PICK i \in 0..n : i + 1 = s[e] /\ i < n /\ i + 1 \in 0..n /\ i + 1 > 0
    <3>1. s[e] - 1 \in 0..n /\ (s[e] - 1) + 1 = s[e] /\ s[e] - 1 < n
      BY <2>1
    <3> QED
      BY <2>1, <3>1
  <2>3. Retains(s, i + 1) /\ Retains(t, i + 1)
    BY <1>10, <2>2 DEF Retains, Holds
  <2>4. IndexIn(s, i + 1) \in 1..Len(s) /\ s[IndexIn(s, i + 1)] = i + 1
    BY <2>2, <2>3, IndexIs
  <2>5. IndexIn(s, i + 1) = e
    BY <1>10, <2>2, <2>4, SourceIs
  <2>6. Kept(s, t, n, i) = <<e>>
    BY <2>2, <2>3, <2>5 DEF Kept, Both
  <2>7. PICK v : v = <<e>>
    OBVIOUS
  <2>8. 1 \in 1..Len(v) /\ v[1] = e
    BY <2>7
  <2>9. Holds(Kept(s, t, n, i), e)
    BY <2>6, <2>7, <2>8 DEF Holds
  <2> QED
    BY <1>4, <2>9
<1> QED
  BY <1>6, <1>7, <1>8, <1>9, <1>10 DEF G

LEMMA ExtendHolds ==
  ASSUME NEW n \in Nat, NEW m \in Nat, n <= m, NEW s \in Source(n), NEW x
  PROVE  Holds(Extend(s, n, m), x) <=> Holds(s, x) \/ x \in (n + 1)..m
<1> DEFINE e == Extend(s, n, m)
<1>1. /\ Len(s) \in Nat /\ Len(e) = Len(s) + (m - n)
      /\ \A i \in 1..Len(s) : e[i] = s[i]
      /\ \A i \in 1..(m - n) : e[Len(s) + i] = n + i
  BY ExtendIs, SourceIs
<1> HIDE DEF e
<1>2. PICK l \in Nat, r \in Nat : l = Len(s) /\ r = m - n /\ Len(e) = l + r /\ m = n + r
  BY <1>1
<1>3. ASSUME Holds(e, x) PROVE Holds(s, x) \/ x \in (n + 1)..m
  <2>1. PICK k \in 1..Len(e) : e[k] = x
    BY <1>3 DEF Holds
  <2>2. CASE k <= l
    <3>1. k \in 1..Len(s)
      BY <1>2, <2>2
    <3> QED
      BY <1>1, <2>1, <3>1 DEF Holds
  <2>3. CASE k > l
    <3>1. PICK i \in 1..r : k = l + i
      <4>1. k - l \in 1..r /\ k = l + (k - l)
        BY <1>2, <2>3
      <4> QED
        BY <4>1
    <3>2. x = n + i
      BY <1>1, <1>2, <2>1, <3>1
    <3> QED
      BY <1>2, <3>2
  <2> QED
    BY <1>2, <2>2, <2>3
<1>4. ASSUME Holds(s, x) PROVE Holds(e, x)
  <2>1. PICK k \in 1..Len(s) : s[k] = x
    BY <1>4 DEF Holds
  <2>2. k \in 1..Len(e)
    BY <1>2
  <2> QED
    BY <1>1, <2>1, <2>2 DEF Holds
<1>5. ASSUME x \in (n + 1)..m PROVE Holds(e, x)
  <2>1. PICK i \in 1..r : x = n + i
    <3>1. x - n \in 1..r /\ x = n + (x - n)
      BY <1>2, <1>5
    <3> QED
      BY <3>1
  <2>2. l + i \in 1..Len(e) /\ e[l + i] = x
    BY <1>1, <1>2, <2>1
  <2> QED
    BY <2>2 DEF Holds
<1> QED
  BY <1>3, <1>4, <1>5 DEF e

\* A transformed delta does what was meant (BodyDelta.transform()): in any text
\* that both deltas fit, it inserts what b inserts and no more, and of the text
\* that a has made, it retains what a has inserted and what b retains, and no
\* more.
THEOREM IntentionsKept ==
  ASSUME NEW a \in BodyDeltas, NEW b \in BodyDeltas, NEW first,
         NEW l \in Nat, a.len <= l, b.len <= l
  PROVE  LET s == Unchopped(a, l)
             t == Unchopped(b, l)
             u == Unchopped(TransformAs(a, b, first), Len(s))
         IN  /\ TransformAs(a, b, first).len <= Len(s)
             /\ \A c \in Chars : Holds(u, c) <=> Holds(t, c)
             /\ \A e \in 1..Len(s) : Holds(u, e) <=> s[e] \in Chars \/ Holds(t, s[e])
<1> DEFINE d == TransformAs(a, b, first)
<1>0. a.len \in Nat /\ b.len \in Nat
  BY DeltaIs
<1>1. PICK n \in Nat : n = Larger(a.len, b.len) /\ a.len <= n /\ b.len <= n /\ n <= l
  <2>1. PICK i \in Nat, j \in Nat : i = a.len /\ j = b.len
    BY <1>0
  <2>2. /\ Larger(i, j) \in Nat /\ i <= Larger(i, j) /\ j <= Larger(i, j)
        /\ Larger(i, j) = i \/ Larger(i, j) = j
    BY LargerIs
  <2> QED
    BY <2>1, <2>2
<1>2. PICK s0 \in Source(n) : s0 = Unchopped(a, n) /\ s0 = Extend(a.to, a.len, n)
  BY <1>1, UnchoppedIs
<1>3. PICK t0 \in Source(n) : t0 = Unchopped(b, n) /\ t0 = Extend(b.to, b.len, n)
  BY <1>1, UnchoppedIs
<1>4. PICK f \in Source(Len(s0)) : f = FlattenSeq(Groups(s0, t0, n, first))
  BY GroupsTogether
<1>5. /\ \A c \in Chars : Holds(f, c) <=> Holds(t0, c)
      /\ \A e \in 1..Len(s0) : Holds(f, e) <=> s0[e] \in Chars \/ Holds(t0, s0[e])
  BY <1>4, RowsKept
<1>6. d = Chop(Len(s0), f)
  BY <1>1, <1>2, <1>3, <1>4, TransformIs
<1>7. PICK s \in Source(l) : s = Unchopped(a, l) /\ s = Extend(s0, n, l)
  <2>1. Unchopped(a, l) = Extend(a.to, a.len, l) /\ Unchopped(a, l) \in Source(l)
    BY <1>0, <1>1, UnchoppedIs
  <2>2. a.to \in Source(a.len)
    BY DeltaIs
  <2>3. Extend(Extend(a.to, a.len, n), n, l) = Extend(a.to, a.len, l)
    BY <1>0, <1>1, <2>2, ExtendTwice
  <2> QED
    BY <1>2, <2>1, <2>3
<1>77. /\ Len(Extend(s0, n, l)) = Len(s0) + (l - n)
       /\ \A i \in 1..Len(s0) : Extend(s0, n, l)[i] = s0[i]
       /\ \A i \in 1..(l - n) : Extend(s0, n, l)[Len(s0) + i] = n + i
  BY <1>1, ExtendIs
<1>8. PICK t \in Source(l) : t = Unchopped(b, l) /\ t = Extend(t0, n, l)
  <2>1. Unchopped(b, l) = Extend(b.to, b.len, l) /\ Unchopped(b, l) \in Source(l)
    BY <1>0, <1>1, UnchoppedIs
  <2>2. b.to \in Source(b.len)
    BY DeltaIs
  <2>3. Extend(Extend(b.to, b.len, n), n, l) = Extend(b.to, b.len, l)
    BY <1>0, <1>1, <2>2, ExtendTwice
  <2> QED
    BY <1>3, <2>1, <2>3
<1>9. PICK p \in Nat, q \in Nat : p = Len(s0) /\ q = Len(s) /\ q = p + (l - n) /\ p <= q
  <2>1. Len(s0) \in Nat /\ Len(s) = Len(s0) + (l - n)
    BY <1>7, <1>77, SourceIs
  <2> QED
    BY <1>1, <2>1
<1>10. /\ \A i \in 1..p : s[i] = s0[i]
       /\ \A i \in 1..(l - n) : s[p + i] = n + i
  BY <1>7, <1>77, <1>9
<1>11. d \in BodyDeltas /\ d.len <= p /\ Unchopped(d, q) = Extend(f, p, q)
  BY <1>4, <1>6, <1>9, ChopIs
<1> HIDE DEF d
<1> DEFINE u == Extend(f, p, q)
<1>12. d.len <= q
  <2>1. d.len \in Nat
    BY <1>11, DeltaIs
  <2> QED
    BY <1>9, <1>11, <2>1
<1>13. /\ \A x : Holds(u, x) <=> Holds(f, x) \/ x \in (p + 1)..q
       /\ \A x : Holds(t, x) <=> Holds(t0, x) \/ x \in (n + 1)..l
  <2>1. ASSUME NEW x PROVE Holds(u, x) <=> Holds(f, x) \/ x \in (p + 1)..q
    BY <1>4, <1>9, ExtendHolds
  <2>2. ASSUME NEW x PROVE Holds(t, x) <=> Holds(t0, x) \/ x \in (n + 1)..l
    BY <1>1, <1>8, ExtendHolds
  <2> QED
    BY <2>1, <2>2
<1> HIDE DEF u
<1>14. \A c \in Chars : Holds(u, c) <=> Holds(t, c)
  <2>1. \A c \in Chars : c \notin (p + 1)..q /\ c \notin (n + 1)..l
    BY CharsAssumption
  <2> QED
    BY <1>5, <1>13, <2>1
<1>15. ASSUME NEW e \in 1..q PROVE Holds(u, e) <=> s[e] \in Chars \/ Holds(t, s[e])
  <2>1. CASE e <= p
    <3>1. e \in 1..p /\ e \notin (p + 1)..q
      BY <1>9, <2>1
    <3>2. s[e] = s0[e] /\ (s0[e] \in Chars \/ s0[e] \in 1..n)
      BY <1>9, <1>10, <3>1, SourceIs
    <3>3. s0[e] \notin Chars => s0[e] \notin (n + 1)..l
      BY <1>1, <3>2
    <3>4. Holds(f, e) <=> s0[e] \in Chars \/ Holds(t0, s0[e])
      BY <1>5, <1>9, <3>1
    <3> QED
      BY <1>13, <3>1, <3>2, <3>3, <3>4
  <2>2. CASE e > p
    <3>1. e \in (p + 1)..q
      BY <1>9, <2>2
    <3>2. e - p \in 1..(l - n) /\ p + (e - p) = e
      BY <1>1, <1>9, <3>1
    <3>3. s[e] = n + (e - p)
      BY <1>10, <3>2
    <3>4. s[e] \in (n + 1)..l
      BY <1>1, <3>2, <3>3
    <3> QED
      BY <1>13, <3>1, <3>4
  <2> QED
    BY <1>9, <2>1, <2>2
<1> QED
  BY <1>7, <1>8, <1>9, <1>11, <1>12, <1>14, <1>15 DEF u, d

-----------------------------------------------------------------------------
(* Deltas that leave the end alone *)

EndsIn(s, x) == Len(s) > 0 /\ s[Len(s)] = x

\* d retains the last of l characters, and last.
KeepsEnd(d, l) == l > 0 /\ d.len <= l /\ EndsIn(Unchopped(d, l), l)

LEMMA JoinedEnds ==
  ASSUME NEW X, NEW t \in Row(X), NEW u \in Row(X), NEW x
  PROVE  /\ EndsIn(u, x) => EndsIn(Joined(t, u), x)
         /\ Len(u) = 0 /\ EndsIn(t, x) => EndsIn(Joined(t, u), x)
<1>1. /\ Len(t) \in Nat /\ Len(u) \in Nat
      /\ Len(Joined(t, u)) = Len(t) + Len(u)
      /\ \A i \in 1..Len(t) : Joined(t, u)[i] = t[i]
      /\ \A i \in 1..Len(u) : Joined(t, u)[Len(t) + i] = u[i]
  BY JoinedIs
<1>2. ASSUME EndsIn(u, x) PROVE EndsIn(Joined(t, u), x)
  <2>1. Len(u) \in 1..Len(u) /\ Len(t) + Len(u) > 0
    BY <1>1, <1>2 DEF EndsIn
  <2> QED
    BY <1>1, <1>2, <2>1 DEF EndsIn
<1>3. ASSUME Len(u) = 0, EndsIn(t, x) PROVE EndsIn(Joined(t, u), x)
  <2>1. Len(t) \in 1..Len(t) /\ Len(t) + Len(u) = Len(t)
    BY <1>1, <1>3 DEF EndsIn
  <2> QED
    BY <1>1, <1>3, <2>1 DEF EndsIn
<1> QED
  BY <1>2, <1>3

\* The rows flattened end as the last but one does if the last is empty.
LEMMA FlattenEnds ==
  ASSUME NEW X, NEW n \in Nat \ {0}, NEW G \in [1..(n + 1) -> Row(X)], NEW x,
         EndsIn(G[n], x), Len(G[n + 1]) = 0
  PROVE  EndsIn(FlattenSeq(G), x)
<1>1. PICK f \in [1..(n + 1) -> Row(X)] : RunsOver(f, G, n + 1) /\ FlattenSeq(G) = f[n + 1]
  <2>1. n + 1 \in Nat /\ n + 1 > 0
    OBVIOUS
  <2>2. PICK k \in Nat : k = n + 1 /\ k > 0 /\ G \in [1..k -> Row(X)]
    BY <2>1
  <2>3. \E f \in [1..k -> Row(X)] : RunsOver(f, G, k) /\ FlattenSeq(G) = f[k]
    BY <2>2, FlattenTrace
  <2> QED
    BY <2>2, <2>3
<1>2. EndsIn(f[n], x)
  <2>1. CASE n = 1
    BY <1>1, <2>1 DEF RunsOver
  <2>2. CASE n # 1
    <3>1. n \in 2..(n + 1) /\ n \in 1..(n + 1) /\ n - 1 \in 1..(n + 1)
      BY <2>2
    <3>2. PICK t \in Row(X), u \in Row(X) : t = f[n - 1] /\ u = G[n]
      BY <3>1
    <3>3. f[n] = Joined(t, u)
      BY <1>1, <3>1, <3>2 DEF RunsOver
    <3>4. EndsIn(Joined(t, u), x)
      BY <3>2, JoinedEnds
    <3> QED
      BY <3>3, <3>4
  <2> QED
    BY <2>1, <2>2
<1>3. n + 1 \in 2..(n + 1) /\ n + 1 \in 1..(n + 1) /\ n \in 1..(n + 1) /\ (n + 1) - 1 = n
  OBVIOUS
<1>4. PICK t \in Row(X), u \in Row(X) : t = f[n] /\ u = G[n + 1]
  BY <1>3
<1>5. f[n + 1] = Joined(t, u)
  BY <1>1, <1>3, <1>4 DEF RunsOver
<1>6. EndsIn(Joined(t, u), x)
  BY <1>2, <1>4, JoinedEnds
<1> QED
  BY <1>1, <1>5, <1>6

\* A row that ends in its last position has nothing inserted after that.
LEMMA NothingAfterEnd ==
  ASSUME NEW n \in Nat \ {0}, NEW s \in Source(n), EndsIn(s, n)
  PROVE  /\ Retains(s, n) /\ IndexIn(s, n) = Len(s)
         /\ Len(InsertionsAfter(s, n)) = 0
<1>1. Len(s) \in 1..Len(s) /\ s[Len(s)] = n /\ n \in 0..n /\ n > 0 /\ n \in Nat /\ n \notin Chars
  BY SourceIs, CharsAssumption DEF EndsIn
<1>2. Retains(s, n)
  BY <1>1 DEF Retains
<1>3. IndexIn(s, n) = Len(s)
  <2>1. IndexIn(s, n) \in 1..Len(s) /\ s[IndexIn(s, n)] = n
    BY <1>1, <1>2, IndexIs
  <2> QED
    BY <1>1, <2>1, SourceIs
<1>4. \A e : ~ Follows(s, n, e)
  BY <1>1, <1>3 DEF Follows
<1>5. /\ Len(InsertionsAfter(s, n)) \in Nat
      /\ \A k \in 1..Len(InsertionsAfter(s, n)) : Follows(s, n, InsertionsAfter(s, n)[k])
  BY <1>1, InsertionsAre
<1>6. Len(InsertionsAfter(s, n)) = 0
  <2>1. 1 \notin 1..Len(InsertionsAfter(s, n))
    BY <1>4, <1>5
  <2> QED
    BY <1>5, <2>1
<1> QED
  BY <1>2, <1>3, <1>6

\* If both sides end in the last position, so does what is transformed.
LEMMA GroupsEnd ==
  ASSUME NEW n \in Nat \ {0}, NEW s \in Source(n), NEW t \in Source(n), NEW first,
         EndsIn(s, n), EndsIn(t, n)
  PROVE  EndsIn(FlattenSeq(Groups(s, t, n, first)), Len(s))
<1> DEFINE X == Chars \cup (1..Len(s))
           G == Groups(s, t, n, first)
<1>0. /\ Len(s) \in Nat /\ n \in 1..(n + 1) /\ n + 1 \in 1..(n + 1) /\ (n + 1) - 1 = n
      /\ n - 1 \in 0..n /\ (n - 1) + 1 = n /\ n \in 0..n /\ n - 1 < n /\ ~ (n < n)
  BY SourceIs
<1>00. Chars \subseteq X /\ (1..Len(s)) \subseteq X
  OBVIOUS
<1>1. G \in [1..(n + 1) -> Row(X)]
  BY GroupsTogether
<1>2. /\ Retains(s, n) /\ IndexIn(s, n) = Len(s) /\ Len(InsertionsAfter(s, n)) = 0
      /\ Retains(t, n) /\ Len(InsertionsAfter(t, n)) = 0
  BY NothingAfterEnd
<1> HIDE DEF X
<1>3. ASSUME NEW i \in 0..n
      PROVE  /\ InsertionsAfter(s, i) \in Row(X) /\ Added(t, i) \in Row(X)
             /\ Kept(s, t, n, i) \in Row(X)
  <2>1. InsertionsAfter(s, i) \in Row(1..Len(s))
    BY InsertionsAre
  <2>2. Added(t, i) \in Row(Chars)
    BY AddedAre
  <2>3. Kept(s, t, n, i) \in Row(1..Len(s))
    BY KeptIs
  <2> QED
    BY <1>00, <2>1, <2>2, <2>3, RowInLarger
<1>4. ASSUME NEW i \in 0..n
      PROVE  \E two \in Row(X) :
               /\ G[i + 1] = Joined(two, Kept(s, t, n, i))
               /\ Len(two) = Len(InsertionsAfter(s, i)) + Len(Added(t, i))
  <2>1. PICK there \in Row(X), added \in Row(X) :
          there = InsertionsAfter(s, i) /\ added = Added(t, i)
    BY <1>3
  <2>2. i + 1 \in 1..(n + 1) /\ (i + 1) - 1 = i
    OBVIOUS
  <2>3. CASE first
    <3>1. /\ Joined(there, added) \in Row(X)
          /\ Len(Joined(there, added)) = Len(there) + Len(added)
      BY JoinedIs
    <3>2. G[i + 1] = Joined(Joined(there, added), Kept(s, t, n, i))
      BY <2>1, <2>2, <2>3 DEF Groups
    <3> QED
      BY <2>1, <3>1, <3>2
  <2>4. CASE ~ first
    <3>1. /\ Joined(added, there) \in Row(X) /\ Len(there) \in Nat /\ Len(added) \in Nat
          /\ Len(Joined(added, there)) = Len(added) + Len(there)
      BY JoinedIs
    <3>2. G[i + 1] = Joined(Joined(added, there), Kept(s, t, n, i))
      BY <2>1, <2>2, <2>4 DEF Groups
    <3>3. Len(Joined(added, there)) = Len(there) + Len(added)
      BY <3>1
    <3> QED
      BY <2>1, <3>1, <3>2, <3>3
  <2> QED
    BY <2>3, <2>4
<1> HIDE DEF G
<1>5. EndsIn(G[n], Len(s))
  <2>1. Both(s, t, n, n - 1)
    BY <1>0, <1>2 DEF Both
  <2>2. Kept(s, t, n, n - 1) = <<Len(s)>>
    BY <1>0, <1>2, <2>1 DEF Kept
  <2>3. PICK v : v = <<Len(s)>>
    OBVIOUS
  <2>4. EndsIn(v, Len(s))
    <3>1. Len(v) = 1 /\ v[1] = Len(s)
      BY <2>3
    <3> QED
      BY <3>1 DEF EndsIn
  <2>5. PICK two \in Row(X) : G[n] = Joined(two, Kept(s, t, n, n - 1))
    BY <1>0, <1>4
  <2>6. Kept(s, t, n, n - 1) \in Row(X)
    BY <1>0, <1>3
  <2>7. PICK w \in Row(X) : w = Kept(s, t, n, n - 1)
    BY <2>6
  <2>8. EndsIn(Joined(two, w), Len(s))
    BY <2>2, <2>3, <2>4, <2>7, JoinedEnds
  <2> QED
    BY <2>5, <2>7, <2>8
<1>6. Len(G[n + 1]) = 0
  <2>1. Len(Kept(s, t, n, n)) = 0
    <3>1. ~ Both(s, t, n, n)
      BY <1>0 DEF Both
    <3> QED
      BY <1>0, <3>1, KeptIs
  <2>2. Len(Added(t, n)) = 0
    BY <1>0, <1>2, AddedAre
  <2>3. PICK two \in Row(X) :
          /\ G[n + 1] = Joined(two, Kept(s, t, n, n))
          /\ Len(two) = Len(InsertionsAfter(s, n)) + Len(Added(t, n))
    BY <1>0, <1>4
  <2>4. Len(two) = 0
    BY <1>2, <2>2, <2>3
  <2>5. PICK w \in Row(X) : w = Kept(s, t, n, n)
    BY <1>0, <1>3
  <2>6. Len(Joined(two, w)) = Len(two) + Len(w)
    BY JoinedIs
  <2> QED
    BY <2>1, <2>3, <2>4, <2>5, <2>6
<1> QED
  BY <1>1, <1>5, <1>6, FlattenEnds DEF G

\* A row that is extended ends in the new last position.
LEMMA ExtendEnds ==
  ASSUME NEW n \in Nat, NEW m \in Nat, NEW s \in Source(n), n < m
  PROVE  EndsIn(Extend(s, n, m), m)
<1> DEFINE e == Extend(s, n, m)
<1>1. /\ Len(s) \in Nat /\ Len(e) = Len(s) + (m - n)
      /\ \A i \in 1..(m - n) : e[Len(s) + i] = n + i
  <2>1. n <= m
    OBVIOUS
  <2>2. /\ Len(e) = Len(s) + (m - n)
        /\ \A i \in 1..(m - n) : e[Len(s) + i] = n + i
    BY <2>1, ExtendIs
  <2>3. Len(s) \in Nat
    BY SourceIs
  <2> QED
    BY <2>2, <2>3
<1> HIDE DEF e
<1>2. PICK k \in Nat, r \in 1..(m - n) : k = Len(s) /\ r = m - n /\ n + r = m /\ k + r > 0
  <2>1. m - n \in 1..(m - n) /\ n + (m - n) = m /\ m - n > 0
    OBVIOUS
  <2>2. Len(s) + (m - n) > 0
    BY <1>1, <2>1
  <2> QED
    BY <1>1, <2>1, <2>2
<1>3. e[Len(s) + (m - n)] = m /\ Len(s) + (m - n) > 0
  BY <1>1, <1>2
<1> QED
  BY <1>1, <1>3 DEF EndsIn, e

\* A delta that leaves the end alone still does so when it is transformed by
\* another one.
LEMMA TransformKeepsEnd ==
  ASSUME NEW a \in BodyDeltas, NEW b \in BodyDeltas, NEW first, NEW l \in Nat,
         KeepsEnd(a, l), KeepsEnd(b, l)
  PROVE  KeepsEnd(TransformAs(a, b, first), Len(Unchopped(a, l)))
<1> DEFINE d == TransformAs(a, b, first)
<1>0. a.len \in Nat /\ b.len \in Nat /\ a.len <= l /\ b.len <= l /\ l > 0
  BY DeltaIs DEF KeepsEnd
<1>1. PICK n \in Nat : n = Larger(a.len, b.len) /\ a.len <= n /\ b.len <= n /\ n <= l
  <2>1. PICK i \in Nat, j \in Nat : i = a.len /\ j = b.len
    BY <1>0
  <2>2. /\ Larger(i, j) \in Nat /\ i <= Larger(i, j) /\ j <= Larger(i, j)
        /\ Larger(i, j) = i \/ Larger(i, j) = j
    BY LargerIs
  <2> QED
    BY <1>0, <2>1, <2>2
<1>2. PICK s0 \in Source(n) : s0 = Unchopped(a, n) /\ s0 = Extend(a.to, a.len, n)
  BY <1>1, UnchoppedIs
<1>3. PICK t0 \in Source(n) : t0 = Unchopped(b, n)
  BY <1>1, UnchoppedIs
<1>4. PICK f \in Source(Len(s0)) : f = FlattenSeq(Groups(s0, t0, n, first))
  BY GroupsTogether
<1>6. d = Chop(Len(s0), f)
  BY <1>1, <1>2, <1>3, <1>4, TransformIs
<1>7. PICK s \in Source(l) : s = Unchopped(a, l) /\ s = Extend(s0, n, l)
  <2>1. Unchopped(a, l) = Extend(a.to, a.len, l) /\ Unchopped(a, l) \in Source(l)
    BY <1>0, UnchoppedIs
  <2>2. a.to \in Source(a.len)
    BY DeltaIs
  <2>3. Extend(Extend(a.to, a.len, n), n, l) = Extend(a.to, a.len, l)
    BY <1>0, <1>1, <2>2, ExtendTwice
  <2> QED
    BY <1>2, <2>1, <2>3
<1>77. Len(Extend(s0, n, l)) = Len(s0) + (l - n)
  BY <1>1, ExtendIs
<1>8. PICK p \in Nat, q \in Nat : p = Len(s0) /\ q = Len(s) /\ q = p + (l - n) /\ p <= q
  <2>1. Len(s0) \in Nat /\ Len(s) = Len(s0) + (l - n)
    BY <1>7, <1>77, SourceIs
  <2> QED
    BY <1>1, <2>1
<1>9. d \in BodyDeltas /\ d.len <= p /\ Unchopped(d, q) = Extend(f, p, q)
  BY <1>4, <1>6, <1>8, ChopIs
<1> HIDE DEF d
<1>10. EndsIn(s, l)
  BY <1>7 DEF KeepsEnd
<1>11. d.len <= q /\ q > 0
  <2>1. d.len \in Nat
    BY <1>9, DeltaIs
  <2> QED
    BY <1>8, <1>9, <1>10, <2>1 DEF EndsIn
<1>12. EndsIn(Extend(f, p, q), q)
  <2>1. CASE n < l
    <3>1. p < q
      BY <1>1, <1>8, <2>1
    <3> QED
      BY <1>4, <1>8, <3>1, ExtendEnds
  <2>2. CASE n = l
    <3>1. p = q /\ n \in Nat \ {0}
      BY <1>0, <1>8, <2>2
    <3>2. EndsIn(s0, n) /\ EndsIn(t0, n)
      BY <1>2, <1>3, <2>2 DEF KeepsEnd
    <3>3. EndsIn(f, p)
      BY <1>4, <1>8, <3>1, <3>2, GroupsEnd
    <3>4. Extend(f, p, q) = f
      BY <1>4, <1>8, <3>1, ExtendNothing
    <3> QED
      BY <3>1, <3>3, <3>4
  <2> QED
    BY <1>1, <2>1, <2>2
<1> QED
  BY <1>7, <1>8, <1>9, <1>11, <1>12 DEF KeepsEnd, d

\* Two deltas that leave the end alone do so together.
LEMMA ComposeKeepsEnd ==
  ASSUME NEW a \in BodyDeltas, NEW b \in BodyDeltas, NEW l \in Nat,
         KeepsEnd(a, l), KeepsEnd(b, Len(Unchopped(a, l)))
  PROVE  KeepsEnd(ComposeDeltas(a, b), l)
<1>0. a.len \in Nat /\ a.len <= l /\ l > 0
  BY DeltaIs DEF KeepsEnd
<1>1. PICK s \in Source(l) : /\ s = Unchopped(a, l) /\ Len(s) = Len(a.to) + (l - a.len)
                             /\ Len(s) \in Nat
  BY <1>0, UnchoppedIs, SourceIs
<1>2. b.len <= Len(s) /\ Len(s) > 0 /\ EndsIn(Unchopped(b, Len(s)), Len(s))
  BY <1>1 DEF KeepsEnd
<1>3. PICK t \in Source(Len(s)) : t = Unchopped(b, Len(s))
  BY <1>1, <1>2, UnchoppedIs
<1>4. /\ ComposeDeltas(a, b).len <= l
      /\ Unchopped(ComposeDeltas(a, b), l) = Substitute(s, t)
  BY <1>0, <1>1, <1>2, <1>3, ComposedRows
<1>5. /\ Len(t) > 0 /\ t[Len(t)] = Len(s) /\ Len(s) \notin Chars /\ s[Len(s)] = l
  BY <1>1, <1>2, <1>3, CharsAssumption DEF EndsIn, KeepsEnd
<1>6. /\ Len(t) \in Nat /\ Len(Substitute(s, t)) = Len(t)
      /\ \A k \in 1..Len(t) : Substitute(s, t)[k] = IF t[k] \in Chars THEN t[k] ELSE s[t[k]]
  BY <1>1, SubstituteAt
<1>7. Len(t) \in 1..Len(t)
  BY <1>5, <1>6
<1>8. EndsIn(Substitute(s, t), l)
  BY <1>5, <1>6, <1>7 DEF EndsIn
<1> QED
  BY <1>0, <1>4, <1>8 DEF KeepsEnd

LEMMA EmptyKeepsEnd ==
  ASSUME NEW l \in Nat, l > 0
  PROVE  KeepsEnd(EmptyBodyDelta, l)
<1>1. EmptyBodyDelta \in BodyDeltas /\ EmptyBodyDelta.len = 0 /\ EmptyBodyDelta.len <= l
  BY EmptyDelta
<1>2. Unchopped(EmptyBodyDelta, l) = Extend(EmptyBodyDelta.to, 0, l)
  BY <1>1, UnchoppedIs
<1>3. EmptyBodyDelta.to \in Source(0)
  BY <1>1, DeltaIs
<1>4. EndsIn(Extend(EmptyBodyDelta.to, 0, l), l)
  BY <1>3, ExtendEnds
<1> QED
  BY <1>1, <1>2, <1>4 DEF KeepsEnd

BodyDocuments == {text \in Text : IsDocument(text)}

\* A delta that leaves the end alone makes a document of a document.
LEMMA DocumentStays ==
  ASSUME NEW text \in BodyDocuments, NEW d \in BodyDeltas, KeepsEnd(d, Len(text))
  PROVE  /\ ComposeBody(text, d) \in BodyDocuments
         /\ Len(ComposeBody(text, d)) = Len(Unchopped(d, Len(text)))
         /\ Len(ComposeBody(text, d)) > 0
<1>1. PICK l \in Nat : l = Len(text) /\ text \in Text /\ text \in Row(Chars) /\ IsDocument(text)
  BY TextIs DEF BodyDocuments
<1>2. d.len <= l /\ l > 0 /\ EndsIn(Unchopped(d, l), l)
  BY <1>1 DEF KeepsEnd
<1>3. PICK u \in Source(l) : u = Unchopped(d, l)
  BY <1>2, UnchoppedIs
<1>4. ComposeBody(text, d) = Substitute(text, u) /\ ComposeBody(text, d) \in Text
  BY <1>1, <1>2, <1>3, ComposedText
<1>5. /\ Len(u) \in Nat /\ Len(Substitute(text, u)) = Len(u)
      /\ \A k \in 1..Len(u) : Substitute(text, u)[k] = IF u[k] \in Chars THEN u[k] ELSE text[u[k]]
  BY <1>1, SubstituteAt
<1>6. Len(u) > 0 /\ u[Len(u)] = l /\ l \notin Chars
  BY <1>2, <1>3, CharsAssumption DEF EndsIn
<1>7. Substitute(text, u)[Len(u)] = text[l]
  <2>1. Len(u) \in 1..Len(u)
    BY <1>5, <1>6
  <2> QED
    BY <1>5, <1>6, <2>1
<1>8. text[l] \in Newlines
  <2>1. text # <<>>
    BY <1>1, <1>2
  <2> QED
    BY <1>1, <2>1 DEF IsDocument, Last
<1>9. IsDocument(Substitute(text, u))
  BY <1>5, <1>7, <1>8 DEF IsDocument, Last
<1> QED
  BY <1>1, <1>3, <1>4, <1>5, <1>6, <1>9 DEF BodyDocuments

\* The deltas keep the end of the texts that they lead through.
KeepsEnds(deltas, n, history) ==
  \A i \in 1..n : /\ KeepsEnd(deltas[i], Len(history[i - 1]))
                  /\ history[i] = ComposeBody(history[i - 1], deltas[i])

LEMMA ComposeAllKeepsEnd ==
  ASSUME NEW n \in Nat, NEW deltas \in [1..n -> BodyDeltas], NEW history \in [0..n -> BodyDocuments],
         KeepsEnds(deltas, n, history), Len(history[0]) > 0
  PROVE  /\ ComposeAll(deltas) \in BodyDeltas /\ KeepsEnd(ComposeAll(deltas), Len(history[0]))
         /\ Len(Unchopped(ComposeAll(deltas), Len(history[0]))) = Len(history[n])
<1>1. PICK trace \in [0..n -> BodyDeltas] :
        /\ trace[0] = EmptyBodyDelta
        /\ \A i \in 1..n : trace[i] = ComposeDeltas(trace[i - 1], deltas[i])
        /\ ComposeAll(deltas) = trace[n]
  BY DeltasTrace
<1>2. PICK text \in BodyDocuments : text = history[0] /\ text \in Text
  BY DEF BodyDocuments
<1>3. PICK l \in Nat : l = Len(text) /\ l > 0
  BY <1>2, TextIs
<1> DEFINE Good == {k \in Nat : k <= n => /\ KeepsEnd(trace[k], l)
                                          /\ ComposeBody(text, trace[k]) = history[k]}
<1>4. 0 \in Good
  BY <1>1, <1>2, <1>3, EmptyDelta, EmptyKeepsEnd
<1>5. ASSUME NEW k \in Nat, k \in Good PROVE k + 1 \in Good
  <2> SUFFICES ASSUME k + 1 <= n
               PROVE  /\ KeepsEnd(trace[k + 1], l)
                      /\ ComposeBody(text, trace[k + 1]) = history[k + 1]
    OBVIOUS
  <2>1. KeepsEnd(trace[k], l) /\ ComposeBody(text, trace[k]) = history[k]
    BY <1>5
  <2> HIDE DEF Good
  <2>2. PICK i \in 1..n : i = k + 1 /\ i - 1 = k /\ k \in 0..n
    OBVIOUS
  <2>3. PICK a \in BodyDeltas, b \in BodyDeltas, at \in BodyDocuments :
          a = trace[k] /\ b = deltas[i] /\ at = history[k]
    BY <2>2
  <2>4. /\ trace[i] = ComposeDeltas(a, b)
        /\ KeepsEnd(b, Len(at)) /\ history[i] = ComposeBody(at, b)
    BY <1>1, <2>2, <2>3 DEF KeepsEnds
  <2>5. ComposeBody(text, a) = at /\ Len(at) = Len(Unchopped(a, l))
    BY <1>3, <2>1, <2>3, DocumentStays
  <2>6. KeepsEnd(ComposeDeltas(a, b), l)
    BY <2>1, <2>3, <2>4, <2>5, ComposeKeepsEnd
  <2>7. ComposeBody(text, ComposeDeltas(a, b)) = ComposeBody(at, b)
    <3>1. a.len <= Len(text) /\ b.len <= Len(ComposeBody(text, a))
      BY <1>3, <2>1, <2>3, <2>4, <2>5 DEF KeepsEnd
    <3> QED
      BY <1>2, <2>5, <3>1, ComposedDeltas
  <2> QED
    BY <2>2, <2>4, <2>6, <2>7
<1> HIDE DEF Good
<1>6. n \in Good
  BY <1>4, <1>5, Induction
<1>7. n \in 0..n /\ n <= n
  OBVIOUS
<1>8. PICK c \in BodyDeltas : c = ComposeAll(deltas) /\ c = trace[n]
  BY <1>1, <1>7
<1>9. KeepsEnd(c, l) /\ ComposeBody(text, c) = history[n]
  BY <1>6, <1>7, <1>8 DEF Good
<1>10. Len(history[n]) = Len(Unchopped(c, l))
  BY <1>3, <1>9, DocumentStays
<1> QED
  BY <1>2, <1>3, <1>8, <1>9, <1>10

\* A delta that leaves the end alone, rebased onto others that do
\* (BodyControl._impl_rebase()), leaves the end of the last text alone.
LEMMA RebaseKeepsEnd ==
  ASSUME NEW n \in Nat, NEW deltas \in [1..n -> BodyDeltas], NEW history \in [0..n -> BodyDocuments],
         KeepsEnds(deltas, n, history), Len(history[0]) > 0,
         NEW delta \in BodyDeltas, KeepsEnd(delta, Len(history[0])),
         NEW expected, NEW current
  PROVE  /\ RebaseBody(delta, expected, deltas, current) \in BodyDeltas
         /\ KeepsEnd(RebaseBody(delta, expected, deltas, current), Len(history[n]))
<1>1. PICK c \in BodyDeltas : c = ComposeAll(deltas)
  BY ComposeAllKeepsEnd
<1>2. PICK l \in Nat : l = Len(history[0])
  <2>1. history[0] \in Text
    BY DEF BodyDocuments
  <2> QED
    BY <2>1, TextIs
<1>3. KeepsEnd(c, l) /\ Len(Unchopped(c, l)) = Len(history[n]) /\ KeepsEnd(delta, l)
  BY <1>1, <1>2, ComposeAllKeepsEnd
<1>4. RebaseBody(delta, expected, deltas, current) = TransformAs(ComposeAll(deltas), delta, TRUE)
  BY Zenon DEF RebaseBody, Transform, ComposeAll
<1>5. TransformAs(c, delta, TRUE) \in BodyDeltas
  BY Transformed
<1>6. KeepsEnd(TransformAs(c, delta, TRUE), Len(Unchopped(c, l)))
  BY <1>3, TransformKeepsEnd
<1> QED
  BY <1>1, <1>3, <1>4, <1>5, <1>6

-----------------------------------------------------------------------------
(* Rows of records: what becomes of them when one is added or taken out *)

IsRow(q) == Len(q) \in Nat /\ q = [i \in 1..Len(q) |-> q[i]]

In(q) == {q[i] : i \in 1..Len(q)}

\* No record, at most one record, has this in that field; those that have one
\* thing in it come before those that have another.
None(q, f, x) == \A i \in 1..Len(q) : q[i][f] # x
One(q, f, x) == \A i, j \in 1..Len(q) : q[i][f] = x /\ q[j][f] = x => i = j
Before(q, f, x, y) == \A i, j \in 1..Len(q) : q[i][f] = x /\ q[j][f] = y => i < j

LEMMA RowIs ==
  ASSUME NEW q, IsRow(q)
  PROVE  q \in Row(In(q)) /\ Len(q) \in Nat
<1>1. PICK S, n : S = In(q) /\ n = Len(q)
  OBVIOUS
<1>2. q \in [1..n -> S] /\ n \in Nat
  BY <1>1 DEF IsRow, In
<1> QED
  BY <1>1, <1>2 DEF Row

LEMMA RowsAre ==
  ASSUME NEW S, NEW q \in Row(S)
  PROVE  IsRow(q) /\ In(q) \subseteq S
  BY DEF Row, IsRow, In

LEMMA RowsIn ==
  ASSUME NEW S, NEW q, IsRow(q), In(q) \subseteq S
  PROVE  q \in Row(S)
<1>1. \A i \in 1..Len(q) : q[i] \in S
  BY DEF In
<1>2. PICK n : n = Len(q)
  OBVIOUS
<1>3. q \in [1..n -> S] /\ n \in Nat
  BY <1>1, <1>2 DEF IsRow
<1> QED
  BY <1>3 DEF Row

LEMMA AppendIs ==
  ASSUME NEW q, NEW e, IsRow(q)
  PROVE  /\ IsRow(Append(q, e)) /\ Len(Append(q, e)) = Len(q) + 1
         /\ \A i \in 1..Len(q) : Append(q, e)[i] = q[i]
         /\ Append(q, e)[Len(q) + 1] = e
<1>1. PICK S : q \in Seq(S) /\ e \in S
  <2>1. q \in Seq(In(q))
    BY RowIs DEF Row
  <2> HIDE DEF In
  <2>2. q \in Seq(In(q) \cup {e})
    BY <2>1
  <2> QED
    BY <2>2
<1>2. PICK p : p = Append(q, e)
  OBVIOUS
<1>3. p \in Seq(S) /\ Len(p) = Len(q) + 1 /\ Len(q) \in Nat
  BY <1>1, <1>2
<1>4. \A i \in 1..Len(q) : p[i] = q[i]
  BY <1>1, <1>2
<1>5. p[Len(q) + 1] = e
  BY <1>1, <1>2
<1>6. IsRow(p)
  BY <1>3, RowsAre DEF Row
<1> QED
  BY <1>2, <1>3, <1>4, <1>5, <1>6

LEMMA Appended ==
  ASSUME NEW q, NEW e, IsRow(q)
  PROVE  /\ IsRow(Append(q, e)) /\ Append(q, e) # <<>>
         /\ In(Append(q, e)) = In(q) \cup {e}
         /\ q # <<>> => Head(Append(q, e)) = Head(q)
         /\ \A f, x : None(Append(q, e), f, x) <=> None(q, f, x) /\ e[f] # x
         /\ \A f, x : One(Append(q, e), f, x) <=> One(q, f, x) /\ (None(q, f, x) \/ e[f] # x)
         /\ \A f, x, y : x # y => (Before(Append(q, e), f, x, y) <=>
                                     Before(q, f, x, y) /\ (None(q, f, y) \/ e[f] # x))
<1> DEFINE p == Append(q, e)
<1>1. /\ IsRow(p) /\ Len(p) = Len(q) + 1 /\ Len(q) \in Nat
      /\ \A i \in 1..Len(q) : p[i] = q[i]
      /\ p[Len(q) + 1] = e
  BY AppendIs DEF IsRow
<1>0. q # <<>> => Head(p) = Head(q)
  <2> SUFFICES ASSUME q # <<>> PROVE Head(p) = Head(q)
    OBVIOUS
  <2>1. q \in Seq(In(q))
    BY RowIs DEF Row
  <2>2. Len(q) # 0
    BY <2>1
  <2>3. 1 \in 1..Len(q)
    BY <1>1, <2>2
  <2> QED
    BY <1>1, <2>3
<1> HIDE DEF p
<1>2. \A i \in 1..Len(p) : i = Len(q) + 1 \/ i \in 1..Len(q)
  BY <1>1
<1>3. \A i \in 1..Len(q) : i \in 1..Len(p) /\ i < Len(q) + 1 /\ ~ (Len(q) + 1 < i)
  BY <1>1
<1>4. Len(q) + 1 \in 1..Len(p)
  BY <1>1
<1>5. ASSUME NEW f, NEW x PROVE None(p, f, x) <=> None(q, f, x) /\ e[f] # x
  BY <1>1, <1>2, <1>3, <1>4 DEF None
<1>6. ASSUME NEW f, NEW x
      PROVE  One(p, f, x) <=> One(q, f, x) /\ (None(q, f, x) \/ e[f] # x)
  <2>1. One(p, f, x) => One(q, f, x)
    BY <1>1, <1>2, <1>3, <1>4 DEF One, None
  <2>2. One(p, f, x) => (None(q, f, x) \/ e[f] # x)
    BY <1>1, <1>2, <1>3, <1>4 DEF One, None
  <2>3. One(q, f, x) /\ (None(q, f, x) \/ e[f] # x) => One(p, f, x)
    BY <1>1, <1>2, <1>3, <1>4 DEF One, None
  <2> QED
    BY <2>1, <2>2, <2>3
<1>7. ASSUME NEW f, NEW x, NEW y, x # y
      PROVE  Before(p, f, x, y) <=> Before(q, f, x, y) /\ (None(q, f, y) \/ e[f] # x)
  <2>1. Before(p, f, x, y) => Before(q, f, x, y)
    BY <1>1, <1>2, <1>3, <1>4 DEF Before
  <2>2. Before(p, f, x, y) => (None(q, f, y) \/ e[f] # x)
    BY <1>1, <1>2, <1>3, <1>4 DEF Before, None
  <2>3. Before(q, f, x, y) /\ (None(q, f, y) \/ e[f] # x) => Before(p, f, x, y)
    BY <1>1, <1>2, <1>3, <1>4, <1>7 DEF Before, None
  <2> QED
    BY <2>1, <2>2, <2>3
<1>8. In(p) = In(q) \cup {e}
  BY <1>1, <1>2, <1>3, <1>4 DEF In
<1>9. p # <<>>
  BY <1>1
<1> QED
  BY <1>0, <1>1, <1>5, <1>6, <1>7, <1>8, <1>9 DEF p

\* p is q without its k-th record.
Without(p, q, k) ==
  /\ IsRow(p) /\ IsRow(q) /\ k \in 1..Len(q) /\ Len(p) = Len(q) - 1
  /\ \A i \in 1..Len(p) : p[i] = q[IF i < k THEN i ELSE i + 1]

LEMMA WithoutMeans ==
  ASSUME NEW p, NEW q, NEW k, Without(p, q, k)
  PROVE  /\ IsRow(p) /\ q[k] \in In(q) /\ In(p) \subseteq In(q)
         /\ In(q) \subseteq In(p) \cup {q[k]}
         /\ \A f, x : None(q, f, x) <=> None(p, f, x) /\ q[k][f] # x
         /\ \A f, x : One(q, f, x) => One(p, f, x) /\ (q[k][f] = x => None(p, f, x))
         /\ \A f, x, y : Before(q, f, x, y) => Before(p, f, x, y)
<1> DEFINE at(i) == IF i < k THEN i ELSE i + 1
<1>1. Len(p) \in Nat /\ Len(q) \in Nat /\ k \in Nat
  BY DEF Without, IsRow
<1>2. \A i \in 1..Len(p) : at(i) \in 1..Len(q) /\ at(i) # k /\ p[i] = q[at(i)]
  BY <1>1 DEF Without
<1>3. \A i, j \in 1..Len(p) : /\ at(i) = at(j) => i = j
                              /\ at(i) < at(j) => i < j
  BY <1>1
<1>4. \A i \in 1..Len(q) : i # k => \E j \in 1..Len(p) : i = at(j)
  <2> SUFFICES ASSUME NEW i \in 1..Len(q), i # k PROVE \E j \in 1..Len(p) : i = at(j)
    OBVIOUS
  <2>1. CASE i < k
    <3>1. i \in 1..Len(p) /\ at(i) = i
      BY <1>1, <2>1 DEF Without
    <3> QED
      BY <3>1
  <2>2. CASE k < i
    <3>1. i - 1 \in 1..Len(p) /\ at(i - 1) = i
      BY <1>1, <2>2 DEF Without
    <3> QED
      BY <3>1
  <2> QED
    BY <1>1, <2>1, <2>2
<1> HIDE DEF at
<1>44. \A i \in 1..Len(q) : i # k => \E j \in 1..Len(p) : p[j] = q[i]
  BY <1>2, <1>4
<1>5. k \in 1..Len(q) /\ IsRow(p)
  BY DEF Without
<1>6. ASSUME NEW f, NEW x PROVE None(q, f, x) <=> None(p, f, x) /\ q[k][f] # x
  <2>1. None(q, f, x) => None(p, f, x) /\ q[k][f] # x
    BY <1>2, <1>5 DEF None
  <2>2. None(p, f, x) /\ q[k][f] # x => None(q, f, x)
    <3> SUFFICES ASSUME None(p, f, x), q[k][f] # x, NEW i \in 1..Len(q), i # k
                 PROVE  q[i][f] # x
      BY DEF None
    <3>1. PICK j \in 1..Len(p) : p[j] = q[i]
      BY <1>44
    <3> QED
      BY <3>1 DEF None
  <2> QED
    BY <2>1, <2>2
<1>7. ASSUME NEW f, NEW x, One(q, f, x)
      PROVE  One(p, f, x) /\ (q[k][f] = x => None(p, f, x))
  <2>1. ASSUME NEW i \in 1..Len(p), NEW j \in 1..Len(p), p[i][f] = x, p[j][f] = x
        PROVE  i = j
    <3>1. /\ at(i) \in 1..Len(q) /\ q[at(i)][f] = x
          /\ at(j) \in 1..Len(q) /\ q[at(j)][f] = x
      BY <1>2, <2>1
    <3>2. at(i) = at(j)
      BY <1>7, <3>1 DEF One
    <3> QED
      BY <1>3, <3>2
  <2>2. ASSUME q[k][f] = x, NEW i \in 1..Len(p), p[i][f] = x
        PROVE  FALSE
    <3>1. at(i) \in 1..Len(q) /\ q[at(i)][f] = x /\ at(i) # k
      BY <1>2, <2>2
    <3> QED
      BY <1>5, <1>7, <2>2, <3>1 DEF One
  <2> QED
    BY <2>1, <2>2 DEF None, One
<1>8. ASSUME NEW f, NEW x, NEW y, Before(q, f, x, y) PROVE Before(p, f, x, y)
  BY <1>2, <1>3, <1>8 DEF Before
<1>9. q[k] \in In(q) /\ In(p) \subseteq In(q)
  BY <1>2, <1>5 DEF In
<1>10. In(q) \subseteq In(p) \cup {q[k]}
  BY <1>44 DEF In
<1> QED
  BY <1>5, <1>6, <1>7, <1>8, <1>9, <1>10

LEMMA Removed ==
  ASSUME NEW q, IsRow(q), NEW k \in 1..Len(q)
  PROVE  Without(RemoveAt(q, k), q, k)
<1>1. q \in Seq(In(q)) /\ Len(q) \in Nat
  BY RowIs DEF Row
<1>2. PICK S : S = In(q)
  OBVIOUS
<1>3. PICK p : p = RemoveAt(q, k)
  OBVIOUS
<1> HIDE DEF In
<1>31. PICK a, b : a = SubSeq(q, 1, k - 1) /\ b = SubSeq(q, k + 1, Len(q))
  OBVIOUS
<1>32. p = a \o b
  BY <1>3, <1>31 DEF RemoveAt
<1>33. /\ a \in Seq(S) /\ Len(a) = k - 1 /\ k \in Nat
       /\ \A i \in 1..k - 1 : a[i] = q[i]
  BY <1>1, <1>2, <1>31
<1>34. /\ b \in Seq(S) /\ Len(b) = Len(q) - k
       /\ \A i \in 1..Len(q) - k : b[i] = q[k + i]
  BY <1>1, <1>2, <1>31
<1>4. p \in Seq(S) /\ Len(p) = Len(q) - 1
  BY <1>1, <1>32, <1>33, <1>34
<1>5. ASSUME NEW i \in 1..Len(p) PROVE p[i] = q[IF i < k THEN i ELSE i + 1]
  <2>1. CASE i < k
    <3>1. i \in 1..k - 1 /\ i \in 1..Len(a)
      BY <1>33, <2>1
    <3>2. p[i] = a[i]
      BY <1>32, <1>33, <1>34, <3>1
    <3> QED
      BY <1>33, <2>1, <3>1, <3>2
  <2>2. CASE ~ (i < k)
    <3>1. /\ i - (k - 1) \in 1..Len(q) - k /\ i - (k - 1) \in 1..Len(b)
          /\ k + (i - (k - 1)) = i + 1
      BY <1>1, <1>4, <1>33, <1>34, <2>2
    <3>2. p[i] = b[i - (k - 1)]
      BY <1>32, <1>33, <1>34, <2>2, <3>1
    <3> QED
      BY <1>34, <2>2, <3>1, <3>2
  <2> QED
    BY <2>1, <2>2
<1>6. IsRow(p)
  BY <1>4, RowsAre DEF Row
<1> QED
  BY <1>3, <1>4, <1>5, <1>6 DEF Without

LEMMA Tailed ==
  ASSUME NEW q, IsRow(q), q # <<>>
  PROVE  /\ Without(Tail(q), q, 1) /\ Head(q) = q[1] /\ 1 \in 1..Len(q)
         /\ \A f, x, y : Before(q, f, x, y) /\ Head(q)[f] = y => None(q, f, x)
<1>1. q \in Seq(In(q)) /\ Len(q) \in Nat
  BY RowIs DEF Row
<1>2. PICK S : S = In(q)
  OBVIOUS
<1>3. PICK p : p = Tail(q)
  OBVIOUS
<1>4. p \in Seq(S) /\ Len(p) = Len(q) - 1 /\ Len(q) # 0
  BY <1>1, <1>2, <1>3
<1>5. 1 \in 1..Len(q) /\ Head(q) = q[1]
  BY <1>1, <1>4
<1>6. \A i \in 1..Len(p) : p[i] = q[IF i < 1 THEN i ELSE i + 1]
  BY <1>1, <1>2, <1>3, <1>4
<1>7. IsRow(p)
  BY <1>4, RowsAre DEF Row
<1>8. Without(p, q, 1)
  BY <1>4, <1>5, <1>6, <1>7 DEF Without
<1>9. ASSUME NEW f, NEW x, NEW y, Before(q, f, x, y), Head(q)[f] = y PROVE None(q, f, x)
  <2>1. \A i \in 1..Len(q) : q[i][f] = x => i < 1
    BY <1>5, <1>9 DEF Before
  <2>2. \A i \in 1..Len(q) : ~ (i < 1)
    OBVIOUS
  <2> QED
    BY <2>1, <2>2 DEF None
<1> QED
  BY <1>3, <1>5, <1>8, <1>9

LEMMA Pushed ==
  ASSUME NEW t, NEW e, IsRow(t)
  PROVE  /\ IsRow(<<e>> \o t) /\ <<e>> \o t # <<>> /\ Head(<<e>> \o t) = e
         /\ In(<<e>> \o t) = In(t) \cup {e}
         /\ \A f, x : None(<<e>> \o t, f, x) <=> None(t, f, x) /\ e[f] # x
         /\ \A f, x : One(t, f, x) /\ (None(t, f, x) \/ e[f] # x) => One(<<e>> \o t, f, x)
         /\ \A f, x, y : x # y /\ Before(t, f, x, y) /\ (None(t, f, x) \/ e[f] # y) =>
              Before(<<e>> \o t, f, x, y)
<1>1. PICK S, p : t \in Seq(S) /\ e \in S /\ p = <<e>> \o t
  <2>1. t \in Seq(In(t))
    BY RowIs DEF Row
  <2> HIDE DEF In
  <2>2. t \in Seq(In(t) \cup {e})
    BY <2>1
  <2> QED
    BY <2>2
<1>2. p \in Seq(S) /\ Len(p) = Len(t) + 1 /\ Len(t) \in Nat /\ p[1] = e /\ Head(p) = e
  BY <1>1
<1>3. \A i \in 1..Len(t) : p[i + 1] = t[i]
  BY <1>1
<1>4. IsRow(p) /\ p # <<>>
  BY <1>2, RowsAre DEF Row
<1>5. \A i \in 1..Len(p) : i = 1 \/ \E j \in 1..Len(t) : i = j + 1
  <2> SUFFICES ASSUME NEW i \in 1..Len(p), i # 1 PROVE \E j \in 1..Len(t) : i = j + 1
    OBVIOUS
  <2>1. i - 1 \in 1..Len(t) /\ i = (i - 1) + 1
    BY <1>2
  <2> QED
    BY <2>1
<1>6. 1 \in 1..Len(p) /\ \A i \in 1..Len(t) : i + 1 \in 1..Len(p) /\ p[i + 1] = t[i]
  BY <1>2, <1>3
<1>7. \A f, x : None(p, f, x) <=> None(t, f, x) /\ e[f] # x
  <2> SUFFICES ASSUME NEW f, NEW x PROVE None(p, f, x) <=> None(t, f, x) /\ e[f] # x
    OBVIOUS
  <2>1. None(p, f, x) => None(t, f, x) /\ e[f] # x
    BY <1>2, <1>6 DEF None
  <2>2. ASSUME None(t, f, x), e[f] # x, NEW i \in 1..Len(p) PROVE p[i][f] # x
    <3>1. CASE i = 1
      BY <1>2, <2>2, <3>1
    <3>2. CASE i # 1
      <4>1. PICK k \in 1..Len(t) : i = k + 1
        BY <1>5, <3>2
      <4> QED
        BY <1>6, <2>2, <4>1 DEF None
    <3> QED
      BY <3>1, <3>2
  <2> QED
    BY <2>1, <2>2 DEF None
<1>8. ASSUME NEW f, NEW x, One(t, f, x), None(t, f, x) \/ e[f] # x PROVE One(p, f, x)
  <2> SUFFICES ASSUME NEW i \in 1..Len(p), NEW j \in 1..Len(p), p[i][f] = x, p[j][f] = x
               PROVE  i = j
    BY DEF One
  <2>0. ASSUME NEW k \in 1..Len(p), k # 1, p[k][f] = x, e[f] = x PROVE FALSE
    <3>1. PICK l \in 1..Len(t) : k = l + 1
      BY <1>5, <2>0
    <3> QED
      BY <1>6, <1>8, <2>0, <3>1 DEF None
  <2>1. CASE i = 1 \/ j = 1
    BY <1>2, <2>0, <2>1
  <2>2. CASE i # 1 /\ j # 1
    <3>1. PICK k \in 1..Len(t) : i = k + 1
      BY <1>5, <2>2
    <3>2. PICK l \in 1..Len(t) : j = l + 1
      BY <1>5, <2>2
    <3>3. t[k][f] = x /\ t[l][f] = x
      BY <1>6, <3>1, <3>2
    <3> QED
      BY <1>8, <3>1, <3>2, <3>3 DEF One
  <2> QED
    BY <2>1, <2>2
<1>9. ASSUME NEW f, NEW x, NEW y, x # y, Before(t, f, x, y), None(t, f, x) \/ e[f] # y
      PROVE  Before(p, f, x, y)
  <2> SUFFICES ASSUME NEW i \in 1..Len(p), NEW j \in 1..Len(p), p[i][f] = x, p[j][f] = y
               PROVE  i < j
    BY DEF Before
  <2>1. CASE i = 1
    <3>1. j # 1
      BY <1>2, <1>9, <2>1
    <3> QED
      BY <2>1, <3>1
  <2>2. CASE i # 1
    <3>1. PICK k \in 1..Len(t) : i = k + 1
      BY <1>5, <2>2
    <3>2. t[k][f] = x
      BY <1>6, <3>1
    <3>3. j # 1
      BY <1>2, <1>9, <3>2 DEF None
    <3>4. PICK l \in 1..Len(t) : j = l + 1
      BY <1>5, <3>3
    <3>5. t[l][f] = y
      BY <1>6, <3>4
    <3>6. k < l
      BY <1>9, <3>2, <3>5 DEF Before
    <3> QED
      BY <3>1, <3>4, <3>6
  <2> QED
    BY <2>1, <2>2
<1>10. In(p) = In(t) \cup {e}
  <2>1. ASSUME NEW i \in 1..Len(p) PROVE p[i] \in In(t) \cup {e}
    <3>1. CASE i = 1
      BY <1>2, <3>1
    <3>2. CASE i # 1
      <4>1. PICK k \in 1..Len(t) : i = k + 1
        BY <1>5, <3>2
      <4> QED
        BY <1>6, <4>1 DEF In
    <3> QED
      BY <3>1, <3>2
  <2>2. In(p) \subseteq In(t) \cup {e}
    BY <2>1 DEF In
  <2>3. In(t) \cup {e} \subseteq In(p)
    BY <1>2, <1>6 DEF In
  <2> QED
    BY <2>2, <2>3
<1> QED
  BY <1>1, <1>2, <1>4, <1>7, <1>8, <1>9, <1>10

\* One and the same record a number of times.
Copies(e, n) == [i \in 1..n |-> e]

LEMMA Followed ==
  ASSUME NEW q, NEW e, NEW n \in Nat, IsRow(q)
  PROVE  /\ IsRow(q \o Copies(e, n)) /\ In(q \o Copies(e, n)) \subseteq In(q) \cup {e}
         /\ q # <<>> => q \o Copies(e, n) # <<>> /\ Head(q \o Copies(e, n)) = Head(q)
         /\ n = 0 => q \o Copies(e, n) = q
         /\ \A f, x : None(q \o Copies(e, n), f, x) => None(q, f, x)
         /\ \A f, x : None(q, f, x) /\ e[f] # x => None(q \o Copies(e, n), f, x)
         /\ \A f, x : One(q, f, x) /\ e[f] # x => One(q \o Copies(e, n), f, x)
         /\ \A f, x, y : Before(q, f, x, y) /\ e[f] # x => Before(q \o Copies(e, n), f, x, y)
<1>1. PICK S, c, p : q \in Seq(S) /\ e \in S /\ c = Copies(e, n) /\ p = q \o c
  <2>1. q \in Seq(In(q))
    BY RowIs DEF Row
  <2> HIDE DEF In
  <2>2. q \in Seq(In(q) \cup {e})
    BY <2>1
  <2> QED
    BY <2>2
<1>2. c \in Seq(S) /\ Len(c) = n /\ \A i \in 1..n : c[i] = e
  BY <1>1 DEF Copies
<1> HIDE DEF In, Copies
<1>22. q \in Row(S) /\ c \in Row(S)
  BY <1>1, <1>2 DEF Row
<1>23. /\ p \in Row(S) /\ Len(p) = Len(q) + Len(c) /\ Len(q) \in Nat
       /\ \A i \in 1..Len(q) : p[i] = q[i]
       /\ \A i \in 1..Len(c) : p[Len(q) + i] = c[i]
  <2>1. /\ Joined(q, c) \in Row(S) /\ Len(q) \in Nat
        /\ Len(Joined(q, c)) = Len(q) + Len(c)
        /\ \A i \in 1..Len(q) : Joined(q, c)[i] = q[i]
        /\ \A i \in 1..Len(c) : Joined(q, c)[Len(q) + i] = c[i]
    BY <1>22, JoinedIs
  <2>2. p = Joined(q, c)
    BY <1>1 DEF Joined
  <2> QED
    BY <2>1, <2>2
<1>3. p \in Seq(S) /\ Len(p) = Len(q) + n /\ Len(q) \in Nat
  BY <1>2, <1>23 DEF Row
<1>4. \A i \in 1..Len(q) : i \in 1..Len(p) /\ p[i] = q[i]
  BY <1>3, <1>23
<1>5. ASSUME NEW i \in 1..Len(p), i \notin 1..Len(q) PROVE p[i] = e /\ Len(q) < i
  <2>1. i - Len(q) \in 1..n /\ Len(q) < i
    BY <1>3, <1>5
  <2>2. p[i] = c[i - Len(q)]
    <3>1. i = Len(q) + (i - Len(q)) /\ i - Len(q) \in 1..Len(c)
      BY <1>2, <1>3, <2>1
    <3> QED
      BY <1>23, <3>1
  <2> QED
    BY <1>2, <2>1, <2>2
<1>6. IsRow(p)
  BY <1>3, RowsAre DEF Row
<1>7. In(p) \subseteq In(q) \cup {e}
  BY <1>4, <1>5 DEF In
<1>8. q # <<>> => p # <<>> /\ Head(p) = Head(q)
  <2> SUFFICES ASSUME q # <<>> PROVE p # <<>> /\ Head(p) = Head(q)
    OBVIOUS
  <2>1. Len(q) # 0
    BY <1>1
  <2>2. 1 \in 1..Len(q) /\ 1 \in 1..Len(p)
    BY <1>3, <2>1
  <2>3. p[1] = q[1] /\ p # <<>>
    BY <1>3, <1>4, <2>2
  <2> QED
    BY <1>1, <1>3, <2>3
<1>9. n = 0 => p = q
  <2> SUFFICES ASSUME n = 0 PROVE p = q
    OBVIOUS
  <2>1. p \in Row(S) /\ q \in Row(S) /\ Len(p) = Len(q)
    BY <1>1, <1>3 DEF Row
  <2> QED
    BY <1>4, <2>1, SameRow
<1>10. ASSUME NEW f, NEW x, None(p, f, x) PROVE None(q, f, x)
  BY <1>4, <1>10 DEF None
<1>11. ASSUME NEW f, NEW x, None(q, f, x), e[f] # x PROVE None(p, f, x)
  BY <1>4, <1>5, <1>11 DEF None
<1>12. ASSUME NEW f, NEW x, One(q, f, x), e[f] # x PROVE One(p, f, x)
  BY <1>4, <1>5, <1>12 DEF One
<1>13. ASSUME NEW f, NEW x, NEW y, Before(q, f, x, y), e[f] # x PROVE Before(p, f, x, y)
  <2> SUFFICES ASSUME NEW i \in 1..Len(p), NEW j \in 1..Len(p), p[i][f] = x, p[j][f] = y
               PROVE  i < j
    BY DEF Before
  <2>1. i \in 1..Len(q)
    BY <1>5, <1>13
  <2>2. CASE j \in 1..Len(q)
    BY <1>4, <1>13, <2>1, <2>2 DEF Before
  <2>3. CASE j \notin 1..Len(q)
    <3>1. Len(q) < j
      BY <1>5, <2>3
    <3> QED
      BY <1>3, <2>1, <3>1
  <2> QED
    BY <2>2, <2>3
<1> QED
  BY <1>1, <1>6, <1>7, <1>8, <1>9, <1>10, <1>11, <1>12, <1>13

LEMMA Nowhere ==
  ASSUME NEW q, IsRow(q)
  PROVE  /\ \A f, x : None(q, f, x) => One(q, f, x)
         /\ \A f, x, y : None(q, f, x) \/ None(q, f, y) => Before(q, f, x, y)
         /\ \A f, x : None(q, f, x) <=> \A e \in In(q) : e[f] # x
         /\ q = <<>> <=> In(q) = {}
         /\ q # <<>> => Head(q) \in In(q)
<1>1. q \in Seq(In(q)) /\ Len(q) \in Nat
  BY RowIs DEF Row
<1>2. \A f, x : None(q, f, x) <=> \A e \in In(q) : e[f] # x
  BY DEF In, None
<1>3. ASSUME q # <<>> PROVE Head(q) \in In(q)
  <2>1. 1 \in 1..Len(q) /\ Head(q) = q[1]
    BY <1>3, Tailed
  <2> QED
    BY <2>1 DEF In
<1>4. ASSUME q = <<>> PROVE In(q) = {}
  BY <1>4 DEF In
<1>5. \A f, x : None(q, f, x) => One(q, f, x)
  BY DEF None, One
<1>6. \A f, x, y : None(q, f, x) \/ None(q, f, y) => Before(q, f, x, y)
  BY DEF None, Before
<1> QED
  BY <1>2, <1>3, <1>4, <1>5, <1>6

LEMMA Empty ==
  /\ IsRow(<<>>) /\ In(<<>>) = {}
  /\ \A f, x : None(<<>>, f, x) /\ One(<<>>, f, x)
  BY DEF IsRow, In, None, One

\* The calls that answers answer.
CallsOf(answers) == [i \in 1..Len(answers) |-> answers[i].call]

LEMMA CallsOfIs ==
  ASSUME NEW r, IsRow(r)
  PROVE  /\ IsRow(CallsOf(r))
         /\ In(CallsOf(r)) = {a.call : a \in In(r)}
         /\ \A a : CallsOf(Append(r, a)) = Append(CallsOf(r), a.call)
         /\ r # <<>> => /\ CallsOf(Tail(r)) = Tail(CallsOf(r)) /\ CallsOf(r) # <<>>
                        /\ Head(CallsOf(r)) = Head(r).call
<1>0. Len(r) \in Nat
  BY DEF IsRow
<1>1. PICK S : S = {r[i].call : i \in 1..Len(r)}
  OBVIOUS
<1>2. PICK c : c = CallsOf(r)
  OBVIOUS
<1>3. c \in Row(S) /\ Len(c) = Len(r) /\ \A i \in 1..Len(r) : c[i] = r[i].call
  <2>1. PICK n : n = Len(r) /\ n \in Nat
    BY <1>0
  <2>2. c \in [1..n -> S] /\ \A i \in 1..n : c[i] = r[i].call
    BY <1>1, <1>2, <2>1 DEF CallsOf
  <2> QED
    BY <2>1, <2>2, RowOf
<1>4. IsRow(c)
  BY <1>3, RowsAre
<1>5. In(c) = {a.call : a \in In(r)}
  BY <1>3 DEF In
<1>6. ASSUME NEW a PROVE CallsOf(Append(r, a)) = Append(c, a.call)
  <2>1. PICK p, n : p = Append(r, a) /\ n = Len(r) /\ n \in Nat
    BY <1>0
  <2>2. Len(p) = n + 1 /\ p[n + 1] = a /\ \A i \in 1..n : p[i] = r[i]
    BY <2>1, AppendIs
  <2>3. PICK d : d = Append(c, a.call)
    OBVIOUS
  <2>4. IsRow(d) /\ Len(d) = n + 1 /\ d[n + 1] = a.call /\ \A i \in 1..n : d[i] = c[i]
    BY <1>3, <1>4, <2>1, <2>3, AppendIs
  <2>5. \A i \in 1..n + 1 : d[i] = p[i].call
    <3> SUFFICES ASSUME NEW i \in 1..n + 1 PROVE d[i] = p[i].call
      OBVIOUS
    <3>1. CASE i = n + 1
      BY <2>2, <2>4, <3>1
    <3>2. CASE i # n + 1
      <4>1. i \in 1..n
        BY <2>1, <3>2
      <4> QED
        BY <1>3, <2>1, <2>2, <2>4, <4>1
    <3> QED
      BY <3>1, <3>2
  <2>6. d = [i \in 1..n + 1 |-> d[i]]
    BY <2>4 DEF IsRow
  <2>7. CallsOf(p) = [i \in 1..n + 1 |-> p[i].call]
    BY <2>2 DEF CallsOf
  <2>8. d = CallsOf(p)
    BY <2>5, <2>6, <2>7
  <2> QED
    BY <2>1, <2>3, <2>8
<1>7. ASSUME r # <<>>
      PROVE  /\ CallsOf(Tail(r)) = Tail(c) /\ c # <<>>
             /\ Head(c) = Head(r).call
  <2>1. PICK p, n : p = Tail(r) /\ n = Len(r) /\ n \in Nat
    BY <1>0
  <2>2. Without(p, r, 1) /\ Head(r) = r[1] /\ 1 \in 1..n
    BY <1>7, <2>1, Tailed
  <2>3. c # <<>>
    BY <1>3, <2>1, <2>2
  <2>4. PICK d : d = Tail(c)
    OBVIOUS
  <2>5. Without(d, c, 1) /\ Head(c) = c[1]
    BY <1>4, <2>3, <2>4, Tailed
  <2>6. /\ Len(p) = n - 1 /\ Len(d) = n - 1 /\ IsRow(d)
        /\ \A i \in 1..n - 1 : p[i] = r[i + 1] /\ d[i] = c[i + 1]
    BY <1>3, <2>1, <2>2, <2>5 DEF Without
  <2>7. \A i \in 1..n - 1 : d[i] = p[i].call
    <3>1. \A i \in 1..n - 1 : i + 1 \in 1..n
      BY <2>1
    <3> QED
      BY <1>3, <2>1, <2>6, <3>1
  <2>8. d = [i \in 1..n - 1 |-> d[i]]
    BY <2>6 DEF IsRow
  <2>9. CallsOf(p) = [i \in 1..n - 1 |-> p[i].call]
    BY <2>6 DEF CallsOf
  <2>10. d = CallsOf(p)
    BY <2>7, <2>8, <2>9
  <2>11. Head(c) = Head(r).call
    BY <1>3, <2>1, <2>2, <2>5
  <2> QED
    BY <2>1, <2>3, <2>4, <2>10, <2>11
<1> QED
  BY <1>2, <1>4, <1>5, <1>6, <1>7

-----------------------------------------------------------------------------
(* What the events of the chain lead to *)

ChainEvents == [source : {"user", "client"}, delta : BodyDeltas]

\* An event leads from one text to the other: what the client did itself is in
\* the text already.
Does(event, text, next) ==
  IF event.source = "client" THEN next = text
  ELSE event.delta.len <= Len(text) /\ next = ComposeBody(text, event.delta)

\* The events, one after the other, lead from the one text to the other.
Leads(base, events, end) ==
  \E history \in [0..Len(events) -> Text] :
    /\ history[0] = base /\ history[Len(events)] = end
    /\ \A i \in 1..Len(events) : Does(events[i], history[i - 1], history[i])

LEMMA LeadsNowhere ==
  /\ \A text \in Text : Leads(text, <<>>, text)
  /\ \A base, end : Leads(base, <<>>, end) => base \in Text /\ end = base
<1>1. ASSUME NEW text \in Text PROVE Leads(text, <<>>, text)
  <2>1. PICK n, history : n = 0 /\ history = [i \in 0..n |-> text]
    OBVIOUS
  <2>2. history \in [0..n -> Text] /\ history[0] = text /\ Len(<<>>) = n /\ 1..n = {}
    BY <2>1
  <2> QED
    BY <2>1, <2>2 DEF Leads
<1>2. ASSUME NEW base, NEW end, Leads(base, <<>>, end) PROVE base \in Text /\ end = base
  <2>1. Len(<<>>) = 0 /\ 0 \in 0..0
    OBVIOUS
  <2> QED
    BY <1>2, <2>1 DEF Leads
<1> QED
  BY <1>1, <1>2

LEMMA LeadsEnds ==
  ASSUME NEW base, NEW end, NEW events \in Row(ChainEvents), Leads(base, events, end)
  PROVE  base \in Text /\ end \in Text
<1>1. Len(events) \in Nat
  BY DEF Row
<1>2. 0 \in 0..Len(events) /\ Len(events) \in 0..Len(events)
  BY <1>1
<1> QED
  BY <1>2 DEF Leads

LEMMA LeadsOn ==
  ASSUME NEW base, NEW events \in Row(ChainEvents), NEW event \in ChainEvents,
         NEW text, NEW next \in Text,
         Leads(base, events, text), Does(event, text, next)
  PROVE  /\ Append(events, event) \in Row(ChainEvents)
         /\ Leads(base, Append(events, event), next)
<1>1. PICK n, more : n = Len(events) /\ more = Append(events, event)
  OBVIOUS
<1>2. n \in Nat /\ IsRow(events)
  BY <1>1, RowsAre DEF IsRow
<1>3. /\ more \in Row(ChainEvents) /\ Len(more) = n + 1 /\ more[n + 1] = event
      /\ \A i \in 1..n : more[i] = events[i]
  BY <1>1, AppendIs DEF Row
<1>4. PICK history \in [0..n -> Text] :
        /\ history[0] = base /\ history[n] = text
        /\ \A i \in 1..n : Does(events[i], history[i - 1], history[i])
  BY <1>1 DEF Leads
<1> DEFINE longer == [i \in 0..n + 1 |-> IF i = n + 1 THEN next ELSE history[i]]
<1>5. longer \in [0..n + 1 -> Text]
  <2>1. \A i \in 0..n + 1 : i = n + 1 \/ i \in 0..n
    BY <1>2
  <2> QED
    BY <2>1
<1>6. longer[0] = base /\ longer[n + 1] = next /\ longer[n] = text
  BY <1>2, <1>4
<1>7. ASSUME NEW i \in 1..n + 1 PROVE Does(more[i], longer[i - 1], longer[i])
  <2>1. CASE i = n + 1
    <3>1. i - 1 = n
      BY <1>2, <2>1
    <3> QED
      BY <1>3, <1>6, <2>1, <3>1
  <2>2. CASE i # n + 1
    <3>1. i \in 1..n /\ i - 1 \in 0..n + 1 /\ i - 1 # n + 1
      BY <1>2, <2>2
    <3>2. longer[i] = history[i] /\ longer[i - 1] = history[i - 1]
      BY <2>2, <3>1
    <3> QED
      BY <1>3, <1>4, <3>1, <3>2
  <2> QED
    BY <2>1, <2>2
<1> HIDE DEF longer
<1>8. Leads(base, more, next)
  BY <1>3, <1>5, <1>6, <1>7 DEF Leads
<1> QED
  BY <1>1, <1>3, <1>8

\* An end of events that lead somewhere.
LEMMA LeadsFrom ==
  ASSUME NEW base, NEW events \in Row(ChainEvents), NEW end, NEW n \in 0..Len(events),
         NEW rest \in Row(ChainEvents), Len(rest) = Len(events) - n,
         \A i \in 1..Len(rest) : rest[i] = events[n + i],
         NEW history \in [0..Len(events) -> Text],
         history[Len(events)] = end,
         \A i \in 1..Len(events) : Does(events[i], history[i - 1], history[i])
  PROVE  Leads(history[n], rest, end)
<1>1. PICK l, m : l = Len(events) /\ m = l - n
  OBVIOUS
<1>2. l \in Nat /\ m \in Nat /\ n \in Nat /\ n + m = l /\ n + 0 = n
  BY <1>1 DEF Row
<1> DEFINE later == [i \in 0..m |-> history[n + i]]
<1>3. later \in [0..m -> Text]
  <2>1. \A i \in 0..m : n + i \in 0..l
    BY <1>2
  <2> QED
    BY <1>1, <2>1
<1>4. later[0] = history[n] /\ later[m] = end
  BY <1>1, <1>2
<1>5. ASSUME NEW i \in 1..m PROVE Does(rest[i], later[i - 1], later[i])
  <2>1. PICK k \in 1..l : k = n + i
    BY <1>2
  <2>2. k - 1 = n + (i - 1) /\ i - 1 \in 0..m /\ i \in 0..m
    BY <1>2, <2>1
  <2>3. later[i] = history[k] /\ later[i - 1] = history[k - 1] /\ rest[i] = events[k]
    BY <1>1, <2>1, <2>2
  <2> QED
    BY <1>1, <2>3
<1> HIDE DEF later
<1> QED
  BY <1>1, <1>3, <1>4, <1>5 DEF Leads

LEMMA LeadsSkip ==
  ASSUME NEW base, NEW events \in Row(ChainEvents), NEW end,
         events # <<>>, Head(events).source = "client", Leads(base, events, end)
  PROVE  /\ Tail(events) \in Row(ChainEvents)
         /\ Leads(base, Tail(events), end)
<1>1. PICK rest : rest = Tail(events)
  OBVIOUS
<1>2. IsRow(events)
  BY RowsAre
<1>3. Without(rest, events, 1) /\ Head(events) = events[1] /\ 1 \in 1..Len(events)
  BY <1>1, <1>2, Tailed
<1>4. Len(events) \in Nat
  BY DEF Row
<1>5. rest \in Row(ChainEvents)
  BY <1>1, <1>3 DEF Row
<1>6. Len(rest) = Len(events) - 1 /\ \A i \in 1..Len(rest) : rest[i] = events[1 + i]
  BY <1>3, <1>4 DEF Without
<1>7. PICK history \in [0..Len(events) -> Text] :
        /\ history[0] = base /\ history[Len(events)] = end
        /\ \A i \in 1..Len(events) : Does(events[i], history[i - 1], history[i])
  BY DEF Leads
<1>8. 1 \in 0..Len(events)
  BY <1>3, <1>4
<1>9. Leads(history[1], rest, end)
  BY <1>5, <1>6, <1>7, <1>8, LeadsFrom
<1>10. Does(events[1], history[0], history[1])
  <2>1. 1 - 1 = 0
    OBVIOUS
  <2> QED
    BY <1>3, <1>7, <2>1
<1>11. history[1] = base
  BY <1>3, <1>7, <1>10 DEF Does
<1> QED
  BY <1>1, <1>5, <1>9, <1>11

\* What the user typed comes to one delta.
LEMMA LeadsUsers ==
  ASSUME NEW base, NEW events \in Row(ChainEvents), NEW end,
         None(events, "source", "client"), Leads(base, events, end)
  PROVE  /\ Composed(events) \in BodyDeltas /\ Composed(events).len <= Len(base)
         /\ ComposeBody(base, Composed(events)) = end
<1>1. PICK n : n = Len(events) /\ n \in Nat
  BY DEF Row
<1>2. PICK history \in [0..n -> Text] :
        /\ history[0] = base /\ history[n] = end
        /\ \A i \in 1..n : Does(events[i], history[i - 1], history[i])
  BY <1>1 DEF Leads
<1>3. PICK deltas : deltas = [i \in 1..n |-> events[i].delta]
  OBVIOUS
<1>4. \A i \in 1..n : events[i] \in ChainEvents /\ events[i].source # "client"
  BY <1>1 DEF Row, None
<1>5. deltas \in [1..n -> BodyDeltas]
  BY <1>3, <1>4 DEF ChainEvents
<1>6. Replays(deltas, n, history)
  BY <1>2, <1>3, <1>4 DEF Does, Replays
<1>7. Composed(events) = ComposeAll(deltas)
  BY <1>1, <1>3 DEF Composed, ComposeAll
<1> QED
  BY <1>1, <1>2, <1>5, <1>6, <1>7, ReplayAtOnce

\* _consumeLocalChanges(): what is collected was typed by the user, and what is
\* left as well, as there is at most one event of the client's own between them.
LEMMA CollectedIs ==
  ASSUME NEW base, NEW end, chain \in Row(ChainEvents),
         One(chain, "source", "client"), Leads(base, chain, end)
  PROVE  /\ Collected \in Row(ChainEvents) /\ None(Collected, "source", "client")
         /\ AfterCollected \in Row(ChainEvents) /\ None(AfterCollected, "source", "client")
         /\ Collected = <<>> => chain = <<>> \/ Head(chain).source # "user"
         /\ \E text : Leads(base, Collected, text) /\ Leads(text, AfterCollected, end)
<1> DEFINE byUser == {n \in 0..Len(chain) : \A i \in 1..n : chain[i].source = "user"}
<1>1. PICK l, ch : l = Len(chain) /\ l \in Nat /\ ch = chain /\ ch \in Row(ChainEvents)
  BY DEF Row
<1>2. byUser \in SUBSET (0..l) /\ 0 \in byUser
  BY <1>1
<1>3. \E n \in byUser : \A m \in byUser : m <= n
  <2> HIDE DEF byUser
  <2> QED
    BY <1>1, <1>2, GreatestNatural
<1>4. PICK n : n = CHOOSE k \in byUser : \A m \in byUser : m <= k
  OBVIOUS
<1>5. n \in byUser /\ \A m \in byUser : m <= n
  <2> HIDE DEF byUser
  <2> QED
    BY <1>3, <1>4
<1>6. n \in 0..l /\ \A i \in 1..n : ch[i].source = "user"
  BY <1>1, <1>5
<1>7. n < l => ch[n + 1].source # "user"
  <2> SUFFICES ASSUME n < l, ch[n + 1].source = "user" PROVE FALSE
    OBVIOUS
  <2>1. n + 1 \in 0..Len(chain) /\ ~ (n + 1 <= n)
    BY <1>1, <1>6
  <2>2. \A i \in 1..n + 1 : i = n + 1 \/ i \in 1..n
    BY <1>6
  <2>3. n + 1 \in byUser
    BY <1>1, <1>6, <2>1, <2>2
  <2> QED
    BY <1>5, <2>1, <2>3
<1>8. Collected = SubSeq(ch, 1, n)
  BY <1>1, <1>4 DEF Collected
<1> HIDE DEF byUser
<1>9. PICK taken : taken = Collected
  OBVIOUS
<1>10. /\ taken \in Row(ChainEvents) /\ Len(taken) = n
       /\ \A i \in 1..n : taken[i] = ch[i]
  BY <1>1, <1>6, <1>8, <1>9, PrefixIs
<1>11. PICK left : left = AfterCollected
  OBVIOUS
<1>12. left = SubSeq(ch, n + 2, l)
  BY <1>1, <1>9, <1>10, <1>11 DEF AfterCollected
<1>13. /\ left \in Row(ChainEvents)
       /\ n < l => Len(left) = l - (n + 1) /\ \A i \in 1..Len(left) : left[i] = ch[(n + 1) + i]
       /\ ~ (n < l) => Len(left) = 0
  <2>1. left \in Row(ChainEvents)
    BY <1>1, <1>6, <1>12 DEF Row
  <2>2. CASE n < l
    <3>1. Len(left) = l - (n + 1)
      BY <1>1, <1>6, <1>12, <2>2 DEF Row
    <3>2. \A i \in 1..Len(left) : left[i] = ch[(n + 1) + i]
      BY <1>1, <1>6, <1>12, <2>2 DEF Row
    <3> QED
      BY <2>1, <2>2, <3>1, <3>2
  <2>3. CASE ~ (n < l)
    <3>1. Len(left) = 0
      BY <1>1, <1>6, <1>12, <2>3 DEF Row
    <3> QED
      BY <2>1, <2>3, <3>1
  <2> QED
    BY <2>2, <2>3
<1>14. \A i \in 1..l : ch[i].source \in {"user", "client"}
  <2>1. \A i \in 1..l : ch[i] \in ChainEvents
    BY <1>1 DEF Row
  <2>2. \A e \in ChainEvents : e.source \in {"user", "client"}
    BY DEF ChainEvents
  <2> QED
    BY <2>1, <2>2
<1>15. None(taken, "source", "client")
  BY <1>6, <1>10 DEF None
<1>16. n < l => ch[n + 1].source = "client" /\ n + 1 \in 1..l
  BY <1>1, <1>6, <1>7, <1>14
<1>17. None(left, "source", "client")
  <2> SUFFICES ASSUME NEW i \in 1..Len(left), left[i].source = "client" PROVE FALSE
    BY DEF None
  <2>1. n < l
    BY <1>13
  <2>2. /\ (n + 1) + i \in 1..l /\ (n + 1) + i # n + 1
        /\ ch[(n + 1) + i].source = "client"
    BY <1>1, <1>6, <1>13, <2>1
  <2> QED
    BY <1>1, <1>16, <2>1, <2>2 DEF One
<1>18. ASSUME taken = <<>>, ch # <<>> PROVE Head(ch).source # "user"
  <2>1. IsRow(ch)
    BY <1>1, RowsAre
  <2>2. Head(ch) = ch[1] /\ 1 \in 1..l
    BY <1>1, <1>18, <2>1, Tailed
  <2>3. n = 0 /\ n < l
    BY <1>1, <1>10, <1>18, <2>2
  <2> QED
    BY <1>7, <2>2, <2>3
<1>19. PICK history \in [0..l -> Text] :
         /\ history[0] = base /\ history[l] = end
         /\ \A i \in 1..l : Does(ch[i], history[i - 1], history[i])
  BY <1>1 DEF Leads
<1>20. PICK first \in [0..n -> Text] : first = [i \in 0..n |-> history[i]]
  <2>1. \A i \in 0..n : history[i] \in Text
    BY <1>1, <1>6
  <2> QED
    BY <2>1
<1>21. Leads(base, taken, history[n])
  <2>1. first[0] = base /\ first[n] = history[n]
    BY <1>6, <1>19, <1>20
  <2>2. \A i \in 1..n : i \in 1..l /\ i \in 0..n /\ i - 1 \in 0..n
    BY <1>1, <1>6
  <2>3. \A i \in 1..n : Does(taken[i], first[i - 1], first[i])
    BY <1>10, <1>19, <1>20, <2>2
  <2> QED
    BY <1>10, <2>1, <2>3 DEF Leads
<1>22. Leads(history[n], left, end)
  <2>1. CASE n < l
    <3>1. PICK m \in 0..Len(ch) : m = n + 1
      BY <1>1, <1>16, <2>1
    <3>2. Leads(history[m], left, end)
      BY <1>1, <1>13, <1>19, <2>1, <3>1, LeadsFrom
    <3>3. Does(ch[m], history[m - 1], history[m]) /\ m - 1 = n
      BY <1>6, <1>16, <1>19, <2>1, <3>1
    <3> QED
      BY <1>16, <2>1, <3>1, <3>2, <3>3 DEF Does
  <2>2. CASE ~ (n < l)
    <3>1. PICK m \in 0..Len(ch) : m = n /\ m = l
      BY <1>1, <1>6, <2>2
    <3>2. Len(left) = Len(ch) - m /\ \A i \in 1..Len(left) : left[i] = ch[m + i]
      BY <1>1, <1>13, <2>2, <3>1
    <3>3. Leads(history[m], left, end)
      BY <1>1, <1>13, <1>19, <3>2, LeadsFrom
    <3> QED
      BY <3>1, <3>3
  <2> QED
    BY <2>1, <2>2
<1> QED
  BY <1>1, <1>9, <1>10, <1>11, <1>13, <1>15, <1>17, <1>18, <1>21, <1>22

\* What ComposeBody() can make of a text and a delta, one that is too long for
\* it included.
AnyTexts == Row(Chars \cup BodyDeltas)

LEMMA ComposedAnyText ==
  ASSUME NEW text \in AnyTexts, NEW d \in BodyDeltas
  PROVE  ComposeBody(text, d) \in AnyTexts
<1> DEFINE X == Chars \cup BodyDeltas
<1>1. text \in Row(X) /\ Len(text) \in Nat
  BY DEF AnyTexts, Row
<1>2. CASE d.len <= Len(text)
  <2>1. PICK u \in Source(Len(text)) : u = Unchopped(d, Len(text))
    BY <1>1, <1>2, UnchoppedIs
  <2>2. ComposeBody(text, d) = Substitute(text, u)
    BY <1>2, <2>1 DEF ComposeBody
  <2> HIDE DEF X
  <2>3. Substitute(text, u) \in Row(X \cup Chars)
    BY <1>1, SubstituteIn
  <2>4. X \cup Chars = X
    BY DEF X
  <2>5. Substitute(text, u) \in Row(X)
    BY <2>3, <2>4
  <2> QED
    BY <2>2, <2>5 DEF AnyTexts, X
<1>3. CASE ~ (d.len <= Len(text))
  <2>1. ComposeBody(text, d) = <<d>>
    BY <1>3 DEF ComposeBody
  <2>2. <<d>> \in Seq(X)
    OBVIOUS
  <2> QED
    BY <2>1, <2>2 DEF AnyTexts, Row
<1> QED
  BY <1>2, <1>3

LEMMA TypedOntoIs ==
  ASSUME NEW text \in AnyTexts, NEW event \in ChainEvents
  PROVE  /\ TypedOnto(text, event) \in AnyTexts
         /\ \A next : Does(event, text, next) => TypedOnto(text, event) = next
<1>1. event.delta \in BodyDeltas
  BY DEF ChainEvents
<1>2. ComposeBody(text, event.delta) \in AnyTexts
  BY <1>1, ComposedAnyText
<1> QED
  BY <1>2 DEF TypedOnto, Does, IsOurs

\* What the text is that the events of the chain lead to.
LEMMA TypedIs ==
  ASSUME NEW base, NEW end, chain \in Row(ChainEvents), Leads(base, chain, end)
  PROVE  Typed(base) = end
<1> DEFINE V == AnyTexts
<1>0. PICK n, ch : n = Len(chain) /\ n \in Nat /\ ch = chain /\ ch \in Row(ChainEvents)
  BY DEF Row
<1>00. PICK history \in [0..n -> Text] :
        /\ history[0] = base /\ history[n] = end
        /\ \A i \in 1..n : Does(ch[i], history[i - 1], history[i])
  BY <1>0 DEF Leads
<1>01. \A i \in 1..n : ch[i] \in ChainEvents
  BY <1>0 DEF Row
<1>02. \A i \in 0..n : history[i] \in V
  <2>1. Text \subseteq V
    BY DEF Text, AnyTexts, Row
  <2> QED
    BY <2>1
<1>03. base \in V
  BY <1>0, <1>00, <1>02
<1>04. \A c \in V, d \in ChainEvents : TypedOnto(c, d) \in V
  BY TypedOntoIs
<1>05. \A i \in 1..n : TypedOnto(history[i - 1], ch[i]) = history[i]
  <2> SUFFICES ASSUME NEW i \in 1..n PROVE TypedOnto(history[i - 1], ch[i]) = history[i]
    OBVIOUS
  <2>1. i - 1 \in 0..n
    BY <1>0
  <2>2. history[i - 1] \in AnyTexts /\ ch[i] \in ChainEvents
    BY <1>01, <1>02, <2>1
  <2> QED
    BY <1>00, <2>2, TypedOntoIs
<1> HIDE DEF V
<1> DEFINE IsIt(iter) ==
             iter = [S \in SUBSET (1..n) |->
                       IF S = {} THEN base
                       ELSE TypedOnto(iter[S \ {Max(S)}], ch[Max(S)])]
           fold == CHOOSE iter : IsIt(iter)
<1>1. \E iter : IsIt(iter)
  <2> DEFINE step == [ic \in (1..n) \X V |-> TypedOnto(ic[2], ch[ic[1]])]
  <2>1. step \in [(1..n) \X V -> V]
    BY <1>01, <1>04
  <2>2. \A i \in 1..n, c \in V : step[i, c] = TypedOnto(c, ch[i])
    OBVIOUS
  <2> HIDE DEF step
  <2>3. \E iter \in [SUBSET (1..n) -> V] : IsFold(iter, n, base, step)
    BY <1>0, <1>03, <2>1, FoldOnSubsets
  <2>4. PICK iter \in [SUBSET (1..n) -> V] : \A S \in SUBSET (1..n) :
          iter[S] = IF S = {} THEN base ELSE step[Max(S), iter[S \ {Max(S)}]]
    BY <2>3 DEF IsFold
  <2>5. ASSUME NEW S \in SUBSET (1..n)
        PROVE  iter[S] = IF S = {} THEN base
                         ELSE TypedOnto(iter[S \ {Max(S)}], ch[Max(S)])
    <3>1. CASE S = {}
      BY <2>4, <3>1
    <3>2. CASE S # {}
      <4>1. Max(S) \in 1..n /\ S \ {Max(S)} \in SUBSET (1..n)
        BY <1>0, <3>2, MaxIsThere
      <4> QED
        BY <2>2, <2>4, <3>2, <4>1
    <3> QED
      BY <3>1, <3>2
  <2>6. IsIt(iter)
    BY <2>4, <2>5
  <2> QED
    BY <2>6
<1>2. IsIt(fold)
  BY <1>1
<1>22. DOMAIN ch = 1..n
  BY <1>0 DEF Row
<1>3. Typed(base) = fold[1..n]
  BY <1>0, <1>22 DEF Typed, FoldLeft, MapThenFoldSet
<1> HIDE DEF fold
<1>4. fold[1..0] = base
  BY <1>2, MaxOfInterval
<1>5. ASSUME NEW k \in Nat, k + 1 <= n
      PROVE  fold[1..k + 1] = TypedOnto(fold[1..k], ch[k + 1])
  <2>1. /\ Max(1..k + 1) = k + 1 /\ (1..k + 1) \ {k + 1} = 1..k /\ 1..k + 1 # {}
    BY MaxOfInterval
  <2>2. 1..k + 1 \in SUBSET (1..n)
    BY <1>0, <1>5
  <2> QED
    BY <1>2, <2>1, <2>2
<1> HIDE DEF IsIt
<1> DEFINE Good == {k \in Nat : k <= n => fold[1..k] = history[k]}
<1>6. 0 \in Good
  BY <1>00, <1>4
<1>7. ASSUME NEW k \in Nat, k \in Good PROVE k + 1 \in Good
  <2> SUFFICES ASSUME k + 1 <= n PROVE fold[1..k + 1] = history[k + 1]
    OBVIOUS
  <2>1. PICK i \in 1..n : i = k + 1 /\ i - 1 = k
    BY <1>0
  <2>2. fold[1..k] = history[k]
    BY <1>0, <1>7
  <2>3. fold[1..k + 1] = TypedOnto(history[i - 1], ch[i])
    BY <1>5, <2>1, <2>2
  <2> QED
    BY <1>05, <2>1, <2>3
<1> HIDE DEF Good
<1>8. n \in Good
  BY <1>0, <1>6, <1>7, Induction
<1> QED
  BY <1>0, <1>00, <1>3, <1>8 DEF Good

-----------------------------------------------------------------------------
(* The server's log *)

ServerTrue ==
  /\ texts \in Row(Text) /\ changes \in Row(BodyDeltas)
  /\ Len(texts) = Len(changes) /\ Len(texts) \in Nat \ {0}
  /\ \A r \in 2..Len(texts) : /\ changes[r].len <= Len(texts[r - 1])
                              /\ texts[r] = ComposeBody(texts[r - 1], changes[r])

\* A change that leads from one revision to another.
ChangeTrue(log, from, change) ==
  /\ from \in 1..Len(log) /\ change.revNum \in 1..Len(log)
  /\ change.delta \in BodyDeltas /\ change.delta.len <= Len(log[from])
  /\ ComposeBody(log[from], change.delta) = log[change.revNum]

\* A delta for a revision.
Suits(log, revNum, delta) ==
  /\ revNum \in 1..Len(log)
  /\ delta \in BodyDeltas /\ delta.len <= Len(log[revNum])

LEMMA RevisionIs ==
  ASSUME ServerTrue
  PROVE  /\ LastRev \in Nat /\ LastRev \in 1..LastRev /\ LastRev = Len(texts)
         /\ \A r \in 1..LastRev : texts[r] \in Text
  BY DEF ServerTrue, LastRev, Row

LEMMA DeltaAfterIs ==
  ASSUME ServerTrue, NEW r \in 1..LastRev
  PROVE  /\ DeltaAfter(r) \in BodyDeltas /\ DeltaAfter(r).len <= Len(texts[r])
         /\ ComposeBody(texts[r], DeltaAfter(r)) = texts[LastRev]
<1>1. PICK l, n, ts, cs : /\ l = LastRev /\ n = l - r /\ ts = texts /\ cs = changes
                          /\ l = Len(ts) /\ l = Len(cs)
                          /\ ts \in Row(Text) /\ cs \in Row(BodyDeltas)
  BY DEF ServerTrue, LastRev
<1>2. l \in Nat /\ r \in 1..l /\ n \in Nat /\ r + n = l /\ r + 0 = r
  BY <1>1 DEF Row
<1>3. PICK deltas : deltas = SubSeq(cs, r + 1, l)
  OBVIOUS
<1>4. /\ deltas \in Row(BodyDeltas) /\ Len(deltas) = n
      /\ \A i \in 1..n : deltas[i] = cs[r + i]
  <2>1. deltas \in Row(BodyDeltas)
    BY <1>1, <1>2, <1>3 DEF Row
  <2>2. Len(deltas) = n
    BY <1>1, <1>2, <1>3 DEF Row
  <2>3. \A i \in 1..n : deltas[i] = cs[r + i]
    BY <1>1, <1>2, <1>3 DEF Row
  <2> QED
    BY <2>1, <2>2, <2>3
<1>5. deltas \in [1..n -> BodyDeltas]
  BY <1>4 DEF Row
<1>6. DeltaAfter(r) = ComposeAll(deltas)
  BY <1>1, <1>3 DEF DeltaAfter, ComposeAll
<1> DEFINE history == [i \in 0..n |-> ts[r + i]]
<1>7. history \in [0..n -> Text] /\ history[0] = ts[r] /\ history[n] = ts[l]
  <2>1. \A i \in 0..n : r + i \in 1..l
    BY <1>2
  <2>2. \A i \in 0..n : ts[r + i] \in Text
    <3>1. \A i \in 1..l : ts[i] \in Text
      BY <1>1, RevisionIs
    <3> QED
      BY <2>1, <3>1
  <2>3. history \in [0..n -> Text]
    BY <2>2
  <2>4. 0 \in 0..n /\ n \in 0..n
    BY <1>2
  <2> QED
    BY <1>2, <2>3, <2>4
<1>8. Replays(deltas, n, history)
  <2> SUFFICES ASSUME NEW i \in 1..n
               PROVE  /\ deltas[i].len <= Len(history[i - 1])
                      /\ history[i] = ComposeBody(history[i - 1], deltas[i])
    BY DEF Replays
  <2>1. PICK k \in 2..l : k = r + i /\ k - 1 = r + (i - 1) /\ i - 1 \in 0..n /\ i \in 0..n
    BY <1>2
  <2>2. history[i] = ts[k] /\ history[i - 1] = ts[k - 1] /\ deltas[i] = cs[k]
    BY <1>4, <2>1
  <2> QED
    BY <1>1, <2>2 DEF ServerTrue, LastRev
<1> HIDE DEF history
<1> QED
  BY <1>1, <1>2, <1>5, <1>6, <1>7, <1>8, ReplayAtOnce

LEMMA RebasedIs ==
  ASSUME ServerTrue, NEW call, Suits(texts, call.revNum, call.delta)
  PROVE  Rebased(call) \in BodyDeltas /\ Rebased(call).len <= Len(texts[LastRev])
<1>1. call.revNum \in 1..LastRev /\ call.delta \in BodyDeltas
      /\ call.delta.len <= Len(texts[call.revNum])
  BY DEF Suits, LastRev
<1>2. CASE call.revNum = LastRev
  BY <1>1, <1>2 DEF Rebased
<1>3. CASE call.revNum # LastRev
  <2>1. PICK a \in BodyDeltas, b \in BodyDeltas, text \in Text :
          /\ a = DeltaAfter(call.revNum) /\ b = call.delta /\ text = texts[call.revNum]
          /\ a.len <= Len(text) /\ b.len <= Len(text)
          /\ ComposeBody(text, a) = texts[LastRev]
    BY <1>1, DeltaAfterIs, RevisionIs
  <2>2. Rebased(call) = TransformAs(a, b, TRUE)
    BY <1>3, <2>1 DEF Rebased, Transform
  <2> QED
    BY <2>1, <2>2, Transformed
<1> QED
  BY <1>2, <1>3

\* The correction that is sent back leads from what the client expects to what
\* has come of it.
LEMMA CorrectionIs ==
  ASSUME ServerTrue, NEW call, Suits(texts, call.revNum, call.delta),
         NEW result, result = ComposeBody(texts[LastRev], Rebased(call))
  PROVE  /\ Correction(call, result) \in BodyDeltas
         /\ Correction(call, result).len <= Len(ComposeBody(texts[call.revNum], call.delta))
         /\ ComposeBody(ComposeBody(texts[call.revNum], call.delta), Correction(call, result))
              = result
<1>1. call.revNum \in 1..LastRev /\ call.delta \in BodyDeltas
      /\ call.delta.len <= Len(texts[call.revNum])
  BY DEF Suits, LastRev
<1>2. PICK text \in Text, d \in BodyDeltas :
        text = texts[call.revNum] /\ d = call.delta /\ d.len <= Len(text)
  BY <1>1, RevisionIs
<1> DEFINE expected == ComposeBody(text, d)
<1>3. expected \in Text /\ Len(expected) \in Nat
  BY <1>2, ComposedText, TextIs
<1>4. CASE call.revNum = LastRev
  <2>1. Correction(call, result) = EmptyBodyDelta /\ result = expected
    BY <1>2, <1>4 DEF Correction, Rebased
  <2> QED
    BY <1>2, <1>3, <2>1, EmptyDelta
<1>5. CASE call.revNum # LastRev
  <2>1. Correction(call, result) = DiffBody(expected, result)
    BY <1>2, <1>5 DEF Correction
  <2>2. PICK last \in Text, e \in BodyDeltas :
          last = texts[LastRev] /\ e = Rebased(call) /\ e.len <= Len(last)
    BY RebasedIs, RevisionIs
  <2>3. result \in Text
    BY <2>2, ComposedText
  <2> QED
    BY <1>2, <1>3, <2>1, <2>3, DiffIs
<1> QED
  BY <1>4, <1>5

LEMMA AppendChangeKeeps ==
  ASSUME ServerTrue, NEW delta \in BodyDeltas, delta.len <= Len(texts[LastRev]),
         AppendChange(delta)
  PROVE  /\ ServerTrue'
         /\ LastRev' = LastRev + 1
         /\ texts'[LastRev + 1] = ComposeBody(texts[LastRev], delta)
         /\ \A r \in 1..LastRev : texts'[r] = texts[r]
<1>1. PICK l, ts, cs, ts2, cs2, t :
        /\ l = LastRev /\ ts = texts /\ cs = changes /\ ts2 = texts' /\ cs2 = changes'
        /\ t = ComposeBody(ts[l], delta)
  OBVIOUS
<1>2. /\ l \in Nat \ {0} /\ l = Len(ts) /\ l = Len(cs) /\ l \in 1..l
      /\ ts \in Row(Text) /\ cs \in Row(BodyDeltas) /\ ts[l] \in Text
  BY <1>1, RevisionIs DEF ServerTrue, LastRev
<1>3. t \in Text
  BY <1>1, <1>2, ComposedText
<1>4. ts2 = Append(ts, t) /\ cs2 = Append(cs, delta)
  BY <1>1 DEF AppendChange
<1>5. /\ ts2 \in Row(Text) /\ Len(ts2) = l + 1 /\ ts2[l + 1] = t
      /\ \A r \in 1..l : ts2[r] = ts[r]
  <2>1. ts2 \in Row(Text)
    BY <1>2, <1>3, <1>4 DEF Row
  <2>2. IsRow(ts)
    BY <1>2, RowsAre
  <2>3. /\ Len(Append(ts, t)) = Len(ts) + 1 /\ Append(ts, t)[Len(ts) + 1] = t
        /\ \A r \in 1..Len(ts) : Append(ts, t)[r] = ts[r]
    BY <2>2, AppendIs
  <2> QED
    BY <1>2, <1>4, <2>1, <2>3
<1>6. /\ cs2 \in Row(BodyDeltas) /\ Len(cs2) = l + 1 /\ cs2[l + 1] = delta
      /\ \A r \in 1..l : cs2[r] = cs[r]
  <2>1. cs2 \in Row(BodyDeltas)
    BY <1>2, <1>4 DEF Row
  <2>2. IsRow(cs)
    BY <1>2, RowsAre
  <2>3. /\ Len(Append(cs, delta)) = Len(cs) + 1 /\ Append(cs, delta)[Len(cs) + 1] = delta
        /\ \A r \in 1..Len(cs) : Append(cs, delta)[r] = cs[r]
    BY <2>2, AppendIs
  <2> QED
    BY <1>2, <1>4, <2>1, <2>3
<1>7. ASSUME NEW r \in 2..l + 1
      PROVE  cs2[r].len <= Len(ts2[r - 1]) /\ ts2[r] = ComposeBody(ts2[r - 1], cs2[r])
  <2>1. CASE r = l + 1
    <3>1. r - 1 = l
      BY <1>2, <2>1
    <3> QED
      BY <1>1, <1>2, <1>5, <1>6, <2>1, <3>1
  <2>2. CASE r # l + 1
    <3>1. r \in 2..l /\ r \in 1..l /\ r - 1 \in 1..l
      BY <1>2, <2>2
    <3>2. cs[r].len <= Len(ts[r - 1]) /\ ts[r] = ComposeBody(ts[r - 1], cs[r])
      BY <1>1, <1>2, <3>1 DEF ServerTrue
    <3> QED
      BY <1>5, <1>6, <3>1, <3>2
  <2> QED
    BY <2>1, <2>2
<1>8. ServerTrue'
  <2>1. l + 1 \in Nat \ {0}
    BY <1>2
  <2> QED
    BY <1>1, <1>5, <1>6, <1>7, <2>1 DEF ServerTrue
<1>9. LastRev' = l + 1
  BY <1>1, <1>5 DEF LastRev
<1> QED
  BY <1>1, <1>5, <1>8, <1>9

\* What is true of a log stays so when it grows.
Grows(log, more) == /\ Len(log) \in Nat /\ Len(more) \in Nat /\ Len(log) <= Len(more)
                    /\ \A r \in 1..Len(log) : more[r] = log[r]

LEMMA LogGrows ==
  ASSUME NEW log, NEW more, Grows(log, more)
  PROVE  /\ \A from, change : ChangeTrue(log, from, change) => ChangeTrue(more, from, change)
         /\ \A revNum, delta : Suits(log, revNum, delta) => Suits(more, revNum, delta)
         /\ \A r \in 1..Len(log) : r \in 1..Len(more) /\ more[r] = log[r]
<1>1. \A r \in 1..Len(log) : r \in 1..Len(more) /\ more[r] = log[r]
  BY DEF Grows
<1> QED
  BY <1>1 DEF ChangeTrue, Suits

-----------------------------------------------------------------------------
(* Rows that become others *)

\* p is the row q without those in out (at most one, which was its first if it
\* was not the only one of its kind), and with those in new (at most one), at
\* its end if `last'.
Becomes(p, q, out, new, last) ==
  /\ IsRow(p) /\ In(p) \subseteq In(q) \cup new
  /\ \A f, x : None(q, f, x) /\ (\A e \in new : e[f] # x) => None(p, f, x)
  /\ \A f, x : None(p, f, x) /\ (\A e \in out : e[f] # x) => None(q, f, x)
  /\ \A f, x : One(q, f, x) /\ (\E e \in out : e[f] = x) /\ (\A e \in new : e[f] # x) =>
       None(p, f, x)
  /\ \A f, x : One(q, f, x) /\ (\/ None(q, f, x) \/ \E e \in out : e[f] = x
                                \/ \A e \in new : e[f] # x) => One(p, f, x)
  /\ \A f, x, y : /\ x # y /\ Before(q, f, x, y)
                  /\ None(q, f, y) \/ \A e \in new : e[f] # x
                  /\ last \/ \A e \in new : e[f] # y
                  => Before(p, f, x, y)

LEMMA BecomesSame ==
  ASSUME NEW q, IsRow(q)
  PROVE  Becomes(q, q, {}, {}, TRUE)
  BY DEF Becomes

LEMMA BecomesLonger ==
  ASSUME NEW q, NEW e, IsRow(q)
  PROVE  Becomes(Append(q, e), q, {}, {e}, TRUE)
<1>1. PICK p : p = Append(q, e)
  OBVIOUS
<1>2. /\ IsRow(p) /\ In(p) = In(q) \cup {e}
      /\ \A f, x : None(p, f, x) <=> None(q, f, x) /\ e[f] # x
      /\ \A f, x : One(p, f, x) <=> One(q, f, x) /\ (None(q, f, x) \/ e[f] # x)
      /\ \A f, x, y : x # y => (Before(p, f, x, y) <=>
                                  Before(q, f, x, y) /\ (None(q, f, y) \/ e[f] # x))
  BY <1>1, Appended
<1>3. Becomes(p, q, {}, {e}, TRUE)
  BY <1>2 DEF Becomes
<1> QED
  BY <1>1, <1>3

LEMMA BecomesShorter ==
  ASSUME NEW p, NEW q, NEW k, Without(p, q, k)
  PROVE  Becomes(p, q, {q[k]}, {}, TRUE)
<1>1. /\ IsRow(p) /\ q[k] \in In(q) /\ In(p) \subseteq In(q)
      /\ \A f, x : None(q, f, x) <=> None(p, f, x) /\ q[k][f] # x
      /\ \A f, x : One(q, f, x) => One(p, f, x) /\ (q[k][f] = x => None(p, f, x))
      /\ \A f, x, y : Before(q, f, x, y) => Before(p, f, x, y)
  BY WithoutMeans
<1> QED
  BY <1>1 DEF Becomes

LEMMA BecomesRemoved ==
  ASSUME NEW q, IsRow(q), NEW k \in 1..Len(q)
  PROVE  Becomes(RemoveAt(q, k), q, {q[k]}, {}, TRUE) /\ q[k] \in In(q)
  BY Removed, BecomesShorter, WithoutMeans

LEMMA BecomesTail ==
  ASSUME NEW q, IsRow(q), q # <<>>
  PROVE  /\ Becomes(Tail(q), q, {Head(q)}, {}, TRUE) /\ Head(q) \in In(q)
         /\ \A f, x, y : Before(q, f, x, y) /\ Head(q)[f] = y => None(q, f, x)
<1>1. PICK t, h : t = Tail(q) /\ h = Head(q)
  OBVIOUS
<1>2. /\ Without(t, q, 1) /\ h = q[1]
      /\ \A f, x, y : Before(q, f, x, y) /\ h[f] = y => None(q, f, x)
  BY <1>1, Tailed
<1>3. Becomes(t, q, {q[1]}, {}, TRUE)
  BY <1>2, BecomesShorter
<1>4. q[1] \in In(q)
  BY <1>2, WithoutMeans
<1> QED
  BY <1>1, <1>2, <1>3, <1>4

LEMMA BecomesNext ==
  ASSUME NEW q, IsRow(q), q # <<>>, NEW e
  PROVE  Becomes(Append(Tail(q), e), q, {Head(q)}, {e}, TRUE)
<1>1. PICK t, h, p : t = Tail(q) /\ h = Head(q) /\ p = Append(t, e)
  OBVIOUS
<1>2. Becomes(t, q, {h}, {}, TRUE)
  BY <1>1, BecomesTail
<1>3. IsRow(t) /\ Without(t, q, 1) /\ h = q[1]
  BY <1>1, <1>2, Tailed DEF Becomes
<1>4. /\ IsRow(p) /\ In(p) = In(t) \cup {e}
      /\ \A f, x : None(p, f, x) <=> None(t, f, x) /\ e[f] # x
      /\ \A f, x : One(p, f, x) <=> One(t, f, x) /\ (None(t, f, x) \/ e[f] # x)
      /\ \A f, x, y : x # y => (Before(p, f, x, y) <=>
                                  Before(t, f, x, y) /\ (None(t, f, y) \/ e[f] # x))
  BY <1>1, <1>3, Appended
<1>5. /\ In(t) \subseteq In(q)
      /\ \A f, x : None(q, f, x) <=> None(t, f, x) /\ h[f] # x
      /\ \A f, x : One(q, f, x) => One(t, f, x) /\ (h[f] = x => None(t, f, x))
      /\ \A f, x, y : Before(q, f, x, y) => Before(t, f, x, y)
  BY <1>3, WithoutMeans
<1>6. Becomes(p, q, {h}, {e}, TRUE)
  BY <1>4, <1>5 DEF Becomes
<1> QED
  BY <1>1, <1>6

LEMMA BecomesPushed ==
  ASSUME NEW q, IsRow(q), q # <<>>, NEW e
  PROVE  /\ Becomes(<<e>> \o Tail(q), q, {Head(q)}, {e}, FALSE)
         /\ <<e>> \o Tail(q) # <<>> /\ Head(<<e>> \o Tail(q)) = e
<1>1. PICK t, h, p : t = Tail(q) /\ h = Head(q) /\ p = <<e>> \o t
  OBVIOUS
<1>2. Becomes(t, q, {h}, {}, TRUE)
  BY <1>1, BecomesTail
<1>3. IsRow(t) /\ Without(t, q, 1) /\ h = q[1]
  BY <1>1, <1>2, Tailed DEF Becomes
<1>4. /\ IsRow(p) /\ In(p) = In(t) \cup {e} /\ p # <<>> /\ Head(p) = e
      /\ \A f, x : None(p, f, x) <=> None(t, f, x) /\ e[f] # x
      /\ \A f, x : One(t, f, x) /\ (None(t, f, x) \/ e[f] # x) => One(p, f, x)
      /\ \A f, x, y : x # y /\ Before(t, f, x, y) /\ (None(t, f, x) \/ e[f] # y) =>
           Before(p, f, x, y)
  BY <1>1, <1>3, Pushed
<1>5. /\ In(t) \subseteq In(q)
      /\ \A f, x : None(q, f, x) <=> None(t, f, x) /\ h[f] # x
      /\ \A f, x : One(q, f, x) => One(t, f, x) /\ (h[f] = x => None(t, f, x))
      /\ \A f, x, y : Before(q, f, x, y) => Before(t, f, x, y)
  BY <1>3, WithoutMeans
<1>6. Becomes(p, q, {h}, {e}, FALSE)
  BY <1>4, <1>5 DEF Becomes
<1> QED
  BY <1>1, <1>4, <1>6

-----------------------------------------------------------------------------
(* The flow of control: what is under way in which state *)

\* What is queued, set, at the server and on its way back.
Queued(name) == ~ None(queue, "name", name)
TimerSet(kind) == ~ None(timers, "kind", kind)
Sent(method) == ~ None(calls, "method", method)
Answered(method) == ~ None(CallsOf(replies), "method", method)

Names == {"start", "wantInput", "gotQuillEvent", "wantToUpdate", "gotChangeAfter",
          "wantInputAfterDelay", "gotUpdate", "apiError", "nextState"}

Halted == state \in {"becomeDisabled", "errorWait"}

Rows == IsRow(queue) /\ IsRow(timers) /\ IsRow(calls) /\ IsRow(replies)

Modes ==
  /\ state \in {"detached", "becomeEnabled", "idle", "collecting", "merging",
                "becomeDisabled", "errorWait"}
  /\ busy \in {"nothing", "starting", "pausing"}
  /\ connection \in {"open", "closing", "closed"}
  /\ running \in BOOLEAN /\ errors \in {0, 1}
  /\ \A e \in In(queue) : e.name \in Names
  /\ \A e \in In(queue) : e.name = "nextState" => e.next = "errorWait"
  /\ One(queue, "name", "nextState")
  /\ state = "becomeDisabled" => queue # <<>> /\ Head(queue).name = "nextState"
  /\ state # "becomeDisabled" => ~ Queued("nextState")
  /\ ~ running => state = "detached"
  /\ errors = 0 => ~ Halted

\* There is at most one update: at the server, answered or about to be handled,
\* and only while the machine is merging.  A failure that is queued has ended it.
Updates ==
  /\ One(calls, "method", "update") /\ One(CallsOf(replies), "method", "update")
  /\ One(queue, "name", "gotUpdate")
  /\ Sent("update") => ~ Answered("update") /\ ~ Queued("gotUpdate")
  /\ Answered("update") => ~ Queued("gotUpdate")
  /\ state # "merging" => ~ Sent("update") /\ ~ Answered("update") /\ ~ Queued("gotUpdate")
  /\ Queued("apiError") => ~ Sent("update") /\ ~ Answered("update")
  /\ Before(queue, "name", "gotUpdate", "apiError")

\* The end of collecting is asked for once, and finds the machine collecting
\* unless it has been halted.
Pushes ==
  /\ One(timers, "kind", "push") /\ One(queue, "name", "wantToUpdate")
  /\ TimerSet("push") => ~ Queued("wantToUpdate")
  /\ state \notin {"collecting", "becomeDisabled", "errorWait"} =>
       ~ TimerSet("push") /\ ~ Queued("wantToUpdate")
  /\ connection = "open" => Before(queue, "name", "apiError", "wantToUpdate")

\* A restart comes after an error, once, and after what was still to come of
\* collecting; nothing fails while the machine starts for the first time.
Restarts ==
  /\ One(timers, "kind", "restart") /\ One(queue, "name", "start")
  /\ TimerSet("restart") => Halted /\ ~ Queued("start")
  /\ Queued("start") => /\ state \notin {"idle", "collecting", "merging"}
                        /\ busy # "starting" /\ ~ TimerSet("push")
  /\ Before(queue, "name", "wantToUpdate", "start")
  /\ Before(timers, "kind", "push", "restart")
  /\ \A t \in In(timers) : t.kind \in {"push", "pull", "restart"}
  /\ \A t \in In(timers) : t.msec \in Nat
  /\ \A t \in In(timers) : t.kind = "push" => t.msec = 1000
  /\ \A t \in In(timers) : t.kind = "restart" => t.msec >= 1000
  /\ errors = 0 /\ (busy = "starting" \/ Queued("start")) =>
       /\ ~ Queued("apiError")
       /\ \A call \in In(calls) : call.method = "getSnapshot"
       /\ \A call \in In(CallsOf(replies)) : call.method = "getSnapshot"

\* A snapshot is on its way only while the machine waits for it.
Reading ==
  /\ One(timers, "kind", "pull") /\ (TimerSet("pull") => busy = "pausing")
  /\ busy = "starting" => state = "detached" /\ running /\ connection = "open"
  /\ busy # "starting" => ~ Sent("getSnapshot") /\ ~ Answered("getSnapshot")
  /\ One(calls, "method", "getSnapshot") /\ One(CallsOf(replies), "method", "getSnapshot")
  /\ Sent("getSnapshot") => ~ Answered("getSnapshot")
  /\ connection = "closed" => /\ replies = <<>>
                              /\ \A call \in In(calls) : call.method = "orphan"

Flow == Rows /\ Modes /\ Updates /\ Pushes /\ Restarts /\ Reading

LEMMA NextStateFlow ==
  ASSUME Flow, NextState
  PROVE  Flow'
<1>1. /\ Becomes(queue', queue, {Head(queue)}, {}, TRUE) /\ Head(queue) \in In(queue)
      /\ \A f, x, y : Before(queue, f, x, y) /\ Head(queue)[f] = y => None(queue, f, x)
  BY BecomesTail DEF Flow, Rows, NextState, HandledIn, Handling, Handled
<1>2. /\ Head(queue).name = "nextState" /\ state = "becomeDisabled"
      /\ state' = Head(queue).next
      /\ UNCHANGED <<busy, connection, running, errors, timers, calls, replies>>
  BY DEF NextState, HandledIn, Handling, wire
<1>3. Rows'
  BY <1>1, <1>2 DEF Flow, Rows, Becomes
<1>4. Modes'
  BY <1>1, <1>2 DEF Flow, Rows, Modes, Halted, Becomes, Queued
<1>5. Updates'
  BY <1>1, <1>2 DEF Flow, Modes, Updates, Becomes, Queued, Sent, Answered
<1>6. Pushes'
  BY <1>1, <1>2 DEF Flow, Modes, Pushes, Becomes, Queued, TimerSet
<1>7. Restarts'
  BY <1>1, <1>2 DEF Flow, Modes, Halted, Restarts, Becomes, Queued, TimerSet
<1>8. Reading'
  BY <1>1, <1>2 DEF Flow, Modes, Reading, Becomes, Queued, TimerSet, Sent, Answered
<1> QED
  BY <1>3, <1>4, <1>5, <1>6, <1>7, <1>8 DEF Flow

\* The first event of the queue is gone, and in its place there is nothing, or
\* one event at the end.
LEMMA HandledMeans ==
  ASSUME Rows, queue # <<>>
  PROVE  /\ Handled => Becomes(queue', queue, {Head(queue)}, {}, TRUE)
         /\ \A e : Enqueue(e) => Becomes(queue', queue, {Head(queue)}, {e}, TRUE)
         /\ Head(queue) \in In(queue)
         /\ \A f, x, y : Before(queue, f, x, y) /\ Head(queue)[f] = y => None(queue, f, x)
<1>1. PICK q, p : q = queue /\ p = queue'
  OBVIOUS
<1>2. IsRow(q) /\ q # <<>>
  BY <1>1 DEF Rows
<1>3. \A e : p = Append(Tail(q), e) => Becomes(p, q, {Head(q)}, {e}, TRUE)
  <2> SUFFICES ASSUME NEW e, p = Append(Tail(q), e)
               PROVE  Becomes(p, q, {Head(q)}, {e}, TRUE)
    OBVIOUS
  <2>1. Becomes(Append(Tail(q), e), q, {Head(q)}, {e}, TRUE)
    BY <1>2, BecomesNext
  <2> QED
    BY <2>1
<1>4. /\ Becomes(Tail(q), q, {Head(q)}, {}, TRUE) /\ Head(q) \in In(q)
      /\ \A f, x, y : Before(q, f, x, y) /\ Head(q)[f] = y => None(q, f, x)
  BY <1>2, BecomesTail
<1> QED
  BY <1>1, <1>3, <1>4 DEF Handled, Enqueue

LEMMA StartEnabledFlow ==
  ASSUME Flow, StartEnabled
  PROVE  Flow'
<1>1. /\ queue # <<>> /\ Head(queue).name = "start" /\ state = "becomeEnabled"
      /\ IF running THEN state' = "idle" /\ Enqueue(Event("wantInput"))
                    ELSE state' = "detached" /\ Handled
      /\ UNCHANGED <<busy, connection, running, errors, timers, calls, replies>>
  BY DEF StartEnabled, HandledIn, Handling, BecomeIdle, wire
<1>2. state' = "idle" /\ Enqueue(Event("wantInput"))
  BY <1>1 DEF Flow, Modes
<1>3. /\ Becomes(queue', queue, {Head(queue)}, {Event("wantInput")}, TRUE)
      /\ Head(queue) \in In(queue)
  BY <1>1, <1>2, HandledMeans DEF Flow
<1>4. Rows'
  BY <1>1, <1>2, <1>3 DEF Flow, Rows, Becomes, Event
<1>5. Modes'
  BY <1>1, <1>2, <1>3 DEF Flow, Rows, Modes, Halted, Becomes, Queued, Names, Event
<1>6. Updates'
  BY <1>1, <1>2, <1>3 DEF Flow, Modes, Updates, Becomes, Queued, Sent, Answered, Event
<1>7. Pushes'
  BY <1>1, <1>2, <1>3 DEF Flow, Modes, Pushes, Becomes, Queued, TimerSet, Event
<1>8. Restarts'
  BY <1>1, <1>2, <1>3 DEF Flow, Modes, Halted, Restarts, Becomes, Queued, TimerSet,
         Event
<1>9. Reading'
  BY <1>1, <1>2, <1>3 DEF Flow, Modes, Reading, Becomes, Queued, TimerSet, Sent,
         Answered, Event
<1> QED
  BY <1>4, <1>5, <1>6, <1>7, <1>8, <1>9 DEF Flow

LEMMA StartAfterErrorFlow ==
  ASSUME Flow, StartAfterError
  PROVE  Flow'
<1>1. /\ queue # <<>> /\ Head(queue).name = "start" /\ state = "errorWait"
      /\ state' = "detached" /\ Enqueue(Event("start"))
      /\ UNCHANGED <<busy, connection, running, errors, timers, calls, replies>>
  BY DEF StartAfterError, HandledIn, Handling, wire
<1>2. /\ Becomes(queue', queue, {Head(queue)}, {Event("start")}, TRUE)
      /\ Head(queue) \in In(queue)
      /\ \A f, x, y : Before(queue, f, x, y) /\ Head(queue)[f] = y => None(queue, f, x)
  BY <1>1, HandledMeans DEF Flow
<1>3. errors = 1 /\ errors' = 1 /\ ~ Queued("wantToUpdate") /\ ~ TimerSet("push") /\ running
  BY <1>1, <1>2 DEF Flow, Modes, Halted, Restarts, Queued, None
<1>4. Queued("start")
  BY <1>1, <1>2, Nowhere DEF Flow, Queued, Rows
<1>5. Rows'
  BY <1>1, <1>2, <1>3, <1>4 DEF Flow, Rows, Becomes, Event
<1>6. Modes'
  BY <1>1, <1>2, <1>3, <1>4 DEF Flow, Rows, Modes, Halted, Becomes, Queued, Names, Event
<1>7. Updates'
  BY <1>1, <1>2, <1>3, <1>4 DEF Flow, Modes, Updates, Becomes, Queued, Sent, Answered,
         Event
<1>8. Pushes'
  BY <1>1, <1>2, <1>3, <1>4 DEF Flow, Modes, Pushes, Becomes, Queued, TimerSet, Event
<1>9. Restarts'
  BY <1>1, <1>2, <1>3, <1>4 DEF Flow, Modes, Halted, Restarts, Becomes, Queued,
         TimerSet, Event
<1>10. Reading'
  BY <1>1, <1>2, <1>3, <1>4 DEF Flow, Modes, Reading, Becomes, Queued, TimerSet, Sent,
         Answered, Event
<1> QED
  BY <1>5, <1>6, <1>7, <1>8, <1>9, <1>10 DEF Flow

LEMMA StartDetachedFlow ==
  ASSUME Flow, StartDetached
  PROVE  Flow'
<1>1. /\ queue # <<>> /\ Head(queue).name = "start" /\ state = "detached"
      /\ busy = "nothing" /\ running' = TRUE
      /\ IF connection = "closing"
         THEN Enqueue(Event("apiError")) /\ UNCHANGED <<busy, calls, connection>>
         ELSE /\ connection' = "open" /\ busy' = "starting"
              /\ calls' = Append(calls, [method |-> "getSnapshot"]) /\ Handled
      /\ UNCHANGED <<state, errors, timers, replies>>
  BY DEF StartDetached, HandledIn, Handling
<1>2. \/ /\ busy' = "starting" /\ connection' = "open" /\ calls' = Append(calls, [method |-> "getSnapshot"])
         /\ Becomes(queue', queue, {Head(queue)}, {}, TRUE)
      \/ /\ UNCHANGED <<busy, calls, connection>> /\ connection = "closing"
         /\ Becomes(queue', queue, {Head(queue)}, {Event("apiError")}, TRUE)
  BY <1>1, HandledMeans DEF Flow
<1>3. Becomes(calls', calls, {}, {}, TRUE) \/ Becomes(calls', calls, {}, {[method |-> "getSnapshot"]}, TRUE)
  BY <1>2, BecomesSame, BecomesLonger DEF Flow, Rows
<1>4. Head(queue) \in In(queue) /\ Queued("start")
  BY <1>1, HandledMeans, Nowhere DEF Flow, Queued, Rows
<1>5. /\ None(queue', "name", "wantToUpdate") /\ One(queue', "name", "wantToUpdate")
      /\ Before(queue', "name", "apiError", "wantToUpdate")
  <2>1. ~ Queued("wantToUpdate")
    BY <1>1 DEF Flow, Pushes
  <2>2. IsRow(queue') /\ None(queue', "name", "wantToUpdate")
    BY <1>2, <2>1 DEF Becomes, Queued, Event
  <2> QED
    BY <2>2, Nowhere
<1>6. state = "detached" /\ UNCHANGED <<state, timers>>
  BY <1>1
<1>7. Rows'
  BY <1>1, <1>2, <1>3, <1>4 DEF Flow, Rows, Becomes, Event
<1>8. Modes'
  BY <1>1, <1>2, <1>3, <1>4 DEF Flow, Rows, Modes, Halted, Becomes, Queued, Names, Event
<1>9. Updates'
  BY <1>1, <1>2, <1>3, <1>4 DEF Flow, Modes, Updates, Becomes, Queued, Sent, Answered,
         Event
<1>10. Pushes'
  BY <1>5, <1>6 DEF Flow, Modes, Pushes, Becomes, Queued, TimerSet, Event
<1>11. Restarts'
  BY <1>1, <1>2, <1>3, <1>4 DEF Flow, Modes, Halted, Restarts, Becomes, Queued,
         TimerSet, Event
<1>12. Reading'
  BY <1>1, <1>2, <1>3, <1>4 DEF Flow, Modes, Reading, Becomes, Queued, TimerSet, Sent,
         Answered, Event
<1> QED
  BY <1>7, <1>8, <1>9, <1>10, <1>11, <1>12 DEF Flow

LEMMA WantInputFlow ==
  ASSUME Flow, WantInput
  PROVE  Flow'
<1>1. /\ queue # <<>> /\ Head(queue).name = "wantInput" /\ state = "idle"
      /\ busy = "nothing"
      /\ UNCHANGED <<state, busy, connection, running, errors, timers, replies>>
      /\ pendingChangeAfter => Handled /\ UNCHANGED calls
      /\ ~ pendingChangeAfter =>
           Call([method |-> "getChangeAfter", revNum |-> snapshot.revNum], Tail(queue))
  BY DEF WantInput, HandledIn, Handling
<1>2. PICK call : call = [method |-> "getChangeAfter", revNum |-> snapshot.revNum]
  BY Zenon
<1>3. call.method = "getChangeAfter"
  BY <1>2
<1>4. \/ Handled /\ UNCHANGED calls
      \/ Handled /\ calls' = Append(calls, call) /\ connection = "open"
      \/ Enqueue(Event("apiError")) /\ UNCHANGED calls /\ connection # "open"
  BY <1>1, <1>2 DEF Call, Handled, Enqueue
<1>5. /\ \/ Becomes(queue', queue, {Head(queue)}, {}, TRUE)
         \/ /\ Becomes(queue', queue, {Head(queue)}, {Event("apiError")}, TRUE)
            /\ UNCHANGED calls /\ connection # "open"
      /\ Head(queue) \in In(queue)
  BY <1>1, <1>4, HandledMeans DEF Flow
<1>6. \/ Becomes(calls', calls, {}, {}, TRUE)
      \/ Becomes(calls', calls, {}, {call}, TRUE) /\ connection = "open"
  BY <1>4, BecomesSame, BecomesLonger DEF Flow, Rows
<1>7. ~ Queued("start")
  BY <1>1 DEF Flow, Restarts
<1>8. Rows'
  BY <1>1, <1>3, <1>5, <1>6, <1>7 DEF Flow, Rows, Becomes, Event
<1>9. Modes'
  BY <1>1, <1>3, <1>5, <1>6, <1>7 DEF Flow, Rows, Modes, Halted, Becomes, Queued,
         Names, Event
<1>10. Updates'
  BY <1>1, <1>3, <1>5, <1>6, <1>7 DEF Flow, Modes, Updates, Becomes, Queued, Sent,
         Answered, Event
<1>11. Pushes'
  BY <1>1, <1>3, <1>5, <1>6, <1>7 DEF Flow, Modes, Pushes, Becomes, Queued, TimerSet,
         Event
<1>12. Restarts'
  BY <1>1, <1>3, <1>5, <1>6, <1>7 DEF Flow, Modes, Halted, Restarts, Becomes, Queued,
         TimerSet, Event
<1>13. Reading'
  BY <1>1, <1>3, <1>5, <1>6, <1>7 DEF Flow, Modes, Reading, Becomes, Queued, TimerSet,
         Sent, Answered, Event
<1> QED
  BY <1>8, <1>9, <1>10, <1>11, <1>12, <1>13 DEF Flow

LEMMA GotQuillEventFlow ==
  ASSUME Flow, GotQuillEvent
  PROVE  Flow'
<1>1. /\ queue # <<>> /\ Head(queue).name = "gotQuillEvent" /\ state = "idle"
      /\ busy = "nothing"
      /\ UNCHANGED <<busy, connection, running, errors, calls, replies>>
      /\ \/ BecomeIdle /\ UNCHANGED timers
         \/ /\ SetTimer([kind |-> "push", msec |-> 1000, revNum |-> snapshot.revNum])
            /\ state' = "collecting" /\ Handled
  BY DEF GotQuillEvent, HandledIn, Handling, wire
<1> DEFINE push == [kind |-> "push", msec |-> 1000, revNum |-> snapshot.revNum]
<1>2. push = [kind |-> "push", msec |-> 1000, revNum |-> snapshot.revNum]
  OBVIOUS
<1> HIDE DEF push
<1>3. push.kind = "push" /\ push.msec = 1000
  BY <1>2
<1>4. \/ state' = "idle" /\ UNCHANGED timers /\ Enqueue(Event("wantInput"))
      \/ state' = "collecting" /\ timers' = Append(timers, push) /\ Handled
  BY <1>1, <1>2 DEF Flow, Modes, BecomeIdle, SetTimer
<1>5. /\ Head(queue) \in In(queue)
      /\ \/ /\ state' = "idle" /\ Becomes(timers', timers, {}, {}, TRUE)
            /\ Becomes(queue', queue, {Head(queue)}, {Event("wantInput")}, TRUE)
         \/ /\ state' = "collecting" /\ Becomes(timers', timers, {}, {push}, TRUE)
            /\ Becomes(queue', queue, {Head(queue)}, {}, TRUE)
  BY <1>1, <1>4, HandledMeans, BecomesSame, BecomesLonger DEF Flow, Rows
<1>6. /\ ~ Queued("start") /\ ~ Queued("wantToUpdate") /\ ~ TimerSet("push")
      /\ ~ TimerSet("restart")
  BY <1>1 DEF Flow, Restarts, Halted, Pushes
<1>7. Rows'
  BY <1>1, <1>3, <1>5, <1>6 DEF Flow, Rows, Becomes, Event
<1>8. Modes'
  BY <1>1, <1>3, <1>5, <1>6 DEF Flow, Rows, Modes, Halted, Becomes, Queued, Names, Event
<1>9. Updates'
  BY <1>1, <1>3, <1>5, <1>6 DEF Flow, Modes, Updates, Becomes, Queued, Sent, Answered,
         Event
<1>10. Pushes'
  BY <1>1, <1>3, <1>5, <1>6 DEF Flow, Modes, Pushes, Becomes, Queued, TimerSet, Event
<1>11. Restarts'
  BY <1>1, <1>3, <1>5, <1>6 DEF Flow, Modes, Halted, Restarts, Becomes, Queued,
         TimerSet, Event
<1>12. Reading'
  BY <1>1, <1>3, <1>5, <1>6 DEF Flow, Modes, Reading, Becomes, Queued, TimerSet, Sent,
         Answered, Event
<1> QED
  BY <1>7, <1>8, <1>9, <1>10, <1>11, <1>12 DEF Flow

LEMMA WantToUpdateFlow ==
  ASSUME Flow, WantToUpdate, Composed(Collected) = EmptyBodyDelta => Collected # <<>>
  PROVE  Flow'
<1>1. /\ queue # <<>> /\ Head(queue).name = "wantToUpdate" /\ state = "collecting"
      /\ busy = "nothing"
      /\ UNCHANGED <<busy, connection, running, errors, timers, replies>>
      /\ \/ BecomeIdle /\ UNCHANGED calls
         \/ /\ state' = "merging"
            /\ Call([method |-> "update", revNum |-> snapshot.revNum,
                     delta |-> Composed(Collected)], Tail(queue))
  BY DEF WantToUpdate, HandledIn, Handling
<1>2. PICK call : call = [method |-> "update", revNum |-> snapshot.revNum,
                          delta |-> Composed(Collected)]
  BY Zenon
<1>3. call.method = "update"
  BY <1>2
<1>4. \/ Enqueue(Event("wantInput")) /\ UNCHANGED calls /\ state' = "idle"
      \/ Handled /\ calls' = Append(calls, call) /\ connection = "open" /\ state' = "merging"
      \/ Enqueue(Event("apiError")) /\ UNCHANGED calls /\ connection # "open" /\ state' = "merging"
  BY <1>1, <1>2 DEF Call, Handled, Enqueue, BecomeIdle, Flow, Modes
<1>5. /\ Head(queue) \in In(queue)
      /\ \/ /\ state' = "idle" /\ Becomes(calls', calls, {}, {}, TRUE)
            /\ Becomes(queue', queue, {Head(queue)}, {Event("wantInput")}, TRUE)
         \/ /\ state' = "merging" /\ Becomes(calls', calls, {}, {call}, TRUE)
            /\ connection = "open"
            /\ Becomes(queue', queue, {Head(queue)}, {}, TRUE)
         \/ /\ state' = "merging" /\ Becomes(calls', calls, {}, {}, TRUE)
            /\ connection # "open"
            /\ Becomes(queue', queue, {Head(queue)}, {Event("apiError")}, TRUE)
      /\ \A f, x, y : Before(queue, f, x, y) /\ Head(queue)[f] = y => None(queue, f, x)
  BY <1>1, <1>4, HandledMeans, BecomesSame, BecomesLonger DEF Flow, Rows
<1>6. Queued("wantToUpdate") /\ (connection = "open" => ~ Queued("apiError"))
  BY <1>1, <1>5, Nowhere DEF Flow, Rows, Pushes, Queued
<1>7. /\ ~ Queued("start") /\ ~ TimerSet("push") /\ ~ TimerSet("restart")
      /\ ~ Sent("update") /\ ~ Answered("update") /\ ~ Queued("gotUpdate")
  BY <1>1, <1>6 DEF Flow, Restarts, Halted, Pushes, Updates
<1>8. Rows'
  BY <1>1, <1>3, <1>5, <1>6, <1>7 DEF Flow, Rows, Becomes, Event
<1>9. Modes'
  BY <1>1, <1>3, <1>5, <1>6, <1>7 DEF Flow, Rows, Modes, Halted, Becomes, Queued,
         Names, Event
<1>10. Updates'
  BY <1>1, <1>3, <1>5, <1>6, <1>7 DEF Flow, Modes, Updates, Becomes, Queued, Sent,
         Answered, Event
<1>11. Pushes'
  BY <1>1, <1>3, <1>5, <1>6, <1>7 DEF Flow, Modes, Pushes, Becomes, Queued, TimerSet,
         Event
<1>12. Restarts'
  BY <1>1, <1>3, <1>5, <1>6, <1>7 DEF Flow, Modes, Halted, Restarts, Becomes, Queued,
         TimerSet, Event
<1>13. Reading'
  BY <1>1, <1>3, <1>5, <1>6, <1>7 DEF Flow, Modes, Reading, Becomes, Queued, TimerSet,
         Sent, Answered, Event
<1> QED
  BY <1>8, <1>9, <1>10, <1>11, <1>12, <1>13 DEF Flow

\* What only happens to a machine that is stopped does not happen.
LEMMA NeverStopped ==
  ASSUME Flow, StopNow \/ WaitThenStop \/ StopUnrecoverable \/ Error \/ Unexpected
  PROVE  FALSE
<1>1. PICK name \in {"stop", "error", "gotUpdate", "wantToUpdate"} :
        /\ queue # <<>> /\ Head(queue).name = name
        /\ name = "gotUpdate" => state \notin {"merging", "errorWait"}
        /\ name = "wantToUpdate" => state \notin {"collecting", "errorWait"}
  BY DEF StopNow, WaitThenStop, StopUnrecoverable, Error, Unexpected, HandledIn, Handling
<1>2. Head(queue) \in In(queue) /\ Queued(name)
  BY <1>1, Nowhere DEF Flow, Rows, Queued
<1>3. name \in Names
  BY <1>1, <1>2 DEF Flow, Modes
<1>4. CASE name = "gotUpdate"
  BY <1>1, <1>2, <1>4 DEF Flow, Updates, Modes
<1>5. CASE name = "wantToUpdate"
  BY <1>1, <1>2, <1>5 DEF Flow, Pushes, Modes
<1> QED
  BY <1>1, <1>3, <1>4, <1>5 DEF Names

LEMMA ApiErrorIgnoredFlow ==
  ASSUME Flow, ApiError, ~ running
  PROVE  Flow'
<1>1. /\ queue # <<>> /\ Head(queue).name = "apiError" /\ state = "detached" /\ Handled
      /\ UNCHANGED <<state, busy, connection, running, errors, timers, calls, replies>>
  BY DEF ApiError, Handling, wire, Flow, Modes
<1>2. /\ Becomes(queue', queue, {Head(queue)}, {}, TRUE) /\ Head(queue) \in In(queue)
  BY <1>1, HandledMeans DEF Flow
<1>3. Rows'
  BY <1>1, <1>2 DEF Flow, Rows, Becomes
<1>4. Modes'
  BY <1>1, <1>2 DEF Flow, Rows, Modes, Halted, Becomes, Queued, Names
<1>5. Updates'
  BY <1>1, <1>2 DEF Flow, Modes, Updates, Becomes, Queued, Sent, Answered
<1>6. Pushes'
  BY <1>1, <1>2 DEF Flow, Modes, Pushes, Becomes, Queued, TimerSet
<1>7. Restarts'
  BY <1>1, <1>2 DEF Flow, Modes, Halted, Restarts, Becomes, Queued, TimerSet
<1>8. Reading'
  BY <1>1, <1>2 DEF Flow, Modes, Reading, Becomes, Queued, TimerSet, Sent, Answered
<1> QED
  BY <1>3, <1>4, <1>5, <1>6, <1>7, <1>8 DEF Flow

LEMMA ApiErrorFlow ==
  ASSUME Flow, ApiError, running, errors' <= 1
  PROVE  Flow'
<1>1. /\ queue # <<>> /\ Head(queue).name = "apiError" /\ state # "errorWait"
      /\ busy = "nothing" /\ errors' = errors + 1
      /\ \/ errors + 1 > ErrorsTolerated
         \/ /\ SetTimer([kind |-> "restart", msec |-> IF errors = 0 THEN 1000 ELSE 5000])
            /\ state' = "becomeDisabled"
            /\ Push([name |-> "nextState", next |-> "errorWait"])
      /\ UNCHANGED <<busy, connection, running, calls, replies>>
  BY DEF ApiError, Handling, BecomeDisabled, wire
<1>2. errors = 0 /\ errors' = 1 /\ ~ (errors + 1 > ErrorsTolerated)
  BY <1>1, ErrorsAssumption DEF Flow, Modes
<1>31. PICK next : next = [name |-> "nextState", next |-> "errorWait"]
  BY Zenon
<1> DEFINE timer == [kind |-> "restart", msec |-> 1000]
<1>32. timer = [kind |-> "restart", msec |-> 1000]
  OBVIOUS
<1> HIDE DEF timer
<1>3. IsRow(queue) /\ queue # <<>>
  BY <1>1 DEF Flow, Rows
<1>4. /\ next.name = "nextState" /\ next.next = "errorWait"
      /\ timer.kind = "restart" /\ timer.msec = 1000
  BY <1>31, <1>32
<1>5. /\ timers' = Append(timers, timer) /\ state' = "becomeDisabled"
      /\ queue' = <<next>> \o Tail(queue)
  BY <1>1, <1>2, <1>31, <1>32 DEF SetTimer, Push
<1>6. /\ Head(queue) \in In(queue) /\ Queued("apiError")
      /\ ~ Queued("gotUpdate")
  BY <1>1, HandledMeans, Nowhere DEF Flow, Updates, Queued, Rows
<1>7. /\ ~ Queued("start") /\ ~ TimerSet("restart") /\ ~ Queued("nextState")
      /\ ~ Sent("update") /\ ~ Answered("update")
  BY <1>1, <1>2, <1>6 DEF Flow, Modes, Halted, Updates, Restarts
<1>8. /\ Becomes(queue', queue, {Head(queue)}, {next}, FALSE)
      /\ queue' # <<>> /\ Head(queue') = next
  <2>1. /\ Becomes(<<next>> \o Tail(queue), queue, {Head(queue)}, {next}, FALSE)
        /\ <<next>> \o Tail(queue) # <<>> /\ Head(<<next>> \o Tail(queue)) = next
    BY <1>3, BecomesPushed
  <2> QED
    BY <1>5, <2>1
<1>9. Becomes(timers', timers, {}, {timer}, TRUE)
  BY <1>5, BecomesLonger DEF Flow, Rows
<1>10. /\ state' = "becomeDisabled" /\ errors' = 1 /\ Head(queue).name = "apiError"
       /\ UNCHANGED <<busy, connection, running, calls, replies>>
       /\ busy = "nothing"
  BY <1>1, <1>2, <1>5
<1>11. Rows'
  BY <1>4, <1>6, <1>7, <1>8, <1>9, <1>10 DEF Flow, Rows, Becomes
<1>12. Modes'
  BY <1>4, <1>6, <1>7, <1>8, <1>9, <1>10 DEF Flow, Rows, Modes, Halted, Becomes,
         Queued, Names
<1>13. Updates'
  BY <1>4, <1>6, <1>7, <1>8, <1>9, <1>10 DEF Flow, Modes, Updates, Becomes, Queued,
         Sent, Answered
<1>14. Pushes'
  BY <1>4, <1>6, <1>7, <1>8, <1>9, <1>10 DEF Flow, Modes, Pushes, Becomes, Queued,
         TimerSet
<1>15. Restarts'
  BY <1>4, <1>6, <1>7, <1>8, <1>9, <1>10 DEF Flow, Modes, Halted, Restarts, Becomes,
         Queued, TimerSet
<1>16. Reading'
  BY <1>4, <1>6, <1>7, <1>8, <1>9, <1>10 DEF Flow, Modes, Reading, Becomes, Queued,
         TimerSet, Sent, Answered
<1> QED
  BY <1>11, <1>12, <1>13, <1>14, <1>15, <1>16 DEF Flow

LEMMA GotChangeAfterFlow ==
  ASSUME Flow, GotChangeAfter, Enqueue(Event("wantInputAfterDelay"))
  PROVE  Flow'
<1>1. /\ queue # <<>> /\ Head(queue).name = "gotChangeAfter" /\ state = "idle"
      /\ busy = "nothing"
      /\ UNCHANGED <<busy, connection, running, errors, timers, calls, replies>>
  BY DEF GotChangeAfter, HandledIn, Handling, wire
<1>2. /\ Becomes(queue', queue, {Head(queue)}, {Event("wantInputAfterDelay")}, TRUE)
      /\ Head(queue) \in In(queue)
  BY <1>1, HandledMeans DEF Flow
<1>3. state' = "idle"
  BY <1>1 DEF GotChangeAfter, UpdateWithChange, Throw
<1>4. ~ Queued("start")
  BY <1>1 DEF Flow, Restarts
<1>5. Rows'
  BY <1>1, <1>2, <1>3, <1>4 DEF Flow, Rows, Becomes, Event
<1>6. Modes'
  BY <1>1, <1>2, <1>3, <1>4 DEF Flow, Rows, Modes, Halted, Becomes, Queued, Names, Event
<1>7. Updates'
  BY <1>1, <1>2, <1>3, <1>4 DEF Flow, Modes, Updates, Becomes, Queued, Sent, Answered,
         Event
<1>8. Pushes'
  BY <1>1, <1>2, <1>3, <1>4 DEF Flow, Modes, Pushes, Becomes, Queued, TimerSet, Event
<1>9. Restarts'
  BY <1>1, <1>2, <1>3, <1>4 DEF Flow, Modes, Halted, Restarts, Becomes, Queued,
         TimerSet, Event
<1>10. Reading'
  BY <1>1, <1>2, <1>3, <1>4 DEF Flow, Modes, Reading, Becomes, Queued, TimerSet, Sent,
         Answered, Event
<1> QED
  BY <1>5, <1>6, <1>7, <1>8, <1>9, <1>10 DEF Flow

LEMMA WantInputAfterDelayFlow ==
  ASSUME Flow, WantInputAfterDelay
  PROVE  Flow'
<1>1. /\ queue # <<>> /\ Head(queue).name = "wantInputAfterDelay" /\ state = "idle"
      /\ busy = "nothing" /\ busy' = "pausing" /\ Handled
      /\ SetTimer([kind |-> "pull", msec |-> 1000])
      /\ UNCHANGED <<state, connection, running, errors, calls, replies>>
  BY DEF WantInputAfterDelay, HandledIn, Handling, wire
<1> DEFINE timer == [kind |-> "pull", msec |-> 1000]
<1>2. timer = [kind |-> "pull", msec |-> 1000]
  OBVIOUS
<1> HIDE DEF timer
<1>3. timer.kind = "pull" /\ timer.msec = 1000
  BY <1>2
<1>4. /\ Becomes(queue', queue, {Head(queue)}, {}, TRUE) /\ Head(queue) \in In(queue)
      /\ Becomes(timers', timers, {}, {timer}, TRUE)
  <2>1. timers' = Append(timers, timer) /\ IsRow(timers)
    BY <1>1, <1>2 DEF SetTimer, Flow, Rows
  <2>2. Becomes(timers', timers, {}, {timer}, TRUE)
    BY <2>1, BecomesLonger
  <2> QED
    BY <1>1, <2>2, HandledMeans DEF Flow
<1>5. ~ Queued("start") /\ ~ TimerSet("pull") /\ ~ TimerSet("restart")
  BY <1>1 DEF Flow, Restarts, Reading, Halted
<1>6. Rows'
  BY <1>1, <1>3, <1>4, <1>5 DEF Flow, Rows, Becomes
<1>7. Modes'
  BY <1>1, <1>3, <1>4, <1>5 DEF Flow, Rows, Modes, Halted, Becomes, Queued, Names
<1>8. Updates'
  BY <1>1, <1>3, <1>4, <1>5 DEF Flow, Modes, Updates, Becomes, Queued, Sent, Answered
<1>9. Pushes'
  BY <1>1, <1>3, <1>4, <1>5 DEF Flow, Modes, Pushes, Becomes, Queued, TimerSet
<1>10. Restarts'
  BY <1>1, <1>3, <1>4, <1>5 DEF Flow, Modes, Halted, Restarts, Becomes, Queued, TimerSet
<1>11. Reading'
  BY <1>1, <1>3, <1>4, <1>5 DEF Flow, Modes, Reading, Becomes, Queued, TimerSet, Sent,
         Answered
<1> QED
  BY <1>6, <1>7, <1>8, <1>9, <1>10, <1>11 DEF Flow

LEMMA GotUpdateFlow ==
  ASSUME Flow, GotUpdate, BecomeIdle
  PROVE  Flow'
<1>1. /\ queue # <<>> /\ Head(queue).name = "gotUpdate" /\ state = "merging"
      /\ busy = "nothing"
      /\ UNCHANGED <<busy, connection, running, errors, timers, calls, replies>>
  BY DEF GotUpdate, HandledIn, Handling, wire
<1>2. state' = "idle" /\ Enqueue(Event("wantInput"))
  BY <1>1 DEF Flow, Modes, BecomeIdle
<1>3. /\ Becomes(queue', queue, {Head(queue)}, {Event("wantInput")}, TRUE)
      /\ Head(queue) \in In(queue)
  BY <1>1, <1>2, HandledMeans DEF Flow
<1>4. /\ ~ Queued("start") /\ Queued("gotUpdate") /\ ~ TimerSet("restart")
      /\ ~ Sent("update") /\ ~ Answered("update")
  BY <1>1, <1>3, Nowhere DEF Flow, Rows, Restarts, Updates, Queued, Halted
<1>5. Rows'
  BY <1>1, <1>2, <1>3, <1>4 DEF Flow, Rows, Becomes, Event
<1>6. Modes'
  BY <1>1, <1>2, <1>3, <1>4 DEF Flow, Rows, Modes, Halted, Becomes, Queued, Names, Event
<1>7. Updates'
  BY <1>1, <1>2, <1>3, <1>4 DEF Flow, Modes, Updates, Becomes, Queued, Sent, Answered,
         Event
<1>8. Pushes'
  BY <1>1, <1>2, <1>3, <1>4 DEF Flow, Modes, Pushes, Becomes, Queued, TimerSet, Event
<1>9. Restarts'
  BY <1>1, <1>2, <1>3, <1>4 DEF Flow, Modes, Halted, Restarts, Becomes, Queued,
         TimerSet, Event
<1>10. Reading'
  BY <1>1, <1>2, <1>3, <1>4 DEF Flow, Modes, Reading, Becomes, Queued, TimerSet, Sent,
         Answered, Event
<1> QED
  BY <1>5, <1>6, <1>7, <1>8, <1>9, <1>10 DEF Flow

LEMMA IgnoreFlow ==
  ASSUME Flow, Ignore
  PROVE  Flow'
<1>1. /\ queue # <<>> /\ busy = "nothing" /\ Handled
      /\ UNCHANGED <<state, busy, connection, running, errors, timers, calls, replies>>
      /\ state = "errorWait" \/ Head(queue).name \in Names \ {"nextState", "gotUpdate"}
  BY DEF Ignore, Handling, wire, Names
<1>2. Becomes(queue', queue, {Head(queue)}, {}, TRUE) /\ Head(queue) \in In(queue)
  BY <1>1, HandledMeans DEF Flow
<1>3. state # "becomeDisabled"
  BY <1>1 DEF Flow, Modes
<1>4. Rows'
  BY <1>1, <1>2, <1>3 DEF Flow, Rows, Becomes
<1>5. Modes'
  BY <1>1, <1>2, <1>3 DEF Flow, Rows, Modes, Halted, Becomes, Queued, Names
<1>6. Updates'
  BY <1>1, <1>2, <1>3 DEF Flow, Modes, Updates, Becomes, Queued, Sent, Answered
<1>7. Pushes'
  BY <1>1, <1>2, <1>3 DEF Flow, Modes, Pushes, Becomes, Queued, TimerSet
<1>8. Restarts'
  BY <1>1, <1>2, <1>3 DEF Flow, Modes, Halted, Restarts, Becomes, Queued, TimerSet
<1>9. Reading'
  BY <1>1, <1>2, <1>3 DEF Flow, Modes, Reading, Becomes, Queued, TimerSet, Sent,
         Answered
<1> QED
  BY <1>4, <1>5, <1>6, <1>7, <1>8, <1>9 DEF Flow

-----------------------------------------------------------------------------
(* The calls of a connection that is lost *)

\* The update of a caller that gave up.
OrphanOf(call) == [method |-> "orphan", revNum |-> call.revNum, delta |-> call.delta]

Orphans == {OrphanOf(call) : call \in {c \in In(calls) : c.method \in {"update", "orphan"}}}

LEMMA AbandonIs ==
  ASSUME NEW stay \in Row(Orphans), NEW call \in In(calls)
  PROVE  Abandon(stay, call) \in Row(Orphans)
<1>1. CASE call.method \in {"update", "orphan"}
  <2>1. OrphanOf(call) \in Orphans
    BY <1>1 DEF Orphans
  <2>2. Abandon(stay, call) = Append(stay, OrphanOf(call))
    BY <1>1 DEF Abandon, OrphanOf
  <2> HIDE DEF Orphans, OrphanOf
  <2> QED
    BY <2>1, <2>2 DEF Row
<1>2. CASE call.method \notin {"update", "orphan"}
  BY <1>2 DEF Abandon
<1> QED
  BY <1>1, <1>2

LEMMA LeftBehindIs ==
  ASSUME IsRow(calls)
  PROVE  LeftBehind \in Row(Orphans)
<1>1. PICK n, ch, V : n = Len(calls) /\ ch = calls /\ V = Row(Orphans)
  OBVIOUS
<1>2. /\ n \in Nat /\ DOMAIN ch = 1..n
      /\ \A i \in 1..n : ch[i] \in In(calls)
  <2>1. calls = [i \in 1..Len(calls) |-> calls[i]] /\ Len(calls) \in Nat
    BY DEF IsRow
  <2>2. \A i \in 1..Len(calls) : calls[i] \in In(calls)
    BY DEF In
  <2> HIDE DEF In
  <2> QED
    BY <1>1, <2>1, <2>2
<1>3. <<>> \in V
  BY <1>1 DEF Row
<1>4. \A stay \in V, call \in In(calls) : Abandon(stay, call) \in V
  BY <1>1, AbandonIs
<1> DEFINE IsIt(iter) ==
             iter = [S \in SUBSET (1..n) |->
                       IF S = {} THEN <<>>
                       ELSE Abandon(iter[S \ {Max(S)}], ch[Max(S)])]
           fold == CHOOSE iter : IsIt(iter)
<1>5. \E iter : IsIt(iter)
  <2> DEFINE step == [ic \in (1..n) \X V |-> Abandon(ic[2], ch[ic[1]])]
  <2>1. step \in [(1..n) \X V -> V]
    BY <1>2, <1>4
  <2>2. \A i \in 1..n, c \in V : step[i, c] = Abandon(c, ch[i])
    OBVIOUS
  <2> HIDE DEF step
  <2>3. \E iter \in [SUBSET (1..n) -> V] : IsFold(iter, n, <<>>, step)
    BY <1>2, <1>3, <2>1, FoldOnSubsets
  <2>4. PICK iter \in [SUBSET (1..n) -> V] : \A S \in SUBSET (1..n) :
          iter[S] = IF S = {} THEN <<>> ELSE step[Max(S), iter[S \ {Max(S)}]]
    BY <2>3 DEF IsFold
  <2>5. ASSUME NEW S \in SUBSET (1..n)
        PROVE  iter[S] = IF S = {} THEN <<>>
                         ELSE Abandon(iter[S \ {Max(S)}], ch[Max(S)])
    <3>1. CASE S = {}
      BY <2>4, <3>1
    <3>2. CASE S # {}
      <4>1. Max(S) \in 1..n /\ S \ {Max(S)} \in SUBSET (1..n)
        BY <1>2, <3>2, MaxIsThere
      <4> QED
        BY <2>2, <2>4, <3>2, <4>1
    <3> QED
      BY <3>1, <3>2
  <2>6. IsIt(iter)
    BY <2>4, <2>5
  <2> QED
    BY <2>6
<1>6. IsIt(fold)
  BY <1>5
<1>7. LeftBehind = fold[1..n]
  BY <1>1, <1>2 DEF LeftBehind, FoldLeft, MapThenFoldSet
<1> HIDE DEF fold
<1>8. fold[1..0] = <<>>
  BY <1>6, MaxOfInterval
<1>9. ASSUME NEW k \in Nat, k + 1 <= n
      PROVE  fold[1..k + 1] = Abandon(fold[1..k], ch[k + 1]) /\ k + 1 \in 1..n
  <2>1. /\ Max(1..k + 1) = k + 1 /\ (1..k + 1) \ {k + 1} = 1..k /\ 1..k + 1 # {}
    BY MaxOfInterval
  <2>2. 1..k + 1 \in SUBSET (1..n) /\ k + 1 \in 1..n
    BY <1>2, <1>9
  <2> QED
    BY <1>6, <2>1, <2>2
<1> HIDE DEF IsIt
<1> DEFINE Good == {k \in Nat : k <= n => fold[1..k] \in V}
<1>10. 0 \in Good
  BY <1>3, <1>8
<1>11. ASSUME NEW k \in Nat, k \in Good PROVE k + 1 \in Good
  BY <1>2, <1>4, <1>9, <1>11
<1>12. Nat \subseteq Good
  <2> HIDE DEF Good
  <2> QED
    BY <1>10, <1>11, Induction
<1> QED
  BY <1>1, <1>2, <1>7, <1>12

\* Whose orphans they are, and how many calls a lost connection fails.
LEMMA LeftBehindAre ==
  ASSUME IsRow(calls)
  PROVE  /\ IsRow(LeftBehind)
         /\ \A e \in In(LeftBehind) :
              \E c \in In(calls) : /\ c.method \in {"update", "orphan"}
                                  /\ e.method = "orphan"
                                  /\ e.revNum = c.revNum /\ e.delta = c.delta
<1>1. IsRow(LeftBehind) /\ In(LeftBehind) \subseteq Orphans
  BY LeftBehindIs, RowsAre
<1>2. \A c : /\ OrphanOf(c).method = "orphan" /\ OrphanOf(c).revNum = c.revNum
              /\ OrphanOf(c).delta = c.delta
  BY DEF OrphanOf
<1> QED
  BY <1>1, <1>2 DEF Orphans

LEMMA AwaitedAre ==
  ASSUME IsRow(calls), IsRow(replies)
  PROVE  /\ Cardinality(Awaited) + Len(replies) \in Nat
         /\ In(calls) = {} /\ In(CallsOf(replies)) = {} =>
              Cardinality(Awaited) + Len(replies) = 0
<1>1. Len(calls) \in Nat /\ DOMAIN calls = 1..Len(calls) /\ Len(replies) \in Nat
  BY DEF IsRow
<1>2. IsFiniteSet(1..Len(calls)) /\ Awaited \subseteq 1..Len(calls)
  BY <1>1, FS_Interval DEF Awaited
<1>3. IsFiniteSet(Awaited)
  BY <1>2, FS_Subset
<1>4. Cardinality(Awaited) \in Nat
  BY <1>3, FS_CardinalityType
<1>5. ASSUME In(calls) = {} PROVE Cardinality(Awaited) = 0
  <2>1. \A i \in 1..Len(calls) : calls[i] \in In(calls)
    BY DEF In
  <2>2. Awaited = {}
    BY <1>2, <1>5, <2>1
  <2> QED
    BY <2>2, FS_EmptySet
<1>6. ASSUME In(CallsOf(replies)) = {} PROVE Len(replies) = 0
  <2>3. {a.call : a \in In(replies)} = {}
    BY <1>6, CallsOfIs
  <2>1. In(replies) = {}
    <3>1. \A a \in In(replies) : a.call \in {b.call : b \in In(replies)}
      OBVIOUS
    <3> QED
      BY <2>3, <3>1
  <2>2. replies = <<>>
    BY <2>1, Nowhere
  <2> QED
    BY <2>2
<1> QED
  BY <1>1, <1>4, <1>5, <1>6

\* An event is queued after the others.
LEMMA QueuedMeans ==
  ASSUME Rows, NEW e, queue' = Append(queue, e)
  PROVE  /\ Becomes(queue', queue, {}, {e}, TRUE)
         /\ queue' # <<>> /\ (queue # <<>> => Head(queue') = Head(queue))
<1>1. IsRow(queue)
  BY DEF Rows
<1>2. /\ Becomes(Append(queue, e), queue, {}, {e}, TRUE)
      /\ Append(queue, e) # <<>> /\ (queue # <<>> => Head(Append(queue, e)) = Head(queue))
  BY <1>1, BecomesLonger, Appended
<1> QED
  BY <1>2

LEMMA NoticeQuillEventFlow ==
  ASSUME Flow, NoticeQuillEvent
  PROVE  Flow'
<1>1. PICK e : e = [name |-> "gotQuillEvent", revNum |-> Head(awaits).revNum]
  BY Zenon
<1>2. /\ queue' = Append(queue, e) /\ e.name = "gotQuillEvent"
      /\ UNCHANGED <<state, busy, connection, running, errors, timers, calls, replies>>
  BY <1>1 DEF NoticeQuillEvent, wire
<1>3. /\ Becomes(queue', queue, {}, {e}, TRUE)
      /\ queue' # <<>> /\ (queue # <<>> => Head(queue') = Head(queue))
  BY <1>2, QueuedMeans DEF Flow
<1>4. Rows'
  BY <1>2, <1>3 DEF Flow, Rows, Becomes
<1>5. Modes'
  BY <1>2, <1>3 DEF Flow, Rows, Modes, Halted, Becomes, Queued, Names
<1>6. Updates'
  BY <1>2, <1>3 DEF Flow, Modes, Updates, Becomes, Queued, Sent, Answered
<1>7. Pushes'
  BY <1>2, <1>3 DEF Flow, Modes, Pushes, Becomes, Queued, TimerSet
<1>8. Restarts'
  BY <1>2, <1>3 DEF Flow, Modes, Halted, Restarts, Becomes, Queued, TimerSet
<1>9. Reading'
  BY <1>2, <1>3 DEF Flow, Modes, Reading, Becomes, Queued, TimerSet, Sent, Answered
<1> QED
  BY <1>4, <1>5, <1>6, <1>7, <1>8, <1>9 DEF Flow

\* A call is answered: it is no longer at the server, but among the answers.
LEMMA AnswerMeans ==
  ASSUME Rows, NEW i \in 1..Len(calls), NEW event, Answer(i, event)
  PROVE  /\ Becomes(calls', calls, {calls[i]}, {}, TRUE) /\ calls[i] \in In(calls)
         /\ IsRow(replies')
         /\ In(replies') = In(replies) \cup {[call |-> calls[i], event |-> event]}
         /\ Becomes(CallsOf(replies)', CallsOf(replies), {}, {calls[i]}, TRUE)
<1>1. /\ calls' = RemoveAt(calls, i)
      /\ replies' = Append(replies, [call |-> calls[i], event |-> event])
  BY DEF Answer
<1>2. Becomes(RemoveAt(calls, i), calls, {calls[i]}, {}, TRUE) /\ calls[i] \in In(calls)
  BY BecomesRemoved DEF Rows
<1>3. PICK call, answer : call = calls[i] /\ answer = [call |-> calls[i], event |-> event]
  BY Zenon
<1>4. answer.call = call
  BY <1>3
<1>5. /\ IsRow(Append(replies, answer))
      /\ In(Append(replies, answer)) = In(replies) \cup {answer}
  BY Appended DEF Rows
<1>6. /\ CallsOf(Append(replies, answer)) = Append(CallsOf(replies), answer.call)
      /\ IsRow(CallsOf(replies))
  BY CallsOfIs DEF Rows
<1>7. Becomes(Append(CallsOf(replies), call), CallsOf(replies), {}, {call}, TRUE)
  BY <1>6, BecomesLonger
<1>8. CallsOf(replies)' = Append(CallsOf(replies), call)
  <2>1. CallsOf(replies)' = CallsOf(replies')
    OBVIOUS
  <2> QED
    BY <1>1, <1>3, <1>4, <1>6, <2>1
<1> QED
  BY <1>1, <1>2, <1>3, <1>5, <1>7, <1>8

LEMMA AnswerFlow ==
  ASSUME Flow, NEW i \in 1..Len(calls), NEW event, Answer(i, event),
         calls[i].method # "orphan",
         UNCHANGED <<state, busy, connection, running, errors, timers, queue>>
  PROVE  Flow'
<1>1. /\ Becomes(calls', calls, {calls[i]}, {}, TRUE) /\ calls[i] \in In(calls)
      /\ Becomes(CallsOf(replies)', CallsOf(replies), {}, {calls[i]}, TRUE)
      /\ IsRow(replies')
  BY AnswerMeans DEF Flow
<1>2. PICK call : call = calls[i]
  OBVIOUS
<1>3. /\ Becomes(calls', calls, {call}, {}, TRUE) /\ call \in In(calls)
      /\ Becomes(CallsOf(replies)', CallsOf(replies), {}, {call}, TRUE)
      /\ call.method # "orphan" /\ IsRow(replies')
      /\ UNCHANGED <<state, busy, connection, running, errors, timers, queue>>
  BY <1>1, <1>2
<1>4. /\ call.method = "update" => Sent("update")
      /\ call.method = "getSnapshot" => Sent("getSnapshot")
  BY <1>3, Nowhere DEF Flow, Rows, Sent
<1>5. Rows'
  BY <1>3, <1>4 DEF Flow, Rows, Becomes
<1>6. Modes'
  BY <1>3, <1>4 DEF Flow, Rows, Modes, Halted, Becomes, Queued, Names
<1>7. Updates'
  BY <1>3, <1>4 DEF Flow, Modes, Updates, Becomes, Queued, Sent, Answered
<1>8. Pushes'
  BY <1>3, <1>4 DEF Flow, Modes, Pushes, Becomes, Queued, TimerSet
<1>9. Restarts'
  BY <1>3, <1>4 DEF Flow, Modes, Halted, Restarts, Becomes, Queued, TimerSet
<1>10. Reading'
  BY <1>3, <1>4 DEF Flow, Modes, Reading, Becomes, Queued, TimerSet, Sent, Answered
<1> QED
  BY <1>5, <1>6, <1>7, <1>8, <1>9, <1>10 DEF Flow

LEMMA ServeOrphanFlow ==
  ASSUME Flow, NEW i \in 1..Len(calls), ServeOrphan(i)
  PROVE  Flow'
<1>1. /\ calls' = RemoveAt(calls, i)
      /\ UNCHANGED <<state, busy, connection, running, errors, timers, queue, replies>>
  BY DEF ServeOrphan, machine
<1>2. Becomes(calls', calls, {calls[i]}, {}, TRUE) /\ calls[i] \in In(calls)
  BY <1>1, BecomesRemoved DEF Flow, Rows
<1>3. PICK call : call = calls[i]
  OBVIOUS
<1>4. /\ Becomes(calls', calls, {call}, {}, TRUE)
      /\ UNCHANGED <<state, busy, connection, running, errors, timers, queue, replies>>
  BY <1>1, <1>2, <1>3
<1>5. Rows'
  BY <1>4 DEF Flow, Rows, Becomes
<1>6. Modes'
  BY <1>4 DEF Flow, Rows, Modes, Halted, Becomes, Queued, Names
<1>7. Updates'
  BY <1>4 DEF Flow, Modes, Updates, Becomes, Queued, Sent, Answered
<1>8. Pushes'
  BY <1>4 DEF Flow, Modes, Pushes, Becomes, Queued, TimerSet
<1>9. Restarts'
  BY <1>4 DEF Flow, Modes, Halted, Restarts, Becomes, Queued, TimerSet
<1>10. Reading'
  BY <1>4 DEF Flow, Modes, Reading, Becomes, Queued, TimerSet, Sent, Answered
<1> QED
  BY <1>5, <1>6, <1>7, <1>8, <1>9, <1>10 DEF Flow

\* What an answer is made of.
Paired(answer) ==
  \/ answer.call.method = "getSnapshot" /\ answer.event.name = "gotSnapshot"
  \/ /\ answer.call.method = "getChangeAfter"
     /\ answer.event.name \in {"wantInput", "gotChangeAfter"}
  \/ answer.call.method = "update" /\ answer.event.name \in {"apiError", "gotUpdate"}

\* The first answer is read.
LEMMA ReceiveMeans ==
  ASSUME Rows, Receive
  PROVE  /\ Head(replies) \in In(replies)
         /\ IsRow(replies') /\ In(replies') \subseteq In(replies)
         /\ Becomes(CallsOf(replies)', CallsOf(replies), {Head(replies).call}, {}, TRUE)
         /\ Head(replies).call \in In(CallsOf(replies))
<1>1. replies # <<>> /\ replies' = Tail(replies) /\ IsRow(replies)
  BY DEF Receive, Rows
<1>2. Becomes(Tail(replies), replies, {Head(replies)}, {}, TRUE) /\ Head(replies) \in In(replies)
  BY <1>1, BecomesTail
<1>3. IsRow(replies') /\ In(replies') \subseteq In(replies)
  BY <1>1, <1>2 DEF Becomes
<1>4. /\ IsRow(CallsOf(replies)) /\ CallsOf(Tail(replies)) = Tail(CallsOf(replies))
      /\ CallsOf(replies) # <<>> /\ Head(CallsOf(replies)) = Head(replies).call
  BY <1>1, CallsOfIs
<1>5. PICK r : r = CallsOf(replies)
  OBVIOUS
<1>6. Becomes(Tail(r), r, {Head(r)}, {}, TRUE) /\ Head(r) \in In(r)
  BY <1>4, <1>5, BecomesTail
<1>7. CallsOf(replies)' = Tail(r)
  <2>1. CallsOf(replies)' = CallsOf(replies')
    OBVIOUS
  <2> QED
    BY <1>1, <1>4, <1>5, <2>1
<1> QED
  BY <1>2, <1>3, <1>4, <1>5, <1>6, <1>7

LEMMA GotSnapshotFlow ==
  ASSUME Flow, Receive, Head(replies).event.name = "gotSnapshot",
         Head(replies).call.method = "getSnapshot"
  PROVE  Flow'
<1>1. /\ state' = "becomeEnabled" /\ busy' = "nothing"
      /\ queue' = Append(queue, Event("start"))
      /\ UNCHANGED <<connection, running, errors, timers, calls>>
  BY DEF Receive, GotSnapshot
<1>2. PICK e : e = Event("start")
  OBVIOUS
<1>3. e.name = "start"
  BY <1>2 DEF Event
<1>4. /\ Becomes(queue', queue, {}, {e}, TRUE)
      /\ queue' # <<>> /\ (queue # <<>> => Head(queue') = Head(queue))
  BY <1>1, <1>2, QueuedMeans DEF Flow
<1>5. PICK call : call = Head(replies).call
  OBVIOUS
<1>6. /\ Becomes(CallsOf(replies)', CallsOf(replies), {call}, {}, TRUE)
      /\ call \in In(CallsOf(replies)) /\ call.method = "getSnapshot" /\ IsRow(replies')
  BY <1>5, ReceiveMeans DEF Flow
<1>7. Answered("getSnapshot")
  BY <1>6, Nowhere, CallsOfIs DEF Flow, Rows, Answered
<1>8. /\ busy = "starting" /\ state = "detached" /\ running /\ connection = "open"
      /\ ~ Sent("getSnapshot") /\ ~ Queued("start")
      /\ ~ Queued("wantToUpdate") /\ ~ TimerSet("push") /\ ~ TimerSet("restart")
  BY <1>7 DEF Flow, Reading, Restarts, Pushes, Halted
<1>9. /\ state' = "becomeEnabled" /\ busy' = "nothing"
      /\ UNCHANGED <<connection, running, errors, timers, calls>>
  BY <1>1
<1>10. ~ TimerSet("pull")
  BY <1>8 DEF Flow, Reading
<1>11. Rows'
  BY <1>3, <1>4, <1>6, <1>8, <1>9, <1>10 DEF Flow, Rows, Becomes
<1>12. Modes'
  BY <1>3, <1>4, <1>6, <1>8, <1>9, <1>10 DEF Flow, Rows, Modes, Halted, Becomes,
         Queued, Names
<1>13. Updates'
  BY <1>3, <1>4, <1>6, <1>8, <1>9, <1>10 DEF Flow, Modes, Updates, Becomes, Queued,
         Sent, Answered
<1>14. Pushes'
  BY <1>3, <1>4, <1>6, <1>8, <1>9, <1>10 DEF Flow, Modes, Pushes, Becomes, Queued,
         TimerSet
<1>15. Restarts'
  BY <1>3, <1>4, <1>6, <1>8, <1>9, <1>10 DEF Flow, Modes, Halted, Restarts, Becomes,
         Queued, TimerSet
<1>16. Reading'
  BY <1>3, <1>4, <1>6, <1>8, <1>9, <1>10 DEF Flow, Modes, Reading, Becomes, Queued,
         TimerSet, Sent, Answered
<1> QED
  BY <1>11, <1>12, <1>13, <1>14, <1>15, <1>16 DEF Flow

LEMMA GotAnswerFlow ==
  ASSUME Flow, Receive, Paired(Head(replies)),
         Head(replies).event.name # "gotSnapshot"
  PROVE  Flow'
<1>1. PICK e, call : e = Head(replies).event /\ call = Head(replies).call
  OBVIOUS
<1>2. /\ queue' = Append(queue, e)
      /\ UNCHANGED <<state, busy, connection, running, errors, timers, calls>>
  BY <1>1 DEF Receive
<1>3. \/ call.method = "getChangeAfter" /\ e.name \in {"wantInput", "gotChangeAfter"}
      \/ call.method = "update" /\ e.name \in {"apiError", "gotUpdate"}
  BY <1>1 DEF Paired
<1>4. /\ Becomes(queue', queue, {}, {e}, TRUE)
      /\ queue' # <<>> /\ (queue # <<>> => Head(queue') = Head(queue))
  BY <1>2, QueuedMeans DEF Flow
<1>5. /\ Becomes(CallsOf(replies)', CallsOf(replies), {call}, {}, TRUE)
      /\ call \in In(CallsOf(replies)) /\ IsRow(replies') /\ replies # <<>>
  BY <1>1, ReceiveMeans DEF Flow, Receive
<1>6. ASSUME call.method = "update"
      PROVE  /\ Answered("update") /\ state = "merging" /\ ~ Queued("apiError") /\ ~ Queued("gotUpdate")
             /\ ~ Queued("start") /\ ~ Queued("wantToUpdate") /\ ~ Sent("update")
  <2>1. Answered("update")
    BY <1>5, <1>6, Nowhere, CallsOfIs DEF Flow, Rows, Answered
  <2> QED
    BY <2>1 DEF Flow, Updates, Restarts, Pushes
<1>7. UNCHANGED <<state, busy, connection, running, errors, timers, calls>>
  BY <1>2
<1>8. Rows'
  BY <1>3, <1>4, <1>5, <1>6, <1>7 DEF Flow, Rows, Becomes
<1>9. Modes'
  BY <1>3, <1>4, <1>5, <1>6, <1>7 DEF Flow, Rows, Modes, Halted, Becomes, Queued, Names
<1>10. Updates'
  BY <1>3, <1>4, <1>5, <1>6, <1>7 DEF Flow, Modes, Updates, Becomes, Queued, Sent,
         Answered
<1>11. Pushes'
  BY <1>3, <1>4, <1>5, <1>6, <1>7 DEF Flow, Modes, Pushes, Becomes, Queued, TimerSet
<1>12. Restarts'
  BY <1>3, <1>4, <1>5, <1>6, <1>7 DEF Flow, Modes, Halted, Restarts, Becomes, Queued,
         TimerSet
<1>13. Reading'
  BY <1>3, <1>4, <1>5, <1>6, <1>7 DEF Flow, Modes, Reading, Becomes, Queued, TimerSet,
         Sent, Answered
<1> QED
  BY <1>8, <1>9, <1>10, <1>11, <1>12, <1>13 DEF Flow

LEMMA PushTimerFlow ==
  ASSUME Flow, NEW i \in 1..Len(timers), FireTimer(i), timers[i].kind = "push"
  PROVE  Flow'
<1>1. PICK e : e = [name |-> "wantToUpdate", revNum |-> timers[i].revNum]
  BY Zenon
<1>2. /\ queue' = Append(queue, e) /\ e.name = "wantToUpdate"
      /\ timers' = RemoveAt(timers, i)
      /\ UNCHANGED <<state, busy, connection, running, errors, calls, replies>>
  BY <1>1 DEF FireTimer, wire
<1>3. /\ Becomes(queue', queue, {}, {e}, TRUE)
      /\ queue' # <<>> /\ (queue # <<>> => Head(queue') = Head(queue))
  BY <1>2, QueuedMeans DEF Flow
<1>4. PICK timer : timer = timers[i]
  OBVIOUS
<1>5. Becomes(timers', timers, {timer}, {}, TRUE) /\ timer \in In(timers) /\ timer.kind = "push"
  BY <1>2, <1>4, BecomesRemoved DEF Flow, Rows
<1>6. TimerSet("push")
  BY <1>5, Nowhere DEF Flow, Rows, TimerSet
<1>7. ~ Queued("wantToUpdate") /\ ~ Queued("start") /\ state \in {"collecting", "becomeDisabled", "errorWait"}
  BY <1>6 DEF Flow, Pushes, Restarts
<1>8. e.name = "wantToUpdate" /\ UNCHANGED <<state, busy, connection, running, errors, calls, replies>>
  BY <1>2
<1>9. Rows'
  BY <1>3, <1>5, <1>7, <1>8 DEF Flow, Rows, Becomes
<1>10. Modes'
  BY <1>3, <1>5, <1>7, <1>8 DEF Flow, Rows, Modes, Halted, Becomes, Queued, Names
<1>11. Updates'
  BY <1>3, <1>5, <1>7, <1>8 DEF Flow, Modes, Updates, Becomes, Queued, Sent, Answered
<1>12. Pushes'
  BY <1>3, <1>5, <1>7, <1>8 DEF Flow, Modes, Pushes, Becomes, Queued, TimerSet
<1>13. Restarts'
  BY <1>3, <1>5, <1>7, <1>8 DEF Flow, Modes, Halted, Restarts, Becomes, Queued, TimerSet
<1>14. Reading'
  BY <1>3, <1>5, <1>7, <1>8 DEF Flow, Modes, Reading, Becomes, Queued, TimerSet, Sent,
         Answered
<1> QED
  BY <1>9, <1>10, <1>11, <1>12, <1>13, <1>14 DEF Flow

LEMMA RestartTimerFlow ==
  ASSUME Flow, NEW i \in 1..Len(timers), FireTimer(i), timers[i].kind = "restart"
  PROVE  Flow'
<1>4. PICK timer : timer = timers[i]
  OBVIOUS
<1>5. timer \in In(timers) /\ timer.kind = "restart" /\ timer.msec >= 1000 /\ timer.msec \in Nat
  BY <1>4 DEF In, Flow, Restarts
<1>6. TimerSet("restart")
  BY <1>5, Nowhere DEF Flow, Rows, TimerSet
<1>7. Halted /\ ~ Queued("start") /\ running /\ errors = 1 /\ busy # "starting"
  BY <1>6 DEF Flow, Modes, Halted, Restarts, Reading
<1>1. PICK e : e = Event("start")
  OBVIOUS
<1>2. /\ queue' = Append(queue, e) /\ e.name = "start"
      /\ timers' = RemoveAt(timers, i) /\ MayFire(i)
      /\ UNCHANGED <<state, busy, connection, running, errors, calls, replies>>
  BY <1>1, <1>7 DEF FireTimer, wire, Event
<1>3. /\ Becomes(queue', queue, {}, {e}, TRUE)
      /\ queue' # <<>> /\ (queue # <<>> => Head(queue') = Head(queue))
  BY <1>2, QueuedMeans DEF Flow
<1>8. Becomes(timers', timers, {timer}, {}, TRUE)
  BY <1>2, <1>4, BecomesRemoved DEF Flow, Rows
<1>9. ~ TimerSet("push")
  <2> SUFFICES ASSUME NEW j \in 1..Len(timers), timers[j].kind = "push" PROVE FALSE
    BY DEF TimerSet, None
  <2>1. j < i /\ i \in Nat /\ j \in Nat
    BY <1>4, <1>5 DEF Before, Flow, Restarts
  <2>2. timers[j] \in In(timers) /\ timers[j].msec = 1000
    BY DEF In, Flow, Restarts
  <2>3. j \in 1..(i - 1)
    BY <2>1
  <2>4. timers[j].msec > timer.msec
    BY <1>2, <1>4, <2>3 DEF MayFire
  <2> QED
    BY <1>5, <2>2, <2>4
<1>10. e.name = "start" /\ UNCHANGED <<state, busy, connection, running, errors, calls, replies>>
  BY <1>2
<1>11. Rows'
  BY <1>3, <1>5, <1>7, <1>8, <1>9, <1>10 DEF Flow, Rows, Becomes
<1>12. Modes'
  BY <1>3, <1>5, <1>7, <1>8, <1>9, <1>10 DEF Flow, Rows, Modes, Halted, Becomes,
         Queued, Names
<1>13. Updates'
  BY <1>3, <1>5, <1>7, <1>8, <1>9, <1>10 DEF Flow, Modes, Updates, Becomes, Queued,
         Sent, Answered
<1>14. Pushes'
  BY <1>3, <1>5, <1>7, <1>8, <1>9, <1>10 DEF Flow, Modes, Pushes, Becomes, Queued,
         TimerSet
<1>15. Restarts'
  BY <1>3, <1>5, <1>7, <1>8, <1>9, <1>10 DEF Flow, Modes, Halted, Restarts, Becomes,
         Queued, TimerSet
<1>16. Reading'
  BY <1>3, <1>5, <1>7, <1>8, <1>9, <1>10 DEF Flow, Modes, Reading, Becomes, Queued,
         TimerSet, Sent, Answered
<1> QED
  BY <1>11, <1>12, <1>13, <1>14, <1>15, <1>16 DEF Flow

LEMMA PullTimerFlow ==
  ASSUME Flow, NEW i \in 1..Len(timers), FireTimer(i), timers[i].kind = "pull"
  PROVE  Flow'
<1>1. PICK e : e = Event("wantInput")
  OBVIOUS
<1>2. /\ queue' = Append(queue, e) /\ e.name = "wantInput" /\ busy' = "nothing"
      /\ timers' = RemoveAt(timers, i)
      /\ UNCHANGED <<state, connection, running, errors, calls, replies>>
  BY <1>1 DEF FireTimer, wire, Event
<1>3. /\ Becomes(queue', queue, {}, {e}, TRUE)
      /\ queue' # <<>> /\ (queue # <<>> => Head(queue') = Head(queue))
  BY <1>2, QueuedMeans DEF Flow
<1>4. PICK timer : timer = timers[i]
  OBVIOUS
<1>5. Becomes(timers', timers, {timer}, {}, TRUE) /\ timer \in In(timers) /\ timer.kind = "pull"
  BY <1>2, <1>4, BecomesRemoved DEF Flow, Rows
<1>6. busy = "pausing"
  BY <1>5, Nowhere DEF Flow, Rows, TimerSet, Reading
<1>8. /\ e.name = "wantInput" /\ busy' = "nothing"
      /\ UNCHANGED <<state, connection, running, errors, calls, replies>>
  BY <1>2
<1>9. Rows'
  BY <1>3, <1>5, <1>6, <1>8 DEF Flow, Rows, Becomes
<1>10. Modes'
  BY <1>3, <1>5, <1>6, <1>8 DEF Flow, Rows, Modes, Halted, Becomes, Queued, Names
<1>11. Updates'
  BY <1>3, <1>5, <1>6, <1>8 DEF Flow, Modes, Updates, Becomes, Queued, Sent, Answered
<1>12. Pushes'
  BY <1>3, <1>5, <1>6, <1>8 DEF Flow, Modes, Pushes, Becomes, Queued, TimerSet
<1>13. Restarts'
  BY <1>3, <1>5, <1>6, <1>8 DEF Flow, Modes, Halted, Restarts, Becomes, Queued, TimerSet
<1>14. Reading'
  BY <1>3, <1>5, <1>6, <1>8 DEF Flow, Modes, Reading, Becomes, Queued, TimerSet, Sent,
         Answered
<1> QED
  BY <1>9, <1>10, <1>11, <1>12, <1>13, <1>14 DEF Flow

LEMMA FireTimerFlow ==
  ASSUME Flow, NEW i \in 1..Len(timers), FireTimer(i)
  PROVE  Flow'
<1>1. timers[i] \in In(timers)
  BY DEF In
<1>2. timers[i].kind \in {"push", "pull", "restart"}
  BY <1>1 DEF Flow, Restarts
<1> QED
  BY <1>2, PushTimerFlow, RestartTimerFlow, PullTimerFlow

LEMMA DisconnectFlow ==
  ASSUME Flow, Disconnect
  PROVE  Flow'
<1>1. PICK failed, e : failed = Cardinality(Awaited) + Len(replies) /\ e = Event("apiError")
  OBVIOUS
<1>2. /\ connection' = "closed" /\ calls' = LeftBehind /\ replies' = <<>>
      /\ queue' = queue \o Copies(e, failed) /\ e.name = "apiError"
      /\ busy' = IF busy = "starting" THEN "nothing" ELSE busy
      /\ UNCHANGED <<state, running, errors, timers>>
  BY <1>1 DEF Disconnect, Copies, Event
<1>3. /\ failed \in Nat
      /\ In(calls) = {} /\ In(CallsOf(replies)) = {} => failed = 0
  BY <1>1, AwaitedAre DEF Flow, Rows
<1>4. /\ IsRow(queue') /\ In(queue') \subseteq In(queue) \cup {e}
      /\ queue # <<>> => queue' # <<>> /\ Head(queue') = Head(queue)
      /\ failed = 0 => queue' = queue
      /\ \A f, x : None(queue', f, x) => None(queue, f, x)
      /\ \A f, x : None(queue, f, x) /\ e[f] # x => None(queue', f, x)
      /\ \A f, x : One(queue, f, x) /\ e[f] # x => One(queue', f, x)
      /\ \A f, x, y : Before(queue, f, x, y) /\ e[f] # x => Before(queue', f, x, y)
  <2>1. PICK p : p = queue \o Copies(e, failed)
    OBVIOUS
  <2>2. /\ IsRow(p) /\ In(p) \subseteq In(queue) \cup {e}
        /\ queue # <<>> => p # <<>> /\ Head(p) = Head(queue)
        /\ failed = 0 => p = queue
        /\ \A f, x : None(p, f, x) => None(queue, f, x)
        /\ \A f, x : None(queue, f, x) /\ e[f] # x => None(p, f, x)
        /\ \A f, x : One(queue, f, x) /\ e[f] # x => One(p, f, x)
        /\ \A f, x, y : Before(queue, f, x, y) /\ e[f] # x => Before(p, f, x, y)
    BY <1>3, <2>1, Followed DEF Flow, Rows
  <2> QED
    BY <1>2, <2>1, <2>2
<1>5. /\ IsRow(calls') /\ \A call \in In(calls') : call.method = "orphan"
      /\ In(calls) = {} => In(calls') = {}
  BY <1>2, LeftBehindAre DEF Flow, Rows
<1>6. /\ None(calls', "method", "update") /\ None(calls', "method", "getSnapshot")
      /\ \A m : None(calls', "method", m) => One(calls', "method", m)
  BY <1>5, Nowhere
<1>61. One(calls', "method", "update") /\ One(calls', "method", "getSnapshot")
  BY <1>6
<1>7. /\ IsRow(replies') /\ replies' = <<>> /\ In(CallsOf(replies)') = {}
      /\ ~ Answered("update")' /\ ~ Answered("getSnapshot")'
      /\ One(CallsOf(replies)', "method", "update")
      /\ One(CallsOf(replies)', "method", "getSnapshot")
  <2>1. CallsOf(replies)' = <<>>
    BY <1>2 DEF CallsOf
  <2> QED
    BY <1>2, <2>1, Empty DEF Answered
<1>8. ASSUME errors = 0, Queued("start")
      PROVE  queue' = queue /\ In(calls') = {}
  <2>1. /\ ~ Sent("getSnapshot") /\ ~ Answered("getSnapshot")
        /\ \A call \in In(calls) : call.method = "getSnapshot"
        /\ \A call \in In(CallsOf(replies)) : call.method = "getSnapshot"
    BY <1>8 DEF Flow, Restarts, Reading
  <2>2. IsRow(calls) /\ IsRow(CallsOf(replies))
    BY CallsOfIs DEF Flow, Rows
  <2>3. In(calls) = {} /\ In(CallsOf(replies)) = {}
    BY <2>1, <2>2, Nowhere DEF Sent, Answered
  <2> QED
    BY <1>3, <1>4, <1>5, <2>3
<1>9. /\ connection' = "closed" /\ e.name = "apiError"
      /\ busy' = IF busy = "starting" THEN "nothing" ELSE busy
      /\ UNCHANGED <<state, running, errors, timers>>
  BY <1>2
<1>10. Rows'
  BY <1>4, <1>5, <1>6, <1>61, <1>7, <1>8, <1>9 DEF Flow, Rows, Becomes
<1>11. Modes'
  BY <1>4, <1>5, <1>6, <1>61, <1>7, <1>8, <1>9 DEF Flow, Rows, Modes, Halted, Becomes,
         Queued, Names
<1>12. Updates'
  BY <1>4, <1>5, <1>6, <1>61, <1>7, <1>8, <1>9 DEF Flow, Modes, Updates, Becomes,
         Queued, Sent, Answered
<1>13. Pushes'
  BY <1>4, <1>5, <1>6, <1>61, <1>7, <1>8, <1>9 DEF Flow, Modes, Pushes, Becomes,
         Queued, TimerSet
<1>14. Restarts'
  BY <1>4, <1>5, <1>6, <1>61, <1>7, <1>8, <1>9 DEF Flow, Modes, Halted, Restarts,
         Becomes, Queued, TimerSet
<1>15. Reading'
  BY <1>4, <1>5, <1>6, <1>61, <1>7, <1>8, <1>9 DEF Flow, Modes, Reading, Becomes,
         Queued, TimerSet, Sent, Answered
<1> QED
  BY <1>10, <1>11, <1>12, <1>13, <1>14, <1>15 DEF Flow

LEMMA ConnectionFlow ==
  ASSUME Flow, AnnounceClose \/ Close
  PROVE  Flow'
<1>1. /\ UNCHANGED <<state, busy, running, errors, timers, queue, calls, replies>>
      /\ \/ connection = "open" /\ busy # "starting" /\ connection' = "closing"
         \/ connection = "closing" /\ connection' = "closed" /\ Awaited = {} /\ replies = <<>>
  BY DEF AnnounceClose, Close, machine
<1>2. Awaited = {} => \A call \in In(calls) : call.method = "orphan"
  <2>1. DOMAIN calls = 1..Len(calls)
    BY DEF Flow, Rows, IsRow
  <2> QED
    BY <2>1 DEF In, Awaited
<1>3. Rows'
  BY <1>1, <1>2 DEF Flow, Rows, Becomes
<1>4. Modes'
  BY <1>1, <1>2 DEF Flow, Rows, Modes, Halted, Becomes, Queued, Names
<1>5. Updates'
  BY <1>1, <1>2 DEF Flow, Modes, Updates, Becomes, Queued, Sent, Answered
<1>6. Pushes'
  BY <1>1, <1>2 DEF Flow, Modes, Pushes, Becomes, Queued, TimerSet
<1>7. Restarts'
  BY <1>1, <1>2 DEF Flow, Modes, Halted, Restarts, Becomes, Queued, TimerSet
<1>8. Reading'
  BY <1>1, <1>2 DEF Flow, Modes, Reading, Becomes, Queued, TimerSet, Sent, Answered
<1> QED
  BY <1>3, <1>4, <1>5, <1>6, <1>7, <1>8 DEF Flow

LEMMA StillFlow ==
  ASSUME Flow, UNCHANGED <<state, busy, connection, running, errors, timers, queue, calls, replies>>
  PROVE  Flow'
<1>1. CallsOf(replies)' = CallsOf(replies)
  BY DEF CallsOf
<1>2. Rows'
  BY <1>1 DEF Flow, Rows, Becomes
<1>3. Modes'
  BY <1>1 DEF Flow, Rows, Modes, Halted, Becomes, Queued, Names
<1>4. Updates'
  BY <1>1 DEF Flow, Modes, Updates, Becomes, Queued, Sent, Answered
<1>5. Pushes'
  BY <1>1 DEF Flow, Modes, Pushes, Becomes, Queued, TimerSet
<1>6. Restarts'
  BY <1>1 DEF Flow, Modes, Halted, Restarts, Becomes, Queued, TimerSet
<1>7. Reading'
  BY <1>1 DEF Flow, Modes, Reading, Becomes, Queued, TimerSet, Sent, Answered
<1> QED
  BY <1>2, <1>3, <1>4, <1>5, <1>6, <1>7 DEF Flow

-----------------------------------------------------------------------------
(* The texts: what is on its way fits what it will meet *)

\* A delta for this text, on whose result the events lead to the end.
OnTheWay(text, events, end, d) ==
  /\ d \in BodyDeltas /\ d.len <= Len(text)
  /\ Leads(ComposeBody(text, d), events, end)

\* The answer to an update d of this text: it takes the result to a revision.
Settles(log, text, d, change) ==
  /\ change.revNum \in 1..Len(log)
  /\ change.delta \in BodyDeltas /\ change.delta.len <= Len(ComposeBody(text, d))
  /\ ComposeBody(ComposeBody(text, d), change.delta) = log[change.revNum]

IsRevision(log, s) == s \in [revNum : Nat, text : Text] /\ s.revNum \in 1..Len(log)
                        /\ s.text = log[s.revNum]

CallOk(call, log, snap, events, end) ==
  /\ call.method \in {"getSnapshot", "getChangeAfter", "update", "orphan"}
  /\ call.method # "getSnapshot" => call.revNum \in 1..Len(log)
  /\ call.method \in {"update", "orphan"} => Suits(log, call.revNum, call.delta)
  /\ call.method = "update" => /\ call.revNum = snap.revNum
                               /\ OnTheWay(snap.text, events, end, call.delta)

AnswerOk(answer, log, snap, events, end) ==
  /\ Paired(answer)
  /\ answer.event.name = "gotSnapshot" => IsRevision(log, answer.event.snapshot)
  /\ answer.event.name = "gotChangeAfter" =>
       ChangeTrue(log, answer.event.revNum, answer.event.change)
  /\ answer.call.method = "update" => OnTheWay(snap.text, events, end, answer.call.delta)
  /\ answer.event.name = "gotUpdate" =>
       /\ answer.event.delta = answer.call.delta
       /\ Settles(log, snap.text, answer.event.delta, answer.event.change)

EventOk(e, log, snap, events, end) ==
  /\ e.name = "gotChangeAfter" => ChangeTrue(log, e.revNum, e.change)
  /\ e.name = "gotUpdate" => /\ OnTheWay(snap.text, events, end, e.delta)
                             /\ Settles(log, snap.text, e.delta, e.change)

Live == state \in {"becomeEnabled", "idle", "collecting", "merging"}

\* The snapshot is a revision, and what the events of the chain do to it, or to
\* it and the update in flight, is what the editor shows.
Document ==
  /\ snapshot \in [revNum : Nat, text : Text]
  /\ chain \in Row(ChainEvents) /\ editor \in Text
  /\ snapshot = NoSnapshot \/ IsRevision(texts, snapshot)
  /\ Live => IsRevision(texts, snapshot) /\ One(chain, "source", "client")
  /\ state \in {"becomeEnabled", "idle", "collecting"} =>
       Leads(snapshot.text, chain, editor)
  /\ state = "collecting" => chain # <<>> /\ Head(chain).source = "user"
  /\ state = "merging" => None(chain, "source", "client")

Messages ==
  /\ \A call \in In(calls) : CallOk(call, texts, snapshot, chain, editor)
  /\ \A answer \in In(replies) : AnswerOk(answer, texts, snapshot, chain, editor)
  /\ \A e \in In(queue) : EventOk(e, texts, snapshot, chain, editor)

\* As the log grows, and as the user types on, what is on its way stays right.
LEMMA SettlesOn ==
  ASSUME NEW log, NEW more, Grows(log, more)
  PROVE  /\ \A text, d, change : Settles(log, text, d, change) => Settles(more, text, d, change)
         /\ \A s : IsRevision(log, s) => IsRevision(more, s)
         /\ 1..Len(log) \subseteq 1..Len(more)
<1>1. /\ \A r \in 1..Len(log) : r \in 1..Len(more) /\ more[r] = log[r]
  BY LogGrows
<1> QED
  BY <1>1 DEF Settles, IsRevision

LEMMA MessageStays ==
  ASSUME NEW log, NEW more, Grows(log, more),
         NEW snap, NEW events, NEW end, NEW events2, NEW end2,
         \A d : OnTheWay(snap.text, events, end, d) => OnTheWay(snap.text, events2, end2, d)
  PROVE  /\ \A call : CallOk(call, log, snap, events, end) =>
                        CallOk(call, more, snap, events2, end2)
         /\ \A answer : AnswerOk(answer, log, snap, events, end) =>
                          AnswerOk(answer, more, snap, events2, end2)
         /\ \A e : EventOk(e, log, snap, events, end) => EventOk(e, more, snap, events2, end2)
<1>1. /\ \A from, change : ChangeTrue(log, from, change) => ChangeTrue(more, from, change)
      /\ \A revNum, delta : Suits(log, revNum, delta) => Suits(more, revNum, delta)
      /\ \A text, d, change : Settles(log, text, d, change) => Settles(more, text, d, change)
      /\ \A s : IsRevision(log, s) => IsRevision(more, s)
      /\ 1..Len(log) \subseteq 1..Len(more)
  BY LogGrows, SettlesOn
<1>2. ASSUME NEW call, CallOk(call, log, snap, events, end)
      PROVE  CallOk(call, more, snap, events2, end2)
  BY <1>1, <1>2 DEF CallOk
<1>3. ASSUME NEW answer, AnswerOk(answer, log, snap, events, end)
      PROVE  AnswerOk(answer, more, snap, events2, end2)
  BY <1>1, <1>3 DEF AnswerOk
<1>4. ASSUME NEW e, EventOk(e, log, snap, events, end)
      PROVE  EventOk(e, more, snap, events2, end2)
  BY <1>1, <1>4 DEF EventOk
<1> QED
  BY <1>2, <1>3, <1>4

\* What is not about an update does not depend on the document.
LEMMA MessageIsFree ==
  ASSUME NEW log, NEW snap, NEW events, NEW end, NEW snap2, NEW events2, NEW end2
  PROVE  /\ \A call : CallOk(call, log, snap, events, end) /\ call.method # "update" =>
                        CallOk(call, log, snap2, events2, end2)
         /\ \A answer : AnswerOk(answer, log, snap, events, end) /\ answer.call.method # "update" =>
                          AnswerOk(answer, log, snap2, events2, end2)
         /\ \A e : EventOk(e, log, snap, events, end) /\ e.name # "gotUpdate" =>
                     EventOk(e, log, snap2, events2, end2)
<1>1. ASSUME NEW call, CallOk(call, log, snap, events, end), call.method # "update"
      PROVE  CallOk(call, log, snap2, events2, end2)
  BY <1>1 DEF CallOk
<1>2. ASSUME NEW answer, AnswerOk(answer, log, snap, events, end), answer.call.method # "update"
      PROVE  AnswerOk(answer, log, snap2, events2, end2)
  BY <1>2 DEF AnswerOk, Paired
<1>3. ASSUME NEW e, EventOk(e, log, snap, events, end), e.name # "gotUpdate"
      PROVE  EventOk(e, log, snap2, events2, end2)
  BY <1>3 DEF EventOk
<1> QED
  BY <1>1, <1>2, <1>3

\* The messages stay right when those that are new are, and when the others are
\* about what is still so, or not about an update.
LEMMA MessagesKept ==
  ASSUME Messages, Grows(texts, texts'), snapshot' = snapshot,
         \A d : OnTheWay(snapshot.text, chain, editor, d) =>
                  OnTheWay(snapshot.text, chain', editor', d),
         \A call \in In(calls') :
           call \in In(calls) \/ CallOk(call, texts', snapshot', chain', editor'),
         \A answer \in In(replies') :
           answer \in In(replies) \/ AnswerOk(answer, texts', snapshot', chain', editor'),
         \A e \in In(queue') :
           e \in In(queue) \/ EventOk(e, texts', snapshot', chain', editor')
  PROVE  Messages'
<1>1. /\ \A call : CallOk(call, texts, snapshot, chain, editor) =>
                     CallOk(call, texts', snapshot, chain', editor')
      /\ \A answer : AnswerOk(answer, texts, snapshot, chain, editor) =>
                       AnswerOk(answer, texts', snapshot, chain', editor')
      /\ \A e : EventOk(e, texts, snapshot, chain, editor) =>
                  EventOk(e, texts', snapshot, chain', editor')
  BY MessageStays
<1>2. \A call \in In(calls') : CallOk(call, texts', snapshot', chain', editor')
  BY <1>1 DEF Messages
<1>3. \A answer \in In(replies') : AnswerOk(answer, texts', snapshot', chain', editor')
  BY <1>1 DEF Messages
<1>4. \A e \in In(queue') : EventOk(e, texts', snapshot', chain', editor')
  BY <1>1 DEF Messages
<1> QED
  BY <1>2, <1>3, <1>4 DEF Messages

LEMMA MessagesAnew ==
  ASSUME Messages, texts' = texts,
         \A call \in In(calls') :
           \/ call \in In(calls) /\ call.method # "update"
           \/ CallOk(call, texts, snapshot', chain', editor'),
         \A answer \in In(replies') :
           answer \in In(replies) /\ answer.call.method # "update",
         \A e \in In(queue') :
           \/ e \in In(queue) /\ e.name # "gotUpdate"
           \/ EventOk(e, texts, snapshot', chain', editor')
  PROVE  Messages'
<1>1. /\ \A call : CallOk(call, texts, snapshot, chain, editor) /\ call.method # "update" =>
                     CallOk(call, texts, snapshot', chain', editor')
      /\ \A answer : AnswerOk(answer, texts, snapshot, chain, editor)
                       /\ answer.call.method # "update" =>
                       AnswerOk(answer, texts, snapshot', chain', editor')
      /\ \A e : EventOk(e, texts, snapshot, chain, editor) /\ e.name # "gotUpdate" =>
                  EventOk(e, texts, snapshot', chain', editor')
  BY MessageIsFree
<1>2. \A call \in In(calls') : CallOk(call, texts', snapshot', chain', editor')
  BY <1>1 DEF Messages
<1>3. \A answer \in In(replies') : AnswerOk(answer, texts', snapshot', chain', editor')
  BY <1>1 DEF Messages
<1>4. \A e \in In(queue') : EventOk(e, texts', snapshot', chain', editor')
  BY <1>1 DEF Messages
<1> QED
  BY <1>2, <1>3, <1>4 DEF Messages

\* An event that is about neither a change nor an update is always right.
LEMMA PlainEvent ==
  ASSUME NEW e, e.name \notin {"gotChangeAfter", "gotUpdate"},
         NEW log, NEW snap, NEW events, NEW end
  PROVE  EventOk(e, log, snap, events, end)
  BY DEF EventOk

LEMMA DocumentKept ==
  ASSUME Document, Grows(texts, texts'), UNCHANGED <<snapshot, chain, editor>>,
         \/ state' = state
         \/ state = "becomeEnabled" /\ state' = "idle"
         \/ state' \in {"detached", "becomeDisabled", "errorWait"}
  PROVE  Document'
<1>1. \A s : IsRevision(texts, s) => IsRevision(texts', s)
  BY SettlesOn
<1>2. /\ snapshot' \in [revNum : Nat, text : Text]
      /\ chain' \in Row(ChainEvents) /\ editor' \in Text
  BY DEF Document
<1>3. snapshot' = NoSnapshot \/ IsRevision(texts', snapshot')
  BY <1>1 DEF Document
<1>4. Live' => Live
  BY DEF Live
<1>5. Live' => IsRevision(texts', snapshot') /\ One(chain', "source", "client")
  BY <1>1, <1>4 DEF Document
<1>6. state' \in {"becomeEnabled", "idle", "collecting"} =>
        Leads(snapshot'.text, chain', editor')
  BY DEF Document
<1>7. /\ state' = "collecting" => chain' # <<>> /\ Head(chain').source = "user"
      /\ state' = "merging" => None(chain', "source", "client")
  BY DEF Document
<1> QED
  BY <1>2, <1>3, <1>5, <1>6, <1>7 DEF Document

LEMMA SameLog ==
  ASSUME ServerTrue, texts' = texts
  PROVE  Grows(texts, texts')
  BY RevisionIs DEF Grows, ServerTrue

Data == ServerTrue /\ Document /\ Messages

\* A step of the machine or of the world that leaves the document and the log
\* as they are.
LEMMA DataKept ==
  ASSUME Data, UNCHANGED <<changes, texts, snapshot, chain, editor>>,
         \/ state' = state
         \/ state = "becomeEnabled" /\ state' = "idle"
         \/ state' \in {"detached", "becomeDisabled", "errorWait"},
         \A call \in In(calls') :
           call \in In(calls) \/ CallOk(call, texts, snapshot, chain, editor),
         \A answer \in In(replies') :
           answer \in In(replies) \/ AnswerOk(answer, texts, snapshot, chain, editor),
         \A e \in In(queue') :
           e \in In(queue) \/ EventOk(e, texts, snapshot, chain, editor)
  PROVE  Data'
<1>1. Grows(texts, texts') /\ ServerTrue'
  BY SameLog DEF Data, ServerTrue
<1>2. Document'
  BY <1>1, DocumentKept DEF Data
<1>3. Messages'
  <2>1. \A d : OnTheWay(snapshot.text, chain, editor, d) =>
                 OnTheWay(snapshot.text, chain', editor', d)
    OBVIOUS
  <2> QED
    BY <1>1, <2>1, MessagesKept DEF Data
<1> QED
  BY <1>1, <1>2, <1>3 DEF Data

Plain(e) == e.name \notin {"gotChangeAfter", "gotUpdate"}

\* A handler that leaves the document as it is.
LEMMA HandlerData ==
  ASSUME Data, Rows, queue # <<>>,
         UNCHANGED <<changes, texts, snapshot, chain, editor, replies>>,
         \/ state' = state
         \/ state = "becomeEnabled" /\ state' = "idle"
         \/ state' \in {"detached", "becomeDisabled", "errorWait"},
         Handled \/ (\E e : Plain(e) /\ Enqueue(e)) \/ (\E e : Plain(e) /\ Push(e)),
         \A call \in In(calls') :
           call \in In(calls) \/ CallOk(call, texts, snapshot, chain, editor)
  PROVE  Data'
<1>1. \/ Becomes(queue', queue, {Head(queue)}, {}, TRUE)
      \/ \E e, last : Plain(e) /\ Becomes(queue', queue, {Head(queue)}, {e}, last)
  <2>1. CASE Handled
    BY <2>1, HandledMeans
  <2>2. CASE \E e : Plain(e) /\ Enqueue(e)
    BY <2>2, HandledMeans
  <2>3. CASE \E e : Plain(e) /\ Push(e)
    <3>1. PICK e : Plain(e) /\ queue' = <<e>> \o Tail(queue)
      BY <2>3 DEF Push
    <3>2. IsRow(queue)
      BY DEF Rows
    <3>3. Becomes(<<e>> \o Tail(queue), queue, {Head(queue)}, {e}, FALSE)
      BY <3>2, BecomesPushed
    <3> QED
      BY <3>1, <3>3
  <2> QED
    BY <2>1, <2>2, <2>3
<1>2. \A e \in In(queue') : e \in In(queue) \/ Plain(e)
  BY <1>1 DEF Becomes
<1>3. \A e \in In(queue') : e \in In(queue) \/ EventOk(e, texts, snapshot, chain, editor)
  BY <1>2, PlainEvent DEF Plain
<1> QED
  BY <1>3, DataKept

LEMMA PlainEvents ==
  /\ \A name : name \notin {"gotChangeAfter", "gotUpdate"} => Plain(Event(name))
  /\ Plain([name |-> "nextState", next |-> "errorWait"])
  BY DEF Plain, Event

LEMMA StartDetachedData ==
  ASSUME Data, Rows, StartDetached
  PROVE  Data'
<1>1. /\ queue # <<>>
      /\ UNCHANGED <<changes, texts, state, snapshot, chain, editor, replies>>
      /\ Handled \/ Enqueue(Event("apiError"))
      /\ calls' = calls \/ calls' = Append(calls, [method |-> "getSnapshot"])
  BY DEF StartDetached, HandledIn, Handling, server, document
<1>2. Handled \/ \E e : Plain(e) /\ Enqueue(e)
  BY <1>1, PlainEvents
<1>3. PICK call : call = [method |-> "getSnapshot"]
  BY Zenon
<1>4. CallOk(call, texts, snapshot, chain, editor)
  BY <1>3 DEF CallOk
<1>5. In(Append(calls, call)) = In(calls) \cup {call}
  BY Appended DEF Rows
<1>6. \A c \in In(calls') : c \in In(calls) \/ CallOk(c, texts, snapshot, chain, editor)
  BY <1>1, <1>3, <1>4, <1>5
<1> QED
  BY <1>1, <1>2, <1>6, HandlerData

LEMMA StartEnabledData ==
  ASSUME Data, Rows, StartEnabled
  PROVE  Data'
<1>1. /\ queue # <<>> /\ state = "becomeEnabled" /\ state' \in {"idle", "detached"}
      /\ UNCHANGED <<changes, texts, snapshot, chain, editor, calls, replies>>
      /\ Handled \/ Enqueue(Event("wantInput"))
  BY DEF StartEnabled, HandledIn, Handling, BecomeIdle, server, document, wire
<1>2. Handled \/ \E e : Plain(e) /\ Enqueue(e)
  BY <1>1, PlainEvents
<1> QED
  BY <1>1, <1>2, HandlerData

LEMMA NextStateData ==
  ASSUME Data, Flow, NextState
  PROVE  Data'
<1>1. /\ queue # <<>> /\ Head(queue).name = "nextState" /\ state' = Head(queue).next /\ Handled
      /\ UNCHANGED <<changes, texts, snapshot, chain, editor, calls, replies>>
  BY DEF NextState, HandledIn, Handling, server, document, wire
<1>2. state' = "errorWait" /\ Rows
  BY <1>1, HandledMeans DEF Flow, Modes
<1> QED
  BY <1>1, <1>2, HandlerData

LEMMA ApiErrorData ==
  ASSUME Data, Flow, ApiError, errors' <= 1
  PROVE  Data'
<1>1. /\ queue # <<>> /\ Rows
      /\ UNCHANGED <<changes, texts, snapshot, chain, editor, calls, replies>>
      /\ \/ Handled /\ UNCHANGED state
         \/ /\ errors' = errors + 1
            /\ \/ errors + 1 > ErrorsTolerated
               \/ /\ state' = "becomeDisabled"
                  /\ Push([name |-> "nextState", next |-> "errorWait"])
  BY DEF ApiError, Handling, BecomeDisabled, server, document, wire, Flow
<1>2. errors \in {0, 1} /\ (errors' = errors + 1 => ~ (errors + 1 > ErrorsTolerated))
  BY ErrorsAssumption DEF Flow, Modes
<1>3. \/ Handled /\ UNCHANGED state
      \/ state' = "becomeDisabled" /\ Push([name |-> "nextState", next |-> "errorWait"])
  BY <1>1, <1>2
<1>4. Handled \/ \E e : Plain(e) /\ Push(e)
  BY <1>3, PlainEvents
<1> QED
  BY <1>1, <1>3, <1>4, HandlerData

LEMMA WantInputData ==
  ASSUME Data, Rows, WantInput
  PROVE  Data'
<1>1. /\ queue # <<>> /\ state = "idle"
      /\ UNCHANGED <<changes, texts, state, snapshot, chain, editor, replies>>
      /\ \/ Handled /\ UNCHANGED calls
         \/ Call([method |-> "getChangeAfter", revNum |-> snapshot.revNum], Tail(queue))
  BY DEF WantInput, HandledIn, Handling, server
<1>2. PICK call : call = [method |-> "getChangeAfter", revNum |-> snapshot.revNum]
  BY Zenon
<1>3. /\ Handled \/ Enqueue(Event("apiError"))
      /\ calls' = calls \/ calls' = Append(calls, call)
  BY <1>1, <1>2 DEF Call, Handled, Enqueue
<1>4. Handled \/ \E e : Plain(e) /\ Enqueue(e)
  BY <1>3, PlainEvents
<1>5. IsRevision(texts, snapshot)
  BY <1>1 DEF Data, Document, Live
<1>6. CallOk(call, texts, snapshot, chain, editor)
  BY <1>2, <1>5 DEF CallOk, IsRevision
<1>7. In(Append(calls, call)) = In(calls) \cup {call}
  BY Appended DEF Rows
<1>8. \A c \in In(calls') : c \in In(calls) \/ CallOk(c, texts, snapshot, chain, editor)
  BY <1>3, <1>6, <1>7
<1> QED
  BY <1>1, <1>4, <1>8, HandlerData

LEMMA WantInputAfterDelayData ==
  ASSUME Data, Rows, WantInputAfterDelay
  PROVE  Data'
<1>1. /\ queue # <<>> /\ Handled
      /\ UNCHANGED <<changes, texts, state, snapshot, chain, editor, calls, replies>>
  BY DEF WantInputAfterDelay, HandledIn, Handling, server, document, wire
<1> QED
  BY <1>1, HandlerData

LEMMA IgnoreData ==
  ASSUME Data, Rows, Ignore
  PROVE  Data'
<1>1. /\ queue # <<>> /\ Handled
      /\ UNCHANGED <<changes, texts, state, snapshot, chain, editor, calls, replies>>
  BY DEF Ignore, Handling, server, document, wire
<1> QED
  BY <1>1, HandlerData

\* What the world does that leaves the document and the log as they are.
LEMMA NoticeQuillEventData ==
  ASSUME Data, Rows, NoticeQuillEvent
  PROVE  Data'
<1>1. PICK e : e = [name |-> "gotQuillEvent", revNum |-> Head(awaits).revNum]
  BY Zenon
<1>2. /\ queue' = Append(queue, e) /\ Plain(e)
      /\ UNCHANGED <<changes, texts, state, snapshot, chain, editor, calls, replies>>
  BY <1>1 DEF NoticeQuillEvent, server, wire, Plain
<1>3. \A ev \in In(queue') : ev \in In(queue) \/ Plain(ev)
  BY <1>2, QueuedMeans DEF Becomes
<1>4. \A ev \in In(queue') : ev \in In(queue) \/ EventOk(ev, texts, snapshot, chain, editor)
  BY <1>3, PlainEvent DEF Plain
<1> QED
  BY <1>2, <1>4, DataKept

LEMMA FireTimerData ==
  ASSUME Data, Rows, NEW i \in 1..Len(timers), FireTimer(i)
  PROVE  Data'
<1>1. PICK push : push = [name |-> "wantToUpdate", revNum |-> timers[i].revNum]
  BY Zenon
<1>2. /\ UNCHANGED <<changes, texts, state, snapshot, chain, editor, calls, replies>>
      /\ \/ queue' = Append(queue, push) \/ queue' = queue
         \/ queue' = Append(queue, Event("start")) \/ queue' = Append(queue, Event("stop"))
         \/ queue' = Append(queue, Event("wantInput"))
  BY <1>1 DEF FireTimer, server, wire, document
<1>3. Plain(push)
  BY <1>1 DEF Plain
<1>4. queue' = queue \/ \E e : Plain(e) /\ queue' = Append(queue, e)
  BY <1>2, <1>3, PlainEvents
<1>5. \A e \in In(queue') : e \in In(queue) \/ Plain(e)
  BY <1>4, QueuedMeans DEF Becomes
<1>6. \A e \in In(queue') : e \in In(queue) \/ EventOk(e, texts, snapshot, chain, editor)
  BY <1>5, PlainEvent DEF Plain
<1> QED
  BY <1>2, <1>6, DataKept

LEMMA GotAnswerData ==
  ASSUME Data, Rows, Receive, Head(replies).event.name # "gotSnapshot"
  PROVE  Data'
<1>1. PICK a, e : a = Head(replies) /\ e = Head(replies).event
  OBVIOUS
<1>2. /\ queue' = Append(queue, e)
      /\ UNCHANGED <<changes, texts, state, snapshot, chain, editor, calls>>
  BY <1>1 DEF Receive, server, document
<1>3. a \in In(replies) /\ In(replies') \subseteq In(replies)
  BY <1>1, ReceiveMeans
<1>4. AnswerOk(a, texts, snapshot, chain, editor)
  BY <1>3 DEF Data, Messages
<1>5. EventOk(e, texts, snapshot, chain, editor)
  BY <1>1, <1>4 DEF AnswerOk, EventOk, Paired
<1>6. \A ev \in In(queue') : ev \in In(queue) \/ ev = e
  BY <1>2, QueuedMeans DEF Becomes
<1> QED
  BY <1>2, <1>3, <1>5, <1>6, DataKept

LEMMA ConnectionData ==
  ASSUME Data, AnnounceClose \/ Close
  PROVE  Data'
<1>1. UNCHANGED <<changes, texts, state, snapshot, chain, editor, calls, replies, queue>>
  BY DEF AnnounceClose, Close, server, document, machine
<1> QED
  BY <1>1, DataKept

LEMMA DisconnectData ==
  ASSUME Data, Rows, Disconnect
  PROVE  Data'
<1>1. PICK failed, e : failed = Cardinality(Awaited) + Len(replies) /\ e = Event("apiError")
  OBVIOUS
<1>2. /\ calls' = LeftBehind /\ replies' = <<>>
      /\ queue' = queue \o Copies(e, failed)
      /\ UNCHANGED <<changes, texts, state, snapshot, chain, editor>>
  BY <1>1 DEF Disconnect, Copies, Event, server, document
<1>3. failed \in Nat /\ Plain(e)
  BY <1>1, AwaitedAre, PlainEvents DEF Rows
<1>4. In(queue') \subseteq In(queue) \cup {e}
  <2>1. In(queue \o Copies(e, failed)) \subseteq In(queue) \cup {e}
    BY <1>3, Followed DEF Rows
  <2> QED
    BY <1>2, <2>1
<1>5. \A ev \in In(queue') : ev \in In(queue) \/ EventOk(ev, texts, snapshot, chain, editor)
  BY <1>3, <1>4, PlainEvent DEF Plain
<1>6. ASSUME NEW call \in In(calls') PROVE CallOk(call, texts, snapshot, chain, editor)
  <2>1. PICK c \in In(calls) : /\ c.method \in {"update", "orphan"}
                               /\ call.method = "orphan"
                               /\ call.revNum = c.revNum /\ call.delta = c.delta
    BY <1>2, <1>6, LeftBehindAre DEF Rows
  <2>2. CallOk(c, texts, snapshot, chain, editor)
    BY DEF Data, Messages
  <2> QED
    BY <2>1, <2>2 DEF CallOk
<1>7. In(replies') = {}
  BY <1>2, Empty
<1> QED
  BY <1>2, <1>5, <1>6, <1>7, DataKept

\* Answers that leave the log as it is.
LEMMA AnswerData ==
  ASSUME Data, Rows, NEW i \in 1..Len(calls), NEW event, Answer(i, event),
         UNCHANGED <<changes, texts, state, snapshot, chain, editor, queue>>,
         AnswerOk([call |-> calls[i], event |-> event], texts, snapshot, chain, editor)
  PROVE  Data'
<1>1. PICK a : a = [call |-> calls[i], event |-> event]
  BY Zenon
<1>2. /\ In(calls') \subseteq In(calls)
      /\ In(replies') = In(replies) \cup {a}
  BY <1>1, AnswerMeans DEF Becomes
<1>3. \A answer \in In(replies') :
        answer \in In(replies) \/ AnswerOk(answer, texts, snapshot, chain, editor)
  BY <1>1, <1>2
<1> QED
  BY <1>2, <1>3, DataKept

LEMMA TheCall ==
  ASSUME Data, NEW i \in 1..Len(calls)
  PROVE  CallOk(calls[i], texts, snapshot, chain, editor)
  BY DEF Data, Messages, In

LEMMA ServeReadData ==
  ASSUME Data, Rows, NEW i \in 1..Len(calls), ServeRead(i)
  PROVE  Data'
<1>1. UNCHANGED <<changes, texts, state, snapshot, chain, editor, queue>>
  BY DEF ServeRead, server, machine, document
<1>2. /\ LastRev \in Nat /\ LastRev \in 1..Len(texts) /\ texts[LastRev] \in Text
  BY RevisionIs DEF Data
<1>3. CASE calls[i].method = "getSnapshot"
  <2>1. PICK event : event = [name |-> "gotSnapshot",
                              snapshot |-> [revNum |-> LastRev, text |-> texts[LastRev]]]
    BY Zenon
  <2>2. Answer(i, event)
    BY <1>3, <2>1 DEF ServeRead
  <2>3. IsRevision(texts, event.snapshot)
    BY <1>2, <2>1 DEF IsRevision
  <2>4. PICK call : call = calls[i] /\ call.method = "getSnapshot"
    BY <1>3
  <2>5. AnswerOk([call |-> call, event |-> event], texts, snapshot, chain, editor)
    BY <2>1, <2>3, <2>4 DEF AnswerOk, Paired
  <2> QED
    BY <1>1, <2>2, <2>4, <2>5, AnswerData
<1>4. CASE calls[i].method = "getChangeAfter"
  <2>1. PICK call : call = calls[i] /\ call.method = "getChangeAfter"
    BY <1>4
  <2>2. call.revNum \in 1..LastRev
    BY <1>2, <2>1, TheCall, RevisionIs DEF CallOk, Data
  <2>3. PICK event : event = [name |-> "gotChangeAfter", revNum |-> call.revNum,
                              change |-> [revNum |-> LastRev,
                                          delta |-> DeltaAfter(call.revNum)]]
    OBVIOUS
  <2>4. Answer(i, event)
    BY <1>4, <2>1, <2>3 DEF ServeRead
  <2>5. /\ DeltaAfter(call.revNum) \in BodyDeltas
        /\ DeltaAfter(call.revNum).len <= Len(texts[call.revNum])
        /\ ComposeBody(texts[call.revNum], DeltaAfter(call.revNum)) = texts[LastRev]
    BY <2>2, DeltaAfterIs DEF Data
  <2>6. ChangeTrue(texts, event.revNum, event.change)
    BY <1>2, <2>2, <2>3, <2>5, RevisionIs DEF ChangeTrue, Data
  <2>7. AnswerOk([call |-> call, event |-> event], texts, snapshot, chain, editor)
    BY <2>1, <2>3, <2>6 DEF AnswerOk, Paired
  <2> QED
    BY <1>1, <2>1, <2>4, <2>7, AnswerData
<1> QED
  BY <1>3, <1>4 DEF ServeRead

LEMMA ChangeAfterTimesOutData ==
  ASSUME Data, Rows, NEW i \in 1..Len(calls), ChangeAfterTimesOut(i)
  PROVE  Data'
<1>1. PICK call, event : call = calls[i] /\ event = Event("wantInput")
  OBVIOUS
<1>2. /\ Answer(i, event) /\ call.method = "getChangeAfter"
      /\ UNCHANGED <<changes, texts, state, snapshot, chain, editor, queue>>
  BY <1>1 DEF ChangeAfterTimesOut, server, machine, document
<1>3. AnswerOk([call |-> call, event |-> event], texts, snapshot, chain, editor)
  BY <1>1, <1>2 DEF AnswerOk, Paired, Event
<1> QED
  BY <1>1, <1>2, <1>3, AnswerData

-----------------------------------------------------------------------------
(* The log grows under what is on its way *)

\* The users, of this client and of others, edit the text that they see.
EditsFit ==
  /\ BootText \in Text /\ Placeholder \in Text
  /\ \A text \in Text :
       \A d \in UserEdits(text) \cup OthersEdits(text) :
         d \in BodyDeltas /\ d.len <= Len(text)

\* An update that has become empty on the way changed nothing.
NoneVanishes ==
  \A i \in DOMAIN calls :
    calls[i].method = "update" /\ Rebased(calls[i]) = EmptyBodyDelta =>
      ComposeBody(texts[calls[i].revNum], calls[i].delta) = texts[LastRev]

LEMMA AppendGrows ==
  ASSUME ServerTrue, NEW delta \in BodyDeltas, delta.len <= Len(texts[LastRev]),
         AppendChange(delta)
  PROVE  /\ ServerTrue' /\ Grows(texts, texts')
         /\ LastRev + 1 \in 1..Len(texts')
         /\ texts'[LastRev + 1] = ComposeBody(texts[LastRev], delta)
<1>1. /\ ServerTrue' /\ LastRev' = LastRev + 1
      /\ texts'[LastRev + 1] = ComposeBody(texts[LastRev], delta)
      /\ \A r \in 1..LastRev : texts'[r] = texts[r]
  BY AppendChangeKeeps
<1>2. LastRev \in Nat /\ LastRev = Len(texts) /\ LastRev' = Len(texts')
  BY DEF LastRev, ServerTrue
<1> QED
  BY <1>1, <1>2 DEF Grows

\* Whatever is appended to the log, with the calls that remain and the answers
\* that are right afterwards.
LEMMA GrowsData ==
  ASSUME Data, ServerTrue', Grows(texts, texts'),
         UNCHANGED <<state, snapshot, chain, editor, queue>>,
         In(calls') \subseteq In(calls),
         \A answer \in In(replies') :
           answer \in In(replies) \/ AnswerOk(answer, texts', snapshot, chain, editor)
  PROVE  Data'
<1>1. Document'
  BY DocumentKept DEF Data
<1>2. \A d : OnTheWay(snapshot.text, chain, editor, d) =>
               OnTheWay(snapshot.text, chain', editor', d)
  OBVIOUS
<1>3. Messages'
  BY <1>2, MessagesKept DEF Data
<1> QED
  BY <1>1, <1>3 DEF Data

LEMMA RebasedFits ==
  ASSUME Data, NEW i \in 1..Len(calls), calls[i].method \in {"update", "orphan"}
  PROVE  /\ Suits(texts, calls[i].revNum, calls[i].delta)
         /\ Rebased(calls[i]) \in BodyDeltas
         /\ Rebased(calls[i]).len <= Len(texts[LastRev])
<1>1. PICK call : call = calls[i] /\ call.method \in {"update", "orphan"}
  OBVIOUS
<1>2. Suits(texts, call.revNum, call.delta)
  BY <1>1, TheCall DEF CallOk
<1>3. Rebased(call) \in BodyDeltas /\ Rebased(call).len <= Len(texts[LastRev])
  BY <1>2, RebasedIs DEF Data
<1> QED
  BY <1>1, <1>2, <1>3

LEMMA ServeOrphanData ==
  ASSUME Data, Rows, NEW i \in 1..Len(calls), ServeOrphan(i)
  PROVE  Data'
<1>1. PICK d : d = Rebased(calls[i])
  OBVIOUS
<1>2. /\ calls[i].method = "orphan" /\ calls' = RemoveAt(calls, i)
      /\ UNCHANGED <<changes, texts>> \/ AppendChange(d)
      /\ UNCHANGED <<state, snapshot, chain, editor, queue, replies>>
  BY <1>1 DEF ServeOrphan, machine, document, server
<1>3. d \in BodyDeltas /\ d.len <= Len(texts[LastRev])
  BY <1>1, <1>2, RebasedFits
<1>4. ServerTrue' /\ Grows(texts, texts')
  <2>1. CASE UNCHANGED <<changes, texts>>
    BY <2>1, SameLog DEF Data, ServerTrue
  <2>2. CASE AppendChange(d)
    BY <1>3, <2>2, AppendGrows DEF Data
  <2> QED
    BY <1>2, <2>1, <2>2
<1>5. In(calls') \subseteq In(calls)
  BY <1>2, BecomesRemoved DEF Rows, Becomes
<1> QED
  BY <1>2, <1>4, <1>5, GrowsData

LEMMA UpdateFailsData ==
  ASSUME Data, Rows, NEW i \in 1..Len(calls), UpdateFails(i)
  PROVE  Data'
<1>1. PICK call, d, event : /\ call = calls[i] /\ d = Rebased(calls[i])
                            /\ event = Event("apiError")
  OBVIOUS
<1>2. /\ call.method = "update" /\ Answer(i, event)
      /\ UNCHANGED <<changes, texts>> \/ AppendChange(d)
      /\ UNCHANGED <<state, snapshot, chain, editor, queue>>
  BY <1>1 DEF UpdateFails, machine, document, server
<1>3. d \in BodyDeltas /\ d.len <= Len(texts[LastRev])
  BY <1>1, <1>2, RebasedFits
<1>4. ServerTrue' /\ Grows(texts, texts')
  <2>1. CASE UNCHANGED <<changes, texts>>
    BY <2>1, SameLog DEF Data, ServerTrue
  <2>2. CASE AppendChange(d)
    BY <1>3, <2>2, AppendGrows DEF Data
  <2> QED
    BY <1>2, <2>1, <2>2
<1>5. OnTheWay(snapshot.text, chain, editor, call.delta)
  BY <1>1, <1>2, TheCall DEF CallOk
<1>6. AnswerOk([call |-> call, event |-> event], texts', snapshot, chain, editor)
  BY <1>1, <1>2, <1>5 DEF AnswerOk, Paired, Event
<1>7. /\ In(calls') \subseteq In(calls)
      /\ In(replies') = In(replies) \cup {[call |-> call, event |-> event]}
  BY <1>1, <1>2, AnswerMeans DEF Becomes
<1> QED
  BY <1>2, <1>4, <1>6, <1>7, GrowsData

LEMMA OthersEditData ==
  ASSUME Data, EditsFit, OthersEdit
  PROVE  Data'
<1>1. LastRev \in 1..LastRev /\ texts[LastRev] \in Text
  BY RevisionIs DEF Data
<1>2. PICK d \in OthersEdits(texts[LastRev]) : AppendChange(d)
  BY DEF OthersEdit
<1>3. d \in BodyDeltas /\ d.len <= Len(texts[LastRev])
  BY <1>1 DEF EditsFit
<1>4. ServerTrue' /\ Grows(texts, texts')
  BY <1>2, <1>3, AppendGrows DEF Data
<1>5. UNCHANGED <<state, snapshot, chain, editor, queue, calls, replies>>
  BY DEF OthersEdit, machine, document, wire
<1> QED
  BY <1>4, <1>5, GrowsData

\* The answer to an update settles it: what it has become is appended, and the
\* correction makes up for the difference.
LEMMA ServeUpdateData ==
  ASSUME Data, Rows, NoneVanishes, NEW i \in 1..Len(calls), ServeUpdate(i)
  PROVE  Data'
<1>1. PICK call, d : call = calls[i] /\ d = Rebased(call)
  OBVIOUS
<1>2. /\ call.method = "update"
      /\ UNCHANGED <<state, snapshot, chain, editor, queue>>
  BY <1>1 DEF ServeUpdate, machine, document
<1>3. /\ Suits(texts, call.revNum, call.delta)
      /\ d \in BodyDeltas /\ d.len <= Len(texts[LastRev])
  BY <1>1, <1>2, RebasedFits
<1>4. /\ OnTheWay(snapshot.text, chain, editor, call.delta) /\ call.revNum = snapshot.revNum
  BY <1>1, <1>2, TheCall DEF CallOk
<1>5. snapshot.text = texts[call.revNum] /\ snapshot.text \in Text
  <2>1. snapshot \in [revNum : Nat, text : Text]
    BY DEF Data, Document
  <2>2. snapshot.revNum # 0
    BY <1>3, <1>4 DEF Suits
  <2> QED
    BY <1>4, <2>1, <2>2 DEF Data, Document, IsRevision, NoSnapshot
<1>6. PICK expected : /\ expected = ComposeBody(snapshot.text, call.delta)
                      /\ expected \in Text
  BY <1>4, <1>5, ComposedText DEF OnTheWay
<1>7. /\ LastRev \in Nat /\ LastRev \in 1..Len(texts) /\ texts[LastRev] \in Text
  BY RevisionIs DEF Data
<1>8. ASSUME NEW revNum, NEW correction,
             Answer(i, GotUpdateEvent(call, revNum, correction)),
             ServerTrue', Grows(texts, texts'),
             revNum \in 1..Len(texts'),
             correction \in BodyDeltas, correction.len <= Len(expected),
             ComposeBody(expected, correction) = texts'[revNum]
      PROVE  Data'
  <2>1. PICK event : event = GotUpdateEvent(call, revNum, correction)
    OBVIOUS
  <2>2. /\ event.name = "gotUpdate" /\ event.delta = call.delta
        /\ event.change.revNum = revNum /\ event.change.delta = correction
    BY <2>1 DEF GotUpdateEvent
  <2>3. Settles(texts', snapshot.text, call.delta, event.change)
    BY <1>6, <1>8, <2>2 DEF Settles
  <2>4. AnswerOk([call |-> call, event |-> event], texts', snapshot, chain, editor)
    BY <1>2, <1>4, <2>2, <2>3 DEF AnswerOk, Paired
  <2>5. /\ In(calls') \subseteq In(calls)
        /\ In(replies') = In(replies) \cup {[call |-> call, event |-> event]}
    BY <1>1, <1>8, <2>1, AnswerMeans DEF Becomes
  <2> QED
    BY <1>2, <1>8, <2>4, <2>5, GrowsData
<1>9. CASE d = EmptyBodyDelta
  <2>1. /\ Answer(i, GotUpdateEvent(call, LastRev, EmptyBodyDelta))
        /\ UNCHANGED <<changes, texts>>
    BY <1>1, <1>9 DEF ServeUpdate, server
  <2>2. expected = texts[LastRev]
    <3>1. i \in DOMAIN calls
      BY DEF Rows, IsRow
    <3> QED
      BY <1>1, <1>2, <1>5, <1>6, <1>9, <3>1 DEF NoneVanishes
  <2>3. ServerTrue' /\ Grows(texts, texts')
    BY <2>1, SameLog DEF Data, ServerTrue
  <2>4. /\ EmptyBodyDelta \in BodyDeltas /\ EmptyBodyDelta.len <= Len(expected)
        /\ ComposeBody(expected, EmptyBodyDelta) = expected
    BY <1>6, EmptyDelta, TextIs
  <2> QED
    BY <1>7, <1>8, <2>1, <2>2, <2>3, <2>4
<1>10. CASE d # EmptyBodyDelta
  <2>1. PICK result : result = texts'[LastRev + 1]
    OBVIOUS
  <2>2. /\ AppendChange(d)
        /\ Answer(i, GotUpdateEvent(call, LastRev + 1, Correction(call, result)))
    BY <1>1, <1>10, <2>1 DEF ServeUpdate
  <2>3. /\ ServerTrue' /\ Grows(texts, texts')
        /\ LastRev + 1 \in 1..Len(texts')
        /\ result = ComposeBody(texts[LastRev], d)
    BY <1>3, <2>1, <2>2, AppendGrows DEF Data
  <2>4. /\ Correction(call, result) \in BodyDeltas
        /\ Correction(call, result).len <= Len(expected)
        /\ ComposeBody(expected, Correction(call, result)) = result
    BY <1>1, <1>3, <1>5, <1>6, <2>3, CorrectionIs DEF Data
  <2> QED
    BY <1>8, <2>1, <2>2, <2>3, <2>4
<1> QED
  BY <1>9, <1>10

-----------------------------------------------------------------------------
(* The document changes *)

\* Unless the machine is merging, nothing under way is about an update.
LEMMA NoUpdates ==
  ASSUME Flow, state # "merging"
  PROVE  /\ \A call \in In(calls) : call.method # "update"
         /\ \A answer \in In(replies) : answer.call.method # "update"
         /\ \A e \in In(queue) : e.name # "gotUpdate"
<1>1. /\ None(calls, "method", "update") /\ None(queue, "name", "gotUpdate")
      /\ None(CallsOf(replies), "method", "update")
  BY DEF Flow, Updates, Sent, Answered, Queued
<1>2. /\ IsRow(calls) /\ IsRow(queue) /\ IsRow(CallsOf(replies))
      /\ In(CallsOf(replies)) = {a.call : a \in In(replies)}
  BY CallsOfIs DEF Flow, Rows
<1>3. \A call \in In(CallsOf(replies)) : call.method # "update"
  BY <1>1, <1>2, Nowhere
<1>4. \A call \in In(calls) : call.method # "update"
  BY <1>1, <1>2, Nowhere
<1>5. \A e \in In(queue) : e.name # "gotUpdate"
  BY <1>1, <1>2, Nowhere
<1>6. \A answer \in In(replies) : answer.call \in In(CallsOf(replies))
  BY <1>2
<1> QED
  BY <1>3, <1>4, <1>5, <1>6

\* A step that leaves the log as it is and no update under way.
LEMMA AnewData ==
  ASSUME Data, UNCHANGED <<changes, texts>>, Document',
         \A call \in In(calls') :
           \/ call \in In(calls) /\ call.method # "update"
           \/ CallOk(call, texts, snapshot', chain', editor'),
         \A answer \in In(replies') :
           answer \in In(replies) /\ answer.call.method # "update",
         \A e \in In(queue') :
           (e \in In(queue) /\ e.name # "gotUpdate") \/ Plain(e)
  PROVE  Data'
<1>1. ServerTrue'
  BY DEF Data, ServerTrue
<1>2. \A e \in In(queue') :
        \/ e \in In(queue) /\ e.name # "gotUpdate"
        \/ EventOk(e, texts, snapshot', chain', editor')
  BY PlainEvent DEF Plain
<1>3. Messages'
  BY <1>2, MessagesAnew DEF Data
<1> QED
  BY <1>1, <1>3 DEF Data

LEMMA GotSnapshotData ==
  ASSUME Data, Flow, Receive, Head(replies).event.name = "gotSnapshot"
  PROVE  Data'
<1>1. PICK a, new : a = Head(replies) /\ new = a.event.snapshot
  OBVIOUS
<1>2. /\ snapshot' = new /\ chain' = <<>> /\ editor' = new.text /\ state' = "becomeEnabled"
      /\ queue' = Append(queue, Event("start"))
      /\ UNCHANGED <<changes, texts, calls>>
  BY <1>1 DEF Receive, GotSnapshot, server
<1>3. /\ a \in In(replies) /\ In(replies') \subseteq In(replies)
      /\ a.call \in In(CallsOf(replies))
  BY <1>1, ReceiveMeans DEF Flow
<1>4. AnswerOk(a, texts, snapshot, chain, editor)
  BY <1>3 DEF Data, Messages
<1>5. a.call.method = "getSnapshot" /\ IsRevision(texts, new)
  BY <1>1, <1>4 DEF AnswerOk, Paired
<1>6. state = "detached"
  <2>1. Answered("getSnapshot")
    BY <1>3, <1>5, Nowhere, CallsOfIs DEF Flow, Rows, Answered
  <2> QED
    BY <2>1 DEF Flow, Reading
<1>7. Document'
  <2>1. new \in [revNum : Nat, text : Text] /\ new.text \in Text
    BY <1>5 DEF IsRevision
  <2>2. <<>> \in Row(ChainEvents) /\ One(<<>>, "source", "client")
    BY Empty, RowsIn
  <2>3. Leads(new.text, <<>>, new.text)
    BY <2>1, LeadsNowhere
  <2> QED
    BY <1>2, <1>5, <2>1, <2>2, <2>3 DEF Document
<1>8. \A e \in In(queue') : e \in In(queue) \/ Plain(e)
  BY <1>2, QueuedMeans, PlainEvents DEF Becomes, Flow
<1> QED
  BY <1>2, <1>3, <1>6, <1>7, <1>8, NoUpdates, AnewData

LEMMA StartAfterErrorData ==
  ASSUME Data, Flow, StartAfterError
  PROVE  Data'
<1>1. /\ snapshot' = NoSnapshot /\ chain' = <<>> /\ state' = "detached"
      /\ state = "errorWait" /\ queue # <<>> /\ Enqueue(Event("start"))
      /\ UNCHANGED <<changes, texts, editor, calls, replies>>
  BY DEF StartAfterError, HandledIn, Handling, server, wire
<1>2. Document'
  <2>1. NoSnapshot \in [revNum : Nat, text : Text]
    <3>1. <<>> \in Text
      BY DEF Text, Row
    <3> QED
      BY <3>1 DEF NoSnapshot
  <2>2. <<>> \in Row(ChainEvents)
    BY Empty, RowsIn
  <2> QED
    BY <1>1, <2>1, <2>2 DEF Document, Live, Data
<1>3. Becomes(queue', queue, {Head(queue)}, {Event("start")}, TRUE)
  BY <1>1, HandledMeans DEF Flow
<1>4. \A e \in In(queue') : e \in In(queue) \/ Plain(e)
  BY <1>3, PlainEvents DEF Becomes
<1> QED
  BY <1>1, <1>2, <1>4, NoUpdates, AnewData

LEMMA GotQuillEventData ==
  ASSUME Data, Flow, GotQuillEvent
  PROVE  Data'
<1>1. /\ state = "idle" /\ queue # <<>>
      /\ \/ BecomeIdle /\ UNCHANGED chain
         \/ /\ chain # <<>> /\ Head(chain).source = "client" /\ chain' = Tail(chain)
            /\ BecomeIdle
         \/ /\ chain # <<>> /\ Head(chain).source # "client" /\ UNCHANGED chain
            /\ state' = "collecting" /\ Handled
      /\ UNCHANGED <<changes, texts, snapshot, editor, calls, replies>>
  BY DEF GotQuillEvent, HandledIn, Handling, IsOurs, server, wire
<1>2. \/ state' = "idle" /\ Enqueue(Event("wantInput"))
      \/ state' = "collecting" /\ Handled
  BY <1>1 DEF BecomeIdle, Flow, Modes
<1>3. /\ IsRevision(texts, snapshot) /\ One(chain, "source", "client")
      /\ Leads(snapshot.text, chain, editor) /\ chain \in Row(ChainEvents)
  BY <1>1 DEF Data, Document, Live
<1>4. /\ chain' \in Row(ChainEvents) /\ One(chain', "source", "client")
      /\ Leads(snapshot.text, chain', editor)
  <2>1. CASE chain' = Tail(chain) /\ chain # <<>> /\ Head(chain).source = "client"
    <3>1. Tail(chain) \in Row(ChainEvents) /\ Leads(snapshot.text, Tail(chain), editor)
      BY <1>3, <2>1, LeadsSkip
    <3>2. IsRow(chain)
      BY <1>3, RowsAre
    <3>3. Becomes(Tail(chain), chain, {Head(chain)}, {}, TRUE)
      BY <2>1, <3>2, BecomesTail
    <3>4. One(Tail(chain), "source", "client")
      BY <1>3, <2>1, <3>3 DEF Becomes
    <3> QED
      BY <2>1, <3>1, <3>4
  <2>2. CASE chain' = chain
    BY <1>3, <2>2
  <2> QED
    BY <1>1, <2>1, <2>2
<1>5. state' = "collecting" => chain' # <<>> /\ Head(chain').source = "user"
  <2> SUFFICES ASSUME state' = "collecting"
               PROVE  chain' # <<>> /\ Head(chain').source = "user"
    OBVIOUS
  <2>1. chain' = chain /\ chain # <<>> /\ Head(chain).source # "client"
    BY <1>1 DEF BecomeIdle
  <2>2. IsRow(chain) /\ In(chain) \subseteq ChainEvents
    BY <1>3, RowsAre
  <2>3. Head(chain) \in ChainEvents
    BY <2>1, <2>2, Nowhere
  <2>4. Head(chain).source \in {"user", "client"}
    BY <2>3 DEF ChainEvents
  <2> QED
    BY <2>1, <2>4
<1>6. Document'
  <2>1. /\ state' \in {"idle", "collecting"} /\ UNCHANGED <<texts, snapshot, editor>>
    BY <1>1, <1>2
  <2>2. snapshot \in [revNum : Nat, text : Text] /\ editor \in Text
    BY DEF Data, Document
  <2> QED
    BY <1>3, <1>4, <1>5, <2>1, <2>2 DEF Document
<1>7. \A e \in In(queue') : e \in In(queue) \/ Plain(e)
  <2>1. \/ Becomes(queue', queue, {Head(queue)}, {}, TRUE)
        \/ Becomes(queue', queue, {Head(queue)}, {Event("wantInput")}, TRUE)
    BY <1>1, <1>2, HandledMeans DEF Flow
  <2> QED
    BY <2>1, PlainEvents DEF Becomes
<1> QED
  BY <1>1, <1>6, <1>7, NoUpdates, AnewData

LEMMA UserEditData ==
  ASSUME Data, EditsFit, UserEdit
  PROVE  Data'
<1>1. PICK d \in UserEdits(editor) : Emit(chain, "user", d)
  BY DEF UserEdit
<1>2. PICK event : event = [source |-> "user", delta |-> d]
  BY Zenon
<1>3. /\ chain' = Append(chain, event) /\ editor' = ComposeBody(editor, d)
      /\ event.source = "user" /\ event.delta = d
  BY <1>1, <1>2 DEF Emit
<1>4. /\ editor \in Text /\ chain \in Row(ChainEvents) /\ IsRow(chain)
      /\ snapshot \in [revNum : Nat, text : Text]
  BY RowsAre DEF Data, Document
<1>5. d \in BodyDeltas /\ d.len <= Len(editor)
  BY <1>4 DEF EditsFit
<1>6. event \in ChainEvents /\ editor' \in Text /\ Does(event, editor, editor')
  BY <1>2, <1>3, <1>4, <1>5, ComposedText DEF ChainEvents, Does
<1>7. PICK events, end : events = chain' /\ end = editor'
  OBVIOUS
<1>8. /\ events \in Row(ChainEvents)
      /\ \A base : Leads(base, chain, editor) => Leads(base, events, end)
  <2>1. events = Append(chain, event) /\ end \in Text /\ Does(event, editor, end)
    BY <1>3, <1>6, <1>7
  <2>2. IsRow(events) /\ In(events) \subseteq ChainEvents
    <3>1. /\ IsRow(Append(chain, event))
          /\ In(Append(chain, event)) = In(chain) \cup {event}
      BY <1>4, Appended
    <3>2. In(chain) \subseteq ChainEvents
      BY <1>4, RowsAre
    <3> QED
      BY <1>6, <2>1, <3>1, <3>2
  <2>3. events \in Row(ChainEvents)
    BY <2>2, RowsIn
  <2>4. ASSUME NEW base, Leads(base, chain, editor) PROVE Leads(base, events, end)
    <3>1. Leads(base, Append(chain, event), end)
      BY <1>4, <1>6, <2>1, <2>4, LeadsOn
    <3> QED
      BY <2>1, <3>1
  <2> QED
    BY <2>3, <2>4
<1>9. /\ events # <<>> /\ (chain # <<>> => Head(events) = Head(chain))
      /\ None(chain, "source", "client") => None(events, "source", "client")
      /\ One(chain, "source", "client") => One(events, "source", "client")
  <2>1. /\ Append(chain, event) # <<>>
        /\ (chain # <<>> => Head(Append(chain, event)) = Head(chain))
        /\ None(chain, "source", "client") => None(Append(chain, event), "source", "client")
        /\ One(chain, "source", "client") => One(Append(chain, event), "source", "client")
    BY <1>3, <1>4, Appended
  <2> QED
    BY <1>3, <1>7, <2>1
<1>10. UNCHANGED <<changes, texts, state, queue, snapshot, calls, replies>>
  BY DEF UserEdit, server, machine, wire
<1>11. Document'
  BY <1>4, <1>6, <1>7, <1>8, <1>9, <1>10 DEF Document, Data, Live
<1>12. Messages'
  <2>1. Grows(texts, texts')
    BY <1>10, SameLog DEF Data
  <2>2. \A q : OnTheWay(snapshot.text, chain, editor, q) =>
                 OnTheWay(snapshot.text, chain', editor', q)
    BY <1>7, <1>8 DEF OnTheWay
  <2> QED
    BY <1>10, <2>1, <2>2, MessagesKept DEF Data
<1>13. ServerTrue'
  BY <1>10 DEF Data, ServerTrue
<1> QED
  BY <1>11, <1>12, <1>13 DEF Data

TextsAreDocuments == \A r \in DOMAIN texts : IsValidText(texts[r])

\* While collecting there is something of the user's to send.
LEMMA SomethingCollected ==
  ASSUME Data, state = "collecting"
  PROVE  /\ Collected # <<>>
         /\ Collected \in Row(ChainEvents) /\ None(Collected, "source", "client")
         /\ AfterCollected \in Row(ChainEvents) /\ None(AfterCollected, "source", "client")
         /\ Composed(Collected) \in BodyDeltas
         /\ Composed(Collected).len <= Len(snapshot.text)
         /\ Leads(ComposeBody(snapshot.text, Composed(Collected)), AfterCollected, editor)
<1>1. /\ chain \in Row(ChainEvents) /\ One(chain, "source", "client")
      /\ Leads(snapshot.text, chain, editor)
      /\ chain # <<>> /\ Head(chain).source = "user"
  BY DEF Data, Document, Live
<1>2. /\ Collected \in Row(ChainEvents) /\ None(Collected, "source", "client")
      /\ AfterCollected \in Row(ChainEvents) /\ None(AfterCollected, "source", "client")
      /\ Collected = <<>> => chain = <<>> \/ Head(chain).source # "user"
      /\ \E text : Leads(snapshot.text, Collected, text) /\ Leads(text, AfterCollected, editor)
  BY <1>1, CollectedIs
<1>3. PICK text : Leads(snapshot.text, Collected, text) /\ Leads(text, AfterCollected, editor)
  BY <1>2
<1>4. PICK events, rest : events = Collected /\ rest = AfterCollected
  OBVIOUS
<1>5. /\ Composed(events) \in BodyDeltas /\ Composed(events).len <= Len(snapshot.text)
      /\ ComposeBody(snapshot.text, Composed(events)) = text
  BY <1>2, <1>3, <1>4, LeadsUsers
<1> QED
  BY <1>1, <1>2, <1>3, <1>4, <1>5

LEMMA WantToUpdateData ==
  ASSUME Data, Flow, WantToUpdate
  PROVE  Data'
<1>1. PICK d, rest : d = Composed(Collected) /\ rest = AfterCollected
  OBVIOUS
<1>2. /\ state = "collecting" /\ queue # <<>>
      /\ UNCHANGED <<changes, texts, snapshot, editor, replies>>
  BY DEF WantToUpdate, HandledIn, Handling, server
<1>3. /\ rest \in Row(ChainEvents) /\ None(rest, "source", "client")
      /\ One(rest, "source", "client")
      /\ d \in BodyDeltas /\ d.len <= Len(snapshot.text)
      /\ Leads(ComposeBody(snapshot.text, d), rest, editor) /\ Collected # <<>>
  <2>1. /\ rest \in Row(ChainEvents) /\ None(rest, "source", "client")
        /\ d \in BodyDeltas /\ d.len <= Len(snapshot.text)
        /\ Leads(ComposeBody(snapshot.text, d), rest, editor) /\ Collected # <<>>
    BY <1>1, <1>2, SomethingCollected
  <2>2. IsRow(rest)
    BY <2>1, RowsAre
  <2>3. One(rest, "source", "client")
    BY <2>1, <2>2, Nowhere
  <2> QED
    BY <2>1, <2>3
<1>4. /\ IsRevision(texts, snapshot) /\ One(chain, "source", "client")
      /\ Leads(snapshot.text, chain, editor) /\ chain \in Row(ChainEvents)
      /\ snapshot \in [revNum : Nat, text : Text] /\ editor \in Text
  BY <1>2 DEF Data, Document, Live
<1>5. PICK call : call = [method |-> "update", revNum |-> snapshot.revNum, delta |-> d]
  BY Zenon
<1>6. \/ BecomeIdle /\ UNCHANGED <<chain, calls>>
      \/ d = EmptyBodyDelta /\ chain' = rest /\ BecomeIdle /\ UNCHANGED calls
      \/ chain' = rest /\ state' = "merging" /\ Call(call, Tail(queue))
  BY <1>1, <1>3, <1>5 DEF WantToUpdate
<1>7. \/ state' = "idle" /\ UNCHANGED chain
      \/ state' = "idle" /\ chain' = rest /\ d = EmptyBodyDelta
      \/ state' = "merging" /\ chain' = rest
  BY <1>2, <1>6 DEF BecomeIdle, Flow, Modes
<1>8. d = EmptyBodyDelta => Leads(snapshot.text, rest, editor)
  BY <1>3, <1>4, EmptyDelta
<1>9. Document'
  <2>1. CASE state' = "idle" /\ UNCHANGED chain
    BY <1>2, <1>4, <2>1 DEF Document
  <2>2. CASE state' = "idle" /\ chain' = rest /\ d = EmptyBodyDelta
    BY <1>2, <1>3, <1>4, <1>8, <2>2 DEF Document
  <2>3. CASE state' = "merging" /\ chain' = rest
    BY <1>2, <1>3, <1>4, <2>3 DEF Document
  <2> QED
    BY <1>7, <2>1, <2>2, <2>3
<1>10. /\ Handled \/ Enqueue(Event("wantInput")) \/ Enqueue(Event("apiError"))
       /\ calls' = calls \/ (calls' = Append(calls, call) /\ chain' = rest)
  BY <1>6 DEF Call, BecomeIdle, Handled, Enqueue
<1>11. \A e \in In(queue') : e \in In(queue) \/ Plain(e)
  <2>1. \/ Becomes(queue', queue, {Head(queue)}, {}, TRUE)
        \/ \E e : Plain(e) /\ Becomes(queue', queue, {Head(queue)}, {e}, TRUE)
    BY <1>2, <1>10, HandledMeans, PlainEvents DEF Flow
  <2> QED
    BY <2>1 DEF Becomes
<1>12. calls' = Append(calls, call) /\ chain' = rest =>
         CallOk(call, texts, snapshot', chain', editor')
  <2>1. /\ call.method = "update" /\ call.revNum = snapshot.revNum /\ call.delta = d
    BY <1>5
  <2>2. Suits(texts, call.revNum, call.delta)
    BY <1>3, <1>4, <2>1 DEF Suits, IsRevision
  <2>3. OnTheWay(snapshot.text, rest, editor, d)
    BY <1>3 DEF OnTheWay
  <2> QED
    BY <1>2, <2>1, <2>2, <2>3 DEF CallOk, Suits
<1>13. In(Append(calls, call)) = In(calls) \cup {call}
  BY Appended DEF Flow, Rows
<1>14. \A c \in In(calls') : \/ c \in In(calls)
                             \/ CallOk(c, texts, snapshot', chain', editor')
  BY <1>10, <1>12, <1>13
<1> QED
  BY <1>2, <1>9, <1>11, <1>14, NoUpdates, AnewData

\* Quill takes a delta from the client, under which the events lead on.
LEMMA UpdateQuillIs ==
  ASSUME NEW before \in Row(ChainEvents), None(before, "source", "client"),
         editor \in Text, NEW d \in BodyDeltas, d.len <= Len(editor),
         NEW base, Leads(base, before, ComposeBody(editor, d)),
         UpdateQuill(before, d)
  PROVE  /\ chain' \in Row(ChainEvents) /\ One(chain', "source", "client")
         /\ editor' \in Text /\ Leads(base, chain', editor')
<1>1. IsRow(before) /\ One(before, "source", "client")
  BY RowsAre, Nowhere
<1>2. CASE d = EmptyBodyDelta
  <2>1. chain' = before /\ editor' = editor
    BY <1>2 DEF UpdateQuill
  <2>2. ComposeBody(editor, d) = editor
    BY <1>2, EmptyDelta
  <2> QED
    BY <1>1, <2>1, <2>2
<1>3. CASE d # EmptyBodyDelta
  <2>1. PICK event, next : /\ event = [source |-> "client", delta |-> d]
                           /\ next = ComposeBody(editor, d)
    OBVIOUS
  <2>2. /\ chain' = Append(before, event) /\ editor' = next
    BY <1>3, <2>1 DEF UpdateQuill, Emit
  <2>3. event \in ChainEvents /\ next \in Text /\ Does(event, next, next)
    BY <2>1, ComposedText DEF ChainEvents, Does
  <2>4. /\ Append(before, event) \in Row(ChainEvents)
        /\ Leads(base, Append(before, event), next)
    BY <2>1, <2>3, LeadsOn
  <2>5. One(Append(before, event), "source", "client")
    BY <1>1, Appended
  <2> QED
    BY <2>2, <2>3, <2>4, <2>5
<1> QED
  BY <1>2, <1>3

\* The snapshot and Quill move to another revision, under what the user typed.
LEMMA SnapshotMoves ==
  ASSUME ServerTrue, editor \in Text, NEW revNum \in 1..Len(texts),
         NEW d \in BodyDeltas, d.len <= Len(editor),
         NEW before \in Row(ChainEvents), None(before, "source", "client"),
         Leads(texts[revNum], before, ComposeBody(editor, d)),
         snapshot' = [revNum |-> revNum, text |-> texts[revNum]],
         UpdateQuill(before, d), texts' = texts, state' = "idle"
  PROVE  Document'
<1>1. PICK new : new = [revNum |-> revNum, text |-> texts[revNum]]
  BY Zenon
<1>2. /\ chain' \in Row(ChainEvents) /\ One(chain', "source", "client")
      /\ editor' \in Text /\ Leads(new.text, chain', editor')
  BY <1>1, UpdateQuillIs
<1>3. new \in [revNum : Nat, text : Text] /\ IsRevision(texts, new)
  <2>1. texts[revNum] \in Text /\ revNum \in Nat
    BY RevisionIs DEF LastRev
  <2> QED
    BY <1>1, <2>1 DEF IsRevision
<1> QED
  BY <1>1, <1>2, <1>3 DEF Document

LEMMA RevisionIsValid ==
  ASSUME ServerTrue, TextsAreDocuments, NEW r \in 1..Len(texts)
  PROVE  IsValidText(texts[r])
<1>1. DOMAIN texts = 1..Len(texts)
  BY RowsAre DEF ServerTrue, IsRow
<1> QED
  BY <1>1 DEF TextsAreDocuments

\* idle_gotChangeAfter does not throw, and leaves the document followed.
LEMMA GotChangeAfterData ==
  ASSUME Data, Flow, TextsAreDocuments, GotChangeAfter
  PROVE  Data' /\ Enqueue(Event("wantInputAfterDelay"))
<1>1. PICK e, change : e = Head(queue) /\ change = Head(queue).change
  OBVIOUS
<1>2. /\ state = "idle" /\ queue # <<>> /\ e.name = "gotChangeAfter"
      /\ UNCHANGED <<changes, texts, calls, replies>>
  BY <1>1 DEF GotChangeAfter, HandledIn, Handling, server, wire
<1>3. /\ IsRevision(texts, snapshot) /\ Leads(snapshot.text, chain, editor)
      /\ snapshot \in [revNum : Nat, text : Text] /\ editor \in Text
      /\ chain \in Row(ChainEvents)
  BY <1>2 DEF Data, Document, Live
<1>4. ChangeTrue(texts, e.revNum, change)
  <2>1. e \in In(queue)
    BY <1>1, <1>2, HandledMeans DEF Flow
  <2>2. EventOk(e, texts, snapshot, chain, editor)
    BY <2>1 DEF Data, Messages
  <2> QED
    BY <1>1, <1>2, <2>2 DEF EventOk
<1>5. CASE StillApplies(e)
  <2>1. /\ e.revNum = snapshot.revNum /\ chain = <<>>
    BY <1>5 DEF StillApplies
  <2>2. editor = snapshot.text
    BY <1>3, <2>1, LeadsNowhere
  <2>3. /\ change.revNum \in 1..Len(texts) /\ change.delta \in BodyDeltas
        /\ change.delta.len <= Len(editor)
        /\ ComposeBody(editor, change.delta) = texts[change.revNum]
        /\ ComposeBody(snapshot.text, change.delta) = texts[change.revNum]
    BY <1>3, <1>4, <2>1, <2>2 DEF ChangeTrue, IsRevision
  <2>4. IsValidText(ComposeBody(snapshot.text, change.delta))
    BY <2>3, RevisionIsValid DEF Data
  <2>5. /\ snapshot' = [revNum |-> change.revNum, text |-> ComposeBody(snapshot.text, change.delta)]
        /\ UpdateQuill(<<>>, change.delta)
        /\ Enqueue(Event("wantInputAfterDelay")) /\ UNCHANGED state
    BY <1>1, <1>5, <2>4 DEF GotChangeAfter, UpdateWithChange
  <2>6. <<>> \in Row(ChainEvents) /\ None(<<>>, "source", "client")
    BY Empty, RowsIn
  <2>7. Leads(texts[change.revNum], <<>>, texts[change.revNum])
    <3>1. texts[change.revNum] \in Text
      BY <1>3, <2>2, <2>3, ComposedText
    <3> QED
      BY <3>1, LeadsNowhere
  <2>8. Document'
    <3>1. /\ snapshot' = [revNum |-> change.revNum, text |-> texts[change.revNum]]
          /\ Leads(texts[change.revNum], <<>>, ComposeBody(editor, change.delta))
          /\ texts' = texts /\ state' = "idle"
      BY <1>2, <2>3, <2>5, <2>7
    <3> QED
      BY <1>3, <2>3, <2>5, <2>6, <3>1, SnapshotMoves DEF Data
  <2>9. \A ev \in In(queue') : ev \in In(queue) \/ Plain(ev)
    BY <1>2, <2>5, HandledMeans, PlainEvents DEF Becomes, Flow
  <2> QED
    BY <1>2, <2>5, <2>8, <2>9, NoUpdates, AnewData
<1>6. CASE ~ StillApplies(e)
  <2>1. /\ Enqueue(Event("wantInputAfterDelay")) /\ UNCHANGED <<state, snapshot, chain, editor>>
    BY <1>1, <1>6 DEF GotChangeAfter, document
  <2>2. \E ev : Plain(ev) /\ Enqueue(ev)
    BY <2>1, PlainEvents
  <2> QED
    BY <1>2, <2>1, <2>2, HandlerData DEF Flow
<1> QED
  BY <1>5, <1>6

LEMMA OneAlone ==
  ASSUME NEW e, e.source = "user"
  PROVE  None(<<e>>, "source", "client")
<1>1. PICK q : q = <<>> /\ IsRow(q) /\ None(q, "source", "client")
  BY Empty
<1>2. None(Append(q, e), "source", "client")
  BY <1>1, Appended
<1>3. Append(q, e) = <<e>>
  BY <1>1
<1> QED
  BY <1>2, <1>3

\* A correction goes under what the user has typed since: either order of the
\* two leads to the same text.
LEMMA CorrectionGoesUnder ==
  ASSUME NEW expected \in Text, NEW correction \in BodyDeltas,
         correction.len <= Len(expected), chain \in Row(ChainEvents),
         None(chain, "source", "client"), Leads(expected, chain, editor),
         NEW more, more = Composed(chain),
         NEW event, event = [source |-> "user", delta |-> TransformAs(correction, more, TRUE)],
         NEW d, d = TransformAs(more, correction, FALSE)
  PROVE  /\ d \in BodyDeltas /\ d.len <= Len(editor)
         /\ <<event>> \in Row(ChainEvents) /\ None(<<event>>, "source", "client")
         /\ Leads(ComposeBody(expected, correction), <<event>>, ComposeBody(editor, d))
<1>1. /\ more \in BodyDeltas /\ more.len <= Len(expected)
      /\ ComposeBody(expected, more) = editor
  BY LeadsUsers
<1>2. d \in BodyDeltas /\ d.len <= Len(editor)
  BY <1>1, Transformed
<1>3. PICK next : next = ComposeBody(expected, correction) /\ next \in Text
  BY ComposedText
<1>4. PICK under : /\ under = TransformAs(correction, more, TRUE)
                   /\ under \in BodyDeltas /\ under.len <= Len(next)
  BY <1>1, <1>3, Transformed
<1>5. editor \in Text
  BY <1>1, ComposedText
<1>6. PICK end : end = ComposeBody(editor, d) /\ end \in Text
  BY <1>2, <1>5, ComposedText
<1>7. ComposeBody(next, under) = end
  BY <1>1, <1>3, <1>4, <1>6, EitherFirst
<1>8. event \in ChainEvents /\ event.source = "user" /\ event.delta = under
  BY <1>4 DEF ChainEvents
<1>9. Does(event, next, end)
  BY <1>4, <1>7, <1>8 DEF Does
<1>10. <<>> \in Row(ChainEvents) /\ Leads(next, <<>>, next)
  BY <1>3, Empty, RowsIn, LeadsNowhere
<1>11. Append(<<>>, event) = <<event>>
  OBVIOUS
<1>12. /\ Append(<<>>, event) \in Row(ChainEvents)
       /\ Leads(next, Append(<<>>, event), end)
  BY <1>6, <1>8, <1>9, <1>10, LeadsOn
<1>13. None(<<event>>, "source", "client")
  BY <1>8, OneAlone
<1> QED
  BY <1>2, <1>3, <1>6, <1>11, <1>12, <1>13

\* merging_gotUpdate does not throw, and leaves the document followed.
LEMMA GotUpdateData ==
  ASSUME Data, Flow, TextsAreDocuments, GotUpdate
  PROVE  Data' /\ BecomeIdle
<1>1. PICK e, delta, revNum, correction :
        /\ e = Head(queue) /\ delta = Head(queue).delta
        /\ revNum = Head(queue).change.revNum /\ correction = Head(queue).change.delta
  OBVIOUS
<1>2. /\ state = "merging" /\ queue # <<>> /\ e.name = "gotUpdate"
      /\ UNCHANGED <<changes, texts, calls, replies>>
  BY <1>1 DEF GotUpdate, HandledIn, Handling, server, wire
<1>3. /\ IsRevision(texts, snapshot) /\ None(chain, "source", "client")
      /\ snapshot \in [revNum : Nat, text : Text] /\ snapshot.text \in Text
      /\ editor \in Text /\ chain \in Row(ChainEvents)
  BY <1>2 DEF Data, Document, Live
<1>4. e \in In(queue) /\ EventOk(e, texts, snapshot, chain, editor)
  <2>1. e \in In(queue)
    BY <1>1, <1>2, HandledMeans DEF Flow
  <2> QED
    BY <2>1 DEF Data, Messages
<1>5. /\ delta \in BodyDeltas /\ delta.len <= Len(snapshot.text)
      /\ Leads(ComposeBody(snapshot.text, delta), chain, editor)
      /\ Settles(texts, snapshot.text, delta, e.change)
  BY <1>1, <1>2, <1>4 DEF EventOk, OnTheWay
<1>6. PICK expected : expected = ComposeBody(snapshot.text, delta) /\ expected \in Text
  BY <1>3, <1>5, ComposedText
<1>7. /\ revNum \in 1..Len(texts)
      /\ correction \in BodyDeltas /\ correction.len <= Len(expected)
      /\ ComposeBody(expected, correction) = texts[revNum]
  BY <1>1, <1>5, <1>6 DEF Settles
<1>8. PICK corrected : corrected = [revNum |-> revNum, delta |-> ComposeDeltas(delta, correction)]
  BY Zenon
<1>9. ComposeBody(snapshot.text, ComposeDeltas(delta, correction)) = texts[revNum]
  BY <1>3, <1>5, <1>6, <1>7, ComposedDeltas
<1>10. /\ IsValidText(texts[revNum]) /\ texts[revNum] \in Text
       /\ Leads(expected, chain, editor)
  BY <1>5, <1>6, <1>7, RevisionIsValid, ComposedText DEF Data
<1>11. PICK new : new = [revNum |-> revNum, text |-> texts[revNum]]
  BY Zenon
<1>12. ASSUME NEW d \in BodyDeltas, d.len <= Len(editor),
              NEW before \in Row(ChainEvents), None(before, "source", "client"),
              Leads(texts[revNum], before, ComposeBody(editor, d)),
              snapshot' = new, UpdateQuill(before, d), BecomeIdle
       PROVE  Data' /\ BecomeIdle
  <2>1. state' = "idle" /\ Enqueue(Event("wantInput"))
    BY <1>2, <1>12 DEF BecomeIdle, Flow, Modes
  <2>2. Document'
    BY <1>2, <1>3, <1>7, <1>11, <1>12, <2>1, SnapshotMoves DEF Data
  <2>3. Becomes(queue', queue, {e}, {Event("wantInput")}, TRUE)
    BY <1>1, <1>2, <2>1, HandledMeans DEF Flow
  <2>4. Queued("gotUpdate")
    BY <1>2, <1>4, Nowhere DEF Flow, Rows, Queued
  <2>5. /\ None(queue', "name", "gotUpdate")
        /\ None(calls, "method", "update") /\ None(CallsOf(replies), "method", "update")
    BY <1>2, <2>3, <2>4 DEF Becomes, Event, Flow, Updates, Sent, Answered, Queued
  <2>6. /\ IsRow(queue') /\ IsRow(calls) /\ IsRow(CallsOf(replies))
        /\ In(CallsOf(replies)) = {a.call : a \in In(replies)}
    BY <2>3, CallsOfIs DEF Becomes, Flow, Rows
  <2>7. \A call \in In(calls') : call \in In(calls) /\ call.method # "update"
    BY <1>2, <2>5, <2>6, Nowhere
  <2>8. \A call \in In(CallsOf(replies)) : call.method # "update"
    BY <2>5, <2>6, Nowhere
  <2>9. \A answer \in In(replies') : answer \in In(replies) /\ answer.call.method # "update"
    BY <1>2, <2>6, <2>8
  <2>10. \A ev \in In(queue') : ev.name # "gotUpdate"
    BY <2>5, <2>6, Nowhere
  <2>11. \A ev \in In(queue') : (ev \in In(queue) /\ ev.name # "gotUpdate") \/ Plain(ev)
    BY <2>3, <2>10, PlainEvents DEF Becomes
  <2> QED
    BY <1>2, <1>12, <2>2, <2>7, <2>9, <2>11, AnewData
<1>13. CASE correction = EmptyBodyDelta
  <2>1. UpdateWithChange([revNum |-> revNum, delta |-> delta], EmptyBodyDelta, chain, chain,
                         BecomeIdle)
    BY <1>1, <1>13 DEF GotUpdate
  <2>2. expected = texts[revNum]
    BY <1>6, <1>7, <1>13, EmptyDelta
  <2>3. snapshot' = new /\ UpdateQuill(chain, EmptyBodyDelta) /\ BecomeIdle
    BY <1>6, <1>10, <1>11, <2>1, <2>2 DEF UpdateWithChange
  <2>4. /\ EmptyBodyDelta \in BodyDeltas /\ EmptyBodyDelta.len <= Len(editor)
        /\ ComposeBody(editor, EmptyBodyDelta) = editor
    BY <1>3, EmptyDelta, TextIs
  <2> QED
    BY <1>3, <1>10, <1>12, <2>2, <2>3, <2>4
<1>14. CASE correction # EmptyBodyDelta /\ chain = <<>>
  <2>1. UpdateWithChange(corrected, correction, <<>>, <<>>, BecomeIdle)
    BY <1>1, <1>8, <1>14 DEF GotUpdate
  <2>2. snapshot' = new /\ UpdateQuill(<<>>, correction) /\ BecomeIdle
    BY <1>8, <1>9, <1>10, <1>11, <2>1 DEF UpdateWithChange
  <2>3. editor = expected
    BY <1>10, <1>14, LeadsNowhere
  <2>4. <<>> \in Row(ChainEvents) /\ None(<<>>, "source", "client")
    BY Empty, RowsIn
  <2>5. Leads(texts[revNum], <<>>, ComposeBody(editor, correction))
    BY <1>7, <1>10, <2>3, LeadsNowhere
  <2> QED
    BY <1>7, <1>12, <2>2, <2>3, <2>4, <2>5
<1>15. CASE correction # EmptyBodyDelta /\ chain # <<>>
  <2>1. PICK more, event, d :
          /\ more = Composed(chain)
          /\ event = [source |-> "user", delta |-> TransformAs(correction, more, TRUE)]
          /\ d = TransformAs(more, correction, FALSE)
    OBVIOUS
  <2>2. UpdateWithChange(corrected, d, <<>>, <<event>>, BecomeIdle)
    BY <1>1, <1>8, <1>15, <2>1 DEF GotUpdate
  <2>3. snapshot' = new /\ UpdateQuill(<<event>>, d) /\ BecomeIdle
    BY <1>8, <1>9, <1>10, <1>11, <2>2 DEF UpdateWithChange
  <2>4. /\ d \in BodyDeltas /\ d.len <= Len(editor)
        /\ <<event>> \in Row(ChainEvents) /\ None(<<event>>, "source", "client")
        /\ Leads(texts[revNum], <<event>>, ComposeBody(editor, d))
    BY <1>3, <1>6, <1>7, <1>10, <2>1, CorrectionGoesUnder
  <2> QED
    BY <1>12, <2>3, <2>4
<1> QED
  BY <1>13, <1>14, <1>15

-----------------------------------------------------------------------------
(* The invariant, and what follows from it *)

\* What holds as long as no second error has been handled.
Inv == Flow /\ Data

IInv == errors \in Nat /\ (errors <= 1 => Inv)

LEMMA InitInv ==
  ASSUME EditsFit, Init
  PROVE  IInv
<1>1. PICK first, boot : first = Event("start") /\ boot = BootText
  OBVIOUS
<1>2. /\ queue = <<first>> /\ first.name = "start"
      /\ changes = <<EmptyBodyDelta>> /\ texts = <<boot>>
      /\ state = "detached" /\ busy = "nothing" /\ running = FALSE
      /\ snapshot = NoSnapshot /\ chain = <<>> /\ errors = 0 /\ editor = Placeholder
      /\ timers = <<>> /\ calls = <<>> /\ replies = <<>> /\ connection = "closed"
  BY <1>1 DEF Init, Event
<1>3. PICK none : none = <<>>
  OBVIOUS
<1>4. /\ IsRow(none) /\ In(none) = {}
      /\ \A f, x : None(none, f, x) /\ One(none, f, x)
      /\ \A f, x, y : Before(none, f, x, y)
      /\ CallsOf(none) = none
  <2>1. CallsOf(<<>>) = <<>>
    BY DEF CallsOf
  <2> QED
    BY <1>3, <2>1, Empty, Nowhere
<1>5. /\ IsRow(queue) /\ In(queue) = {first}
      /\ \A f, x : first[f] # x => None(queue, f, x)
      /\ \A f, x : One(queue, f, x)
      /\ \A f, x, y : x # y => Before(queue, f, x, y)
  <2>1. /\ IsRow(Append(none, first)) /\ In(Append(none, first)) = In(none) \cup {first}
        /\ \A f, x : None(Append(none, first), f, x) <=> None(none, f, x) /\ first[f] # x
        /\ \A f, x : One(Append(none, first), f, x) <=>
                       One(none, f, x) /\ (None(none, f, x) \/ first[f] # x)
        /\ \A f, x, y : x # y => (Before(Append(none, first), f, x, y) <=>
                          Before(none, f, x, y) /\ (None(none, f, y) \/ first[f] # x))
    BY <1>4, Appended
  <2>2. Append(none, first) = queue
    BY <1>2, <1>3
  <2> QED
    BY <1>4, <2>1, <2>2
<1>6. Flow
  <2>1. Rows
    BY <1>2, <1>3, <1>4, <1>5 DEF Rows
  <2>2. Modes
    BY <1>2, <1>5 DEF Modes, Halted, Names, Queued
  <2>3. Updates
    BY <1>2, <1>3, <1>4, <1>5 DEF Updates, Sent, Answered, Queued
  <2>4. Pushes
    BY <1>2, <1>3, <1>4, <1>5 DEF Pushes, TimerSet, Queued
  <2>5. Restarts
    BY <1>2, <1>3, <1>4, <1>5 DEF Restarts, Halted, TimerSet, Queued
  <2>6. Reading
    BY <1>2, <1>3, <1>4, <1>5 DEF Reading, TimerSet, Sent, Answered
  <2> QED
    BY <2>1, <2>2, <2>3, <2>4, <2>5, <2>6 DEF Flow
<1>7. ServerTrue
  <2>1. boot \in Text /\ EmptyBodyDelta \in BodyDeltas
    BY <1>1, EmptyDelta DEF EditsFit
  <2>2. texts \in Row(Text) /\ changes \in Row(BodyDeltas) /\ Len(texts) = 1 /\ Len(changes) = 1
    BY <1>2, <2>1 DEF Row
  <2> QED
    BY <2>2 DEF ServerTrue
<1>8. Document
  <2>1. <<>> \in Row(ChainEvents) /\ <<>> \in Text
    BY Empty, RowsIn DEF Text
  <2>2. NoSnapshot \in [revNum : Nat, text : Text]
    BY <2>1 DEF NoSnapshot
  <2> QED
    BY <1>2, <2>1, <2>2 DEF Document, Live, EditsFit
<1>9. Messages
  BY <1>2, <1>3, <1>4, <1>5 DEF Messages, EventOk
<1> QED
  BY <1>2, <1>6, <1>7, <1>8, <1>9 DEF IInv, Inv, Data

\* Errors are only added, one at a time.
LEMMA ErrorsAdd ==
  ASSUME errors \in Nat, [Next]_vars
  PROVE  errors' \in Nat /\ errors <= errors' /\ errors' <= errors + 1
<1>1. errors' = errors \/ errors' = errors + 1
  <2>1. CASE Dispatch
    <3>1. CASE \/ StartDetached \/ StartEnabled \/ StartAfterError \/ StopNow
               \/ WaitThenStop \/ StopUnrecoverable \/ NextState
      BY <3>1 DEF StartDetached, StartEnabled, StartAfterError, StopNow, WaitThenStop,
           StopUnrecoverable, NextState
    <3>2. CASE Error \/ WantInput \/ GotQuillEvent \/ WantToUpdate
      BY <3>2 DEF Error, WantInput, GotQuillEvent, WantToUpdate
    <3>4. CASE ApiError
      BY <3>4 DEF ApiError
    <3>3. CASE GotChangeAfter \/ WantInputAfterDelay \/ GotUpdate \/ Ignore \/ Unexpected
      BY <3>3, ZenonT(30) DEF GotChangeAfter, WantInputAfterDelay, GotUpdate, Ignore, Unexpected
    <3> QED
      BY <2>1, <3>1, <3>2, <3>3, <3>4 DEF Dispatch
  <2>2. CASE Fire \/ Serve
    BY <2>2 DEF Fire, FireTimer, Serve, ServeRead, ServeUpdate, ChangeAfterTimesOut
  <2>3. CASE \E i \in 1..Len(calls) : UpdateFails(i) \/ ServeOrphan(i)
    BY <2>3 DEF UpdateFails, ServeOrphan
  <2>4. CASE \/ NoticeQuillEvent \/ Receive \/ OthersEdit \/ AnnounceClose \/ Close
             \/ Disconnect \/ UserEdit \/ Stop \/ Start
    BY <2>4 DEF NoticeQuillEvent, Receive, OthersEdit, AnnounceClose, Close, Disconnect,
         UserEdit, Stop, Start
  <2>5. CASE UNCHANGED vars
    BY <2>5 DEF vars
  <2> QED
    BY <2>1, <2>2, <2>3, <2>4, <2>5 DEF Next
<1> QED
  BY <1>1

LEMMA DispatchInv ==
  ASSUME EditsFit, TextsAreDocuments, Inv, Dispatch, errors' <= 1
  PROVE  Inv'
<1>1. Flow /\ Data /\ Rows
  BY DEF Inv, Flow
<1>2. ~ (StopNow \/ WaitThenStop \/ StopUnrecoverable \/ Error \/ Unexpected)
  BY <1>1, NeverStopped
<1>3. CASE StartDetached
  BY <1>1, <1>3, StartDetachedFlow, StartDetachedData DEF Inv
<1>4. CASE StartEnabled
  BY <1>1, <1>4, StartEnabledFlow, StartEnabledData DEF Inv
<1>5. CASE StartAfterError
  BY <1>1, <1>5, StartAfterErrorFlow, StartAfterErrorData DEF Inv
<1>6. CASE NextState
  BY <1>1, <1>6, NextStateFlow, NextStateData DEF Inv
<1>7. CASE ApiError
  BY <1>1, <1>7, ApiErrorFlow, ApiErrorIgnoredFlow, ApiErrorData DEF Inv
<1>8. CASE WantInput
  BY <1>1, <1>8, WantInputFlow, WantInputData DEF Inv
<1>9. CASE GotQuillEvent
  BY <1>1, <1>9, GotQuillEventFlow, GotQuillEventData DEF Inv
<1>10. CASE WantToUpdate
  <2>1. state = "collecting"
    BY <1>10 DEF WantToUpdate, HandledIn
  <2>2. Collected # <<>>
    BY <1>1, <2>1, SomethingCollected
  <2> QED
    BY <1>1, <1>10, <2>2, WantToUpdateFlow, WantToUpdateData DEF Inv
<1>11. CASE GotChangeAfter
  BY <1>1, <1>11, GotChangeAfterFlow, GotChangeAfterData DEF Inv
<1>12. CASE WantInputAfterDelay
  BY <1>1, <1>12, WantInputAfterDelayFlow, WantInputAfterDelayData DEF Inv
<1>13. CASE GotUpdate
  BY <1>1, <1>13, GotUpdateFlow, GotUpdateData DEF Inv
<1>14. CASE Ignore
  BY <1>1, <1>14, IgnoreFlow, IgnoreData DEF Inv
<1> QED
  BY <1>2, <1>3, <1>4, <1>5, <1>6, <1>7, <1>8, <1>9, <1>10, <1>11, <1>12, <1>13, <1>14
     DEF Dispatch

LEMMA ServeInv ==
  ASSUME NoneVanishes, Inv, NEW i \in 1..Len(calls),
         ServeRead(i) \/ ServeUpdate(i) \/ ChangeAfterTimesOut(i) \/ UpdateFails(i)
         \/ ServeOrphan(i)
  PROVE  Inv'
<1>1. Flow /\ Data /\ Rows
  BY DEF Inv, Flow
<1>2. CASE ServeOrphan(i)
  BY <1>1, <1>2, ServeOrphanFlow, ServeOrphanData DEF Inv
<1>3. Data' \/ ServeOrphan(i)
  BY <1>1, ServeReadData, ServeUpdateData, ChangeAfterTimesOutData, UpdateFailsData
<1>4. CASE ~ ServeOrphan(i)
  <2>1. PICK event : Answer(i, event)
    BY <1>4 DEF ServeRead, ServeUpdate, ChangeAfterTimesOut, UpdateFails
  <2>2. /\ calls[i].method # "orphan"
        /\ UNCHANGED <<state, busy, connection, running, errors, timers, queue>>
    BY <1>4 DEF ServeRead, ServeUpdate, ChangeAfterTimesOut, UpdateFails, machine
  <2> QED
    BY <1>1, <1>3, <1>4, <2>1, <2>2, AnswerFlow DEF Inv
<1> QED
  BY <1>2, <1>4

LEMMA ReceiveInv ==
  ASSUME Inv, Receive
  PROVE  Inv'
<1>1. Flow /\ Data /\ Rows
  BY DEF Inv, Flow
<1>2. Head(replies) \in In(replies)
  BY <1>1, ReceiveMeans
<1>3. Paired(Head(replies))
  BY <1>1, <1>2 DEF Data, Messages, AnswerOk
<1>4. CASE Head(replies).event.name = "gotSnapshot"
  <2>1. Head(replies).call.method = "getSnapshot"
    BY <1>3, <1>4 DEF Paired
  <2> QED
    BY <1>1, <1>4, <2>1, GotSnapshotFlow, GotSnapshotData DEF Inv
<1>5. CASE Head(replies).event.name # "gotSnapshot"
  BY <1>1, <1>3, <1>5, GotAnswerFlow, GotAnswerData DEF Inv
<1> QED
  BY <1>4, <1>5

LEMMA StepInv ==
  ASSUME EditsFit, NoneVanishes, TextsAreDocuments, asked = "start", asked' = "start",
         IInv, [Next]_vars
  PROVE  IInv'
<1>1. errors \in Nat /\ errors' \in Nat /\ errors <= errors'
  BY ErrorsAdd DEF IInv
<1> SUFFICES ASSUME errors' <= 1 PROVE Inv'
  BY <1>1 DEF IInv
<1>2. Inv /\ Flow /\ Data /\ Rows
  BY <1>1 DEF IInv, Inv, Flow
<1>3. CASE Dispatch
  BY <1>2, <1>3, DispatchInv
<1>4. CASE NoticeQuillEvent
  BY <1>2, <1>4, NoticeQuillEventFlow, NoticeQuillEventData DEF Inv
<1>5. CASE Fire
  <2>1. PICK i \in 1..Len(timers) : FireTimer(i)
    BY <1>5 DEF Fire
  <2> QED
    BY <1>2, <2>1, FireTimerFlow, FireTimerData DEF Inv
<1>6. CASE Serve \/ \E i \in 1..Len(calls) : UpdateFails(i) \/ ServeOrphan(i)
  <2>1. PICK i \in 1..Len(calls) :
          ServeRead(i) \/ ServeUpdate(i) \/ ChangeAfterTimesOut(i) \/ UpdateFails(i)
          \/ ServeOrphan(i)
    BY <1>6 DEF Serve
  <2> QED
    BY <1>2, <2>1, ServeInv
<1>7. CASE Receive
  BY <1>2, <1>7, ReceiveInv
<1>8. CASE OthersEdit
  <2>1. UNCHANGED <<state, busy, connection, running, errors, timers, queue, calls, replies>>
    BY <1>8 DEF OthersEdit, machine, wire
  <2> QED
    BY <1>2, <1>8, <2>1, StillFlow, OthersEditData DEF Inv
<1>9. CASE UserEdit
  <2>1. UNCHANGED <<state, busy, connection, running, errors, timers, queue, calls, replies>>
    BY <1>9 DEF UserEdit, machine, wire
  <2> QED
    BY <1>2, <1>9, <2>1, StillFlow, UserEditData DEF Inv
<1>10. CASE AnnounceClose \/ Close
  BY <1>2, <1>10, ConnectionFlow, ConnectionData DEF Inv
<1>11. CASE Disconnect
  BY <1>2, <1>11, DisconnectFlow, DisconnectData DEF Inv
<1>12. ~ Stop /\ ~ Start
  BY DEF Stop, Start
<1>13. CASE UNCHANGED vars
  <2>1. /\ UNCHANGED <<state, busy, connection, running, errors, timers, queue, calls, replies>>
        /\ UNCHANGED <<changes, texts, snapshot, chain, editor>>
    BY <1>13 DEF vars, server, machine, document, wire
  <2>2. Data'
    BY <1>2, <2>1, DataKept
  <2> QED
    BY <1>2, <2>1, <2>2, StillFlow DEF Inv
<1> QED
  BY <1>3, <1>4, <1>5, <1>6, <1>7, <1>8, <1>9, <1>10, <1>11, <1>12, <1>13 DEF Next

LEMMA InvAgrees ==
  ASSUME Inv
  PROVE  SnapshotAgrees
<1>1. snapshot # NoSnapshot => snapshot.text = texts[snapshot.revNum]
  BY DEF Inv, Data, Document, IsRevision
<1>2. \A i \in 1..Len(queue) : queue[i].name # "error"
  <2>1. \A e \in In(queue) : e.name # "error"
    BY DEF Inv, Flow, Modes, Names
  <2> QED
    BY <2>1 DEF In
<1> QED
  BY <1>1, <1>2 DEF SnapshotAgrees

\* What is in flight is nothing unless merging, and else something that the
\* events of the chain lead on from.
LEMMA InFlightIs ==
  ASSUME Inv
  PROVE  /\ state # "merging" => InFlight = {}
         /\ \A delta \in InFlight : OnTheWay(snapshot.text, chain, editor, delta)
<1>1. /\ DOMAIN calls = 1..Len(calls) /\ DOMAIN replies = 1..Len(replies)
      /\ DOMAIN queue = 1..Len(queue)
  BY DEF Inv, Flow, Rows, IsRow
<1>2. /\ \A i \in DOMAIN calls : calls[i] \in In(calls)
      /\ \A i \in DOMAIN replies : replies[i] \in In(replies)
      /\ \A i \in DOMAIN queue : queue[i] \in In(queue)
  BY <1>1 DEF In
<1>3. ASSUME state # "merging" PROVE InFlight = {}
  <2>1. /\ \A i \in DOMAIN calls : calls[i].method # "update"
        /\ \A i \in DOMAIN replies : replies[i].call.method # "update"
        /\ \A i \in DOMAIN queue : queue[i].name # "gotUpdate"
    BY <1>2, <1>3, NoUpdates DEF Inv
  <2> QED
    BY <2>1 DEF InFlight
<1>4. ASSUME NEW delta \in InFlight
      PROVE  OnTheWay(snapshot.text, chain, editor, delta)
  <2>1. CASE \E i \in DOMAIN calls : calls[i].method = "update" /\ delta = calls[i].delta
    BY <1>2, <2>1 DEF Inv, Data, Messages, CallOk
  <2>2. CASE \E i \in DOMAIN replies :
               replies[i].call.method = "update" /\ delta = replies[i].call.delta
    BY <1>2, <2>2 DEF Inv, Data, Messages, AnswerOk
  <2>3. CASE \E i \in DOMAIN queue : queue[i].name = "gotUpdate" /\ delta = queue[i].delta
    BY <1>2, <2>3 DEF Inv, Data, Messages, EventOk
  <2> QED
    BY <2>1, <2>2, <2>3 DEF InFlight
<1> QED
  BY <1>3, <1>4

LEMMA InvInSync ==
  ASSUME Inv
  PROVE  EditorInSync
<1>1. chain \in Row(ChainEvents)
  BY DEF Inv, Data, Document
<1>2. ASSUME state \in {"idle", "collecting"}
      PROVE  InFlight = {} /\ editor = Typed(snapshot.text)
  <2>1. Leads(snapshot.text, chain, editor)
    BY <1>2 DEF Inv, Data, Document
  <2>2. Typed(snapshot.text) = editor
    BY <1>1, <2>1, TypedIs
  <2> QED
    BY <1>2, <2>2, InFlightIs
<1>3. ASSUME NEW delta \in InFlight
      PROVE  editor = Typed(ComposeBody(snapshot.text, delta))
  <2>1. Leads(ComposeBody(snapshot.text, delta), chain, editor)
    BY InFlightIs DEF OnTheWay
  <2> QED
    BY <1>1, <2>1, TypedIs
<1> QED
  BY <1>2, <1>3 DEF EditorInSync

\* What is asked of the world: the client is not stopped, no update becomes
\* empty on its way while the document is another than its sender thinks, and
\* every revision is a text that the client accepts.
Ordinary == asked = "start" /\ NoneVanishes /\ TextsAreDocuments

\* However the user types, others edit, answers are late, calls fail, and the
\* connection breaks or is closed: until a second error has been handled, what
\* the client holds as a revision (BodyClient._snapshot) is that revision, and no
\* event comes that its state has no handler for.
THEOREM ClientFollows ==
  ASSUME EditsFit
  PROVE  Spec /\ []Ordinary => [](errors <= 1 => SnapshotAgrees)
<1>1. Init => IInv
  BY InitInv
<1>2. Ordinary /\ Ordinary' /\ IInv /\ [Next]_vars => IInv'
  BY StepInv DEF Ordinary
<1>3. IInv => (errors <= 1 => SnapshotAgrees)
  BY InvAgrees DEF IInv
<1> QED
  BY <1>1, <1>2, <1>3, PTL DEF Spec

\* Under the same conditions the editor shows the snapshot, the update in flight
\* and what was typed since, and nothing else: no change or correction from the
\* server is applied over what the user types as it arrives
\* (BodyClient._handle_idle_gotChangeAfter, _handle_merging_gotUpdate).
THEOREM EditorFollows ==
  ASSUME EditsFit
  PROVE  Spec /\ []Ordinary => [](errors <= 1 => EditorInSync)
<1>1. Init => IInv
  BY InitInv
<1>2. Ordinary /\ Ordinary' /\ IInv /\ [Next]_vars => IInv'
  BY StepInv DEF Ordinary
<1>3. IInv => (errors <= 1 => EditorInSync)
  BY InvInSync DEF IInv
<1> QED
  BY <1>1, <1>2, <1>3, PTL DEF Spec

-----------------------------------------------------------------------------
(* A client that nothing disturbs *)

\* The connection stays open, nothing fails and nobody stops the client.
Calm ==
  /\ spent \in [user : Nat, others : Nat, troubles : {0}]
  /\ asked = "start" /\ errors = 0
  /\ connection # "closing" /\ (connection = "closed" => state = "detached")
  /\ \A e \in In(queue) : e.name # "apiError"
  /\ \A answer \in In(replies) : answer.event.name # "apiError"

LEMMA InitCalm ==
  ASSUME Init
  PROVE  Calm
<1>1. PICK first : first = Event("start")
  OBVIOUS
<1>2. /\ queue = <<first>> /\ first.name = "start" /\ replies = <<>>
      /\ spent = [user |-> 0, others |-> 0, troubles |-> 0]
      /\ asked = "start" /\ errors = 0 /\ connection = "closed" /\ state = "detached"
  BY <1>1 DEF Init, Event
<1>3. \A i \in 1..Len(queue) : queue[i] = first
  BY <1>2
<1>4. \A e \in In(queue) : e = first
  BY <1>3 DEF In
<1>5. \A i \in 1..Len(replies) : FALSE
  BY <1>2
<1>6. In(replies) = {}
  BY <1>5 DEF In
<1> QED
  BY <1>2, <1>4, <1>6 DEF Calm

\* A handler that tells of no failure.
LEMMA CalmQueue ==
  ASSUME Rows, Calm, queue # <<>>,
         \/ Handled
         \/ \E e : e.name # "apiError" /\ Enqueue(e)
  PROVE  \A e \in In(queue') : e.name # "apiError"
<1>1. \/ In(queue') \subseteq In(queue)
      \/ \E e : e.name # "apiError" /\ In(queue') \subseteq In(queue) \cup {e}
  BY HandledMeans DEF Becomes
<1> QED
  BY <1>1 DEF Calm

\* No handler finds a connection that it cannot call on.
LEMMA DispatchCalm ==
  ASSUME Inv, Calm, Dispatch
  PROVE  Calm'
<1>1. Flow /\ Data /\ Rows
  BY DEF Inv, Flow
<1>2. ~ (StopNow \/ WaitThenStop \/ StopUnrecoverable \/ Error \/ Unexpected)
  BY <1>1, NeverStopped
<1>3. ~ ApiError
  <2>1. queue # <<>> => Head(queue) \in In(queue)
    BY <1>1, Nowhere DEF Rows
  <2> QED
    BY <2>1 DEF ApiError, Handling, Calm
<1>4. ~ StartAfterError /\ ~ NextState
  BY <1>1 DEF StartAfterError, NextState, HandledIn, Handling, Flow, Modes, Halted, Calm
<1>5. \A name : Event(name).name = name
  BY DEF Event
<1>6. ASSUME queue # <<>>, \/ Handled \/ \E e : e.name # "apiError" /\ Enqueue(e),
             UNCHANGED <<spent, asked, errors, replies>>,
             \/ connection' = "open"
             \/ UNCHANGED connection /\ (UNCHANGED state \/ state # "detached")
      PROVE  Calm'
  <2>1. \A e \in In(queue') : e.name # "apiError"
    BY <1>1, <1>6, CalmQueue
  <2>2. connection' # "closing" /\ (connection' = "closed" => state' = "detached")
    BY <1>6 DEF Calm
  <2> QED
    BY <1>6, <2>1, <2>2 DEF Calm
<1>7. CASE StartDetached
  <2>1. /\ queue # <<>> /\ Handled /\ connection' = "open"
        /\ UNCHANGED <<spent, asked, errors, replies>>
    BY <1>7 DEF StartDetached, HandledIn, Handling, Calm, world
  <2> QED
    BY <1>6, <2>1
<1>8. CASE StartEnabled
  <2>1. /\ queue # <<>> /\ state # "detached" /\ BecomeIdle
        /\ UNCHANGED <<spent, asked, errors, replies, connection>>
    BY <1>8 DEF StartEnabled, HandledIn, Handling, wire, world
  <2> QED
    BY <1>5, <1>6, <2>1 DEF BecomeIdle
<1>9. CASE WantInput
  <2>1. /\ queue # <<>> /\ state # "detached" /\ UNCHANGED state
        /\ Handled \/ connection = "closed" \/ connection = "closing"
        /\ UNCHANGED <<spent, asked, errors, replies, connection>>
    <3>1. connection = "open" \/ connection = "closed" \/ connection = "closing"
      BY <1>1 DEF Flow, Modes
    <3> QED
      BY <1>9, <3>1 DEF WantInput, HandledIn, Handling, Call, Handled, world
  <2>2. Handled
    BY <2>1 DEF Calm
  <2> QED
    BY <1>6, <2>1, <2>2
<1>10. CASE GotQuillEvent
  <2>1. /\ queue # <<>> /\ state # "detached" /\ (BecomeIdle \/ Handled)
        /\ UNCHANGED <<spent, asked, errors, replies, connection>>
    BY <1>10 DEF GotQuillEvent, HandledIn, Handling, wire, world
  <2> QED
    BY <1>5, <1>6, <2>1 DEF BecomeIdle
<1>11. CASE WantToUpdate
  <2>1. /\ queue # <<>> /\ state # "detached"
        /\ UNCHANGED <<spent, asked, errors, replies, connection>>
    BY <1>11 DEF WantToUpdate, HandledIn, Handling, world
  <2>2. connection = "open"
    BY <1>1, <2>1 DEF Flow, Modes, Calm
  <2>3. BecomeIdle \/ Throw \/ Handled
    BY <1>11, <2>2 DEF WantToUpdate, Call, Handled
  <2> QED
    BY <1>5, <1>6, <2>1, <2>3 DEF BecomeIdle, Throw
<1>12. CASE GotChangeAfter
  <2>1. /\ queue # <<>> /\ state # "detached"
        /\ \E name \in {"wantInputAfterDelay", "error"} : Enqueue(Event(name))
        /\ UNCHANGED <<spent, asked, errors, replies, connection>>
    BY <1>12 DEF GotChangeAfter, HandledIn, Handling, UpdateWithChange, Throw, wire, world
  <2> QED
    BY <1>5, <1>6, <2>1
<1>13. CASE WantInputAfterDelay
  <2>1. /\ queue # <<>> /\ state # "detached" /\ Handled
        /\ UNCHANGED <<spent, asked, errors, replies, connection>>
    BY <1>13 DEF WantInputAfterDelay, HandledIn, Handling, wire, world
  <2> QED
    BY <1>6, <2>1
<1>14. CASE GotUpdate
  <2>1. /\ queue # <<>> /\ state # "detached" /\ (BecomeIdle \/ Throw)
        /\ UNCHANGED <<spent, asked, errors, replies, connection>>
    BY <1>14 DEF GotUpdate, HandledIn, Handling, UpdateWithChange, wire, world
  <2> QED
    BY <1>5, <1>6, <2>1 DEF BecomeIdle, Throw
<1>15. CASE Ignore
  <2>1. /\ queue # <<>> /\ Handled
        /\ UNCHANGED <<spent, asked, errors, replies, connection, state>>
    BY <1>15 DEF Ignore, Handling, wire, world
  <2> QED
    BY <1>6, <2>1
<1> QED
  BY <1>2, <1>3, <1>4, <1>7, <1>8, <1>9, <1>10, <1>11, <1>12, <1>13, <1>14, <1>15
     DEF Dispatch

LEMMA StepCalm ==
  ASSUME MaxTroubles = 0, Inv, Calm, [Next]_vars
  PROVE  Calm'
<1>1. Flow /\ Data /\ Rows
  BY DEF Inv, Flow
<1>2. ~ MayTrouble
  BY DEF MayTrouble, Calm
<1>3. ~ AnnounceClose /\ ~ Close /\ ~ Disconnect /\ ~ Stop /\ ~ Start
  BY <1>2 DEF AnnounceClose, Close, Disconnect, Stop, Start, Calm
<1>4. CASE Dispatch
  BY <1>4, DispatchCalm
<1>5. ASSUME UNCHANGED <<asked, errors, replies, connection, state>>,
             spent' \in [user : Nat, others : Nat, troubles : {0}],
             \/ UNCHANGED queue
             \/ \E e : e.name # "apiError" /\ queue' = Append(queue, e)
      PROVE  Calm'
  <2>1. \/ In(queue') \subseteq In(queue)
        \/ \E e : e.name # "apiError" /\ In(queue') \subseteq In(queue) \cup {e}
    BY <1>1, <1>5, QueuedMeans DEF Becomes
  <2> QED
    BY <1>5, <2>1 DEF Calm
<1>6. CASE NoticeQuillEvent
  <2>1. PICK e : e = [name |-> "gotQuillEvent", revNum |-> Head(awaits).revNum]
    BY Zenon
  <2>2. /\ queue' = Append(queue, e) /\ e.name # "apiError"
        /\ UNCHANGED <<asked, errors, replies, connection, state, spent>>
    BY <1>6, <2>1 DEF NoticeQuillEvent, wire, world
  <2> QED
    BY <1>5, <2>2 DEF Calm
<1>7. CASE Fire
  <2>1. PICK i \in 1..Len(timers) : FireTimer(i)
    BY <1>7 DEF Fire
  <2>2. UNCHANGED <<asked, errors, replies, connection, state, spent>>
    BY <2>1 DEF FireTimer, wire, world
  <2>3. PICK push : push = [name |-> "wantToUpdate", revNum |-> timers[i].revNum]
    BY Zenon
  <2>4. push.name # "apiError" /\ \A name : Event(name).name = name
    BY <2>3 DEF Event
  <2>5. \/ UNCHANGED queue
        \/ \E e \in {push, Event("start"), Event("stop"), Event("wantInput")} :
             queue' = Append(queue, e)
    BY <2>1, <2>3 DEF FireTimer
  <2>6. \/ UNCHANGED queue
        \/ \E e : e.name # "apiError" /\ queue' = Append(queue, e)
    BY <2>4, <2>5
  <2> QED
    BY <1>5, <2>2, <2>6 DEF Calm
<1>8. CASE \E i \in 1..Len(calls) : UpdateFails(i)
  BY <1>2, <1>8 DEF UpdateFails
<1>9. CASE \E i \in 1..Len(calls) : ServeOrphan(i)
  <2>1. UNCHANGED <<asked, errors, replies, connection, state, spent, queue>>
    BY <1>9 DEF ServeOrphan, machine, world
  <2> QED
    BY <1>5, <2>1 DEF Calm
<1>10. CASE Serve
  <2>1. PICK i \in 1..Len(calls) : ServeRead(i) \/ ServeUpdate(i) \/ ChangeAfterTimesOut(i)
    BY <1>10 DEF Serve
  <2>2. ~ ChangeAfterTimesOut(i)
    BY <1>2 DEF ChangeAfterTimesOut, Calm
  <2>3. UNCHANGED <<asked, errors, connection, state, spent, queue>>
    BY <2>1, <2>2 DEF ServeRead, ServeUpdate, machine, world
  <2>4. PICK event : Answer(i, event) /\ event.name # "apiError"
    BY <2>1, <2>2 DEF ServeRead, ServeUpdate, GotUpdateEvent
  <2>5. PICK answer : answer = [call |-> calls[i], event |-> event]
    BY Zenon
  <2>6. In(replies') = In(replies) \cup {answer} /\ answer.event.name # "apiError"
    BY <1>1, <2>4, <2>5, AnswerMeans
  <2> QED
    BY <2>3, <2>6 DEF Calm
<1>11. CASE Receive
  <2>1. /\ Head(replies) \in In(replies) /\ In(replies') \subseteq In(replies)
        /\ replies # <<>> /\ UNCHANGED <<asked, errors, connection, spent>>
    BY <1>1, <1>11, ReceiveMeans DEF Receive, world
  <2>2. connection = "open"
    BY <1>1, <2>1 DEF Flow, Modes, Reading, Calm
  <2>3. PICK e : queue' = Append(queue, e) /\ e.name # "apiError"
    <3>1. Event("start").name # "apiError"
      BY DEF Event
    <3> QED
      BY <1>11, <2>1, <3>1 DEF Receive, GotSnapshot, Calm
  <2>4. In(queue') \subseteq In(queue) \cup {e}
    BY <1>1, <2>3, QueuedMeans DEF Becomes
  <2> QED
    BY <2>1, <2>2, <2>3, <2>4 DEF Calm
<1>12. CASE OthersEdit
  <2>1. /\ UNCHANGED <<asked, errors, replies, connection, state, queue>>
        /\ spent' = [spent EXCEPT !.others = @ + 1]
    BY <1>12 DEF OthersEdit, machine, wire
  <2>2. spent' \in [user : Nat, others : Nat, troubles : {0}]
    BY <2>1 DEF Calm
  <2> QED
    BY <1>5, <2>1, <2>2
<1>13. CASE UserEdit
  <2>1. /\ UNCHANGED <<asked, errors, replies, connection, state, queue>>
        /\ spent' = [spent EXCEPT !.user = @ + 1]
    BY <1>13 DEF UserEdit, machine, wire
  <2>2. spent' \in [user : Nat, others : Nat, troubles : {0}]
    BY <2>1 DEF Calm
  <2> QED
    BY <1>5, <2>1, <2>2
<1>14. CASE UNCHANGED vars
  <2>1. UNCHANGED <<asked, errors, replies, connection, state, queue, spent>>
    BY <1>14 DEF vars, server, machine, wire, world
  <2> QED
    BY <1>5, <2>1 DEF Calm
<1> QED
  BY <1>3, <1>4, <1>6, <1>7, <1>8, <1>9, <1>10, <1>11, <1>12, <1>13, <1>14 DEF Next

\* As in ClientFollows and EditorFollows, of a client that is not stopped and
\* whose calls do not fail: nothing need be said of errors then.
THEOREM UndisturbedFollows ==
  ASSUME EditsFit, MaxTroubles = 0
  PROVE  Spec /\ [](NoneVanishes /\ TextsAreDocuments) => [](SnapshotAgrees /\ EditorInSync)
<1>1. Init => IInv /\ Calm
  BY InitInv, InitCalm
<1>2. /\ NoneVanishes /\ TextsAreDocuments /\ (NoneVanishes /\ TextsAreDocuments)'
      /\ IInv /\ Calm /\ [Next]_vars
      => IInv' /\ Calm'
  <2> SUFFICES ASSUME NoneVanishes, TextsAreDocuments, IInv, Calm, [Next]_vars
               PROVE  IInv' /\ Calm'
    OBVIOUS
  <2>1. Inv /\ asked = "start" /\ errors = 0
    BY DEF Calm, IInv
  <2>2. errors' <= 1
    BY <2>1, ErrorsAdd
  <2>3. Calm'
    BY <2>1, <2>2, StepCalm
  <2>4. asked' = "start"
    BY <2>3 DEF Calm
  <2> QED
    BY <2>1, <2>3, <2>4, StepInv
<1>3. IInv /\ Calm => SnapshotAgrees /\ EditorInSync
  BY InvAgrees, InvInSync DEF IInv, Calm
<1> QED
  BY <1>1, <1>2, <1>3, PTL DEF Spec

-----------------------------------------------------------------------------
(***************************************************************************)
(* The server's log of texts: BaseControl over body data (BodyControl).    *)
(* The constants and variables of this section are those of BaseControl.   *)
(***************************************************************************)

CONSTANTS Parts, Callers, Submittable(_, _), BootDelta, BootContents, Period,
          NoCaller, Bad
VARIABLES fileRev, revNum, log, snapshots, stored, call, saves

Control == INSTANCE BaseControlProofs WITH
  Calls <- Callers, Contents <- BodyDocuments, EmptyDelta <- EmptyBodyDelta,
  Compose <- ComposeBody, Diff <- DiffBody, Rebase <- RebaseBody,
  ChangesPerStoredSnapshot <- Period, NoCall <- NoCaller, BadValue <- Bad,
  changes <- log,
  Names <- {}, Values <- {}, Deleted <- Bad

\* What BaseControl assumes that is not a law of texts.
ControlAssumptions ==
  /\ NoCaller \notin Callers
  /\ Bad \notin BodyDocuments
  /\ Period \in Nat \ {0}
  /\ Control!BootRev \in Nat
  /\ BootContents \in [0..Control!BootRev -> BodyDocuments]
  /\ \A r \in 1..Control!BootRev :
       BootContents[r] = Control!NewContents(BootContents[r - 1], BootDelta[r])

\* Clients send changes that leave the last newline alone, and last, and none
\* of an empty document; FileBootstrap fills the empty one.
ClientsKeepEnd ==
  /\ \A c \in Callers, old \in BodyDocuments : \A d \in Submittable(c, old) :
       d \in BodyDeltas /\ KeepsEnd(d, Len(old))
  /\ \A r \in 1..Control!BootRev :
       /\ BootDelta[r] \in BodyDeltas /\ BootDelta[r].len <= Len(BootContents[r - 1])
       /\ BootContents[r - 1] # <<>> => KeepsEnd(BootDelta[r], Len(BootContents[r - 1]))

\* The changes of a document that fit and, unless it is empty, keep its end.
EndKeeping ==
  {pair \in BodyDocuments \X BodyDeltas :
     /\ ComposeBody(pair[1], pair[2]) \in BodyDocuments
     /\ pair[1] # <<>> => KeepsEnd(pair[2], Len(pair[1]))}

\* The laws of composition and diff that BaseControl assumes hold of texts.
LEMMA ControlLaws ==
  /\ \A text \in BodyDocuments : ComposeBody(text, EmptyBodyDelta) = text
  /\ \A old, new \in BodyDocuments : ComposeBody(old, DiffBody(old, new)) = new
<1>1. ASSUME NEW text \in BodyDocuments PROVE ComposeBody(text, EmptyBodyDelta) = text
  BY EmptyDelta DEF BodyDocuments
<1>2. ASSUME NEW old \in BodyDocuments, NEW new \in BodyDocuments
      PROVE  ComposeBody(old, DiffBody(old, new)) = new
  BY DiffIs DEF BodyDocuments
<1> QED
  BY <1>1, <1>2

LEMMA EmptyLength ==
  ASSUME NEW text \in BodyDocuments
  PROVE  Len(text) \in Nat /\ (text # <<>> <=> Len(text) > 0)
<1>1. text \in Seq(Chars)
  BY TextIs DEF BodyDocuments
<1> QED
  BY <1>1

LEMMA EndKeepingFits ==
  ASSUME ControlAssumptions, ClientsKeepEnd
  PROVE  Control!RebaseFits(EndKeeping)
<1>1. \A pair \in EndKeeping :
        pair[1] \in BodyDocuments /\ ComposeBody(pair[1], pair[2]) \in BodyDocuments
  BY DEF EndKeeping
<1>2. ASSUME NEW r \in 1..Control!BootRev
      PROVE  <<BootContents[r - 1], BootDelta[r]>> \in EndKeeping
  <2>1. r - 1 \in 0..Control!BootRev /\ r \in 0..Control!BootRev
    BY DEF ControlAssumptions
  <2>2. BootContents[r - 1] \in BodyDocuments /\ BootContents[r] \in BodyDocuments
    BY <2>1 DEF ControlAssumptions
  <2>3. ComposeBody(BootContents[r - 1], BootDelta[r]) \in BodyDocuments
    BY <2>2 DEF ControlAssumptions, Control!NewContents
  <2> QED
    BY <2>2, <2>3 DEF EndKeeping, ClientsKeepEnd
<1>3. ASSUME NEW c \in Callers, NEW old \in BodyDocuments, NEW d \in Submittable(c, old),
             ComposeBody(old, d) \in BodyDocuments
      PROVE  <<old, d>> \in EndKeeping
  BY <1>3 DEF EndKeeping, ClientsKeepEnd
<1>4. ASSUME NEW n \in Nat \ {0}, NEW history \in [0..n -> BodyDocuments],
             NEW c \in Callers, NEW d \in Submittable(c, history[0]), NEW deltas,
             deltas = [i \in 1..n |-> deltas[i]],
             <<history[0], d>> \in EndKeeping,
             \A i \in 1..n : /\ <<history[i - 1], deltas[i]>> \in EndKeeping
                            /\ history[i] = ComposeBody(history[i - 1], deltas[i])
      PROVE  <<history[n],
               RebaseBody(d, ComposeBody(history[0], d), deltas, history[n])>> \in EndKeeping
  <2>0. 0 \in 0..n /\ n \in 0..n /\ n \in Nat /\ n <= n
    OBVIOUS
  <2>1. history[0] \in BodyDocuments /\ history[n] \in BodyDocuments
    BY <2>0
  <2>2. d \in BodyDeltas /\ KeepsEnd(d, Len(history[0])) /\ Len(history[0]) > 0
    BY <2>1 DEF ClientsKeepEnd, KeepsEnd
  <2>3. deltas \in [1..n -> BodyDeltas]
    <3>1. \A i \in 1..n : deltas[i] \in BodyDeltas
      BY <1>4 DEF EndKeeping
    <3> QED
      BY <1>4, <3>1
  <2> DEFINE Good == {k \in Nat : k <= n => Len(history[k]) > 0}
  <2>4. 0 \in Good
    BY <2>2
  <2>5. ASSUME NEW k \in Nat, k \in Good PROVE k + 1 \in Good
    <3> SUFFICES ASSUME k + 1 <= n PROVE Len(history[k + 1]) > 0
      OBVIOUS
    <3>1. PICK i \in 1..n : i = k + 1 /\ i - 1 = k /\ k \in 0..n
      OBVIOUS
    <3>2. Len(history[k]) > 0
      BY <2>5
    <3>3. PICK text \in BodyDocuments, delta \in BodyDeltas : text = history[k] /\ delta = deltas[i]
      BY <2>3, <3>1
    <3>4. <<text, delta>> \in EndKeeping /\ history[i] = ComposeBody(text, delta)
      BY <1>4, <3>1, <3>3
    <3>5. KeepsEnd(delta, Len(text))
      BY <3>2, <3>3, <3>4, EmptyLength DEF EndKeeping
    <3> QED
      BY <3>1, <3>4, <3>5, DocumentStays
  <2> HIDE DEF Good
  <2>6. \A k \in Nat : k \in Good
    BY <2>4, <2>5, Induction
  <2>7. \A k \in 0..n : Len(history[k]) > 0
    BY <2>6 DEF Good
  <2>8. ASSUME NEW i \in 1..n
        PROVE  /\ KeepsEnd(deltas[i], Len(history[i - 1]))
               /\ history[i] = ComposeBody(history[i - 1], deltas[i])
    <3>1. i - 1 \in 0..n
      OBVIOUS
    <3>2. Len(history[i - 1]) > 0 /\ history[i - 1] \in BodyDocuments
      BY <2>7, <3>1
    <3>3. history[i - 1] # <<>>
      BY <3>2, EmptyLength
    <3> QED
      BY <1>4, <3>3 DEF EndKeeping
  <2>9. KeepsEnds(deltas, n, history)
    BY <2>8 DEF KeepsEnds
  <2> DEFINE new == RebaseBody(d, ComposeBody(history[0], d), deltas, history[n])
  <2>10. new \in BodyDeltas /\ KeepsEnd(new, Len(history[n]))
    BY <2>0, <2>2, <2>3, <2>9, RebaseKeepsEnd
  <2> HIDE DEF new
  <2>11. ComposeBody(history[n], new) \in BodyDocuments
    BY <2>1, <2>10, DocumentStays
  <2>12. <<history[n], new>> \in EndKeeping
    BY <2>1, <2>10, <2>11 DEF EndKeeping
  <2> QED
    BY <2>12 DEF new
<1> QED
  BY <1>1, <1>2, <1>3, <1>4 DEF Control!RebaseFits

\* Every revision of the body can be served, whatever the text and however many
\* calls race: if clients leave the end of the document alone, no rebase appends
\* a change that does not fit or that takes the last newline away
\* (BaseControl.update(), BodyControl._impl_rebase(), BodySnapshot).
THEOREM TextsAlwaysServed ==
  ASSUME ControlAssumptions, ClientsKeepEnd
  PROVE  Control!Spec => []Control!AlwaysServable
<1>1. Control!RebaseFits(EndKeeping)
  BY EndKeepingFits
<1>2. /\ Control!CallsAssumption /\ Control!BadValueAssumption /\ Control!PeriodAssumption
      /\ Control!BootAssumption
  BY DEF ControlAssumptions, Control!CallsAssumption, Control!BadValueAssumption,
         Control!PeriodAssumption, Control!BootAssumption
<1>3. Control!EmptyAssumption /\ Control!DiffAssumption
  BY ControlLaws DEF Control!EmptyAssumption, Control!DiffAssumption
<1> QED
  BY <1>1, <1>2, <1>3, Control!AlwaysServed
=============================================================================
