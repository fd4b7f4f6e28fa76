--------------------------- MODULE SequenceLemmas ---------------------------
(***************************************************************************)
(* Facts about numbers and duplicate-free sequences for the proofs about   *)
(* the schedulers: what the queue operations of the code (append,          *)
(* appendleft, popleft, pop, remove, and the rebuilding of the running     *)
(* list) do to the elements of a queue without duplicates.                 *)
(***************************************************************************)
EXTENDS Queues, FiniteSetTheorems, TLAPS

\* Sequences with the same elements at the same places are the same.
LEMMA EqualLemma ==
    ASSUME NEW S, NEW s \in Seq(S), NEW t \in Seq(S), Len(s) = Len(t),
           \A i \in 1 .. Len(s) : s[i] = t[i]
    PROVE  s = t
OBVIOUS

\* The elements of a concatenation.
LEMMA JoinedLemma ==
    ASSUME NEW S, NEW s \in Seq(S), NEW t \in Seq(S)
    PROVE  /\ s \o t \in Seq(S) /\ Len(s \o t) = Len(s) + Len(t)
           /\ \A i \in 1 .. Len(s) + Len(t) :
                 (s \o t)[i] = IF i <= Len(s) THEN s[i] ELSE t[i - Len(s)]
OBVIOUS

\* Concatenation is associative.
LEMMA JoinAssociative ==
    ASSUME NEW S, NEW s \in Seq(S), NEW t \in Seq(S), NEW u \in Seq(S)
    PROVE  (s \o t) \o u = s \o (t \o u)
<1> DEFINE l == (s \o t) \o u
           r == s \o (t \o u)
<1>1. l \in Seq(S) /\ r \in Seq(S) /\ Len(l) = Len(r)
  OBVIOUS
<1>2. \A i \in 1 .. Len(l) : l[i] = r[i]
  OBVIOUS
<1> QED  BY <1>1, <1>2, EqualLemma, Zenon

\* An element appended to the first part is one put before the second.
LEMMA AppendJoin ==
    ASSUME NEW S, NEW s \in Seq(S), NEW e \in S, NEW t \in Seq(S)
    PROVE  Append(s, e) \o t = s \o (<<e>> \o t)
<1> DEFINE l == Append(s, e) \o t
           r == s \o (<<e>> \o t)
<1>1. l \in Seq(S) /\ r \in Seq(S) /\ Len(l) = Len(r)
  OBVIOUS
<1>2. \A i \in 1 .. Len(l) : l[i] = r[i]
  OBVIOUS
<1> QED  BY <1>1, <1>2, EqualLemma, Zenon

\* The elements of a part of a sequence.
LEMMA SliceLemma ==
    ASSUME NEW S, NEW s, NEW m \in Int, NEW n \in Int, \A i \in m .. n : s[i] \in S
    PROVE  /\ SubSeq(s, m, n) \in Seq(S)
           /\ Len(SubSeq(s, m, n)) = IF m <= n THEN n - m + 1 ELSE 0
           /\ \A i \in 1 .. n - m + 1 : SubSeq(s, m, n)[i] = s[m + i - 1]
OBVIOUS

\* A part that ends before it begins is empty.
LEMMA SliceEmpty ==
    ASSUME NEW s, NEW m \in Int, NEW n \in Int, n < m
    PROVE  SubSeq(s, m, n) = <<>>
OBVIOUS

\* A part is its first element and the rest.
LEMMA SliceFirst ==
    ASSUME NEW S, NEW s \in Seq(S), NEW m \in 1 .. Len(s), NEW n \in m .. Len(s)
    PROVE  SubSeq(s, m, n) = <<s[m]>> \o SubSeq(s, m + 1, n)
<1> DEFINE l == SubSeq(s, m, n)
           r == <<s[m]>> \o SubSeq(s, m + 1, n)
<1>1. l \in Seq(S) /\ r \in Seq(S) /\ Len(l) = Len(r)
  OBVIOUS
<1>2. \A i \in 1 .. Len(l) : l[i] = r[i]
  OBVIOUS
<1> QED  BY <1>1, <1>2, EqualLemma, Zenon

\* The full blocks of n tokens hold at most n tokens.
LEMMA DivBounds ==
    ASSUME NEW n \in Nat, NEW b \in Nat \ {0}
    PROVE  n \div b \in Nat /\ (n \div b) * b <= n
OBVIOUS

\* Fewer tokens in blocks of the same size are fewer blocks.
LEMMA MulCancel ==
    ASSUME NEW x \in Nat, NEW y \in Nat, NEW b \in Nat \ {0}, x * b < y * b + b
    PROVE  x <= y
<1>1. SUFFICES ASSUME y + 1 <= x PROVE FALSE
  OBVIOUS
<1>2. (y + 1) * b <= x * b
  BY <1>1
<1>3. (y + 1) * b = y * b + b
  OBVIOUS
<1> QED  BY <1>2, <1>3

\* A place behind the first h lies, in multiples of m, beyond all that they hold.
LEMMA MulBeyond ==
    ASSUME NEW c \in Nat, NEW h \in Nat, NEW k \in Nat, NEW m \in Nat \ {0}, h + 1 <= k, c <= h * m
    PROVE  c < k * m
<1> DEFINE a == h * m
           b == k * m
<1>1. a \in Nat /\ b \in Nat
  OBVIOUS
<1>2. (h + 1) * m = a + m
  OBVIOUS
<1>3. (h + 1) * m <= b
  OBVIOUS
<1>4. c <= a
  BY Zenon
<1> HIDE DEF a, b
<1>5. c < b
  <2>1. a + m <= b
    BY <1>2, <1>3, Zenon
  <2> QED  BY <1>1, <1>4, <2>1
<1> QED  BY <1>5, Zenon DEF b

\* Min of a non-empty set of naturals is its least element.
LEMMA MinExists ==
    ASSUME NEW T \in SUBSET Nat, T # {}
    PROVE  Min(T) \in T /\ \A y \in T : Min(T) <= y
<1>1. PICK x \in T : \A y \in T : ~(<<y, x>> \in OpToRel(<, Nat))
  BY NatLessThanWellFounded, WFMin, Zenon
<1>2. \A y \in T : x <= y
  <2> TAKE y \in T
  <2>1. x \in Nat /\ y \in Nat BY Zenon
  <2>2. ~(y < x) BY <1>1, <2>1, Zenon DEF OpToRel
  <2> QED BY <2>1, <2>2
<1> QED BY <1>2, Zenon DEF Min

\* Max of a non-empty bounded set of naturals is its greatest element (the
\* longest cached prefix is one).
LEMMA MaxExists ==
    ASSUME NEW n \in Nat, NEW T \in SUBSET (0 .. n), T # {}
    PROVE  Max(T) \in T /\ \A y \in T : y <= Max(T)
<1> DEFINE U == {n - x : x \in T}
<1>1. U \in SUBSET Nat OBVIOUS
<1>2a. U # {}
  <2>1. PICK x \in T : TRUE BY Zenon
  <2>2. n - x \in U BY <2>1, Zenon
  <2> QED BY <2>2, Zenon
<1>2. Min(U) \in U /\ \A u \in U : Min(U) <= u BY <1>1, <1>2a, MinExists, Zenon
<1> HIDE DEF U
<1>3. n - Min(U) \in T
  <2>1. PICK x \in T : Min(U) = n - x BY <1>2, Zenon DEF U
  <2>2. x \in Int /\ n \in Int OBVIOUS
  <2> QED BY <2>1, <2>2
<1>4. \A y \in T : y <= n - Min(U)
  <2> TAKE y \in T
  <2>1. Min(U) <= n - y BY <1>2, Zenon DEF U
  <2>2. Min(U) \in Nat BY <1>1, <1>2, Zenon
  <2>3. y \in Int OBVIOUS
  <2> QED BY <2>1, <2>2, <2>3
<1> QED BY <1>3, <1>4, Zenon DEF Max

\* An element of a queue is a request, at a place that counts from 1.
LEMMA ElementLemma ==
    ASSUME NEW S, NEW s \in Seq(S), NEW i \in DOMAIN s
    PROVE  s[i] \in S /\ i \in Nat \ {0}
OBVIOUS

\* IsInjective and Range in terms of places.
LEMMA InjectiveLemma ==
    ASSUME NEW S, NEW s \in Seq(S)
    PROVE  /\ IsInjective(s) <=> \A k, l \in 1 .. Len(s) : s[k] = s[l] => k = l
           /\ Range(s) = {s[k] : k \in 1 .. Len(s)}
<1>1. DOMAIN s = 1 .. Len(s) OBVIOUS
<1> QED BY <1>1, Zenon DEF IsInjective, Range

\* waiting.append and running.append of a request that is not there.
LEMMA AppendLemma ==
    ASSUME NEW S, NEW s \in Seq(S), NEW e \in S, IsInjective(s), e \notin Range(s)
    PROVE  /\ Append(s, e) \in Seq(S)
           /\ IsInjective(Append(s, e))
           /\ Range(Append(s, e)) = Range(s) \cup {e}
BY DEF IsInjective, Range

\* waiting.appendleft of a request that is not there.
LEMMA ConsLemma ==
    ASSUME NEW S, NEW s \in Seq(S), NEW e \in S, IsInjective(s), e \notin Range(s)
    PROVE  /\ <<e>> \o s \in Seq(S)
           /\ IsInjective(<<e>> \o s)
           /\ Range(<<e>> \o s) = Range(s) \cup {e}
<1> DEFINE t == <<e>> \o s
<1>1. /\ t \in Seq(S) /\ Len(t) = Len(s) + 1
      /\ t[1] = e /\ \A k \in 2 .. Len(t) : t[k] = s[k - 1]
  OBVIOUS
<1> HIDE DEF t
<1>2. IsInjective(t)
  <2>1. \A k, l \in 1 .. Len(s) : s[k] = s[l] => k = l BY InjectiveLemma, Zenon
  <2>2. \A k \in 1 .. Len(s) : s[k] # e BY InjectiveLemma
  <2> SUFFICES ASSUME NEW k \in 1 .. Len(t), NEW l \in 1 .. Len(t), t[k] = t[l]
               PROVE  k = l
    BY <1>1, InjectiveLemma, Zenon
  <2>3. CASE k = 1 \/ l = 1
    <3>1. \A m \in 2 .. Len(t) : t[m] # e
      <4> TAKE m \in 2 .. Len(t)
      <4>1. t[m] = s[m - 1] /\ m - 1 \in 1 .. Len(s) BY <1>1
      <4> QED BY <2>2, <4>1, Zenon
    <3> QED BY <1>1, <2>3, <3>1
  <2>4. CASE k # 1 /\ l # 1
    <3>1. t[k] = s[k - 1] /\ k - 1 \in 1 .. Len(s) BY <1>1, <2>4
    <3>2. t[l] = s[l - 1] /\ l - 1 \in 1 .. Len(s) BY <1>1, <2>4
    <3>3. k - 1 = l - 1 BY <2>1, <3>1, <3>2, Zenon
    <3> QED BY <3>3
  <2> QED BY <2>3, <2>4, Zenon
<1>3. \A x \in Range(t) : x \in Range(s) \cup {e} BY <1>1 DEF Range
<1>4. e \in Range(t) BY <1>1 DEF Range
<1>5. \A x \in Range(s) : x \in Range(t)
  <2> SUFFICES ASSUME NEW k \in 1 .. Len(s) PROVE s[k] \in Range(t) BY DEF Range
  <2>1. t[k + 1] = s[k] /\ k + 1 \in 1 .. Len(t) BY <1>1
  <2> QED BY <1>1, <2>1 DEF Range
<1> QED BY <1>1, <1>2, <1>3, <1>4, <1>5, Zenon DEF t

\* t is s without its i-th element.
Drops(s, t, i) ==
    /\ Len(t) = Len(s) - 1
    /\ \A k \in 1 .. Len(t) : t[k] = IF k < i THEN s[k] ELSE s[k + 1]

\* Removing one place from a queue without duplicates removes that element.
LEMMA DropOneLemma ==
    ASSUME NEW S, NEW s \in Seq(S), NEW t \in Seq(S), IsInjective(s),
           NEW i \in 1 .. Len(s), Drops(s, t, i)
    PROVE  IsInjective(t) /\ Range(t) = Range(s) \ {s[i]}
<1>0. \A k, l \in 1 .. Len(s) : s[k] = s[l] => k = l BY InjectiveLemma, Zenon
<1> USE DEF Drops
<1>1. IsInjective(t)
  <2> SUFFICES ASSUME NEW k \in 1 .. Len(t), NEW l \in 1 .. Len(t), t[k] = t[l]
               PROVE  k = l
    BY InjectiveLemma, Zenon
  <2>1. PICK a \in 1 .. Len(s) : t[k] = s[a] /\ a = IF k < i THEN k ELSE k + 1
    OBVIOUS
  <2>2. PICK b \in 1 .. Len(s) : t[l] = s[b] /\ b = IF l < i THEN l ELSE l + 1
    OBVIOUS
  <2>3. a = b
    BY <1>0, <2>1, <2>2, Zenon
  <2> QED BY <2>1, <2>2, <2>3
<1>2. ASSUME NEW k \in 1 .. Len(t) PROVE t[k] \in Range(s) /\ t[k] # s[i]
  <2>1. CASE k < i
    <3>1. k \in 1 .. Len(s) /\ t[k] = s[k] BY <2>1
    <3> QED BY <1>0, <2>1, <3>1, InjectiveLemma
  <2>2. CASE k >= i
    <3>1. k + 1 \in 1 .. Len(s) /\ t[k] = s[k + 1] BY <2>2
    <3> QED BY <1>0, <2>2, <3>1, InjectiveLemma
  <2> QED BY <2>1, <2>2
<1>3. ASSUME NEW k \in 1 .. Len(s), s[k] # s[i] PROVE s[k] \in Range(t)
  <2>1. CASE k < i
    <3>1. k \in 1 .. Len(t) /\ t[k] = s[k] BY <2>1
    <3> QED BY <3>1 DEF Range
  <2>2. CASE k > i
    <3>1. k - 1 \in 1 .. Len(t) /\ t[k - 1] = s[k] BY <2>2
    <3> QED BY <3>1 DEF Range
  <2> QED BY <1>3, <2>1, <2>2
<1>4. Range(s) = {s[k] : k \in 1 .. Len(s)} /\ Range(t) = {t[k] : k \in 1 .. Len(t)}
  BY InjectiveLemma, Zenon
<1> QED BY <1>1, <1>2, <1>3, <1>4, Zenon

\* waiting.popleft.
LEMMA TailLemma ==
    ASSUME NEW S, NEW s \in Seq(S), IsInjective(s), s # <<>>
    PROVE  /\ Tail(s) \in Seq(S)
           /\ s[1] \in S
           /\ IsInjective(Tail(s))
           /\ Range(Tail(s)) = Range(s) \ {s[1]}
<1> DEFINE t == Tail(s)
<1>1. /\ t \in Seq(S) /\ Len(t) = Len(s) - 1
      /\ \A k \in 1 .. Len(t) : t[k] = s[k + 1]
      /\ 1 \in 1 .. Len(s) /\ s[1] \in S
  OBVIOUS
<1> HIDE DEF t
<1>2. Drops(s, t, 1) BY <1>1 DEF Drops
<1>3. IsInjective(t) /\ Range(t) = Range(s) \ {s[1]} BY <1>1, <1>2, DropOneLemma
<1> QED BY <1>1, <1>3, Zenon DEF t

\* running.pop.
LEMMA FrontLemma ==
    ASSUME NEW S, NEW s \in Seq(S), IsInjective(s), s # <<>>
    PROVE  LET t == SubSeq(s, 1, Len(s) - 1)
           IN  /\ t \in Seq(S) /\ Len(t) = Len(s) - 1
               /\ \A k \in 1 .. Len(t) : t[k] = s[k]
               /\ s[Len(s)] \in S
               /\ IsInjective(t)
               /\ Range(t) = Range(s) \ {s[Len(s)]}
<1> DEFINE t == SubSeq(s, 1, Len(s) - 1)
<1>1. /\ t \in Seq(S) /\ Len(t) = Len(s) - 1
      /\ \A k \in 1 .. Len(t) : t[k] = s[k]
      /\ Len(s) \in 1 .. Len(s) /\ s[Len(s)] \in S
  <2>1. Len(s) \in Nat \ {0} /\ \A k \in 1 .. Len(s) : s[k] \in S OBVIOUS
  <2>2. t \in Seq(S) BY <2>1
  <2>2a. Len(t) = Len(s) - 1
    <3>1. PICK n \in Nat : n = Len(s) OBVIOUS
    <3>2. n >= 1 BY <2>1, <3>1
    <3>3. n - 1 \in 0 .. Len(s) BY <3>1, <3>2
    <3>4. \A i \in 0 .. Len(s) : Len(SubSeq(s, 1, i)) = i OBVIOUS
    <3>5. Len(SubSeq(s, 1, n - 1)) = n - 1 BY <3>3, <3>4, Zenon
    <3> QED BY <3>1, <3>5, Zenon
  <2>3. \A k \in 1 .. Len(t) : t[k] = s[k] BY <2>1, <2>2, <2>2a
  <2>4. Len(s) \in 1 .. Len(s) /\ s[Len(s)] \in S BY <2>1
  <2> QED BY <2>2, <2>2a, <2>3, <2>4, Zenon
<1> HIDE DEF t
<1>2. Drops(s, t, Len(s)) BY <1>1 DEF Drops
<1>3. IsInjective(t) /\ Range(t) = Range(s) \ {s[Len(s)]}
  BY <1>1, <1>2, DropOneLemma
<1> QED BY <1>1, <1>3, Zenon DEF t

\* waiting.remove and running.remove of a request that is there.
LEMMA RemovedLemma ==
    ASSUME NEW S, NEW s \in Seq(S), IsInjective(s), NEW e \in Range(s)
    PROVE  /\ Removed(s, e) \in Seq(S)
           /\ IsInjective(Removed(s, e))
           /\ Range(Removed(s, e)) = Range(s) \ {e}
           /\ \E i \in 1 .. Len(s) : Drops(s, Removed(s, e), i)
<1> DEFINE I == {k \in 1 .. Len(s) : s[k] = e}
           i == Min(I)
           t == SubSeq(s, 1, i - 1) \o SubSeq(s, i + 1, Len(s))
<1>1. \E k \in 1 .. Len(s) : s[k] = e BY DEF Range
<1>2. I \in SUBSET Nat /\ I # {} BY <1>1
<1>3. i \in 1 .. Len(s) /\ s[i] = e BY <1>2, MinExists, Zenon
<1>4. Removed(s, e) = t BY Zenon DEF Removed
<1> HIDE DEF I, i
<1>5. t \in Seq(S) /\ Drops(s, t, i)
  <2> DEFINE a == SubSeq(s, 1, i - 1)
             b == SubSeq(s, i + 1, Len(s))
  <2>1. a \in Seq(S) /\ Len(a) = i - 1 /\ \A k \in 1 .. i - 1 : a[k] = s[k]
    BY <1>3
  <2>2. b \in Seq(S) /\ Len(b) = Len(s) - i /\ \A k \in 1 .. Len(s) - i : b[k] = s[i + k]
    BY <1>3
  <2>3. t = a \o b BY Zenon
  <2> HIDE DEF a, b, t
  <2>4. /\ t \in Seq(S) /\ Len(t) = Len(s) - 1
        /\ \A k \in 1 .. Len(t) : t[k] = IF k <= Len(a) THEN a[k] ELSE b[k - Len(a)]
    BY <1>3, <2>1, <2>2, <2>3, JoinedLemma
  <2>5. ASSUME NEW k \in 1 .. Len(t) PROVE t[k] = IF k < i THEN s[k] ELSE s[k + 1]
    <3>1. CASE k < i BY <1>3, <2>1, <2>4, <3>1
    <3>2. CASE ~(k < i)
      <4>1. k - (i - 1) \in 1 .. Len(s) - i BY <1>3, <2>4, <3>2
      <4>2. t[k] = b[k - (i - 1)] BY <1>3, <2>1, <2>4, <3>2
      <4>3. b[k - (i - 1)] = s[i + (k - (i - 1))] BY <2>2, <4>1, Zenon
      <4>4. i + (k - (i - 1)) = k + 1 BY <1>3
      <4> QED BY <3>2, <4>2, <4>3, <4>4, Zenon
    <3> QED BY <3>1, <3>2, Zenon
  <2> QED BY <2>4, <2>5, Zenon DEF Drops
<1> HIDE DEF t
<1>6. IsInjective(t) /\ Range(t) = Range(s) \ {s[i]} BY <1>3, <1>5, DropOneLemma
<1> QED BY <1>3, <1>4, <1>5, <1>6, Zenon

\* The loop of update_from_output, a being new_running and b running: an
\* iteration that keeps b[i] leaves the requests with a place as they are, one
\* that drops it takes just b[i] away.
LEMMA ShiftLemma ==
    ASSUME NEW S, NEW a \in Seq(S), NEW b \in Seq(S), NEW i \in 1 .. Len(b)
    PROVE  LET s == a \o SubSeq(b, i, Len(b))
               t == a \o SubSeq(b, i + 1, Len(b))
           IN  /\ s \in Seq(S) /\ t \in Seq(S)
               /\ Append(a, b[i]) \o SubSeq(b, i + 1, Len(b)) = s
               /\ Len(a) + 1 \in 1 .. Len(s) /\ s[Len(a) + 1] = b[i]
               /\ Drops(s, t, Len(a) + 1)
<1> DEFINE x == SubSeq(b, i, Len(b))
           y == SubSeq(b, i + 1, Len(b))
           s == a \o x
           t == a \o y
<1>1. x \in Seq(S) /\ Len(x) = Len(b) - i + 1 /\ \A k \in 1 .. Len(b) - i + 1 : x[k] = b[i + k - 1]
  OBVIOUS
<1>2. y \in Seq(S) /\ Len(y) = Len(b) - i /\ \A k \in 1 .. Len(b) - i : y[k] = b[i + k]
  OBVIOUS
<1>3. x = <<b[i]>> \o y BY SliceFirst
<1> HIDE DEF x, y
<1>4. b[i] \in S OBVIOUS
<1>5. Append(a, b[i]) \o y = s
  <2>0. y \in Seq(S) BY <1>2, Zenon
  <2>1. Append(a, b[i]) \o y = a \o (<<b[i]>> \o y) BY <1>4, <2>0, AppendJoin
  <2> QED BY <1>3, <2>1, Zenon
<1>6. /\ s \in Seq(S) /\ Len(s) = Len(a) + Len(b) - i + 1
      /\ \A k \in 1 .. Len(s) : s[k] = IF k <= Len(a) THEN a[k] ELSE x[k - Len(a)]
  <2>1. s \in Seq(S) BY <1>1
  <2>0. x \in Seq(S) BY <1>1, Zenon
  <2>2. Len(s) = Len(a) + Len(x) BY <2>0, JoinedLemma, Zenon
  <2>3. \A k \in 1 .. Len(a) + Len(x) : s[k] = IF k <= Len(a) THEN a[k] ELSE x[k - Len(a)]
    BY <1>1, JoinedLemma, Zenon
  <2> HIDE DEF s
  <2>4. Len(s) = Len(a) + Len(b) - i + 1 BY <1>1, <2>2
  <2> QED BY <2>1, <2>2, <2>3, <2>4, Zenon
<1>7. /\ t \in Seq(S) /\ Len(t) = Len(a) + Len(b) - i
      /\ \A k \in 1 .. Len(t) : t[k] = IF k <= Len(a) THEN a[k] ELSE y[k - Len(a)]
  <2>1. t \in Seq(S) BY <1>2
  <2>0. y \in Seq(S) BY <1>2, Zenon
  <2>2. Len(t) = Len(a) + Len(y) BY <2>0, JoinedLemma, Zenon
  <2>3. \A k \in 1 .. Len(a) + Len(y) : t[k] = IF k <= Len(a) THEN a[k] ELSE y[k - Len(a)]
    BY <1>2, JoinedLemma, Zenon
  <2> HIDE DEF t
  <2>4. Len(t) = Len(a) + Len(b) - i BY <1>2, <2>2, Zenon
  <2> QED BY <2>1, <2>2, <2>3, <2>4, Zenon
<1> HIDE DEF s, t
<1>8. Len(a) + 1 \in 1 .. Len(s) /\ s[Len(a) + 1] = b[i]
  BY <1>1, <1>6
<1>9. Drops(s, t, Len(a) + 1)
  <2>1. Len(t) = Len(s) - 1 BY <1>6, <1>7
  <2>2. ASSUME NEW k \in 1 .. Len(t)
        PROVE  t[k] = IF k < Len(a) + 1 THEN s[k] ELSE s[k + 1]
    <3>1. k \in 1 .. Len(s) /\ k + 1 \in 1 .. Len(s) BY <1>6, <1>7
    <3>2. CASE k <= Len(a) BY <1>6, <1>7, <3>1, <3>2
    <3>3. CASE ~(k <= Len(a))
      <4>1. t[k] = y[k - Len(a)] BY <1>7, <3>3, Zenon
      <4>2. s[k + 1] = x[(k + 1) - Len(a)] BY <1>6, <3>1, <3>3
      <4>3. k - Len(a) \in 1 .. Len(b) - i BY <1>7, <3>3
      <4>4. y[k - Len(a)] = b[i + (k - Len(a))] BY <1>2, <4>3, Zenon
      <4>5. x[(k + 1) - Len(a)] = b[i + ((k + 1) - Len(a)) - 1] BY <1>1, <4>3
      <4>6. i + ((k + 1) - Len(a)) - 1 = i + (k - Len(a)) OBVIOUS
      <4> QED BY <3>3, <4>1, <4>2, <4>4, <4>5, <4>6
    <3> QED BY <3>2, <3>3, Zenon
  <2> QED BY <2>1, <2>2, Zenon DEF Drops
<1> QED BY <1>5, <1>6, <1>7, <1>8, <1>9, Zenon DEF s, t, x, y

\* Concatenation: its elements, its places, and that it has no duplicates if
\* neither part has and they share nothing.
LEMMA ConcatLemma ==
    ASSUME NEW S, NEW s \in Seq(S), NEW t \in Seq(S)
    PROVE  /\ s \o t \in Seq(S) /\ Len(s \o t) = Len(s) + Len(t)
           /\ \A k \in 1 .. Len(s) : (s \o t)[k] = s[k]
           /\ \A k \in Len(s) + 1 .. Len(s) + Len(t) : (s \o t)[k] = t[k - Len(s)]
           /\ Range(s \o t) = Range(s) \cup Range(t)
           /\ IsInjective(s) /\ IsInjective(t) /\ Range(s) \cap Range(t) = {}
                => IsInjective(s \o t)
<1> DEFINE u == s \o t
<1>1. u \in Seq(S) OBVIOUS
<1>2. Len(u) = Len(s) + Len(t) /\ Len(s) \in Nat /\ Len(t) \in Nat
  BY JoinedLemma
<1>3. \A k \in 1 .. Len(s) + Len(t) : u[k] = IF k <= Len(s) THEN s[k] ELSE t[k - Len(s)]
  BY JoinedLemma, Zenon
<1> HIDE DEF u
<1>4. \A k \in 1 .. Len(s) : u[k] = s[k] /\ k \in 1 .. Len(u)
  BY <1>2, <1>3
<1>5. \A k \in Len(s) + 1 .. Len(s) + Len(t) :
          u[k] = t[k - Len(s)] /\ k \in 1 .. Len(u) /\ k - Len(s) \in 1 .. Len(t)
  BY <1>2, <1>3
<1>6. \A k \in 1 .. Len(u) : k \in 1 .. Len(s) \/ k \in Len(s) + 1 .. Len(s) + Len(t)
  BY <1>2
<1>6a. \A j \in 1 .. Len(s) : s[j] \in Range(s)
  <2>1. DOMAIN s = 1 .. Len(s)
    OBVIOUS
  <2> QED  BY <2>1, Zenon DEF Range
<1>6b. \A j \in 1 .. Len(t) : t[j] \in Range(t)
  <2>1. DOMAIN t = 1 .. Len(t)
    OBVIOUS
  <2> QED  BY <2>1, Zenon DEF Range
<1>7. Range(u) = Range(s) \cup Range(t)
  <2>1. \A x \in Range(u) : x \in Range(s) \cup Range(t)
    <3> TAKE x \in Range(u)
    <3>1. PICK k \in 1 .. Len(u) : x = u[k]
      BY <1>1, InjectiveLemma
    <3>2. CASE k \in 1 .. Len(s)
      BY <1>4, <1>6a, <3>1, <3>2, Zenon
    <3>3. CASE k \in Len(s) + 1 .. Len(s) + Len(t)
      BY <1>5, <1>6b, <3>1, <3>3, Zenon
    <3> QED  BY <1>6, <3>2, <3>3, Zenon
  <2>2. \A x \in Range(s) : x \in Range(u)
    BY <1>1, <1>4, InjectiveLemma
  <2>3. \A x \in Range(t) : x \in Range(u)
    <3> TAKE x \in Range(t)
    <3>1. PICK k \in 1 .. Len(t) : x = t[k]
      BY InjectiveLemma
    <3>2. k + Len(s) \in Len(s) + 1 .. Len(s) + Len(t) /\ (k + Len(s)) - Len(s) = k
      BY <1>2
    <3>3. u[k + Len(s)] = x /\ k + Len(s) \in 1 .. Len(u)
      BY <1>5, <3>1, <3>2, Zenon
    <3> QED  BY <1>1, <3>3, InjectiveLemma
  <2> QED  BY <2>1, <2>2, <2>3, Zenon
<1>8. ASSUME IsInjective(s), IsInjective(t), Range(s) \cap Range(t) = {}
      PROVE  IsInjective(u)
  <2> SUFFICES ASSUME NEW k \in 1 .. Len(u), NEW l \in 1 .. Len(u), u[k] = u[l]
               PROVE  k = l
    BY <1>1, InjectiveLemma, Zenon
  <2>1. CASE k \in 1 .. Len(s) /\ l \in 1 .. Len(s)
    BY <1>4, <1>8, <2>1, InjectiveLemma
  <2>2. CASE k \in Len(s) + 1 .. Len(s) + Len(t) /\ l \in Len(s) + 1 .. Len(s) + Len(t)
    <3>1. t[k - Len(s)] = t[l - Len(s)] /\ k - Len(s) \in 1 .. Len(t) /\ l - Len(s) \in 1 .. Len(t)
      BY <1>5, <2>2, Zenon
    <3>2. k - Len(s) = l - Len(s)
      BY <1>8, <3>1, InjectiveLemma, Zenon
    <3> QED  BY <1>2, <3>2
  <2>3. CASE k \in 1 .. Len(s) /\ l \in Len(s) + 1 .. Len(s) + Len(t)
    <3>1. u[k] \in Range(s) /\ u[l] \in Range(t)
      BY <1>4, <1>5, <1>6a, <1>6b, <2>3, Zenon
    <3> QED  BY <1>8, <3>1, Zenon
  <2>4. CASE l \in 1 .. Len(s) /\ k \in Len(s) + 1 .. Len(s) + Len(t)
    <3>1. u[l] \in Range(s) /\ u[k] \in Range(t)
      BY <1>4, <1>5, <1>6a, <1>6b, <2>4, Zenon
    <3> QED  BY <1>8, <3>1, Zenon
  <2> QED  BY <1>6, <2>1, <2>2, <2>3, <2>4, Zenon
<1> QED  BY <1>1, <1>2, <1>4, <1>5, <1>7, <1>8, Zenon DEF u

\* A list without duplicates split after its m-th element: two lists without
\* duplicates that share nothing.
LEMMA SplitLemma ==
    ASSUME NEW S, NEW s \in Seq(S), IsInjective(s), NEW m \in 0 .. Len(s)
    PROVE  LET a == SubSeq(s, 1, m)
               b == SubSeq(s, m + 1, Len(s))
           IN  /\ a \in Seq(S) /\ Len(a) = m /\ \A k \in 1 .. m : a[k] = s[k]
               /\ b \in Seq(S) /\ Len(b) = Len(s) - m
               /\ IsInjective(a) /\ IsInjective(b)
               /\ Range(a) \cap Range(b) = {}
               /\ Range(a) \cup Range(b) = Range(s)
<1> DEFINE a == SubSeq(s, 1, m)
           b == SubSeq(s, m + 1, Len(s))
<1>0. Len(s) \in Nat /\ m \in Nat /\ m <= Len(s)
  OBVIOUS
<1>1. a \in Seq(S) /\ Len(a) = m /\ \A k \in 1 .. m : a[k] = s[k]
  BY <1>0
<1>2. b \in Seq(S) /\ Len(b) = Len(s) - m /\ \A k \in 1 .. Len(s) - m : b[k] = s[m + k]
  BY <1>0
<1> HIDE DEF a, b
<1>3. \A k, l \in 1 .. Len(s) : s[k] = s[l] => k = l
  BY InjectiveLemma, Zenon
<1>4. \A k \in 1 .. m : k \in 1 .. Len(s)
  BY <1>0
<1>5. \A k \in 1 .. Len(s) - m : m + k \in 1 .. Len(s) /\ m + k \notin 1 .. m
  BY <1>0
<1>6. \A k \in 1 .. Len(s) : k \in 1 .. m \/ \E l \in 1 .. Len(s) - m : k = m + l
  <2> TAKE k \in 1 .. Len(s)
  <2>1. k \in 1 .. m \/ (k - m \in 1 .. Len(s) - m /\ k = m + (k - m))
    BY <1>0
  <2> QED  BY <2>1, Zenon
<1>7. IsInjective(a)
  BY <1>1, <1>3, <1>4, InjectiveLemma
<1>8. IsInjective(b)
  <2> SUFFICES ASSUME NEW k \in 1 .. Len(s) - m, NEW l \in 1 .. Len(s) - m, b[k] = b[l]
               PROVE  k = l
    BY <1>2, InjectiveLemma, Zenon
  <2>1. m + k = m + l
    BY <1>2, <1>3, <1>5, Zenon
  <2> QED  BY <1>0, <2>1
<1>9. Range(a) = {s[k] : k \in 1 .. m} /\ Range(b) = {s[m + k] : k \in 1 .. Len(s) - m}
      /\ Range(s) = {s[k] : k \in 1 .. Len(s)}
  <2>1. Range(a) = {a[k] : k \in 1 .. m} /\ Range(b) = {b[k] : k \in 1 .. Len(s) - m}
    BY <1>1, <1>2, InjectiveLemma
  <2> QED  BY <1>1, <1>2, <2>1, InjectiveLemma
<1>10. Range(a) \cap Range(b) = {}
  <2> SUFFICES ASSUME NEW x \in Range(a), x \in Range(b) PROVE FALSE
    BY Zenon
  <2>1. PICK k \in 1 .. m : x = s[k]
    BY <1>9, Zenon
  <2>2. PICK l \in 1 .. Len(s) - m : x = s[m + l]
    BY <1>9, Zenon
  <2>3. k = m + l
    BY <1>3, <1>4, <1>5, <2>1, <2>2, Zenon
  <2> QED  BY <1>5, <2>3, Zenon
<1>11. Range(a) \cup Range(b) = Range(s)
  BY <1>4, <1>5, <1>6, <1>9, Zenon
<1> QED  BY <1>1, <1>2, <1>7, <1>8, <1>10, <1>11, Zenon DEF a, b

\* reversed() keeps the elements.
LEMMA ReversedLemma ==
    ASSUME NEW S, NEW s \in Seq(S), IsInjective(s)
    PROVE  /\ Reversed(s) \in Seq(S) /\ IsInjective(Reversed(s))
           /\ Range(Reversed(s)) = Range(s)
<1> DEFINE t == Reversed(s)
           n == Len(s)
<1>1. n \in Nat /\ \A k \in 1 .. n : n + 1 - k \in 1 .. n /\ n + 1 - (n + 1 - k) = k
  OBVIOUS
<1>2. t = [k \in 1 .. n |-> s[n + 1 - k]]
  BY Zenon DEF Reversed
<1>3. \A k \in 1 .. n : s[k] \in S
  OBVIOUS
<1>a. \A k, l \in 1 .. n : s[k] = s[l] => k = l
  BY InjectiveLemma, Zenon
<1>b. Range(s) = {s[k] : k \in 1 .. n}
  BY InjectiveLemma
<1> HIDE DEF t, n
<1>4. t \in Seq(S) /\ Len(t) = n /\ \A k \in 1 .. n : t[k] = s[n + 1 - k]
  BY <1>1, <1>2, <1>3
<1>5. IsInjective(t)
  <2> SUFFICES ASSUME NEW k \in 1 .. n, NEW l \in 1 .. n, t[k] = t[l]
               PROVE  k = l
    BY <1>4, InjectiveLemma, Zenon
  <2>1. n + 1 - k = n + 1 - l
    BY <1>a, <1>1, <1>4
  <2> QED  BY <1>1, <2>1, Zenon
<1>6. Range(t) = {t[k] : k \in 1 .. n}
  BY <1>4, InjectiveLemma
<1>7. ASSUME NEW x \in Range(t) PROVE x \in Range(s)
  BY <1>1, <1>4, <1>6, <1>b
<1>8. ASSUME NEW x \in Range(s) PROVE x \in Range(t)
  <2>1. PICK k \in 1 .. n : x = s[k]
    BY <1>b, Zenon
  <2>2. n + 1 - k \in 1 .. n /\ t[n + 1 - k] = x
    BY <1>1, <1>4, <2>1, Zenon
  <2> QED  BY <1>6, <2>2, Zenon
<1> QED  BY <1>4, <1>5, <1>7, <1>8, Zenon DEF t

\* A list without duplicates has as many elements as places.
LEMMA CountLemma ==
    ASSUME NEW S, NEW s \in Seq(S), IsInjective(s)
    PROVE  IsFiniteSet(Range(s)) /\ Cardinality(Range(s)) = Len(s)
<1> DEFINE D == 1 .. Len(s)
<1>0. Len(s) \in Nat
  OBVIOUS
<1>1. IsFiniteSet(D) /\ Cardinality(D) = Len(s)
  <2>1. 1 \in Int /\ Len(s) \in Int
    BY <1>0
  <2>2. /\ IsFiniteSet(1 .. Len(s))
        /\ Cardinality(1 .. Len(s)) = IF 1 > Len(s) THEN 0 ELSE Len(s) - 1 + 1
    BY <2>1, FS_Interval, Zenon
  <2> QED  BY <1>0, <2>2
<1>2. DOMAIN s = D
  OBVIOUS
<1>3. s \in [D -> Range(s)]
  BY <1>2, InjectiveLemma
<1>4. \A x \in Range(s) : \E k \in D : s[k] = x
  BY InjectiveLemma
<1> HIDE DEF D
<1>5. s \in Bijection(D, Range(s))
  BY <1>3, <1>4, Zenon DEF Bijection, Injection, Surjection
<1> QED  BY <1>1, <1>5, FS_Bijection, Zenon DEF ExistsBijection

\* The places of Only: the ranks of the places that hold an element of S are
\* the numbers from 1 to their count, each once, in order.
LEMMA RankLemma ==
    ASSUME NEW T, NEW s \in Seq(T), NEW S
    PROVE  /\ IsFiniteSet(Places(s, S)) /\ Cardinality(Places(s, S)) \in Nat
           /\ \A k \in Places(s, S) : Rank(s, S, k) \in 1 .. Cardinality(Places(s, S))
           /\ \A j, k \in Places(s, S) : j < k => Rank(s, S, j) < Rank(s, S, k)
           /\ \A n \in 1 .. Cardinality(Places(s, S)) :
                 \E k \in Places(s, S) : Rank(s, S, k) = n
<1> DEFINE P == Places(s, S)
           m == Cardinality(P)
           Upto(k) == {j \in P : j <= k}
           f == [k \in P |-> Cardinality(Upto(k))]
<1>1. P \subseteq 1 .. Len(s) /\ Len(s) \in Nat /\ P \subseteq Nat
  BY DEF Places
<1>2. IsFiniteSet(P) /\ m \in Nat
  <2>1. IsFiniteSet(1 .. Len(s))
    BY <1>1, FS_Interval
  <2>2. IsFiniteSet(P)
    BY <1>1, <2>1, FS_Subset, Zenon
  <2> QED  BY <2>2, FS_CardinalityType, Zenon
<1> HIDE DEF P, m
<1>3. \A k \in P : /\ IsFiniteSet(Upto(k)) /\ Cardinality(Upto(k)) \in Nat
                   /\ Cardinality(Upto(k)) <= m
  <2> TAKE k \in P
  <2>1. Upto(k) \in SUBSET P
    BY Zenon
  <2> HIDE DEF Upto
  <2>2. IsFiniteSet(Upto(k)) /\ Cardinality(Upto(k)) <= m
    BY <1>2, <2>1, FS_Subset, Zenon DEF m
  <2> QED  BY <2>2, FS_CardinalityType, Zenon
<1>4. \A k \in P : Cardinality(Upto(k)) \in 1 .. m
  <2> TAKE k \in P
  <2>1. k \in Upto(k)
    BY <1>1
  <2>2. Cardinality(Upto(k)) # 0
    BY <1>3, <2>1, FS_EmptySet, Zenon
  <2> HIDE DEF Upto
  <2> QED  BY <1>2, <1>3, <2>2
<1>5. \A j, k \in P : j < k => Cardinality(Upto(j)) < Cardinality(Upto(k))
  <2> SUFFICES ASSUME NEW j \in P, NEW k \in P, j < k
               PROVE  Cardinality(Upto(j)) < Cardinality(Upto(k))
    BY Zenon
  <2>1. Upto(j) \in SUBSET Upto(k) /\ k \in Upto(k) /\ k \notin Upto(j)
    <3>1. j \in Int /\ k \in Int /\ \A i \in P : i \in Int
      BY <1>1
    <3>2. \A i \in P : i <= j => i <= k
      BY <3>1
    <3>3. k <= k /\ ~(k <= j)
      BY <3>1
    <3> QED  BY <3>2, <3>3, Zenon
  <2> HIDE DEF Upto
  <2>2. /\ Cardinality(Upto(j)) <= Cardinality(Upto(k))
        /\ Cardinality(Upto(k)) = Cardinality(Upto(j)) => Upto(k) = Upto(j)
    BY <1>3, <2>1, FS_Subset, Zenon
  <2>3. Cardinality(Upto(j)) \in Nat /\ Cardinality(Upto(k)) \in Nat
    BY <1>3, Zenon
  <2> QED  BY <2>1, <2>2, <2>3
<1> HIDE DEF Upto
<1>6. f \in [P -> 1 .. m] /\ IsInjective(f)
  <2>1. f \in [P -> 1 .. m]
    BY <1>4, Zenon
  <2>2. ASSUME NEW j \in P, NEW k \in P, f[j] = f[k] PROVE j = k
    <3>1. j \in Nat /\ k \in Nat
      BY <1>1, Zenon
    <3>2. j < k \/ k < j \/ j = k
      BY <3>1
    <3>3. Cardinality(Upto(j)) = Cardinality(Upto(k)) /\ Cardinality(Upto(k)) \in Nat
      BY <2>2, <1>3, Zenon
    <3> QED  BY <3>2, <3>3, <1>5
  <2> QED  BY <2>1, <2>2, Zenon DEF IsInjective
<1>7. f \in Surjection(P, 1 .. m)
  <2>1. f \in Injection(P, 1 .. m)
    BY <1>6, Zenon DEF Injection
  <2>2. IsFiniteSet(1 .. m) /\ Cardinality(1 .. m) = m
    BY <1>2, FS_Interval
  <2> HIDE DEF f
  <2> QED  BY <2>1, <2>2, FS_Injection, Zenon DEF m
<1>8. \A n \in 1 .. m : \E k \in P : Cardinality(Upto(k)) = n
  BY <1>7, Zenon DEF Surjection
<1>9. \A k : Rank(s, S, k) = Cardinality(Upto(k))
  BY Zenon DEF Rank, Upto, P
<1> QED  BY <1>2, <1>4, <1>5, <1>8, <1>9, Zenon DEF P, m

\* The loop that keeps the elements of S keeps each of them, nothing else, and
\* what was without duplicates stays so.
LEMMA OnlyLemma ==
    ASSUME NEW T, NEW s \in Seq(T), NEW S
    PROVE  /\ Only(s, S) \in Seq(T)
           /\ Len(Only(s, S)) = Cardinality(Places(s, S))
           /\ Range(Only(s, S)) = Range(s) \cap S
           /\ IsInjective(s) => IsInjective(Only(s, S))
<1> DEFINE P == Places(s, S)
           m == Cardinality(P)
           R(k) == Rank(s, S, k)
           at(n) == CHOOSE k \in P : R(k) = n
           t == Only(s, S)
<1>1. /\ m \in Nat
      /\ \A k \in P : R(k) \in 1 .. m
      /\ \A j, k \in P : j < k => R(j) < R(k)
      /\ \A n \in 1 .. m : \E k \in P : R(k) = n
  BY RankLemma, Zenon
<1>2. \A k \in P : k \in 1 .. Len(s) /\ s[k] \in S /\ s[k] \in T /\ k \in Nat
  BY DEF Places
<1>3. \A k \in 1 .. Len(s) : s[k] \in S => k \in P
  BY Zenon DEF Places
<1>4. t = [n \in 1 .. m |-> s[at(n)]]
  BY Zenon DEF Only
<1> HIDE DEF P, m, R, t
<1>5. \A n \in 1 .. m : at(n) \in P /\ R(at(n)) = n
  BY <1>1, Zenon
<1> HIDE DEF at
<1>6. t \in Seq(T) /\ Len(t) = m /\ \A n \in 1 .. m : t[n] = s[at(n)]
  BY <1>1, <1>2, <1>4, <1>5
<1>7. Range(t) = Range(s) \cap S
  <2>1. ASSUME NEW x \in Range(t) PROVE x \in Range(s) \cap S
    <3>1. PICK n \in 1 .. m : x = s[at(n)]
      BY <1>6, <2>1, InjectiveLemma
    <3> QED  BY <1>2, <1>5, <3>1, InjectiveLemma
  <2>2. ASSUME NEW x \in Range(s) \cap S PROVE x \in Range(t)
    <3>1. PICK k \in 1 .. Len(s) : x = s[k]
      BY <2>2, InjectiveLemma
    <3>2. k \in P /\ R(k) \in 1 .. m
      BY <1>1, <1>3, <2>2, <3>1, Zenon
    <3>3. at(R(k)) = k
      <4>1. at(R(k)) \in P /\ R(at(R(k))) = R(k)
        BY <1>5, <3>2, Zenon
      <4>2. at(R(k)) \in Nat /\ k \in Nat
        BY <1>2, <3>2, <4>1, Zenon
      <4>2a. R(k) \in Nat
        BY <1>1, <3>2
      <4>3. ~(R(k) < R(k))
        BY <4>2a
      <4>4. ~(at(R(k)) < k) /\ ~(k < at(R(k)))
        BY <1>1, <3>2, <4>1, <4>3, Zenon
      <4> QED  BY <4>2, <4>4
    <3>4. t[R(k)] = x
      BY <1>6, <3>1, <3>2, <3>3, Zenon
    <3> QED  BY <1>6, <3>2, <3>4, InjectiveLemma
  <2> QED  BY <2>1, <2>2, Zenon
<1>8. ASSUME IsInjective(s) PROVE IsInjective(t)
  <2> SUFFICES ASSUME NEW i \in 1 .. Len(t), NEW j \in 1 .. Len(t), t[i] = t[j]
               PROVE  i = j
    BY <1>6, InjectiveLemma, Zenon
  <2>1. at(i) \in 1 .. Len(s) /\ at(j) \in 1 .. Len(s) /\ s[at(i)] = s[at(j)]
    BY <1>2, <1>5, <1>6, Zenon
  <2>2. at(i) = at(j)
    BY <1>8, <2>1, InjectiveLemma, Zenon
  <2> QED  BY <1>5, <1>6, <2>2, Zenon
<1> QED  BY <1>6, <1>7, <1>8, Zenon DEF t, m, P
=============================================================================
