----------------------------- MODULE LogProofs ------------------------------
(***************************************************************************)
(* Machine-checked theorems of the delta log, for every set of identities  *)
(* and rows, every retention and every bound: what nabla.changes serves is *)
(* whole transactions without a gap, and what is kept of a transaction is  *)
(* the visible difference it made.                                         *)
(***************************************************************************)
EXTENDS Subscription, OrderProofs

-----------------------------------------------------------------------------
(* Counting up.                                                            *)

\* Induction, as a fact about a set of numbers.
LEMMA CountingUp ==
    ASSUME NEW T \in SUBSET Nat, 0 \in T, \A n \in T : n + 1 \in T
    PROVE  T = Nat
<1>. SUFFICES ASSUME T # Nat PROVE FALSE
    OBVIOUS
<1>. DEFINE U == {n \in Nat : n \notin T}
<1>1. U \in SUBSET Nat /\ U # {}
    OBVIOUS
<1>. HIDE DEF U
<1>2. Least(U) \in U /\ \A n \in U : Least(U) <= n
    BY <1>1, LeastIs
<1>3. PICK m \in U : \A n \in U : m <= n
    BY <1>2
<1>4. m \in Nat /\ m \notin T
    BY <1>3 DEF U
<1>5. m # 0
    BY <1>4
<1>6. m - 1 \in Nat /\ m - 1 \notin U
    BY <1>3, <1>4, <1>5
<1>7. m - 1 \in T
    BY <1>6 DEF U
<1>8. (m - 1) + 1 \in T
    BY <1>7
<1>. QED
    BY <1>4, <1>8

\* The least and the greatest of some numbers up to n.
LEMMA MinMaxAre ==
    ASSUME NEW n \in Nat, NEW S \in SUBSET (1..n), S # {}
    PROVE  /\ Min(S) \in S /\ \A k \in S : Min(S) <= k
           /\ Max(S) \in S /\ \A k \in S : k <= Max(S)
<1>1. S \in SUBSET Nat /\ \A k \in S : k <= n
    OBVIOUS
<1>2. \E m \in S : \A k \in S : m <= k
    BY <1>1, LeastIs
<1>3. \E m \in S : \A k \in S : k <= m
    BY <1>1, GreatestIs
<1>4. \E m \in S : \A k \in S : m >= k
    BY <1>1, <1>3
<1>5. Min(S) \in S /\ \A k \in S : Min(S) <= k
    BY <1>2, Zenon DEF Min
<1>6. Max(S) \in S /\ \A k \in S : Max(S) >= k
    BY <1>4, Zenon DEF Max
<1>. QED
    BY <1>1, <1>5, <1>6

-----------------------------------------------------------------------------
(* One transaction's writes, one after the other.                          *)

\* What the fold over the writes goes through.
LEMMA WritesFold ==
    ASSUME NEW before, NEW m \in Nat, NEW ws, DOMAIN ws = 1..m
    PROVE  \E g : /\ g[0] = [content |-> before, raw |-> <<>>]
                  /\ \A k \in 1..m : g[k] = Apply(g[k - 1], ws[k])
                  /\ Execute(before, ws) = g[m]
<1>. DEFINE b == [content |-> before, raw |-> <<>>]
<1>. HIDE DEF b
<1>. DEFINE Rule(f, s) == IF s = {} THEN b ELSE Apply(f[s \ {Max(s)}], ws[Max(s)])
            Follows(f, n) == f = [s \in SUBSET (1..n) |-> Rule(f, s)]
            T == {n \in Nat : \E f : Follows(f, n)}
<1>1. 0 \in T
  <2>. DEFINE f == [s \in SUBSET (1..0) |-> b]
  <2>1. \A s \in SUBSET (1..0) : s = {}
      OBVIOUS
  <2>2. Follows(f, 0)
      BY <2>1
  <2>. QED
      BY <2>2
<1>2. ASSUME NEW n \in T PROVE n + 1 \in T
  <2>1. n \in Nat
      OBVIOUS
  <2>2. PICK f : Follows(f, n)
      OBVIOUS
  <2>. DEFINE g == [s \in SUBSET (1..(n + 1)) |-> Rule(f, s)]
  <2>3. ASSUME NEW s \in SUBSET (1..(n + 1)) PROVE g[s] = Rule(g, s)
    <3>1. CASE s = {}
        BY <3>1
    <3>2. CASE s # {}
      <4>. DEFINE u == s \ {Max(s)}
      <4>1. Max(s) \in s /\ \A k \in s : k <= Max(s)
        <5>1. n + 1 \in Nat
            BY <2>1
        <5>. QED
            BY <3>2, <5>1, MinMaxAre
      <4>2. ASSUME NEW k \in u PROVE k \in 1..n
        <5>1. k \in s /\ k # Max(s)
            OBVIOUS
        <5>2. k \in 1..(n + 1) /\ Max(s) \in 1..(n + 1) /\ k <= Max(s)
            BY <5>1, <4>1
        <5>. QED
            BY <5>1, <5>2, <2>1
      <4>3. u \in SUBSET (1..n) /\ u \in SUBSET (1..(n + 1))
          BY <4>2, <2>1
      <4>. HIDE DEF u
      <4>4. f[u] = Rule(f, u)
          BY <4>3, <2>2
      <4>5. g[u] = Rule(f, u)
          BY <4>3
      <4>6. f[u] = g[u]
          BY <4>4, <4>5
      <4>7. g[s] = Apply(f[u], ws[Max(s)])
          BY <3>2 DEF u
      <4>8. Rule(g, s) = Apply(g[u], ws[Max(s)])
          BY <3>2 DEF u
      <4>. QED
          BY <4>6, <4>7, <4>8
    <3>. QED
        BY <3>1, <3>2
  <2>. HIDE DEF Rule
  <2>4. [s \in SUBSET (1..(n + 1)) |-> Rule(f, s)] = [s \in SUBSET (1..(n + 1)) |-> Rule(g, s)]
      BY <2>3
  <2>5. Follows(g, n + 1)
      BY <2>4
  <2>. HIDE DEF g
  <2>6. \E f1 : Follows(f1, n + 1)
      BY <2>5
  <2>. QED
      BY <2>1, <2>6
<1>3. m \in T
  <2>. HIDE DEF T
  <2>1. T \in SUBSET Nat
      BY DEF T
  <2>. QED
      BY <1>1, <1>2, <2>1, CountingUp
<1>. DEFINE iter == CHOOSE f : Follows(f, m)
<1>4. Follows(iter, m)
    BY <1>3
<1>5. Execute(before, ws) = iter[1..m]
    BY DEF Execute, FoldLeft, MapThenFoldSet, b
<1>. HIDE DEF iter
<1>. DEFINE g == [k \in 0..m |-> iter[1..k]]
<1>6. g[0] = b
  <2>1. 1..0 = {} /\ {} \in SUBSET (1..m)
      OBVIOUS
  <2>2. iter[{}] = b
      BY <1>4, <2>1
  <2>. QED
      BY <2>1, <2>2
<1>7. ASSUME NEW k \in 1..m PROVE g[k] = Apply(g[k - 1], ws[k])
  <2>1. 1..k \in SUBSET (1..m) /\ k \in 1..k
      OBVIOUS
  <2>2. Max(1..k) \in 1..k /\ \A j \in 1..k : j <= Max(1..k)
      BY <2>1, MinMaxAre
  <2>3. Max(1..k) = k
      BY <2>2, <2>1
  <2>4. (1..k) \ {k} = 1..(k - 1)
      OBVIOUS
  <2>5. iter[1..k] = Apply(iter[1..(k - 1)], ws[k])
      BY <1>4, <2>1, <2>3, <2>4
  <2>. QED
      BY <2>5
<1>8. g[m] = iter[1..m]
    OBVIOUS
<1>. QED
    BY <1>5, <1>6, <1>7, <1>8 DEF b

\* The first and the last delta of an identity decide its before and its after.
LEMMA BeforeIs ==
    ASSUME NEW raw \in Seq(Delta), NEW i, NEW k \in Touching(raw, i),
           \A j \in Touching(raw, i) : k <= j
    PROVE  Before(raw, i) = IF raw[k].op = "D" THEN raw[k].row ELSE NoRow
<1>1. Touching(raw, i) \in SUBSET (1..Len(raw)) /\ Len(raw) \in Nat
    BY DEF Touching
<1>2. Min(Touching(raw, i)) \in Touching(raw, i) /\ Min(Touching(raw, i)) <= k
    BY <1>1, MinMaxAre
<1>3. k <= Min(Touching(raw, i))
    BY <1>2
<1>4. Min(Touching(raw, i)) = k
    BY <1>1, <1>2, <1>3
<1>. QED
    BY <1>4, Zenon DEF Before

LEMMA AfterIs ==
    ASSUME NEW raw \in Seq(Delta), NEW i, NEW k \in Touching(raw, i),
           \A j \in Touching(raw, i) : j <= k
    PROVE  After(raw, i) = IF raw[k].op = "I" THEN raw[k].row ELSE NoRow
<1>1. Touching(raw, i) \in SUBSET (1..Len(raw)) /\ Len(raw) \in Nat
    BY DEF Touching
<1>2. Max(Touching(raw, i)) \in Touching(raw, i) /\ k <= Max(Touching(raw, i))
    BY <1>1, MinMaxAre
<1>3. Max(Touching(raw, i)) <= k
    BY <1>2
<1>4. Max(Touching(raw, i)) = k
    BY <1>1, <1>2, <1>3
<1>. QED
    BY <1>4, Zenon DEF After

\* The deltas so far, of a transaction that began with the content c0, tell
\* what every identity held before and holds now.
Tracks(c0, c, raw) ==
    /\ c \in Contents /\ raw \in Seq(Delta)
    /\ \A i \in Ids :
        IF Touching(raw, i) = {} THEN c[i] = c0[i]
        ELSE Before(raw, i) = c0[i] /\ After(raw, i) = c[i]

\* What one write leaves behind.
LEMMA WriteIs ==
    ASSUME NEW c \in Contents, NEW i \in Ids, NEW r \in Cell
    PROVE  LET x == Write(c, i, r)
           IN  /\ x \in Seq(Delta)
               /\ \A k \in 1..Len(x) : x[k].id = i
               /\ x = <<>> => c[i] = r
               /\ x # <<>> =>
                    /\ IF x[1].op = "D" THEN c[i] = x[1].row ELSE c[i] = NoRow
                    /\ IF x[Len(x)].op = "I" THEN r = x[Len(x)].row ELSE r = NoRow
<1>. DEFINE d == [op |-> "D", id |-> i, row |-> c[i]]
            a == [op |-> "I", id |-> i, row |-> r]
<1>1. c[i] # NoRow => d \in Delta
    BY DEF Delta, Contents, Cell
<1>2. r # NoRow => a \in Delta
    BY DEF Delta, Cell
<1>3. d.op = "D" /\ d.id = i /\ d.row = c[i] /\ a.op = "I" /\ a.id = i /\ a.row = r
    OBVIOUS
<1>4. Write(c, i, r) = (IF c[i] = NoRow THEN <<>> ELSE <<d>>) \o (IF r = NoRow THEN <<>> ELSE <<a>>)
    BY Zenon DEF Write
<1>. HIDE DEF d, a
<1>5. CASE c[i] = NoRow /\ r = NoRow
  <2>1. Write(c, i, r) = <<>>
      BY <1>4, <1>5
  <2>. QED
      BY <2>1, <1>5
<1>6. CASE c[i] = NoRow /\ r # NoRow
  <2>1. Write(c, i, r) = <<a>>
      BY <1>4, <1>6
  <2>. QED
      BY <2>1, <1>6, <1>2, <1>3
<1>7. CASE c[i] # NoRow /\ r = NoRow
  <2>1. Write(c, i, r) = <<d>>
      BY <1>4, <1>7
  <2>. QED
      BY <2>1, <1>7, <1>1, <1>3
<1>8. CASE c[i] # NoRow /\ r # NoRow
  <2>. DEFINE x == <<d>> \o <<a>>
  <2>1. Write(c, i, r) = x
      BY <1>4, <1>8
  <2>2. d \in Delta /\ a \in Delta
      BY <1>8, <1>1, <1>2
  <2>3. x \in Seq(Delta) /\ Len(x) = 2 /\ x[1] = d /\ x[2] = a
      BY <2>2
  <2>. HIDE DEF x
  <2>4. x # <<>> /\ x[Len(x)] = a
    <3>1. x[Len(x)] = a
        BY <2>3, Zenon
    <3>2. x # <<>>
      <4>1. Len(<<>>) # 2
          OBVIOUS
      <4>. QED
          BY <4>1, <2>3, Zenon
    <3>. QED
        BY <3>1, <3>2
  <2>5. \A k \in 1..Len(x) : k = 1 \/ k = 2
      BY <2>3
  <2>. QED
      BY <2>1, <2>3, <2>4, <2>5, <1>8, <1>3
<1>. QED
    BY <1>5, <1>6, <1>7, <1>8

\* One more write.
LEMMA WriteTracks ==
    ASSUME NEW c0, NEW c, NEW raw, Tracks(c0, c, raw), NEW i \in Ids, NEW r \in Cell
    PROVE  Tracks(c0, [c EXCEPT ![i] = r], raw \o Write(c, i, r))
<1>. DEFINE x == Write(c, i, r)
            c2 == [c EXCEPT ![i] = r]
            all == raw \o x
<1>1. c \in Contents /\ raw \in Seq(Delta)
    BY DEF Tracks
<1>2. /\ x \in Seq(Delta)
      /\ \A k \in 1..Len(x) : x[k].id = i
      /\ x = <<>> => c[i] = r
      /\ x # <<>> => /\ IF x[1].op = "D" THEN c[i] = x[1].row ELSE c[i] = NoRow
                     /\ IF x[Len(x)].op = "I" THEN r = x[Len(x)].row ELSE r = NoRow
    BY <1>1, WriteIs
<1>. HIDE DEF x
<1>3. c2 \in Contents
    BY <1>1 DEF Contents
<1>4. /\ all \in Seq(Delta) /\ Len(all) = Len(raw) + Len(x)
      /\ Len(raw) \in Nat /\ Len(x) \in Nat
      /\ \A k \in 1..Len(raw) : all[k] = raw[k]
      /\ \A k \in 1..Len(x) : all[Len(raw) + k] = x[k]
    BY <1>1, <1>2
<1>. HIDE DEF all
<1>5. ASSUME NEW k \in 1..Len(all), k > Len(raw)
      PROVE  k - Len(raw) \in 1..Len(x) /\ all[k] = x[k - Len(raw)] /\ all[k].id = i
  <2>1. k - Len(raw) \in 1..Len(x) /\ k = Len(raw) + (k - Len(raw))
      BY <1>4, <1>5
  <2>2. all[k] = x[k - Len(raw)]
      BY <1>4, <2>1
  <2>. QED
      BY <1>2, <2>1, <2>2
<1>6. ASSUME NEW j \in Ids, j # i
      PROVE  IF Touching(all, j) = {} THEN c2[j] = c0[j]
             ELSE Before(all, j) = c0[j] /\ After(all, j) = c2[j]
  <2>1. Touching(all, j) = Touching(raw, j)
      BY <1>1, <1>4, <1>5, <1>6 DEF Touching
  <2>2. c2[j] = c[j]
      BY <1>1, <1>6 DEF Contents
  <2>3. CASE Touching(raw, j) = {}
      BY <2>1, <2>2, <2>3 DEF Tracks
  <2>4. CASE Touching(raw, j) # {}
    <3>. DEFINE M == Touching(raw, j)
    <3>1. M \in SUBSET (1..Len(raw))
        BY <1>1 DEF Touching
    <3>2. Min(M) \in M /\ Max(M) \in M
        BY <3>1, <2>4, <1>4, MinMaxAre
    <3>3. all[Min(M)] = raw[Min(M)] /\ all[Max(M)] = raw[Max(M)]
        BY <3>1, <3>2, <1>4
    <3>. HIDE DEF M
    <3>4. Touching(all, j) = M /\ Touching(raw, j) = M
        BY <2>1 DEF M
    <3>5. Before(all, j) = Before(raw, j) /\ After(all, j) = After(raw, j)
        BY <3>3, <3>4 DEF Before, After
    <3>6. Before(raw, j) = c0[j] /\ After(raw, j) = c[j]
        BY <2>4 DEF Tracks
    <3>. QED
        BY <2>1, <2>2, <2>4, <3>5, <3>6
  <2>. QED
      BY <2>3, <2>4
<1>7. IF Touching(all, i) = {} THEN c2[i] = c0[i]
      ELSE Before(all, i) = c0[i] /\ After(all, i) = c2[i]
  <2>1. c2[i] = r
      BY <1>1 DEF Contents
  <2>2. CASE x = <<>>
    <3>1. all = raw
        BY <2>2, <1>1 DEF all
    <3>2. c2[i] = c[i]
        BY <2>1, <2>2, <1>2
    <3>. QED
        BY <3>1, <3>2 DEF Tracks
  <2>3. CASE x # <<>>
    <3>1. Len(x) >= 1
        BY <2>3, <1>2
    <3>. DEFINE first == Len(raw) + 1
                last == Len(raw) + Len(x)
    <3>2. first \in 1..Len(all) /\ last \in 1..Len(all) /\ last = Len(all)
        BY <3>1, <1>4
    <3>3. all[first] = x[1] /\ all[last] = x[Len(x)]
      <4>1. 1 \in 1..Len(x) /\ Len(x) \in 1..Len(x)
          BY <3>1, <1>4
      <4>2. \A k \in 1..Len(x) : all[Len(raw) + k] = x[k]
          BY <1>4
      <4>. QED
          BY <4>1, <4>2, Zenon
    <3>4. last \in Touching(all, i) /\ first \in Touching(all, i)
        BY <3>1, <3>2, <3>3, <1>2, <1>4 DEF Touching
    <3>5. \A k \in Touching(all, i) : k <= last
        BY <3>2, <1>4 DEF Touching
    <3>6. After(all, i) = IF all[last].op = "I" THEN all[last].row ELSE NoRow
        BY <3>4, <3>5, <1>4, AfterIs
    <3>7. After(all, i) = r
        BY <3>6, <3>3, <1>2, <2>3
    <3>8. CASE Touching(raw, i) = {}
      <4>1. ASSUME NEW k \in Touching(all, i) PROVE first <= k
        <5>1. k \in 1..Len(all) /\ all[k].id = i
            BY <1>4 DEF Touching
        <5>2. k \notin 1..Len(raw)
            BY <5>1, <3>8, <1>4, <1>1 DEF Touching
        <5>. QED
            BY <5>1, <5>2, <1>4
      <4>2. Before(all, i) = IF all[first].op = "D" THEN all[first].row ELSE NoRow
          BY <3>4, <4>1, <1>4, BeforeIs
      <4>3. Before(all, i) = c[i]
          BY <4>2, <3>3, <1>2, <2>3
      <4>4. c[i] = c0[i]
          BY <3>8 DEF Tracks
      <4>. QED
          BY <3>4, <3>7, <4>3, <4>4, <2>1
    <3>9. CASE Touching(raw, i) # {}
      <4>. DEFINE M == Touching(raw, i)
      <4>1. M \in SUBSET (1..Len(raw))
          BY <1>1 DEF Touching
      <4>2. Min(M) \in M /\ \A k \in M : Min(M) <= k
          BY <4>1, <3>9, <1>4, MinMaxAre
      <4>3. Min(M) \in 1..Len(raw) /\ raw[Min(M)].id = i
          BY <4>1, <4>2 DEF Touching
      <4>4. all[Min(M)] = raw[Min(M)] /\ Min(M) \in 1..Len(all)
          BY <4>3, <1>4
      <4>5. Min(M) \in Touching(all, i)
          BY <4>3, <4>4, <1>4 DEF Touching
      <4>6. ASSUME NEW k \in Touching(all, i) PROVE Min(M) <= k
        <5>1. k \in 1..Len(all) /\ all[k].id = i
            BY <1>4 DEF Touching
        <5>2. CASE k \in 1..Len(raw)
          <6>1. k \in M
              BY <5>1, <5>2, <1>4, <1>1 DEF Touching
          <6>. QED
              BY <6>1, <4>2
        <5>3. CASE k \notin 1..Len(raw)
            BY <5>1, <5>3, <4>3, <1>4
        <5>. QED
            BY <5>2, <5>3
      <4>7. Before(all, i) = IF raw[Min(M)].op = "D" THEN raw[Min(M)].row ELSE NoRow
          BY <4>4, <4>5, <4>6, <1>4, BeforeIs
      <4>8. Before(raw, i) = IF raw[Min(M)].op = "D" THEN raw[Min(M)].row ELSE NoRow
          BY <4>2, <1>1, BeforeIs
      <4>9. Before(raw, i) = c0[i]
          BY <3>9 DEF Tracks
      <4>. QED
          BY <3>4, <3>7, <4>7, <4>8, <4>9, <2>1
    <3>. QED
        BY <3>8, <3>9
  <2>. QED
      BY <2>2, <2>3
<1>8. \A j \in Ids : IF Touching(all, j) = {} THEN c2[j] = c0[j]
                     ELSE Before(all, j) = c0[j] /\ After(all, j) = c2[j]
    BY <1>6, <1>7
<1>. QED
    BY <1>3, <1>4, <1>8 DEF Tracks, all, x

\* All the writes of a transaction.
LEMMA TransactionTracks ==
    ASSUME NEW c0 \in Contents, NEW ws \in Writes
    PROVE  LET done == Execute(c0, ws)
           IN  Tracks(c0, done.content, done.raw)
<1>. DEFINE b == [content |-> c0, raw |-> <<>>]
            done == Execute(c0, ws)
<1>1. PICK m \in 1..MaxWrites : ws \in [1..m -> Ids \X Cell]
    BY DEF Writes
<1>2. m \in Nat /\ DOMAIN ws = 1..m
    BY <1>1, DeltaLogAssumption DEF DeltaLogAssumption
<1>3. \A k \in 1..m : ws[k] \in Ids \X Cell
    BY <1>1
<1>4. PICK g : g[0] = b /\ (\A k \in 1..m : g[k] = Apply(g[k - 1], ws[k])) /\ done = g[m]
    BY <1>2, WritesFold
<1>. HIDE DEF done
<1>. DEFINE T == {n \in Nat : n <= m => Tracks(c0, g[n].content, g[n].raw)}
<1>5. 0 \in T
  <2>1. Tracks(c0, c0, <<>>)
      BY DEF Tracks, Touching
  <2>2. g[0].content = c0 /\ g[0].raw = <<>>
      BY <1>4
  <2>. QED
      BY <2>1, <2>2
<1>6. ASSUME NEW n \in T PROVE n + 1 \in T
  <2>. SUFFICES ASSUME n + 1 <= m PROVE Tracks(c0, g[n + 1].content, g[n + 1].raw)
      OBVIOUS
  <2>. DEFINE st == g[n]
              w == ws[n + 1]
  <2>1. n \in Nat /\ n + 1 \in 1..m /\ (n + 1) - 1 = n /\ n <= m
      BY <1>2
  <2>2. Tracks(c0, st.content, st.raw)
      BY <2>1
  <2>3. g[n + 1] = Apply(st, w)
      BY <1>4, <2>1
  <2>4. w[1] \in Ids /\ w[2] \in Cell
      BY <1>3, <2>1
  <2>. HIDE DEF st, w
  <2>5. Tracks(c0, [st.content EXCEPT ![w[1]] = w[2]], st.raw \o Write(st.content, w[1], w[2]))
      BY <2>2, <2>4, WriteTracks
  <2>. DEFINE C == [st.content EXCEPT ![w[1]] = w[2]]
              R == st.raw \o Write(st.content, w[1], w[2])
  <2>6. g[n + 1] = [content |-> C, raw |-> R]
      BY <2>3 DEF Apply
  <2>7. Tracks(c0, C, R)
      BY <2>5
  <2>. HIDE DEF C, R
  <2>8. g[n + 1].content = C /\ g[n + 1].raw = R
      BY <2>6
  <2>. QED
      BY <2>7, <2>8
<1>7. m \in T
  <2>1. T \in SUBSET Nat
      OBVIOUS
  <2>. HIDE DEF T
  <2>. QED
      BY <1>2, <1>5, <1>6, <2>1, CountingUp
<1>8. Tracks(c0, done.content, done.raw)
    BY <1>2, <1>4, <1>7
<1>. QED
    BY <1>8 DEF done

-----------------------------------------------------------------------------
(* The net deltas: one block per identity.                                 *)

\* What flattening goes through.
FlattensVia(g, s, m) ==
    /\ g[1] = s[1]
    /\ \A k \in 2..m : g[k] = g[k - 1] \o s[k]
    /\ FlattenSeq(s) = g[m]

LEMMA FlattenFold ==
    ASSUME NEW s, NEW m \in Nat, m # 0, Len(s) = m
    PROVE  \E g : FlattensVia(g, s, m)
<1>. DEFINE Rule(f, k) == IF k = 1 THEN s[k] ELSE f[k - 1] \o s[k]
            Follows(f, n) == f = [k \in 1..n |-> Rule(f, k)]
            T == {n \in Nat : \E f : Follows(f, n)}
<1>1. 0 \in T
  <2>. DEFINE f == [k \in 1..0 |-> s[k]]
  <2>1. \A k : k \notin 1..0
      OBVIOUS
  <2>2. Follows(f, 0)
      BY <2>1
  <2>. QED
      BY <2>2
<1>2. ASSUME NEW n \in T PROVE n + 1 \in T
  <2>1. n \in Nat
      OBVIOUS
  <2>2. PICK f : Follows(f, n)
      OBVIOUS
  <2>. DEFINE g == [k \in 1..(n + 1) |-> Rule(f, k)]
  <2>3. ASSUME NEW k \in 1..(n + 1) PROVE g[k] = Rule(g, k)
    <3>1. CASE k = 1
        BY <3>1
    <3>2. CASE k # 1
      <4>1. k - 1 \in 1..n /\ k - 1 \in 1..(n + 1)
          BY <3>2, <2>1
      <4>2. f[k - 1] = Rule(f, k - 1)
          BY <4>1, <2>2
      <4>3. g[k - 1] = Rule(f, k - 1)
          BY <4>1
      <4>4. f[k - 1] = g[k - 1]
          BY <4>2, <4>3
      <4>5. g[k] = f[k - 1] \o s[k]
          BY <3>2
      <4>6. Rule(g, k) = g[k - 1] \o s[k]
          BY <3>2
      <4>. QED
          BY <4>4, <4>5, <4>6
    <3>. QED
        BY <3>1, <3>2
  <2>. HIDE DEF Rule
  <2>4. [k \in 1..(n + 1) |-> Rule(f, k)] = [k \in 1..(n + 1) |-> Rule(g, k)]
      BY <2>3
  <2>5. Follows(g, n + 1)
      BY <2>4
  <2>. HIDE DEF g
  <2>6. \E f1 : Follows(f1, n + 1)
      BY <2>5
  <2>. QED
      BY <2>1, <2>6
<1>3. m \in T
  <2>. HIDE DEF T
  <2>1. T \in SUBSET Nat
      BY DEF T
  <2>. QED
      BY <1>1, <1>2, <2>1, CountingUp
<1>. DEFINE g == CHOOSE f : Follows(f, m)
<1>4. Follows(g, m)
    BY <1>3
<1>5. FlattenSeq(s) = g[m]
    BY DEF FlattenSeq
<1>. HIDE DEF g
<1>6. g[1] = s[1]
    BY <1>4
<1>7. ASSUME NEW k \in 2..m PROVE g[k] = g[k - 1] \o s[k]
  <2>1. k \in 1..m /\ k # 1
      OBVIOUS
  <2>. QED
      BY <1>4, <2>1
<1>. QED
    BY <1>5, <1>6, <1>7 DEF FlattensVia

\* F is made of one block per key: s[1] .. s[n], the deltas of keys[1] .. keys[n].
Blocks(F, s, keys, n) ==
    /\ F \in Seq(Delta) /\ \A j \in 1..n : s[j] \in Seq(Delta)
    /\ \A k \in 1..Len(F) : \E j \in 1..n : F[k].id = keys[j]
    /\ \A j \in 1..n : \E o \in Nat :
        /\ o + Len(s[j]) <= Len(F)
        /\ \A x \in 1..Len(s[j]) : F[o + x] = s[j][x]
        /\ \A k \in 1..Len(F) : F[k].id = keys[j] => o < k /\ k <= o + Len(s[j])

\* One more block.
LEMMA OneMoreBlock ==
    ASSUME NEW s, NEW keys, NEW n \in Nat, NEW F, Blocks(F, s, keys, n),
           s[n + 1] \in Seq(Delta),
           \A k \in 1..Len(s[n + 1]) : s[n + 1][k].id = keys[n + 1],
           \A j \in 1..n : keys[j] # keys[n + 1]
    PROVE  Blocks(F \o s[n + 1], s, keys, n + 1)
<1>. DEFINE x == s[n + 1]
            G == F \o x
<1>1. F \in Seq(Delta) /\ x \in Seq(Delta)
    BY DEF Blocks
<1>2. \A k \in 1..Len(x) : x[k].id = keys[n + 1]
    OBVIOUS
<1>. HIDE DEF x
<1>3. /\ G \in Seq(Delta) /\ Len(G) = Len(F) + Len(x)
      /\ Len(F) \in Nat /\ Len(x) \in Nat
      /\ \A k \in 1..Len(F) : G[k] = F[k]
      /\ \A k \in 1..Len(x) : G[Len(F) + k] = x[k]
    BY <1>1
<1>. HIDE DEF G
<1>4. ASSUME NEW k \in 1..Len(G), k > Len(F) PROVE G[k].id = keys[n + 1]
  <2>1. k - Len(F) \in 1..Len(x) /\ k = Len(F) + (k - Len(F))
      BY <1>3, <1>4
  <2>2. G[k] = x[k - Len(F)]
      BY <1>3, <2>1
  <2>. QED
      BY <1>2, <2>1, <2>2
<1>5. ASSUME NEW k \in 1..Len(F) PROVE \E j \in 1..n : G[k].id = keys[j]
  <2>1. \E j \in 1..n : F[k].id = keys[j]
      BY DEF Blocks
  <2>. QED
      BY <2>1, <1>3
<1>6. \A j \in 1..n : j \in 1..(n + 1)
    OBVIOUS
<1>7. n + 1 \in 1..(n + 1)
    OBVIOUS
<1>8. ASSUME NEW k \in 1..Len(G) PROVE \E j \in 1..(n + 1) : G[k].id = keys[j]
  <2>1. CASE k \in 1..Len(F)
      BY <2>1, <1>5, <1>6
  <2>2. CASE k \notin 1..Len(F)
    <3>1. k > Len(F)
        BY <2>2, <1>3
    <3>. QED
        BY <3>1, <1>4, <1>7
  <2>. QED
      BY <2>1, <2>2
<1>9. ASSUME NEW j \in 1..(n + 1)
      PROVE  \E o \in Nat :
                /\ o + Len(s[j]) <= Len(G)
                /\ \A y \in 1..Len(s[j]) : G[o + y] = s[j][y]
                /\ \A k \in 1..Len(G) : G[k].id = keys[j] => o < k /\ k <= o + Len(s[j])
  <2>1. CASE j = n + 1
    <3>1. s[j] = x
        BY <2>1 DEF x
    <3>2. ASSUME NEW k \in 1..Len(G), G[k].id = keys[j] PROVE Len(F) < k /\ k <= Len(F) + Len(x)
      <4>1. k \notin 1..Len(F)
          BY <1>5, <2>1, <3>2
      <4>. QED
          BY <4>1, <1>3
    <3>3. \A y \in 1..Len(x) : G[Len(F) + y] = x[y]
        BY <1>3
    <3>4. Len(F) + Len(x) <= Len(G)
        BY <1>3
    <3>. QED
        BY <3>1, <3>2, <3>3, <3>4, <1>3
  <2>2. CASE j \in 1..n
    <3>1. PICK o \in Nat : /\ o + Len(s[j]) <= Len(F)
                           /\ \A y \in 1..Len(s[j]) : F[o + y] = s[j][y]
                           /\ \A k \in 1..Len(F) : F[k].id = keys[j] => o < k /\ k <= o + Len(s[j])
        BY <2>2 DEF Blocks
    <3>2. Len(s[j]) \in Nat
      <4>1. s[j] \in Seq(Delta)
          BY <2>2 DEF Blocks
      <4>. QED
          BY <4>1
    <3>3. \A y \in 1..Len(s[j]) : o + y \in 1..Len(F)
        BY <3>1, <3>2, <1>3
    <3>4. \A y \in 1..Len(s[j]) : G[o + y] = s[j][y]
        BY <3>1, <3>3, <1>3
    <3>5. ASSUME NEW k \in 1..Len(G), G[k].id = keys[j] PROVE o < k /\ k <= o + Len(s[j])
      <4>1. ~ (k > Len(F))
          BY <1>4, <2>2, <3>5
      <4>2. k \in 1..Len(F)
          BY <4>1, <1>3
      <4>3. F[k].id = keys[j]
          BY <4>2, <3>5, <1>3
      <4>. QED
          BY <4>2, <4>3, <3>1
    <3>6. o + Len(s[j]) <= Len(G)
        BY <3>1, <3>2, <1>3
    <3>. QED
        BY <3>4, <3>5, <3>6
  <2>3. j = n + 1 \/ j \in 1..n
      OBVIOUS
  <2>. QED
      BY <2>1, <2>2, <2>3
<1>10. ASSUME NEW j \in 1..(n + 1) PROVE s[j] \in Seq(Delta)
  <2>1. j = n + 1 \/ j \in 1..n
      OBVIOUS
  <2>. QED
      BY <2>1 DEF Blocks
<1>. QED
    BY <1>3, <1>8, <1>9, <1>10 DEF Blocks, G, x

\* Flattening lists of deltas, each of a key of its own.
LEMMA FlattenBlocks ==
    ASSUME NEW m \in Nat, NEW s \in [1..m -> Seq(Delta)], NEW keys,
           \A j \in 1..m : \A k \in 1..Len(s[j]) : s[j][k].id = keys[j],
           \A i, j \in 1..m : keys[i] = keys[j] => i = j
    PROVE  Blocks(FlattenSeq(s), s, keys, m)
<1>1. s \in Seq(Seq(Delta)) /\ Len(s) = m
    OBVIOUS
<1>2. CASE m = 0
  <2>1. FlattenSeq(s) = s
      BY <1>1, <1>2 DEF FlattenSeq
  <2>2. s = <<>>
      BY <1>1, <1>2
  <2>3. Len(<<>>) = 0 /\ <<>> \in Seq(Delta) /\ 1..0 = {}
      OBVIOUS
  <2>. QED
      BY <1>2, <2>1, <2>2, <2>3 DEF Blocks
<1>3. CASE m # 0
  <2>1. PICK g : FlattensVia(g, s, m)
      BY <1>1, <1>3, FlattenFold
  <2>. DEFINE T == {n \in Nat : 1 <= n /\ n <= m => Blocks(g[n], s, keys, n)}
  <2>2. 0 \in T
      OBVIOUS
  <2>3. ASSUME NEW n \in T PROVE n + 1 \in T
    <3>. SUFFICES ASSUME n + 1 <= m PROVE Blocks(g[n + 1], s, keys, n + 1)
        OBVIOUS
    <3>1. n \in Nat /\ n + 1 \in 1..m
        OBVIOUS
    <3>2. s[n + 1] \in Seq(Delta)
        BY <3>1
    <3>3. \A k \in 1..Len(s[n + 1]) : s[n + 1][k].id = keys[n + 1]
        BY <3>1
    <3>4. \A j \in 1..n : keys[j] # keys[n + 1]
      <4>1. \A j \in 1..n : j \in 1..m /\ j # n + 1
          BY <3>1
      <4>. QED
          BY <3>1, <4>1
    <3>5. CASE n = 0
      <4>1. Blocks(<<>>, s, keys, n)
        <5>1. Len(<<>>) = 0 /\ <<>> \in Seq(Delta) /\ 1..0 = {}
            OBVIOUS
        <5>. QED
            BY <3>5, <5>1 DEF Blocks
      <4>2. Blocks(<<>> \o s[n + 1], s, keys, n + 1)
          BY <3>1, <3>2, <3>3, <3>4, <4>1, OneMoreBlock
      <4>3. <<>> \o s[n + 1] = s[n + 1]
          BY <3>2
      <4>4. g[n + 1] = s[n + 1]
          BY <3>5, <2>1 DEF FlattensVia
      <4>. QED
          BY <4>2, <4>3, <4>4
    <3>6. CASE n # 0
      <4>1. Blocks(g[n], s, keys, n)
          BY <3>1, <3>6
      <4>2. Blocks(g[n] \o s[n + 1], s, keys, n + 1)
          BY <3>1, <3>2, <3>3, <3>4, <4>1, OneMoreBlock
      <4>3. n + 1 \in 2..m /\ (n + 1) - 1 = n
          BY <3>1, <3>6
      <4>4. g[n + 1] = g[n] \o s[n + 1]
          BY <2>1, <4>3 DEF FlattensVia
      <4>. QED
          BY <4>2, <4>4
    <3>. QED
        BY <3>5, <3>6
  <2>4. m \in T
    <3>1. T \in SUBSET Nat
        OBVIOUS
    <3>. HIDE DEF T
    <3>. QED
        BY <2>2, <2>3, <3>1, CountingUp
  <2>. QED
      BY <1>3, <2>1, <2>4 DEF FlattensVia
<1>. QED
    BY <1>2, <1>3

\* Two sequences of one element, one after the other.
LEMMA OneAndOne ==
    ASSUME NEW p, NEW q
    PROVE  <<p>> \o <<q>> = <<p, q>>
<1>. DEFINE x == <<p>> \o <<q>>
            y == <<p, q>>
<1>1. x \in Seq({p, q}) /\ Len(x) = 2 /\ x[1] = p /\ x[2] = q
    OBVIOUS
<1>2. y \in Seq({p, q}) /\ Len(y) = 2 /\ y[1] = p /\ y[2] = q
    OBVIOUS
<1>. HIDE DEF x, y
<1>3. \A k \in 1..2 : x[k] = y[k]
    BY <1>1, <1>2
<1>4. x = y
    BY <1>1, <1>2, <1>3
<1>. QED
    BY <1>4 DEF x, y

\* The net deltas of one identity.
LEMMA NetOfIs ==
    ASSUME NEW i \in Ids, NEW raw, Before(raw, i) \in Cell, After(raw, i) \in Cell
    PROVE  /\ NetOf(raw, i) \in Seq(Delta)
           /\ \A k \in 1..Len(NetOf(raw, i)) : NetOf(raw, i)[k].id = i
           /\ [n \in 1..Len(NetOf(raw, i)) |->
                  <<NetOf(raw, i)[n].op, Shown(NetOf(raw, i)[n].row)>>]
                = IF Shown(Before(raw, i)) = Shown(After(raw, i)) THEN <<>>
                  ELSE (IF Before(raw, i) = NoRow THEN <<>> ELSE <<<<"D", Shown(Before(raw, i))>>>>)
                       \o (IF After(raw, i) = NoRow THEN <<>> ELSE <<<<"I", Shown(After(raw, i))>>>>)
<1>. DEFINE b == Before(raw, i)
            r == After(raw, i)
            d == [op |-> "D", id |-> i, row |-> b]
            a == [op |-> "I", id |-> i, row |-> r]
            x == NetOf(raw, i)
            sb == Shown(b)
            sr == Shown(r)
            shown(y) == [n \in 1..Len(y) |-> <<y[n].op, Shown(y[n].row)>>]
<1>1. b # NoRow => d \in Delta
    BY DEF Delta, Cell
<1>2. r # NoRow => a \in Delta
    BY DEF Delta, Cell
<1>3. d.op = "D" /\ d.id = i /\ d.row = b /\ a.op = "I" /\ a.id = i /\ a.row = r
    OBVIOUS
<1>4. x = IF sb = sr THEN <<>>
          ELSE (IF b = NoRow THEN <<>> ELSE <<d>>) \o (IF r = NoRow THEN <<>> ELSE <<a>>)
    BY Zenon DEF NetOf
<1>5. sb = Shown(d.row) /\ sr = Shown(a.row)
    BY <1>3
<1>6. \A y : y \in Seq(Delta) /\ Len(y) = 0 => y = <<>> /\ shown(y) = <<>>
    OBVIOUS
<1>. HIDE DEF d, a, x, b, r, sb, sr
<1>7. CASE sb = sr \/ (b = NoRow /\ r = NoRow)
  <2>1. sb = sr
      BY <1>7 DEF sb, sr
  <2>2. x = <<>>
      BY <1>4, <2>1
  <2>3. x \in Seq(Delta) /\ Len(x) = 0
      BY <2>2
  <2>. QED
      BY <2>1, <2>3, <1>6 DEF x, sb, sr, b, r
<1>8. CASE sb # sr /\ b = NoRow /\ r # NoRow
  <2>1. x = <<a>>
      BY <1>4, <1>8
  <2>2. x \in Seq(Delta) /\ Len(x) = 1 /\ x[1] = a
      BY <2>1, <1>2, <1>8
  <2>3. shown(x) = <<<<"I", sr>>>>
      BY <2>2, <1>3, <1>5
  <2>4. \A k \in 1..Len(x) : x[k].id = i
      BY <2>2, <1>3
  <2>5. shown(x) = IF sb = sr THEN <<>>
                   ELSE (IF b = NoRow THEN <<>> ELSE <<<<"D", sb>>>>)
                        \o (IF r = NoRow THEN <<>> ELSE <<<<"I", sr>>>>)
      BY <2>3, <1>8
  <2>. QED
      BY <2>2, <2>4, <2>5 DEF x, sb, sr, b, r
<1>9. CASE sb # sr /\ b # NoRow /\ r = NoRow
  <2>1. x = <<d>>
      BY <1>4, <1>9
  <2>2. x \in Seq(Delta) /\ Len(x) = 1 /\ x[1] = d
      BY <2>1, <1>1, <1>9
  <2>3. shown(x) = <<<<"D", sb>>>>
      BY <2>2, <1>3, <1>5
  <2>4. \A k \in 1..Len(x) : x[k].id = i
      BY <2>2, <1>3
  <2>5. shown(x) = IF sb = sr THEN <<>>
                   ELSE (IF b = NoRow THEN <<>> ELSE <<<<"D", sb>>>>)
                        \o (IF r = NoRow THEN <<>> ELSE <<<<"I", sr>>>>)
      BY <2>3, <1>9
  <2>. QED
      BY <2>2, <2>4, <2>5 DEF x, sb, sr, b, r
<1>10. CASE sb # sr /\ b # NoRow /\ r # NoRow
  <2>1. x = <<d>> \o <<a>>
      BY <1>4, <1>10
  <2>2. d \in Delta /\ a \in Delta
      BY <1>1, <1>2, <1>10
  <2>3. x \in Seq(Delta) /\ Len(x) = 2 /\ x[1] = d /\ x[2] = a
      BY <2>1, <2>2
  <2>4. \A k \in 1..Len(x) : k = 1 \/ k = 2
      BY <2>3
  <2>5. shown(x) = <<<<"D", sb>>, <<"I", sr>>>>
      BY <2>3, <1>3, <1>5
  <2>6. \A k \in 1..Len(x) : x[k].id = i
      BY <2>3, <2>4, <1>3
  <2>7. shown(x) = IF sb = sr THEN <<>>
                   ELSE (IF b = NoRow THEN <<>> ELSE <<<<"D", sb>>>>)
                        \o (IF r = NoRow THEN <<>> ELSE <<<<"I", sr>>>>)
    <3>1. <<<<"D", sb>>>> \o <<<<"I", sr>>>> = <<<<"D", sb>>, <<"I", sr>>>>
        BY OneAndOne, Zenon
    <3>2. shown(x) = <<<<"D", sb>>>> \o <<<<"I", sr>>>>
        BY <2>5, <3>1, Zenon
    <3>. QED
        BY <3>2, <1>10, Zenon
  <2>. QED
      BY <2>3, <2>6, <2>7 DEF x, sb, sr, b, r
<1>. QED
    BY <1>7, <1>8, <1>9, <1>10

\* What a touched identity held before and holds after is a row or none.
LEMMA BeforeAfterTypes ==
    ASSUME NEW raw \in Seq(Delta), NEW i, Touching(raw, i) # {}
    PROVE  Before(raw, i) \in Cell /\ After(raw, i) \in Cell
<1>. DEFINE M == Touching(raw, i)
<1>1. M \in SUBSET (1..Len(raw)) /\ Len(raw) \in Nat
    BY DEF Touching
<1>2. Min(M) \in M /\ Max(M) \in M
    BY <1>1, MinMaxAre
<1>3. raw[Min(M)].row \in Rows /\ raw[Max(M)].row \in Rows
  <2>1. raw[Min(M)] \in Delta /\ raw[Max(M)] \in Delta
      BY <1>1, <1>2
  <2>. QED
      BY <2>1 DEF Delta
<1>. QED
    BY <1>3 DEF Before, After, Cell

\* Order lists the touched identities, each once.
LEMMA OrderIs ==
    ASSUME NEW raw \in Seq(Delta)
    PROVE  \E m \in Nat :
              /\ Order(raw) \in [1..m -> Ids]
              /\ \A a, b \in 1..m : Order(raw)[a] = Order(raw)[b] => a = b
              /\ \A n \in 1..m : Touching(raw, Order(raw)[n]) # {}
              /\ \A i : Touching(raw, i) # {} => \E n \in 1..m : Order(raw)[n] = i
<1>. DEFINE F(i) == Min(Touching(raw, i))
            S == {F(raw[k].id) : k \in DOMAIN raw}
            t == Ascending(S)
            m == Cardinality(S)
<1>1. Len(raw) \in Nat /\ DOMAIN raw = 1..Len(raw)
    OBVIOUS
<1>2. ASSUME NEW i, Touching(raw, i) # {}
      PROVE  F(i) \in 1..Len(raw) /\ raw[F(i)].id = i
  <2>1. Touching(raw, i) \in SUBSET (1..Len(raw))
      BY DEF Touching
  <2>2. F(i) \in Touching(raw, i)
      BY <2>1, <1>2, <1>1, MinMaxAre
  <2>. QED
      BY <2>2, <1>1 DEF Touching
<1>3. \A k \in DOMAIN raw : Touching(raw, raw[k].id) # {}
    BY DEF Touching
<1>. HIDE DEF F
<1>4. \A p \in S : p \in 1..Len(raw) /\ F(raw[p].id) = p
    BY <1>2, <1>3
<1>5. S \in SUBSET Nat /\ S \in SUBSET (1..Len(raw))
    BY <1>4, <1>1
<1>6. IsFiniteSet(S)
  <2>1. IsFiniteSet(1..Len(raw))
      BY <1>1, FS_Interval
  <2>. HIDE DEF S
  <2>. QED
      BY <2>1, <1>5, FS_Subset
<1>7. /\ m \in Nat /\ t \in [1..m -> S]
      /\ \A j, k \in 1..m : j < k => t[j] < t[k]
      /\ \A p \in S : \E k \in 1..m : t[k] = p
  <2>. HIDE DEF S
  <2>. QED
      BY <1>5, <1>6, AscendingIs
<1>8. Order(raw) = [n \in 1..m |-> raw[t[n]].id]
  <2>1. DOMAIN t = 1..m
      BY <1>7
  <2>. QED
      BY <2>1 DEF Order, F
<1>. HIDE DEF t, m
<1>9. ASSUME NEW k \in 1..Len(raw) PROVE raw[k].id \in Ids
  <2>1. raw[k] \in Delta
      OBVIOUS
  <2>. QED
      BY <2>1 DEF Delta
<1>10. \A n \in 1..m : t[n] \in S /\ t[n] \in 1..Len(raw)
    BY <1>7, <1>4
<1>11. Order(raw) \in [1..m -> Ids]
  <2>. HIDE DEF S
  <2>. QED
      BY <1>8, <1>9, <1>10
<1>12. ASSUME NEW a \in 1..m, NEW b \in 1..m, Order(raw)[a] = Order(raw)[b] PROVE a = b
  <2>. HIDE DEF S
  <2>1. raw[t[a]].id = raw[t[b]].id
      BY <1>8, <1>12
  <2>2. t[a] = t[b]
      BY <2>1, <1>4, <1>10
  <2>3. t[a] \in Nat /\ t[b] \in Nat
      BY <1>10, <1>1
  <2>. QED
      BY <2>2, <2>3, <1>7
<1>13. \A n \in 1..m : Touching(raw, Order(raw)[n]) # {}
  <2>. HIDE DEF S
  <2>. QED
      BY <1>8, <1>10, <1>1, <1>3
<1>14. ASSUME NEW i, Touching(raw, i) # {} PROVE \E n \in 1..m : Order(raw)[n] = i
  <2>1. PICK k \in DOMAIN raw : raw[k].id = i
      BY <1>14 DEF Touching
  <2>2. F(i) \in S
      BY <2>1
  <2>. HIDE DEF S
  <2>3. PICK n \in 1..m : t[n] = F(i)
      BY <1>7, <2>2
  <2>. QED
      BY <2>3, <1>8, <1>2, <1>14
<1>. QED
    BY <1>7, <1>11, <1>12, <1>13, <1>14

\* The net deltas of a transaction: of every touched identity what NetOf says,
\* in one piece.
LEMMA NetIs ==
    ASSUME NEW raw \in Seq(Delta)
    PROVE  /\ Net(raw) \in Seq(Delta)
           /\ \A k \in 1..Len(Net(raw)) : Touching(raw, Net(raw)[k].id) # {}
           /\ \A i : Touching(raw, i) # {} =>
                \E o \in Nat :
                    /\ o + Len(NetOf(raw, i)) <= Len(Net(raw))
                    /\ \A x \in 1..Len(NetOf(raw, i)) : Net(raw)[o + x] = NetOf(raw, i)[x]
                    /\ \A k \in 1..Len(Net(raw)) :
                        Net(raw)[k].id = i => o < k /\ k <= o + Len(NetOf(raw, i))
<1>. DEFINE keys == Order(raw)
<1>1. PICK m \in Nat :
          /\ keys \in [1..m -> Ids]
          /\ \A a, b \in 1..m : keys[a] = keys[b] => a = b
          /\ \A n \in 1..m : Touching(raw, keys[n]) # {}
          /\ \A i : Touching(raw, i) # {} => \E n \in 1..m : keys[n] = i
    BY OrderIs
<1>. DEFINE s == [n \in 1..m |-> NetOf(raw, keys[n])]
<1>2. Net(raw) = FlattenSeq(s)
    BY <1>1 DEF Net
<1>. HIDE DEF keys
<1>3. ASSUME NEW n \in 1..m
      PROVE  s[n] \in Seq(Delta) /\ \A k \in 1..Len(s[n]) : s[n][k].id = keys[n]
  <2>1. keys[n] \in Ids /\ Touching(raw, keys[n]) # {}
      BY <1>1
  <2>2. Before(raw, keys[n]) \in Cell /\ After(raw, keys[n]) \in Cell
      BY <2>1, BeforeAfterTypes
  <2>. QED
      BY <2>1, <2>2, NetOfIs
<1>4. s \in [1..m -> Seq(Delta)]
    BY <1>3
<1>5. \A n \in 1..m : s[n] = NetOf(raw, keys[n])
    OBVIOUS
<1>. HIDE DEF s
<1>6. Blocks(Net(raw), s, keys, m)
  <2>1. \A n \in 1..m : \A k \in 1..Len(s[n]) : s[n][k].id = keys[n]
      BY <1>3
  <2>2. \A i, j \in 1..m : keys[i] = keys[j] => i = j
      BY <1>1
  <2>3. Blocks(FlattenSeq(s), s, keys, m)
      BY <1>4, <2>1, <2>2, FlattenBlocks
  <2>. QED
      BY <1>2, <2>3
<1>7. Net(raw) \in Seq(Delta)
    BY <1>6 DEF Blocks
<1>8. ASSUME NEW k \in 1..Len(Net(raw)) PROVE Touching(raw, Net(raw)[k].id) # {}
  <2>1. \E j \in 1..m : Net(raw)[k].id = keys[j]
      BY <1>6 DEF Blocks
  <2>. QED
      BY <2>1, <1>1
<1>9. ASSUME NEW i, Touching(raw, i) # {}
      PROVE  \E o \in Nat :
                /\ o + Len(NetOf(raw, i)) <= Len(Net(raw))
                /\ \A x \in 1..Len(NetOf(raw, i)) : Net(raw)[o + x] = NetOf(raw, i)[x]
                /\ \A k \in 1..Len(Net(raw)) :
                    Net(raw)[k].id = i => o < k /\ k <= o + Len(NetOf(raw, i))
  <2>1. PICK n \in 1..m : keys[n] = i
      BY <1>1, <1>9
  <2>2. s[n] = NetOf(raw, i)
      BY <2>1, <1>5
  <2>3. PICK o \in Nat :
            /\ o + Len(s[n]) <= Len(Net(raw))
            /\ \A x \in 1..Len(s[n]) : Net(raw)[o + x] = s[n][x]
            /\ \A k \in 1..Len(Net(raw)) : Net(raw)[k].id = keys[n] => o < k /\ k <= o + Len(s[n])
      BY <1>6 DEF Blocks
  <2>. QED
      BY <2>1, <2>2, <2>3
<1>. QED
    BY <1>7, <1>8, <1>9

-----------------------------------------------------------------------------
(* Rows by number, and what the rows of one transaction explain.           *)

\* Rows with the numbers that follow a.
NumberedFrom(rows, a, n) == {r.seq : r \in rows} = a + 1 .. a + n

\* Rows that are numbered without a gap, in the order of their numbers.
LEMMA BySeqIs ==
    ASSUME NEW rows, NEW a \in Nat, NEW n \in Nat, NumberedFrom(rows, a, n)
    PROVE  /\ BySeq(rows) \in [1..n -> rows]
           /\ \A k \in 1..n : BySeq(rows)[k].seq = a + k
<1>. DEFINE seqs == Ascending({r.seq : r \in rows})
<1>0. {r.seq : r \in rows} = a + 1 .. a + n
    BY DEF NumberedFrom
<1>1. seqs = [k \in 1..n |-> a + k]
    BY <1>0, AscendingInterval, Zenon
<1>. HIDE DEF seqs
<1>2. BySeq(rows) = [k \in 1..n |-> CHOOSE r \in rows : r.seq = a + k]
  <2>1. DOMAIN seqs = 1..n /\ \A k \in 1..n : seqs[k] = a + k
      BY <1>1
  <2>2. BySeq(rows) = [k \in DOMAIN seqs |-> CHOOSE r \in rows : r.seq = seqs[k]]
      BY DEF BySeq, seqs
  <2>. QED
      BY <2>1, <2>2
<1>3. ASSUME NEW k \in 1..n PROVE \E r \in rows : r.seq = a + k
  <2>1. a + k \in a + 1 .. a + n
      OBVIOUS
  <2>. QED
      BY <2>1, <1>0
<1>4. ASSUME NEW k \in 1..n PROVE BySeq(rows)[k] \in rows /\ BySeq(rows)[k].seq = a + k
  <2>1. BySeq(rows)[k] = CHOOSE r \in rows : r.seq = a + k
      BY <1>2
  <2>. QED
      BY <2>1, <1>3
<1>. QED
    BY <1>2, <1>4

\* An identity has no row exactly if it shows none.
LEMMA ShownNoRow ==
    ASSUME NEW r \in Cell
    PROVE  Shown(r) = NoRow <=> r = NoRow
BY NettingAssumption DEF Shown, Cell, NettingAssumption

\* What two states show decides the change between them.
LEMMA ChangeOfShown ==
    ASSUME NEW i \in Ids, NEW from, NEW from2, NEW to,
           from.content[i] \in Cell, from2.content[i] \in Cell,
           Shown(from.content[i]) = Shown(from2.content[i])
    PROVE  ChangeOf(i, from, to) = ChangeOf(i, from2, to)
<1>1. from.content[i] = NoRow <=> from2.content[i] = NoRow
    BY ShownNoRow
<1>. QED
    BY <1>1, Zenon DEF ChangeOf

\* The numbered net deltas of a transaction explain the step from the state
\* before it to the state after it.
LEMMA NetExplains ==
    ASSUME NEW c0 \in Contents, NEW c, NEW raw, Tracks(c0, c, raw),
           NEW from \in PastState, NEW to \in PastState, to.content = c,
           \A i \in Ids : Shown(from.content[i]) = Shown(c0[i]),
           to.seq = from.seq + Len(Net(raw)),
           NEW rows, NEW lsn,
           {r \in rows : r.seq \in from.seq + 1 .. to.seq} = Numbered(Net(raw), from.seq, lsn)
    PROVE  Explains(rows, from, to)
<1>. DEFINE net == Net(raw)
            a == from.seq
            Row(k) == [seq |-> a + k, lsn |-> lsn, op |-> net[k].op, id |-> net[k].id,
                       row |-> net[k].row]
<1>1. raw \in Seq(Delta) /\ c \in Contents
    BY DEF Tracks
<1>2. a \in Nat /\ from.content \in Contents
    BY DEF PastState
<1>3. net \in Seq(Delta) /\ Len(net) \in Nat /\ DOMAIN net = 1..Len(net)
    BY <1>1, NetIs
<1>4. {r \in rows : r.seq \in a + 1 .. to.seq} = {Row(k) : k \in 1..Len(net)}
    BY <1>3 DEF Numbered
<1>5. \A k \in 1..Len(net) : /\ Row(k).seq = a + k /\ Row(k).id = net[k].id
                             /\ Row(k).op = net[k].op /\ Row(k).row = net[k].row
    OBVIOUS
<1>6. \A k \in 1..Len(net) : Touching(raw, net[k].id) # {}
    BY <1>1, NetIs
<1>. HIDE DEF Row
<1>. SUFFICES ASSUME NEW i \in Ids
              PROVE  LET mine == RowsOf(i, rows, from, to)
                     IN  [n \in DOMAIN mine |-> <<mine[n].op, Shown(mine[n].row)>>]
                            = ChangeOf(i, from, to)
    BY Zenon DEF Explains
<1>. DEFINE S == {r \in rows : r.id = i /\ r.seq \in a + 1 .. to.seq}
            mine == BySeq(S)
<1>7. RowsOf(i, rows, from, to) = mine
    BY DEF RowsOf
<1>8. S = {Row(k) : k \in {k \in 1..Len(net) : net[k].id = i}}
  <2>1. S = {r \in {r \in rows : r.seq \in a + 1 .. to.seq} : r.id = i}
      OBVIOUS
  <2>. HIDE DEF net
  <2>. QED
      BY <2>1, <1>4, <1>5
<1>9. CASE Touching(raw, i) = {}
  <2>1. \A k \in 1..Len(net) : net[k].id # i
      BY <1>6, <1>9
  <2>2. S = {}
      BY <1>8, <2>1
  <2>3. {r.seq : r \in S} = 0 + 1 .. 0 + 0
      BY <2>2
  <2>. HIDE DEF S
  <2>4. mine \in [1..0 -> S]
      BY <2>3, BySeqIs DEF NumberedFrom
  <2>5. [n \in DOMAIN mine |-> <<mine[n].op, Shown(mine[n].row)>>] = <<>>
    <3>1. DOMAIN mine = 1..0
        BY <2>4
    <3>2. 1..0 = {}
        OBVIOUS
    <3>. QED
        BY <3>1, <3>2
  <2>6. c[i] = c0[i]
      BY <1>9 DEF Tracks
  <2>7. ChangeOf(i, from, to) = <<>>
      BY <2>6 DEF ChangeOf
  <2>. QED
      BY <1>7, <2>5, <2>7
<1>10. CASE Touching(raw, i) # {}
  <2>. DEFINE N == NetOf(raw, i)
  <2>1. PICK o \in Nat :
            /\ o + Len(N) <= Len(net)
            /\ \A x \in 1..Len(N) : net[o + x] = N[x]
            /\ \A k \in 1..Len(net) : net[k].id = i => o < k /\ k <= o + Len(N)
      BY <1>1, <1>10, NetIs
  <2>2. Before(raw, i) = c0[i] /\ After(raw, i) = c[i]
      BY <1>10 DEF Tracks
  <2>3. c0[i] \in Cell /\ c[i] \in Cell /\ from.content[i] \in Cell
      BY <1>1, <1>2 DEF Contents
  <2>. DEFINE before == [seq |-> a, content |-> c0]
  <2>4. /\ N \in Seq(Delta)
        /\ \A k \in 1..Len(N) : N[k].id = i
        /\ [n \in 1..Len(N) |-> <<N[n].op, Shown(N[n].row)>>] = ChangeOf(i, before, to)
    <3>1. before.content[i] = c0[i]
        OBVIOUS
    <3>. HIDE DEF before
    <3>. QED
      <4>1. /\ N \in Seq(Delta)
            /\ \A k \in 1..Len(N) : N[k].id = i
            /\ [n \in 1..Len(N) |-> <<N[n].op, Shown(N[n].row)>>]
                  = IF Shown(c0[i]) = Shown(c[i]) THEN <<>>
                    ELSE (IF c0[i] = NoRow THEN <<>> ELSE <<<<"D", Shown(c0[i])>>>>)
                         \o (IF c[i] = NoRow THEN <<>> ELSE <<<<"I", Shown(c[i])>>>>)
        <5>1. Before(raw, i) \in Cell /\ After(raw, i) \in Cell
            BY <2>2, <2>3
        <5>2. /\ N \in Seq(Delta)
              /\ \A k \in 1..Len(N) : N[k].id = i
              /\ [n \in 1..Len(N) |-> <<N[n].op, Shown(N[n].row)>>]
                    = IF Shown(Before(raw, i)) = Shown(After(raw, i)) THEN <<>>
                      ELSE (IF Before(raw, i) = NoRow THEN <<>>
                            ELSE <<<<"D", Shown(Before(raw, i))>>>>)
                           \o (IF After(raw, i) = NoRow THEN <<>>
                               ELSE <<<<"I", Shown(After(raw, i))>>>>)
            BY <5>1, NetOfIs, Zenon
        <5>. HIDE DEF N
        <5>. QED
            BY <2>2, <5>2, Zenon
      <4>2. to.content[i] = c[i]
          OBVIOUS
      <4>. HIDE DEF N
      <4>. QED
          BY <3>1, <4>1, <4>2, Zenon DEF ChangeOf
  <2>5. ChangeOf(i, before, to) = ChangeOf(i, from, to)
    <3>1. before.content[i] = c0[i]
        OBVIOUS
    <3>. HIDE DEF before
    <3>. QED
        BY <2>3, <3>1, ChangeOfShown
  <2>. HIDE DEF N, net, before
  <2>6. Len(N) \in Nat
      BY <2>4
  <2>7. {k \in 1..Len(net) : net[k].id = i} = o + 1 .. o + Len(N)
    <3>1. ASSUME NEW k \in o + 1 .. o + Len(N) PROVE k \in 1..Len(net) /\ net[k].id = i
      <4>1. k - o \in 1..Len(N) /\ k = o + (k - o)
          BY <2>6
      <4>2. net[k] = N[k - o]
          BY <4>1, <2>1
      <4>. QED
          BY <4>1, <4>2, <2>1, <2>4, <2>6, <1>3
    <3>2. ASSUME NEW k \in 1..Len(net), net[k].id = i PROVE k \in o + 1 .. o + Len(N)
        BY <2>1, <2>6, <1>3, <3>2
    <3>. QED
        BY <3>1, <3>2
  <2>8. S = {Row(k) : k \in o + 1 .. o + Len(N)}
      BY <1>8, <2>7
  <2>9. \A k \in o + 1 .. o + Len(N) : k \in 1..Len(net)
      BY <2>7
  <2>. DEFINE b == a + o
  <2>10. b \in Nat
      BY <1>2
  <2>11. {r.seq : r \in S} = b + 1 .. b + Len(N)
    <3>1. ASSUME NEW r \in S PROVE r.seq \in b + 1 .. b + Len(N)
      <4>1. PICK k \in o + 1 .. o + Len(N) : r = Row(k)
          BY <2>8
      <4>2. r.seq = a + k
          BY <4>1, <2>9, <1>5
      <4>. HIDE DEF S, Row
      <4>3. /\ k \in Nat /\ o + 1 <= k /\ k <= o + Len(N)
            /\ a \in Nat /\ o \in Nat
          BY <1>2, <2>6
      <4>4. a + k \in b + 1 .. b + Len(N)
          BY <4>3, <2>6
      <4>. QED
          BY <4>2, <4>4
    <3>2. ASSUME NEW x \in b + 1 .. b + Len(N) PROVE \E r \in S : r.seq = x
      <4>1. x - a \in o + 1 .. o + Len(N) /\ x = a + (x - a)
          BY <1>2, <2>6
      <4>2. Row(x - a) \in S /\ Row(x - a).seq = x
          BY <4>1, <2>8, <2>9, <1>5
      <4>. QED
          BY <4>2
    <3>. QED
        BY <3>1, <3>2
  <2>. HIDE DEF S
  <2>12. mine \in [1..Len(N) -> S] /\ \A k \in 1..Len(N) : mine[k].seq = b + k
    <3>. HIDE DEF b, N
    <3>1. NumberedFrom(S, b, Len(N))
        BY <2>11 DEF NumberedFrom
    <3>. QED
        BY <3>1, <2>6, <2>10, BySeqIs
  <2>13. ASSUME NEW n \in 1..Len(N) PROVE mine[n].op = N[n].op /\ mine[n].row = N[n].row
    <3>1. mine[n] \in S /\ mine[n].seq = a + o + n
        BY <2>12
    <3>2. PICK k \in o + 1 .. o + Len(N) : mine[n] = Row(k)
        BY <3>1, <2>8
    <3>3. a + k = a + o + n
        BY <3>1, <3>2, <2>9, <1>5
    <3>4. k = o + n
        BY <3>3, <1>2, <2>6
    <3>5. net[k] = N[n]
        BY <3>4, <2>1
    <3>. QED
        BY <3>2, <3>5, <2>9, <1>5
  <2>14. [n \in DOMAIN mine |-> <<mine[n].op, Shown(mine[n].row)>>]
            = [n \in 1..Len(N) |-> <<N[n].op, Shown(N[n].row)>>]
    <3>1. DOMAIN mine = 1..Len(N)
        BY <2>12
    <3>. HIDE DEF mine
    <3>. QED
        BY <3>1, <2>13
  <2>. QED
      BY <1>7, <2>4, <2>5, <2>14
<1>. QED
    BY <1>9, <1>10

\* Only the rows between two states explain the step from one to the other.
LEMMA ExplainsSame ==
    ASSUME NEW rows, NEW rows2, NEW from, NEW to,
           \A r : r.seq \in from.seq + 1 .. to.seq => (r \in rows <=> r \in rows2),
           Explains(rows, from, to)
    PROVE  Explains(rows2, from, to)
<1>1. ASSUME NEW i PROVE RowsOf(i, rows, from, to) = RowsOf(i, rows2, from, to)
  <2>1. {r \in rows : r.id = i /\ r.seq \in from.seq + 1 .. to.seq}
            = {r \in rows2 : r.id = i /\ r.seq \in from.seq + 1 .. to.seq}
      OBVIOUS
  <2>. QED
      BY <2>1, Zenon DEF RowsOf
<1>. QED
    BY <1>1 DEF Explains

\* Nothing net is written exactly if nothing shows a change.
LEMMA NothingNetShows ==
    ASSUME NEW c0 \in Contents, NEW c, NEW raw, Tracks(c0, c, raw), Net(raw) = <<>>,
           NEW i \in Ids
    PROVE  Shown(c[i]) = Shown(c0[i])
<1>1. raw \in Seq(Delta) /\ c \in Contents
    BY DEF Tracks
<1>2. CASE Touching(raw, i) = {}
    BY <1>2 DEF Tracks
<1>3. CASE Touching(raw, i) # {}
  <2>. DEFINE N == NetOf(raw, i)
              b == c0[i]
              r == c[i]
  <2>1. Before(raw, i) = b /\ After(raw, i) = r
      BY <1>3 DEF Tracks
  <2>2. b \in Cell /\ r \in Cell
      BY <1>1 DEF Contents
  <2>3. PICK o \in Nat : o + Len(N) <= Len(Net(raw))
      BY <1>1, <1>3, NetIs
  <2>4. Len(Net(raw)) = 0
      OBVIOUS
  <2>5. N \in Seq(Delta)
      BY <2>1, <2>2, NetOfIs
  <2>6. N = <<>>
      BY <2>3, <2>4, <2>5
  <2>7. N = IF Shown(b) = Shown(r) THEN <<>>
            ELSE (IF b = NoRow THEN <<>> ELSE <<[op |-> "D", id |-> i, row |-> b]>>)
                 \o (IF r = NoRow THEN <<>> ELSE <<[op |-> "I", id |-> i, row |-> r]>>)
      BY <2>1, Zenon DEF NetOf
  <2>8. ASSUME Shown(b) # Shown(r) PROVE FALSE
    <3>1. b # NoRow \/ r # NoRow
        BY <2>8, Zenon
    <3>. DEFINE d == [op |-> "D", id |-> i, row |-> b]
                a == [op |-> "I", id |-> i, row |-> r]
    <3>. HIDE DEF N, d, a, b, r
    <3>2. N = (IF b = NoRow THEN <<>> ELSE <<d>>) \o (IF r = NoRow THEN <<>> ELSE <<a>>)
        BY <2>7, <2>8, Zenon DEF d, a
    <3>3. CASE b # NoRow /\ r # NoRow
      <4>1. N = <<d, a>>
          BY <3>2, <3>3, OneAndOne, Zenon
      <4>. QED
          BY <4>1, <2>6
    <3>4. CASE b = NoRow /\ r # NoRow
      <4>1. N = <<a>>
          BY <3>2, <3>4
      <4>. QED
          BY <4>1, <2>6
    <3>5. CASE b # NoRow /\ r = NoRow
      <4>1. N = <<d>>
          BY <3>2, <3>5
      <4>. QED
          BY <4>1, <2>6
    <3>. QED
        BY <3>1, <3>3, <3>4, <3>5
  <2>. QED
      BY <2>8, Zenon
<1>. QED
    BY <1>2, <1>3

-----------------------------------------------------------------------------
(* How the log goes on fitting.                                            *)

\* A build starts with an empty log and one state.
LEMMA FitsBuilt ==
    ASSUME NEW n \in Nat, NEW front, NEW c \in Contents
    PROVE  LogFits({}, <<[seq |-> n, content |-> c]>>, n, front, c)
<1>. DEFINE s == [seq |-> n, content |-> c]
<1>1. s \in PastState /\ s.seq = n /\ s.content = c
    BY DEF PastState
<1>. HIDE DEF s
<1>2. <<s>> \in Seq(PastState) /\ Len(<<s>>) = 1 /\ <<s>> # <<>> /\ <<s>>[1] = s
    BY <1>1
<1>3. \A k \in DOMAIN <<s>> : <<s>>[k].seq <= n
    BY <1>1, <1>2
<1>4. InCommitOrder({}, n, n)
    BY DEF InCommitOrder
<1>5. n \in 0..n
    OBVIOUS
<1>6. EndsAtStates({}, <<s>>) /\ CutAtStates({}, <<s>>)
    BY DEF EndsAtStates, CutAtStates
<1>7. InOrder(<<s>>)
    BY <1>2 DEF InOrder
<1>8. LogFits({}, <<s>>, n, front, c)
    BY <1>1, <1>2, <1>3, <1>4, <1>5, <1>6, <1>7 DEF LogFits
<1>. QED
    BY <1>8 DEF s

\* Collecting the oldest rows.
LEMMA FitsRetained ==
    ASSUME NEW rows, NEW states, NEW last \in Nat, NEW front, NEW now,
           LogFits(rows, states, last, front, now)
    PROVE  LogFits(Retained(rows, last), states, last, front, now)
<1>. DEFINE kept == Retained(rows, last)
<1>1. kept = {r \in rows : r.seq > last - Retain}
    BY DEF Retained
<1>2. Retain \in Nat \ {0}
    BY DeltaLogAssumption DEF DeltaLogAssumption
<1>3. PICK first \in 0..last :
          /\ InCommitOrder(rows, first, last)
          /\ \A k \in 2..Len(states) :
              states[k - 1].seq >= first => Explains(rows, states[k - 1], states[k])
    BY DEF LogFits
<1>4. /\ rows \subseteq LoggedRow
      /\ {r.seq : r \in rows} = first + 1 .. last
      /\ \A r, q \in rows : r.seq = q.seq => r = q
      /\ \A r, q \in rows : r.seq <= q.seq => r.lsn <= q.lsn
    BY <1>3 DEF InCommitOrder
<1>5. \A r \in rows : r.seq \in first + 1 .. last
    BY <1>4
<1>. HIDE DEF kept
<1>. DEFINE first2 == IF last - Retain <= first THEN first ELSE last - Retain
<1>6. first2 \in 0..last /\ first <= first2 /\ last - Retain <= first2
    BY <1>2
<1>7. \A r \in rows : r \in kept <=> r.seq > first2
    BY <1>1, <1>2, <1>5
<1>8. kept \subseteq rows
    BY <1>1
<1>. HIDE DEF first2
<1>9. InCommitOrder(kept, first2, last)
  <2>1. {r.seq : r \in kept} = first2 + 1 .. last
    <3>1. ASSUME NEW r \in kept PROVE r.seq \in first2 + 1 .. last
        BY <1>5, <1>6, <1>7, <1>8
    <3>2. ASSUME NEW x \in first2 + 1 .. last PROVE \E r \in kept : r.seq = x
      <4>1. x \in first + 1 .. last
          BY <1>6
      <4>2. PICK r \in rows : r.seq = x
          BY <4>1, <1>4
      <4>3. r \in kept
          BY <4>2, <1>6, <1>7
      <4>. QED
          BY <4>2, <4>3
    <3>. QED
        BY <3>1, <3>2
  <2>. QED
      BY <2>1, <1>4, <1>8 DEF InCommitOrder
<1>10. EndsAtStates(kept, states)
  <2>1. ASSUME NEW r \in kept, \A q \in kept : q.seq = r.seq + 1 => q.lsn # r.lsn
        PROVE  \E k \in DOMAIN states : states[k].seq = r.seq
    <3>1. ASSUME NEW q \in rows, q.seq = r.seq + 1 PROVE q \in kept
        BY <3>1, <1>5, <1>6, <1>7, <1>8
    <3>2. \A q \in rows : q.seq = r.seq + 1 => q.lsn # r.lsn
        BY <2>1, <3>1
    <3>3. EndsAtStates(rows, states)
        BY DEF LogFits
    <3>. QED
        BY <3>2, <3>3, <1>8 DEF EndsAtStates
  <2>. QED
      BY <2>1 DEF EndsAtStates
<1>11. ASSUME NEW k \in 2..Len(states), states[k - 1].seq >= first2
       PROVE  Explains(kept, states[k - 1], states[k])
  <2>. DEFINE from == states[k - 1]
              to == states[k]
  <2>1. states \in Seq(PastState)
      BY DEF LogFits
  <2>2. k - 1 \in 1..Len(states) /\ k \in 1..Len(states)
      BY <2>1
  <2>3. from.seq \in Nat /\ to.seq \in Nat
    <3>1. from \in PastState /\ to \in PastState
        BY <2>1, <2>2
    <3>. QED
        BY <3>1 DEF PastState
  <2>4. from.seq >= first /\ from.seq >= first2
      BY <2>3, <1>6, <1>11
  <2>5. Explains(rows, from, to)
      BY <2>4, <1>3
  <2>. HIDE DEF from, to
  <2>6. ASSUME NEW r, r.seq \in from.seq + 1 .. to.seq PROVE r \in rows <=> r \in kept
    <3>1. r.seq > first2
        BY <2>3, <2>4, <2>6, <1>6
    <3>. QED
        BY <3>1, <1>7, <1>8
  <2>7. Explains(kept, from, to)
      BY <2>5, <2>6, ExplainsSame
  <2>. QED
      BY <2>7 DEF from, to
<1>12. \A r \in kept : r.lsn <= front
    BY <1>8 DEF LogFits
<1>13. /\ states \in Seq(PastState) /\ states # <<>> /\ InOrder(states)
       /\ \A k \in DOMAIN states : states[k].seq <= last
       /\ states[Len(states)].seq = last
       /\ \A i \in Ids : Shown(states[Len(states)].content[i]) = Shown(now[i])
    BY DEF LogFits
<1>14. CutAtStates(kept, states)
    BY <1>8, Zenon DEF LogFits, CutAtStates
<1>15. LogFits(kept, states, last, front, now)
    BY <1>6, <1>9, <1>10, <1>11, <1>12, <1>13, <1>14, Zenon DEF LogFits
<1>. QED
    BY <1>15 DEF kept

\* The numbered deltas of one transaction.
LEMMA NumberedIs ==
    ASSUME NEW net \in Seq(Delta), NEW last \in Nat, NEW lsn \in Nat
    PROVE  /\ Numbered(net, last, lsn) \subseteq LoggedRow
           /\ \A r \in Numbered(net, last, lsn) : r.seq \in last + 1 .. last + Len(net) /\ r.lsn = lsn
           /\ \A x \in last + 1 .. last + Len(net) : \E r \in Numbered(net, last, lsn) : r.seq = x
           /\ \A r, q \in Numbered(net, last, lsn) : r.seq = q.seq => r = q
           /\ net = <<>> => Numbered(net, last, lsn) = {}
<1>. DEFINE Row(k) == [seq |-> last + k, lsn |-> lsn, op |-> net[k].op, id |-> net[k].id,
                       row |-> net[k].row]
            new == Numbered(net, last, lsn)
<1>1. Len(net) \in Nat /\ DOMAIN net = 1..Len(net)
    OBVIOUS
<1>2. new = {Row(k) : k \in 1..Len(net)}
    BY <1>1 DEF Numbered
<1>3. \A k \in 1..Len(net) : Row(k).seq = last + k /\ Row(k).lsn = lsn
    OBVIOUS
<1>4. ASSUME NEW k \in 1..Len(net) PROVE Row(k) \in LoggedRow
  <2>1. net[k] \in Delta
      OBVIOUS
  <2>. QED
      BY <1>1, <2>1 DEF Delta, LoggedRow
<1>. HIDE DEF Row, new
<1>5. new \subseteq LoggedRow
    BY <1>2, <1>4
<1>6. \A r \in new : r.seq \in last + 1 .. last + Len(net) /\ r.lsn = lsn
    BY <1>1, <1>2, <1>3
<1>7. ASSUME NEW x \in last + 1 .. last + Len(net) PROVE \E r \in new : r.seq = x
  <2>1. x - last \in 1..Len(net) /\ x = last + (x - last)
      BY <1>1
  <2>2. Row(x - last) \in new /\ Row(x - last).seq = x
      BY <2>1, <1>2, <1>3
  <2>. QED
      BY <2>2
<1>8. ASSUME NEW r \in new, NEW q \in new, r.seq = q.seq PROVE r = q
  <2>1. PICK j \in 1..Len(net) : r = Row(j)
      BY <1>2
  <2>2. PICK k \in 1..Len(net) : q = Row(k)
      BY <1>2
  <2>3. last + j = last + k
      BY <2>1, <2>2, <1>3, <1>8
  <2>4. j = k
      BY <2>3
  <2>. QED
      BY <2>1, <2>2, <2>4
<1>9. ASSUME net = <<>> PROVE new = {}
  <2>1. Len(net) = 0
      BY <1>9
  <2>. QED
      BY <2>1, <1>2
<1>. QED
    BY <1>5, <1>6, <1>7, <1>8, <1>9 DEF new

\* The view absorbs one source transaction.
LEMMA FitsAbsorbed ==
    ASSUME NEW rows, NEW states, NEW last \in Nat, NEW front \in Nat, NEW now \in Contents,
           LogFits(rows, states, last, front, now),
           NEW raw, NEW c, Tracks(now, c, raw)
    PROVE  LET net == Net(raw)
               new == last + Len(net)
           IN  LogFits(rows \cup Numbered(net, last, front + 1),
                       IF net = <<>> THEN states ELSE Append(states, [seq |-> new, content |-> c]),
                       new, front + 1, c)
<1>. DEFINE net == Net(raw)
            add == Numbered(net, last, front + 1)
            all == rows \cup add
            new == last + Len(net)
            s == [seq |-> new, content |-> c]
<1>1. raw \in Seq(Delta) /\ c \in Contents
    BY DEF Tracks
<1>2. net \in Seq(Delta) /\ Len(net) \in Nat
    BY <1>1, NetIs
<1>3. new \in Nat /\ front + 1 \in Nat
    BY <1>2
<1>4. /\ states \in Seq(PastState) /\ states # <<>>
      /\ \A k \in DOMAIN states : states[k].seq <= last
      /\ states[Len(states)].seq = last
      /\ \A i \in Ids : Shown(states[Len(states)].content[i]) = Shown(now[i])
      /\ \A r \in rows : r.lsn <= front
      /\ EndsAtStates(rows, states)
      /\ InOrder(states) /\ CutAtStates(rows, states)
    BY DEF LogFits
<1>5. PICK first \in 0..last :
          /\ InCommitOrder(rows, first, last)
          /\ \A k \in 2..Len(states) :
              states[k - 1].seq >= first => Explains(rows, states[k - 1], states[k])
    BY DEF LogFits
<1>6. /\ rows \subseteq LoggedRow
      /\ {r.seq : r \in rows} = first + 1 .. last
      /\ \A r, q \in rows : r.seq = q.seq => r = q
      /\ \A r, q \in rows : r.seq <= q.seq => r.lsn <= q.lsn
    BY <1>5 DEF InCommitOrder
<1>7. /\ add \subseteq LoggedRow
      /\ \A r \in add : r.seq \in last + 1 .. new /\ r.lsn = front + 1
      /\ \A x \in last + 1 .. new : \E r \in add : r.seq = x
      /\ \A r, q \in add : r.seq = q.seq => r = q
      /\ net = <<>> => add = {}
    BY <1>2, <1>3, NumberedIs
<1>8. \A r \in rows : r.seq \in first + 1 .. last
    BY <1>6
<1>9. s.seq = new /\ s.content = c /\ s \in PastState
    BY <1>1, <1>3 DEF PastState
<1>10. Len(states) \in Nat /\ Len(states) >= 1 /\ DOMAIN states = 1..Len(states)
    BY <1>4
<1>. DEFINE from == states[Len(states)]
<1>11. from \in PastState /\ from.seq = last
    BY <1>4, <1>10
<1>12. net # <<>> => {r \in all : r.seq \in from.seq + 1 .. s.seq} = add
    BY <1>7, <1>8, <1>9, <1>11
<1>. DEFINE to == s
<1>13. net # <<>> => Explains(all, from, to)
  <2>1. \A i \in Ids : Shown(from.content[i]) = Shown(now[i])
      BY <1>4
  <2>2. to \in PastState /\ to.content = c /\ to.seq = from.seq + Len(Net(raw))
      BY <1>9, <1>11
  <2>3. net # <<>> =>
            {r \in all : r.seq \in from.seq + 1 .. to.seq} = Numbered(Net(raw), from.seq, front + 1)
      BY <1>11, <1>12
  <2>. HIDE DEF from, to, all
  <2>. QED
      BY <1>11, <2>1, <2>2, <2>3, NetExplains
<1>. HIDE DEF net, add, new, s, from, to
<1>14. InCommitOrder(all, first, new)
  <2>1. {r.seq : r \in all} = first + 1 .. new
    <3>1. ASSUME NEW r \in all PROVE r.seq \in first + 1 .. new
        BY <1>7, <1>8, <1>2 DEF new
    <3>2. ASSUME NEW x \in first + 1 .. new PROVE \E r \in all : r.seq = x
      <4>1. CASE x <= last
        <5>1. x \in first + 1 .. last
            BY <4>1
        <5>2. \E r \in rows : r.seq = x
            BY <5>1, <1>6
        <5>. QED
            BY <5>2
      <4>2. CASE ~ (x <= last)
        <5>1. x \in last + 1 .. new
            BY <4>2, <1>3
        <5>. QED
            BY <5>1, <1>7
      <4>. QED
          BY <4>1, <4>2
    <3>. QED
        BY <3>1, <3>2
  <2>2. ASSUME NEW r \in all, NEW q \in all, r.seq = q.seq PROVE r = q
    <3>1. CASE r \in rows /\ q \in rows
        BY <3>1, <2>2, <1>6
    <3>2. CASE r \in add /\ q \in add
        BY <3>2, <2>2, <1>7
    <3>3. CASE (r \in rows /\ q \in add) \/ (r \in add /\ q \in rows)
      <4>1. ~ (r.seq = q.seq)
          BY <3>3, <1>3, <1>7, <1>8
      <4>. QED
          BY <4>1, <2>2
    <3>. QED
        BY <3>1, <3>2, <3>3
  <2>3. ASSUME NEW r \in all, NEW q \in all, r.seq <= q.seq PROVE r.lsn <= q.lsn
    <3>1. CASE r \in rows /\ q \in rows
        BY <3>1, <2>3, <1>6
    <3>2. CASE r \in add /\ q \in add
        BY <3>2, <1>3, <1>7
    <3>3. CASE r \in rows /\ q \in add
      <4>1. r.lsn <= front /\ q.lsn = front + 1 /\ r.lsn \in Nat
          BY <3>3, <1>4, <1>6, <1>7 DEF LoggedRow
      <4>. QED
          BY <4>1
    <3>4. CASE r \in add /\ q \in rows
      <4>1. ~ (r.seq <= q.seq)
          BY <3>4, <1>3, <1>7, <1>8
      <4>. QED
          BY <4>1, <2>3
    <3>. QED
        BY <3>1, <3>2, <3>3, <3>4
  <2>4. all \subseteq LoggedRow
      BY <1>6, <1>7
  <2>. QED
      BY <2>1, <2>2, <2>3, <2>4 DEF InCommitOrder
<1>15. ASSUME NEW r \in all PROVE r.lsn <= front + 1
  <2>1. r.lsn \in Nat
      BY <1>6, <1>7 DEF LoggedRow
  <2>. QED
      BY <2>1, <1>4, <1>7
<1>16. ASSUME NEW r \in rows, \A q \in all : q.seq = r.seq + 1 => q.lsn # r.lsn
       PROVE  \E k \in DOMAIN states : states[k].seq = r.seq
    BY <1>16, <1>4 DEF EndsAtStates
<1>17. ASSUME NEW k \in 2..Len(states), states[k - 1].seq >= first
       PROVE  Explains(all, states[k - 1], states[k])
  <2>. DEFINE a == states[k - 1]
              b == states[k]
  <2>1. k \in 1..Len(states) /\ k - 1 \in 1..Len(states)
      BY <1>10
  <2>2. Explains(rows, a, b)
      BY <1>5, <1>17
  <2>3. b.seq <= last /\ b \in PastState /\ a \in PastState
      BY <2>1, <1>4, <1>10
  <2>4. a.seq \in Nat /\ b.seq \in Nat
      BY <2>3 DEF PastState
  <2>. HIDE DEF a, b
  <2>5. \A r : r.seq \in a.seq + 1 .. b.seq => (r \in rows <=> r \in all)
      BY <2>3, <2>4, <1>3, <1>7
  <2>6. Explains(all, a, b)
      BY <2>2, <2>5, ExplainsSame
  <2>. QED
      BY <2>6 DEF a, b
<1>18. CutAtStates(all, states)
  <2>1. ASSUME NEW k \in DOMAIN states, NEW r \in all, NEW q \in all,
               r.seq <= states[k].seq, q.seq > states[k].seq
        PROVE  r.lsn < q.lsn
    <3>1. states[k].seq <= last /\ states[k].seq \in Nat
      <4>1. states[k] \in PastState
          BY <1>4
      <4>. QED
          BY <4>1, <1>4 DEF PastState
    <3>2. r \in rows
        BY <2>1, <3>1, <1>2, <1>7 DEF new
    <3>3. CASE q \in rows
        BY <3>2, <3>3, <2>1, <1>4 DEF CutAtStates
    <3>4. CASE q \in add
      <4>1. r.lsn <= front /\ r.lsn \in Nat /\ q.lsn = front + 1
          BY <3>2, <3>4, <1>4, <1>6, <1>7 DEF LoggedRow
      <4>. QED
          BY <4>1
    <3>. QED
        BY <3>3, <3>4
  <2>. QED
      BY <2>1, Zenon DEF CutAtStates
<1>19. CASE net = <<>>
  <2>1. new = last
      BY <1>19 DEF new
  <2>2. EndsAtStates(all, states)
    <3>1. all = rows
        BY <1>7, <1>19
    <3>. QED
        BY <3>1, <1>4
  <2>3. \A i \in Ids : Shown(states[Len(states)].content[i]) = Shown(c[i])
    <3>1. \A i \in Ids : Shown(c[i]) = Shown(now[i])
        BY <1>19, NothingNetShows DEF net
    <3>. QED
        BY <3>1, <1>4
  <2>4. LogFits(all, states, new, front + 1, c)
    <3>. HIDE DEF all
    <3>. QED
        BY <2>1, <2>2, <2>3, <1>4, <1>5, <1>14, <1>15, <1>17, <1>18 DEF LogFits
  <2>. QED
      BY <2>4, <1>19 DEF net, new, add, s
<1>20. CASE net # <<>>
  <2>. DEFINE longer == Append(states, s)
  <2>1. /\ longer \in Seq(PastState) /\ Len(longer) = Len(states) + 1
        /\ \A k \in 1..Len(states) : longer[k] = states[k]
        /\ longer[Len(states) + 1] = s
        /\ DOMAIN longer = 1..(Len(states) + 1)
      BY <1>4, <1>9
  <2>. HIDE DEF longer
  <2>2. longer # <<>>
    <3>1. Len(<<>>) = 0
        OBVIOUS
    <3>. QED
        BY <3>1, <2>1, <1>10
  <2>3. last < new
    <3>1. Len(net) # 0
        BY <1>20, <1>2
    <3>. QED
        BY <3>1, <1>2 DEF new
  <2>4. ASSUME NEW k \in DOMAIN longer PROVE longer[k].seq <= new
    <3>1. CASE k \in 1..Len(states)
      <4>1. states[k].seq <= last /\ states[k] \in PastState
          BY <3>1, <1>4, <1>10
      <4>2. states[k].seq \in Nat
          BY <4>1 DEF PastState
      <4>. QED
          BY <4>1, <4>2, <3>1, <2>1, <2>3, <1>3
    <3>2. CASE k = Len(states) + 1
        BY <3>2, <2>1, <1>9, <1>3
    <3>. QED
        BY <3>1, <3>2, <2>1, <1>10
  <2>5. \A i \in Ids : Shown(longer[Len(longer)].content[i]) = Shown(c[i])
      BY <2>1, <1>9
  <2>6. ASSUME NEW r \in all, \A q \in all : q.seq = r.seq + 1 => q.lsn # r.lsn
        PROVE  \E k \in DOMAIN longer : longer[k].seq = r.seq
    <3>1. CASE r \in rows
      <4>1. PICK k \in DOMAIN states : states[k].seq = r.seq
          BY <1>16, <2>6, <3>1
      <4>2. k \in DOMAIN longer /\ longer[k] = states[k]
          BY <4>1, <2>1, <1>10
      <4>. QED
          BY <4>1, <4>2
    <3>2. CASE r \in add
      <4>1. r.seq \in last + 1 .. new /\ r.lsn = front + 1
          BY <3>2, <1>7
      <4>2. ASSUME r.seq # new PROVE FALSE
        <5>1. r.seq + 1 \in last + 1 .. new
            BY <4>1, <4>2, <1>3
        <5>2. PICK q \in add : q.seq = r.seq + 1
            BY <5>1, <1>7
        <5>3. q.lsn = r.lsn
            BY <5>2, <4>1, <1>7
        <5>. QED
            BY <5>2, <5>3, <2>6
      <4>3. Len(states) + 1 \in DOMAIN longer
          BY <2>1, <1>10
      <4>. QED
          BY <4>2, <4>3, <2>1, <1>9
    <3>. QED
        BY <3>1, <3>2
  <2>7. EndsAtStates(all, longer)
      BY <2>6 DEF EndsAtStates
  <2>8. ASSUME NEW k \in 2..Len(longer), longer[k - 1].seq >= first
        PROVE  Explains(all, longer[k - 1], longer[k])
    <3>1. CASE k <= Len(states)
      <4>1. k \in 2..Len(states) /\ k \in 1..Len(states) /\ k - 1 \in 1..Len(states)
          BY <3>1, <1>10, <2>1
      <4>2. longer[k - 1] = states[k - 1] /\ longer[k] = states[k]
          BY <4>1, <2>1
      <4>. QED
          BY <4>1, <4>2, <2>8, <1>17
    <3>2. CASE ~ (k <= Len(states))
      <4>1. k = Len(states) + 1 /\ k - 1 = Len(states) /\ k - 1 \in 1..Len(states)
          BY <3>2, <1>10, <2>1
      <4>2. longer[k - 1] = from /\ longer[k] = to
          BY <4>1, <2>1 DEF from, to
      <4>. QED
          BY <4>2, <1>13, <1>20
    <3>. QED
        BY <3>1, <3>2
  <2>9. longer[Len(longer)].seq = new
      BY <2>1, <1>9
  <2>10. first \in 0..new
      BY <2>3, <1>3
  <2>11. InOrder(longer)
    <3>1. ASSUME NEW j \in DOMAIN longer, NEW k \in DOMAIN longer, j < k
          PROVE  longer[j].seq < longer[k].seq
      <4>1. j \in 1..Len(states)
          BY <3>1, <2>1, <1>10
      <4>2. longer[j] = states[j] /\ states[j].seq <= last /\ states[j].seq \in Nat
        <5>1. states[j] \in PastState
            BY <4>1, <1>4
        <5>. QED
            BY <4>1, <5>1, <1>4, <1>10, <2>1 DEF PastState
      <4>3. CASE k \in 1..Len(states)
          BY <4>1, <4>3, <3>1, <2>1, <1>4, <1>10 DEF InOrder
      <4>4. CASE k = Len(states) + 1
          BY <4>2, <4>4, <2>1, <2>3, <1>3, <1>9
      <4>. QED
          BY <4>3, <4>4, <2>1, <1>10
    <3>. QED
        BY <3>1 DEF InOrder
  <2>12. CutAtStates(all, longer)
    <3>1. ASSUME NEW k \in DOMAIN longer, NEW r \in all, NEW q \in all,
                 r.seq <= longer[k].seq, q.seq > longer[k].seq
          PROVE  r.lsn < q.lsn
      <4>1. q.seq <= new /\ q.seq \in Nat
          BY <1>3, <1>7, <1>8, <2>3
      <4>2. k # Len(states) + 1
          BY <4>1, <3>1, <2>1, <1>3, <1>9
      <4>3. k \in DOMAIN states /\ longer[k] = states[k]
          BY <4>2, <2>1, <1>10
      <4>. QED
          BY <4>3, <3>1, <1>18 DEF CutAtStates
    <3>. QED
        BY <3>1, Zenon DEF CutAtStates
  <2>13. LogFits(all, longer, new, front + 1, c)
    <3>. HIDE DEF all
    <3>. QED
        BY <2>1, <2>2, <2>4, <2>5, <2>7, <2>8, <2>9, <2>10, <2>11, <2>12, <1>14, <1>15
        DEF LogFits
  <2>. QED
      BY <2>13, <1>20 DEF net, new, add, s, longer
<1>. QED
    BY <1>19, <1>20

-----------------------------------------------------------------------------
(* What nabla.changes serves.                                              *)

\* Rows with the numbers a + 1 to a + n, each once, are n rows.
LEMMA AsManyRows ==
    ASSUME NEW Q, NEW a \in Nat, NEW n \in Nat,
           {q.seq : q \in Q} = a + 1 .. a + n,
           \A r, q \in Q : r.seq = q.seq => r = q
    PROVE  Cardinality(Q) = n
<1>. DEFINE S == a + 1 .. a + n
            f == [x \in S |-> CHOOSE q \in Q : q.seq = x]
<1>1. IsFiniteSet(S) /\ Cardinality(S) = n
    BY FS_Interval
<1>2. ASSUME NEW x \in S PROVE f[x] \in Q /\ f[x].seq = x
  <2>1. \E q \in Q : q.seq = x
      OBVIOUS
  <2>2. f[x] = CHOOSE q \in Q : q.seq = x
      OBVIOUS
  <2>. QED
      BY <2>1, <2>2, Zenon
<1>3. f \in [S -> Q]
    BY <1>2
<1>4. \A x, y \in S : f[x] = f[y] => x = y
    BY <1>2
<1>5. \A q \in Q : q.seq \in S /\ f[q.seq] = q
    BY <1>2
<1>. HIDE DEF f, S
<1>6. f \in Bijection(S, Q)
    BY <1>3, <1>4, <1>5 DEF Bijection, Injection, Surjection, IsInjective
<1>7. ExistsBijection(S, Q)
    BY <1>6 DEF ExistsBijection
<1>. QED
    BY <1>1, <1>7, FS_Bijection

\* The first limit rows after the cursor.
LEMMA LimitedIs ==
    ASSUME NEW first \in Nat, lastSeq \in Nat, InCommitOrder(log, first, lastSeq),
           NEW after \in first..lastSeq, NEW limit \in Nat
    PROVE  LET n == IF lastSeq - after <= limit THEN lastSeq - after ELSE limit
           IN  /\ Limited(after, limit) = {r \in log : r.seq > after /\ r.seq <= after + limit}
               /\ {r.seq : r \in Limited(after, limit)} = after + 1 .. after + n
               /\ Cardinality(Limited(after, limit)) = n
<1>. DEFINE n == IF lastSeq - after <= limit THEN lastSeq - after ELSE limit
<1>1. /\ log \subseteq LoggedRow
      /\ {r.seq : r \in log} = first + 1 .. lastSeq
      /\ \A r, q \in log : r.seq = q.seq => r = q
    BY DEF InCommitOrder
<1>2. \A r \in log : r.seq \in first + 1 .. lastSeq
    BY <1>1
<1>3. \A x \in first + 1 .. lastSeq : \E r \in log : r.seq = x
    BY <1>1
<1>4. after \in Nat /\ first <= after /\ after <= lastSeq
    OBVIOUS
<1>5. ASSUME NEW r \in log, r.seq > after
      PROVE  Cardinality({q \in Newer(after) : q.seq <= r.seq}) = r.seq - after
  <2>. DEFINE Q == {q \in Newer(after) : q.seq <= r.seq}
  <2>1. Q = {q \in log : q.seq > after /\ q.seq <= r.seq}
      BY DEF Newer
  <2>. HIDE DEF Q
  <2>2. r.seq \in Nat /\ r.seq <= lastSeq /\ r.seq - after \in Nat
      BY <1>2, <1>4, <1>5
  <2>3. ASSUME NEW x \in after + 1 .. r.seq PROVE \E q \in Q : q.seq = x
    <3>1. x \in first + 1 .. lastSeq /\ x > after /\ x <= r.seq
        BY <2>2, <1>4
    <3>. QED
        BY <3>1, <1>3, <2>1
  <2>4. \A q \in Q : q.seq \in after + 1 .. r.seq
      BY <2>1, <2>2, <1>2, <1>4
  <2>5. {q.seq : q \in Q} = after + 1 .. after + (r.seq - after)
    <3>1. after + (r.seq - after) = r.seq
        BY <2>2, <1>4
    <3>2. {q.seq : q \in Q} = after + 1 .. r.seq
        BY <2>3, <2>4
    <3>. QED
        BY <3>1, <3>2
  <2>6. \A q, p \in Q : q.seq = p.seq => q = p
      BY <2>1, <1>1
  <2>7. Cardinality(Q) = r.seq - after
      BY <2>2, <2>5, <2>6, <1>4, AsManyRows
  <2>. QED
      BY <2>7 DEF Q
<1>. DEFINE page == Limited(after, limit)
<1>6. page = {r \in log : r.seq > after /\ r.seq <= after + limit}
  <2>1. page = {r \in Newer(after) : Cardinality({q \in Newer(after) : q.seq <= r.seq}) <= limit}
      BY DEF Limited
  <2>2. ASSUME NEW r
        PROVE  (r \in Newer(after) /\ Cardinality({q \in Newer(after) : q.seq <= r.seq}) <= limit)
                 <=> (r \in log /\ r.seq > after /\ r.seq <= after + limit)
    <3>1. r \in Newer(after) <=> r \in log /\ r.seq > after
        BY DEF Newer
    <3>2. CASE r \in log /\ r.seq > after
      <4>1. Cardinality({q \in Newer(after) : q.seq <= r.seq}) = r.seq - after
          BY <3>2, <1>5
      <4>2. r.seq - after <= limit <=> r.seq <= after + limit
          BY <3>2, <1>2, <1>4
      <4>. QED
          BY <3>1, <3>2, <4>1, <4>2
    <3>. QED
        BY <3>1, <3>2
  <2>. QED
      BY <2>1, <2>2
<1>. HIDE DEF page
<1>7. n \in Nat /\ after + n <= lastSeq /\ n <= limit
    BY <1>4
<1>8. {r.seq : r \in page} = after + 1 .. after + n
  <2>1. ASSUME NEW r \in page PROVE r.seq \in after + 1 .. after + n
      BY <1>2, <1>4, <1>6
  <2>2. ASSUME NEW x \in after + 1 .. after + n PROVE \E r \in page : r.seq = x
    <3>1. x \in first + 1 .. lastSeq /\ x > after /\ x <= after + limit
        BY <1>4, <1>7
    <3>. QED
        BY <3>1, <1>3, <1>6
  <2>. QED
      BY <2>1, <2>2
<1>9. \A r, q \in page : r.seq = q.seq => r = q
    BY <1>1, <1>6
<1>. HIDE DEF n
<1>10. Cardinality(page) = n
    BY <1>4, <1>7, <1>8, <1>9, AsManyRows
<1>. QED
    BY <1>6, <1>8, <1>10 DEF page, n

\* The n rows that follow the cursor, all there are or up to the end of a transaction.
WholeAfter(rows, after, n) ==
    /\ rows \subseteq log /\ NumberedFrom(rows, after, n)
    /\ after + n <= lastSeq /\ (n = 0 => after = lastSeq)
    /\ \A r, q \in log : r.seq = after + n /\ q.seq = r.seq + 1 /\ n # 0 => q.lsn # r.lsn

\* A page follows the cursor without a gap and stops between two transactions.
LEMMA ServedIs ==
    ASSUME NEW first \in Nat, lastSeq \in Nat, InCommitOrder(log, first, lastSeq),
           NEW after \in first..lastSeq, NEW maxRows \in Int
    PROVE  \E n \in Nat : WholeAfter(Served(after, maxRows), after, n)
<1>1. /\ log \subseteq LoggedRow
      /\ {r.seq : r \in log} = first + 1 .. lastSeq
      /\ \A r, q \in log : r.seq = q.seq => r = q
      /\ \A r, q \in log : r.seq <= q.seq => r.lsn <= q.lsn
    BY DEF InCommitOrder
<1>2. \A r \in log : r.seq \in first + 1 .. lastSeq /\ r.lsn \in Nat
    BY <1>1 DEF LoggedRow
<1>3. \A x \in first + 1 .. lastSeq : \E r \in log : r.seq = x
    BY <1>1
<1>4. after \in Nat /\ first <= after /\ after <= lastSeq
    OBVIOUS
<1>. DEFINE limit == Max({maxRows, 1})
<1>5. limit \in Nat /\ limit >= 1
  <2>1. \E x \in {maxRows, 1} : \A y \in {maxRows, 1} : x >= y
    <3>1. CASE maxRows >= 1
        BY <3>1
    <3>2. CASE ~ (maxRows >= 1)
        BY <3>2
    <3>. QED
        BY <3>1, <3>2
  <2>2. limit \in {maxRows, 1} /\ \A y \in {maxRows, 1} : limit >= y
      BY <2>1, Zenon DEF Max
  <2>. QED
      BY <2>2
<1>. HIDE DEF limit
<1>. DEFINE page == Limited(after, limit)
            n == IF lastSeq - after <= limit THEN lastSeq - after ELSE limit
            last == CHOOSE r \in page : \A q \in page : q.seq <= r.seq
            rest == {r \in log : r.seq > last.seq /\ r.lsn = last.lsn}
<1>6. Served(after, maxRows) = IF Cardinality(page) < limit THEN page ELSE page \cup rest
    BY DEF Served, limit
<1>7. /\ page = {r \in log : r.seq > after /\ r.seq <= after + limit}
      /\ {r.seq : r \in page} = after + 1 .. after + n
      /\ Cardinality(page) = n
    BY <1>5, LimitedIs
<1>8. CASE Cardinality(page) < limit
  <2>1. n = lastSeq - after
      BY <1>7, <1>8, <1>4, <1>5
  <2>. HIDE DEF page, n
  <2>2. n \in Nat /\ after + n = lastSeq
      BY <2>1, <1>4
  <2>3. Served(after, maxRows) = page /\ page \subseteq log
      BY <1>6, <1>7, <1>8
  <2>4. \A r, q \in log : ~ (r.seq = after + n /\ q.seq = r.seq + 1)
      BY <2>2, <1>2
  <2>. QED
    <3>1. Served(after, maxRows) \subseteq log /\ NumberedFrom(Served(after, maxRows), after, n)
        BY <1>7, <2>3 DEF NumberedFrom
    <3>. QED
        BY <3>1, <2>2, <2>4, <1>4 DEF WholeAfter
<1>9. CASE ~ (Cardinality(page) < limit)
  <2>1. n = limit /\ after + limit <= lastSeq
      BY <1>7, <1>9, <1>4, <1>5
  <2>. HIDE DEF n
  <2>2. PICK top \in log : top.seq = after + limit
    <3>1. after + limit \in first + 1 .. lastSeq
        BY <2>1, <1>4, <1>5
    <3>. QED
        BY <3>1, <1>3
  <2>3. top \in page /\ \A q \in page : q.seq <= top.seq
      BY <2>2, <1>4, <1>5, <1>7
  <2>. HIDE DEF page
  <2>4. last \in page /\ \A q \in page : q.seq <= last.seq
      BY <2>3, Zenon DEF last
  <2>5. last = top
    <3>1. last \in log /\ last.seq <= top.seq /\ top.seq <= last.seq
        BY <2>3, <2>4, <1>7
    <3>2. last.seq = top.seq
        BY <3>1, <1>2, <2>2
    <3>. QED
        BY <3>1, <3>2, <1>1
  <2>. HIDE DEF last
  <2>6. rest = {r \in log : r.seq > after + limit /\ r.lsn = top.lsn}
      BY <2>2, <2>5
  <2>. DEFINE all == page \cup rest
              S == {r.seq : r \in all}
  <2>7. Served(after, maxRows) = all
      BY <1>6, <1>9
  <2>. HIDE DEF rest
  <2>8. all \subseteq log /\ top \in all
      BY <1>7, <2>3, <2>6
  <2>. HIDE DEF all
  <2>9. S \in SUBSET Nat /\ S # {} /\ \A x \in S : x <= lastSeq
      BY <2>8, <1>2, <1>4
  <2>10. PICK m \in S : \A x \in S : x <= m
      BY <2>9, GreatestIs
  <2>11. PICK end \in all : end.seq = m
      OBVIOUS
  <2>12. m \in Nat /\ m <= lastSeq /\ after + limit <= m
    <3>1. top.seq \in S
        BY <2>8
    <3>. QED
        BY <3>1, <2>2, <2>9, <2>10
  <2>13. \A r \in all : r.seq \in after + 1 .. m
    <3>1. ASSUME NEW r \in all PROVE r.seq > after
      <4>1. CASE r \in page
          BY <4>1, <1>7
      <4>2. CASE r \in rest
        <5>1. r \in log /\ r.seq > after + limit
            BY <4>2, <2>6
        <5>. QED
            BY <5>1, <1>2, <1>4, <1>5
      <4>. QED
          BY <4>1, <4>2 DEF all
    <3>2. ASSUME NEW r \in all PROVE r.seq <= m /\ r.seq \in Nat
      <4>1. r.seq \in S
          OBVIOUS
      <4>. QED
          BY <4>1, <2>9, <2>10
    <3>. QED
        BY <3>1, <3>2, <2>12, <1>4
  <2>14. end \in log /\ end.lsn = top.lsn
    <3>1. CASE end \in rest
        BY <3>1, <2>6
    <3>2. CASE end \in page
      <4>1. end \in log /\ end.seq <= after + limit
          BY <3>2, <1>7
      <4>2. end.seq = top.seq
          BY <4>1, <2>2, <2>11, <2>12, <1>4, <1>5
      <4>. QED
          BY <4>1, <4>2, <1>1
    <3>. QED
        BY <3>1, <3>2, <2>11 DEF all
  <2>15. ASSUME NEW x \in after + 1 .. m PROVE \E r \in all : r.seq = x
    <3>1. x \in first + 1 .. lastSeq
        BY <2>12, <1>4
    <3>2. PICK r \in log : r.seq = x
        BY <3>1, <1>3
    <3>3. CASE x <= after + limit
      <4>1. r \in page
          BY <3>2, <3>3, <1>7, <1>4
      <4>. QED
          BY <4>1, <3>2 DEF all
    <3>4. CASE ~ (x <= after + limit)
      <4>1. top.seq <= r.seq /\ r.seq <= end.seq
          BY <3>2, <3>4, <2>2, <2>11, <2>12, <1>4, <1>5
      <4>2. top.lsn <= r.lsn /\ r.lsn <= end.lsn
          BY <4>1, <2>14, <1>1
      <4>3. r.lsn = top.lsn
          BY <4>2, <2>14, <1>2
      <4>4. r \in rest
          BY <4>3, <3>2, <3>4, <2>6, <2>12, <1>4, <1>5
      <4>. QED
          BY <4>4, <3>2 DEF all
    <3>. QED
        BY <3>3, <3>4
  <2>16. ASSUME NEW r \in log, NEW q \in log, r.seq = m, q.seq = r.seq + 1 PROVE q.lsn # r.lsn
    <3>1. r = end
        BY <2>16, <2>11, <2>14, <1>1
    <3>2. ASSUME q.lsn = r.lsn PROVE FALSE
      <4>1. q \in rest
          BY <3>1, <3>2, <2>6, <2>12, <2>14, <2>16, <1>4, <1>5
      <4>2. q.seq \in S
          BY <4>1 DEF all
      <4>. QED
          BY <4>2, <2>10, <2>12, <2>16
    <3>. QED
        BY <3>2
  <2>. DEFINE k == m - after
  <2>17. k \in Nat /\ k # 0 /\ after + k = m
      BY <2>12, <1>4, <1>5
  <2>18. NumberedFrom(all, after, k)
      BY <2>13, <2>15, <2>17 DEF NumberedFrom
  <2>. HIDE DEF k
  <2>19. WholeAfter(all, after, k)
      BY <2>8, <2>12, <2>16, <2>17, <2>18 DEF WholeAfter
  <2>. QED
      BY <2>7, <2>17, <2>19
<1>. QED
    BY <1>8, <1>9

\* The number the log reaches back to.
LEMMA OldestIs ==
    ASSUME lastSeq \in Nat, NEW first \in 0..lastSeq, InCommitOrder(log, first, lastSeq)
    PROVE  Oldest = first + 1
<1>. DEFINE S == {r.seq : r \in log}
<1>1. S = first + 1 .. lastSeq
    BY DEF InCommitOrder
<1>2. Oldest = IF log = {} THEN lastSeq + 1 ELSE Min(S)
    BY DEF Oldest
<1>3. log = {} <=> S = {}
    OBVIOUS
<1>. HIDE DEF S
<1>4. CASE log = {}
  <2>1. first + 1 \notin first + 1 .. lastSeq
      BY <1>1, <1>3, <1>4
  <2>2. first = lastSeq
      BY <2>1
  <2>. QED
      BY <2>2, <1>2, <1>4
<1>5. CASE log # {}
  <2>1. S \in SUBSET (1..lastSeq) /\ S # {}
    <3>1. S # {}
        BY <1>3, <1>5
    <3>2. \A k \in first + 1 .. lastSeq : k \in 1..lastSeq
        OBVIOUS
    <3>. QED
        BY <3>1, <3>2, <1>1
  <2>2. Min(S) \in S /\ \A k \in S : Min(S) <= k
      BY <2>1, MinMaxAre
  <2>3. first + 1 <= Min(S) /\ Min(S) <= lastSeq /\ Min(S) \in Int
      BY <2>2, <1>1
  <2>4. first + 1 \in S
      BY <2>3, <1>1
  <2>5. Min(S) <= first + 1
      BY <2>2, <2>4
  <2>. QED
      BY <2>3, <2>5, <1>2, <1>5
<1>. QED
    BY <1>4, <1>5

\* A log that fits is served whole.
LEMMA FitsServes ==
    ASSUME lastSeq \in Nat, LogFits(log, past[epoch], lastSeq, frontier, content),
           NEW after \in Ends, NEW maxRows \in Int
    PROVE  ServesWhole(after, maxRows)
<1>. DEFINE states == past[epoch]
            page == Page(after, maxRows)
<1>1. /\ states \in Seq(PastState) /\ states # <<>>
      /\ \A k \in DOMAIN states : states[k].seq <= lastSeq
      /\ states[Len(states)].seq = lastSeq
      /\ EndsAtStates(log, states)
    BY DEF LogFits
<1>2. PICK first \in 0..lastSeq : InCommitOrder(log, first, lastSeq)
    BY DEF LogFits
<1>3. after \in Nat /\ after <= lastSeq
  <2>1. PICK k \in DOMAIN states : after = states[k].seq
      BY DEF Ends
  <2>2. states[k] \in PastState
      BY <2>1, <1>1
  <2>. QED
      BY <2>1, <2>2, <1>1 DEF PastState
<1>4. Oldest = first + 1
    BY <1>2, OldestIs
<1>5. ASSUME Verdict(after, epoch) = "ok"
      PROVE  /\ \A k \in DOMAIN page : page[k].seq = after + k
             /\ page = <<>> => after = lastSeq
             /\ page # <<>> => Last(page).seq \in Ends
  <2>1. ~ Lagged(after)
    <3>1. Lagged(after) => Verdict(after, epoch) # "ok"
        BY DEF Verdict
    <3>. QED
        BY <3>1, <1>5
  <2>2. after \in first..lastSeq /\ first \in Nat
      BY <2>1, <1>3, <1>4 DEF Lagged
  <2>. DEFINE rows == Served(after, maxRows)
  <2>. HIDE DEF page
  <2>0. PICK n \in Nat : WholeAfter(rows, after, n)
      BY <2>2, <1>2, ServedIs
  <2>. HIDE DEF rows
  <2>3. /\ rows \subseteq log /\ NumberedFrom(rows, after, n)
        /\ after + n <= lastSeq /\ (n = 0 => after = lastSeq)
        /\ \A r, q \in log : r.seq = after + n /\ q.seq = r.seq + 1 /\ n # 0 => q.lsn # r.lsn
      BY <2>0 DEF WholeAfter
  <2>4. BySeq(rows) \in [1..n -> rows] /\ \A k \in 1..n : BySeq(rows)[k].seq = after + k
      BY <2>3, <1>3, BySeqIs
  <2>5. page = BySeq(rows)
      BY DEF page, Page, rows
  <2>6. DOMAIN page = 1..n /\ Len(page) = n
      BY <2>4, <2>5
  <2>7. page # <<>> => n # 0
    <3>1. n = 0 => page = <<>>
        BY <2>4, <2>5
    <3>. QED
        BY <3>1
  <2>8. page = <<>> => n = 0
    <3>1. page = <<>> => Len(page) = 0
        OBVIOUS
    <3>. QED
        BY <3>1, <2>6
  <2>9. ASSUME page # <<>> PROVE Last(page).seq \in Ends
    <3>1. n \in 1..n
        BY <2>7, <2>9
    <3>2. Last(page) = page[n]
        BY <2>6 DEF Last
    <3>3. page[n] \in log /\ page[n].seq = after + n
        BY <3>1, <2>3, <2>4, <2>5
    <3>4. \A q \in log : q.seq = page[n].seq + 1 => q.lsn # page[n].lsn
        BY <3>3, <2>3, <2>7, <2>9
    <3>5. PICK k \in DOMAIN states : states[k].seq = page[n].seq
        BY <3>3, <3>4, <1>1 DEF EndsAtStates
    <3>. QED
        BY <3>2, <3>5 DEF Ends
  <2>. QED
      BY <2>3, <2>4, <2>5, <2>6, <2>8, <2>9
<1>. QED
    BY <1>5, Zenon DEF ServesWhole

\* A log that fits explains every step between two states it reaches back to.
LEMMA FitsExplains ==
    ASSUME lastSeq \in Nat, LogFits(log, past[epoch], lastSeq, frontier, content),
           NEW k \in 2..Len(past[epoch]), past[epoch][k - 1].seq + 1 >= Oldest
    PROVE  Explains(log, past[epoch][k - 1], past[epoch][k])
<1>. DEFINE states == past[epoch]
<1>1. PICK first \in 0..lastSeq :
          /\ InCommitOrder(log, first, lastSeq)
          /\ \A j \in 2..Len(states) :
              states[j - 1].seq >= first => Explains(log, states[j - 1], states[j])
    BY DEF LogFits
<1>2. Oldest = first + 1
    BY <1>1, OldestIs
<1>3. states[k - 1].seq \in Nat
  <2>1. states \in Seq(PastState)
      BY DEF LogFits
  <2>2. states[k - 1] \in PastState
      BY <2>1
  <2>. QED
      BY <2>2 DEF PastState
<1>4. states[k - 1].seq >= first
    BY <1>2, <1>3
<1>. QED
    BY <1>1, <1>4

-----------------------------------------------------------------------------
(* The log fits the view's row at every step.                              *)

\* An epoch that is, is one of the epochs.
LEMMA EpochIs ==
    ASSUME LogTypeOK
    PROVE  /\ epoch \in Epochs /\ epoch \in Nat /\ refreshes \in Nat
           /\ past[epoch] \in Seq(PastState)
           /\ status = "refreshing" /\ epoch <= refreshes => epoch + 1 \in Epochs
BY DeltaLogAssumption DEF LogTypeOK, Epochs, DeltaLogAssumption

\* One more element.
LEMMA AppendInConcat ==
    ASSUME NEW s \in Seq(PastState), NEW t \in Seq(PastState), NEW e \in PastState
    PROVE  s \o Append(t, e) = Append(s \o t, e)
<1>. DEFINE a == s \o Append(t, e)
            b == Append(s \o t, e)
<1>1. a \in Seq(PastState) /\ Len(a) = Len(s) + Len(t) + 1
    OBVIOUS
<1>2. b \in Seq(PastState) /\ Len(b) = Len(s) + Len(t) + 1
    OBVIOUS
<1>3. \A k \in 1..(Len(s) + Len(t) + 1) : a[k] = b[k]
    OBVIOUS
<1>. HIDE DEF a, b
<1>4. a = b
    BY <1>1, <1>2, <1>3
<1>. QED
    BY <1>4 DEF a, b

\* No round is a round.
LEMMA NoRoundIs == NoRound \in Round
<1>1. [i \in Ids |-> NoRow] \in Contents
    BY DEF Contents, Cell
<1>2. <<>> \in Seq(PastState)
    OBVIOUS
<1>. QED
    BY <1>1, <1>2 DEF NoRound, Round

\* The view is created.
LEMMA LogInvInit == LogInit => LogInv
<1>. SUFFICES ASSUME LogInit PROVE LogInv
    OBVIOUS
<1>1. [i \in Ids |-> NoRow] \in Contents
    BY DEF Contents, Cell
<1>2. past \in [Epochs -> Seq(PastState)] /\ \A e \in Epochs : past[e] = <<>>
    BY DEF LogInit
<1>3. LogTypeOK
  <2>1. refreshes \in 0..MaxRefreshes /\ epoch \in 1 .. refreshes + 1
      BY DeltaLogAssumption DEF LogInit, DeltaLogAssumption
  <2>2. /\ status \in LogStatuses /\ populated \in BOOLEAN
        /\ frontier \in Nat /\ lastSeq \in Nat /\ content \in Contents
        /\ log \subseteq LoggedRow
      BY <1>1 DEF LogInit, LogStatuses
  <2>3. round \in Round
      BY NoRoundIs DEF LogInit
  <2>. QED
      BY <1>2, <2>1, <2>2, <2>3 DEF LogTypeOK
<1>4. ~ round.on /\ round = NoRound
    BY DEF LogInit, NoRound
<1>5. \A e \in Epochs : InOrder(past[e]) /\ \A k \in DOMAIN past[e] : past[e][k].seq <= lastSeq
    BY <1>2 DEF InOrder
<1>. QED
    BY <1>2, <1>3, <1>4, <1>5 DEF LogInit, LogInv

\* load_live_views: the round starts from what is committed.
LEMMA BeginRoundFits ==
    ASSUME LogInv, BeginRound
    PROVE  LogInv'
<1>1. /\ round.on = FALSE /\ status = "live" /\ populated
      /\ UNCHANGED <<viewVars, log, refreshes, past>>
    BY DEF BeginRound, LogInv, LogTypeOK, Round
<1>2. LogFits(log, past[epoch], lastSeq, frontier, content)
    BY <1>1 DEF LogInv
<1>3. /\ frontier \in Nat /\ lastSeq \in Nat /\ content \in Contents
      /\ past[epoch] \in Seq(PastState)
    BY EpochIs DEF LogInv, LogTypeOK
<1>4. /\ round' \in Round /\ round'.on = TRUE
      /\ round'.frontier = frontier /\ round'.seq = lastSeq /\ round'.content = content
      /\ round'.pending = {} /\ round'.states = <<>>
    BY <1>3, NoRoundIs DEF BeginRound, NoRound, Round
<1>5. log \cup round'.pending = log /\ past[epoch] \o round'.states = past[epoch]
    BY <1>3, <1>4
<1>6. LogFits(log \cup round'.pending, past[epoch] \o round'.states,
              round'.seq, round'.frontier, round'.content)
    BY <1>2, <1>4, <1>5
<1>7. frontier <= round'.frontier /\ \A r \in round'.pending : r.lsn > frontier
    BY <1>3, <1>4
<1>8. LogTypeOK'
    BY <1>1, <1>4 DEF LogInv, LogTypeOK, viewVars
<1>. QED
    BY <1>1, <1>2, <1>4, <1>6, <1>7, <1>8 DEF LogInv, viewVars

\* A round rolls back, or the build of a view gives up, or refresh() is called.
LEMMA AbortRoundFits ==
    ASSUME LogInv, AbortRound
    PROVE  LogInv'
<1>1. UNCHANGED <<viewVars, log, refreshes, past>> /\ round' = NoRound
    BY DEF AbortRound
<1>2. round' \in Round /\ round'.on = FALSE
    BY <1>1, NoRoundIs DEF NoRound
<1>3. LogTypeOK'
    BY <1>1, <1>2 DEF LogInv, LogTypeOK, viewVars
<1>. QED
    BY <1>1, <1>2, <1>3 DEF LogInv, viewVars

LEMMA BuildGivesUpFits ==
    ASSUME LogInv, BuildGivesUp
    PROVE  LogInv'
<1>1. status' = "failed"
      /\ UNCHANGED <<populated, epoch, frontier, lastSeq, content, log, round, refreshes, past>>
    BY DEF BuildGivesUp
<1>2. LogTypeOK'
    BY <1>1 DEF LogInv, LogTypeOK, LogStatuses
<1>. QED
    BY <1>1, <1>2 DEF LogInv

LEMMA RequestRefreshFits ==
    ASSUME LogInv, RequestRefresh
    PROVE  LogInv'
<1>1. /\ status' = "refreshing" /\ refreshes < MaxRefreshes /\ refreshes' = refreshes + 1
      /\ UNCHANGED <<populated, epoch, frontier, lastSeq, content, log, round, past>>
    BY DEF RequestRefresh
<1>2. refreshes \in 0..MaxRefreshes /\ epoch \in 1 .. refreshes + 1
    BY DEF LogInv, LogTypeOK
<1>3. refreshes' \in 0..MaxRefreshes /\ epoch' \in 1 .. refreshes' + 1 /\ epoch' <= refreshes'
    BY <1>1, <1>2, DeltaLogAssumption DEF DeltaLogAssumption
<1>4. LogTypeOK'
    BY <1>1, <1>3 DEF LogInv, LogTypeOK, LogStatuses
<1>. QED
    BY <1>1, <1>3, <1>4 DEF LogInv

\* One source transaction is absorbed.
LEMMA RoundTxFits ==
    ASSUME LogInv, RoundTx
    PROVE  LogInv'
<1>1. round.on /\ UNCHANGED <<viewVars, log, refreshes, past>>
    BY DEF RoundTx
<1>2. PICK ws \in Writes : Absorb(Execute(round.content, ws).raw, Execute(round.content, ws).content)
    BY DEF RoundTx
<1>. DEFINE done == Execute(round.content, ws)
            raw == done.raw
            c == done.content
            net == Net(raw)
            lsn == round.frontier + 1
            seq == round.seq + Len(net)
            s == [seq |-> seq, content |-> c]
            add == Numbered(net, round.seq, lsn)
<1>3. /\ round \in Round /\ round.content \in Contents /\ round.frontier \in Nat
      /\ round.seq \in Nat /\ round.pending \subseteq LoggedRow
      /\ round.states \in Seq(PastState) /\ past[epoch] \in Seq(PastState)
    BY EpochIs DEF LogInv, LogTypeOK, Round
<1>4. Tracks(round.content, c, raw)
    BY <1>3, TransactionTracks
<1>5. c \in Contents /\ raw \in Seq(Delta)
    BY <1>4 DEF Tracks
<1>6. round' = [round EXCEPT !.frontier = lsn, !.seq = seq, !.content = c,
                             !.pending = @ \cup add,
                             !.states = IF net = <<>> THEN @ ELSE Append(@, s)]
    BY <1>2 DEF Absorb
<1>. HIDE DEF done
<1>7. net \in Seq(Delta) /\ Len(net) \in Nat
    BY <1>5, NetIs
<1>. HIDE DEF net
<1>8. lsn \in Nat /\ seq \in Nat /\ add \subseteq LoggedRow
    BY <1>3, <1>7, NumberedIs
<1>9. s \in PastState
    BY <1>5, <1>8 DEF PastState
<1>. HIDE DEF add, s, seq, lsn
<1>. DEFINE states == IF net = <<>> THEN round.states ELSE Append(round.states, s)
<1>10. states \in Seq(PastState)
    BY <1>3, <1>9
<1>11. /\ round' \in Round /\ round'.on
       /\ round'.frontier = lsn /\ round'.seq = seq /\ round'.content = c
       /\ round'.pending = round.pending \cup add /\ round'.states = states
    BY <1>1, <1>3, <1>5, <1>6, <1>8, <1>10 DEF Round
<1>12. LogFits(log \cup round.pending, past[epoch] \o round.states,
               round.seq, round.frontier, round.content)
    BY <1>1 DEF LogInv
<1>. DEFINE before == past[epoch] \o round.states
<1>13. LogFits((log \cup round.pending) \cup add,
               IF net = <<>> THEN before ELSE Append(before, s), seq, lsn, c)
    BY <1>3, <1>4, <1>12, FitsAbsorbed DEF add, net, s, seq, lsn
<1>14. past[epoch] \o states = IF net = <<>> THEN before ELSE Append(before, s)
  <2>1. past[epoch] \o Append(round.states, s) = Append(past[epoch] \o round.states, s)
    <3>1. past[epoch] \in Seq(PastState) /\ round.states \in Seq(PastState) /\ s \in PastState
        BY <1>3, <1>9
    <3>. QED
        BY <3>1, AppendInConcat
  <2>. QED
      BY <2>1
<1>15. (log \cup round.pending) \cup add = log \cup round'.pending
    BY <1>11
<1>. HIDE DEF states, before
<1>16. LogFits(log \cup round'.pending, past[epoch] \o round'.states,
               round'.seq, round'.frontier, round'.content)
    BY <1>11, <1>13, <1>14, <1>15
<1>17. LogTypeOK'
    BY <1>1, <1>11 DEF LogInv, LogTypeOK, viewVars
<1>18. frontier <= round'.frontier /\ \A r \in round'.pending : r.lsn > frontier
  <2>1. frontier \in Nat /\ frontier <= round.frontier /\ \A r \in round.pending : r.lsn > frontier
      BY <1>1 DEF LogInv, LogTypeOK
  <2>2. lsn > frontier
      BY <2>1, <1>3 DEF lsn
  <2>3. \A r \in add : r.lsn = lsn
      BY <1>3, <1>7, <1>8, NumberedIs DEF add
  <2>. QED
      BY <2>1, <2>2, <2>3, <1>3, <1>8, <1>11
<1>. QED
    BY <1>1, <1>11, <1>16, <1>17, <1>18 DEF LogInv, viewVars

\* The round commits.
LEMMA EndRoundFits ==
    ASSUME LogInv, EndRound
    PROVE  LogInv'
<1>1. /\ round.on /\ status' \in {status, "stale"}
      /\ frontier' = round.frontier /\ lastSeq' = round.seq /\ content' = round.content
      /\ log' = LogAfter
      /\ past' = [past EXCEPT ![epoch] = @ \o round.states]
      /\ round' = NoRound
      /\ UNCHANGED <<populated, epoch, refreshes>>
    BY DEF EndRound
<1>2. populated
    BY <1>1 DEF LogInv
<1>3. /\ round \in Round /\ round.content \in Contents /\ round.frontier \in Nat
      /\ round.seq \in Nat /\ round.pending \subseteq LoggedRow /\ round.states \in Seq(PastState)
      /\ epoch \in Epochs /\ past[epoch] \in Seq(PastState) /\ log \subseteq LoggedRow
      /\ past \in [Epochs -> Seq(PastState)]
    BY EpochIs DEF LogInv, LogTypeOK, Round
<1>. DEFINE states == past[epoch] \o round.states
            rows == log \cup round.pending
<1>4. LogFits(rows, states, round.seq, round.frontier, round.content)
    BY <1>1 DEF LogInv
<1>5. states \in Seq(PastState)
    BY <1>3
<1>6. past' = [past EXCEPT ![epoch] = states]
    BY <1>1, <1>3
<1>. HIDE DEF states
<1>7. /\ past' \in [Epochs -> Seq(PastState)] /\ past'[epoch] = states
      /\ \A e \in Epochs : e # epoch => past'[e] = past[e]
    BY <1>3, <1>5, <1>6
<1>8. rows \subseteq LoggedRow
    BY <1>3
<1>. HIDE DEF rows
<1>9. LogAfter \subseteq rows
    BY DEF LogAfter, Retained, rows
<1>10. LogFits(LogAfter, states, round.seq, round.frontier, round.content)
  <2>1. CASE round.pending = {}
    <3>1. LogAfter = rows
        BY <2>1 DEF LogAfter, rows
    <3>. QED
        BY <3>1, <1>4
  <2>2. CASE round.pending # {}
    <3>1. LogAfter = Retained(rows, round.seq)
        BY <2>2 DEF LogAfter, rows
    <3>. QED
        BY <3>1, <1>3, <1>4, FitsRetained
  <2>. QED
      BY <2>1, <2>2
<1>11. LogFits(log', past'[epoch'], lastSeq', frontier', content')
    BY <1>1, <1>7, <1>10
<1>12. round' \in Round /\ round'.on = FALSE
    BY <1>1, NoRoundIs DEF NoRound
<1>13. LogTypeOK'
  <2>1. status' \in LogStatuses
      BY <1>1 DEF LogInv, LogTypeOK, LogStatuses
  <2>2. log' \subseteq LoggedRow
      BY <1>1, <1>8, <1>9
  <2>. QED
      BY <2>1, <2>2, <1>1, <1>3, <1>7, <1>12 DEF LogInv, LogTypeOK
<1>14. \A e \in Epochs : e > epoch' => past'[e] = <<>>
  <2>1. \A e \in Epochs : e > epoch => e # epoch /\ past[e] = <<>>
      BY EpochIs DEF LogInv
  <2>. QED
      BY <2>1, <1>1, <1>7
<1>15. /\ status' = "initializing" => ~ populated'
       /\ status' = "refreshing" => epoch' <= refreshes'
    BY <1>1 DEF LogInv
<1>16. lastSeq \in Nat /\ lastSeq <= round.seq
  <2>. DEFINE first == past[epoch]
              n == Len(first)
  <2>1. first # <<>> /\ first[n].seq = lastSeq
      BY <1>2 DEF LogInv, LogFits
  <2>2. n \in DOMAIN first /\ n \in Nat
      BY <2>1, <1>3
  <2>3. states[n] = first[n] /\ n \in DOMAIN states
      BY <2>2, <1>3 DEF states
  <2>4. states[n].seq <= round.seq
      BY <2>3, <1>4 DEF LogFits
  <2>. QED
      BY <2>1, <2>3, <2>4 DEF LogInv, LogTypeOK
<1>17. ASSUME NEW e \in Epochs
       PROVE  InOrder(past'[e]) /\ \A k \in DOMAIN past'[e] : past'[e][k].seq <= lastSeq'
  <2>1. CASE e = epoch
      BY <2>1, <1>1, <1>4, <1>7 DEF LogFits
  <2>2. CASE e # epoch
    <3>1. past'[e] = past[e] /\ past[e] \in Seq(PastState)
        BY <2>2, <1>3, <1>7
    <3>2. InOrder(past[e]) /\ \A k \in DOMAIN past[e] : past[e][k].seq <= lastSeq
        BY DEF LogInv
    <3>3. \A k \in DOMAIN past[e] : past[e][k].seq \in Nat
      <4>1. \A k \in DOMAIN past[e] : past[e][k] \in PastState
          BY <3>1
      <4>. QED
          BY <4>1 DEF PastState
    <3>. QED
        BY <3>1, <3>2, <3>3, <1>1, <1>3, <1>16
  <2>. QED
      BY <2>1, <2>2
<1>. QED
    BY <1>1, <1>2, <1>11, <1>12, <1>13, <1>14, <1>15, <1>17 DEF LogInv

\* The build: numbers go on, the log starts empty, in an epoch nobody has seen
\* a row of.
LEMMA BuildViewFits ==
    ASSUME LogInv, BuildView
    PROVE  LogInv'
<1>1. PICK c \in Contents :
          /\ content' = c
          /\ past' = [past EXCEPT ![EpochAfterBuild] = Append(@, [seq |-> lastSeq, content |-> c])]
    BY DEF BuildView
<1>2. /\ status \in {"initializing", "refreshing"} /\ ~ round.on
      /\ epoch' = EpochAfterBuild /\ status' = "live" /\ populated' = TRUE /\ log' = {}
      /\ UNCHANGED <<frontier, lastSeq, round, refreshes>>
    BY DEF BuildView
<1>. DEFINE now == EpochAfterBuild
            s == [seq |-> lastSeq, content |-> c]
<1>3. /\ past \in [Epochs -> Seq(PastState)] /\ lastSeq \in Nat /\ frontier \in Nat
      /\ epoch \in Epochs /\ epoch \in Nat /\ refreshes \in Nat
      /\ epoch \in 1 .. refreshes + 1
    BY EpochIs DEF LogInv, LogTypeOK
<1>4. /\ now \in Epochs /\ past[now] = <<>> /\ now \in 1 .. refreshes + 1
      /\ now \in Nat /\ epoch <= now
  <2>1. CASE status = "refreshing" /\ populated
    <3>1. now = epoch + 1 /\ epoch <= refreshes
        BY <2>1 DEF EpochAfterBuild, LogInv
    <3>2. now \in Epochs
        BY <2>1, <3>1, EpochIs DEF LogInv
    <3>3. now > epoch
        BY <3>1, <1>3
    <3>4. past[now] = <<>>
        BY <3>2, <3>3 DEF LogInv
    <3>. QED
        BY <3>1, <3>2, <3>4, <1>3
  <2>2. CASE ~ (status = "refreshing" /\ populated)
    <3>1. now = epoch
        BY <2>2 DEF EpochAfterBuild
    <3>2. ~ populated
        BY <2>2, <1>2 DEF LogInv
    <3>3. past[now] = <<>>
        BY <3>1, <3>2, <1>3 DEF LogInv
    <3>. QED
        BY <3>1, <3>3, <1>3
  <2>. QED
      BY <2>1, <2>2
<1>5. past' = [past EXCEPT ![now] = Append(@, s)]
    BY <1>1
<1>. HIDE DEF now
<1>6. s \in PastState
    BY <1>3 DEF PastState
<1>. HIDE DEF s
<1>7. Append(<<>>, s) = <<s>> /\ <<s>> \in Seq(PastState)
    BY <1>6
<1>8. /\ past' \in [Epochs -> Seq(PastState)] /\ past'[now] = <<s>>
      /\ \A e \in Epochs : e # now => past'[e] = past[e]
    BY <1>3, <1>4, <1>5, <1>7
<1>9. LogFits(log', past'[epoch'], lastSeq', frontier', content')
  <2>1. LogFits({}, <<s>>, lastSeq, frontier, c)
      BY <1>3, FitsBuilt DEF s
  <2>. QED
      BY <2>1, <1>1, <1>2, <1>8 DEF now
<1>10. ~ round'.on /\ round' = NoRound /\ round' \in Round
    BY <1>2 DEF LogInv, LogTypeOK
<1>11. LogTypeOK'
  <2>1. status' \in LogStatuses /\ log' \subseteq LoggedRow /\ content' \in Contents
      BY <1>1, <1>2 DEF LogStatuses
  <2>2. refreshes' \in 0..MaxRefreshes /\ epoch' \in 1 .. refreshes' + 1
      BY <1>2, <1>4 DEF LogInv, LogTypeOK, now
  <2>. QED
      BY <2>1, <2>2, <1>2, <1>3, <1>8, <1>10 DEF LogTypeOK
<1>12. \A e \in Epochs : e > epoch' => past'[e] = <<>>
  <2>1. \A e \in Epochs : e > now => e # now /\ e > epoch
      BY <1>3, <1>4 DEF Epochs
  <2>2. \A e \in Epochs : e > epoch => past[e] = <<>>
      BY DEF LogInv
  <2>. QED
      BY <2>1, <2>2, <1>2, <1>8 DEF now
<1>13. ASSUME NEW e \in Epochs
       PROVE  InOrder(past'[e]) /\ \A k \in DOMAIN past'[e] : past'[e][k].seq <= lastSeq'
  <2>1. CASE e = now
      BY <2>1, <1>8, <1>9, <1>2 DEF LogFits, now
  <2>2. CASE e # now
      BY <2>2, <1>2, <1>8 DEF LogInv
  <2>. QED
      BY <2>1, <2>2
<1>. QED
    BY <1>2, <1>9, <1>10, <1>11, <1>12, <1>13 DEF LogInv

\* Every step of the system.
LEMMA LogInvStep == LogInv /\ [SubNext]_subVars => LogInv'
<1>. SUFFICES ASSUME LogInv, [SubNext]_subVars PROVE LogInv'
    OBVIOUS
<1>1. CASE UNCHANGED serverVars
    BY <1>1 DEF LogInv, LogTypeOK, serverVars, viewVars
<1>2. CASE ServerNext
    BY <1>2, BeginRoundFits, RoundTxFits, EndRoundFits, AbortRoundFits, RequestRefreshFits,
       BuildViewFits, BuildGivesUpFits DEF ServerNext
<1>. QED
    BY <1>1, <1>2 DEF SubNext, subVars

-----------------------------------------------------------------------------
(* Theorems.                                                               *)

\* worker.rs apply_round, populate.rs build: at every step the log holds the
\* rows that follow some number without a gap, in commit order, whole
\* transactions except for the one retention cut into, each the net effect of
\* the step it stands for; and so it would if the round under way committed.
THEOREM LogFitsAlways == SubSpec => []LogInv
<1>1. SubInit => LogInv
    BY LogInvInit DEF SubInit
<1>. QED
    BY <1>1, LogInvStep, PTL DEF SubSpec

\* api.rs changes, "whole source transactions only": wherever a transaction of
\* this epoch ended, a subscriber there is told that it lagged or gets a page
\* that follows its cursor without a gap and stops where a transaction ended.
THEOREM LogServesWholeTransactions == SubSpec => []ServesWholeTransactions
<1>1. LogInv => ServesWholeTransactions
  <2>. SUFFICES ASSUME LogInv, populated, NEW after \in Ends, NEW maxRows \in 0..3
                PROVE  ServesWhole(after, maxRows)
      BY DEF ServesWholeTransactions
  <2>1. lastSeq \in Nat /\ LogFits(log, past[epoch], lastSeq, frontier, content)
      BY DEF LogInv, LogTypeOK
  <2>2. maxRows \in Int
      OBVIOUS
  <2>. QED
      BY <2>1, <2>2, FitsServes
<1>. QED
    BY <1>1, LogFitsAlways, PTL

\* README "What a delta is", apply.rs net: the retained rows of a transaction
\* are, per identity, the visible difference between the states around it.
THEOREM LogHoldsNetEffects == SubSpec => []DeltasAreNetEffect
<1>1. LogInv => DeltasAreNetEffect
  <2>. SUFFICES ASSUME LogInv, populated, NEW k \in 2..Len(past[epoch]),
                       past[epoch][k - 1].seq + 1 >= Oldest
                PROVE  Explains(log, past[epoch][k - 1], past[epoch][k])
      BY DEF DeltasAreNetEffect
  <2>1. lastSeq \in Nat /\ LogFits(log, past[epoch], lastSeq, frontier, content)
      BY DEF LogInv, LogTypeOK
  <2>. QED
      BY <2>1, FitsExplains
<1>. QED
    BY <1>1, LogFitsAlways, PTL
=============================================================================
