------------------------- MODULE SubscriptionProofs --------------------------
(***************************************************************************)
(* Machine-checked theorems of following a view: the Rust client, with the *)
(* server it reads from, implements FollowedView.                          *)
(***************************************************************************)
EXTENDS LogProofs

-----------------------------------------------------------------------------
(* Deltas and the copy they are applied to.                                *)

\* g is what applying the deltas ds one after the other goes through.
AppliedVia(g, b, ds, m) ==
    /\ g[0] = b
    /\ \A k \in 1..m : g[k] = ApplyDelta(g[k - 1], ds[k])
    /\ Applied(b, ds) = g[m]

LEMMA DeltasFold ==
    ASSUME NEW b, NEW m \in Nat, NEW ds, DOMAIN ds = 1..m
    PROVE  \E g : AppliedVia(g, b, ds, m)
<1>. DEFINE Rule(f, s) == IF s = {} THEN b ELSE ApplyDelta(f[s \ {Max(s)}], ds[Max(s)])
            Follows(f, n) == f = [s \in SUBSET (1..n) |-> Rule(f, s)]
            T == {n \in Nat : \E f : Follows(f, n)}
<1>1. 0 \in T
  <2>. DEFINE f == [s \in SUBSET (1..0) |-> b]
  <2>1. \A s \in SUBSET (1..0) : s = {}
      OBVIOUS
  <2>2. Follows(f, 0)
      BY <2>1
  <2>. QED
      BY <2>2
<1>2. ASSUME NEW n \in T PROVE n + 1 \in T
  <2>1. n \in Nat
      OBVIOUS
  <2>2. PICK f : Follows(f, n)
      OBVIOUS
  <2>. DEFINE g == [s \in SUBSET (1..(n + 1)) |-> Rule(f, s)]
  <2>3. ASSUME NEW s \in SUBSET (1..(n + 1)) PROVE g[s] = Rule(g, s)
    <3>1. CASE s = {}
        BY <3>1
    <3>2. CASE s # {}
      <4>. DEFINE u == s \ {Max(s)}
      <4>1. Max(s) \in s /\ \A k \in s : k <= Max(s)
        <5>1. n + 1 \in Nat
            BY <2>1
        <5>. QED
            BY <3>2, <5>1, MinMaxAre
      <4>2. ASSUME NEW k \in u PROVE k \in 1..n
        <5>1. k \in s /\ k # Max(s)
            OBVIOUS
        <5>2. k \in 1..(n + 1) /\ Max(s) \in 1..(n + 1) /\ k <= Max(s)
            BY <5>1, <4>1
        <5>. QED
            BY <5>1, <5>2, <2>1
      <4>3. u \in SUBSET (1..n) /\ u \in SUBSET (1..(n + 1))
          BY <4>2, <2>1
      <4>. HIDE DEF u
      <4>4. f[u] = Rule(f, u)
          BY <4>3, <2>2
      <4>5. g[u] = Rule(f, u)
          BY <4>3
      <4>6. f[u] = g[u]
          BY <4>4, <4>5
      <4>7. g[s] = ApplyDelta(f[u], ds[Max(s)])
          BY <3>2 DEF u
      <4>8. Rule(g, s) = ApplyDelta(g[u], ds[Max(s)])
          BY <3>2 DEF u
      <4>. QED
          BY <4>6, <4>7, <4>8
    <3>. QED
        BY <3>1, <3>2
  <2>. HIDE DEF Rule
  <2>4. [s \in SUBSET (1..(n + 1)) |-> Rule(f, s)] = [s \in SUBSET (1..(n + 1)) |-> Rule(g, s)]
      BY <2>3
  <2>5. Follows(g, n + 1)
      BY <2>4
  <2>. HIDE DEF g
  <2>6. \E f1 : Follows(f1, n + 1)
      BY <2>5
  <2>. QED
      BY <2>1, <2>6
<1>3. m \in T
  <2>. HIDE DEF T
  <2>1. T \in SUBSET Nat
      BY DEF T
  <2>. QED
      BY <1>1, <1>2, <2>1, CountingUp
<1>. DEFINE iter == CHOOSE f : Follows(f, m)
<1>4. Follows(iter, m)
    BY <1>3
<1>5. Applied(b, ds) = iter[1..m]
    BY DEF Applied, FoldLeft, MapThenFoldSet
<1>. HIDE DEF iter
<1>. DEFINE g == [k \in 0..m |-> iter[1..k]]
<1>6. g[0] = b
  <2>1. 1..0 = {} /\ {} \in SUBSET (1..m)
      OBVIOUS
  <2>2. iter[{}] = b
      BY <1>4, <2>1
  <2>. QED
      BY <2>1, <2>2
<1>7. ASSUME NEW k \in 1..m PROVE g[k] = ApplyDelta(g[k - 1], ds[k])
  <2>1. 1..k \in SUBSET (1..m) /\ k \in 1..k
      OBVIOUS
  <2>2. Max(1..k) \in 1..k /\ \A j \in 1..k : j <= Max(1..k)
      BY <2>1, MinMaxAre
  <2>3. Max(1..k) = k
      BY <2>2, <2>1
  <2>4. (1..k) \ {k} = 1..(k - 1)
      OBVIOUS
  <2>5. iter[1..k] = ApplyDelta(iter[1..(k - 1)], ds[k])
      BY <1>4, <2>1, <2>3, <2>4
  <2>. QED
      BY <2>5
<1>8. g[m] = iter[1..m]
    OBVIOUS
<1>9. AppliedVia(g, b, ds, m)
    BY <1>5, <1>6, <1>7, <1>8 DEF AppliedVia
<1>. HIDE DEF g
<1>. QED
    BY <1>9

\* How often e occurs among the first k of ds.
Count(ds, k, e) == Cardinality({n \in 1..k : ds[n] = e})

LEMMA CountNext ==
    ASSUME NEW ds, NEW k \in Nat, NEW e
    PROVE  /\ Count(ds, 0, e) = 0
           /\ Count(ds, k, e) \in Nat
           /\ ds[k + 1] = e => Count(ds, k + 1, e) = Count(ds, k, e) + 1
           /\ ds[k + 1] # e => Count(ds, k + 1, e) = Count(ds, k, e)
<1>. DEFINE S == {n \in 1..k : ds[n] = e}
            S2 == {n \in 1..(k + 1) : ds[n] = e}
<1>1. IsFiniteSet(S)
  <2>1. IsFiniteSet(1..k)
      BY FS_Interval
  <2>2. S \subseteq 1..k
      OBVIOUS
  <2>. QED
      BY <2>1, <2>2, FS_Subset
<1>2. Cardinality(S) \in Nat
    BY <1>1, FS_CardinalityType
<1>3. ASSUME ds[k + 1] = e PROVE Count(ds, k + 1, e) = Count(ds, k, e) + 1
  <2>1. S2 = S \cup {k + 1} /\ k + 1 \notin S
      BY <1>3
  <2>. HIDE DEF S, S2
  <2>2. Cardinality(S2) = Cardinality(S) + 1
      BY <2>1, <1>1, FS_AddElement
  <2>. QED
      BY <2>2 DEF S, S2, Count
<1>4. ASSUME ds[k + 1] # e PROVE Count(ds, k + 1, e) = Count(ds, k, e)
  <2>1. S2 = S
      BY <1>4
  <2>. QED
      BY <2>1 DEF Count
<1>5. Count(ds, 0, e) = 0
  <2>1. {n \in 1..0 : ds[n] = e} = {}
      OBVIOUS
  <2>. QED
      BY <2>1, FS_EmptySet DEF Count
<1>. QED
    BY <1>2, <1>3, <1>4, <1>5 DEF Count

\* Applying deltas adds the insertions and takes the deletions away.
LEMMA FoldCounts ==
    ASSUME NEW b \in [ShownRows -> Int], NEW m \in Nat,
           NEW ds \in [1..m -> {"D", "I"} \X ShownRows]
    PROVE  LET end == Applied(b, ds)
           IN  /\ end \in [ShownRows -> Int]
               /\ \A x \in ShownRows :
                    end[x] = b[x] + Count(ds, m, <<"I", x>>) - Count(ds, m, <<"D", x>>)
<1>1. PICK g : AppliedVia(g, b, ds, m)
  <2>1. DOMAIN ds = 1..m
      OBVIOUS
  <2>. QED
      BY <2>1, DeltasFold
<1>2. /\ g[0] = b
      /\ \A k \in 1..m : g[k] = ApplyDelta(g[k - 1], ds[k])
      /\ Applied(b, ds) = g[m]
    BY <1>1 DEF AppliedVia
<1>. DEFINE Right(k) ==
        /\ g[k] \in [ShownRows -> Int]
        /\ \A x \in ShownRows : g[k][x] = b[x] + Count(ds, k, <<"I", x>>) - Count(ds, k, <<"D", x>>)
<1>. DEFINE T == {k \in Nat : k <= m => Right(k)}
<1>3. Right(0)
  <2>1. ASSUME NEW e PROVE Count(ds, 0, e) = 0
      BY CountNext
  <2>. QED
      BY <1>2, <2>1
<1>4. ASSUME NEW k \in Nat, k <= m => Right(k), k + 1 <= m PROVE Right(k + 1)
  <2>1. Right(k)
    <3>. HIDE DEF Right
    <3>. QED
        BY <1>4
  <2>. DEFINE d == ds[k + 1]
  <2>2. k + 1 \in 1..m /\ (k + 1) - 1 = k
      BY <1>4
  <2>3. g[k + 1] = ApplyDelta(g[k], d) /\ d \in {"D", "I"} \X ShownRows
      BY <2>2, <1>2
  <2>4. ASSUME NEW e
        PROVE  /\ Count(ds, k, e) \in Nat
               /\ d = e => Count(ds, k + 1, e) = Count(ds, k, e) + 1
               /\ d # e => Count(ds, k + 1, e) = Count(ds, k, e)
      BY CountNext
  <2>. HIDE DEF d
  <2>5. PICK o \in {"D", "I"}, y \in ShownRows : d = <<o, y>>
      BY <2>3
  <2>6. g[k + 1] = [g[k] EXCEPT ![y] = IF o = "I" THEN @ + 1 ELSE @ - 1]
      BY <2>3, <2>5 DEF ApplyDelta
  <2>7. g[k + 1] \in [ShownRows -> Int]
      BY <2>1, <2>6
  <2>8. ASSUME NEW x \in ShownRows
        PROVE  g[k + 1][x] = b[x] + Count(ds, k + 1, <<"I", x>>) - Count(ds, k + 1, <<"D", x>>)
    <3>. DEFINE ins == Count(ds, k, <<"I", x>>)
                del == Count(ds, k, <<"D", x>>)
                ins2 == Count(ds, k + 1, <<"I", x>>)
                del2 == Count(ds, k + 1, <<"D", x>>)
    <3>1. g[k][x] = b[x] + ins - del /\ g[k][x] \in Int /\ b[x] \in Int
        BY <2>1
    <3>2. /\ ins \in Nat /\ del \in Nat
          /\ d = <<"I", x>> => ins2 = ins + 1
          /\ d # <<"I", x>> => ins2 = ins
          /\ d = <<"D", x>> => del2 = del + 1
          /\ d # <<"D", x>> => del2 = del
        BY <2>4
    <3>. HIDE DEF ins, del, ins2, del2
    <3>3. CASE x # y
      <4>1. g[k + 1][x] = g[k][x] /\ d # <<"I", x>> /\ d # <<"D", x>>
          BY <2>1, <2>5, <2>6, <3>3
      <4>2. g[k + 1][x] = b[x] + ins2 - del2
          BY <4>1, <3>1, <3>2
      <4>. QED
          BY <4>2 DEF ins2, del2
    <3>4. CASE x = y /\ o = "I"
      <4>1. g[k + 1][x] = g[k][x] + 1 /\ d = <<"I", x>> /\ d # <<"D", x>>
          BY <2>1, <2>5, <2>6, <3>4
      <4>2. g[k + 1][x] = b[x] + ins2 - del2
          BY <4>1, <3>1, <3>2
      <4>. QED
          BY <4>2 DEF ins2, del2
    <3>5. CASE x = y /\ o = "D"
      <4>1. g[k + 1][x] = g[k][x] - 1 /\ d = <<"D", x>> /\ d # <<"I", x>>
          BY <2>1, <2>5, <2>6, <3>5
      <4>2. g[k + 1][x] = b[x] + ins2 - del2
          BY <4>1, <3>1, <3>2
      <4>. QED
          BY <4>2 DEF ins2, del2
    <3>. QED
        BY <3>3, <3>4, <3>5
  <2>. QED
      BY <2>7, <2>8
<1>5. Right(m)
  <2>. HIDE DEF Right
  <2>1. T \in SUBSET Nat /\ 0 \in T
      BY <1>3
  <2>2. \A k \in T : k + 1 \in T
      BY <1>4
  <2>. HIDE DEF T
  <2>3. T = Nat
      BY <2>1, <2>2, CountingUp
  <2>. QED
      BY <2>3 DEF T
<1>. QED
    BY <1>2, <1>5

\* A bijection preserves the number of elements.
LEMMA SameSize ==
    ASSUME NEW S, NEW T, IsFiniteSet(S), NEW f \in [S -> T],
           \A a, b \in S : f[a] = f[b] => a = b,
           \A t \in T : \E a \in S : f[a] = t
    PROVE  IsFiniteSet(T) /\ Cardinality(S) = Cardinality(T)
<1>1. f \in Bijection(S, T)
    BY DEF Bijection, Injection, Surjection, IsInjective
<1>2. ExistsBijection(S, T)
    BY <1>1 DEF ExistsBijection
<1>. QED
    BY <1>2, FS_Bijection

\* The rows of a set with a number each, in the order of their numbers.
LEMMA BySeqOf ==
    ASSUME NEW S, IsFiniteSet(S), \A r \in S : r.seq \in Nat,
           \A r, q \in S : r.seq = q.seq => r = q
    PROVE  LET n == Cardinality(S)
           IN  /\ n \in Nat
               /\ BySeq(S) \in [1..n -> S]
               /\ \A r \in S : \E k \in 1..n : BySeq(S)[k] = r
               /\ \A j, k \in 1..n : j < k => BySeq(S)[j].seq < BySeq(S)[k].seq
<1>. DEFINE n == Cardinality(S)
            Q == {r.seq : r \in S}
            seqs == Ascending(Q)
            f == [r \in S |-> r.seq]
<1>1. IsFiniteSet(Q) /\ Cardinality(Q) = n
  <2>1. f \in [S -> Q]
      OBVIOUS
  <2>2. \A a, b \in S : f[a] = f[b] => a = b
      OBVIOUS
  <2>3. \A t \in Q : \E a \in S : f[a] = t
      OBVIOUS
  <2>. HIDE DEF f, Q
  <2>. QED
      BY <2>1, <2>2, <2>3, SameSize
<1>2. Q \in SUBSET Nat
    OBVIOUS
<1>. HIDE DEF Q
<1>3. /\ n \in Nat
      /\ seqs \in [1..n -> Q]
      /\ \A j, k \in 1..n : j < k => seqs[j] < seqs[k]
      /\ \A q \in Q : \E k \in 1..n : seqs[k] = q
    BY <1>1, <1>2, AscendingIs
<1>. HIDE DEF seqs, n
<1>4. BySeq(S) = [k \in 1..n |-> CHOOSE r \in S : r.seq = seqs[k]]
  <2>1. DOMAIN seqs = 1..n
      BY <1>3
  <2>2. BySeq(S) = [k \in DOMAIN seqs |-> CHOOSE r \in S : r.seq = seqs[k]]
      BY DEF BySeq, seqs, Q
  <2>. QED
      BY <2>1, <2>2
<1>5. ASSUME NEW k \in 1..n PROVE BySeq(S)[k] \in S /\ BySeq(S)[k].seq = seqs[k]
  <2>1. BySeq(S)[k] = CHOOSE r \in S : r.seq = seqs[k]
      BY <1>4
  <2>2. \E r \in S : r.seq = seqs[k]
      BY <1>3 DEF Q
  <2>. QED
      BY <2>1, <2>2
<1>6. ASSUME NEW r \in S PROVE \E k \in 1..n : BySeq(S)[k] = r
  <2>1. PICK k \in 1..n : seqs[k] = r.seq
      BY <1>3 DEF Q
  <2>2. BySeq(S)[k] = r
      BY <2>1, <1>5
  <2>. QED
      BY <2>2
<1>7. ASSUME NEW j \in 1..n, NEW k \in 1..n, j < k PROVE BySeq(S)[j].seq < BySeq(S)[k].seq
    BY <1>7, <1>5, <1>3
<1>8. BySeq(S) \in [1..n -> S]
  <2>1. BySeq(S) = [k \in 1..n |-> BySeq(S)[k]]
      BY <1>4
  <2>. QED
      BY <2>1, <1>5
<1>. QED
    BY <1>3, <1>6, <1>7, <1>8 DEF n

\* What the change of one identity consists of.
Deleted(i, from, to) == Shown(from.content[i]) # Shown(to.content[i]) /\ Shown(from.content[i]) # NoRow
Inserted(i, from, to) == Shown(from.content[i]) # Shown(to.content[i]) /\ Shown(to.content[i]) # NoRow

LEMMA ChangeOfIs ==
    ASSUME NEW i \in Ids, NEW from, NEW to, from.content[i] \in Cell, to.content[i] \in Cell
    PROVE  LET t == ChangeOf(i, from, to)
               d == <<"D", Shown(from.content[i])>>
               a == <<"I", Shown(to.content[i])>>
           IN  /\ \A k \in DOMAIN t : (t[k] = d /\ Deleted(i, from, to))
                                    \/ (t[k] = a /\ Inserted(i, from, to))
               /\ Deleted(i, from, to) => \E k \in DOMAIN t : t[k] = d
               /\ Inserted(i, from, to) => \E k \in DOMAIN t : t[k] = a
               /\ \A j, k \in DOMAIN t : t[j] = t[k] => j = k
<1>. DEFINE t == ChangeOf(i, from, to)
            sf == Shown(from.content[i])
            st == Shown(to.content[i])
            d == <<"D", sf>>
            a == <<"I", st>>
<1>1. /\ from.content[i] = NoRow <=> sf = NoRow
      /\ to.content[i] = NoRow <=> st = NoRow
    BY ShownNoRow
<1>2. t = IF sf = st THEN <<>>
          ELSE (IF sf = NoRow THEN <<>> ELSE <<d>>) \o (IF st = NoRow THEN <<>> ELSE <<a>>)
    BY <1>1 DEF ChangeOf
<1>3. /\ Deleted(i, from, to) <=> sf # st /\ sf # NoRow
      /\ Inserted(i, from, to) <=> sf # st /\ st # NoRow
    BY DEF Deleted, Inserted
<1>4. d # a
    OBVIOUS
<1>. HIDE DEF sf, st, t, d, a
<1>5. CASE sf = st
  <2>1. t = <<>>
      BY <1>5, <1>2
  <2>. QED
      BY <2>1, <1>3, <1>5 DEF t, d, a, sf, st
<1>6. CASE sf # st /\ sf = NoRow
  <2>1. t = <<a>>
      BY <1>6, <1>2
  <2>2. DOMAIN t = {1} /\ t[1] = a
      BY <2>1
  <2>. QED
      BY <2>2, <1>3, <1>6 DEF t, d, a, sf, st
<1>7. CASE sf # st /\ st = NoRow
  <2>1. t = <<d>>
      BY <1>7, <1>2
  <2>2. DOMAIN t = {1} /\ t[1] = d
      BY <2>1
  <2>. QED
      BY <2>2, <1>3, <1>7 DEF t, d, a, sf, st
<1>8. CASE sf # st /\ sf # NoRow /\ st # NoRow
  <2>1. t = <<d, a>>
      BY <1>8, <1>2, OneAndOne
  <2>2. DOMAIN t = {1, 2} /\ t[1] = d /\ t[2] = a
      BY <2>1
  <2>3. /\ \A k \in DOMAIN t : t[k] = d \/ t[k] = a
        /\ \A j, k \in DOMAIN t : t[j] = t[k] => j = k
        /\ \E k \in DOMAIN t : t[k] = d
        /\ \E k \in DOMAIN t : t[k] = a
      BY <2>2, <1>4
  <2>. QED
      BY <2>3, <1>3, <1>8 DEF t, d, a, sf, st
<1>. QED
    BY <1>5, <1>6, <1>7, <1>8

\* The rows that explain a step are one D for each identity that no longer
\* shows what it did, and one I for each that shows something new.
LEMMA ExplainedRows ==
    ASSUME NEW rows, rows \subseteq LoggedRow, NEW from \in PastState, NEW to \in PastState,
           \A r, q \in rows : r.seq = q.seq => r = q,
           Explains(rows, from, to)
    PROVE  LET R == {r \in rows : r.seq \in from.seq + 1 .. to.seq}
           IN  /\ \A r \in R :
                    \/ r.op = "D" /\ Deleted(r.id, from, to) /\ Shown(r.row) = Shown(from.content[r.id])
                    \/ r.op = "I" /\ Inserted(r.id, from, to) /\ Shown(r.row) = Shown(to.content[r.id])
               /\ \A i \in Ids : Deleted(i, from, to) => \E r \in R : r.id = i /\ r.op = "D"
               /\ \A i \in Ids : Inserted(i, from, to) => \E r \in R : r.id = i /\ r.op = "I"
               /\ \A r, q \in R : r.id = q.id /\ r.op = q.op => r = q
<1>. DEFINE R == {r \in rows : r.seq \in from.seq + 1 .. to.seq}
            Of(i) == {r \in rows : r.id = i /\ r.seq \in from.seq + 1 .. to.seq}
<1>1. from.seq \in Nat /\ to.seq \in Nat /\ from.content \in Contents /\ to.content \in Contents
    BY DEF PastState
<1>2. ASSUME NEW i \in Ids
      PROVE  /\ \A r \in Of(i) :
                  \/ r.op = "D" /\ Deleted(i, from, to) /\ Shown(r.row) = Shown(from.content[i])
                  \/ r.op = "I" /\ Inserted(i, from, to) /\ Shown(r.row) = Shown(to.content[i])
             /\ Deleted(i, from, to) => \E r \in Of(i) : r.op = "D"
             /\ Inserted(i, from, to) => \E r \in Of(i) : r.op = "I"
             /\ \A r, q \in Of(i) : r.op = q.op => r = q
  <2>. DEFINE S == Of(i)
              t == ChangeOf(i, from, to)
              d == <<"D", Shown(from.content[i])>>
              a == <<"I", Shown(to.content[i])>>
  <2>1. from.content[i] \in Cell /\ to.content[i] \in Cell
      BY <1>1 DEF Contents
  <2>2. /\ \A k \in DOMAIN t : (t[k] = d /\ Deleted(i, from, to))
                               \/ (t[k] = a /\ Inserted(i, from, to))
        /\ Deleted(i, from, to) => \E k \in DOMAIN t : t[k] = d
        /\ Inserted(i, from, to) => \E k \in DOMAIN t : t[k] = a
        /\ \A j, k \in DOMAIN t : t[j] = t[k] => j = k
      BY <2>1, ChangeOfIs
  <2>3. IsFiniteSet(S)
    <3>. DEFINE N == from.seq + 1 .. to.seq
                f == [r \in S |-> r.seq]
    <3>1. IsFiniteSet(N)
      <4>1. from.seq + 1 \in Int /\ to.seq \in Int
          BY <1>1
      <4>. QED
          BY <4>1, FS_Interval, Zenon
    <3>2. f \in Injection(S, N)
        BY DEF Injection, IsInjective
    <3>. HIDE DEF S, N, f
    <3>. QED
        BY <3>1, <3>2, FS_Injection, Zenon
  <2>4. /\ \A r \in S : r.seq \in Nat /\ r \in rows
        /\ \A r, q \in S : r.seq = q.seq => r = q
      BY DEF LoggedRow
  <2>. DEFINE n == Cardinality(S)
              mine == BySeq(S)
  <2>. HIDE DEF S
  <2>5. /\ n \in Nat
        /\ mine \in [1..n -> S]
        /\ \A r \in S : \E k \in 1..n : mine[k] = r
      BY <2>3, <2>4, BySeqOf
  <2>6. [k \in DOMAIN mine |-> <<mine[k].op, Shown(mine[k].row)>>] = t
      BY DEF Explains, RowsOf, S
  <2>. HIDE DEF n, mine, t
  <2>7. DOMAIN t = 1..n /\ \A k \in 1..n : t[k] = <<mine[k].op, Shown(mine[k].row)>>
      BY <2>5, <2>6
  <2>8. ASSUME NEW k \in 1..n
        PROVE  \/ /\ mine[k].op = "D" /\ Deleted(i, from, to)
                  /\ Shown(mine[k].row) = Shown(from.content[i]) /\ t[k] = d
               \/ /\ mine[k].op = "I" /\ Inserted(i, from, to)
                  /\ Shown(mine[k].row) = Shown(to.content[i]) /\ t[k] = a
      BY <2>2, <2>7
  <2>9. \A r \in S :
            \/ r.op = "D" /\ Deleted(i, from, to) /\ Shown(r.row) = Shown(from.content[i])
            \/ r.op = "I" /\ Inserted(i, from, to) /\ Shown(r.row) = Shown(to.content[i])
      BY <2>5, <2>8
  <2>10. Deleted(i, from, to) => \E r \in S : r.op = "D"
    <3>1. ASSUME NEW k \in 1..n, t[k] = d PROVE mine[k] \in S /\ mine[k].op = "D"
        BY <3>1, <2>5, <2>7
    <3>. QED
        BY <3>1, <2>2, <2>7
  <2>11. Inserted(i, from, to) => \E r \in S : r.op = "I"
    <3>1. ASSUME NEW k \in 1..n, t[k] = a PROVE mine[k] \in S /\ mine[k].op = "I"
        BY <3>1, <2>5, <2>7
    <3>. QED
        BY <3>1, <2>2, <2>7
  <2>12. ASSUME NEW r \in S, NEW q \in S, r.op = q.op PROVE r = q
    <3>1. PICK j \in 1..n : mine[j] = r
        BY <2>5
    <3>2. PICK k \in 1..n : mine[k] = q
        BY <2>5
    <3>3. t[j] = t[k]
        BY <3>1, <3>2, <2>8, <2>12
    <3>. QED
        BY <3>1, <3>2, <3>3, <2>2, <2>7
  <2>. QED
      BY <2>9, <2>10, <2>11, <2>12 DEF S
<1>3. \A r \in R : r.id \in Ids /\ r \in Of(r.id)
    BY DEF LoggedRow
<1>4. \A i : \A r \in Of(i) : r \in R /\ r.id = i
    OBVIOUS
<1>. HIDE DEF R, Of
<1>5. \A r \in R :
          \/ r.op = "D" /\ Deleted(r.id, from, to) /\ Shown(r.row) = Shown(from.content[r.id])
          \/ r.op = "I" /\ Inserted(r.id, from, to) /\ Shown(r.row) = Shown(to.content[r.id])
    BY <1>2, <1>3
<1>6. /\ \A i \in Ids : Deleted(i, from, to) => \E r \in R : r.id = i /\ r.op = "D"
      /\ \A i \in Ids : Inserted(i, from, to) => \E r \in R : r.id = i /\ r.op = "I"
    BY <1>2, <1>4
<1>7. \A r, q \in R : r.id = q.id /\ r.op = q.op => r = q
    BY <1>2, <1>3
<1>. QED
    BY <1>5, <1>6, <1>7 DEF R

\* g is m rows with the numbers that follow a.
RowsAfter(g, rows, a, m) == g \in [1..m -> rows] /\ \A n \in 1..m : g[n].seq = a + n
Deltas(g, m) == [n \in 1..m |-> <<g[n].op, Shown(g[n].row)>>]

\* Applying the rows that explain a step, in the order of their numbers, turns
\* what the view showed before it into what it shows after it.
LEMMA DeltasLead ==
    ASSUME NEW rows, rows \subseteq LoggedRow, NEW from \in PastState, NEW to \in PastState,
           \A r, q \in rows : r.seq = q.seq => r = q,
           Explains(rows, from, to),
           NEW m \in Nat, to.seq = from.seq + m, NEW g, RowsAfter(g, rows, from.seq, m)
    PROVE  Applied(ShownBag(from.content), Deltas(g, m)) = ShownBag(to.content)
<1>. USE DEF RowsAfter
<1>. DEFINE ds == [n \in 1..m |-> <<g[n].op, Shown(g[n].row)>>]
            R == {r \in rows : r.seq \in from.seq + 1 .. to.seq}
            sf(i) == Shown(from.content[i])
            st(i) == Shown(to.content[i])
            bf == ShownBag(from.content)
            bt == ShownBag(to.content)
<1>1. from.seq \in Nat /\ to.seq \in Nat
    BY DEF PastState
<1>2. /\ \A r \in R :
            \/ r.op = "D" /\ Deleted(r.id, from, to) /\ Shown(r.row) = sf(r.id)
            \/ r.op = "I" /\ Inserted(r.id, from, to) /\ Shown(r.row) = st(r.id)
      /\ \A i \in Ids : Deleted(i, from, to) => \E r \in R : r.id = i /\ r.op = "D"
      /\ \A i \in Ids : Inserted(i, from, to) => \E r \in R : r.id = i /\ r.op = "I"
      /\ \A r, q \in R : r.id = q.id /\ r.op = q.op => r = q
    BY ExplainedRows
<1>3. ASSUME NEW n \in 1..m PROVE g[n] \in R /\ g[n] \in LoggedRow
    BY <1>1
<1>4. ASSUME NEW r \in R PROVE \E n \in 1..m : g[n] = r
  <2>1. r.seq - from.seq \in 1..m /\ from.seq + (r.seq - from.seq) = r.seq
      BY <1>1
  <2>2. g[r.seq - from.seq].seq = r.seq
      BY <2>1
  <2>3. g[r.seq - from.seq] = r
      BY <2>1, <2>2
  <2>. QED
      BY <2>1, <2>3
<1>. HIDE DEF R
<1>5. ASSUME NEW r \in Rows PROVE Shown(r) = ShownRow[r] /\ Shown(r) \in ShownRows
    BY NettingAssumption DEF NettingAssumption, Shown, ShownRows
<1>6. NoRow \notin ShownRows
    BY NettingAssumption DEF NettingAssumption, ShownRows
<1>7. ds \in [1..m -> {"D", "I"} \X ShownRows]
  <2>1. ASSUME NEW n \in 1..m PROVE ds[n] \in {"D", "I"} \X ShownRows
    <3>1. g[n].op \in {"D", "I"} /\ g[n].row \in Rows
        BY <1>3 DEF LoggedRow
    <3>. QED
        BY <3>1, <1>5
  <2>. QED
      BY <2>1
<1>8. ASSUME NEW n \in 1..m PROVE ds[n] = <<g[n].op, Shown(g[n].row)>>
    OBVIOUS
<1>. DEFINE Gone(x) == {i \in Ids : sf(i) = x /\ st(i) # x}
            Come(x) == {i \in Ids : st(i) = x /\ sf(i) # x}
            Stay(x) == {i \in Ids : sf(i) = x /\ st(i) = x}
<1>. HIDE DEF ds
<1>9. ASSUME NEW x \in ShownRows PROVE Count(ds, m, <<"D", x>>) = Cardinality(Gone(x))
  <2>. DEFINE P == {n \in 1..m : ds[n] = <<"D", x>>}
              f == [n \in P |-> g[n].id]
  <2>1. ASSUME NEW n \in P PROVE /\ n \in 1..m /\ g[n].op = "D" /\ g[n] \in R
                                 /\ Shown(g[n].row) = x /\ f[n] \in Gone(x)
    <3>1. g[n].op = "D" /\ Shown(g[n].row) = x
        BY <1>8
    <3>2. Deleted(g[n].id, from, to) /\ sf(g[n].id) = x /\ g[n].id \in Ids
        BY <3>1, <1>2, <1>3 DEF LoggedRow
    <3>. QED
        BY <3>1, <3>2, <1>3 DEF Deleted
  <2>2. f \in [P -> Gone(x)]
      BY <2>1
  <2>3. ASSUME NEW a \in P, NEW b \in P, f[a] = f[b] PROVE a = b
    <3>1. g[a] = g[b]
      <4>1. g[a].id = g[b].id
          BY <2>3
      <4>2. g[a] \in R /\ g[b] \in R /\ g[a].op = g[b].op
          BY <2>1
      <4>. QED
          BY <4>1, <4>2, <1>2
    <3>2. from.seq + a = from.seq + b
        BY <3>1, <2>1
    <3>. QED
        BY <3>2, <2>1, <1>1
  <2>4. ASSUME NEW i \in Gone(x) PROVE \E a \in P : f[a] = i
    <3>1. Deleted(i, from, to) /\ i \in Ids
        BY <1>6 DEF Deleted
    <3>2. PICK r \in R : r.id = i /\ r.op = "D"
        BY <3>1, <1>2
    <3>3. PICK n \in 1..m : g[n] = r
        BY <1>4
    <3>4. Shown(r.row) = x
        BY <3>2, <1>2
    <3>5. n \in P
        BY <3>2, <3>3, <3>4, <1>8
    <3>. QED
        BY <3>2, <3>3, <3>5
  <2>5. IsFiniteSet(P)
    <3>1. IsFiniteSet(1..m) /\ P \in SUBSET (1..m)
        BY FS_Interval
    <3>. QED
        BY <3>1, FS_Subset
  <2>. HIDE DEF P, f, Gone
  <2>6. Cardinality(P) = Cardinality(Gone(x))
      BY <2>2, <2>3, <2>4, <2>5, SameSize
  <2>. QED
      BY <2>6 DEF Count, P
<1>10. ASSUME NEW x \in ShownRows PROVE Count(ds, m, <<"I", x>>) = Cardinality(Come(x))
  <2>. DEFINE P == {n \in 1..m : ds[n] = <<"I", x>>}
              f == [n \in P |-> g[n].id]
  <2>1. ASSUME NEW n \in P PROVE /\ n \in 1..m /\ g[n].op = "I" /\ g[n] \in R
                                 /\ Shown(g[n].row) = x /\ f[n] \in Come(x)
    <3>1. g[n].op = "I" /\ Shown(g[n].row) = x
        BY <1>8
    <3>2. Inserted(g[n].id, from, to) /\ st(g[n].id) = x /\ g[n].id \in Ids
        BY <3>1, <1>2, <1>3 DEF LoggedRow
    <3>. QED
        BY <3>1, <3>2, <1>3 DEF Inserted
  <2>2. f \in [P -> Come(x)]
      BY <2>1
  <2>3. ASSUME NEW a \in P, NEW b \in P, f[a] = f[b] PROVE a = b
    <3>1. g[a] = g[b]
      <4>1. g[a].id = g[b].id
          BY <2>3
      <4>2. g[a] \in R /\ g[b] \in R /\ g[a].op = g[b].op
          BY <2>1
      <4>. QED
          BY <4>1, <4>2, <1>2
    <3>2. from.seq + a = from.seq + b
        BY <3>1, <2>1
    <3>. QED
        BY <3>2, <2>1, <1>1
  <2>4. ASSUME NEW i \in Come(x) PROVE \E a \in P : f[a] = i
    <3>1. Inserted(i, from, to) /\ i \in Ids
        BY <1>6 DEF Inserted
    <3>2. PICK r \in R : r.id = i /\ r.op = "I"
        BY <3>1, <1>2
    <3>3. PICK n \in 1..m : g[n] = r
        BY <1>4
    <3>4. Shown(r.row) = x
        BY <3>2, <1>2
    <3>5. n \in P
        BY <3>2, <3>3, <3>4, <1>8
    <3>. QED
        BY <3>2, <3>3, <3>5
  <2>5. IsFiniteSet(P)
    <3>1. IsFiniteSet(1..m) /\ P \in SUBSET (1..m)
        BY FS_Interval
    <3>. QED
        BY <3>1, FS_Subset
  <2>. HIDE DEF P, f, Come
  <2>6. Cardinality(P) = Cardinality(Come(x))
      BY <2>2, <2>3, <2>4, <2>5, SameSize
  <2>. QED
      BY <2>6 DEF Count, P
<1>11. ASSUME NEW x \in ShownRows
       PROVE  /\ bf[x] = Cardinality(Stay(x)) + Cardinality(Gone(x))
              /\ bt[x] = Cardinality(Stay(x)) + Cardinality(Come(x))
              /\ Cardinality(Stay(x)) \in Nat
              /\ Cardinality(Gone(x)) \in Nat
              /\ Cardinality(Come(x)) \in Nat
  <2>1. IsFiniteSet(Ids)
      BY NettingAssumption DEF NettingAssumption
  <2>2. Stay(x) \in SUBSET Ids /\ Gone(x) \in SUBSET Ids /\ Come(x) \in SUBSET Ids
      OBVIOUS
  <2>3. /\ {i \in Ids : sf(i) = x} = Stay(x) \cup Gone(x) /\ Stay(x) \cap Gone(x) = {}
        /\ {i \in Ids : st(i) = x} = Stay(x) \cup Come(x) /\ Stay(x) \cap Come(x) = {}
      OBVIOUS
  <2>4. /\ bf[x] = Cardinality({i \in Ids : sf(i) = x})
        /\ bt[x] = Cardinality({i \in Ids : st(i) = x})
      BY DEF ShownBag
  <2>. HIDE DEF Stay, Gone, Come, bf, bt, sf, st
  <2>5. IsFiniteSet(Stay(x)) /\ IsFiniteSet(Gone(x)) /\ IsFiniteSet(Come(x))
      BY <2>1, <2>2, FS_Subset
  <2>6. /\ Cardinality(Stay(x)) \in Nat
        /\ Cardinality(Gone(x)) \in Nat
        /\ Cardinality(Come(x)) \in Nat
      BY <2>5, FS_CardinalityType
  <2>7. /\ Cardinality(Stay(x) \cup Gone(x)) = Cardinality(Stay(x)) + Cardinality(Gone(x))
        /\ Cardinality(Stay(x) \cup Come(x)) = Cardinality(Stay(x)) + Cardinality(Come(x))
    <3>1. Cardinality({}) = 0
        BY FS_EmptySet
    <3>2. Cardinality(Stay(x) \cup Gone(x))
            = Cardinality(Stay(x)) + Cardinality(Gone(x)) - Cardinality({})
        BY <2>3, <2>5, FS_Union
    <3>3. Cardinality(Stay(x) \cup Come(x))
            = Cardinality(Stay(x)) + Cardinality(Come(x)) - Cardinality({})
        BY <2>3, <2>5, FS_Union
    <3>. QED
        BY <3>1, <3>2, <3>3, <2>6
  <2>. QED
      BY <2>3, <2>4, <2>6, <2>7
<1>12. bf = [x \in ShownRows |-> bf[x]] /\ bt = [x \in ShownRows |-> bt[x]]
    BY DEF ShownBag
<1>. HIDE DEF bf, bt, Stay, Gone, Come
<1>13. bf \in [ShownRows -> Int]
    BY <1>11, <1>12
<1>. DEFINE end == Applied(bf, ds)
<1>14. /\ end \in [ShownRows -> Int]
       /\ \A x \in ShownRows :
            end[x] = bf[x] + Count(ds, m, <<"I", x>>) - Count(ds, m, <<"D", x>>)
    BY <1>7, <1>13, FoldCounts
<1>. HIDE DEF end
<1>15. ASSUME NEW x \in ShownRows PROVE end[x] = bt[x]
  <2>1. end[x] = bf[x] + Cardinality(Come(x)) - Cardinality(Gone(x))
      BY <1>9, <1>10, <1>14
  <2>. QED
      BY <2>1, <1>11
<1>16. end = bt
    BY <1>12, <1>14, <1>15
<1>. QED
    BY <1>16 DEF ds, end, bf, bt, Deltas

-----------------------------------------------------------------------------
(* Rows and the transactions they are grouped into.                        *)

\* The members of an increasing sequence are in ascending order.
LEMMA AscendingOf ==
    ASSUME NEW p \in Nat, NEW f \in [1..p -> Nat], \A i, j \in 1..p : i < j => f[i] < f[j]
    PROVE  Ascending({f[j] : j \in 1..p}) = f
<1>. DEFINE S == {f[j] : j \in 1..p}
            Rank(n) == Cardinality({m \in S : m <= n})
<1>1. ASSUME NEW i \in 1..p, NEW j \in 1..p, f[i] = f[j] PROVE i = j
  <2>1. ~ (i < j) /\ ~ (j < i)
      BY <1>1
  <2>. QED
      BY <2>1
<1>2. ASSUME NEW j \in 0..p PROVE Cardinality({f[i] : i \in 1..j}) = j
  <2>. DEFINE T == {f[i] : i \in 1..j}
              h == [i \in 1..j |-> f[i]]
  <2>1. h \in [1..j -> T]
      OBVIOUS
  <2>2. \A a, b \in 1..j : h[a] = h[b] => a = b
      BY <1>1
  <2>3. \A t \in T : \E a \in 1..j : h[a] = t
      OBVIOUS
  <2>4. IsFiniteSet(1..j) /\ Cardinality(1..j) = j
      BY FS_Interval
  <2>. HIDE DEF h, T
  <2>5. Cardinality(1..j) = Cardinality(T)
    <3>1. h \in Bijection(1..j, T)
        BY <2>1, <2>2, <2>3, Zenon DEF Bijection, Injection, Surjection, IsInjective
    <3>2. ExistsBijection(1..j, T)
        BY <3>1, Zenon DEF ExistsBijection
    <3>. QED
        BY <2>4, <3>2, FS_Bijection
  <2>. QED
      BY <2>4, <2>5 DEF T
<1>3. Cardinality(S) = p
  <2>1. p \in 0..p
      OBVIOUS
  <2>. QED
      BY <1>2, <2>1, Zenon
<1>4. ASSUME NEW j \in 1..p PROVE f[j] \in S /\ Rank(f[j]) = j
  <2>1. ASSUME NEW i \in 1..p PROVE f[i] <= f[j] <=> i <= j
    <3>1. CASE i < j
        BY <3>1
    <3>2. CASE i = j
        BY <3>2
    <3>3. CASE j < i
      <4>1. f[j] < f[i] /\ f[i] \in Nat /\ f[j] \in Nat
          BY <3>3
      <4>. QED
          BY <4>1, <3>3
    <3>. QED
        BY <3>1, <3>2, <3>3
  <2>2. {m \in S : m <= f[j]} = {f[i] : i \in 1..j}
    <3>1. \A i \in 1..j : i \in 1..p /\ i <= j
        OBVIOUS
    <3>2. \A i \in 1..p : i <= j => i \in 1..j
        OBVIOUS
    <3>. QED
        BY <2>1, <3>1, <3>2
  <2>3. Cardinality({f[i] : i \in 1..j}) = j
      BY <1>2
  <2>4. Rank(f[j]) = Cardinality({f[i] : i \in 1..j})
      BY <2>2
  <2>. QED
      BY <2>3, <2>4
<1>. HIDE DEF Rank, S
<1>5. Ascending(S) = [k \in 1..p |-> CHOOSE n \in S : Rank(n) = k]
    BY <1>3 DEF Ascending, Rank
<1>6. ASSUME NEW k \in 1..p PROVE (CHOOSE n \in S : Rank(n) = k) = f[k]
  <2>1. ASSUME NEW n \in S, Rank(n) = k PROVE n = f[k]
    <3>1. PICK j \in 1..p : n = f[j]
        BY DEF S
    <3>. QED
        BY <3>1, <2>1, <1>4
  <2>. QED
      BY <2>1, <1>4
<1>7. [k \in 1..p |-> CHOOSE n \in S : Rank(n) = k] = [k \in 1..p |-> f[k]]
    BY <1>6
<1>8. f = [k \in 1..p |-> f[k]]
    OBVIOUS
<1>. QED
    BY <1>5, <1>7, <1>8 DEF S

\* The positions 1..N fall into p intervals, that end at c[1] < ... < c[p] = N.
Cuts(c, p, N) ==
    /\ p \in Nat /\ N \in Nat
    /\ c \in [0..p -> Nat] /\ c[0] = 0 /\ c[p] = N
    /\ \A i, j \in 0..p : i < j => c[i] < c[j]

LEMMA InOneInterval ==
    ASSUME NEW c, NEW p, NEW N, Cuts(c, p, N), NEW n \in 1..N
    PROVE  \E j \in 1..p : c[j - 1] < n /\ n <= c[j]
<1>. DEFINE S == {j \in 0..p : n <= c[j]}
            j == Least(S)
<1>1. p \in Nat /\ N \in Nat /\ c \in [0..p -> Nat] /\ c[0] = 0 /\ c[p] = N
    BY DEF Cuts
<1>2. S \in SUBSET Nat /\ p \in S
    BY <1>1
<1>. HIDE DEF S
<1>3. j \in S /\ \A i \in S : j <= i
    BY <1>2, LeastIs
<1>. HIDE DEF j
<1>4. j \in 0..p /\ n <= c[j]
    BY <1>3 DEF S
<1>5. j # 0
    BY <1>4, <1>1
<1>6. j \in 1..p /\ j - 1 \in 0..p /\ ~ (j <= j - 1)
    BY <1>4, <1>5, <1>1
<1>7. ~ (n <= c[j - 1])
    BY <1>3, <1>6 DEF S
<1>8. c[j - 1] < n
    BY <1>7, <1>6, <1>1
<1>. QED
    BY <1>4, <1>6, <1>8

\* Rows numbered in order, of one transaction in each interval, are grouped
\* into the intervals.
FallsInto(page, c, p, N) ==
    /\ \A j \in 1..p : \A n \in c[j - 1] + 1 .. c[j] : page[n].lsn = page[c[j]].lsn
    /\ \A i, j \in 1..p : i < j => page[c[i]].lsn < page[c[j]].lsn
Part(page, c, j) == [n \in 1 .. c[j] - c[j - 1] |-> page[c[j - 1] + n]]

LEMMA GroupsAre ==
    ASSUME NEW base \in Nat, NEW c, NEW p, NEW N, Cuts(c, p, N), NEW page,
           RowsAfter(page, LoggedRow, base, N), FallsInto(page, c, p, N)
    PROVE  DOMAIN Groups(page) = 1..p /\ \A j \in 1..p : Groups(page)[j] = Part(page, c, j)
<1>. USE DEF RowsAfter, FallsInto
<1>. DEFINE lsn == [j \in 1..p |-> page[c[j]].lsn]
            L == {lsn[j] : j \in 1..p}
<1>1. p \in Nat /\ N \in Nat /\ c \in [0..p -> Nat] /\ c[0] = 0 /\ c[p] = N
    BY DEF Cuts
<1>2. \A i, j \in 0..p : i < j => c[i] < c[j]
    BY DEF Cuts
<1>3. ASSUME NEW j \in 1..p
      PROVE  /\ j \in 0..p /\ j - 1 \in 0..p
             /\ c[j] \in Nat /\ c[j - 1] \in Nat
             /\ c[j - 1] < c[j] /\ c[j] <= N /\ c[j] \in 1..N
  <2>1. j \in 0..p /\ j - 1 \in 0..p /\ p \in 0..p /\ j - 1 < j
      BY <1>1
  <2>2. c[j - 1] < c[j] /\ c[j] \in Nat /\ c[j - 1] \in Nat
      BY <2>1, <1>1, <1>2
  <2>3. c[j] <= N
    <3>1. CASE j = p
        BY <3>1, <1>1
    <3>2. CASE j < p
        BY <3>2, <2>1, <1>1, <1>2
    <3>. QED
        BY <3>1, <3>2, <1>1
  <2>. QED
      BY <2>1, <2>2, <2>3, <1>1
<1>4. lsn \in [1..p -> Nat]
  <2>1. ASSUME NEW j \in 1..p PROVE page[c[j]].lsn \in Nat
    <3>1. page[c[j]] \in LoggedRow
        BY <1>3
    <3>. QED
        BY <3>1 DEF LoggedRow
  <2>. QED
      BY <2>1
<1>5. \A i, j \in 1..p : i < j => lsn[i] < lsn[j]
    OBVIOUS
<1>6. {page[k].lsn : k \in DOMAIN page} = L
  <2>1. ASSUME NEW k \in 1..N PROVE page[k].lsn \in L
    <3>1. PICK j \in 1..p : c[j - 1] < k /\ k <= c[j]
        BY InOneInterval
    <3>2. k \in c[j - 1] + 1 .. c[j]
        BY <3>1, <1>3
    <3>3. page[k].lsn = lsn[j]
        BY <3>2
    <3>. QED
        BY <3>3
  <2>2. ASSUME NEW j \in 1..p PROVE lsn[j] \in {page[k].lsn : k \in DOMAIN page}
      BY <1>3
  <2>3. DOMAIN page = 1..N
      OBVIOUS
  <2>. QED
      BY <2>1, <2>2, <2>3
<1>. HIDE DEF L
<1>7. Ascending(L) = lsn
  <2>. HIDE DEF lsn
  <2>. QED
      BY <1>4, <1>5, <1>1, AscendingOf DEF L
<1>8. Groups(page) = [j \in 1..p |-> BySeq({r \in Range(page) : r.lsn = lsn[j]})]
  <2>1. DOMAIN lsn = 1..p
      OBVIOUS
  <2>. HIDE DEF lsn
  <2>. QED
      BY <2>1, <1>6, <1>7 DEF Groups
<1>9. ASSUME NEW j \in 1..p
      PROVE  Groups(page)[j] = [n \in 1 .. c[j] - c[j - 1] |-> page[c[j - 1] + n]]
  <2>. DEFINE S == {r \in Range(page) : r.lsn = lsn[j]}
              a == c[j - 1]
              z == c[j] - a
              g == BySeq(S)
  <2>1. a \in Nat /\ z \in Nat /\ a + z = c[j]
      BY <1>3
  <2>2. ASSUME NEW n \in 1..z PROVE /\ a + n \in 1..N /\ page[a + n] \in S
                                   /\ page[a + n].seq = (base + a) + n
    <3>1. a + n \in a + 1 .. c[j] /\ a + n \in 1..N
      <4>1. c[j] <= N /\ N \in Nat /\ n \in 1..z
          BY <1>1, <1>3
      <4>. HIDE DEF a, z
      <4>. QED
          BY <4>1, <2>1
    <3>2. page[a + n].lsn = lsn[j]
        BY <3>1
    <3>3. page[a + n] \in Range(page)
        BY <3>1 DEF Range
    <3>4. page[a + n].seq = base + (a + n)
        BY <3>1
    <3>. QED
        BY <3>1, <3>2, <3>3, <3>4, <2>1
  <2>3. ASSUME NEW r \in S PROVE \E n \in 1..z : r = page[a + n]
    <3>1. PICK k \in 1..N : r = page[k]
        BY DEF Range
    <3>2. PICK i \in 1..p : c[i - 1] < k /\ k <= c[i]
        BY InOneInterval
    <3>3. k \in c[i - 1] + 1 .. c[i]
        BY <3>2, <1>3
    <3>4. page[k].lsn = lsn[i] /\ page[k].lsn = lsn[j]
        BY <3>1, <3>3
    <3>5. i = j
      <4>1. ~ (i < j) /\ ~ (j < i)
          BY <3>4, <1>4, <1>5
      <4>. QED
          BY <4>1
    <3>6. k - a \in 1..z /\ a + (k - a) = k
        BY <3>3, <3>5, <1>3
    <3>. QED
        BY <3>1, <3>6
  <2>4. {r.seq : r \in S} = (base + a) + 1 .. (base + a) + z
    <3>1. ASSUME NEW r \in S PROVE r.seq \in (base + a) + 1 .. (base + a) + z
      <4>1. PICK n \in 1..z : r = page[a + n]
          BY <2>3
      <4>2. r.seq = (base + a) + n
          BY <4>1, <2>2
      <4>. HIDE DEF S, a, z
      <4>3. base + a \in Nat /\ z \in Nat
          BY <2>1
      <4>4. (base + a) + n \in (base + a) + 1 .. (base + a) + z
          BY <4>3
      <4>. QED
          BY <4>2, <4>4
    <3>2. ASSUME NEW s \in (base + a) + 1 .. (base + a) + z PROVE \E r \in S : r.seq = s
      <4>1. s - (base + a) \in 1..z /\ (base + a) + (s - (base + a)) = s
          BY <2>1
      <4>2. page[a + (s - (base + a))].seq = s /\ page[a + (s - (base + a))] \in S
          BY <4>1, <2>2
      <4>. QED
          BY <4>2
    <3>. HIDE DEF S
    <3>. QED
        BY <3>1, <3>2
  <2>. HIDE DEF S, z
  <2>5. g \in [1..z -> S] /\ \A n \in 1..z : g[n].seq = (base + a) + n
    <3>1. base + a \in Nat /\ z \in Nat
        BY <2>1
    <3>2. NumberedFrom(S, base + a, z)
        BY <2>4 DEF NumberedFrom
    <3>. QED
        BY <3>1, <3>2, BySeqIs DEF g
  <2>. HIDE DEF g, a
  <2>6. ASSUME NEW n \in 1..z PROVE g[n] = page[a + n]
    <3>1. g[n] \in S /\ g[n].seq = (base + a) + n
        BY <2>5
    <3>2. PICK k \in 1..z : g[n] = page[a + k]
        BY <3>1, <2>3
    <3>3. (base + a) + k = (base + a) + n
        BY <3>1, <3>2, <2>2
    <3>4. k = n
        BY <3>3, <2>1
    <3>. QED
        BY <3>2, <3>4
  <2>7. g = [n \in 1..z |-> page[a + n]]
    <3>1. g = [n \in 1..z |-> g[n]]
        BY <2>5
    <3>. QED
        BY <3>1, <2>6
  <2>8. Groups(page)[j] = g
      BY <1>8 DEF g, S
  <2>. QED
      BY <2>7, <2>8 DEF z, a
<1>. QED
    BY <1>8, <1>9 DEF Part

-----------------------------------------------------------------------------
(* What the log serves between two states.                                 *)

LEMMA StateIs ==
    ASSUME NEW states \in Seq(PastState), NEW k \in DOMAIN states
    PROVE  /\ states[k] \in PastState
           /\ states[k].seq \in Nat /\ states[k].content \in Contents
<1>1. states[k] \in PastState
    OBVIOUS
<1>. QED
    BY <1>1 DEF PastState

\* The rows between a state and the next one are of one transaction.
LEMMA OneTransaction ==
    ASSUME NEW rows, NEW states, NEW last \in Nat, NEW front, NEW now,
           LogFits(rows, states, last, front, now),
           NEW k \in 2..Len(states), NEW r \in rows, NEW q \in rows,
           states[k - 1].seq < r.seq, r.seq <= q.seq, q.seq <= states[k].seq
    PROVE  r.lsn = q.lsn
<1>1. /\ states \in Seq(PastState)
      /\ InOrder(states)
      /\ EndsAtStates(rows, states)
    BY DEF LogFits
<1>2. PICK first \in 0..last : InCommitOrder(rows, first, last)
    BY DEF LogFits
<1>3. /\ rows \subseteq LoggedRow
      /\ {x.seq : x \in rows} = first + 1 .. last
      /\ \A x, y \in rows : x.seq = y.seq => x = y
      /\ \A x, y \in rows : x.seq <= y.seq => x.lsn <= y.lsn
    BY <1>2 DEF InCommitOrder
<1>4. /\ r.seq \in Nat /\ q.seq \in Nat /\ r.lsn \in Nat /\ q.lsn \in Nat
      /\ r.lsn <= q.lsn
    BY <1>3 DEF LoggedRow
<1>5. k - 1 \in DOMAIN states /\ k \in DOMAIN states
    BY <1>1
<1>6. states[k - 1].seq \in Nat /\ states[k].seq \in Nat
    BY <1>1, <1>5, StateIs
<1>. DEFINE S == {s \in r.seq .. q.seq : \E x \in rows : x.seq = s /\ x.lsn = r.lsn}
            s0 == Greatest(S)
<1>7. s0 \in S /\ \A s \in S : s <= s0
  <2>1. S \in SUBSET Nat /\ S # {} /\ \A s \in S : s <= q.seq
    <3>1. r.seq \in S
        BY <1>4
    <3>. QED
        BY <3>1, <1>4
  <2>. HIDE DEF S
  <2>. QED
      BY <2>1, <1>4, GreatestIs
<1>. HIDE DEF s0
<1>8. PICK x \in rows : x.seq = s0 /\ x.lsn = r.lsn
    BY <1>7
<1>9. s0 \in Nat /\ r.seq <= s0 /\ s0 <= q.seq
    BY <1>7, <1>4
<1>10. CASE s0 = q.seq
    BY <1>3, <1>8, <1>10
<1>11. CASE s0 < q.seq
  <2>1. ASSUME NEW y \in rows, y.seq = x.seq + 1 PROVE y.lsn # x.lsn
    <3>1. y.lsn = r.lsn => s0 + 1 \in S
        BY <2>1, <1>4, <1>8, <1>9, <1>11
    <3>2. s0 + 1 \notin S
        BY <1>7, <1>9
    <3>. QED
        BY <3>1, <3>2, <1>8
  <2>2. PICK i \in DOMAIN states : states[i].seq = s0
      BY <2>1, <1>1, <1>8 DEF EndsAtStates
  <2>3. states[k - 1].seq < states[i].seq /\ states[i].seq < states[k].seq
    <3>1. states[k - 1].seq < r.seq /\ q.seq <= states[k].seq
        OBVIOUS
    <3>2. \A a, b, c \in Nat : a < b /\ b <= c => a < c
        OBVIOUS
    <3>3. states[k - 1].seq < s0 /\ s0 < states[k].seq
        BY <3>1, <3>2, <1>4, <1>6, <1>9, <1>11, Zenon
    <3>. QED
        BY <3>3, <2>2
  <2>4. ~ (i <= k - 1)
    <3>1. i = k - 1 => FALSE
        BY <2>3, <1>6
    <3>2. i < k - 1 => FALSE
      <4>1. i < k - 1 => states[i].seq < states[k - 1].seq
          BY <1>1, <1>5, <2>2 DEF InOrder
      <4>. QED
          BY <4>1, <2>2, <2>3, <1>6, <1>9
    <3>. QED
        BY <3>1, <3>2, <1>1, <2>2
  <2>5. ~ (k <= i)
    <3>1. i = k => FALSE
        BY <2>3, <1>6
    <3>2. k < i => FALSE
      <4>1. k < i => states[k].seq < states[i].seq
          BY <1>1, <1>5, <2>2 DEF InOrder
      <4>. QED
          BY <4>1, <2>2, <2>3, <1>6, <1>9
    <3>. QED
        BY <3>1, <3>2, <1>1, <2>2
  <2>. QED
      BY <2>4, <2>5, <2>2, <1>1
<1>. QED
    BY <1>9, <1>10, <1>11, <1>4

\* The rows of the log that follow a state, up to the next one, are one whole
\* transaction, which leads from the one to the other and is older than what
\* comes after it.
LEMMA LogLeads ==
    ASSUME lastSeq \in Nat, frontier \in Nat,
           LogFits(log, past[epoch], lastSeq, frontier, content),
           NEW k \in 2..Len(past[epoch]), NEW m \in Nat,
           past[epoch][k].seq = past[epoch][k - 1].seq + m,
           NEW g, RowsAfter(g, log, past[epoch][k - 1].seq, m)
    PROVE  /\ m # 0
           /\ \A n \in 1..m : g[n].lsn = g[m].lsn
           /\ g[m].lsn <= frontier
           /\ \A r \in log : r.seq > past[epoch][k].seq => r.lsn > g[m].lsn
           /\ Applied(ShownBag(past[epoch][k - 1].content), Deltas(g, m))
                = ShownBag(past[epoch][k].content)
<1>. DEFINE states == past[epoch]
            from == states[k - 1]
            to == states[k]
<1>0. g \in [1..m -> log] /\ \A n \in 1..m : g[n].seq = from.seq + n
    BY DEF RowsAfter
<1>1. /\ states \in Seq(PastState)
      /\ InOrder(states)
      /\ CutAtStates(log, states)
      /\ \A r \in log : r.lsn <= frontier
    BY DEF LogFits
<1>2. PICK first \in 0..lastSeq :
          /\ InCommitOrder(log, first, lastSeq)
          /\ \A j \in 2..Len(states) :
              states[j - 1].seq >= first => Explains(log, states[j - 1], states[j])
    BY DEF LogFits
<1>3. /\ log \subseteq LoggedRow
      /\ {r.seq : r \in log} = first + 1 .. lastSeq
      /\ \A r, q \in log : r.seq = q.seq => r = q
    BY <1>2 DEF InCommitOrder
<1>4. k - 1 \in DOMAIN states /\ k \in DOMAIN states /\ k - 1 < k
    BY <1>1
<1>5. from \in PastState /\ to \in PastState /\ from.seq \in Nat /\ to.seq \in Nat
    BY <1>1, <1>4, StateIs
<1>6. m # 0
  <2>1. from.seq < to.seq
      BY <1>1, <1>4 DEF InOrder
  <2>. QED
      BY <2>1, <1>5
<1>7. /\ m \in 1..m /\ 1 \in 1..m
      /\ g[m] \in log /\ g[m].seq = to.seq
      /\ g[1] \in log /\ g[1].seq = from.seq + 1
    BY <1>0, <1>6
<1>8. ASSUME NEW n \in 1..m PROVE g[n].lsn = g[m].lsn
  <2>1. g[n] \in log /\ g[n].seq = from.seq + n
      BY <1>0
  <2>. HIDE DEF from, to
  <2>2. from.seq < g[n].seq /\ g[n].seq <= g[m].seq /\ g[m].seq <= to.seq
    <3>1. n \in Nat /\ 1 <= n /\ n <= m /\ from.seq \in Nat
        BY <1>5
    <3>2. g[m].seq = to.seq /\ g[m].seq = from.seq + m
        BY <1>0, <1>7
    <3>3. \A x, y, z \in Int : 1 <= y /\ y <= z => x < x + y /\ x + y <= x + z /\ x + z <= x + z
        OBVIOUS
    <3>4. from.seq \in Int /\ n \in Int /\ m \in Int
        BY <3>1
    <3>5. from.seq < from.seq + n /\ from.seq + n <= from.seq + m /\ from.seq + m <= from.seq + m
        BY <3>1, <3>3, <3>4, Zenon
    <3>. QED
        BY <2>1, <3>2, <3>5, Zenon
  <2>3. states[k - 1].seq < g[n].seq /\ g[m].seq <= states[k].seq
      BY <2>2 DEF from, to
  <2>. QED
      BY <2>1, <2>2, <2>3, <1>7, OneTransaction
<1>9. ASSUME NEW r \in log, r.seq > to.seq PROVE r.lsn > g[m].lsn
  <2>1. g[m].seq <= states[k].seq /\ r.seq > states[k].seq
      BY <1>9, <1>5, <1>7
  <2>2. g[m].lsn < r.lsn
      BY <2>1, <1>1, <1>4, <1>7 DEF CutAtStates
  <2>. QED
      BY <2>2, <1>3, <1>7 DEF LoggedRow
<1>10. Explains(log, from, to)
  <2>. HIDE DEF from, to
  <2>1. from.seq + 1 \in first + 1 .. lastSeq
      BY <1>3, <1>7
  <2>0. first \in Nat /\ from.seq \in Nat
      BY <1>5
  <2>2. from.seq >= first
      BY <2>0, <2>1
  <2>. USE DEF from, to
  <2>. QED
      BY <2>2, <1>2
<1>11. Applied(ShownBag(from.content), Deltas(g, m)) = ShownBag(to.content)
  <2>1. RowsAfter(g, log, from.seq, m) /\ to.seq = from.seq + m
      OBVIOUS
  <2>. HIDE DEF from, to
  <2>. QED
      BY <2>1, <1>3, <1>5, <1>10, DeltasLead
<1>. QED
    BY <1>1, <1>6, <1>7, <1>8, <1>9, <1>11

-----------------------------------------------------------------------------
(* The server's steps.                                                     *)

Grown(s, t) == \A k \in DOMAIN s : k \in DOMAIN t /\ t[k] = s[k]

\* What a step of the server may do to what a client knows.
ServerGrew ==
    /\ epoch' \in Nat /\ epoch <= epoch'
    /\ lastSeq' \in Nat /\ lastSeq <= lastSeq'
    /\ \A e \in Epochs : Grown(past[e], past'[e])
    /\ epoch' = epoch =>
        frontier <= frontier' /\ \A r \in log' : r \in log \/ r.lsn > frontier

LEMMA ServerGrows ==
    ASSUME LogInv, ServerNext
    PROVE  ServerGrew
<1>1. /\ epoch \in Nat /\ epoch \in Epochs /\ lastSeq \in Nat /\ frontier \in Nat
      /\ past \in [Epochs -> Seq(PastState)]
    BY EpochIs DEF LogInv, LogTypeOK
<1>2. ASSUME UNCHANGED <<epoch, frontier, lastSeq, log, past>> PROVE ServerGrew
    BY <1>1, <1>2 DEF ServerGrew, Grown
<1>3. CASE BeginRound \/ RoundTx \/ AbortRound
  <2>1. UNCHANGED <<epoch, frontier, lastSeq, log, past>>
      BY <1>3 DEF BeginRound, RoundTx, AbortRound, viewVars
  <2>. QED
      BY <2>1, <1>2
<1>4. CASE RequestRefresh \/ BuildGivesUp
  <2>1. UNCHANGED <<epoch, frontier, lastSeq, log, past>>
      BY <1>4 DEF RequestRefresh, BuildGivesUp
  <2>. QED
      BY <2>1, <1>2
<1>5. CASE EndRound
  <2>1. /\ round.on /\ frontier' = round.frontier /\ lastSeq' = round.seq
        /\ log' = LogAfter
        /\ past' = [past EXCEPT ![epoch] = @ \o round.states]
        /\ epoch' = epoch
      BY <1>5 DEF EndRound
  <2>2. /\ round.frontier \in Nat /\ round.seq \in Nat /\ round.states \in Seq(PastState)
        /\ past[epoch] \in Seq(PastState)
      BY <1>1 DEF LogInv, LogTypeOK, Round
  <2>3. populated
      BY <2>1 DEF LogInv
  <2>4. \A r \in log' : r \in log \/ r.lsn > frontier
      BY <2>1 DEF LogAfter, Retained, LogInv
  <2>5. frontier <= frontier'
      BY <2>1 DEF LogInv
  <2>. DEFINE states == past[epoch] \o round.states
  <2>6. Grown(past[epoch], states)
    <3>1. ASSUME NEW k \in DOMAIN past[epoch]
          PROVE  k \in DOMAIN states /\ states[k] = past[epoch][k]
      <4>. DEFINE s == past[epoch]
                  u == round.states
      <4>1. s \in Seq(PastState) /\ u \in Seq(PastState) /\ k \in 1..Len(s)
          BY <2>2
      <4>. HIDE DEF s, u
      <4>2. k \in DOMAIN (s \o u) /\ (s \o u)[k] = s[k]
          BY <4>1
      <4>. QED
          BY <4>2 DEF s, u
    <3>. HIDE DEF states
    <3>. QED
        BY <3>1 DEF Grown
  <2>7. lastSeq <= round.seq
    <3>. DEFINE first == past[epoch]
                n == Len(first)
    <3>1. first # <<>> /\ first[n].seq = lastSeq
        BY <2>3 DEF LogInv, LogFits
    <3>2. n \in DOMAIN first
        BY <3>1, <2>2
    <3>3. states[n] = first[n] /\ n \in DOMAIN states
        BY <3>2, <2>6 DEF Grown
    <3>4. states[n].seq <= round.seq
        BY <3>3, <2>1 DEF LogInv, LogFits
    <3>. QED
        BY <3>1, <3>3, <3>4
  <2>8. \A e \in Epochs : Grown(past[e], past'[e])
    <3>1. past'[epoch] = states /\ \A e \in Epochs : e # epoch => past'[e] = past[e]
        BY <2>1, <1>1
    <3>2. ASSUME NEW e \in Epochs, e # epoch PROVE Grown(past[e], past'[e])
        BY <3>1, <3>2 DEF Grown
    <3>. HIDE DEF states
    <3>. QED
        BY <3>1, <3>2, <2>6
  <2>. QED
      BY <2>1, <2>2, <2>4, <2>5, <2>7, <2>8, <1>1 DEF ServerGrew
<1>6. CASE BuildView
  <2>1. PICK c \in Contents :
            past' = [past EXCEPT ![EpochAfterBuild] = Append(@, [seq |-> lastSeq, content |-> c])]
      BY <1>6 DEF BuildView
  <2>2. /\ epoch' = EpochAfterBuild /\ log' = {} /\ UNCHANGED <<frontier, lastSeq>>
      BY <1>6 DEF BuildView
  <2>3. epoch' \in Nat /\ epoch <= epoch'
      BY <2>2, <1>1 DEF EpochAfterBuild
  <2>4. \A e \in Epochs : Grown(past[e], past'[e])
    <3>. DEFINE s == [seq |-> lastSeq, content |-> c]
    <3>1. ASSUME NEW e \in Epochs
          PROVE  past'[e] = past[e] \/ past'[e] = Append(past[e], s)
        BY <2>1, <1>1
    <3>2. ASSUME NEW e \in Epochs PROVE Grown(past[e], Append(past[e], s))
      <4>1. past[e] \in Seq(PastState)
          BY <1>1
      <4>. QED
          BY <4>1 DEF Grown
    <3>3. ASSUME NEW e \in Epochs PROVE Grown(past[e], past[e])
        BY DEF Grown
    <3>. HIDE DEF s
    <3>. QED
        BY <3>1, <3>2, <3>3
  <2>. QED
      BY <2>2, <2>3, <2>4, <1>1 DEF ServerGrew
<1>. QED
    BY <1>3, <1>4, <1>5, <1>6 DEF ServerNext

\* What the view showed stays what it showed.
LEMMA WasShownStays ==
    ASSUME LogInv, ServerGrew, NEW e, NEW seq, NEW rows, WasShown(e, seq, rows)
    PROVE  WasShown(e, seq, rows)'
<1>1. e \in Epochs /\ e \in 1..epoch /\ epoch \in Nat
    BY DeltaLogAssumption DEF WasShown, LogInv, LogTypeOK, Epochs, DeltaLogAssumption
<1>2. e \in 1..epoch'
    BY <1>1 DEF ServerGrew
<1>3. PICK k \in DOMAIN past[e] : past[e][k].seq = seq /\ ShownBag(past[e][k].content) = rows
    BY DEF WasShown
<1>4. k \in DOMAIN past'[e] /\ past'[e][k] = past[e][k]
    BY <1>1, <1>3 DEF ServerGrew, Grown
<1>. QED
    BY <1>2, <1>3, <1>4 DEF WasShown

\* So do the transactions that followed.
LEMMA LeadsOnStays ==
    ASSUME NEW event, NEW k, cepoch' = cepoch, Grown(past[cepoch], past'[cepoch]),
           k \in DOMAIN past[cepoch], LeadsOn(event, k)
    PROVE  LeadsOn(event, k)'
<1>1. /\ event.kind = "transaction"
      /\ k + 1 \in DOMAIN past[cepoch]
      /\ event.cursor = past[cepoch][k + 1].seq
      /\ Applied(ShownBag(past[cepoch][k].content), event.deltas)
            = ShownBag(past[cepoch][k + 1].content)
    BY DEF LeadsOn
<1>2. /\ k \in DOMAIN past'[cepoch] /\ past'[cepoch][k] = past[cepoch][k]
      /\ k + 1 \in DOMAIN past'[cepoch] /\ past'[cepoch][k + 1] = past[cepoch][k + 1]
    BY <1>1 DEF Grown
<1>. QED
    BY <1>1, <1>2 DEF LeadsOn

LEMMA ClientEpochIs ==
    ASSUME LogInv, ClientTypeOK, cepoch # 0
    PROVE  /\ cepoch \in Epochs /\ cepoch \in 1..epoch /\ epoch \in Nat
           /\ past[cepoch] \in Seq(PastState) /\ log \subseteq LoggedRow /\ frontier \in Nat
<1>1. epoch \in 1..MaxRefreshes + 1 /\ epoch \in Nat /\ MaxRefreshes \in Nat
    BY EpochIs, DeltaLogAssumption DEF LogInv, Epochs, DeltaLogAssumption
<1>2. cepoch \in 1..epoch
    BY <1>1 DEF ClientTypeOK
<1>3. cepoch \in Epochs
    BY <1>1, <1>2 DEF Epochs
<1>. QED
    BY <1>1, <1>2, <1>3 DEF LogInv, LogTypeOK

\* The client may be where it was.
LEMMA FollowsFromStays ==
    ASSUME LogInv, ServerGrew, LogTypeOK', UNCHANGED clientVars, ClientTypeOK, cepoch # 0,
           NEW k \in DOMAIN past[cepoch], FollowsFrom(k)
    PROVE  k \in DOMAIN past'[cepoch'] /\ FollowsFrom(k)'
<1>1. /\ cepoch \in Epochs /\ cepoch \in 1..epoch /\ epoch \in Nat
      /\ past[cepoch] \in Seq(PastState) /\ log \subseteq LoggedRow /\ frontier \in Nat
    BY ClientEpochIs
<1>2. UNCHANGED <<cepoch, cursor, tail, queue, copy>>
    BY DEF clientVars
<1>3. Grown(past[cepoch], past'[cepoch])
    BY <1>1 DEF ServerGrew
<1>4. k \in DOMAIN past'[cepoch] /\ past'[cepoch][k] = past[cepoch][k]
    BY <1>3 DEF Grown
<1>5. queue \in Seq(Event) /\ tail \in Seq(LoggedRow)
    BY DEF ClientTypeOK
<1>6. ASSUME NEW n \in DOMAIN queue PROVE LeadsOn(queue[n], k + n - 1)'
  <2>1. LeadsOn(queue[n], k + n - 1)
      BY DEF FollowsFrom
  <2>2. (k + n - 1) + 1 \in DOMAIN past[cepoch]
      BY <2>1 DEF LeadsOn
  <2>3. k + n - 1 \in DOMAIN past[cepoch]
      BY <2>2, <1>1, <1>5
  <2>4. queue'[n] = queue[n]
      BY <1>2
  <2>. DEFINE event == queue[n]
              j == k + n - 1
  <2>. HIDE DEF event, j
  <2>5. LeadsOn(event, j) /\ j \in DOMAIN past[cepoch]
      BY <2>1, <2>3 DEF event, j
  <2>. QED
      BY <1>2, <1>3, <2>1, <2>3, LeadsOnStays
<1>7. ASSUME tail # <<>>, LeadsOn(TransactionEvent(tail), k + Len(queue))
      PROVE  (LeadsOn(TransactionEvent(tail), k + Len(queue)))'
  <2>1. k + Len(queue) + 1 \in DOMAIN past[cepoch]
      BY <1>7 DEF LeadsOn
  <2>2. k + Len(queue) \in DOMAIN past[cepoch]
      BY <2>1, <1>1, <1>5
  <2>3. TransactionEvent(tail)' = TransactionEvent(tail) /\ queue' = queue
      BY <1>2 DEF TransactionEvent
  <2>. QED
      BY <2>2, <2>3, <1>2, <1>3, <1>7, LeadsOnStays
<1>8. ASSUME tail # <<>>, cepoch = epoch',
             cepoch = epoch =>
                /\ Last(tail).lsn <= frontier
                /\ \A r \in log : r.seq > Last(tail).seq => r.lsn > Last(tail).lsn
      PROVE  /\ Last(tail).lsn <= frontier'
             /\ \A r \in log' : r.seq > Last(tail).seq => r.lsn > Last(tail).lsn
  <2>1. epoch' = epoch /\ cepoch = epoch
      BY <1>1, <1>8 DEF ServerGrew
  <2>2. frontier <= frontier' /\ \A r \in log' : r \in log \/ r.lsn > frontier
      BY <2>1 DEF ServerGrew
  <2>3. frontier' \in Nat /\ log' \subseteq LoggedRow
      BY DEF LogTypeOK
  <2>4. Last(tail) \in LoggedRow
      BY <1>5, <1>8 DEF Last
  <2>5. Last(tail).lsn <= frontier /\ Last(tail).lsn \in Nat
      BY <2>1, <2>4, <1>8 DEF LoggedRow
  <2>6. ASSUME NEW r \in log', r.seq > Last(tail).seq PROVE r.lsn > Last(tail).lsn
    <3>1. r.lsn \in Nat
        BY <2>3 DEF LoggedRow
    <3>2. CASE r \in log
        BY <3>2, <2>1, <2>6, <1>8
    <3>3. CASE r.lsn > frontier
        BY <3>1, <3>3, <2>5, <1>1
    <3>. QED
        BY <3>2, <3>3, <2>2
  <2>. QED
      BY <2>2, <2>3, <2>5, <2>6, <1>1
<1>9. TailFits(k + Len(queue))'
  <2>1. TailFits(k + Len(queue))
      BY DEF FollowsFrom
  <2>2. ASSUME tail # <<>>
        PROVE  /\ (LeadsOn(TransactionEvent(tail), k + Len(queue)))'
               /\ \A n \in DOMAIN tail :
                    /\ tail[n].seq = past'[cepoch][k + Len(queue)].seq + n
                    /\ tail[n].lsn = Last(tail).lsn
               /\ cepoch = epoch' =>
                    /\ Last(tail).lsn <= frontier'
                    /\ \A r \in log' : r.seq > Last(tail).seq => r.lsn > Last(tail).lsn
    <3>1. /\ LeadsOn(TransactionEvent(tail), k + Len(queue))
          /\ \A n \in DOMAIN tail :
                tail[n].seq = past[cepoch][k + Len(queue)].seq + n /\ tail[n].lsn = Last(tail).lsn
          /\ cepoch = epoch =>
                /\ Last(tail).lsn <= frontier
                /\ \A r \in log : r.seq > Last(tail).seq => r.lsn > Last(tail).lsn
        BY <2>1, <2>2 DEF TailFits
    <3>2. past'[cepoch][k + Len(queue)] = past[cepoch][k + Len(queue)]
      <4>1. k + Len(queue) + 1 \in DOMAIN past[cepoch]
          BY <3>1 DEF LeadsOn
      <4>2. k + Len(queue) \in DOMAIN past[cepoch]
          BY <4>1, <1>1, <1>5
      <4>. QED
          BY <4>2, <1>3 DEF Grown
    <3>. QED
        BY <3>1, <3>2, <2>2, <1>7, <1>8
  <2>. QED
      BY <2>2, <1>2 DEF TailFits
<1>. QED
    BY <1>2, <1>4, <1>6, <1>9 DEF FollowsFrom

\* Whatever the server does, what the client has stays what the view showed and
\* the transactions that followed.
LEMMA ServerKeepsClient ==
    ASSUME LogInv, LogInv', ClientInv, ServerNext, UNCHANGED clientVars
    PROVE  ClientInv'
<1>1. ServerGrew
    BY ServerGrows
<1>2. UNCHANGED <<cstate, cepoch, cursor, tail, queue, snap, copy, losses>>
    BY DEF clientVars
<1>3. ClientTypeOK
    BY DEF ClientInv
<1>4. ClientTypeOK'
  <2>1. /\ epoch' \in Nat /\ epoch \in Nat /\ epoch <= epoch'
        /\ lastSeq' \in Nat /\ lastSeq \in Nat /\ lastSeq <= lastSeq'
      BY <1>1, EpochIs DEF ServerGrew, LogInv, LogTypeOK
  <2>2. cepoch \in 0..epoch' /\ cursor \in 0..lastSeq'
      BY <2>1, <1>3 DEF ClientTypeOK
  <2>. QED
      BY <2>2, <1>2, <1>3 DEF ClientTypeOK
<1>5. ASSUME copy.epoch # 0 PROVE WasShown(copy.epoch, copy.seq, copy.rows)'
  <2>1. WasShown(copy.epoch, copy.seq, copy.rows)
      BY <1>5 DEF ClientInv
  <2>. QED
      BY <2>1, <1>1, <1>2, WasShownStays
<1>6. ASSUME cstate = "reading"
      PROVE  /\ queue = <<>>
             /\ WasShown(snap.epoch, snap.cursor, snap.rows)'
             /\ NotBack(snap.epoch, snap.cursor)'
  <2>1. /\ queue = <<>>
        /\ WasShown(snap.epoch, snap.cursor, snap.rows)
        /\ NotBack(snap.epoch, snap.cursor)
      BY <1>6 DEF ClientInv
  <2>2. WasShown(snap.epoch, snap.cursor, snap.rows)'
      BY <2>1, <1>1, <1>2, WasShownStays
  <2>. QED
      BY <2>1, <2>2, <1>2 DEF NotBack
<1>7. ASSUME cstate = "following"
      PROVE  HasSnapshot' \/ (cepoch' # 0 /\ \E k \in DOMAIN past'[cepoch'] : FollowsFrom(k)')
  <2>1. CASE HasSnapshot
    <3>1. WasShown(cepoch, cursor, queue[1].rows)
        BY <2>1 DEF HasSnapshot
    <3>2. WasShown(cepoch, cursor, queue[1].rows)'
        BY <3>1, <1>1, <1>2, WasShownStays
    <3>3. HasSnapshot'
        BY <2>1, <3>2, <1>2 DEF HasSnapshot, NotBack
    <3>. QED
        BY <3>3
  <2>2. CASE cepoch # 0 /\ \E k \in DOMAIN past[cepoch] : FollowsFrom(k)
    <3>1. PICK k \in DOMAIN past[cepoch] : FollowsFrom(k)
        BY <2>2
    <3>2. LogTypeOK'
        BY DEF LogInv
    <3>3. k \in DOMAIN past'[cepoch'] /\ FollowsFrom(k)'
        BY <2>2, <3>1, <3>2, <1>1, <1>3, FollowsFromStays
    <3>. QED
        BY <3>3, <2>2, <1>2
  <2>. QED
      BY <2>1, <2>2, <1>7 DEF ClientInv
<1>. QED
    BY <1>2, <1>4, <1>5, <1>6, <1>7 DEF ClientInv

-----------------------------------------------------------------------------
(* The client's steps.                                                     *)

LEMMA NoRowsIs == NoRows \in [ShownRows -> Nat]
BY DEF NoRows

\* What a state shows is a bag of visible rows.
LEMMA ShownBagIs ==
    ASSUME NEW c \in Contents
    PROVE  ShownBag(c) \in [ShownRows -> 0..Cardinality(Ids)] /\ ShownBag(c) \in [ShownRows -> Nat]
<1>1. ASSUME NEW x \in ShownRows
      PROVE  Cardinality({i \in Ids : Shown(c[i]) = x}) \in 0..Cardinality(Ids)
  <2>1. IsFiniteSet(Ids)
      BY NettingAssumption DEF NettingAssumption
  <2>. DEFINE S == {i \in Ids : Shown(c[i]) = x}
  <2>2. S \in SUBSET Ids
      OBVIOUS
  <2>. HIDE DEF S
  <2>3. IsFiniteSet(S) /\ Cardinality(S) <= Cardinality(Ids)
      BY <2>1, <2>2, FS_Subset
  <2>4. Cardinality(S) \in Nat /\ Cardinality(Ids) \in Nat
      BY <2>1, <2>3, FS_CardinalityType
  <2>5. Cardinality(S) \in 0..Cardinality(Ids)
      BY <2>3, <2>4
  <2>. QED
      BY <2>5 DEF S
<1>2. ShownBag(c) \in [ShownRows -> 0..Cardinality(Ids)]
    BY <1>1 DEF ShownBag
<1>. QED
    BY <1>2

LEMMA ClientInvInit == SubInit => ClientInv
<1>. SUFFICES ASSUME SubInit PROVE ClientInv
    OBVIOUS
<1>1. /\ epoch = 1 /\ lastSeq = 0 /\ cstate = "bootstrap"
      /\ cepoch = 0 /\ cursor = 0 /\ tail = <<>> /\ queue = <<>> /\ snap = NoSnap
      /\ copy = [epoch |-> 0, seq |-> 0, rows |-> NoRows]
    BY DEF SubInit, LogInit
<1>2. snap \in Snap /\ copy \in Copy
    BY <1>1, NoRowsIs DEF Snap, Copy, NoSnap
<1>3. tail \in Seq(LoggedRow) /\ queue \in Seq(Event)
    BY <1>1
<1>4. ClientTypeOK
    BY <1>1, <1>2, <1>3 DEF ClientTypeOK
<1>. QED
    BY <1>1, <1>4 DEF ClientInv

LEMMA ResyncIs == Resync \in Event /\ <<Resync>> \in Seq(Event) /\ Resync.kind = "resync"
<1>1. Resync \in Event
    BY NoRowsIs DEF Resync, Event, Kinds
<1>. QED
    BY <1>1 DEF Resync

\* Nothing the server holds changes, so neither does what it showed.
LEMMA SameShown ==
    ASSUME UNCHANGED serverVars, NEW e, NEW seq, NEW rows
    PROVE  WasShown(e, seq, rows)' <=> WasShown(e, seq, rows)
BY DEF WasShown, serverVars, viewVars

LEMMA LoseConnectionKeeps ==
    ASSUME ClientInv, LoseConnection, UNCHANGED serverVars
    PROVE  ClientInv'
<1>1. /\ cstate' = "down" /\ tail' = <<>> /\ snap' = NoSnap
      /\ queue = <<>> /\ UNCHANGED <<cepoch, cursor, queue, copy, epoch, lastSeq>>
    BY DEF LoseConnection, serverVars, viewVars
<1>2. snap' \in Snap /\ tail' \in Seq(LoggedRow)
    BY <1>1, NoRowsIs DEF Snap, NoSnap
<1>3. ClientTypeOK'
    BY <1>1, <1>2 DEF ClientInv, ClientTypeOK
<1>4. copy.epoch # 0 => WasShown(copy.epoch, copy.seq, copy.rows)'
    BY <1>1, SameShown DEF ClientInv
<1>. QED
    BY <1>1, <1>3, <1>4 DEF ClientInv

LEMMA ReconnectKeeps ==
    ASSUME ClientInv, Reconnect, UNCHANGED serverVars
    PROVE  ClientInv'
<1>1. /\ cstate' = "bootstrap" /\ tail' = <<>> /\ queue' = <<Resync>>
      /\ UNCHANGED <<cepoch, cursor, snap, copy, epoch, lastSeq>>
    BY DEF Reconnect, serverVars, viewVars
<1>2. ClientTypeOK'
    BY <1>1, ResyncIs DEF ClientInv, ClientTypeOK
<1>3. copy.epoch # 0 => WasShown(copy.epoch, copy.seq, copy.rows)'
    BY <1>1, SameShown DEF ClientInv
<1>. QED
    BY <1>1, <1>2, <1>3 DEF ClientInv

\* The snapshot of the bootstrap is what the view shows, and no older than the
\* copy.
LEMMA BootstrapReadsKeeps ==
    ASSUME LogInv, ClientInv, BootstrapReads, UNCHANGED serverVars
    PROVE  ClientInv'
<1>1. /\ cstate = "bootstrap" /\ queue = <<>>
      /\ UNCHANGED <<cepoch, cursor, tail, copy, epoch, lastSeq>>
    BY DEF BootstrapReads, serverVars, viewVars
<1>2. tail = <<>> /\ tail' = <<>>
    BY <1>1 DEF ClientInv
<1>3. copy.epoch # 0 => WasShown(copy.epoch, copy.seq, copy.rows)'
    BY <1>1, SameShown DEF ClientInv
<1>4. CASE queue' = <<Resync>> /\ UNCHANGED <<cstate, snap>>
  <2>1. ClientTypeOK'
      BY <1>1, <1>4, ResyncIs DEF ClientInv, ClientTypeOK
  <2>. QED
      BY <1>1, <1>2, <1>3, <1>4, <2>1 DEF ClientInv
<1>5. CASE UNCHANGED <<cstate, queue, snap>>
  <2>1. ClientTypeOK'
      BY <1>1, <1>5 DEF ClientInv, ClientTypeOK
  <2>. QED
      BY <1>1, <1>2, <1>3, <1>5, <2>1 DEF ClientInv
<1>6. CASE /\ status = "live"
           /\ snap' = [epoch |-> epoch, cursor |-> lastSeq, rows |-> ShownBag(content)]
           /\ cstate' = "reading"
           /\ UNCHANGED queue
  <2>. DEFINE states == past[epoch]
              n == Len(states)
  <2>1. /\ epoch \in Nat /\ epoch \in 1..epoch /\ lastSeq \in Nat /\ content \in Contents
        /\ populated
      BY <1>6, EpochIs DEF LogInv, LogTypeOK
  <2>2. /\ states \in Seq(PastState) /\ states # <<>> /\ states[n].seq = lastSeq
        /\ \A i \in Ids : Shown(states[n].content[i]) = Shown(content[i])
      BY <2>1 DEF LogInv, LogFits
  <2>3. n \in DOMAIN states
      BY <2>2
  <2>4. ShownBag(states[n].content) = ShownBag(content)
    <3>1. ASSUME NEW x PROVE {i \in Ids : Shown(states[n].content[i]) = x}
                              = {i \in Ids : Shown(content[i]) = x}
        BY <2>2
    <3>. HIDE DEF states, n
    <3>. QED
        BY <3>1 DEF ShownBag
  <2>5. WasShown(epoch, lastSeq, ShownBag(content))
    <3>. HIDE DEF n
    <3>. QED
        BY <2>1, <2>2, <2>3, <2>4 DEF WasShown
  <2>6. NotBack(epoch, lastSeq)
    <3>1. CASE copy.epoch = 0
        BY <3>1, <2>1 DEF NotBack
    <3>2. CASE copy.epoch # 0
      <4>1. WasShown(copy.epoch, copy.seq, copy.rows)
          BY <3>2 DEF ClientInv
      <4>2. PICK k \in DOMAIN past[copy.epoch] : past[copy.epoch][k].seq = copy.seq
          BY <4>1 DEF WasShown
      <4>3. copy.epoch \in 1..epoch
          BY <4>1 DEF WasShown
      <4>4. copy.epoch = epoch => copy.seq <= lastSeq
        <5>1. epoch \in Epochs
            BY EpochIs DEF LogInv
        <5>2. \A j \in DOMAIN past[epoch] : past[epoch][j].seq <= lastSeq
            BY <5>1 DEF LogInv
        <5>. QED
            BY <5>2, <4>2
      <4>. QED
          BY <4>3, <4>4, <2>1 DEF NotBack
    <3>. QED
        BY <3>1, <3>2
  <2>7. snap' \in Snap /\ snap'.epoch = epoch /\ snap'.cursor = lastSeq /\ snap'.rows = ShownBag(content)
      BY <1>6, <2>1, ShownBagIs DEF Snap
  <2>8. ClientTypeOK'
      BY <1>1, <1>6, <2>7 DEF ClientInv, ClientTypeOK
  <2>9. WasShown(snap.epoch, snap.cursor, snap.rows)'
    <3>1. WasShown(epoch, lastSeq, ShownBag(content))'
        BY <2>5 DEF WasShown, serverVars, viewVars
    <3>2. snap'.epoch = epoch' /\ snap'.cursor = lastSeq' /\ snap'.rows = ShownBag(content)'
        BY <2>7 DEF serverVars, viewVars
    <3>. QED
        BY <3>1, <3>2
  <2>10. NotBack(snap.epoch, snap.cursor)'
      BY <2>6, <2>7, <1>1 DEF NotBack
  <2>. QED
      BY <1>1, <1>2, <1>3, <1>6, <2>8, <2>9, <2>10 DEF ClientInv
<1>. QED
    BY <1>4, <1>5, <1>6 DEF BootstrapReads

\* The snapshot is ready.
LEMMA BootstrapEndsKeeps ==
    ASSUME LogInv, ClientInv, BootstrapEnds, UNCHANGED serverVars
    PROVE  ClientInv'
<1>. DEFINE e == [kind |-> "snapshot", epoch |-> snap.epoch, cursor |-> snap.cursor,
                  rows |-> SnapshotRows, deltas |-> <<>>]
<1>1. /\ cstate = "reading" /\ cepoch' = snap.epoch /\ cursor' = snap.cursor
      /\ tail' = <<>> /\ queue' = <<e>> /\ cstate' = "following" /\ snap' = NoSnap
      /\ UNCHANGED <<copy, epoch, lastSeq, past>>
    BY DEF BootstrapEnds, serverVars, viewVars
<1>2. /\ WasShown(snap.epoch, snap.cursor, snap.rows)
      /\ NotBack(snap.epoch, snap.cursor)
      /\ snap \in Snap
    BY <1>1 DEF ClientInv, ClientTypeOK
<1>3. e \in Event /\ e.kind = "snapshot" /\ e.epoch = snap.epoch /\ e.cursor = snap.cursor
      /\ e.rows = snap.rows
    BY <1>2 DEF Event, Kinds, SnapshotRows, Snap
<1>4. /\ queue' \in Seq(Event) /\ Len(queue') = 1 /\ queue'[1] = e
      /\ tail' \in Seq(LoggedRow) /\ snap' \in Snap
    BY <1>1, <1>3, NoRowsIs DEF Snap, NoSnap
<1>. HIDE DEF e
<1>5. cepoch' \in 0..epoch /\ cursor' \in 0..lastSeq
  <2>1. snap.epoch \in 1..epoch
      BY <1>2 DEF WasShown
  <2>2. snap.epoch \in Epochs
    <3>1. epoch \in 1..MaxRefreshes + 1 /\ epoch \in Nat /\ MaxRefreshes \in Nat
        BY EpochIs, DeltaLogAssumption DEF LogInv, Epochs, DeltaLogAssumption
    <3>. QED
        BY <2>1, <3>1 DEF Epochs
  <2>3. PICK k \in DOMAIN past[snap.epoch] : past[snap.epoch][k].seq = snap.cursor
      BY <1>2 DEF WasShown
  <2>4. snap.cursor <= lastSeq
      BY <2>2, <2>3 DEF LogInv
  <2>. QED
      BY <2>1, <2>4, <1>1, <1>2 DEF Snap
<1>6. ClientTypeOK'
    BY <1>1, <1>4, <1>5 DEF ClientInv, ClientTypeOK
<1>7. copy.epoch # 0 => WasShown(copy.epoch, copy.seq, copy.rows)'
    BY <1>1, SameShown DEF ClientInv
<1>8. WasShown(cepoch, cursor, queue[1].rows)'
    BY <1>1, <1>2, <1>3, <1>4 DEF WasShown
<1>9. NotBack(cepoch, cursor)'
    BY <1>1, <1>2 DEF NotBack
<1>10. HasSnapshot'
    BY <1>1, <1>3, <1>4, <1>8, <1>9 DEF HasSnapshot
<1>. QED
    BY <1>1, <1>6, <1>7, <1>10 DEF ClientInv

\* The copy as the k-th state of the client's epoch.
CopyOf(k) == [epoch |-> cepoch, seq |-> past[cepoch][k].seq,
              rows |-> ShownBag(past[cepoch][k].content)]

\* What handing out an event makes of the copy: nothing, a snapshot that is not
\* older, or the next state.
Unmoved == cstate # "following" /\ queue = <<Resync>> /\ copy' = copy /\ cursor' = cursor
MovesTo(k) ==
    /\ cstate = "following" /\ k \in DOMAIN past[cepoch]
    /\ copy' = CopyOf(k)
    /\ cursor' = past[cepoch][k].seq
StartsOverAt(k) == MovesTo(k) /\ HasSnapshot /\ past[cepoch][k].seq = cursor
FollowsTo(k) == MovesTo(k + 1) /\ k \in DOMAIN past[cepoch] /\ FollowsFrom(k)

LEMMA HandOutIs ==
    ASSUME LogInv, ClientInv, HandOut
    PROVE  \/ Unmoved
           \/ cepoch # 0 /\ \E k : StartsOverAt(k)
           \/ cepoch # 0 /\ \E k : FollowsTo(k)
<1>. DEFINE e == Head(queue)
<1>1. /\ queue # <<>> /\ copy' = Adopt(e)
      /\ cursor' = IF e.kind = "resync" THEN cursor ELSE e.cursor
    BY DEF HandOut
<1>2. queue \in Seq(Event) /\ e = queue[1] /\ 1 \in DOMAIN queue
    BY <1>1 DEF ClientInv, ClientTypeOK
<1>. HIDE DEF e
<1>3. CASE cstate # "following"
  <2>1. queue = <<Resync>>
      BY <1>1, <1>3 DEF ClientInv
  <2>2. e.kind = "resync"
      BY <2>1, <1>2, ResyncIs
  <2>. QED
      BY <2>1, <2>2, <1>1, <1>3 DEF Adopt, Unmoved
<1>4. CASE cstate = "following" /\ HasSnapshot
  <2>1. /\ e.kind = "snapshot" /\ e.epoch = cepoch /\ e.cursor = cursor
        /\ WasShown(cepoch, cursor, e.rows)
      BY <1>2, <1>4 DEF HasSnapshot
  <2>2. PICK k \in DOMAIN past[cepoch] :
            past[cepoch][k].seq = cursor /\ ShownBag(past[cepoch][k].content) = e.rows
      BY <2>1 DEF WasShown
  <2>3. cepoch # 0
      BY <2>1 DEF WasShown
  <2>4. copy' = CopyOf(k) /\ cursor' = past[cepoch][k].seq
      BY <1>1, <2>1, <2>2 DEF Adopt, CopyOf
  <2>5. StartsOverAt(k)
      BY <2>2, <2>4, <1>4 DEF StartsOverAt, MovesTo
  <2>. QED
      BY <2>3, <2>5
<1>5. CASE cstate = "following" /\ cepoch # 0 /\ \E k \in DOMAIN past[cepoch] : FollowsFrom(k)
  <2>1. PICK k \in DOMAIN past[cepoch] : FollowsFrom(k)
      BY <1>5
  <2>2. past[cepoch] \in Seq(PastState)
      BY <1>5, ClientEpochIs DEF ClientInv
  <2>3. LeadsOn(e, k)
    <3>1. LeadsOn(queue[1], k + 1 - 1) /\ k + 1 - 1 = k
        BY <2>1, <2>2, <1>2 DEF FollowsFrom
    <3>. QED
        BY <3>1, <1>2
  <2>4. /\ e.kind = "transaction" /\ k + 1 \in DOMAIN past[cepoch]
        /\ e.cursor = past[cepoch][k + 1].seq
        /\ Applied(copy.rows, e.deltas) = ShownBag(past[cepoch][k + 1].content)
      BY <2>1, <2>3 DEF LeadsOn, FollowsFrom
  <2>5. copy.epoch = cepoch /\ copy \in Copy
      BY <2>1 DEF FollowsFrom, ClientInv, ClientTypeOK
  <2>6. copy' = [copy EXCEPT !.seq = e.cursor, !.rows = Applied(@, e.deltas)]
      BY <1>1, <2>4 DEF Adopt
  <2>7. copy' = CopyOf(k + 1)
      BY <2>4, <2>5, <2>6 DEF CopyOf, Copy
  <2>8. cursor' = past[cepoch][k + 1].seq
      BY <1>1, <2>4
  <2>9. FollowsTo(k)
      BY <2>1, <2>4, <2>7, <2>8, <1>5 DEF FollowsTo, MovesTo
  <2>. QED
      BY <2>9, <1>5
<1>. QED
    BY <1>3, <1>4, <1>5 DEF ClientInv

LEMMA CopyOfIs ==
    ASSUME LogInv, ClientTypeOK, cepoch # 0, NEW k \in DOMAIN past[cepoch]
    PROVE  /\ CopyOf(k) \in Copy
           /\ CopyOf(k).epoch = cepoch /\ CopyOf(k).seq = past[cepoch][k].seq
           /\ CopyOf(k).rows = ShownBag(past[cepoch][k].content)
           /\ WasShown(cepoch, past[cepoch][k].seq, ShownBag(past[cepoch][k].content))
           /\ past[cepoch][k].seq \in 0..lastSeq
<1>1. cepoch \in Epochs /\ cepoch \in 1..epoch /\ epoch \in Nat /\ past[cepoch] \in Seq(PastState)
    BY ClientEpochIs
<1>2. past[cepoch][k].seq \in Nat /\ past[cepoch][k].content \in Contents
    BY <1>1, StateIs
<1>3. ShownBag(past[cepoch][k].content) \in [ShownRows -> Nat]
    BY <1>2, ShownBagIs
<1>4. past[cepoch][k].seq <= lastSeq /\ lastSeq \in Nat
    BY <1>1 DEF LogInv, LogTypeOK
<1>. QED
    BY <1>1, <1>2, <1>3, <1>4 DEF CopyOf, Copy, WasShown

\* Handing out keeps the client where the copy is.
LEMMA HandOutKeeps ==
    ASSUME LogInv, ClientInv, HandOut, UNCHANGED serverVars
    PROVE  ClientInv'
<1>1. /\ queue # <<>> /\ queue' = Tail(queue)
      /\ UNCHANGED <<cstate, cepoch, tail, snap, epoch, lastSeq, past, log, frontier>>
    BY DEF HandOut, serverVars, viewVars
<1>2. ClientTypeOK
    BY DEF ClientInv
<1>3. queue \in Seq(Event) /\ queue' \in Seq(Event)
    BY <1>1, <1>2 DEF ClientTypeOK
<1>4. cstate # "reading"
    BY <1>1 DEF ClientInv
<1>5. CASE Unmoved
  <2>1. queue' = <<>>
      BY <1>1, <1>5 DEF Unmoved
  <2>2. copy' = copy /\ cursor' = cursor /\ cstate # "following"
      BY <1>5 DEF Unmoved
  <2>3. ClientTypeOK'
      BY <1>1, <1>2, <1>3, <2>2 DEF ClientTypeOK
  <2>4. copy.epoch # 0 => WasShown(copy.epoch, copy.seq, copy.rows)'
      BY <2>2, SameShown DEF ClientInv
  <2>. QED
      BY <1>1, <1>4, <2>1, <2>2, <2>3, <2>4 DEF ClientInv
<1>6. ASSUME cepoch # 0, NEW k, MovesTo(k), FollowsFrom(k)' PROVE ClientInv'
  <2>1. /\ cstate = "following" /\ k \in DOMAIN past[cepoch]
        /\ copy' = CopyOf(k) /\ cursor' = past[cepoch][k].seq
      BY <1>6 DEF MovesTo
  <2>2. /\ CopyOf(k) \in Copy
        /\ CopyOf(k).epoch = cepoch /\ CopyOf(k).seq = past[cepoch][k].seq
        /\ CopyOf(k).rows = ShownBag(past[cepoch][k].content)
        /\ WasShown(cepoch, past[cepoch][k].seq, ShownBag(past[cepoch][k].content))
        /\ past[cepoch][k].seq \in 0..lastSeq
      BY <1>2, <1>6, <2>1, CopyOfIs
  <2>3. ClientTypeOK'
      BY <1>1, <1>2, <1>3, <2>1, <2>2 DEF ClientTypeOK
  <2>4. WasShown(copy.epoch, copy.seq, copy.rows)'
      BY <2>1, <2>2, <1>1 DEF WasShown
  <2>5. copy'.epoch # 0
      BY <2>1, <2>2, <1>6
  <2>. QED
      BY <1>1, <1>4, <1>6, <2>1, <2>3, <2>4, <2>5 DEF ClientInv
<1>7. ASSUME cepoch # 0, NEW k, StartsOverAt(k) PROVE ClientInv'
  <2>1. /\ MovesTo(k) /\ HasSnapshot /\ k \in DOMAIN past[cepoch]
        /\ copy' = CopyOf(k) /\ cursor' = past[cepoch][k].seq
      BY <1>7 DEF StartsOverAt, MovesTo
  <2>2. CopyOf(k).epoch = cepoch /\ CopyOf(k).seq = past[cepoch][k].seq
        /\ CopyOf(k).rows = ShownBag(past[cepoch][k].content)
      BY <1>2, <1>7, <2>1, CopyOfIs
  <2>3. tail = <<>> /\ queue' = <<>>
      BY <2>1, <1>1, <1>3 DEF HasSnapshot
  <2>4. TailFits(k + Len(queue))'
      BY <2>3, <1>1 DEF TailFits
  <2>5. FollowsFrom(k)'
      BY <2>1, <2>2, <2>3, <2>4, <1>1 DEF FollowsFrom
  <2>. QED
      BY <2>1, <2>5, <1>6, <1>7
<1>8. ASSUME cepoch # 0, NEW k, FollowsTo(k) PROVE ClientInv'
  <2>1. /\ MovesTo(k + 1) /\ k \in DOMAIN past[cepoch] /\ k + 1 \in DOMAIN past[cepoch]
        /\ FollowsFrom(k)
        /\ copy' = CopyOf(k + 1) /\ cursor' = past[cepoch][k + 1].seq
      BY <1>8 DEF FollowsTo, MovesTo
  <2>2. CopyOf(k + 1).epoch = cepoch /\ CopyOf(k + 1).seq = past[cepoch][k + 1].seq
        /\ CopyOf(k + 1).rows = ShownBag(past[cepoch][k + 1].content)
      BY <1>2, <1>8, <2>1, CopyOfIs
  <2>3. k \in Nat /\ Len(queue) \in Nat
      BY <2>1, <1>2, <1>3, <1>8, ClientEpochIs
  <2>4. Len(queue') = Len(queue) - 1 /\ \A n \in DOMAIN queue' : n + 1 \in DOMAIN queue /\ queue'[n] = queue[n + 1]
      BY <1>1, <1>3
  <2>5. ASSUME NEW n \in DOMAIN queue' PROVE LeadsOn(queue'[n], k + 1 + n - 1)
    <3>1. LeadsOn(queue[n + 1], k + (n + 1) - 1)
        BY <2>1, <2>4 DEF FollowsFrom
    <3>2. k + (n + 1) - 1 = k + 1 + n - 1
        BY <2>3, <1>3
    <3>. QED
        BY <3>1, <3>2, <2>4
  <2>6. (\A n \in DOMAIN queue : LeadsOn(queue[n], (k + 1) + n - 1))'
      BY <2>5, <1>1 DEF LeadsOn
  <2>7. TailFits((k + 1) + Len(queue))'
    <3>1. TailFits(k + Len(queue))
        BY <2>1 DEF FollowsFrom
    <3>2. (k + 1) + Len(queue') = k + Len(queue)
        BY <2>3, <2>4
    <3>. QED
        BY <3>1, <3>2, <1>1 DEF TailFits, LeadsOn, TransactionEvent
  <2>8. FollowsFrom(k + 1)'
      BY <2>1, <2>2, <2>6, <2>7, <1>1 DEF FollowsFrom
  <2>. QED
      BY <2>1, <2>8, <1>6, <1>8
<1>. QED
    BY <1>5, <1>7, <1>8, HandOutIs

-----------------------------------------------------------------------------
(* One fetch.                                                              *)

\* g is a whole transaction: the one that leads on from the j-th state.
TransactionAt(g, j) ==
    /\ g \in Seq(LoggedRow) /\ g # <<>>
    /\ LeadsOn(TransactionEvent(g), j)
    /\ \A n \in DOMAIN g : g[n].seq = past[cepoch][j].seq + n /\ g[n].lsn = Last(g).lsn
    /\ Last(g).lsn <= frontier
    /\ \A r \in log : r.seq > Last(g).seq => r.lsn > Last(g).lsn

\* The event that hands it out.
LEMMA TransactionEventIs ==
    ASSUME NEW g \in Seq(LoggedRow), g # <<>>, cepoch \in Nat
    PROVE  /\ TransactionEvent(g) \in Event
           /\ TransactionEvent(g).kind = "transaction"
           /\ TransactionEvent(g).cursor = Last(g).seq
           /\ TransactionEvent(g).deltas = Deltas(g, Len(g))
<1>1. Last(g) \in LoggedRow /\ Last(g).seq \in Nat
  <2>1. Last(g) \in LoggedRow
      BY DEF Last
  <2>. QED
      BY <2>1 DEF LoggedRow
<1>2. Deltas(g, Len(g)) = [k \in DOMAIN g |-> <<g[k].op, Shown(g[k].row)>>]
    BY DEF Deltas
<1>3. Deltas(g, Len(g)) \in Seq({"D", "I"} \X ShownRows)
  <2>1. ASSUME NEW k \in 1..Len(g) PROVE <<g[k].op, Shown(g[k].row)>> \in {"D", "I"} \X ShownRows
    <3>1. g[k] \in LoggedRow
        OBVIOUS
    <3>2. g[k].op \in {"D", "I"} /\ g[k].row \in Rows
        BY <3>1 DEF LoggedRow
    <3>3. Shown(g[k].row) \in ShownRows
        BY <3>2, NettingAssumption DEF NettingAssumption, Shown, ShownRows
    <3>. QED
        BY <3>2, <3>3
  <2>. QED
      BY <2>1 DEF Deltas
<1>. QED
    BY <1>1, <1>2, <1>3, NoRowsIs DEF TransactionEvent, Event, Kinds

\* The rows the log has between two states are one.
LEMMA LoggedTransaction ==
    ASSUME LogInv, populated, cepoch = epoch, NEW j \in DOMAIN past[epoch],
           j + 1 \in DOMAIN past[epoch],
           NEW m \in Nat, past[epoch][j + 1].seq = past[epoch][j].seq + m,
           NEW g, RowsAfter(g, log, past[epoch][j].seq, m)
    PROVE  TransactionAt(g, j)
<1>. DEFINE states == past[epoch]
            i == j + 1
<1>1. /\ lastSeq \in Nat /\ frontier \in Nat /\ log \subseteq LoggedRow
      /\ LogFits(log, states, lastSeq, frontier, content)
      /\ states \in Seq(PastState) /\ epoch \in Nat
    BY EpochIs DEF LogInv, LogTypeOK
<1>2. i \in 2..Len(states) /\ i - 1 = j
    BY <1>1
<1>3. states[i].seq = states[i - 1].seq + m /\ RowsAfter(g, log, states[i - 1].seq, m)
    BY <1>2
<1>. HIDE DEF i
<1>4. /\ m # 0
      /\ \A n \in 1..m : g[n].lsn = g[m].lsn
      /\ g[m].lsn <= frontier
      /\ \A r \in log : r.seq > states[i].seq => r.lsn > g[m].lsn
      /\ Applied(ShownBag(states[i - 1].content), Deltas(g, m)) = ShownBag(states[i].content)
    BY <1>1, <1>2, <1>3, LogLeads
<1>5. g \in [1..m -> log] /\ \A n \in 1..m : g[n].seq = states[j].seq + n
    BY DEF RowsAfter
<1>6. g \in Seq(LoggedRow) /\ Len(g) = m /\ g # <<>> /\ DOMAIN g = 1..m
  <2>1. g \in [1..m -> LoggedRow]
    <3>. HIDE DEF states
    <3>. QED
        BY <1>1, <1>5
  <2>2. g \in Seq(LoggedRow) /\ Len(g) = m /\ DOMAIN g = 1..m
      BY <2>1
  <2>3. g # <<>>
      BY <2>2, <1>4
  <2>. QED
      BY <2>2, <2>3
<1>7. Last(g) = g[m] /\ g[m].seq = states[i].seq
  <2>1. m \in 1..m
      BY <1>4
  <2>. QED
      BY <2>1, <1>2, <1>3, <1>5, <1>6 DEF Last
<1>8. LeadsOn(TransactionEvent(g), j)
  <2>1. /\ TransactionEvent(g).kind = "transaction"
        /\ TransactionEvent(g).cursor = g[m].seq
        /\ TransactionEvent(g).deltas = Deltas(g, m)
      BY <1>1, <1>6, <1>7, TransactionEventIs
  <2>. QED
      BY <2>1, <1>2, <1>4, <1>7 DEF LeadsOn, i
<1>. QED
    BY <1>4, <1>5, <1>6, <1>7, <1>8 DEF TransactionAt

\* A page of nabla.changes is rows of the log, from the client's number on.
LEMMA PageIs ==
    ASSUME LogInv, populated, NEW after \in Ends, Verdict(after, epoch) = "ok",
           NEW maxRows \in Int
    PROVE  \E n \in Nat : /\ RowsAfter(Page(after, maxRows), log, after, n)
                          /\ n # 0 => after + n \in Ends
<1>. DEFINE rows == Served(after, maxRows)
            page == Page(after, maxRows)
<1>1. /\ lastSeq \in Nat /\ LogFits(log, past[epoch], lastSeq, frontier, content)
      /\ past[epoch] \in Seq(PastState)
    BY EpochIs DEF LogInv, LogTypeOK
<1>2. PICK first \in 0..lastSeq : InCommitOrder(log, first, lastSeq)
    BY <1>1 DEF LogFits
<1>3. PICK k \in DOMAIN past[epoch] : after = past[epoch][k].seq
    BY DEF Ends
<1>4. after \in Nat /\ after <= lastSeq
    BY <1>1, <1>3, StateIs DEF LogFits
<1>5. after \in first..lastSeq /\ first \in Nat
  <2>1. ~ Lagged(after)
    <3>1. Lagged(after) => Verdict(after, epoch) # "ok"
        BY DEF Verdict
    <3>. QED
        BY <3>1
  <2>2. Oldest = first + 1
      BY <1>1, <1>2, OldestIs
  <2>. QED
      BY <2>1, <2>2, <1>1, <1>4 DEF Lagged
<1>6. PICK n \in Nat : WholeAfter(rows, after, n)
    BY <1>1, <1>2, <1>5, ServedIs
<1>. HIDE DEF rows
<1>7. rows \subseteq log /\ NumberedFrom(rows, after, n)
    BY <1>6 DEF WholeAfter
<1>8. page \in [1..n -> rows] /\ \A k2 \in 1..n : page[k2].seq = after + k2
    BY <1>4, <1>7, BySeqIs DEF Page, rows
<1>9. ServesWhole(after, maxRows)
    BY <1>1, FitsServes
<1>10. ASSUME n # 0 PROVE after + n \in Ends
  <2>1. page # <<>> => Last(page).seq \in Ends
      BY <1>9 DEF ServesWhole
  <2>. HIDE DEF page
  <2>2. n \in 1..n /\ Len(page) = n /\ page # <<>>
      BY <1>8, <1>10
  <2>3. Last(page).seq = after + n
      BY <2>2, <1>8 DEF Last
  <2>. QED
      BY <2>1, <2>2, <2>3
<1>11. RowsAfter(page, log, after, n)
    BY <1>7, <1>8 DEF RowsAfter
<1>. QED
    BY <1>10, <1>11

\* How many rows lie between the k-th state and the j-th after it, and those of
\* the last step.
Cut(k, j) == past[epoch][k + j].seq - past[epoch][k].seq
Slice(all, k, j) == [n \in 1 .. Cut(k, j) - Cut(k, j - 1) |-> all[Cut(k, j - 1) + n]]

LEMMA CutsAre ==
    ASSUME LogInv, NEW k \in DOMAIN past[epoch], NEW p \in Nat, k + p \in DOMAIN past[epoch]
    PROVE  /\ \A j \in 0..p : k + j \in DOMAIN past[epoch] /\ Cut(k, j) \in Nat
           /\ Cut(k, 0) = 0
           /\ \A i, j \in 0..p : i < j => Cut(k, i) < Cut(k, j)
<1>. DEFINE states == past[epoch]
<1>1. states \in Seq(PastState) /\ InOrder(states)
    BY EpochIs DEF LogInv
<1>2. k \in Nat /\ states[k].seq \in Nat
    BY <1>1, StateIs
<1>3. ASSUME NEW j \in 0..p PROVE k + j \in DOMAIN states /\ states[k + j].seq \in Nat
  <2>1. k + j \in DOMAIN states
      BY <1>1
  <2>. QED
      BY <2>1, <1>1, StateIs
<1>4. ASSUME NEW i \in 0..p, NEW j \in 0..p, i < j PROVE states[k + i].seq < states[k + j].seq
  <2>1. k + i < k + j
      BY <1>2, <1>4
  <2>. QED
      BY <2>1, <1>1, <1>3 DEF InOrder
<1>5. Cut(k, 0) = 0
  <2>1. k + 0 = k
      BY <1>2
  <2>. QED
      BY <2>1, <1>2 DEF Cut
<1>6. ASSUME NEW i \in 0..p, NEW j \in 0..p, i < j PROVE Cut(k, i) < Cut(k, j)
    BY <1>2, <1>3, <1>4, <1>6 DEF Cut
<1>7. ASSUME NEW j \in 0..p PROVE Cut(k, j) \in Nat
  <2>1. j = 0 \/ 0 < j
      OBVIOUS
  <2>2. 0 < j => Cut(k, 0) < Cut(k, j)
      BY <1>6
  <2>3. Cut(k, j) \in Int
      BY <1>2, <1>3 DEF Cut
  <2>. QED
      BY <2>1, <2>2, <2>3, <1>5
<1>. QED
    BY <1>3, <1>5, <1>6, <1>7

\* Rows that are whole transactions one after the other, all but the first of
\* them still in the log, are grouped into them.
LEMMA SplitsUp ==
    ASSUME LogInv, cepoch = epoch, NEW k \in DOMAIN past[epoch],
           NEW p \in Nat, k + p \in DOMAIN past[epoch],
           NEW all \in [1 .. Cut(k, p) -> LoggedRow],
           \A n \in 1 .. Cut(k, p) : all[n].seq = past[epoch][k].seq + n,
           \A j \in 1..p : TransactionAt(Slice(all, k, j), k + j - 1),
           \A j \in 2..p : all[Cut(k, j)] \in log
    PROVE  /\ DOMAIN Groups(all) = 1..p
           /\ \A j \in 1..p : Groups(all)[j] = Slice(all, k, j)
<1>. DEFINE base == past[epoch][k].seq
            c == [j \in 0..p |-> Cut(k, j)]
            N == Cut(k, p)
<1>1. /\ \A j \in 0..p : k + j \in DOMAIN past[epoch] /\ Cut(k, j) \in Nat
      /\ Cut(k, 0) = 0
      /\ \A i, j \in 0..p : i < j => Cut(k, i) < Cut(k, j)
    BY CutsAre
<1>2. base \in Nat /\ k \in Nat /\ past[epoch] \in Seq(PastState)
    BY EpochIs, StateIs DEF LogInv
<1>3. N \in Nat
    BY <1>1
<1>4. Cuts(c, p, N)
    BY <1>1, <1>3 DEF Cuts
<1>5. \A j \in 0..p : c[j] = Cut(k, j)
    OBVIOUS
<1>6. ASSUME NEW j \in 1..p
      PROVE  /\ j \in 0..p /\ j - 1 \in 0..p
             /\ c[j] = Cut(k, j) /\ c[j - 1] = Cut(k, j - 1)
             /\ c[j - 1] \in Nat /\ c[j] \in Nat /\ c[j - 1] < c[j]
             /\ c[j] <= N /\ c[j] \in 1..N
             /\ base + c[j] = past[epoch][k + j].seq
  <2>1. j \in 0..p /\ j - 1 \in 0..p /\ p \in 0..p /\ j - 1 < j
      OBVIOUS
  <2>2. c[j - 1] < c[j] /\ c[j] \in Nat /\ c[j - 1] \in Nat
      BY <2>1, <1>1
  <2>3. c[j] <= N
    <3>1. CASE j = p
        BY <3>1, <2>1, <2>2
    <3>2. CASE j < p
        BY <3>2, <2>1, <2>2, <1>1, <1>3
    <3>. QED
        BY <3>1, <3>2
  <2>4. base + c[j] = past[epoch][k + j].seq
    <3>. DEFINE s == past[epoch][k + j].seq
    <3>1. s \in Nat
        BY <2>1, <1>1, <1>2, StateIs
    <3>2. c[j] = s - base
        BY <2>1 DEF Cut
    <3>. HIDE DEF s, base, c
    <3>3. base + c[j] = s
        BY <3>1, <3>2, <1>2
    <3>. QED
        BY <3>3 DEF s
  <2>. QED
      BY <2>1, <2>2, <2>3, <2>4, <1>3
<1>. HIDE DEF c, N, base
<1>7. ASSUME NEW j \in 1..p
      PROVE  /\ all[c[j]].lsn \in Nat
             /\ \A n \in c[j - 1] + 1 .. c[j] : all[n].lsn = all[c[j]].lsn
             /\ \A r \in log : r.seq > past[epoch][k + j].seq => r.lsn > all[c[j]].lsn
  <2>. DEFINE g == Slice(all, k, j)
              m == c[j] - c[j - 1]
              a == c[j - 1]
  <2>1. g = [n \in 1..m |-> all[a + n]]
      BY <1>6 DEF Slice
  <2>2. m \in Nat /\ m \in 1..m /\ a \in Nat /\ a + m = c[j]
      BY <1>6
  <2>3. /\ g # <<>> /\ g \in Seq(LoggedRow)
        /\ \A n \in DOMAIN g : g[n].lsn = Last(g).lsn
        /\ \A r \in log : r.seq > Last(g).seq => r.lsn > Last(g).lsn
      BY DEF TransactionAt
  <2>. HIDE DEF g, m
  <2>4. Last(g) = all[c[j]]
    <3>1. Len(g) = m
        BY <2>1, <2>2
    <3>2. Last(g) = g[m]
        BY <3>1 DEF Last
    <3>. QED
        BY <3>2, <2>1, <2>2
  <2>5. all[c[j]] \in LoggedRow /\ all[c[j]].seq = past[epoch][k + j].seq
    <3>1. c[j] \in 1..N
        BY <1>6
    <3>2. all[c[j]].seq = base + c[j] /\ all[c[j]] \in LoggedRow
        BY <3>1 DEF N, base
    <3>. QED
        BY <3>2, <1>6
  <2>6. ASSUME NEW n \in a + 1 .. c[j] PROVE all[n].lsn = all[c[j]].lsn
    <3>1. n - a \in 1..m /\ a + (n - a) = n
        BY <2>2
    <3>2. g[n - a] = all[n] /\ n - a \in DOMAIN g
        BY <3>1, <2>1
    <3>. QED
        BY <3>2, <2>3, <2>4
  <2>. QED
      BY <2>3, <2>4, <2>5, <2>6 DEF LoggedRow
<1>8. ASSUME NEW i \in 1..p, NEW j \in 1..p, i < j PROVE all[c[i]].lsn < all[c[j]].lsn
  <2>1. j \in 2..p
      BY <1>8
  <2>2. all[c[j]] \in log
      BY <2>1, <1>6
  <2>3. all[c[j]].seq = past[epoch][k + j].seq
    <3>1. c[j] \in 1..N
        BY <1>6
    <3>2. all[c[j]].seq = base + c[j]
        BY <3>1 DEF N, base
    <3>. QED
        BY <3>2, <1>6
  <2>4. base + c[i] = past[epoch][k + i].seq /\ base + c[j] = past[epoch][k + j].seq
      BY <1>6
  <2>5. c[i] < c[j]
    <3>1. i \in 0..p /\ j \in 0..p /\ c[i] = Cut(k, i) /\ c[j] = Cut(k, j)
        BY <1>6
    <3>2. Cut(k, i) < Cut(k, j)
        BY <3>1, <1>8, <1>1, Zenon
    <3>. QED
        BY <3>1, <3>2, Zenon
  <2>6. all[c[j]].seq > past[epoch][k + i].seq
    <3>1. c[i] \in Nat /\ c[j] \in Nat /\ base \in Nat
        BY <1>6, <1>2
    <3>2. base + c[i] < base + c[j]
      <4>1. \A x, y, z \in Nat : x < y => z + x < z + y
          OBVIOUS
      <4>. QED
          BY <2>5, <3>1, <4>1
    <3>. QED
        BY <3>2, <2>3, <2>4
  <2>7. all[c[j]].lsn > all[c[i]].lsn
      BY <2>2, <2>6, <1>7
  <2>. QED
      BY <2>7, <1>7
<1>9. RowsAfter(all, LoggedRow, base, N) /\ FallsInto(all, c, p, N)
    BY <1>7, <1>8 DEF N, base, RowsAfter, FallsInto
<1>10. /\ DOMAIN Groups(all) = 1..p
       /\ \A j \in 1..p : Groups(all)[j] = Part(all, c, j)
    BY <1>2, <1>4, <1>9, GroupsAre
<1>11. ASSUME NEW j \in 1..p PROVE Slice(all, k, j) = Part(all, c, j)
    BY <1>6 DEF Slice, Part
<1>. QED
    BY <1>10, <1>11

\* Where the client asks from: the end of a transaction, the one of the rows it
\* holds back if there are any.
Position(k) == IF tail = <<>> THEN k ELSE k + 1

LEMMA FetchAfterIs ==
    ASSUME LogInv, ClientTypeOK, cepoch = epoch, queue = <<>>,
           NEW k \in DOMAIN past[epoch], FollowsFrom(k)
    PROVE  /\ populated /\ k \in Nat
           /\ Position(k) \in DOMAIN past[epoch]
           /\ FetchAfter = past[epoch][Position(k)].seq /\ FetchAfter \in Ends
           /\ FetchAfter = past[epoch][k].seq + Len(tail)
           /\ tail # <<>> => TransactionAt(tail, k)
<1>1. /\ epoch \in Epochs /\ epoch \in Nat /\ past[epoch] \in Seq(PastState)
      /\ tail \in Seq(LoggedRow)
    BY EpochIs DEF LogInv, ClientTypeOK
<1>2. populated
  <2>1. past[epoch] # <<>>
      OBVIOUS
  <2>. QED
      BY <2>1, <1>1 DEF LogInv
<1>3. k \in Nat /\ past[epoch][k].seq \in Nat
    BY <1>1, StateIs
<1>4. /\ past[epoch][k].seq = cursor /\ TailFits(k)
  <2>1. k + Len(queue) = k
      BY <1>3
  <2>. QED
      BY <2>1 DEF FollowsFrom
<1>5. CASE tail = <<>>
  <2>1. FetchAfter = past[epoch][k].seq /\ Position(k) = k /\ Len(tail) = 0
      BY <1>4, <1>5 DEF FetchAfter, Position
  <2>. QED
      BY <2>1, <1>2, <1>3, <1>5 DEF Ends
<1>6. CASE tail # <<>>
  <2>1. /\ LeadsOn(TransactionEvent(tail), k)
        /\ \A n \in DOMAIN tail :
              tail[n].seq = past[cepoch][k].seq + n /\ tail[n].lsn = Last(tail).lsn
        /\ Last(tail).lsn <= frontier
        /\ \A r \in log : r.seq > Last(tail).seq => r.lsn > Last(tail).lsn
      BY <1>4, <1>6 DEF TailFits
  <2>2. TransactionAt(tail, k)
      BY <2>1, <1>1, <1>6 DEF TransactionAt
  <2>3. Len(tail) \in DOMAIN tail /\ Last(tail) = tail[Len(tail)]
      BY <1>1, <1>6 DEF Last
  <2>4. Last(tail).seq = past[epoch][k].seq + Len(tail)
      BY <2>1, <2>3
  <2>5. k + 1 \in DOMAIN past[epoch] /\ TransactionEvent(tail).cursor = past[epoch][k + 1].seq
      BY <2>1 DEF LeadsOn
  <2>6. TransactionEvent(tail).cursor = Last(tail).seq
      BY DEF TransactionEvent
  <2>7. FetchAfter = past[epoch][k + 1].seq /\ Position(k) = k + 1
      BY <2>5, <2>6, <1>6 DEF FetchAfter, Position
  <2>. QED
      BY <2>2, <2>4, <2>5, <2>6, <2>7, <1>2, <1>3 DEF Ends
<1>. QED
    BY <1>5, <1>6

\* What a fetch that is not refused brings ends p states on.
Brings(k, p, n) ==
    /\ k + p \in DOMAIN past[epoch]
    /\ RowsAfter(Page(FetchAfter, Batch), log, FetchAfter, n)
    /\ Cut(k, p) = Len(tail) + n
    /\ tail # <<>> => p # 0

LEMMA FetchBrings ==
    ASSUME LogInv, ClientTypeOK, cepoch = epoch, queue = <<>>,
           NEW k \in DOMAIN past[epoch], FollowsFrom(k),
           Verdict(FetchAfter, epoch) = "ok"
    PROVE  \E p, n \in Nat : Brings(k, p, n)
<1>. DEFINE states == past[epoch]
            z == Position(k)
<1>1. /\ populated /\ k \in Nat /\ z \in DOMAIN states
      /\ FetchAfter = states[z].seq /\ FetchAfter \in Ends
      /\ FetchAfter = states[k].seq + Len(tail)
    BY FetchAfterIs
<1>2. /\ states \in Seq(PastState) /\ InOrder(states)
      /\ Len(tail) \in Nat /\ (tail = <<>> => Len(tail) = 0)
      /\ Batch \in Int
    BY EpochIs, SubscriptionAssumption DEF LogInv, ClientTypeOK, SubscriptionAssumption
<1>3. PICK n \in Nat : /\ RowsAfter(Page(FetchAfter, Batch), log, FetchAfter, n)
                       /\ n # 0 => FetchAfter + n \in Ends
    BY <1>1, <1>2, PageIs
<1>4. states[k].seq \in Nat /\ states[z].seq \in Nat
    BY <1>1, <1>2, StateIs
<1>5. PICK y \in DOMAIN states : states[y].seq = FetchAfter + n /\ z <= y
  <2>1. CASE n = 0
    <3>1. FetchAfter + n = FetchAfter
        BY <2>1, <1>1, <1>4
    <3>2. z <= z
        BY <1>1, <1>2
    <3>. QED
        BY <3>1, <3>2, <1>1
  <2>2. CASE n # 0
    <3>1. PICK y \in DOMAIN states : states[y].seq = FetchAfter + n
        BY <2>2, <1>3 DEF Ends
    <3>2. states[z].seq < states[y].seq
        BY <2>2, <3>1, <1>1, <1>4
    <3>3. ~ (y < z)
      <4>1. y < z => states[y].seq < states[z].seq
          BY <1>1, <1>2 DEF InOrder
      <4>2. states[y].seq \in Nat
          BY <1>2, StateIs
      <4>. QED
          BY <4>1, <4>2, <3>2, <1>4
    <3>4. z <= y
        BY <3>3, <1>1, <1>2
    <3>. QED
        BY <3>1, <3>4
  <2>. QED
      BY <2>1, <2>2
<1>6. y \in Nat /\ z \in Nat /\ k <= z /\ (tail # <<>> => z = k + 1)
    BY <1>1, <1>2 DEF Position
<1>7. y - k \in Nat /\ k + (y - k) = y /\ (tail # <<>> => y - k # 0)
    BY <1>1, <1>5, <1>6
<1>8. Cut(k, y - k) = Len(tail) + n
  <2>1. Cut(k, y - k) = states[y].seq - states[k].seq
      BY <1>7 DEF Cut
  <2>2. states[y].seq = (states[k].seq + Len(tail)) + n
      BY <1>1, <1>5
  <2>. QED
      BY <2>1, <2>2, <1>2, <1>4
<1>. QED
    BY <1>3, <1>5, <1>7, <1>8 DEF Brings

\* The rows held back, and the page.
Fetched == tail \o Page(FetchAfter, Batch)

LEMMA FetchedIs ==
    ASSUME LogInv, ClientTypeOK, cepoch = epoch, queue = <<>>,
           NEW k \in DOMAIN past[epoch], FollowsFrom(k),
           NEW p \in Nat, NEW n \in Nat, Brings(k, p, n)
    PROVE  /\ Fetched \in [1 .. Cut(k, p) -> LoggedRow]
           /\ \A i \in 1 .. Cut(k, p) : Fetched[i].seq = past[epoch][k].seq + i
           /\ \A i \in 1 .. Len(tail) : Fetched[i] = tail[i]
           /\ \A i \in Len(tail) + 1 .. Cut(k, p) : Fetched[i] \in log
<1>. DEFINE t == tail
            g == Page(FetchAfter, Batch)
            a == Len(t)
            base == past[epoch][k].seq
<1>1. /\ t \in Seq(LoggedRow) /\ log \subseteq LoggedRow /\ a \in Nat
      /\ past[epoch] \in Seq(PastState)
    BY EpochIs DEF LogInv, LogTypeOK, ClientTypeOK
<1>2. base \in Nat
    BY <1>1, StateIs
<1>3. FetchAfter = base + a /\ (t # <<>> => TransactionAt(t, k))
    BY FetchAfterIs
<1>4. g \in [1..n -> log] /\ (\A i \in 1..n : g[i].seq = FetchAfter + i) /\ Cut(k, p) = a + n
    BY DEF Brings, RowsAfter
<1>5. ASSUME NEW i \in 1..a PROVE t[i].seq = base + i
    BY <1>1, <1>3 DEF TransactionAt
<1>6. Fetched = t \o g
    BY DEF Fetched
<1>. HIDE DEF t, g, base
<1>7. g \in Seq(LoggedRow) /\ Len(g) = n
    BY <1>1, <1>4
<1>8. /\ t \o g \in [1 .. a + n -> LoggedRow]
      /\ \A i \in 1..a : (t \o g)[i] = t[i]
      /\ \A i \in a + 1 .. a + n : (t \o g)[i] = g[i - a]
  <2>1. t \o g \in Seq(LoggedRow) /\ Len(t \o g) = a + n
      BY <1>1, <1>7
  <2>2. t \o g \in [1 .. a + n -> LoggedRow]
    <3>. DEFINE w == t \o g
    <3>1. w \in Seq(LoggedRow) /\ Len(w) = a + n
        BY <2>1
    <3>. HIDE DEF w
    <3>2. w \in [1 .. a + n -> LoggedRow]
        BY <3>1
    <3>. QED
        BY <3>2 DEF w
  <2>3. \A i \in 1..a : (t \o g)[i] = t[i]
      BY <1>1, <1>7
  <2>4. \A i \in a + 1 .. a + n : (t \o g)[i] = g[i - a]
      BY <1>1, <1>7
  <2>. QED
      BY <2>2, <2>3, <2>4
<1>9. ASSUME NEW i \in a + 1 .. a + n
      PROVE  (t \o g)[i] \in log /\ (t \o g)[i].seq = base + i
  <2>1. i - a \in 1..n /\ (base + a) + (i - a) = base + i
      BY <1>1, <1>2
  <2>2. g[i - a] \in log /\ g[i - a].seq = (base + a) + (i - a)
      BY <2>1, <1>3, <1>4
  <2>. QED
      BY <2>1, <2>2, <1>8
<1>10. ASSUME NEW i \in 1 .. a + n PROVE (t \o g)[i].seq = base + i
  <2>1. i \in 1..a \/ i \in a + 1 .. a + n
      BY <1>1
  <2>. QED
      BY <2>1, <1>5, <1>8, <1>9
<1>. QED
    BY <1>4, <1>6, <1>8, <1>9, <1>10 DEF t, base

\* They are whole transactions, that lead on from the state the copy has.
LEMMA FetchedTransactions ==
    ASSUME LogInv, ClientTypeOK, cepoch = epoch, queue = <<>>,
           NEW k \in DOMAIN past[epoch], FollowsFrom(k),
           NEW p \in Nat, NEW n \in Nat, Brings(k, p, n)
    PROVE  /\ DOMAIN Groups(Fetched) = 1..p
           /\ \A j \in 1..p : TransactionAt(Groups(Fetched)[j], k + j - 1)
<1>. DEFINE states == past[epoch]
            a == Len(tail)
            N == Cut(k, p)
<1>1. /\ Fetched \in [1..N -> LoggedRow]
      /\ \A i \in 1..N : Fetched[i].seq = states[k].seq + i
      /\ \A i \in 1..a : Fetched[i] = tail[i]
      /\ \A i \in a + 1 .. N : Fetched[i] \in log
    BY FetchedIs
<1>2. /\ k + p \in DOMAIN states /\ (tail # <<>> => p # 0)
    BY DEF Brings
<1>3. /\ \A j \in 0..p : k + j \in DOMAIN states /\ Cut(k, j) \in Nat
      /\ Cut(k, 0) = 0
      /\ \A i, j \in 0..p : i < j => Cut(k, i) < Cut(k, j)
    BY <1>2, CutsAre
<1>4. /\ populated /\ k \in Nat /\ (tail # <<>> => TransactionAt(tail, k))
      /\ tail \in Seq(LoggedRow) /\ a \in Nat
      /\ states \in Seq(PastState)
    BY FetchAfterIs, EpochIs DEF LogInv, ClientTypeOK
<1>5. ASSUME NEW j \in 0..p PROVE states[k + j].seq = states[k].seq + Cut(k, j)
  <2>1. states[k + j].seq \in Nat /\ states[k].seq \in Nat
      BY <1>3, <1>4, StateIs
  <2>. QED
      BY <2>1 DEF Cut
<1>6. ASSUME tail # <<>> PROVE Cut(k, 1) = a
  <2>1. /\ k + 1 \in DOMAIN states
        /\ TransactionEvent(tail).cursor = states[k + 1].seq
        /\ \A i \in DOMAIN tail : tail[i].seq = states[k].seq + i
      BY <1>4, <1>6 DEF TransactionAt, LeadsOn
  <2>2. TransactionEvent(tail).cursor = Last(tail).seq
      BY DEF TransactionEvent
  <2>3. a \in DOMAIN tail /\ Last(tail) = tail[a]
      BY <1>4, <1>6 DEF Last
  <2>4. states[k + 1].seq = states[k].seq + a /\ states[k].seq \in Nat
      BY <2>1, <2>2, <2>3, <1>4, StateIs
  <2>5. Cut(k, 1) = states[k + 1].seq - states[k].seq
      BY DEF Cut
  <2>. HIDE DEF states, a
  <2>. QED
      BY <2>4, <2>5, <1>4
<1>. HIDE DEF a, N, states
<1>7. ASSUME NEW j \in 1..p
      PROVE  /\ j \in 0..p /\ j - 1 \in 0..p /\ j - 1 < j
             /\ Cut(k, j - 1) \in Nat /\ Cut(k, j) \in Nat
             /\ Cut(k, j - 1) < Cut(k, j)
             /\ Cut(k, j) <= N /\ N \in Nat
  <2>1. j \in 0..p /\ j - 1 \in 0..p /\ p \in 0..p /\ j - 1 < j
      OBVIOUS
  <2>2. Cut(k, j - 1) < Cut(k, j) /\ Cut(k, j) \in Nat /\ Cut(k, j - 1) \in Nat /\ N \in Nat
      BY <2>1, <1>3 DEF N
  <2>3. Cut(k, j) <= N
    <3>1. CASE j = p
        BY <3>1, <2>2 DEF N
    <3>2. CASE j < p
      <4>1. Cut(k, j) < Cut(k, p)
          BY <3>2, <2>1, <1>3
      <4>. QED
          BY <4>1, <2>2 DEF N
    <3>. QED
        BY <3>1, <3>2
  <2>. QED
      BY <2>1, <2>2, <2>3
<1>8. ASSUME NEW j \in 1..p, a <= Cut(k, j - 1) PROVE TransactionAt(Slice(Fetched, k, j), k + j - 1)
  <2>. DEFINE i == k + j - 1
              b == Cut(k, j - 1)
              m == Cut(k, j) - b
              g == Slice(Fetched, k, j)
  <2>1. b \in Nat /\ m \in Nat /\ b + m <= N /\ N \in Nat
      BY <1>7
  <2>2. i = k + (j - 1) /\ i + 1 = k + j
      BY <1>4
  <2>3. /\ i \in DOMAIN states /\ i + 1 \in DOMAIN states
        /\ states[i].seq = states[k].seq + b /\ states[k].seq \in Nat
        /\ states[i + 1].seq = states[k].seq + Cut(k, j)
    <3>1. k + (j - 1) \in DOMAIN states /\ k + j \in DOMAIN states
        BY <1>3, <1>7
    <3>2. states[k + (j - 1)].seq = states[k].seq + b /\ states[k + j].seq = states[k].seq + Cut(k, j)
        BY <1>5, <1>7
    <3>3. states[k].seq \in Nat
        BY <1>4, StateIs DEF states
    <3>. QED
        BY <3>1, <3>2, <3>3, <2>2
  <2>4. states[i + 1].seq = states[i].seq + m
    <3>1. Cut(k, j) = b + m
        BY <1>7
    <3>. HIDE DEF b, m, i
    <3>. QED
        BY <3>1, <2>1, <2>3
  <2>5. g = [x \in 1..m |-> Fetched[b + x]]
      BY DEF Slice
  <2>. HIDE DEF b, m, i, g
  <2>6. ASSUME NEW x \in 1..m
        PROVE  Fetched[b + x] \in log /\ Fetched[b + x].seq = states[i].seq + x
    <3>1. b + x \in a + 1 .. N /\ b + x \in 1..N
        BY <2>1, <1>4, <1>8 DEF a, b
    <3>2. Fetched[b + x] \in log /\ Fetched[b + x].seq = states[k].seq + (b + x)
        BY <3>1, <1>1
    <3>. QED
        BY <3>2, <2>1, <2>3
  <2>7. RowsAfter(g, log, states[i].seq, m)
      BY <2>5, <2>6 DEF RowsAfter
  <2>8. TransactionAt(g, i)
      BY <2>1, <2>3, <2>4, <2>7, <1>4, LoggedTransaction DEF states
  <2>. QED
      BY <2>8 DEF i, g
<1>9. ASSUME NEW j \in 1..p, j # 1 \/ tail = <<>> PROVE a <= Cut(k, j - 1)
  <2>1. CASE tail = <<>>
      BY <2>1, <1>7 DEF a
  <2>2. CASE tail # <<>>
    <3>1. 1 \in 0..p /\ j - 1 \in 0..p /\ (1 = j - 1 \/ 1 < j - 1)
        BY <2>2, <1>9
    <3>2. Cut(k, 1) = a /\ a \in Nat
        BY <2>2, <1>4, <1>6 DEF a
    <3>3. Cut(k, 1) = Cut(k, j - 1) \/ Cut(k, 1) < Cut(k, j - 1)
        BY <3>1, <1>3
    <3>. QED
        BY <3>2, <3>3, <1>7
  <2>. QED
      BY <2>1, <2>2
<1>10. ASSUME NEW j \in 1..p PROVE TransactionAt(Slice(Fetched, k, j), k + j - 1)
  <2>1. CASE j # 1 \/ tail = <<>>
      BY <2>1, <1>8, <1>9
  <2>2. CASE j = 1 /\ tail # <<>>
    <3>1. Cut(k, j) = a /\ Cut(k, j - 1) = 0 /\ k + j - 1 = k
        BY <2>2, <1>3, <1>4, <1>6
    <3>2. a - 0 = a /\ \A x \in 1..a : 0 + x = x
        BY <1>4
    <3>3. Slice(Fetched, k, j) = [x \in 1..a |-> Fetched[x]]
        BY <3>1, <3>2 DEF Slice
    <3>4. [x \in 1..a |-> Fetched[x]] = [x \in 1..a |-> tail[x]]
        BY <1>1
    <3>5. [x \in 1..a |-> tail[x]] = tail
        BY <1>4 DEF a
    <3>6. Slice(Fetched, k, j) = tail
        BY <3>3, <3>4, <3>5
    <3>. QED
        BY <3>1, <3>6, <2>2, <1>4
  <2>. QED
      BY <2>1, <2>2
<1>11. ASSUME NEW j \in 2..p PROVE Fetched[Cut(k, j)] \in log
  <2>1. j \in 1..p /\ j # 1
      OBVIOUS
  <2>2. a <= Cut(k, j - 1) /\ a \in Nat
      BY <2>1, <1>4, <1>9 DEF a
  <2>3. /\ Cut(k, j - 1) \in Nat /\ Cut(k, j) \in Nat /\ N \in Nat
        /\ Cut(k, j - 1) < Cut(k, j) /\ Cut(k, j) <= N
      BY <2>1, <1>7
  <2>4. Cut(k, j) \in a + 1 .. N
      BY <2>2, <2>3
  <2>. QED
      BY <2>4, <1>1
<1>12. /\ DOMAIN Groups(Fetched) = 1..p
       /\ \A j \in 1..p : Groups(Fetched)[j] = Slice(Fetched, k, j)
    BY <1>1, <1>2, <1>10, <1>11, SplitsUp DEF N, states
<1>. QED
    BY <1>10, <1>12

\* The first q transactions become events, and the next one may be held back.
HandsOver(groups, p, q) ==
    /\ queue' = [n \in 1..q |-> TransactionEvent(groups[n])]
    /\ q \in Nat
    /\ \/ q = p /\ tail' = <<>>
       \/ q + 1 = p /\ tail' = groups[p]

LEMMA TakePageIs ==
    ASSUME NEW p \in Nat, Groups(Fetched) \in Seq(Seq(LoggedRow)), Len(Groups(Fetched)) = p,
           TakePage(Page(FetchAfter, Batch))
    PROVE  \E q : HandsOver(Groups(Fetched), p, q)
<1>. DEFINE groups == Groups(Fetched)
            held == Full(Page(FetchAfter, Batch)) /\ groups # <<>>
            whole == IF held THEN Front(groups) ELSE groups
<1>1. /\ tail' = IF held THEN Last(groups) ELSE <<>>
      /\ queue' = [n \in DOMAIN whole |-> TransactionEvent(whole[n])]
    BY DEF TakePage, Fetched
<1>2. groups \in Seq(Seq(LoggedRow)) /\ Len(groups) = p
    OBVIOUS
<1>. HIDE DEF groups
<1>3. CASE held
  <2>1. whole = Front(groups) /\ tail' = Last(groups) /\ groups # <<>>
      BY <1>1, <1>3
  <2>2. p - 1 \in Nat /\ p \in 1..p /\ (p - 1) + 1 = p
      BY <1>2, <2>1
  <2>3. Last(groups) = groups[p]
      BY <1>2 DEF Last
  <2>4. Front(groups) = [n \in 1 .. p - 1 |-> groups[n]]
    <3>1. Front(groups) = SubSeq(groups, 1, p - 1)
        BY <1>2 DEF Front
    <3>. QED
        BY <3>1, <1>2, <2>2
  <2>. HIDE DEF whole, held
  <2>5. queue' = [n \in 1 .. p - 1 |-> TransactionEvent(groups[n])]
      BY <1>1, <2>1, <2>4
  <2>6. HandsOver(groups, p, p - 1)
      BY <2>1, <2>2, <2>3, <2>5 DEF HandsOver
  <2>. QED
      BY <2>6 DEF groups
<1>4. CASE ~held
  <2>1. whole = groups /\ tail' = <<>> /\ DOMAIN groups = 1..p
      BY <1>1, <1>2, <1>4
  <2>. HIDE DEF whole, held
  <2>2. HandsOver(groups, p, p)
      BY <1>1, <2>1 DEF HandsOver
  <2>. QED
      BY <2>2 DEF groups
<1>. QED
    BY <1>3, <1>4

LEMMA TakePageKeeps ==
    ASSUME LogInv, ClientInv, cstate = "following", queue = <<>>,
           Verdict(FetchAfter, cepoch) = "ok", TakePage(Page(FetchAfter, Batch)),
           UNCHANGED <<cepoch, cursor, snap, copy, losses>>, UNCHANGED serverVars
    PROVE  ClientInv'
<1>1. UNCHANGED <<cstate, cepoch, cursor, snap, copy, epoch, lastSeq, past, log, frontier>>
    BY DEF TakePage, serverVars, viewVars
<1>2. ClientTypeOK
    BY DEF ClientInv
<1>3. cepoch # 0 /\ \E k \in DOMAIN past[cepoch] : FollowsFrom(k)
  <2>1. ~HasSnapshot
      BY DEF HasSnapshot
  <2>. QED
      BY <2>1 DEF ClientInv
<1>4. cepoch = epoch
    BY DEF Verdict, LogInv, LogTypeOK, LogStatuses
<1>5. PICK k \in DOMAIN past[epoch] : FollowsFrom(k)
    BY <1>3, <1>4
<1>6. Verdict(FetchAfter, epoch) = "ok"
    BY <1>4
<1>7. PICK p \in Nat, n \in Nat : Brings(k, p, n)
    BY <1>2, <1>4, <1>5, <1>6, FetchBrings
<1>. DEFINE groups == Groups(Fetched)
<1>8. /\ DOMAIN groups = 1..p
      /\ \A j \in 1..p : TransactionAt(groups[j], k + j - 1)
    BY <1>2, <1>4, <1>5, <1>7, FetchedTransactions
<1>9. \A j \in 1..p : groups[j] \in Seq(LoggedRow) /\ groups[j] # <<>>
    BY <1>8 DEF TransactionAt
<1>10. groups \in Seq(Seq(LoggedRow)) /\ Len(groups) = p
  <2>1. groups = [j \in DOMAIN groups |-> groups[j]]
      BY DEF Groups
  <2>. HIDE DEF groups
  <2>. QED
      BY <2>1, <1>8, <1>9
<1>11. PICK q : HandsOver(groups, p, q)
    BY <1>10, TakePageIs
<1>. HIDE DEF groups
<1>12. /\ q \in Nat /\ q <= p
       /\ queue' = [i \in 1..q |-> TransactionEvent(groups[i])]
       /\ (q = p /\ tail' = <<>>) \/ (q + 1 = p /\ tail' = groups[p])
    BY <1>11 DEF HandsOver
<1>13. cepoch \in Nat /\ cepoch \in 0..epoch /\ k \in Nat
    BY <1>2, <1>3, <1>4, <1>5, ClientEpochIs
<1>14. ASSUME NEW i \in 1..q PROVE i \in 1..p /\ TransactionEvent(groups[i]) \in Event
  <2>1. i \in 1..p
      BY <1>12
  <2>. QED
      BY <2>1, <1>9, <1>13, TransactionEventIs
<1>15. queue' \in Seq(Event) /\ Len(queue') = q /\ DOMAIN queue' = 1..q
    BY <1>12, <1>14
<1>16. tail' \in Seq(LoggedRow)
  <2>1. CASE tail' = <<>>
      BY <2>1
  <2>2. CASE q + 1 = p /\ tail' = groups[p]
    <3>1. p \in 1..p
        BY <2>2, <1>12
    <3>. QED
        BY <3>1, <2>2, <1>9
  <2>. QED
      BY <2>1, <2>2, <1>12
<1>17. ClientTypeOK'
    BY <1>1, <1>2, <1>15, <1>16 DEF ClientTypeOK
<1>18. ASSUME NEW i \in DOMAIN queue' PROVE LeadsOn(queue'[i], k + i - 1)
  <2>1. i \in 1..p /\ queue'[i] = TransactionEvent(groups[i])
      BY <1>12, <1>14, <1>15
  <2>2. LeadsOn(TransactionEvent(groups[i]), k + i - 1)
      BY <2>1, <1>8 DEF TransactionAt
  <2>. QED
      BY <2>1, <2>2
<1>19. (\A i \in DOMAIN queue : LeadsOn(queue[i], k + i - 1))'
    BY <1>1, <1>18 DEF LeadsOn
<1>20. TailFits(k + Len(queue))'
  <2>1. CASE tail' = <<>>
      BY <2>1 DEF TailFits
  <2>2. CASE q + 1 = p /\ tail' = groups[p]
    <3>1. p \in 1..p /\ k + p - 1 = k + Len(queue')
        BY <2>2, <1>12, <1>13, <1>15
    <3>2. TransactionAt(tail', k + Len(queue'))
        BY <3>1, <2>2, <1>8
    <3>. QED
        BY <3>2, <1>1 DEF TransactionAt, TailFits, LeadsOn, TransactionEvent
  <2>. QED
      BY <2>1, <2>2, <1>12
<1>21. FollowsFrom(k)'
    BY <1>1, <1>5, <1>19, <1>20 DEF FollowsFrom
<1>22. copy.epoch # 0 => WasShown(copy.epoch, copy.seq, copy.rows)'
    BY <1>1, SameShown DEF ClientInv
<1>. QED
    BY <1>1, <1>3, <1>4, <1>5, <1>17, <1>21, <1>22 DEF ClientInv

LEMMA FetchKeeps ==
    ASSUME LogInv, ClientInv, Fetch, UNCHANGED serverVars
    PROVE  ClientInv'
<1>1. /\ cstate = "following" /\ queue = <<>>
      /\ UNCHANGED <<cepoch, cursor, snap, copy, losses, epoch, lastSeq, past, log, frontier>>
    BY DEF Fetch, serverVars, viewVars
<1>2. \/ Verdict(FetchAfter, cepoch) = "ok" /\ TakePage(Page(FetchAfter, Batch))
      \/ StartOver
      \/ UNCHANGED <<tail, queue, cstate>>
    BY DEF Fetch
<1>3. ClientTypeOK
    BY DEF ClientInv
<1>4. copy.epoch # 0 => WasShown(copy.epoch, copy.seq, copy.rows)'
    BY <1>1, SameShown DEF ClientInv
<1>5. CASE Verdict(FetchAfter, cepoch) = "ok" /\ TakePage(Page(FetchAfter, Batch))
    BY <1>1, <1>5, TakePageKeeps
<1>6. CASE StartOver
  <2>1. queue' = <<Resync>> /\ tail' = <<>> /\ cstate' = "bootstrap"
      BY <1>6 DEF StartOver
  <2>2. ClientTypeOK'
      BY <2>1, <1>1, <1>3, ResyncIs DEF ClientTypeOK
  <2>. QED
      BY <2>1, <2>2, <1>1, <1>4 DEF ClientInv
<1>7. CASE UNCHANGED <<tail, queue, cstate>>
  <2>1. ClientTypeOK'
      BY <1>1, <1>3, <1>7 DEF ClientTypeOK
  <2>2. cepoch # 0 /\ \E k \in DOMAIN past[cepoch] : FollowsFrom(k)
    <3>1. ~HasSnapshot
        BY <1>1 DEF HasSnapshot
    <3>. QED
        BY <3>1, <1>1 DEF ClientInv
  <2>3. PICK k \in DOMAIN past[cepoch] : FollowsFrom(k)
      BY <2>2
  <2>4. FollowsFrom(k)'
      BY <2>3, <1>1, <1>7 DEF FollowsFrom, TailFits, LeadsOn, TransactionEvent
  <2>. QED
      BY <2>1, <2>2, <2>4, <1>1, <1>4, <1>7 DEF ClientInv
<1>. QED
    BY <1>2, <1>5, <1>6, <1>7

-----------------------------------------------------------------------------
(* The invariant.                                                          *)

LEMMA ClientInvStep == LogInv /\ LogInv' /\ ClientInv /\ [SubNext]_subVars => ClientInv'
<1>. SUFFICES ASSUME LogInv, LogInv', ClientInv, [SubNext]_subVars PROVE ClientInv'
    OBVIOUS
<1>1. CASE ServerNext /\ UNCHANGED clientVars
    BY <1>1, ServerKeepsClient
<1>2. CASE ClientNext /\ UNCHANGED serverVars
    BY <1>2, HandOutKeeps, LoseConnectionKeeps, ReconnectKeeps, BootstrapReadsKeeps,
       BootstrapEndsKeeps, FetchKeeps DEF ClientNext
<1>3. CASE UNCHANGED subVars
  <2>1. /\ UNCHANGED <<cstate, cepoch, cursor, tail, queue, snap, copy>>
        /\ UNCHANGED <<epoch, frontier, lastSeq, log, past>>
      BY <1>3 DEF subVars, serverVars, viewVars, clientVars
  <2>2. ClientTypeOK'
      BY <2>1 DEF ClientInv, ClientTypeOK
  <2>3. \A e, seq, rows : WasShown(e, seq, rows)' <=> WasShown(e, seq, rows)
      BY <2>1 DEF WasShown
  <2>4. \A e, seq : NotBack(e, seq)' <=> NotBack(e, seq)
      BY <2>1 DEF NotBack
  <2>5. HasSnapshot' <=> HasSnapshot
      BY <2>1, <2>3, <2>4 DEF HasSnapshot
  <2>6. \A event, k : LeadsOn(event, k)' <=> LeadsOn(event, k)
      BY <2>1 DEF LeadsOn
  <2>7. ASSUME NEW k, FollowsFrom(k) PROVE FollowsFrom(k)'
    <3>1. TailFits(k + Len(queue))'
        BY <2>1, <2>6, <2>7 DEF FollowsFrom, TailFits, TransactionEvent
    <3>. QED
        BY <2>1, <2>6, <2>7, <3>1 DEF FollowsFrom
  <2>. QED
      BY <2>1, <2>2, <2>3, <2>4, <2>5, <2>7 DEF ClientInv
<1>. QED
    BY <1>1, <1>2, <1>3 DEF SubNext

\* nabla-client lib.rs: what the application has, plus what is ready or held
\* back for it, is at every step a state the view showed and the transactions
\* that followed it, one after the other.
THEOREM ClientStaysInStep == SubSpec => []SubInv
<1>1. SubInit => LogInv /\ ClientInv
    BY ClientInvInit, LogInvInit DEF SubInit
<1>2. LogInv /\ ClientInv /\ [SubNext]_subVars => LogInv' /\ ClientInv'
    BY LogInvStep, ClientInvStep
<1>. QED
    BY <1>1, <1>2, PTL DEF SubSpec, SubInv

\* nabla-client lib.rs: every D the application is handed names a row it has,
\* so its copy never holds a negative number of one; nor do cursors run ahead
\* of the view.
THEOREM ClientTypes == SubSpec => []SubTypeOK
<1>1. LogInv /\ ClientInv => SubTypeOK
  <2>. SUFFICES ASSUME LogInv, ClientInv PROVE SubTypeOK
      OBVIOUS
  <2>1. /\ status \in LogStatuses /\ epoch \in Epochs /\ content \in Contents
        /\ log \subseteq LoggedRow /\ lastSeq \in Nat /\ past \in [Epochs -> Seq(PastState)]
      BY EpochIs DEF LogInv, LogTypeOK
  <2>2. ClientTypeOK
      BY DEF ClientInv
  <2>3. cepoch \in Epochs \cup {0}
      BY <2>2, ClientEpochIs
  <2>4. \A k \in DOMAIN tail : tail[k] \in LoggedRow
      BY <2>2 DEF ClientTypeOK
  <2>5. ASSUME NEW k \in DOMAIN queue
        PROVE  queue[k].kind \in Kinds /\ queue[k].cursor \in 0..lastSeq
    <3>1. queue \in Seq(Event) /\ queue[k].kind \in Kinds
      <4>1. queue \in Seq(Event)
          BY <2>2 DEF ClientTypeOK
      <4>2. queue[k] \in Event
          BY <4>1
      <4>. QED
          BY <4>1, <4>2 DEF Event
    <3>2. CASE cstate # "following"
      <4>1. queue = <<Resync>>
          BY <2>5, <3>2 DEF ClientInv
      <4>2. queue[k].cursor = 0
          BY <4>1, <2>5 DEF Resync
      <4>. QED
          BY <4>2, <3>1, <2>1
    <3>3. CASE HasSnapshot
      <4>1. k = 1
          BY <2>5, <3>1, <3>3 DEF HasSnapshot
      <4>2. queue[k].cursor = cursor
          BY <4>1, <3>3 DEF HasSnapshot
      <4>. QED
          BY <4>2, <3>1, <2>2 DEF ClientTypeOK
    <3>4. CASE cepoch # 0 /\ \E j \in DOMAIN past[cepoch] : FollowsFrom(j)
      <4>1. PICK j \in DOMAIN past[cepoch] : FollowsFrom(j)
          BY <3>4
      <4>2. LeadsOn(queue[k], j + k - 1)
          BY <4>1, <2>5 DEF FollowsFrom
      <4>. DEFINE i == j + k - 1 + 1
      <4>3. i \in DOMAIN past[cepoch] /\ queue[k].cursor = past[cepoch][i].seq
          BY <4>2 DEF LeadsOn
      <4>. HIDE DEF i
      <4>4. past[cepoch][i].seq \in 0..lastSeq
          BY <4>3, <2>2, <3>4, CopyOfIs
      <4>. QED
          BY <4>3, <4>4, <3>1
    <3>. QED
        BY <3>2, <3>3, <3>4 DEF ClientInv
  <2>6. copy.rows \in [ShownRows -> 0..Cardinality(Ids)]
    <3>1. CASE copy.epoch = 0
      <4>1. copy.rows = NoRows
          BY <3>1 DEF ClientInv
      <4>2. Cardinality(Ids) \in Nat
          BY NettingAssumption, FS_CardinalityType DEF NettingAssumption
      <4>. QED
          BY <4>1, <4>2 DEF NoRows
    <3>2. CASE copy.epoch # 0
      <4>1. copy.epoch \in Epochs /\ WasShown(copy.epoch, copy.seq, copy.rows)
        <5>1. WasShown(copy.epoch, copy.seq, copy.rows)
            BY <3>2 DEF ClientInv
        <5>2. epoch \in 1..MaxRefreshes + 1 /\ epoch \in Nat /\ MaxRefreshes \in Nat
            BY EpochIs, DeltaLogAssumption DEF LogInv, Epochs, DeltaLogAssumption
        <5>3. copy.epoch \in 1..epoch
            BY <5>1 DEF WasShown
        <5>4. copy.epoch \in 1..MaxRefreshes + 1
            BY <5>2, <5>3
        <5>. QED
            BY <5>1, <5>4 DEF Epochs
      <4>2. PICK k \in DOMAIN past[copy.epoch] :
                ShownBag(past[copy.epoch][k].content) = copy.rows
          BY <4>1 DEF WasShown
      <4>3. past[copy.epoch][k].content \in Contents
          BY <4>1, <4>2, <2>1, StateIs
      <4>. QED
          BY <4>2, <4>3, ShownBagIs
    <3>. QED
        BY <3>1, <3>2
  <2>. QED
      BY <2>1, <2>2, <2>3, <2>4, <2>5, <2>6 DEF SubTypeOK, ClientTypeOK
<1>. QED
    BY <1>1, ClientStaysInStep, PTL DEF SubInv

-----------------------------------------------------------------------------
(* What following a view promises.                                         *)

\* A number belongs to one state only.
LEMMA OneState ==
    ASSUME NEW states \in Seq(PastState), InOrder(states), NEW k \in DOMAIN states
    PROVE  (CHOOSE j \in DOMAIN states : states[j].seq = states[k].seq) = k
<1>. DEFINE j == CHOOSE i \in DOMAIN states : states[i].seq = states[k].seq
<1>1. j \in DOMAIN states /\ states[j].seq = states[k].seq
    OBVIOUS
<1>. HIDE DEF j
<1>2. j \in Nat /\ k \in Nat /\ states[k].seq \in Nat
    BY <1>1, StateIs
<1>3. ~ (j < k) /\ ~ (k < j)
  <2>1. j < k => states[j].seq < states[k].seq
      BY <1>1 DEF InOrder
  <2>2. k < j => states[k].seq < states[j].seq
      BY <1>1 DEF InOrder
  <2>. QED
      BY <2>1, <2>2, <1>1, <1>2
<1>. QED
    BY <1>2, <1>3 DEF j

\* The mapping: what the view showed so far, and which of it the copy is.
Shows == [e \in Epochs |-> [k \in DOMAIN past[e] |-> ShownBag(past[e][k].content)]]
At == IF copy.epoch = 0 THEN <<0, 0>> ELSE <<copy.epoch, StateIndex(copy.epoch, copy.seq)>>

\* A server step shows more, and the copy stays where it is.
LEMMA ServerShows ==
    ASSUME LogInv, LogInv', ClientInv, ServerNext, UNCHANGED clientVars
    PROVE  Followed!Show
<1>1. ServerGrew
    BY ServerGrows
<1>2. /\ past \in [Epochs -> Seq(PastState)] /\ past' \in [Epochs -> Seq(PastState)]
      /\ \A e \in Epochs : InOrder(past[e]) /\ InOrder(past'[e])
    BY DEF LogInv, LogTypeOK
<1>3. copy' = copy
    BY DEF clientVars
<1>4. ASSUME NEW e \in Epochs
      PROVE  /\ Len(Shows[e]) <= Len(Shows'[e])
             /\ \A k \in DOMAIN Shows[e] : Shows'[e][k] = Shows[e][k]
  <2>. DEFINE s == past[e]
              t == past'[e]
  <2>1. s \in Seq(PastState) /\ t \in Seq(PastState)
      BY <1>2
  <2>2. \A k \in DOMAIN s : k \in DOMAIN t /\ t[k] = s[k]
      BY <1>1 DEF ServerGrew, Grown
  <2>3. /\ Shows[e] = [k \in DOMAIN s |-> ShownBag(s[k].content)]
        /\ Shows'[e] = [k \in DOMAIN t |-> ShownBag(t[k].content)]
      BY DEF Shows, ShownBag
  <2>. HIDE DEF s, t
  <2>4. \A k \in DOMAIN Shows[e] : Shows'[e][k] = Shows[e][k]
      BY <2>2, <2>3
  <2>5. Len(Shows[e]) = Len(s) /\ Len(Shows'[e]) = Len(t)
      BY <2>1, <2>3
  <2>6. Len(s) <= Len(t)
    <3>1. Len(s) \in Nat /\ Len(t) \in Nat /\ DOMAIN s = 1..Len(s) /\ DOMAIN t = 1..Len(t)
        BY <2>1
    <3>2. Len(s) # 0 => Len(s) \in DOMAIN t
        BY <2>2, <3>1
    <3>. QED
        BY <3>1, <3>2
  <2>. QED
      BY <2>4, <2>5, <2>6
<1>5. At' = At
  <2>1. CASE copy.epoch = 0
      BY <2>1, <1>3 DEF At
  <2>2. CASE copy.epoch # 0
    <3>1. WasShown(copy.epoch, copy.seq, copy.rows)
        BY <2>2 DEF ClientInv
    <3>2. copy.epoch \in Epochs
      <4>1. epoch \in 1..MaxRefreshes + 1 /\ epoch \in Nat /\ MaxRefreshes \in Nat
          BY EpochIs, DeltaLogAssumption DEF LogInv, Epochs, DeltaLogAssumption
      <4>2. copy.epoch \in 1..epoch
          BY <3>1 DEF WasShown
      <4>3. copy.epoch \in 1..MaxRefreshes + 1
          BY <4>1, <4>2
      <4>. QED
          BY <4>3 DEF Epochs
    <3>3. PICK k \in DOMAIN past[copy.epoch] : past[copy.epoch][k].seq = copy.seq
        BY <3>1 DEF WasShown
    <3>4. k \in DOMAIN past'[copy.epoch] /\ past'[copy.epoch][k] = past[copy.epoch][k]
        BY <3>2, <3>3, <1>1 DEF ServerGrew, Grown
    <3>5. StateIndex(copy.epoch, copy.seq) = k
        BY <3>2, <3>3, <1>2, OneState DEF StateIndex
    <3>6. StateIndex(copy.epoch, copy.seq)' = k
      <4>. DEFINE t == past'[copy.epoch]
      <4>1. t \in Seq(PastState) /\ InOrder(t) /\ k \in DOMAIN t /\ t[k].seq = copy.seq
          BY <3>2, <3>3, <3>4, <1>2
      <4>. HIDE DEF t
      <4>2. (CHOOSE j \in DOMAIN t : t[j].seq = t[k].seq) = k
          BY <4>1, OneState
      <4>3. (CHOOSE j \in DOMAIN t : t[j].seq = copy.seq) = k
          BY <4>1, <4>2
      <4>. QED
          BY <4>3, <1>3 DEF t, StateIndex
    <3>. QED
        BY <3>5, <3>6, <1>3 DEF At
  <2>. QED
      BY <2>1, <2>2
<1>6. DOMAIN Shows = Epochs /\ DOMAIN Shows' = Epochs
    BY DEF Shows
<1>. QED
    BY <1>3, <1>4, <1>5, <1>6 DEF Followed!Show, Shows, At

\* Handing out moves the copy to the next state, or to one that is no older.
LEMMA HandOutFollows ==
    ASSUME LogInv, ClientInv, HandOut, UNCHANGED serverVars
    PROVE  \/ Followed!Follow
           \/ Followed!StartOver
           \/ UNCHANGED <<Shows, At, copy.rows>>
<1>1. past' = past /\ UNCHANGED Shows
    BY DEF serverVars, viewVars, Shows, ShownBag
<1>2. ClientTypeOK
    BY DEF ClientInv
<1>3. CASE Unmoved
  <2>1. copy' = copy
      BY <1>3 DEF Unmoved
  <2>2. At' = At
      BY <2>1, <1>1 DEF At, StateIndex
  <2>. QED
      BY <2>1, <2>2, <1>1
<1>4. ASSUME cepoch # 0, NEW k, MovesTo(k)
      PROVE  /\ cepoch \in Epochs /\ k \in DOMAIN past[cepoch] /\ past[cepoch] \in Seq(PastState)
             /\ InOrder(past[cepoch]) /\ k \in Nat /\ cepoch \in Nat
             /\ At' = <<cepoch, k>>
             /\ copy'.rows = Shows[cepoch][k]
             /\ cepoch \in DOMAIN Shows /\ k \in DOMAIN Shows[cepoch]
             /\ StateIndex(cepoch, past[cepoch][k].seq) = k
  <2>1. k \in DOMAIN past[cepoch] /\ copy' = CopyOf(k)
      BY <1>4 DEF MovesTo
  <2>2. cepoch \in Epochs /\ past[cepoch] \in Seq(PastState) /\ cepoch \in Nat
      BY <1>2, <1>4, ClientEpochIs
  <2>3. InOrder(past[cepoch])
      BY <2>2 DEF LogInv
  <2>4. copy'.epoch = cepoch /\ copy'.seq = past[cepoch][k].seq
        /\ copy'.rows = ShownBag(past[cepoch][k].content)
      BY <1>2, <1>4, <2>1, CopyOfIs
  <2>5. StateIndex(cepoch, past[cepoch][k].seq) = k
      BY <2>1, <2>2, <2>3, OneState DEF StateIndex
  <2>6. At' = <<cepoch, StateIndex(cepoch, past[cepoch][k].seq)>>
      BY <2>4, <1>1, <1>4 DEF At, StateIndex
  <2>. QED
      BY <2>1, <2>2, <2>3, <2>4, <2>5, <2>6 DEF Shows
<1>5. ASSUME cepoch # 0, NEW k, StartsOverAt(k) PROVE Followed!StartOver
  <2>1. MovesTo(k) /\ HasSnapshot /\ past[cepoch][k].seq = cursor
      BY <1>5 DEF StartsOverAt
  <2>2. /\ cepoch \in Epochs /\ k \in DOMAIN past[cepoch] /\ past[cepoch] \in Seq(PastState)
        /\ InOrder(past[cepoch]) /\ k \in Nat /\ cepoch \in Nat
        /\ At' = <<cepoch, k>>
        /\ copy'.rows = Shows[cepoch][k]
        /\ cepoch \in DOMAIN Shows /\ k \in DOMAIN Shows[cepoch]
      BY <2>1, <1>4, <1>5
  <2>3. copy.epoch < cepoch \/ (copy.epoch = cepoch /\ copy.seq <= cursor)
      BY <2>1 DEF HasSnapshot, NotBack
  <2>4. \/ At'[1] > At[1]
        \/ At'[1] = At[1] /\ At'[2] >= At[2]
    <3>1. CASE copy.epoch = 0
        BY <3>1, <2>2, <1>5 DEF At
    <3>2. CASE copy.epoch # 0 /\ copy.epoch < cepoch
        BY <3>2, <2>2 DEF At
    <3>3. CASE copy.epoch # 0 /\ copy.epoch = cepoch /\ copy.seq <= cursor
      <4>1. WasShown(copy.epoch, copy.seq, copy.rows)
          BY <3>3 DEF ClientInv
      <4>2. PICK j \in DOMAIN past[cepoch] : past[cepoch][j].seq = copy.seq
          BY <4>1, <3>3 DEF WasShown
      <4>3. StateIndex(copy.epoch, copy.seq) = j
          BY <4>2, <3>3, <2>2, OneState DEF StateIndex
      <4>4. ~ (k < j)
        <5>1. k < j => past[cepoch][k].seq < past[cepoch][j].seq
            BY <4>2, <2>2 DEF InOrder
        <5>2. past[cepoch][k].seq \in Nat /\ past[cepoch][j].seq \in Nat
            BY <4>2, <2>2, StateIs
        <5>. QED
            BY <5>1, <5>2, <4>2, <3>3, <2>1
      <4>5. j <= k
          BY <4>2, <4>4, <2>2
      <4>. QED
          BY <4>3, <4>5, <3>3, <2>2 DEF At
    <3>. QED
        BY <3>1, <3>2, <3>3, <2>3
  <2>5. /\ At'[1] \in DOMAIN Shows /\ At'[2] \in DOMAIN Shows[At'[1]]
        /\ copy'.rows = Shows[At'[1]][At'[2]]
      BY <2>2
  <2>. QED
      BY <2>4, <2>5, <1>1 DEF Followed!StartOver, Followed!IsState, Shows, At
<1>6. ASSUME cepoch # 0, NEW k, FollowsTo(k) PROVE Followed!Follow
  <2>1. MovesTo(k + 1) /\ k \in DOMAIN past[cepoch] /\ FollowsFrom(k)
      BY <1>6 DEF FollowsTo
  <2>2. /\ cepoch \in Epochs /\ past[cepoch] \in Seq(PastState)
        /\ InOrder(past[cepoch])
        /\ At' = <<cepoch, k + 1>>
        /\ copy'.rows = Shows[cepoch][k + 1]
        /\ cepoch \in DOMAIN Shows /\ k + 1 \in DOMAIN Shows[cepoch]
      BY <2>1, <1>4, <1>6
  <2>3. copy.epoch = cepoch /\ copy.seq = past[cepoch][k].seq
      BY <2>1 DEF FollowsFrom
  <2>4. StateIndex(copy.epoch, copy.seq) = k
      BY <2>1, <2>2, <2>3, OneState DEF StateIndex
  <2>5. At = <<cepoch, k>>
      BY <2>3, <2>4, <1>6 DEF At
  <2>6. At' = <<At[1], At[2] + 1>>
      BY <2>2, <2>5
  <2>7. /\ At'[1] \in DOMAIN Shows /\ At'[2] \in DOMAIN Shows[At'[1]]
        /\ copy'.rows = Shows[At'[1]][At'[2]]
      BY <2>2
  <2>. QED
      BY <2>6, <2>7, <1>1 DEF Followed!Follow, Followed!IsState, Shows, At
<1>. QED
    BY <1>3, <1>5, <1>6, HandOutIs

\* README "Subscribing from a client": the application's copy is always a state
\* the view showed; it moves to the very next one, with no transaction skipped,
\* split or applied twice, or starts over at one that is no older.
THEOREM ClientFollowsView == SubSpec => ImplementsFollowedView
<1>1. SubInit => Followed!FVInit
  <2>. SUFFICES ASSUME SubInit PROVE Followed!FVInit
      OBVIOUS
  <2>1. past = [e \in Epochs |-> <<>>] /\ copy = [epoch |-> 0, seq |-> 0, rows |-> NoRows]
      BY DEF SubInit, LogInit
  <2>2. \A e \in DOMAIN Shows : Shows[e] = <<>>
      BY <2>1 DEF Shows
  <2>3. At = <<0, 0>> /\ copy.rows = NoRows
      BY <2>1 DEF At
  <2>. QED
      BY <2>2, <2>3 DEF Followed!FVInit, Shows, At
<1>2. ASSUME LogInv, LogInv', ClientInv, [SubNext]_subVars
      PROVE  [Followed!FVNext]_(Followed!fvVars)
  <2>1. CASE ServerNext /\ UNCHANGED clientVars
      BY <2>1, <1>2, ServerShows DEF Followed!FVNext
  <2>2. ASSUME UNCHANGED <<copy, past>> PROVE UNCHANGED <<Shows, At, copy.rows>>
      BY <2>2 DEF Shows, At, StateIndex
  <2>3. UNCHANGED <<Shows, At, copy.rows>> => UNCHANGED Followed!fvVars
      BY DEF Followed!fvVars, Shows, At
  <2>4. CASE HandOut /\ UNCHANGED serverVars
      BY <2>4, <2>3, <1>2, HandOutFollows DEF Followed!FVNext
  <2>5. CASE /\ LoseConnection \/ Reconnect \/ BootstrapReads \/ BootstrapEnds \/ Fetch
             /\ UNCHANGED serverVars
    <3>1. copy' = copy
        BY <2>5 DEF LoseConnection, Reconnect, BootstrapReads, BootstrapEnds, Fetch
    <3>2. past' = past
        BY <2>5 DEF serverVars
    <3>. QED
        BY <3>1, <3>2, <2>2, <2>3
  <2>6. CASE UNCHANGED subVars
    <3>1. UNCHANGED <<copy, past>>
        BY <2>6 DEF subVars, serverVars, clientVars
    <3>. QED
        BY <3>1, <2>2, <2>3
  <2>. QED
      BY <1>2, <2>1, <2>4, <2>5, <2>6 DEF SubNext, ClientNext
<1>3. SubSpec => Followed!FVInit /\ [][Followed!FVNext]_(Followed!fvVars)
    BY <1>1, <1>2, ClientStaysInStep, PTL DEF SubSpec, SubInv
<1>. QED
    BY <1>3 DEF ImplementsFollowedView, Followed!FVSpec
=============================================================================
