---------------------------- MODULE DecoderProofs ---------------------------
(***************************************************************************)
(* Machine-checked theorems of module Decoder, for every set of tables,    *)
(* column lists and transactions: whatever fails and wherever a peek ends, *)
(* the decoder holds exactly what was sent, and what it gives to a round   *)
(* is whole transactions in commit order.                                  *)
(***************************************************************************)
EXTENDS Decoder, TLAPS, SequenceTheorems

-----------------------------------------------------------------------------
(* Sequences.                                                              *)

\* A function on 1..n is a sequence.
LEMMA FunctionIsSeq ==
    ASSUME NEW S, NEW n \in Nat, NEW f \in [1..n -> S]
    PROVE  f \in Seq(S) /\ Len(f) = n /\ DOMAIN f = 1..n
<1>1. f \in Seq(S)
    BY SeqDef
<1>. QED
    BY <1>1, LenProperties

\* One element after another makes a longer prefix.
LEMMA PrefixGrows ==
    ASSUME NEW S, NEW s \in Seq(S), NEW n \in Nat, n + 1 <= Len(s)
    PROVE  Append(SubSeq(s, 1, n), s[n + 1]) = SubSeq(s, 1, n + 1)
<1>1. \A i \in 1..n + 1 : s[i] \in S
    BY ElementOfSeq
<1>. DEFINE a == SubSeq(s, 1, n)
            b == SubSeq(s, 1, n + 1)
            c == Append(a, s[n + 1])
<1>2. a \in Seq(S) /\ Len(a) = n /\ \A i \in 1..n : a[i] = s[i]
    BY <1>1, SubSeqProperties
<1>3. b \in Seq(S) /\ Len(b) = n + 1 /\ \A i \in 1..n + 1 : b[i] = s[i]
    BY <1>1, SubSeqProperties
<1>4. c \in Seq(S) /\ Len(c) = n + 1
      /\ c[n + 1] = s[n + 1] /\ \A i \in 1..n : c[i] = a[i]
    BY <1>1, <1>2, AppendProperties
<1>. HIDE DEF a, b, c
<1>5. \A i \in 1..n + 1 : c[i] = b[i]
    BY <1>2, <1>3, <1>4
<1>6. c = b
    BY <1>3, <1>4, <1>5, SeqEqual
<1>. QED
    BY <1>6 DEF a, b, c

\* A list of whole transactions is a sequence, and one more makes it longer.
LEMMA WholeFromIs ==
    ASSUME NEW log, NEW after, NEW n \in Nat,
           NEW S, \A k \in 1..n : Whole(log, after + k) \in S
    PROVE  /\ WholeFrom(log, after, n) \in Seq(S)
           /\ Len(WholeFrom(log, after, n)) = n /\ DOMAIN WholeFrom(log, after, n) = 1..n
           /\ \A k \in 1..n : WholeFrom(log, after, n)[k] = Whole(log, after + k)
<1>1. WholeFrom(log, after, n) \in [1..n -> S]
    BY Zenon DEF WholeFrom
<1>2. \A k \in 1..n : WholeFrom(log, after, n)[k] = Whole(log, after + k)
    BY Zenon DEF WholeFrom
<1>. QED
    BY <1>1, <1>2, FunctionIsSeq

LEMMA WholeFromReads ==
    ASSUME NEW log, NEW after, NEW n \in Nat
    PROVE  /\ Len(WholeFrom(log, after, n)) = n /\ DOMAIN WholeFrom(log, after, n) = 1..n
           /\ \A k \in 1..n : WholeFrom(log, after, n)[k] = Whole(log, after + k)
<1>. DEFINE S == {Whole(log, after + k) : k \in 1..n}
<1>1. \A k \in 1..n : Whole(log, after + k) \in S
    OBVIOUS
<1>. HIDE DEF S
<1>. QED
    BY <1>1, WholeFromIs

LEMMA NoneIsWhole ==
    ASSUME NEW log, NEW after
    PROVE  WholeFrom(log, after, 0) = <<>>
<1>. DEFINE a == WholeFrom(log, after, 0)
<1>1. a \in Seq({}) /\ Len(a) = 0
    BY WholeFromIs
<1>. HIDE DEF a
<1>2. a = <<>>
    BY <1>1, EmptySeq
<1>. QED
    BY <1>2 DEF a

LEMMA WholeGrows ==
    ASSUME NEW log, NEW after \in Nat, NEW n \in Nat
    PROVE  Append(WholeFrom(log, after, n), Whole(log, after + n + 1))
             = WholeFrom(log, after, n + 1)
<1>. DEFINE S == {Whole(log, after + k) : k \in 1..n + 1}
            a == WholeFrom(log, after, n)
            b == WholeFrom(log, after, n + 1)
            c == Append(a, Whole(log, after + n + 1))
<1>1. n + 1 \in Nat /\ after + (n + 1) = after + n + 1
    OBVIOUS
<1>2. \A k \in 1..n + 1 : Whole(log, after + k) \in S
    OBVIOUS
<1>3. Whole(log, after + n + 1) \in S /\ \A k \in 1..n : Whole(log, after + k) \in S
    BY <1>1, <1>2
<1>. HIDE DEF S
<1>4. b \in Seq(S) /\ Len(b) = n + 1
      /\ \A k \in 1..n + 1 : b[k] = Whole(log, after + k)
  <2>1. ASSUME NEW m \in Nat, \A k \in 1..m : Whole(log, after + k) \in S
        PROVE  /\ WholeFrom(log, after, m) \in Seq(S) /\ Len(WholeFrom(log, after, m)) = m
               /\ \A k \in 1..m : WholeFrom(log, after, m)[k] = Whole(log, after + k)
      BY <2>1, WholeFromIs
  <2>. QED
      BY <1>1, <1>2, <2>1, Zenon DEF b
<1>5. a \in Seq(S) /\ Len(a) = n /\ \A k \in 1..n : a[k] = Whole(log, after + k)
    BY <1>3, WholeFromIs
<1>. HIDE DEF a, b
<1>6. c \in Seq(S) /\ Len(c) = n + 1
      /\ c[n + 1] = Whole(log, after + n + 1) /\ \A k \in 1..n : c[k] = a[k]
    BY <1>3, <1>5, AppendProperties
<1>. HIDE DEF c
<1>7. ASSUME NEW k \in 1..n + 1 PROVE c[k] = b[k]
  <2>1. CASE k = n + 1
      BY <2>1, <1>1, <1>4, <1>6
  <2>2. CASE k # n + 1
      BY <2>2, <1>4, <1>5, <1>6
  <2>. QED
      BY <2>1, <2>2
<1>8. c = b
    BY <1>4, <1>6, <1>7, SeqEqual
<1>. QED
    BY <1>8 DEF a, b, c

-----------------------------------------------------------------------------
(* What is sent.                                                           *)

LEMMA SentIsTyped ==
    ASSUME committed \in Seq(Writes), NEW i \in 1..Len(committed)
    PROVE  /\ committed[i] \in Seq(Change)
           /\ \A c \in 1..Len(committed[i]) :
                 /\ DOMAIN committed[i][c] \subseteq Tables
                 /\ \A t \in DOMAIN committed[i][c] :
                       /\ committed[i][c][t] \in Definitions
                       /\ committed[i][c][t] \in Seq(Column)
<1>1. committed[i] \in Writes
    BY ElementOfSeq
<1>2. committed[i] \in Seq(Change)
    BY <1>1, DecoderAssumption
<1>3. ASSUME NEW x \in Change
      PROVE  DOMAIN x \subseteq Tables
             /\ \A t \in DOMAIN x : x[t] \in Definitions /\ x[t] \in Seq(Column)
  <2>1. PICK S \in SUBSET Tables \ {{}} : x \in [S -> Definitions]
      BY DEF Change
  <2>. QED
      BY <2>1, DecoderAssumption
<1>4. ASSUME NEW c \in 1..Len(committed[i]) PROVE committed[i][c] \in Change
    BY <1>2, ElementOfSeq
<1>. QED
    BY <1>2, <1>3, <1>4

\* A described column has the name of its own type or none.
LEMMA DescribedFits ==
    ASSUME NEW columns \in Seq(Column), NEW prev \in SUBSET Seq(RelationColumn),
           \A r \in prev : \A i \in DOMAIN r : r[i].typeName \subseteq {r[i].type}
    PROVE  LET r == Described(columns, prev) IN
           /\ r \in Seq(RelationColumn) /\ DOMAIN r = DOMAIN columns
           /\ \A i \in DOMAIN columns :
                 Same(r[i], columns[i]) /\ r[i].typeName \subseteq {r[i].type}
<1>. DEFINE r == Described(columns, prev)
            Kept(i) == UNION {p[i].typeName :
                        p \in {q \in prev : i \in DOMAIN q /\ Same(q[i], columns[i])}}
<1>1. \A i \in DOMAIN columns : columns[i] \in Column
    BY ElementOfSeq, LenProperties
<1>2. ASSUME NEW i \in DOMAIN columns PROVE Kept(i) \subseteq {columns[i].type}
  <2>. SUFFICES ASSUME NEW x \in Kept(i) PROVE x = columns[i].type
      OBVIOUS
  <2>1. PICK p \in prev : i \in DOMAIN p /\ Same(p[i], columns[i]) /\ x \in p[i].typeName
      OBVIOUS
  <2>. QED
      BY <2>1 DEF Same
<1>. HIDE DEF Kept
<1>3. DOMAIN r = DOMAIN columns
      /\ \A i \in DOMAIN columns :
            r[i] = [name |-> columns[i].name, type |-> columns[i].type, typeName |-> Kept(i)]
    BY DEF Described, Kept
<1>. HIDE DEF r
<1>4. ASSUME NEW i \in DOMAIN columns
      PROVE  r[i] \in RelationColumn /\ Same(r[i], columns[i])
             /\ r[i].typeName \subseteq {r[i].type}
    BY <1>1, <1>2, <1>3 DEF Column, RelationColumn, Same
<1>5. r \in Seq(RelationColumn)
  <2>1. r = [i \in DOMAIN columns |-> r[i]]
      BY DEF r, Described
  <2>2. DOMAIN columns = 1..Len(columns) /\ Len(columns) \in Nat
      BY LenProperties
  <2>3. r \in [1..Len(columns) -> RelationColumn]
      BY <2>1, <2>2, <1>4
  <2>. QED
      BY <2>2, <2>3, FunctionIsSeq
<1>. QED
    BY <1>3, <1>4, <1>5 DEF r
-----------------------------------------------------------------------------
(* The invariant, action by action.                                        *)

\* A round that is over leaves nothing behind, whatever it held.
LEMMA StartsAnew ==
    ASSUME DecoderTypeOK, RoundOver, NewDecoder,
           committed' = committed, slot' \in 0..slot
    PROVE  DecoderInv'
<1>1. DecoderTypeOK'
    BY DEF DecoderTypeOK, RoundOver, NewDecoder, Nothing
<1>2. Assembled'
  <2>1. batch' = WholeFrom(committed', slot', 0) /\ 0 \in 0..Len(committed') - slot'
      BY NoneIsWhole DEF DecoderTypeOK, RoundOver
  <2>. QED
      BY <2>1 DEF Assembled, RoundOver, NewDecoder
<1>3. TablesAreDescribed'
    BY DEF TablesAreDescribed, RoundOver, NewDecoder
<1>4. CacheFits'
    BY DEF CacheFits, RoundOver, NewDecoder, Nothing
<1>. QED
    BY <1>1, <1>2, <1>3, <1>4 DEF DecoderInv

LEMMA RoundFailsSafe ==
    ASSUME DecoderInv, RoundFails
    PROVE  DecoderInv'
<1>1. slot' \in 0..slot
    BY DEF DecoderInv, DecoderTypeOK, RoundFails
<1>. QED
    BY <1>1, StartsAnew DEF DecoderInv, RoundFails

\* A commit is beyond what is being read.
LEMMA CommitTxSafe ==
    ASSUME DecoderInv, CommitTx
    PROVE  DecoderInv'
<1>1. PICK tx \in Writes : committed' = Append(committed, tx)
    BY DEF CommitTx
<1>2. committed \in Seq(Writes) /\ Len(committed) \in Nat
    BY LenProperties DEF DecoderInv, DecoderTypeOK
<1>3. /\ committed' \in Seq(Writes) /\ Len(committed') = Len(committed) + 1
      /\ \A i \in 1..Len(committed) : committed'[i] = committed[i]
    BY <1>1, <1>2, AppendProperties
<1>4. UNCHANGED <<slot, pc, peekVars, decoderVars, batch>>
    BY DEF CommitTx
<1>5. DecoderTypeOK'
    BY <1>2, <1>3, <1>4 DEF DecoderInv, DecoderTypeOK, peekVars, decoderVars
<1>6. ASSUME NEW n \in 0..Len(committed) - slot
      PROVE  WholeFrom(committed', slot, n) = WholeFrom(committed, slot, n)
  <2>1. slot \in Nat /\ n \in Nat /\ slot + n <= Len(committed)
      BY <1>2 DEF DecoderInv, DecoderTypeOK
  <2>2. \A k \in 1..n : slot + k \in 1..Len(committed)
      BY <1>2, <2>1
  <2>3. \A k \in 1..n : committed'[slot + k] = committed[slot + k]
      BY <1>3, <2>2, Zenon
  <2>. QED
      BY <2>3, Zenon DEF WholeFrom, Whole
<1>7. Assembled'
  <2>1. CASE pc = "feed"
    <3>1. /\ sending \in slot + 1..target + 1
          /\ complete = WholeFrom(committed, slot, sending - slot - 1)
        BY <2>1 DEF DecoderInv, Assembled
    <3>2. sending - slot - 1 \in 0..Len(committed) - slot
        BY <1>2, <3>1 DEF DecoderInv, DecoderTypeOK
    <3>3. complete = WholeFrom(committed', slot, sending - slot - 1)
        BY <1>6, <3>1, <3>2
    <3>4. sent > 0 => committed'[sending] = committed[sending]
      <4>1. /\ slot \in Nat /\ target \in Nat /\ target <= Len(committed)
            /\ sending \in Nat /\ sent \in Nat /\ (sending > target => sent = 0)
          BY <2>1, <1>2 DEF DecoderInv, DecoderTypeOK, Assembled
      <4>2. sending >= slot + 1
          BY <3>1, <4>1
      <4>3. sent > 0 => sending \in 1..Len(committed)
          BY <1>2, <4>1, <4>2
      <4>. QED
          BY <1>3, <4>3
    <3>. QED
        BY <1>4, <2>1, <3>3, <3>4 DEF DecoderInv, Assembled, peekVars, decoderVars
  <2>2. CASE pc # "feed"
    <3>1. PICK n \in 0..Len(committed) - slot : batch = WholeFrom(committed, slot, n)
        BY <2>2 DEF DecoderInv, Assembled
    <3>2. n \in 0..Len(committed') - slot /\ batch = WholeFrom(committed', slot, n)
        BY <1>2, <1>3, <1>6, <3>1 DEF DecoderInv, DecoderTypeOK
    <3>. QED
        BY <1>4, <2>2, <3>2 DEF DecoderInv, Assembled, decoderVars
  <2>. QED
      BY <2>1, <2>2
<1>8. TablesAreDescribed' /\ CacheFits'
    BY <1>4 DEF DecoderInv, TablesAreDescribed, AllDescribed, CacheFits, peekVars, decoderVars
<1>. QED
    BY <1>5, <1>7, <1>8 DEF DecoderInv

LEMMA PeekSafe ==
    ASSUME DecoderInv, Peek
    PROVE  DecoderInv'
<1>1. slot \in 0..Len(committed) /\ Len(committed) \in Nat
    BY LenProperties DEF DecoderInv, DecoderTypeOK
<1>2. DecoderTypeOK'
    BY <1>1 DEF DecoderInv, DecoderTypeOK, Peek, Nothing, decoderVars
<1>3. Assembled'
  <2>1. current = {} /\ complete = <<>> /\ batch = <<>>
      BY DEF DecoderInv, Assembled, Peek
  <2>2. complete = WholeFrom(committed, slot, 0) /\ slot + 1 - slot - 1 = 0
      BY <1>1, <2>1, NoneIsWhole
  <2>3. /\ slot + 1 \in slot + 1..target' + 1 /\ ~ (slot + 1 > target')
        /\ pc' = "feed" /\ sending' = slot + 1 /\ sent' = 0
        /\ UNCHANGED <<committed, slot, current, complete, batch>>
      BY <1>1 DEF Peek, decoderVars
  <2>4. complete' = WholeFrom(committed', slot', sending' - slot' - 1)
    <3>1. committed' = committed /\ slot' = slot /\ complete' = complete
          /\ sending' - slot' - 1 = 0
        BY <1>1, <2>2, <2>3
    <3>. QED
        BY <2>2, <3>1, Zenon
  <2>5. /\ sending' \in slot' + 1..target' + 1 /\ ~ (sending' > target')
        /\ batch' = <<>> /\ current' = {} /\ sent' = 0 /\ pc' = "feed"
      BY <2>1, <2>3
  <2>. QED
      BY <2>4, <2>5 DEF Assembled
<1>4. TablesAreDescribed'
    BY DEF DecoderInv, Assembled, TablesAreDescribed, Peek, decoderVars
<1>5. CacheFits'
    BY DEF DecoderInv, CacheFits, Peek, Nothing, decoderVars
<1>. QED
    BY <1>2, <1>3, <1>4, <1>5 DEF DecoderInv
-----------------------------------------------------------------------------
(* Feeding.                                                                *)

\* What is known while the messages of a peek are fed.
LEMMA FeedIs ==
    ASSUME DecoderInv, pc = "feed", sending <= target
    PROVE  /\ committed \in Seq(Writes) /\ sending \in 1..Len(committed)
           /\ slot \in Nat /\ target \in Nat /\ sent \in Nat
           /\ sending - slot - 1 \in Nat
           /\ complete = WholeFrom(committed, slot, sending - slot - 1)
           /\ batch = <<>>
           /\ committed[sending] \in Seq(Change) /\ Len(committed[sending]) \in Nat
<1>1. committed \in Seq(Writes) /\ Len(committed) \in Nat
    BY LenProperties DEF DecoderInv, DecoderTypeOK
<1>2. /\ slot \in 0..Len(committed) /\ target \in 0..Len(committed) /\ sent \in Nat
      /\ sending \in slot + 1..target + 1 /\ batch = <<>>
      /\ complete = WholeFrom(committed, slot, sending - slot - 1)
    BY DEF DecoderInv, DecoderTypeOK, Assembled
<1>3. sending \in 1..Len(committed) /\ slot \in Nat /\ target \in Nat /\ sending - slot - 1 \in Nat
    BY <1>1, <1>2
<1>4. committed[sending] \in Seq(Change) /\ Len(committed[sending]) \in Nat
    BY <1>1, <1>3, SentIsTyped, LenProperties
<1>. QED
    BY <1>1, <1>2, <1>3, <1>4

\* The transaction being assembled, once BEGIN was fed.
LEMMA CurrentIs ==
    ASSUME DecoderInv, InTransaction
    PROVE  /\ sent - 1 \in Nat /\ sent - 1 <= Len(committed[sending])
           /\ current = {[xid |-> sending, end |-> 0,
                          changes |-> SubSeq(committed[sending], 1, sent - 1)]}
<1>1. sent \in Nat /\ sent > 0 /\ pc = "feed"
    BY DEF DecoderInv, DecoderTypeOK, InTransaction
<1>2. /\ sent - 1 <= Len(committed[sending])
      /\ current = {[xid |-> sending, end |-> 0,
                     changes |-> SubSeq(committed[sending], 1, sent - 1)]}
    BY <1>1 DEF DecoderInv, Assembled
<1>. QED
    BY <1>1, <1>2

LEMMA FeedBeginSafe ==
    ASSUME DecoderInv, FeedBegin
    PROVE  DecoderInv'
<1>1. CASE current # {}
    BY <1>1, RoundFailsSafe DEF FeedBegin
<1>2. CASE current = {}
  <2>1. /\ pc = "feed" /\ sending <= target /\ sent = 0
        /\ current' = {[xid |-> sending, end |-> 0, changes |-> <<>>]} /\ sent' = 1
        /\ UNCHANGED <<committed, slot, pc, target, sending, told, relations, complete, batch>>
      BY <1>2 DEF FeedBegin
  <2>2. DecoderTypeOK'
      BY <2>1 DEF DecoderInv, DecoderTypeOK
  <2>3. Assembled'
    <3>1. SubSeq(committed[sending], 1, 0) = <<>> /\ Len(committed[sending]) \in Nat
        BY <2>1, FeedIs, SubSeqEmpty
    <3>2. /\ batch = <<>> /\ sending \in slot + 1..target + 1 /\ ~ (sending > target)
          /\ complete = WholeFrom(committed, slot, sending - slot - 1)
        BY <2>1 DEF DecoderInv, DecoderTypeOK, Assembled
    <3>3. /\ sent' - 1 = 0 /\ committed' = committed /\ sending' = sending
          /\ sent' > 0 /\ sent' # 0 /\ sent' - 1 <= Len(committed'[sending'])
        BY <2>1, <3>1
    <3>4. current' = {[xid |-> sending', end |-> 0,
                       changes |-> SubSeq(committed'[sending'], 1, sent' - 1)]}
        BY <2>1, <3>1, <3>3, Zenon
    <3>. QED
        BY <2>1, <3>2, <3>3, <3>4 DEF Assembled
  <2>4. TablesAreDescribed'
      BY <2>1 DEF DecoderInv, TablesAreDescribed, AllDescribed
  <2>5. CacheFits'
      BY <2>1 DEF DecoderInv, CacheFits
  <2>. QED
      BY <2>2, <2>3, <2>4, <2>5 DEF DecoderInv
<1>. QED
    BY <1>1, <1>2

LEMMA FeedRelationSafe ==
    ASSUME DecoderInv, NEW t \in Tables, FeedRelation(t)
    PROVE  DecoderInv'
<1>. DEFINE r == Described(NextChange[t], relations[t])
<1>1. /\ pc = "feed" /\ sending <= target /\ t \in DOMAIN NextChange
      /\ told' = [told EXCEPT ![t] = {NextChange[t]}]
      /\ relations' = [relations EXCEPT ![t] = {r}]
      /\ UNCHANGED <<committed, slot, pc, target, sending, sent, current, complete, batch>>
    BY DEF FeedRelation, AtChange, InTransaction
<1>2. sent \in 1..Len(committed[sending])
    BY <1>1, FeedIs DEF FeedRelation, AtChange, InTransaction
<1>3. NextChange[t] \in Definitions /\ NextChange[t] \in Seq(Column)
    BY <1>1, <1>2, FeedIs, SentIsTyped DEF NextChange
<1>4. /\ told \in [Tables -> SUBSET Definitions]
      /\ relations \in [Tables -> SUBSET Seq(RelationColumn)]
    BY DEF DecoderInv, DecoderTypeOK
<1>5. \A q \in relations[t] : \A i \in DOMAIN q : q[i].typeName \subseteq {q[i].type}
    BY DEF DecoderInv, CacheFits
<1>6. /\ r \in Seq(RelationColumn) /\ DOMAIN r = DOMAIN NextChange[t]
      /\ \A i \in DOMAIN NextChange[t] :
            Same(r[i], NextChange[t][i]) /\ r[i].typeName \subseteq {r[i].type}
    BY <1>3, <1>4, <1>5, DescribedFits
<1>. HIDE DEF r
<1>7. DecoderTypeOK'
    BY <1>1, <1>3, <1>4, <1>6 DEF DecoderInv, DecoderTypeOK
<1>8. Assembled'
    BY <1>1 DEF DecoderInv, Assembled
<1>9. TablesAreDescribed'
  <2>1. \A u \in Tables : told[u] # {} => told'[u] # {}
      BY <1>1, <1>4
  <2>2. \A tx : AllDescribed(tx) => AllDescribed(tx)'
      BY <2>1, Zenon DEF AllDescribed
  <2>3. TablesAreDescribed
      BY DEF DecoderInv
  <2>. QED
      BY <1>1, <2>2, <2>3 DEF TablesAreDescribed
<1>10. CacheFits'
  <2>1. told'[t] = {NextChange[t]} /\ relations'[t] = {r}
      BY <1>1, <1>4
  <2>2. ASSUME NEW u \in Tables, u # t
        PROVE  told'[u] = told[u] /\ relations'[u] = relations[u]
      BY <1>1, <1>4, <2>2
  <2>. SUFFICES ASSUME NEW u \in Tables
               PROVE  /\ \A d \in told'[u] : \E q \in relations'[u] :
                           DOMAIN q = DOMAIN d /\ \A i \in DOMAIN d : Same(q[i], d[i])
                      /\ \A p, q \in relations'[u] : p = q
                      /\ \A d, e \in told'[u] : d = e
                      /\ \A q \in relations'[u] :
                           \A i \in DOMAIN q : q[i].typeName \subseteq {q[i].type}
      BY DEF CacheFits
  <2>3. CASE u = t
      BY <1>6, <2>1, <2>3
  <2>4. CASE u # t
      BY <2>2, <2>4 DEF DecoderInv, CacheFits
  <2>. QED
      BY <2>3, <2>4
<1>. QED
    BY <1>7, <1>8, <1>9, <1>10 DEF DecoderInv

LEMMA FeedChangeSafe ==
    ASSUME DecoderInv, FeedChange
    PROVE  DecoderInv'
<1>1. CASE current = {}
    BY <1>1, RoundFailsSafe DEF FeedChange
<1>2. CASE current # {}
  <2>. DEFINE log == committed[sending]
              before == [xid |-> sending, end |-> 0, changes |-> SubSeq(log, 1, sent - 1)]
              after == [xid |-> sending, end |-> 0, changes |-> SubSeq(log, 1, sent)]
  <2>1. /\ pc = "feed" /\ sending <= target /\ InTransaction
        /\ sent <= Len(log) /\ NextChange = log[sent]
        /\ \A t \in DOMAIN log[sent] : told[t] = {log[sent][t]}
        /\ current' = {[tx EXCEPT !.changes = Append(@, log[sent])] : tx \in current}
        /\ sent' = sent + 1
        /\ UNCHANGED <<committed, slot, pc, target, sending, told, relations, complete, batch>>
      BY <1>2 DEF FeedChange, AtChange, InTransaction, NextChange
  <2>2. sent \in Nat /\ sent - 1 \in Nat /\ sent - 1 + 1 = sent /\ current = {before}
    <3>1. sent - 1 \in Nat /\ current = {before}
        BY <2>1, CurrentIs
    <3>2. sent \in Nat
        BY <2>1, FeedIs
    <3>. QED
        BY <3>1, <3>2
  <2>3. log \in Seq(Change) /\ Len(log) \in Nat
      BY <2>1, FeedIs
  <2>. HIDE DEF log
  <2>4. Append(SubSeq(log, 1, sent - 1), log[sent]) = SubSeq(log, 1, sent)
      BY <2>1, <2>2, <2>3, PrefixGrows
  <2>5. current' = {after}
    <3>1. before.changes = SubSeq(log, 1, sent - 1)
        OBVIOUS
    <3>2. Append(before.changes, log[sent]) = SubSeq(log, 1, sent)
        BY <2>4, <3>1, Zenon
    <3>3. [before EXCEPT !.changes = SubSeq(log, 1, sent)] = after
      <4>1. \A x, s, t : [[xid |-> x, end |-> 0, changes |-> s] EXCEPT !.changes = t]
                          = [xid |-> x, end |-> 0, changes |-> t]
          OBVIOUS
      <4>. QED
          BY <4>1, Zenon
    <3>. HIDE DEF before, after
    <3>4. [before EXCEPT !.changes = Append(@, log[sent])] = after
        BY <3>2, <3>3
    <3>. QED
        BY <2>1, <2>2, <3>4
  <2>6. DecoderTypeOK'
      BY <2>1 DEF DecoderInv, DecoderTypeOK
  <2>7. Assembled'
    <3>1. sent' - 1 = sent /\ sent' > 0 /\ sent' # 0 /\ sent' - 1 <= Len(committed'[sending'])
        BY <2>1, <2>2 DEF log
    <3>2. current' = {[xid |-> sending', end |-> 0,
                       changes |-> SubSeq(committed'[sending'], 1, sent' - 1)]}
        BY <2>1, <2>5, <3>1, Zenon DEF log
    <3>3. /\ batch = <<>> /\ sending \in slot + 1..target + 1 /\ ~ (sending > target)
          /\ complete = WholeFrom(committed, slot, sending - slot - 1)
        BY <2>1 DEF DecoderInv, DecoderTypeOK, Assembled
    <3>. QED
        BY <2>1, <3>1, <3>2, <3>3 DEF Assembled
  <2>8. TablesAreDescribed'
    <3>1. AllDescribed(before)
        BY <2>2 DEF DecoderInv, TablesAreDescribed
    <3>2. AllDescribed(after)
      <4>. SUFFICES ASSUME NEW c \in DOMAIN after.changes, NEW t \in Tables,
                           t \in DOMAIN after.changes[c]
                    PROVE  told[t] # {}
          BY DEF AllDescribed
      <4>1. \A i \in 1..sent : log[i] \in Change
        <5>1. \A i \in 1..sent : i \in 1..Len(log)
            BY <2>1, <2>2, <2>3
        <5>. QED
            BY <2>3, <5>1, ElementOfSeq
      <4>2. /\ DOMAIN SubSeq(log, 1, sent) = 1..sent
            /\ DOMAIN SubSeq(log, 1, sent - 1) = 1..sent - 1
            /\ \A i \in 1..sent : SubSeq(log, 1, sent)[i] = log[i]
            /\ \A i \in 1..sent - 1 : SubSeq(log, 1, sent - 1)[i] = log[i]
          BY <2>2, <4>1, SubSeqProperties, LenProperties
      <4>3. CASE c = sent
          BY <2>1, <2>2, <4>2, <4>3
      <4>4. CASE c # sent
          BY <2>2, <3>1, <4>2, <4>4 DEF AllDescribed
      <4>. QED
          BY <4>3, <4>4
    <3>3. told' = told /\ complete' = complete /\ batch' = batch /\ current' = {after}
        BY <2>1, <2>5
    <3>4. /\ \A k \in DOMAIN complete : AllDescribed(complete[k])
          /\ \A k \in DOMAIN batch : AllDescribed(batch[k])
        BY DEF DecoderInv, TablesAreDescribed
    <3>. HIDE DEF after
    <3>5. \A tx : AllDescribed(tx)' <=> AllDescribed(tx)
        BY <3>3, Zenon DEF AllDescribed
    <3>. QED
        BY <3>2, <3>3, <3>4, <3>5, Zenon DEF TablesAreDescribed
  <2>9. CacheFits'
      BY <2>1 DEF DecoderInv, CacheFits
  <2>. QED
      BY <2>6, <2>7, <2>8, <2>9 DEF DecoderInv
<1>. QED
    BY <1>1, <1>2

LEMMA FeedCommitSafe ==
    ASSUME DecoderInv, FeedCommit
    PROVE  DecoderInv'
<1>1. CASE current = {}
    BY <1>1, RoundFailsSafe DEF FeedCommit
<1>2. CASE current # {}
  <2>. DEFINE n == sending - slot - 1
              whole == Whole(committed, sending)
  <2>1. /\ pc = "feed" /\ sending <= target /\ InTransaction
        /\ sent > Len(committed[sending])
        /\ \E tx \in current : complete' = Append(complete, [tx EXCEPT !.end = sending])
        /\ current' = {} /\ sending' = sending + 1 /\ sent' = 0
        /\ UNCHANGED <<committed, slot, pc, target, told, relations, batch>>
      BY <1>2 DEF FeedCommit, InTransaction
  <2>2. /\ sent \in Nat /\ sending \in Nat /\ slot \in Nat /\ target \in Nat /\ n \in Nat
        /\ complete = WholeFrom(committed, slot, n) /\ batch = <<>>
        /\ committed[sending] \in Seq(Change) /\ Len(committed[sending]) \in Nat
      BY <2>1, FeedIs
  <2>3. sent - 1 = Len(committed[sending])
        /\ current = {[xid |-> sending, end |-> 0,
                       changes |-> SubSeq(committed[sending], 1, sent - 1)]}
    <3>1. /\ sent - 1 \in Nat /\ sent - 1 <= Len(committed[sending])
          /\ current = {[xid |-> sending, end |-> 0,
                         changes |-> SubSeq(committed[sending], 1, sent - 1)]}
        BY <2>1, CurrentIs
    <3>2. \A m \in Nat : sent - 1 <= m /\ sent > m => sent - 1 = m
        BY <2>2
    <3>. QED
        BY <2>1, <2>2, <3>1, <3>2
  <2>4. current = {[xid |-> sending, end |-> 0, changes |-> committed[sending]]}
      BY <2>2, <2>3, SubSeqFull
  <2>5. complete' = Append(complete, whole)
    <3>1. [[xid |-> sending, end |-> 0, changes |-> committed[sending]] EXCEPT !.end = sending]
             = whole
        BY DEF Whole
    <3>. QED
        BY <2>1, <2>4, <3>1
  <2>6. complete' = WholeFrom(committed, slot, n + 1)
    <3>1. slot + n + 1 = sending
        BY <2>2
    <3>. HIDE DEF n
    <3>. QED
        BY <2>2, <2>5, <3>1, WholeGrows
  <2>7. DecoderTypeOK'
      BY <2>1, <2>2 DEF DecoderInv, DecoderTypeOK
  <2>8. Assembled'
    <3>1. sending' - slot' - 1 = n + 1 /\ sending' \in slot' + 1..target' + 1
        BY <2>1, <2>2
    <3>2. complete' = WholeFrom(committed', slot', sending' - slot' - 1)
        BY <2>1, <2>6, <3>1
    <3>. QED
        BY <2>1, <2>2, <3>1, <3>2 DEF Assembled
  <2>9. TablesAreDescribed'
    <3>1. AllDescribed(whole)
      <4>1. AllDescribed([xid |-> sending, end |-> 0, changes |-> committed[sending]])
          BY <2>4 DEF DecoderInv, TablesAreDescribed
      <4>. QED
          BY <4>1 DEF AllDescribed, Whole
    <3>2. /\ Len(complete) = n /\ DOMAIN complete = 1..n
          /\ \A k \in 1..n : complete[k] = Whole(committed, slot + k)
      <4>1. n \in Nat /\ complete = WholeFrom(committed, slot, n)
          BY <2>2
      <4>. HIDE DEF n
      <4>. QED
          BY <4>1, WholeFromReads
    <3>3. /\ DOMAIN complete' = 1..n + 1
          /\ \A k \in 1..n + 1 : complete'[k] = Whole(committed, slot + k)
      <4>1. n + 1 \in Nat
          BY <2>2
      <4>. HIDE DEF n
      <4>. QED
          BY <2>6, <4>1, WholeFromReads
    <3>4. ASSUME NEW k \in 1..n + 1 PROVE AllDescribed(complete'[k])
      <4>1. CASE k = n + 1
        <5>1. slot + k = sending
            BY <2>2, <4>1
        <5>. QED
            BY <3>1, <3>3, <5>1
      <4>2. CASE k # n + 1
        <5>1. k \in DOMAIN complete /\ complete'[k] = complete[k]
            BY <2>2, <3>2, <3>3, <4>2
        <5>. QED
            BY <5>1 DEF DecoderInv, TablesAreDescribed
      <4>. QED
          BY <4>1, <4>2
    <3>5. \A k \in DOMAIN complete' : AllDescribed(complete'[k])
        BY <3>3, <3>4
    <3>6. \A k \in DOMAIN batch : AllDescribed(batch[k])
        BY DEF DecoderInv, TablesAreDescribed
    <3>7. told' = told /\ batch' = batch /\ current' = {}
        BY <2>1
    <3>. HIDE DEF n, whole
    <3>. QED
        BY <3>5, <3>6, <3>7 DEF TablesAreDescribed, AllDescribed
  <2>10. CacheFits'
      BY <2>1 DEF DecoderInv, CacheFits
  <2>. QED
      BY <2>7, <2>8, <2>9, <2>10 DEF DecoderInv
<1>. QED
    BY <1>1, <1>2

\* What a peek brought, wherever it ended, is what was sent in full.
LEMMA PeekEndsSafe ==
    ASSUME DecoderInv, PeekEnds
    PROVE  DecoderInv'
<1>1. /\ pc = "feed" /\ current' = {} /\ batch' = complete /\ complete' = <<>>
      /\ pc' = IF complete = <<>> THEN "peek" ELSE "apply"
      /\ UNCHANGED <<committed, slot, target, sending, sent, told, relations>>
    BY DEF PeekEnds, peekVars
<1>2. DecoderTypeOK'
    BY <1>1 DEF DecoderInv, DecoderTypeOK
<1>3. Assembled'
  <2>1. /\ sending \in slot + 1..target + 1 /\ slot \in Nat /\ target \in 0..Len(committed)
        /\ complete = WholeFrom(committed, slot, sending - slot - 1)
        /\ Len(committed) \in Nat
      BY <1>1, LenProperties DEF DecoderInv, DecoderTypeOK, Assembled
  <2>2. sending - slot - 1 \in 0..Len(committed) - slot
      BY <2>1
  <2>3. \E n \in 0..Len(committed') - slot' : batch' = WholeFrom(committed', slot', n)
      BY <1>1, <2>1, <2>2
  <2>. QED
      BY <1>1, <2>3 DEF Assembled
<1>4. TablesAreDescribed' /\ CacheFits'
    BY <1>1 DEF DecoderInv, TablesAreDescribed, AllDescribed, CacheFits
<1>. QED
    BY <1>2, <1>3, <1>4 DEF DecoderInv

LEMMA ApplyRoundSafe ==
    ASSUME DecoderInv, ApplyRound
    PROVE  DecoderInv'
<1>. DEFINE unknown == \E t \in Concerned : relations[t] = {}
<1>1. CASE unknown
    BY <1>1, RoundFailsSafe DEF ApplyRound
<1>2. CASE ~ unknown
  <2>1. /\ pc = "apply" /\ pc' = "advance"
        /\ relations' = [t \in Tables |-> IF t \in Concerned
                                          THEN {Resolved(r) : r \in relations[t]}
                                          ELSE relations[t]]
        /\ UNCHANGED <<committed, slot, target, sending, sent, told, current, complete, batch>>
      BY <1>2 DEF ApplyRound, peekVars
  <2>2. relations \in [Tables -> SUBSET Seq(RelationColumn)]
      BY DEF DecoderInv, DecoderTypeOK
  \* Resolving a type changes nothing but what has no name yet.
  <2>3. ASSUME NEW r \in Seq(RelationColumn),
               \A i \in DOMAIN r : r[i].typeName \subseteq {r[i].type}
        PROVE  /\ Resolved(r) \in Seq(RelationColumn) /\ DOMAIN Resolved(r) = DOMAIN r
               /\ \A i \in DOMAIN r :
                    /\ Resolved(r)[i].name = r[i].name /\ Resolved(r)[i].type = r[i].type
                    /\ Resolved(r)[i].typeName \subseteq {r[i].type}
    <3>1. \A i \in DOMAIN r : r[i] \in RelationColumn
        BY ElementOfSeq, LenProperties
    <3>2. DOMAIN Resolved(r) = DOMAIN r
          /\ \A i \in DOMAIN r :
               Resolved(r)[i] = [r[i] EXCEPT !.typeName = IF @ = {} THEN {r[i].type} ELSE @]
        BY DEF Resolved
    <3>3. ASSUME NEW i \in DOMAIN r
          PROVE  /\ Resolved(r)[i] \in RelationColumn
                 /\ Resolved(r)[i].name = r[i].name /\ Resolved(r)[i].type = r[i].type
                 /\ Resolved(r)[i].typeName \subseteq {r[i].type}
        BY <2>3, <3>1, <3>2 DEF RelationColumn
    <3>4. Resolved(r) \in Seq(RelationColumn)
      <4>1. Resolved(r) = [i \in DOMAIN r |-> Resolved(r)[i]]
          BY DEF Resolved
      <4>2. DOMAIN r = 1..Len(r) /\ Len(r) \in Nat
          BY LenProperties
      <4>3. Resolved(r) \in [1..Len(r) -> RelationColumn]
          BY <3>3, <4>1, <4>2
      <4>. QED
          BY <4>2, <4>3, FunctionIsSeq
    <3>. QED
        BY <3>2, <3>3, <3>4
  <2>4. ASSUME NEW t \in Tables
        PROVE  \/ relations'[t] = relations[t]
               \/ relations'[t] = {Resolved(r) : r \in relations[t]}
      BY <2>1
  <2>5. \A t \in Tables : \A r \in relations[t] :
           r \in Seq(RelationColumn) /\ \A i \in DOMAIN r : r[i].typeName \subseteq {r[i].type}
      BY <2>2 DEF DecoderInv, CacheFits
  <2>6. DecoderTypeOK'
    <3>1. ASSUME NEW t \in Tables PROVE relations'[t] \subseteq Seq(RelationColumn)
      <4>1. CASE relations'[t] = relations[t]
          BY <2>5, <4>1
      <4>2. CASE relations'[t] = {Resolved(r) : r \in relations[t]}
          BY <2>3, <2>5, <4>2
      <4>. QED
          BY <2>4, <4>1, <4>2
    <3>2. relations' \in [Tables -> SUBSET Seq(RelationColumn)]
      <4>1. relations' = [t \in Tables |-> relations'[t]]
          BY <2>1
      <4>. QED
          BY <3>1, <4>1
    <3>. QED
        BY <2>1, <3>2 DEF DecoderInv, DecoderTypeOK
  <2>7. Assembled'
      BY <2>1 DEF DecoderInv, Assembled
  <2>8. TablesAreDescribed'
      BY <2>1 DEF DecoderInv, TablesAreDescribed, AllDescribed
  <2>9. CacheFits'
    <3>. SUFFICES ASSUME NEW t \in Tables
                  PROVE  /\ \A d \in told[t] : \E r \in relations'[t] :
                              DOMAIN r = DOMAIN d /\ \A i \in DOMAIN d : Same(r[i], d[i])
                         /\ \A r, q \in relations'[t] : r = q
                         /\ \A d, e \in told[t] : d = e
                         /\ \A r \in relations'[t] :
                              \A i \in DOMAIN r : r[i].typeName \subseteq {r[i].type}
        BY <2>1 DEF CacheFits
    <3>1. /\ \A d \in told[t] : \E r \in relations[t] :
               DOMAIN r = DOMAIN d /\ \A i \in DOMAIN d : Same(r[i], d[i])
          /\ \A r, q \in relations[t] : r = q
          /\ \A d, e \in told[t] : d = e
          /\ \A r \in relations[t] :
               \A i \in DOMAIN r : r[i].typeName \subseteq {r[i].type}
        BY DEF DecoderInv, CacheFits
    <3>2. CASE relations'[t] = relations[t]
        BY <3>1, <3>2
    <3>3. CASE relations'[t] = {Resolved(r) : r \in relations[t]}
      <4>1. ASSUME NEW d \in told[t]
            PROVE  \E q \in relations'[t] :
                     DOMAIN q = DOMAIN d /\ \A i \in DOMAIN d : Same(q[i], d[i])
        <5>1. PICK r \in relations[t] :
                 DOMAIN r = DOMAIN d /\ \A i \in DOMAIN d : Same(r[i], d[i])
            BY <3>1
        <5>2. DOMAIN Resolved(r) = DOMAIN d /\ \A i \in DOMAIN d : Same(Resolved(r)[i], d[i])
            BY <2>3, <2>5, <5>1 DEF Same
        <5>. QED
            BY <3>3, <5>2
      <4>2. \A r, q \in relations'[t] : r = q
          BY <3>1, <3>3
      <4>3. ASSUME NEW q \in relations'[t], NEW i \in DOMAIN q
            PROVE  q[i].typeName \subseteq {q[i].type}
        <5>1. PICK r \in relations[t] : q = Resolved(r)
            BY <3>3
        <5>. QED
            BY <2>3, <2>5, <5>1
      <4>. QED
          BY <3>1, <4>1, <4>2, <4>3
    <3>. QED
        BY <2>4, <3>2, <3>3
  <2>. QED
      BY <2>6, <2>7, <2>8, <2>9 DEF DecoderInv
<1>. QED
    BY <1>1, <1>2

\* How far the slot moves: past some of the transactions in hand.
LEMMA SlotMoves ==
    ASSUME DecoderInv, AdvanceSlot
    PROVE  slot' \in 0..Len(committed) /\ slot' \in 0..slot + Len(batch)
<1>1. pc = "advance"
    BY DEF AdvanceSlot
<1>2. slot \in 0..Len(committed) /\ Len(committed) \in Nat
    BY LenProperties DEF DecoderInv, DecoderTypeOK
<1>3. PICK n \in 0..Len(committed) - slot : batch = WholeFrom(committed, slot, n)
    BY <1>1 DEF DecoderInv, Assembled
<1>4. n \in Nat /\ Len(batch) = n
      /\ \A k \in 1..n : batch[k] = Whole(committed, slot + k)
    BY <1>2, <1>3, WholeFromReads
<1>5. PICK k \in 0..Len(batch) :
         slot' = IF k > 0 /\ batch[k].end > slot THEN batch[k].end ELSE slot
    BY DEF AdvanceSlot
<1>6. CASE slot' = slot
    BY <1>2, <1>4, <1>6
<1>7. CASE k > 0 /\ slot' = batch[k].end
  <2>1. k \in 1..n
      BY <1>4, <1>5, <1>7
  <2>2. batch[k].end = slot + k
      BY <1>4, <2>1 DEF Whole
  <2>. QED
      BY <1>2, <1>3, <1>4, <1>7, <2>1, <2>2
<1>. QED
    BY <1>5, <1>6, <1>7

LEMMA AdvanceSlotSafe ==
    ASSUME DecoderInv, AdvanceSlot
    PROVE  DecoderInv'
<1>1. /\ pc = "advance" /\ RoundOver
      /\ UNCHANGED <<committed, relations, current, complete>>
    BY DEF AdvanceSlot, decoderVars
<1>2. slot' \in 0..Len(committed)
    BY SlotMoves
<1>3. current = {} /\ complete = <<>>
    BY <1>1 DEF DecoderInv, Assembled
<1>4. DecoderTypeOK'
    BY <1>1, <1>2 DEF DecoderInv, DecoderTypeOK, RoundOver, Nothing
<1>5. Assembled'
  <2>1. Len(committed') \in Nat /\ slot' \in 0..Len(committed')
      BY <1>1, <1>2, LenProperties DEF DecoderInv, DecoderTypeOK
  <2>2. batch' = WholeFrom(committed', slot', 0) /\ 0 \in 0..Len(committed') - slot'
      BY <2>1, <1>1, NoneIsWhole DEF RoundOver
  <2>. QED
      BY <1>1, <1>3, <2>2 DEF Assembled, RoundOver
<1>6. TablesAreDescribed'
    BY <1>1, <1>3 DEF TablesAreDescribed, RoundOver
<1>7. CacheFits'
    BY <1>1 DEF DecoderInv, CacheFits, RoundOver, Nothing
<1>. QED
    BY <1>4, <1>5, <1>6, <1>7 DEF DecoderInv

LEMMA CrashSafe ==
    ASSUME DecoderInv, Crash
    PROVE  DecoderInv'
BY StartsAnew DEF DecoderInv, Crash

-----------------------------------------------------------------------------
(* Theorems.                                                               *)

LEMMA InitSafe == Init => DecoderInv
<1>. SUFFICES ASSUME Init PROVE DecoderInv
    OBVIOUS
<1>1. DecoderTypeOK
    BY EmptySeq DEF Init, DecoderTypeOK, Nothing
<1>2. Assembled
  <2>1. batch = WholeFrom(committed, slot, 0) /\ 0 \in 0..Len(committed) - slot
      BY NoneIsWhole, EmptySeq DEF Init
  <2>. QED
      BY <2>1 DEF Init, Assembled
<1>3. TablesAreDescribed /\ CacheFits
    BY DEF Init, TablesAreDescribed, CacheFits, Nothing
<1>. QED
    BY <1>1, <1>2, <1>3 DEF DecoderInv

LEMMA NextSafe == DecoderInv /\ [Next]_vars => DecoderInv'
<1>. SUFFICES ASSUME DecoderInv, [Next]_vars PROVE DecoderInv'
    OBVIOUS
<1>1. CASE CommitTx
    BY <1>1, CommitTxSafe
<1>2. CASE Peek
    BY <1>2, PeekSafe
<1>3. CASE FeedBegin
    BY <1>3, FeedBeginSafe
<1>4. CASE FeedChange
    BY <1>4, FeedChangeSafe
<1>5. CASE FeedCommit
    BY <1>5, FeedCommitSafe
<1>6. CASE PeekEnds
    BY <1>6, PeekEndsSafe
<1>7. CASE \E t \in Tables : FeedRelation(t)
    BY <1>7, FeedRelationSafe
<1>8. CASE ApplyRound
    BY <1>8, ApplyRoundSafe
<1>9. CASE AdvanceSlot
    BY <1>9, AdvanceSlotSafe
<1>10. CASE RoundError
    BY <1>10, RoundFailsSafe DEF RoundError
<1>11. CASE Crash
    BY <1>11, CrashSafe
<1>12. CASE UNCHANGED vars
    BY <1>12 DEF vars, peekVars, decoderVars, DecoderInv, DecoderTypeOK, Assembled,
                 TablesAreDescribed, AllDescribed, CacheFits
<1>. QED
    BY <1>1, <1>2, <1>3, <1>4, <1>5, <1>6, <1>7, <1>8, <1>9, <1>10, <1>11, <1>12
       DEF Next, WorkerStep

\* Between peeks the decoder holds no transaction, during one exactly what was
\* sent, and of every table in a round's hands the description of this peek: the
\* inductive invariant of feed, discard_incomplete, take_complete and the reset
\* in worker_main.
THEOREM DecoderHoldsWhatWasSent == Spec => []DecoderInv
<1>1. Init => DecoderInv
    BY InitSafe
<1>2. DecoderInv /\ [Next]_vars => DecoderInv'
    BY NextSafe
<1>. QED
    BY <1>1, <1>2, PTL DEF Spec

\* Failing leaves the slot where it is and nothing in hand.
LEMMA FailingSettles ==
    ASSUME DecoderInv, RoundFails
    PROVE  Abstract!Settling
<1>1. slot' = slot /\ slot \in Nat /\ batch' = <<>> /\ committed' = committed
    BY DEF DecoderInv, DecoderTypeOK, RoundFails, RoundOver
<1>2. Len(batch) \in Nat
  <2>1. CASE pc = "feed"
      BY <2>1, EmptySeq DEF DecoderInv, Assembled
  <2>2. CASE pc # "feed"
    <3>1. PICK n \in 0..Len(committed) - slot : batch = WholeFrom(committed, slot, n)
        BY <2>2 DEF DecoderInv, Assembled
    <3>. QED
        BY <3>1, WholeFromReads
  <2>. QED
      BY <2>1, <2>2
<1>. QED
    BY <1>1, <1>2 DEF Abstract!Settling

LEMMA StepRefines ==
    ASSUME DecoderInv, [Next]_vars
    PROVE  [Abstract!CONext]_(Abstract!coVars)
<1>. USE DEF Abstract!CONext, Abstract!coVars
<1>1. CASE CommitTx
  <2>1. PICK tx \in Writes : committed' = Append(committed, tx)
      BY <1>1 DEF CommitTx
  <2>2. committed \in Seq(Writes) /\ DOMAIN committed = 1..Len(committed)
      BY LenProperties DEF DecoderInv, DecoderTypeOK
  <2>3. /\ Len(committed') = Len(committed) + 1
        /\ \A i \in DOMAIN committed : committed'[i] = committed[i]
      BY <2>1, <2>2, AppendProperties
  <2>. QED
      BY <1>1, <2>3 DEF CommitTx, Abstract!Committing
<1>2. CASE Peek
    BY <1>2 DEF Peek
<1>3. CASE FeedBegin
    BY <1>3, FailingSettles DEF FeedBegin
<1>4. CASE FeedChange
    BY <1>4, FailingSettles DEF FeedChange
<1>5. CASE FeedCommit
    BY <1>5, FailingSettles DEF FeedCommit
<1>6. CASE \E t \in Tables : FeedRelation(t)
    BY <1>6 DEF FeedRelation
<1>7. CASE PeekEnds
  <2>1. /\ pc = "feed" /\ batch' = complete /\ UNCHANGED <<committed, slot>>
      BY <1>7 DEF PeekEnds
  <2>2. /\ sending \in slot + 1..target + 1 /\ slot \in Nat /\ target \in 0..Len(committed)
        /\ complete = WholeFrom(committed, slot, sending - slot - 1) /\ batch = <<>>
        /\ Len(committed) \in Nat
      BY <2>1, LenProperties DEF DecoderInv, DecoderTypeOK, Assembled
  <2>3. CASE sending = slot + 1
    <3>1. sending - slot - 1 = 0
        BY <2>2, <2>3
    <3>2. complete = <<>>
        BY <2>2, <3>1, NoneIsWhole
    <3>. QED
        BY <2>1, <2>2, <3>2
  <2>4. CASE sending # slot + 1
    <3>1. sending - slot - 1 \in 1..Len(committed) - slot
        BY <2>2, <2>4
    <3>2. batch' = [k \in 1..sending - slot - 1 |-> Abstract!Whole(slot + k)]
        BY <2>1, <2>2 DEF WholeFrom, Whole, Abstract!Whole
    <3>. QED
        BY <2>1, <3>1, <3>2 DEF Abstract!Reading
  <2>. QED
      BY <2>3, <2>4
<1>8. CASE ApplyRound
    BY <1>8, FailingSettles DEF ApplyRound
<1>9. CASE AdvanceSlot
    BY <1>9, SlotMoves DEF AdvanceSlot, RoundOver, Abstract!Settling
<1>10. CASE RoundError
    BY <1>10, FailingSettles DEF RoundError
<1>11. CASE Crash
  <2>1. slot' \in 0..slot /\ slot \in Nat /\ batch' = <<>> /\ committed' = committed
      BY <1>11 DEF Crash, RoundOver, DecoderInv, DecoderTypeOK
  <2>2. Len(batch) \in Nat
    <3>1. CASE pc = "feed"
        BY <3>1, EmptySeq DEF DecoderInv, Assembled
    <3>2. CASE pc # "feed"
      <4>1. PICK n \in 0..Len(committed) - slot : batch = WholeFrom(committed, slot, n)
          BY <3>2 DEF DecoderInv, Assembled
      <4>. QED
          BY <4>1, WholeFromReads
    <3>. QED
        BY <3>1, <3>2
  <2>. QED
      BY <2>1, <2>2 DEF Abstract!Settling
<1>12. CASE UNCHANGED vars
    BY <1>12 DEF vars
<1>. QED
    BY <1>1, <1>2, <1>3, <1>4, <1>5, <1>6, <1>7, <1>8, <1>9, <1>10, <1>11, <1>12
       DEF Next, WorkerStep

\* run_round hands apply_round whole source transactions, in commit order and
\* from the slot on, whatever fails in whatever round and wherever a peek ends.
THEOREM DecoderRefines == Spec => ImplementsCommitOrder
<1>1. Init => Abstract!COInit
    BY DEF Init, Abstract!COInit
<1>2. DecoderInv /\ [Next]_vars => [Abstract!CONext]_(Abstract!coVars)
    BY StepRefines
<1>. QED
    BY <1>1, <1>2, DecoderHoldsWhatWasSent, PTL
       DEF Spec, ImplementsCommitOrder, Abstract!COSpec
=============================================================================
