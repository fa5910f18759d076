-------------------------- MODULE OwnerReads_proofs --------------------------
(***************************************************************************)
(* What the owner's reads promise, for any number of requests, any page    *)
(* size and any walk: an owner sees their own requests, answers never go   *)
(* back, a walk that ends at a page that is not full has shown what was    *)
(* stored when it began, and repeats a request only when one was created.  *)
(***************************************************************************)
EXTENDS OwnerReads, SequenceTheorems, FiniteSetTheorems, TLAPS

USE NoneAssumption, ReadsAssumption

-----------------------------------------------------------------------------
(* What the tables and the walk hold *)

Row == [owner : Owners, createdAt : Times, request : Request]

Walk == [pc : {"idle", "refused", "reading", "done"}, owner : Owners \cup {None},
         rule : {None, "shortPage", "total"}, size : 1..MaxPageSize, page : Nat \ {0},
         items : Seq(Ids) \cup {None}, total : Nat \cup {None},
         stored : SUBSET Ids, seen : Seq(Ids), inserts : Nat]

ReadsType ==
    /\ DOMAIN rows \subseteq Ids /\ rows \in [DOMAIN rows -> Row]
    /\ moves \in 0..MaxMoves
    /\ walk \in Walk
    /\ told = NothingTold \/ (told.owner \in Owners /\ told.id \in Ids)

LEMMA SizeType ==
    ASSUME NEW raw \in RawSizes
    PROVE  ParseBounded(raw, DefaultPageSize, 1, MaxPageSize) \in (1..MaxPageSize) \cup {None}
BY DEF ParseBounded, ReadsAssumption

LEMMA MovesType ==
    ASSUME NEW q \in Request, NEW r \in Moves(q) PROVE r \in Request
<1>1. CASE \E a \in Attempts : r = Accepted(q, a)
  BY <1>1 DEF Accepted, Request, Statuses
<1>2. CASE r = Started(q)
  BY <1>2 DEF Started, Request, Statuses
<1>3. CASE \E z \in Zips : r = Completed(q, z)
  BY <1>3 DEF Completed, Request, Statuses
<1>4. CASE \E c \in FailureCodes : r = Failed(q, c)
  BY <1>4 DEF Failed, Request, Statuses
<1> QED
  BY <1>1, <1>2, <1>3, <1>4 DEF Moves

LEMMA SeqOfMore ==
    ASSUME NEW S, NEW T, S \subseteq T, NEW s \in Seq(S) PROVE s \in Seq(T)
<1>1. s \in [1..Len(s) -> T] /\ Len(s) \in Nat
  OBVIOUS
<1> QED
  BY <1>1

LEMMA ToSetOfBoth ==
    ASSUME NEW S, NEW s \in Seq(S), NEW t \in Seq(S)
    PROVE  ToSet(s \o t) = ToSet(s) \cup ToSet(t)
<1>1. /\ DOMAIN s = 1..Len(s) /\ DOMAIN t = 1..Len(t) /\ Len(s) \in Nat /\ Len(t) \in Nat
      /\ DOMAIN (s \o t) = 1..(Len(s) + Len(t))
      /\ \A n \in 1..(Len(s) + Len(t)) :
           (s \o t)[n] = IF n <= Len(s) THEN s[n] ELSE t[n - Len(s)]
  OBVIOUS
<1>2. ASSUME NEW x \in ToSet(s \o t) PROVE x \in ToSet(s) \cup ToSet(t)
  <2>1. PICK n \in 1..(Len(s) + Len(t)) : (s \o t)[n] = x
    BY <1>1 DEF ToSet
  <2>2. CASE n <= Len(s)
    BY <1>1, <2>1, <2>2 DEF ToSet
  <2>3. CASE ~ n <= Len(s)
    <3>1. n - Len(s) \in 1..Len(t) /\ t[n - Len(s)] = x
      BY <1>1, <2>1, <2>3
    <3> QED
      BY <1>1, <3>1 DEF ToSet
  <2> QED
    BY <2>2, <2>3
<1>3. ASSUME NEW x \in ToSet(s) PROVE x \in ToSet(s \o t)
  <2>1. PICK n \in 1..Len(s) : s[n] = x
    BY <1>1 DEF ToSet
  <2>2. n \in 1..(Len(s) + Len(t)) /\ (s \o t)[n] = x
    BY <1>1, <2>1
  <2> QED
    BY <1>1, <2>2 DEF ToSet
<1>4. ASSUME NEW x \in ToSet(t) PROVE x \in ToSet(s \o t)
  <2>1. PICK n \in 1..Len(t) : t[n] = x
    BY <1>1 DEF ToSet
  <2>2. n + Len(s) \in 1..(Len(s) + Len(t)) /\ (s \o t)[n + Len(s)] = x
    BY <1>1, <2>1
  <2> QED
    BY <1>1, <2>2 DEF ToSet
<1> QED
  BY <1>2, <1>3, <1>4

LEMMA OwnedIsFinite ==
    ASSUME DOMAIN rows \subseteq Ids, NEW owner
    PROVE  IsFiniteSet(OwnedBy(owner)) /\ Cardinality(OwnedBy(owner)) \in Nat
           /\ Cardinality(OwnedBy(owner)) <= Cardinality(Ids)
<1>1. OwnedBy(owner) \in SUBSET Ids
  BY DEF OwnedBy
<1> QED
  BY <1>1, FS_Subset, FS_CardinalityType DEF ReadsAssumption

-----------------------------------------------------------------------------
(* The order of the list.  A row's rank is the number of rows before it; a  *)
(* page shows the rows whose ranks its offset and its size span.            *)

Rank(owner, i) == Cardinality({j \in OwnedBy(owner) : Before(j, i)})

LEMMA BeforeIsTotal ==
    ASSUME ReadsType
    PROVE  /\ \A i, j \in DOMAIN rows : i # j => Before(i, j) \/ Before(j, i)
           /\ \A i \in DOMAIN rows : ~ Before(i, i)
           /\ \A i, j, k \in DOMAIN rows : Before(i, j) /\ Before(j, k) => Before(i, k)
<1>1. \A i \in DOMAIN rows : i \in Nat /\ rows[i].createdAt \in Nat
  BY DEF ReadsType, Row, ReadsAssumption
<1> QED
  BY <1>1 DEF Before

LEMMA RankType ==
    ASSUME ReadsType, NEW owner, NEW i
    PROVE  /\ IsFiniteSet({j \in OwnedBy(owner) : Before(j, i)})
           /\ Rank(owner, i) \in Nat
<1>1. IsFiniteSet(OwnedBy(owner))
  BY OwnedIsFinite DEF ReadsType
<1>2. {j \in OwnedBy(owner) : Before(j, i)} \in SUBSET OwnedBy(owner)
  OBVIOUS
<1>3. IsFiniteSet({j \in OwnedBy(owner) : Before(j, i)})
  BY <1>1, <1>2, FS_Subset
<1> QED
  BY <1>3, FS_CardinalityType DEF Rank

\* No two rows have the same rank.
LEMMA RanksDiffer ==
    ASSUME ReadsType, NEW owner, NEW i \in OwnedBy(owner), NEW j \in OwnedBy(owner),
           Rank(owner, i) = Rank(owner, j)
    PROVE  i = j
<1> DEFINE B(x) == {y \in OwnedBy(owner) : Before(y, x)}
<1>1. OwnedBy(owner) \subseteq DOMAIN rows
  BY DEF OwnedBy
<1>2. ASSUME NEW x \in OwnedBy(owner), NEW y \in OwnedBy(owner), Before(x, y),
             Rank(owner, x) = Rank(owner, y)
      PROVE  FALSE
  <2>1. B(x) \in SUBSET B(y) /\ x \in B(y) /\ x \notin B(x)
    BY <1>1, <1>2, BeforeIsTotal
  <2>2. IsFiniteSet(B(y)) /\ Cardinality(B(y)) = Cardinality(B(x))
    BY <1>2, RankType DEF Rank
  <2> HIDE DEF B
  <2>3. B(y) = B(x)
    BY <2>1, <2>2, FS_Subset
  <2> QED
    BY <2>1, <2>3
<1> QED
  BY <1>1, <1>2, BeforeIsTotal

\* A row that is not before any of its like has every other before it.
LEMMA RanksAreSmall ==
    ASSUME ReadsType, NEW owner, NEW i \in OwnedBy(owner)
    PROVE  Rank(owner, i) < Cardinality(OwnedBy(owner))
<1> DEFINE S == OwnedBy(owner)
           B == {y \in S : Before(y, i)}
<1>1. IsFiniteSet(S) /\ Cardinality(S) \in Nat
  BY OwnedIsFinite DEF ReadsType
<1>2. B \in SUBSET S /\ i \notin B
  BY BeforeIsTotal DEF OwnedBy
<1>3. B # S
  BY <1>2
<1>4. Cardinality(B) <= Cardinality(S) /\ Cardinality(B) # Cardinality(S)
  <2> HIDE DEF B, S
  <2> QED
    BY <1>1, <1>2, <1>3, FS_Subset
<1>5. Rank(owner, i) = Cardinality(B)
  BY DEF Rank
<1>6. Rank(owner, i) \in Nat
  BY RankType
<1> HIDE DEF B, S
<1> QED
  BY <1>1, <1>4, <1>5, <1>6 DEF S

\* In an ordering of all rows, the n-th one has rank n - 1.
LEMMA OrderingRanks ==
    ASSUME ReadsType, NEW owner,
           NEW s \in SetToSeqs(OwnedBy(owner)),
           \A m, n \in DOMAIN s : m < n => ~ Before(s[n], s[m])
    PROVE  /\ s \in Seq(OwnedBy(owner)) /\ Len(s) = Cardinality(OwnedBy(owner))
           /\ \A m, n \in 1..Len(s) : m # n => s[m] # s[n]
           /\ \A n \in 1..Len(s) : Rank(owner, s[n]) = n - 1
           /\ \A i \in OwnedBy(owner) : \E n \in 1..Len(s) : s[n] = i
<1> DEFINE S == OwnedBy(owner)
           N == Cardinality(S)
<1>1. IsFiniteSet(S) /\ N \in Nat
  BY OwnedIsFinite DEF ReadsType
<1>2. s \in [1..N -> S] /\ \A m, n \in 1..N : m # n => s[m] # s[n]
  BY DEF SetToSeqs
<1>3. s \in Seq(S) /\ Len(s) = N /\ DOMAIN s = 1..N
  BY <1>1, <1>2
<1>4. \A i \in S : \E n \in 1..N : s[n] = i
  <2>1. s \in Injection(1..N, S)
    BY <1>2 DEF Injection, IsInjective
  <2>2. Cardinality(1..N) = N
    BY <1>1, FS_Interval
  <2>3. s \in Surjection(1..N, S)
    BY <1>1, <2>1, <2>2, FS_Injection
  <2> QED
    BY <2>3 DEF Surjection
<1>5. ASSUME NEW n \in 1..N PROVE Rank(owner, s[n]) = n - 1
  <2> DEFINE B == {j \in S : Before(j, s[n])}
             f == [m \in 1..(n - 1) |-> s[m]]
  <2>1. \A m \in 1..N : Before(s[m], s[n]) <=> m < n
    <3> SUFFICES ASSUME NEW m \in 1..N PROVE Before(s[m], s[n]) <=> m < n
      OBVIOUS
    <3>1. s[m] \in DOMAIN rows /\ s[n] \in DOMAIN rows
      BY <1>2 DEF OwnedBy
    <3>2. CASE m < n
      BY <1>2, <1>3, <3>1, <3>2, BeforeIsTotal
    <3>3. CASE m = n
      BY <3>1, <3>3, BeforeIsTotal
    <3>4. CASE n < m
      BY <1>3, <3>4
    <3> QED
      BY <1>1, <3>2, <3>3, <3>4
  <2>2. f \in Bijection(1..(n - 1), B)
    <3>1. \A m \in 1..(n - 1) : m \in 1..N /\ s[m] \in B
      BY <1>1, <1>2, <2>1
    <3>2. f \in [1..(n - 1) -> B]
      BY <3>1
    <3>3. \A a, b \in 1..(n - 1) : a # b => f[a] # f[b]
      BY <1>2, <3>1
    <3>4. \A j \in B : \E m \in 1..(n - 1) : f[m] = j
      <4> SUFFICES ASSUME NEW j \in B PROVE \E m \in 1..(n - 1) : f[m] = j
        OBVIOUS
      <4>1. PICK m \in 1..N : s[m] = j
        BY <1>4
      <4>2. m \in 1..(n - 1)
        BY <1>1, <2>1, <4>1
      <4> QED
        BY <4>1, <4>2
    <3> QED
      BY <3>2, <3>3, <3>4 DEF Bijection, Injection, Surjection, IsInjective
  <2>3. ExistsBijection(1..(n - 1), B)
    BY <2>2 DEF ExistsBijection
  <2>4. Cardinality(B) = n - 1
    <3>1. n - 1 \in Nat
      BY <1>1
    <3> HIDE DEF B
    <3> QED
      BY <2>3, <3>1, FS_CountingElements
  <2> QED
    BY <2>4 DEF Rank
<1> QED
  BY <1>2, <1>3, <1>4, <1>5

\* A page holds, once each, the rows whose ranks it spans; one that is not full
\* holds all that are left, and behind one that is full there may be more.
LEMMA PagesHold ==
    ASSUME ReadsType, NEW owner, NEW offset \in Nat, NEW limit \in Nat,
           NEW page \in PagesByOwner(owner, offset, limit)
    PROVE  /\ page \in Seq(Ids) /\ ToSet(page) \subseteq OwnedBy(owner)
           /\ Len(page) <= limit /\ Cardinality(ToSet(page)) = Len(page)
           /\ \A i \in OwnedBy(owner) :
                i \in ToSet(page) <=> offset <= Rank(owner, i) /\ Rank(owner, i) < offset + limit
           /\ Len(page) < limit => \A i \in OwnedBy(owner) : Rank(owner, i) < offset + limit
           /\ Len(page) = limit /\ limit > 0 => offset + limit <= Cardinality(OwnedBy(owner))
<1> DEFINE S == OwnedBy(owner)
           N == Cardinality(S)
           last == IF offset + limit < N THEN offset + limit ELSE N
<1>1. PICK s \in SetToSeqs(S) :
             /\ \A m, n \in DOMAIN s : m < n => ~ Before(s[n], s[m])
             /\ page = SubSeq(s, offset + 1,
                              IF offset + limit < Len(s) THEN offset + limit ELSE Len(s))
  BY DEF PagesByOwner
<1>2. /\ s \in Seq(S) /\ Len(s) = N
      /\ \A m, n \in 1..N : m # n => s[m] # s[n]
      /\ \A n \in 1..N : Rank(owner, s[n]) = n - 1
      /\ \A i \in S : \E n \in 1..N : s[n] = i
  BY <1>1, OrderingRanks
<1>3. N \in Nat /\ S \subseteq Ids
  BY OwnedIsFinite DEF ReadsType, OwnedBy
<1>4. page = SubSeq(s, offset + 1, last)
  BY <1>1, <1>2
<1> HIDE DEF S, N
<1>5. /\ last \in Nat /\ last <= N /\ last <= offset + limit
      /\ last = N \/ (last = offset + limit /\ last < N)
  BY <1>3
<1> HIDE DEF last
<1>6. \A n \in (offset + 1)..last : n \in 1..N /\ s[n] \in S
  <2>1. \A n \in (offset + 1)..last : n \in 1..N
    BY <1>3, <1>5
  <2> QED
    BY <1>2, <2>1
<1>7. /\ page \in Seq(S)
      /\ Len(page) = IF offset < last THEN last - offset ELSE 0
      /\ \A n \in 1..(last - (offset + 1) + 1) : page[n] = s[(offset + 1) + n - 1]
  <2>1. PICK a, b : a = offset + 1 /\ b = last
    OBVIOUS
  <2>2. a \in Int /\ b \in Int /\ \A n \in a..b : s[n] \in S
    BY <1>5, <1>6, <2>1
  <2>3. /\ SubSeq(s, a, b) \in Seq(S)
        /\ Len(SubSeq(s, a, b)) = IF a <= b THEN b - a + 1 ELSE 0
        /\ \A i \in 1..(b - a + 1) : SubSeq(s, a, b)[i] = s[a + i - 1]
    BY <2>2, SubSeqProperties
  <2>4. page = SubSeq(s, a, b)
    BY <1>4, <2>1
  <2> QED
    BY <1>5, <2>1, <2>3, <2>4
<1>8. /\ page \in Seq(Ids) /\ Len(page) \in Nat /\ Len(page) <= limit
      /\ DOMAIN page = 1..Len(page)
      /\ ToSet(page) = {page[n] : n \in 1..Len(page)}
      /\ ToSet(page) \subseteq S
  <2>1. Len(page) \in Nat /\ DOMAIN page = 1..Len(page)
    BY <1>7
  <2>2. Len(page) <= limit
    BY <1>5, <1>7
  <2>3. page \in Seq(Ids)
    BY <1>3, <1>7, SeqOfMore
  <2>4. ToSet(page) = {page[n] : n \in 1..Len(page)}
    BY <2>1 DEF ToSet
  <2>5. ToSet(page) \subseteq S
    BY <1>7, <2>1, <2>4
  <2> QED
    BY <2>1, <2>2, <2>3, <2>4, <2>5
<1>9. \A n \in 1..Len(page) : offset + n \in 1..N /\ page[n] = s[offset + n]
  <2> SUFFICES ASSUME NEW n \in 1..Len(page) PROVE offset + n \in 1..N /\ page[n] = s[offset + n]
    OBVIOUS
  <2>1. offset < last /\ n \in 1..(last - offset)
    <3>1. CASE offset < last
      BY <1>7, <3>1
    <3>2. CASE ~ offset < last
      BY <1>7, <3>2
    <3> QED
      BY <3>1, <3>2
  <2>2. /\ n \in 1..(last - (offset + 1) + 1) /\ (offset + 1) + n - 1 = offset + n
        /\ offset + n \in 1..N
    BY <1>3, <1>5, <2>1
  <2> QED
    BY <1>7, <2>2
<1>10. Cardinality(ToSet(page)) = Len(page)
  <2>1. Len(page) \in Nat /\ page \in [1..Len(page) -> ToSet(page)]
    BY <1>7, <1>8
  <2>2. \A a, b \in 1..Len(page) : a # b => page[a] # page[b]
    <3> SUFFICES ASSUME NEW a \in 1..Len(page), NEW b \in 1..Len(page), a # b
                 PROVE  page[a] # page[b]
      OBVIOUS
    <3>1. offset + a # offset + b
      BY <2>1
    <3> QED
      BY <1>2, <1>9, <3>1
  <2>3. page \in Bijection(1..Len(page), ToSet(page))
    BY <1>8, <2>1, <2>2 DEF Bijection, Injection, Surjection, IsInjective
  <2>4. ExistsBijection(1..Len(page), ToSet(page))
    BY <2>3 DEF ExistsBijection
  <2> QED
    BY <2>1, <2>4, FS_CountingElements
<1>11. ASSUME NEW i \in S
       PROVE  i \in ToSet(page) <=> offset <= Rank(owner, i) /\ Rank(owner, i) < offset + limit
  <2>1. PICK n \in 1..N : s[n] = i
    BY <1>2
  <2>2. Rank(owner, i) = n - 1
    BY <1>2, <2>1
  <2>3. ASSUME i \in ToSet(page)
        PROVE  offset <= Rank(owner, i) /\ Rank(owner, i) < offset + limit
    <3>1. PICK m \in 1..Len(page) : page[m] = i
      BY <1>8, <2>3
    <3>2. offset + m \in 1..N /\ s[offset + m] = i
      BY <1>9, <3>1
    <3>3. Rank(owner, i) = (offset + m) - 1
      BY <1>2, <3>2
    <3>4. m \in 1..limit
      BY <1>8, <3>1
    <3> QED
      BY <3>3, <3>4
  <2>4. ASSUME offset <= Rank(owner, i), Rank(owner, i) < offset + limit
        PROVE  i \in ToSet(page)
    <3>1. n - offset \in 1..Len(page) /\ offset + (n - offset) = n
      BY <1>3, <1>5, <1>7, <2>2, <2>4
    <3>2. page[n - offset] = i
      BY <1>9, <2>1, <3>1
    <3> QED
      BY <1>8, <3>1, <3>2
  <2> QED
    BY <2>3, <2>4
<1>12. ASSUME Len(page) < limit, NEW i \in S PROVE Rank(owner, i) < offset + limit
  <2>1. Rank(owner, i) < N /\ Rank(owner, i) \in Nat
    BY RanksAreSmall, RankType DEF S, N
  <2>2. N <= offset + limit
    BY <1>3, <1>5, <1>7, <1>12
  <2> QED
    BY <1>3, <2>1, <2>2
<1>13. Len(page) = limit /\ limit > 0 => offset + limit <= N
  BY <1>3, <1>5, <1>7
<1> QED
  BY <1>8, <1>10, <1>11, <1>12, <1>13 DEF S, N

-----------------------------------------------------------------------------
(* How the order changes.  Rows are inserted and never removed or moved, so *)
(* ranks only grow, by one for each row that is inserted.                   *)

LEMMA InsertGrows ==
    ASSUME ReadsType, NEW i, NEW owner, NEW t, Insert(i, owner, t), NEW o
    PROVE  /\ OwnedBy(o)' = IF o = owner THEN OwnedBy(o) \cup {i} ELSE OwnedBy(o)
           /\ i \notin OwnedBy(o)
           /\ \A j, k \in DOMAIN rows : Before(j, k)' <=> Before(j, k)
<1>1. /\ i \notin DOMAIN rows /\ DOMAIN rows' = DOMAIN rows \cup {i}
      /\ rows'[i].owner = owner
      /\ \A j \in DOMAIN rows : rows'[j] = rows[j]
  BY DEF Insert
<1> QED
  BY <1>1 DEF OwnedBy, Before

LEMMA AdvanceKeepsOrder ==
    ASSUME ReadsType, NEW i \in DOMAIN rows, Advance(i)
    PROVE  /\ \A o : OwnedBy(o)' = OwnedBy(o)
           /\ \A j, k \in DOMAIN rows : Before(j, k)' <=> Before(j, k)
<1>1. PICK q : rows' = [rows EXCEPT ![i].request = q]
  BY DEF Advance
<1>2. rows \in [DOMAIN rows -> Row] /\ DOMAIN rows' = DOMAIN rows
  BY <1>1 DEF ReadsType
<1>3. \A j \in DOMAIN rows :
        rows'[j].owner = rows[j].owner /\ rows'[j].createdAt = rows[j].createdAt
  BY <1>1, <1>2 DEF Row
<1> QED
  BY <1>2, <1>3 DEF OwnedBy, Before

\* What the walk relies on, of any step: rows stay, and ranks do not shrink.
RanksGrow ==
    \A o : /\ OwnedBy(o) \subseteq OwnedBy(o)'
           /\ \A j \in OwnedBy(o) : Rank(o, j) <= Rank(o, j)'

LEMMA StepsGrow ==
    ASSUME ReadsType, ReadsType',
           \/ \E i \in Ids, owner \in Owners, t \in Times : Insert(i, owner, t)
           \/ \E i \in DOMAIN rows : Advance(i)
           \/ UNCHANGED rows
    PROVE  RanksGrow
<1> SUFFICES ASSUME NEW o
             PROVE  /\ OwnedBy(o) \subseteq OwnedBy(o)'
                    /\ \A j \in OwnedBy(o) : Rank(o, j) <= Rank(o, j)'
  BY DEF RanksGrow
<1>1. OwnedBy(o) \subseteq OwnedBy(o)' /\ OwnedBy(o) \subseteq DOMAIN rows
      /\ \A j, k \in DOMAIN rows : Before(j, k)' <=> Before(j, k)
  <2>1. CASE \E i \in Ids, owner \in Owners, t \in Times : Insert(i, owner, t)
    BY <2>1, InsertGrows DEF OwnedBy
  <2>2. CASE \E i \in DOMAIN rows : Advance(i)
    BY <2>2, AdvanceKeepsOrder DEF OwnedBy
  <2>3. CASE UNCHANGED rows
    BY <2>3 DEF OwnedBy, Before
  <2> QED
    BY <2>1, <2>2, <2>3
<1>2. ASSUME NEW j \in OwnedBy(o) PROVE Rank(o, j) <= Rank(o, j)'
  <2> DEFINE B == {k \in OwnedBy(o) : Before(k, j)}
             C == {k \in OwnedBy(o)' : Before(k, j)'}
  <2>1. B \in SUBSET C
    BY <1>1, <1>2
  <2>2. C \in SUBSET Ids /\ IsFiniteSet(C)
    <3>1. C \in SUBSET Ids
      BY DEF ReadsType, OwnedBy
    <3> QED
      BY <3>1, FS_Subset DEF ReadsAssumption
  <2>3. Cardinality(B) <= Cardinality(C)
    <3> HIDE DEF B, C
    <3> QED
      BY <2>1, <2>2, FS_Subset
  <2> QED
    BY <2>3 DEF Rank
<1> QED
  BY <1>1, <1>2

-----------------------------------------------------------------------------
(* The walk, field by field, after each of its steps *)

LEMMA ReadPageFields ==
    ASSUME walk \in Walk, ReadPage
    PROVE  /\ walk.pc = "reading" /\ walk.items = None
           /\ walk'.items \in PagesByOwner(walk.owner, Offset(walk.page, walk.size), walk.size)
           /\ walk' = [walk EXCEPT !.items = walk'.items]
           /\ walk'.pc = walk.pc /\ walk'.owner = walk.owner /\ walk'.rule = walk.rule
           /\ walk'.size = walk.size /\ walk'.page = walk.page /\ walk'.total = walk.total
           /\ walk'.stored = walk.stored /\ walk'.seen = walk.seen
           /\ walk'.inserts = walk.inserts
BY DEF ReadPage, Walk

LEMMA ReadTotalFields ==
    ASSUME walk \in Walk, ReadTotal
    PROVE  /\ walk.pc = "reading"
           /\ walk' = [walk EXCEPT !.total = Cardinality(OwnedBy(walk.owner))]
           /\ walk'.total = Cardinality(OwnedBy(walk.owner))
           /\ walk'.pc = walk.pc /\ walk'.owner = walk.owner /\ walk'.rule = walk.rule
           /\ walk'.size = walk.size /\ walk'.page = walk.page /\ walk'.items = walk.items
           /\ walk'.stored = walk.stored /\ walk'.seen = walk.seen
           /\ walk'.inserts = walk.inserts
BY DEF ReadTotal, CountByOwner, Walk

LEMMA AnswerPageFields ==
    ASSUME walk \in Walk, AnswerPage
    PROVE  /\ walk.pc = "reading" /\ walk.items # None /\ walk.total # None
           /\ walk'.pc = IF LastPage THEN "done" ELSE "reading"
           /\ walk'.page = IF LastPage THEN walk.page ELSE walk.page + 1
           /\ walk'.seen = walk.seen \o walk.items
           /\ walk'.items = None /\ walk'.total = None
           /\ walk'.owner = walk.owner /\ walk'.rule = walk.rule /\ walk'.size = walk.size
           /\ walk'.stored = walk.stored /\ walk'.inserts = walk.inserts
           /\ walk' \in Walk
<1>1. /\ walk.pc = "reading" /\ walk.items # None /\ walk.total # None
      /\ walk' = [walk EXCEPT !.seen = @ \o walk.items, !.items = None, !.total = None,
                              !.pc = IF LastPage THEN "done" ELSE "reading",
                              !.page = IF LastPage THEN @ ELSE @ + 1]
  BY DEF AnswerPage
<1>2. walk.seen \in Seq(Ids) /\ walk.items \in Seq(Ids)
  BY <1>1 DEF Walk
<1>3. walk.seen \o walk.items \in Seq(Ids)
  BY <1>2
<1>4. PICK seen, pc, page :
        /\ seen = walk.seen \o walk.items
        /\ pc = IF LastPage THEN "done" ELSE "reading"
        /\ page = IF LastPage THEN walk.page ELSE walk.page + 1
  OBVIOUS
<1>5. /\ seen \in Seq(Ids) /\ pc \in {"done", "reading"} /\ page \in Nat \ {0}
      /\ walk' = [walk EXCEPT !.seen = seen, !.items = None, !.total = None, !.pc = pc,
                              !.page = page]
  <2>1. page \in Nat \ {0}
    BY <1>4 DEF Walk
  <2> QED
    BY <1>1, <1>3, <1>4, <2>1
<1>6. /\ walk'.pc = pc /\ walk'.page = page /\ walk'.seen = seen
      /\ walk'.items = None /\ walk'.total = None
      /\ walk'.owner = walk.owner /\ walk'.rule = walk.rule /\ walk'.size = walk.size
      /\ walk'.stored = walk.stored /\ walk'.inserts = walk.inserts
      /\ walk' \in Walk
  BY <1>5 DEF Walk
<1> QED
  BY <1>1, <1>4, <1>6

\* A walk that another request of the service may have added an insert to.
Follows ==
    /\ walk'.pc = walk.pc /\ walk'.owner = walk.owner /\ walk'.rule = walk.rule
    /\ walk'.size = walk.size /\ walk'.page = walk.page
    /\ walk'.items = walk.items /\ walk'.total = walk.total
    /\ walk'.stored = walk.stored /\ walk'.seen = walk.seen
    /\ walk'.inserts \in {walk.inserts, walk.inserts + 1}
    /\ walk' \in Walk

LEMMA OthersFollow ==
    ASSUME walk \in Walk,
           \/ \E i \in Ids, owner \in Owners, t \in Times : Insert(i, owner, t)
           \/ \E i \in DOMAIN rows : Advance(i)
           \/ UNCHANGED walk
    PROVE  Follows
<1>1. CASE UNCHANGED walk
  BY <1>1 DEF Follows, Walk
<1>2. CASE walk' = [walk EXCEPT !.inserts = @ + 1]
  <2>1. PICK n \in Nat : n = walk.inserts + 1
    BY DEF Walk
  <2>2. walk' = [walk EXCEPT !.inserts = n]
    BY <1>2, <2>1
  <2> QED
    BY <2>1, <2>2 DEF Follows, Walk
<1> QED
  BY <1>1, <1>2 DEF Insert, Advance

\* A walk that has shown nothing yet.
Fresh ==
    /\ walk.pc # "done" /\ walk.page = 1 /\ walk.items = None /\ walk.total = None
    /\ walk.seen = <<>> /\ walk.inserts = 0
    /\ walk.stored = {} \/ walk.stored = OwnedBy(walk.owner)
    /\ walk.pc = "reading" => walk.owner \in Owners
    /\ walk \in Walk

LEMMA NoWalkType == NoWalk \in Walk
BY DEF NoWalk, Walk, ReadsAssumption

LEMMA NoWalkIsFresh == walk = NoWalk => Fresh
BY NoWalkType DEF NoWalk, Fresh

LEMMA BeginIsFresh ==
    ASSUME ReadsType, NEW owner \in Owners, NEW raw \in RawSizes,
           NEW rule \in {"shortPage", "total"}, Begin(owner, raw, rule)
    PROVE  Fresh'
<1>1. PICK size : size = ParseBounded(raw, DefaultPageSize, 1, MaxPageSize)
  OBVIOUS
<1>2. /\ size = None => walk' = [NoWalk EXCEPT !.pc = "refused"]
      /\ size # None =>
           walk' = [NoWalk EXCEPT !.pc = "reading", !.owner = owner, !.rule = rule,
                      !.size = size, !.page = DEFAULT_PAGE, !.stored = OwnedBy(owner)]
      /\ UNCHANGED rows
  BY <1>1 DEF Begin
<1>3. CASE size = None
  <2>1. walk' = [NoWalk EXCEPT !.pc = "refused"]
    BY <1>2, <1>3
  <2> QED
    BY <2>1, NoWalkType DEF NoWalk, Walk, Fresh
<1>4. CASE size # None
  <2>1. size \in 1..MaxPageSize
    BY <1>1, <1>4, SizeType
  <2>2. OwnedBy(owner) \in SUBSET Ids /\ OwnedBy(owner)' = OwnedBy(owner)
    BY <1>2 DEF ReadsType, OwnedBy
  <2>3. walk' = [NoWalk EXCEPT !.pc = "reading", !.owner = owner, !.rule = rule,
                   !.size = size, !.page = DEFAULT_PAGE, !.stored = OwnedBy(owner)]
    BY <1>2, <1>4
  <2>4. walk' = [pc |-> "reading", owner |-> owner, rule |-> rule, size |-> size,
                 page |-> 1, items |-> None, total |-> None,
                 stored |-> OwnedBy(owner), seen |-> <<>>, inserts |-> 0]
    BY <2>3 DEF NoWalk, DEFAULT_PAGE
  <2>5. walk' \in Walk
    BY <2>1, <2>2, <2>4 DEF Walk
  <2>6. (walk.stored = OwnedBy(walk.owner))'
    BY <1>2, <2>2, <2>4 DEF OwnedBy
  <2> QED
    BY <2>4, <2>5, <2>6 DEF Fresh
<1> QED
  BY <1>3, <1>4

-----------------------------------------------------------------------------
(* The types, and how far a walk is: its offset never passes the number of  *)
(* rows, and a page that is full ends within them.                          *)

LEMMA OffsetNext ==
    ASSUME NEW page \in Nat \ {0}, NEW size \in Nat \ {0}
    PROVE  /\ Offset(page, size) \in Nat /\ page - 1 <= Offset(page, size)
           /\ Offset(page + 1, size) = Offset(page, size) + size
           /\ page * size = Offset(page + 1, size)
<1>1. PICK n \in Nat : page = n + 1
  <2>1. page - 1 \in Nat /\ page = (page - 1) + 1
    OBVIOUS
  <2> QED
    BY <2>1
<1>2. n * size \in Nat /\ n <= n * size
  OBVIOUS
<1>3. (n + 1) * size = n * size + size
  OBVIOUS
<1>4. page - 1 = n /\ (page + 1) - 1 = n + 1
  BY <1>1
<1> QED
  BY <1>1, <1>2, <1>3, <1>4 DEF Offset

LEMMA InitType == Init => ReadsType
<1> SUFFICES ASSUME Init PROVE ReadsType
  OBVIOUS
<1>1. DOMAIN rows = {} /\ rows \in [{} -> Row]
  BY DEF Init
<1> QED
  BY <1>1, NoWalkType DEF Init, ReadsType, ReadsAssumption

LEMMA TypeStep == ASSUME ReadsType, [Next]_vars PROVE ReadsType'
<1>1. CASE \E i \in Ids, owner \in Owners, t \in Times : Insert(i, owner, t)
  <2>1. PICK i \in Ids, owner \in Owners, t \in Times : Insert(i, owner, t)
    BY <1>1
  <2>2. [owner |-> owner, createdAt |-> t, request |-> CreatedRequest] \in Row
    BY DEF Row, CreatedRequest, Request, Statuses
  <2>3. DOMAIN rows' \subseteq Ids /\ rows' \in [DOMAIN rows' -> Row]
    BY <2>1, <2>2 DEF Insert, ReadsType
  <2>4. walk' \in Walk
    BY <1>1, OthersFollow DEF Follows, ReadsType
  <2> QED
    BY <2>1, <2>3, <2>4 DEF Insert, ReadsType
<1>2. CASE \E i \in DOMAIN rows : Advance(i)
  <2>1. PICK i \in DOMAIN rows : Advance(i)
    BY <1>2
  <2>2. PICK q \in Moves(rows[i].request) : rows' = [rows EXCEPT ![i].request = q]
    BY <2>1 DEF Advance
  <2>3. q \in Request
    BY <2>2, MovesType DEF ReadsType, Row
  <2>4. DOMAIN rows' \subseteq Ids /\ rows' \in [DOMAIN rows' -> Row]
    <3>1. [rows[i] EXCEPT !.request = q] \in Row
      BY <2>3 DEF ReadsType, Row
    <3>2. rows' = [rows EXCEPT ![i] = [rows[i] EXCEPT !.request = q]]
      BY <2>2
    <3> QED
      BY <3>1, <3>2 DEF ReadsType
  <2> QED
    BY <2>1, <2>4 DEF Advance, ReadsType, ReadsAssumption
<1>3. CASE \E owner \in Owners, raw \in RawSizes, rule \in {"shortPage", "total"} :
             Begin(owner, raw, rule)
  BY <1>3, BeginIsFresh DEF Begin, Fresh, ReadsType
<1>4. CASE ReadPage
  <2>1. walk.size \in Nat /\ Offset(walk.page, walk.size) \in Nat
    BY OffsetNext DEF ReadsType, Walk, ReadsAssumption
  <2>2. walk'.items \in Seq(Ids) /\ walk' = [walk EXCEPT !.items = walk'.items]
    BY <1>4, <2>1, ReadPageFields, PagesHold DEF ReadsType
  <2>3. walk' \in Walk
    <3>1. PICK items \in Seq(Ids) : walk' = [walk EXCEPT !.items = items]
      BY <2>2
    <3> QED
      BY <3>1 DEF ReadsType, Walk
  <2> QED
    BY <1>4, <2>3 DEF ReadPage, ReadsType
<1>5. CASE ReadTotal
  <2>1. PICK n \in Nat : walk' = [walk EXCEPT !.total = n]
    BY <1>5, ReadTotalFields, OwnedIsFinite DEF ReadsType
  <2>2. walk' \in Walk
    BY <2>1 DEF ReadsType, Walk
  <2> QED
    BY <1>5, <2>2 DEF ReadTotal, ReadsType
<1>6. CASE AnswerPage
  BY <1>6, AnswerPageFields DEF AnswerPage, ReadsType
<1>7. CASE \E owner \in Owners, id \in Ids : FindOne(owner, id) \/ FindArchive(owner, id)
  BY <1>7, NoWalkType DEF FindOne, FindArchive, Answer, ReadsType
<1>8. CASE UNCHANGED vars
  BY <1>8 DEF vars, ReadsType, NothingTold
<1> QED
  BY <1>1, <1>2, <1>3, <1>4, <1>5, <1>6, <1>7, <1>8 DEF Next

Progress ==
    /\ walk.page <= Cardinality(Ids) + 1
    /\ walk.pc = "reading" =>
         LET stored == Cardinality(OwnedBy(walk.owner))
             offset == Offset(walk.page, walk.size)
         IN  /\ offset <= stored
             /\ walk.items # None =>
                  /\ Len(walk.items) <= walk.size
                  /\ Len(walk.items) = walk.size => offset + walk.size <= stored
                  /\ ToSet(walk.items) \subseteq OwnedBy(walk.owner)
             /\ walk.total # None => walk.total <= stored
    /\ ToSet(walk.seen) \subseteq OwnedBy(walk.owner)
    /\ walk.stored \subseteq OwnedBy(walk.owner)

LEMMA IdsAreCounted == Cardinality(Ids) \in Nat
BY FS_CardinalityType DEF ReadsAssumption

LEMMA FreshProgress == ReadsType /\ Fresh => Progress
<1> SUFFICES ASSUME ReadsType, Fresh PROVE Progress
  OBVIOUS
<1>1. ToSet(<<>>) = {}
  BY DEF ToSet
<1>2. walk.size \in Nat \ {0} /\ Offset(1, walk.size) = 0
  BY DEF Fresh, Walk, Offset, ReadsAssumption
<1>3. Cardinality(OwnedBy(walk.owner)) \in Nat
  BY OwnedIsFinite DEF ReadsType
<1> QED
  BY <1>1, <1>2, <1>3, IdsAreCounted DEF Fresh, Progress

LEMMA FreshProgressNext == (ReadsType /\ Fresh => Progress)'
BY FreshProgress, PTL

LEMMA NoWalkIsFreshNext == (walk = NoWalk => Fresh)'
BY NoWalkIsFresh, PTL

LEMMA MoreOwned ==
    ASSUME ReadsType, ReadsType', RanksGrow, NEW o
    PROVE  /\ OwnedBy(o) \subseteq OwnedBy(o)'
           /\ Cardinality(OwnedBy(o)) \in Nat /\ Cardinality(OwnedBy(o)') \in Nat
           /\ Cardinality(OwnedBy(o)) <= Cardinality(OwnedBy(o)')
<1>1. OwnedBy(o) \in SUBSET OwnedBy(o)'
  BY DEF RanksGrow
<1>2. OwnedBy(o)' \in SUBSET Ids
  BY DEF ReadsType, OwnedBy
<1>3. IsFiniteSet(OwnedBy(o)') /\ IsFiniteSet(OwnedBy(o))
  BY <1>1, <1>2, FS_Subset DEF ReadsAssumption
<1> QED
  BY <1>1, <1>3, FS_Subset, FS_CardinalityType

LEMMA FollowsProgress ==
    ASSUME ReadsType, ReadsType', Progress, RanksGrow, Follows PROVE Progress'
<1>1. PICK o : o = walk.owner /\ o = walk'.owner
  BY DEF Follows
<1>2. /\ OwnedBy(o) \subseteq OwnedBy(o)'
      /\ Cardinality(OwnedBy(o)) \in Nat /\ Cardinality(OwnedBy(o)') \in Nat
      /\ Cardinality(OwnedBy(o)) <= Cardinality(OwnedBy(o)')
  BY MoreOwned
<1>3. OwnedBy(walk.owner)' = OwnedBy(o)'
  BY <1>1 DEF OwnedBy
<1>4. walk.size \in Nat /\ Offset(walk.page, walk.size) \in Nat
      /\ (walk.items # None => walk.items \in Seq(Ids))
      /\ (walk.total # None => walk.total \in Nat)
  BY OffsetNext DEF ReadsType, Walk, ReadsAssumption
<1>5. Offset(walk.page, walk.size)' = Offset(walk.page, walk.size)
  BY DEF Offset, Follows
<1>6. PICK old, new, offset :
        /\ old = Cardinality(OwnedBy(o)) /\ new = Cardinality(OwnedBy(o)')
        /\ offset = Offset(walk.page, walk.size)
  OBVIOUS
<1>7. old \in Nat /\ new \in Nat /\ old <= new /\ offset \in Nat
  BY <1>2, <1>4, <1>6
<1>8. walk'.page <= Cardinality(Ids) + 1
      /\ ToSet(walk'.seen) \subseteq OwnedBy(o)' /\ walk'.stored \subseteq OwnedBy(o)'
  BY <1>1, <1>2 DEF Progress, Follows
<1>9. ASSUME walk'.pc = "reading"
      PROVE  /\ offset <= new
             /\ walk'.items # None =>
                  /\ Len(walk'.items) <= walk'.size
                  /\ Len(walk'.items) = walk'.size => offset + walk'.size <= new
                  /\ ToSet(walk'.items) \subseteq OwnedBy(o)'
             /\ walk'.total # None => walk'.total <= new
  <2>1. /\ offset <= old
        /\ walk.items # None =>
             /\ Len(walk.items) <= walk.size
             /\ Len(walk.items) = walk.size => offset + walk.size <= old
             /\ ToSet(walk.items) \subseteq OwnedBy(o)
        /\ walk.total # None => walk.total <= old
    BY <1>1, <1>6, <1>9 DEF Progress, Follows
  <2>2. walk'.items = walk.items /\ walk'.size = walk.size /\ walk'.total = walk.total
    BY DEF Follows
  <2> QED
    BY <1>2, <1>4, <1>7, <2>1, <2>2
<1> QED
  BY <1>3, <1>5, <1>6, <1>8, <1>9 DEF Progress

LEMMA ProgressStep ==
    ASSUME ReadsType, ReadsType', Progress, [Next]_vars PROVE Progress'
<1> USE DEF ReadsType
<1>1. CASE \/ \E i \in Ids, owner \in Owners, t \in Times : Insert(i, owner, t)
           \/ \E i \in DOMAIN rows : Advance(i)
           \/ UNCHANGED vars
  BY <1>1, OthersFollow, StepsGrow, FollowsProgress DEF vars
<1>2. CASE \E owner \in Owners, raw \in RawSizes, rule \in {"shortPage", "total"} :
             Begin(owner, raw, rule)
  BY <1>2, BeginIsFresh, FreshProgressNext
<1>3. CASE \E owner \in Owners, id \in Ids : FindOne(owner, id) \/ FindArchive(owner, id)
  <2>1. walk' = NoWalk
    BY <1>3 DEF FindOne, FindArchive, Answer
  <2> QED
    BY <2>1, NoWalkIsFreshNext, FreshProgressNext
<1>4. walk.size \in Nat \ {0} /\ walk.page \in Nat \ {0}
      /\ Offset(walk.page, walk.size) \in Nat
      /\ Offset(walk.page + 1, walk.size) = Offset(walk.page, walk.size) + walk.size
      /\ walk.page * walk.size = Offset(walk.page + 1, walk.size)
      /\ walk.page <= Offset(walk.page + 1, walk.size)
  <2>1. walk.size \in Nat \ {0} /\ walk.page \in Nat \ {0}
    BY DEF Walk, ReadsAssumption
  <2>2. PICK page, size : page = walk.page /\ size = walk.size
                         /\ page \in Nat \ {0} /\ size \in Nat \ {0}
    BY <2>1
  <2>3. /\ Offset(page, size) \in Nat
        /\ Offset(page + 1, size) = Offset(page, size) + size
        /\ page * size = Offset(page + 1, size)
    BY <2>2, OffsetNext
  <2>4. page + 1 \in Nat \ {0} /\ (page + 1) - 1 = page
    BY <2>2
  <2>5. page <= Offset(page + 1, size)
    BY <2>2, <2>4, OffsetNext
  <2> QED
    BY <2>2, <2>3, <2>5
<1>5. Cardinality(OwnedBy(walk.owner)) \in Nat
      /\ Cardinality(OwnedBy(walk.owner)) <= Cardinality(Ids)
  BY OwnedIsFinite
<1>6. CASE ReadPage
  <2> DEFINE items == walk'.items
  <2>1. UNCHANGED rows /\ walk.pc = "reading"
    BY <1>6 DEF ReadPage
  <2>2. OwnedBy(walk.owner)' = OwnedBy(walk.owner)
        /\ Offset(walk.page, walk.size)' = Offset(walk.page, walk.size)
    BY <1>6, <2>1, ReadPageFields DEF OwnedBy, Offset
  <2>3. /\ Len(items) <= walk.size
        /\ Len(items) = walk.size /\ walk.size > 0
             => Offset(walk.page, walk.size) + walk.size <= Cardinality(OwnedBy(walk.owner))
        /\ ToSet(items) \subseteq OwnedBy(walk.owner)
    <3>1. PICK o, offset, size :
            /\ o = walk.owner /\ offset = Offset(walk.page, walk.size) /\ size = walk.size
            /\ offset \in Nat /\ size \in Nat
      BY <1>4
    <3>2. PICK page \in PagesByOwner(o, offset, size) : page = items
      BY <1>6, <3>1, ReadPageFields
    <3>3. /\ Len(page) <= size /\ ToSet(page) \subseteq OwnedBy(o)
          /\ Len(page) = size /\ size > 0 => offset + size <= Cardinality(OwnedBy(o))
      BY <3>1, PagesHold
    <3> QED
      BY <3>1, <3>2, <3>3
  <2> HIDE DEF items
  <2>4. walk.size > 0
    BY <1>4
  <2> QED
    BY <1>6, <2>1, <2>2, <2>3, <2>4, ReadPageFields DEF Progress, items
<1>7. CASE ReadTotal
  <2>1. UNCHANGED rows /\ walk.pc = "reading"
    BY <1>7 DEF ReadTotal
  <2>2. OwnedBy(walk.owner)' = OwnedBy(walk.owner)
        /\ Offset(walk.page, walk.size)' = Offset(walk.page, walk.size)
    BY <1>7, <2>1, ReadTotalFields DEF OwnedBy, Offset
  <2> QED
    BY <1>5, <1>7, <2>1, <2>2, ReadTotalFields DEF Progress
<1>8. CASE AnswerPage
  <2> DEFINE stored == Cardinality(OwnedBy(walk.owner))
  <2>1. UNCHANGED rows
    BY <1>8 DEF AnswerPage
  <2>2. OwnedBy(walk.owner)' = OwnedBy(walk.owner)
    BY <1>8, <2>1, AnswerPageFields DEF OwnedBy
  <2>3. walk.pc = "reading" /\ walk.items # None /\ walk.total # None
        /\ walk.items \in Seq(Ids) /\ walk.total \in Nat
    BY <1>8, AnswerPageFields DEF Walk
  <2>4. ToSet(walk'.seen) \subseteq OwnedBy(walk.owner)
    <3>1. ToSet(walk.seen) \subseteq OwnedBy(walk.owner)
          /\ ToSet(walk.items) \subseteq OwnedBy(walk.owner)
      BY <2>3 DEF Progress
    <3>2. ToSet(walk.seen \o walk.items) = ToSet(walk.seen) \cup ToSet(walk.items)
      BY <2>3, ToSetOfBoth DEF Walk
    <3> QED
      BY <1>8, <3>1, <3>2, AnswerPageFields
  <2>5. CASE LastPage
    BY <1>8, <2>2, <2>4, <2>5, AnswerPageFields DEF Progress
  <2>6. CASE ~ LastPage
    <3>1. Offset(walk.page + 1, walk.size) <= stored
      <4>1. CASE walk.rule = "shortPage"
        <5>1. ~ Len(walk.items) < walk.size
          BY <2>6, <4>1 DEF LastPage
        <5>2. Len(walk.items) = walk.size
          BY <1>4, <2>3, <5>1 DEF Progress
        <5> QED
          BY <1>4, <2>3, <5>2 DEF Progress
      <4>2. CASE walk.rule # "shortPage"
        <5>1. ~ (walk.page * walk.size >= walk.total)
          BY <2>6, <4>2 DEF LastPage
        <5>2. walk.total <= stored
          BY <2>3 DEF Progress
        <5> QED
          BY <1>4, <1>5, <2>3, <5>1, <5>2
      <4> QED
        BY <4>1, <4>2
    <3>2. walk'.page = walk.page + 1 /\ walk'.pc = "reading"
      BY <1>8, <2>6, AnswerPageFields
    <3>3. walk'.page <= Cardinality(Ids) + 1
      BY <1>4, <1>5, <3>1, <3>2, IdsAreCounted
    <3>4. Offset(walk.page, walk.size)' = Offset(walk.page + 1, walk.size)
      BY <1>8, <3>2, AnswerPageFields DEF Offset
    <3> QED
      BY <1>8, <2>2, <2>4, <3>1, <3>2, <3>3, <3>4, AnswerPageFields DEF Progress
  <2> QED
    BY <2>5, <2>6
<1> QED
  BY <1>1, <1>2, <1>3, <1>6, <1>7, <1>8 DEF Next

-----------------------------------------------------------------------------
(* Answers about one request.  What was told stands: a status that was      *)
(* shown, or a later one, and an archive that was handed out.               *)

Stands(a, q) ==
    \/ \E s \in Statuses, h \in BOOLEAN :
         a = [kind |-> "item", status |-> s, hasReason |-> h] /\ q.status \in Later(s)
    \/ a = [kind |-> "notCompleted"]
    \/ q.status = "COMPLETED" /\ a = [kind |-> "ready", zipStorageKey |-> q.zipStorageKey]

HasItsArchive(q) == q.status = "COMPLETED" => q.zipStorageKey # None

ToldStands ==
    /\ \A i \in DOMAIN rows : HasItsArchive(rows[i].request)
    /\ \/ told = NothingTold
       \/ told.answer = NotFound
       \/ told.id \in OwnedBy(told.owner) /\ Stands(told.answer, rows[told.id].request)

LEMMA LaterIs ==
    /\ Later("RECEIVED") = Statuses
    /\ Later("QUEUED") = Statuses \ {"RECEIVED"}
    /\ Later("PROCESSING") = Statuses \ {"RECEIVED", "QUEUED"}
    /\ Later("COMPLETED") = {"COMPLETED"} /\ Later("FAILED") = {"FAILED"}
BY DEF Later

LEMMA LaterGoesOn ==
    /\ \A s \in Statuses : s \in Later(s) /\ Later(s) \subseteq Statuses
    /\ \A s \in Statuses : \A t \in Later(s) : Later(t) \subseteq Later(s)
BY LaterIs DEF Statuses

\* A move goes on to a later status, never from a terminal one.
LEMMA MovesGoOn ==
    ASSUME NEW q \in Request, NEW r \in Moves(q), r # q
    PROVE  /\ r.status \in Later(q.status) /\ q.status \notin {"COMPLETED", "FAILED"}
           /\ HasItsArchive(r)
<1>1. CASE \E a \in Attempts : r = Accepted(q, a) /\ CanAccept(q)
  BY <1>1, LaterIs DEF Accepted, CanAccept, Request, Statuses, HasItsArchive
<1>2. CASE r = Started(q)
  BY <1>2, LaterIs DEF Started, Request, Statuses, HasItsArchive
<1>3. CASE \E z \in Zips : r = Completed(q, z) /\ CanComplete(q, z)
  <2>1. PICK z \in Zips : r = Completed(q, z) /\ CanComplete(q, z)
    BY <1>3
  <2>2. ~ AlreadyCompleted(q, z)
    BY <2>1 DEF Completed
  <2>3. q.status \in {"QUEUED", "PROCESSING"}
        /\ r = [q EXCEPT !.status = "COMPLETED", !.zipStorageKey = z]
    BY <2>1, <2>2 DEF CanComplete, Completed, CompletableStatuses
  <2>4. r.status = "COMPLETED" /\ r.zipStorageKey = z
    BY <2>3 DEF Request
  <2> QED
    BY <2>1, <2>3, <2>4, LaterIs DEF Statuses, HasItsArchive, NoneAssumption
<1>4. CASE \E c \in FailureCodes : r = Failed(q, c) /\ (CanFail(q, c) \/ CanReject(q, c))
  BY <1>4, LaterIs
  DEF Failed, CanFail, CanReject, FailableStatuses, Request, Statuses, HasItsArchive
<1> QED
  BY <1>1, <1>2, <1>3, <1>4 DEF Moves

LEMMA StandsOn ==
    ASSUME NEW q \in Request, NEW r \in Moves(q), r # q, NEW a, Stands(a, q)
    PROVE  Stands(a, r)
<1>1. r.status \in Later(q.status) /\ q.status # "COMPLETED" /\ q.status \in Statuses
  BY MovesGoOn DEF Request
<1>2. \A s \in Statuses : q.status \in Later(s) => r.status \in Later(s)
  BY <1>1, LaterGoesOn
<1> QED
  BY <1>1, <1>2 DEF Stands

\* The item and the archive of a request that is stored.
LEMMA AnswersStand ==
    ASSUME NEW q \in Request, HasItsArchive(q)
    PROVE  Stands(ToOwnedItem(q), q) /\ Stands(ArchiveOf(q), q)
<1>1. Stands(ToOwnedItem(q), q)
  <2>1. (q.status = "FAILED" /\ q.failureCode # None) \in BOOLEAN
    OBVIOUS
  <2>2. q.status \in Statuses /\ q.status \in Later(q.status)
    BY LaterGoesOn DEF Request
  <2> QED
    BY <2>1, <2>2 DEF Stands, ToOwnedItem
<1>2. Stands(ArchiveOf(q), q)
  BY DEF Stands, ArchiveOf
<1> QED
  BY <1>1, <1>2

LEMMA ToldInit == Init => ToldStands
BY DEF Init, ToldStands

LEMMA ToldStep == ASSUME ReadsType, ToldStands, [Next]_vars PROVE ToldStands'
<1>1. CASE \E i \in Ids, owner \in Owners, t \in Times : Insert(i, owner, t)
  <2>1. PICK i \in Ids, owner \in Owners, t \in Times : Insert(i, owner, t)
    BY <1>1
  <2>2. /\ DOMAIN rows' = DOMAIN rows \cup {i} /\ i \notin DOMAIN rows
        /\ \A j \in DOMAIN rows : rows'[j] = rows[j]
        /\ rows'[i].request = CreatedRequest /\ told' = told
    BY <2>1 DEF Insert
  <2>3. \A j \in DOMAIN rows' : HasItsArchive(rows'[j].request)
    BY <2>2 DEF ToldStands, HasItsArchive, CreatedRequest
  <2> QED
    BY <2>2, <2>3 DEF ToldStands, OwnedBy
<1>2. CASE \E i \in DOMAIN rows : Advance(i)
  <2>1. PICK i \in DOMAIN rows : Advance(i)
    BY <1>2
  <2>2. PICK q \in Moves(rows[i].request) :
          q # rows[i].request /\ rows' = [rows EXCEPT ![i].request = q]
    BY <2>1 DEF Advance
  <2>3. rows[i].request \in Request /\ rows \in [DOMAIN rows -> Row]
    BY DEF ReadsType, Row
  <2>4. /\ DOMAIN rows' = DOMAIN rows /\ rows'[i].request = q
        /\ \A j \in DOMAIN rows : j # i => rows'[j] = rows[j]
        /\ \A j \in DOMAIN rows : rows'[j].owner = rows[j].owner
    BY <2>2, <2>3 DEF Row
  <2>5. \A j \in DOMAIN rows' : HasItsArchive(rows'[j].request)
    BY <2>2, <2>3, <2>4, MovesGoOn DEF ToldStands
  <2>6. told' = told
    BY <2>1 DEF Advance
  <2>7. ASSUME told.id \in OwnedBy(told.owner), Stands(told.answer, rows[told.id].request)
        PROVE  Stands(told.answer, rows'[told.id].request)
    <3>1. CASE told.id = i
      BY <2>2, <2>3, <2>4, <2>7, <3>1, StandsOn
    <3>2. CASE told.id # i
      BY <2>4, <2>7, <3>2 DEF OwnedBy
    <3> QED
      BY <3>1, <3>2
  <2>8. told.id \in OwnedBy(told.owner) => told.id \in OwnedBy(told.owner)'
    BY <2>4, <2>6 DEF OwnedBy
  <2>9. Stands(told.answer, rows'[told.id].request) => Stands(told.answer, rows[told.id].request)'
    BY <2>6 DEF Stands
  <2> QED
    BY <2>5, <2>6, <2>7, <2>8, <2>9 DEF ToldStands, NothingTold
<1>3. CASE \E owner \in Owners, raw \in RawSizes, rule \in {"shortPage", "total"} :
             Begin(owner, raw, rule)
  BY <1>3 DEF Begin, ToldStands
<1>4. CASE ReadPage \/ ReadTotal \/ AnswerPage \/ UNCHANGED vars
  BY <1>4 DEF ReadPage, ReadTotal, AnswerPage, vars, ToldStands, OwnedBy
<1>5. ASSUME NEW owner \in Owners, NEW id \in Ids, FindOne(owner, id) \/ FindArchive(owner, id)
      PROVE  ToldStands'
  <2>1. UNCHANGED rows /\ told'.owner = owner /\ told'.id = id
    BY <1>5 DEF FindOne, FindArchive, Answer
  <2>2. CASE id \notin OwnedBy(owner)
    <3>1. told'.answer = NotFound
      BY <1>5, <2>2 DEF FindOne, FindArchive, Answer, FindByIdAndOwner
    <3> QED
      BY <2>1, <3>1 DEF ToldStands
  <2>3. CASE id \in OwnedBy(owner)
    <3>1. told'.answer \in {ToOwnedItem(rows[id].request), ArchiveOf(rows[id].request)}
      BY <1>5, <2>3 DEF FindOne, FindArchive, Answer, FindByIdAndOwner
    <3>2. rows[id].request \in Request /\ HasItsArchive(rows[id].request)
      BY <2>3 DEF ReadsType, ToldStands, OwnedBy, Row
    <3>3. Stands(told'.answer, rows[id].request)
      BY <3>1, <3>2, AnswersStand
    <3>4. (told.id \in OwnedBy(told.owner))'
      BY <2>1, <2>3 DEF OwnedBy
    <3>5. Stands(told.answer, rows[told.id].request)'
      BY <2>1, <3>3 DEF Stands
    <3> QED
      BY <2>1, <3>4, <3>5 DEF ToldStands
  <2> QED
    BY <2>2, <2>3
<1> QED
  BY <1>1, <1>2, <1>3, <1>4, <1>5 DEF Next

-----------------------------------------------------------------------------

ReadsInv == ReadsType /\ Progress /\ ToldStands

LEMMA ReadsInit == Init => ReadsInv
<1>1. Init => Fresh
  BY NoWalkIsFresh DEF Init
<1> QED
  BY <1>1, InitType, FreshProgress, ToldInit DEF ReadsInv

LEMMA ReadsStep == ReadsInv /\ [Next]_vars => ReadsInv'
BY TypeStep, ProgressStep, ToldStep DEF ReadsInv

LEMMA ReadsInvariant == Spec => []ReadsInv
BY ReadsInit, ReadsStep, PTL DEF Spec

\* Every variable keeps to its values; a walk reads at most one page more than
\* there can be requests.
THEOREM ReadsTypeCorrect == Spec => []TypeOK
<1>1. ReadsInv => TypeOK
  <2> SUFFICES ASSUME ReadsInv PROVE TypeOK
    OBVIOUS
  <2>1. DOMAIN rows \subseteq Ids /\ moves \in 0..MaxMoves
        /\ \A i \in DOMAIN rows :
             rows[i] \in [owner : Owners, createdAt : Times, request : Request]
    BY DEF ReadsInv, ReadsType, Row
  <2>2. /\ walk.pc \in {"idle", "refused", "reading", "done"} /\ walk.size \in 1..MaxPageSize
        /\ walk.items # None => walk.items \in Seq(Ids)
        /\ walk.seen \in Seq(Ids) /\ walk.page \in Nat \ {0}
    BY DEF ReadsInv, ReadsType, Walk
  <2>3. walk.page \in 1..(Cardinality(Ids) + 1)
    BY <2>2, IdsAreCounted DEF ReadsInv, Progress
  <2>4. told.owner \in Owners \cup {None}
    BY DEF ReadsInv, ReadsType, NothingTold
  <2> QED
    BY <2>1, <2>2, <2>3, <2>4 DEF TypeOK
<1> QED
  BY <1>1, ReadsInvariant, PTL

\* Neither a list nor an item shows an owner a request of somebody else, and
\* such a request is answered like one that does not exist.
THEOREM OwnersSeeTheirOwnAlways == Spec => []OwnersSeeTheirOwn
<1>1. ReadsInv => OwnersSeeTheirOwn
  BY DEF ReadsInv, Progress, ToldStands, OwnersSeeTheirOwn, NothingTold
<1> QED
  BY <1>1, ReadsInvariant, PTL

\* What a later answer may show, once one stands.
LEMMA AnswersAgreeInTime ==
    ASSUME NEW q \in Request, HasItsArchive(q), NEW a, Stands(a, q),
           NEW b \in {ToOwnedItem(q), ArchiveOf(q)}
    PROVE  /\ b.kind # "notFound"
           /\ \E s \in Shown(a) : Later(s) \cap Shown(b) # {}
           /\ a.kind = "ready" /\ b.kind = "ready" => b = a
<1>1. q.status \in Statuses /\ Shown(b) \subseteq Statuses /\ Shown(b) # {}
      /\ (q.status \in Shown(b)) /\ b.kind # "notFound"
  <2>1. CASE b = ToOwnedItem(q)
    BY <2>1 DEF ToOwnedItem, Shown, Request
  <2>2. CASE b = ArchiveOf(q) /\ q.status # "COMPLETED"
    BY <2>2 DEF ArchiveOf, Shown, Request, Statuses
  <2>3. CASE b = ArchiveOf(q) /\ q.status = "COMPLETED"
    BY <2>3 DEF ArchiveOf, Shown, Request, Statuses, HasItsArchive
  <2> QED
    BY <2>1, <2>2, <2>3
<1>2. CASE \E s \in Statuses, h \in BOOLEAN :
             a = [kind |-> "item", status |-> s, hasReason |-> h] /\ q.status \in Later(s)
  <2>1. PICK s \in Statuses, h \in BOOLEAN :
          a = [kind |-> "item", status |-> s, hasReason |-> h] /\ q.status \in Later(s)
    BY <1>2
  <2>2. s \in Shown(a) /\ a.kind # "ready"
    BY <2>1 DEF Shown
  <2> QED
    BY <1>1, <2>1, <2>2
<1>3. CASE a = [kind |-> "notCompleted"]
  <2>1. "RECEIVED" \in Shown(a) /\ a.kind # "ready"
    BY <1>3 DEF Shown, Statuses
  <2> QED
    BY <1>1, <2>1, LaterIs
<1>4. CASE q.status = "COMPLETED" /\ a = [kind |-> "ready", zipStorageKey |-> q.zipStorageKey]
  <2>1. "COMPLETED" \in Shown(a) /\ "COMPLETED" \in Later("COMPLETED")
    BY <1>4, LaterIs DEF Shown
  <2>2. b.kind = "ready" => b = a
    BY <1>4 DEF ToOwnedItem, ArchiveOf
  <2> QED
    BY <1>1, <1>4, <2>1, <2>2
<1> QED
  BY <1>2, <1>3, <1>4 DEF Stands

\* Answers about one request agree with time, across both routes.
THEOREM AnswersAgreeWithTime == Spec => AnswersNeverGoBack
<1> DEFINE Agree == /\ told'.answer.kind # "notFound"
                    /\ \E s \in Shown(told.answer) : Later(s) \cap Shown(told'.answer) # {}
                    /\ told.answer.kind = "ready" /\ told'.answer.kind = "ready"
                         => told'.answer = told.answer
<1>1. ASSUME ReadsInv, [Next]_vars, told.answer # None, told'.id = told.id,
             told'.owner = told.owner, told.answer.kind # "notFound"
      PROVE  Agree
  <2>1. /\ told.id \in OwnedBy(told.owner) /\ Stands(told.answer, rows[told.id].request)
        /\ told.id \in Ids
    BY <1>1 DEF ReadsInv, ReadsType, ToldStands, NotFound, NothingTold
  <2>2. rows[told.id].request \in Request /\ HasItsArchive(rows[told.id].request)
    BY <1>1, <2>1 DEF ReadsInv, ReadsType, ToldStands, OwnedBy, Row
  <2>3. CASE told' = told
    <3>1. told.answer.kind # "notFound"
          /\ \E s \in Shown(told.answer) : Later(s) \cap Shown(told.answer) # {}
      <4>1. PICK a : a = told.answer
        OBVIOUS
      <4>2. \E s \in Shown(a) : s \in Statuses
        <5>1. CASE \E s \in Statuses, h \in BOOLEAN :
                     a = [kind |-> "item", status |-> s, hasReason |-> h]
          BY <5>1 DEF Shown
        <5>2. CASE a = [kind |-> "notCompleted"]
          BY <5>2 DEF Shown, Statuses
        <5>3. CASE \E z : a = [kind |-> "ready", zipStorageKey |-> z]
          BY <5>3 DEF Shown, Statuses
        <5> QED
          BY <2>1, <4>1, <5>1, <5>2, <5>3 DEF Stands
      <4> QED
        BY <1>1, <4>1, <4>2, LaterGoesOn
    <3> QED
      BY <2>3, <3>1
  <2>4. CASE told' = NothingTold
    BY <1>1, <2>1, <2>4 DEF NothingTold, ReadsAssumption
  <2>5. ASSUME NEW owner \in Owners, NEW id \in Ids, FindOne(owner, id) \/ FindArchive(owner, id)
        PROVE  Agree
    <3>1. id = told.id /\ owner = told.owner
      BY <1>1, <2>5 DEF FindOne, FindArchive, Answer
    <3>2. told'.answer \in {ToOwnedItem(rows[id].request), ArchiveOf(rows[id].request)}
      BY <2>1, <2>5, <3>1 DEF FindOne, FindArchive, Answer, FindByIdAndOwner
    <3> QED
      BY <2>1, <2>2, <3>1, <3>2, AnswersAgreeInTime
  <2> HIDE DEF Agree
  <2> QED
    BY <1>1, <2>3, <2>4, <2>5
    DEF Next, Insert, Advance, Begin, ReadPage, ReadTotal, AnswerPage, vars
<1>2. ReadsInv /\ [Next]_vars
        => [told.answer # None /\ told'.id = told.id /\ told'.owner = told.owner
            /\ told.answer.kind # "notFound" => Agree]_vars
  BY <1>1
<1> QED
  BY <1>2, ReadsInvariant, PTL DEF Spec, AnswersNeverGoBack

-----------------------------------------------------------------------------
(* Walks.  What was stored when a walk began has been read or is ahead of   *)
(* it: its rank is not below the next offset, and ranks do not shrink.      *)

PageRead == IF walk.items = None THEN <<>> ELSE walk.items

SeenSoFar == ToSet(walk.seen) \cup ToSet(PageRead)

NextOffset ==
    Offset(walk.page, walk.size) + (IF walk.items = None THEN 0 ELSE walk.size)

StoredIsAhead ==
    walk.pc = "reading" =>
      /\ \A i \in walk.stored : i \in SeenSoFar \/ NextOffset <= Rank(walk.owner, i)
      /\ walk.items # None /\ Len(walk.items) < walk.size => walk.stored \subseteq SeenSoFar

LEMMA RanksAreNat == ReadsType => \A o, i : Rank(o, i) \in Nat
BY RankType

LEMMA RanksAreNatNext == (ReadsType => \A o, i : Rank(o, i) \in Nat)'
BY RanksAreNat, PTL

LEMMA ToSetOfNone == ToSet(<<>>) = {}
BY DEF ToSet

\* The fields a walk is made of, as far as their values matter to arithmetic.
LEMMA WalkFields ==
    ASSUME ReadsType
    PROVE  /\ walk.size \in Nat \ {0} /\ walk.page \in Nat \ {0} /\ walk.inserts \in Nat
           /\ walk.seen \in Seq(Ids) /\ PageRead \in Seq(Ids)
           /\ Offset(walk.page, walk.size) \in Nat /\ NextOffset \in Nat
           /\ walk.items # None => walk.items \in Seq(Ids)
<1>1. /\ walk.size \in Nat \ {0} /\ walk.page \in Nat \ {0} /\ walk.inserts \in Nat
      /\ walk.seen \in Seq(Ids)
      /\ walk.items # None => walk.items \in Seq(Ids)
  BY DEF ReadsType, Walk, ReadsAssumption
<1>2. Offset(walk.page, walk.size) \in Nat
  BY <1>1, OffsetNext
<1>3. <<>> \in Seq(Ids)
  OBVIOUS
<1> QED
  BY <1>1, <1>2, <1>3 DEF NextOffset, PageRead

LEMMA FreshIsAhead ==
    ReadsType /\ Fresh => StoredIsAhead /\ WalkShowsWhatWasStored
<1> SUFFICES ASSUME ReadsType, Fresh PROVE StoredIsAhead /\ WalkShowsWhatWasStored
  OBVIOUS
<1>1. NextOffset = 0
  BY WalkFields DEF Fresh, NextOffset, Offset
<1>2. \A i : NextOffset <= Rank(walk.owner, i)
  BY <1>1, RanksAreNat
<1> QED
  BY <1>2 DEF Fresh, StoredIsAhead, WalkShowsWhatWasStored

LEMMA FreshIsAheadNext ==
    (ReadsType /\ Fresh => StoredIsAhead /\ WalkShowsWhatWasStored)'
BY FreshIsAhead, PTL

LEMMA FollowsShape ==
    ASSUME Follows
    PROVE  PageRead' = PageRead /\ SeenSoFar' = SeenSoFar /\ NextOffset' = NextOffset
BY DEF Follows, PageRead, SeenSoFar, NextOffset, Offset

LEMMA FollowsIsAhead ==
    ASSUME ReadsInv, ReadsType', StoredIsAhead, RanksGrow, Follows PROVE StoredIsAhead'
<1> SUFFICES ASSUME walk'.pc = "reading"
             PROVE  /\ \A i \in walk'.stored : \/ i \in SeenSoFar'
                                               \/ NextOffset' <= Rank(walk.owner, i)'
                    /\ walk'.items # None /\ Len(walk'.items) < walk'.size
                         => walk'.stored \subseteq SeenSoFar'
  BY DEF StoredIsAhead
<1>1. PICK o, next : o = walk.owner /\ o = walk'.owner /\ next = NextOffset
  BY DEF Follows
<1>2. /\ \A i \in walk.stored : i \in SeenSoFar \/ next <= Rank(o, i)
      /\ walk.items # None /\ Len(walk.items) < walk.size => walk.stored \subseteq SeenSoFar
  BY <1>1 DEF StoredIsAhead, Follows
<1>3. walk.stored \subseteq OwnedBy(o)
  BY <1>1 DEF ReadsInv, Progress
<1>4. \A i \in OwnedBy(o) : Rank(o, i) <= Rank(o, i)'
  BY DEF RanksGrow
<1>5. next \in Nat /\ \A i : Rank(o, i) \in Nat /\ Rank(o, i)' \in Nat
  BY <1>1, WalkFields, RanksAreNat, RanksAreNatNext DEF ReadsInv
<1>6. \A i : Rank(walk.owner, i)' = Rank(o, i)'
  BY <1>1 DEF Rank, OwnedBy
<1>7. \A i \in walk.stored : i \in SeenSoFar \/ next <= Rank(o, i)'
  BY <1>2, <1>3, <1>4, <1>5
<1> QED
  BY <1>1, <1>2, <1>6, <1>7, FollowsShape DEF Follows

\* The page that is read holds the rows whose ranks the offset and the size span.
LEMMA PageThatIsRead ==
    ASSUME ReadsType, ReadPage
    PROVE  \E o, offset, size, page :
             /\ o = walk.owner /\ offset = Offset(walk.page, walk.size) /\ size = walk.size
             /\ page = walk'.items /\ page \in Seq(Ids)
             /\ offset = NextOffset /\ offset + size = NextOffset'
             /\ offset \in Nat /\ size \in Nat \ {0}
             /\ SeenSoFar = ToSet(walk.seen)
             /\ SeenSoFar' = ToSet(walk.seen) \cup ToSet(page)
             /\ ToSet(page) \subseteq OwnedBy(o) /\ Cardinality(ToSet(page)) = Len(page)
             /\ \A i \in OwnedBy(o) :
                  i \in ToSet(page) <=> offset <= Rank(o, i) /\ Rank(o, i) < offset + size
             /\ Len(page) < size => \A i \in OwnedBy(o) : Rank(o, i) < offset + size
             /\ \A i : Rank(walk.owner, i)' = Rank(o, i)
             /\ page # None /\ Len(PageRead') = Len(page) /\ PageRead = <<>>
<1>1. PICK o, offset, size, page :
        /\ o = walk.owner /\ offset = Offset(walk.page, walk.size) /\ size = walk.size
        /\ page = walk'.items
  OBVIOUS
<1>2. offset \in Nat /\ size \in Nat \ {0}
  BY <1>1, WalkFields
<1>3. page \in PagesByOwner(o, offset, size)
  BY <1>1, ReadPageFields DEF ReadsType
<1>4. /\ page \in Seq(Ids) /\ ToSet(page) \subseteq OwnedBy(o)
      /\ Cardinality(ToSet(page)) = Len(page)
      /\ \A i \in OwnedBy(o) :
           i \in ToSet(page) <=> offset <= Rank(o, i) /\ Rank(o, i) < offset + size
      /\ Len(page) < size => \A i \in OwnedBy(o) : Rank(o, i) < offset + size
  BY <1>2, <1>3, PagesHold
<1>5. walk.items = None /\ walk'.seen = walk.seen /\ walk'.page = walk.page
      /\ walk'.size = walk.size /\ walk'.owner = walk.owner /\ UNCHANGED rows
  BY ReadPageFields DEF ReadPage, ReadsType
<1>6. page # None
  BY <1>4 DEF ReadsAssumption
<1>7. PageRead = <<>> /\ PageRead' = page
  BY <1>1, <1>5, <1>6 DEF PageRead
<1>8. SeenSoFar = ToSet(walk.seen) /\ SeenSoFar' = ToSet(walk.seen) \cup ToSet(page)
  BY <1>5, <1>7, ToSetOfNone DEF SeenSoFar
<1>9. offset = NextOffset /\ offset + size = NextOffset'
  BY <1>1, <1>2, <1>5, <1>6 DEF NextOffset, Offset
<1>10. \A i : Rank(walk.owner, i)' = Rank(o, i)
  BY <1>1, <1>5 DEF Rank, OwnedBy, Before
<1> QED
  BY <1>1, <1>2, <1>4, <1>6, <1>7, <1>8, <1>9, <1>10

\* The page that is answered has been counted as seen since it was read.
LEMMA PageThatIsAnswered ==
    ASSUME ReadsType, AnswerPage
    PROVE  /\ walk.pc = "reading" /\ PageRead = walk.items /\ walk.items \in Seq(Ids)
           /\ ToSet(walk'.seen) = SeenSoFar /\ SeenSoFar' = SeenSoFar
           /\ Len(walk'.seen) = Len(walk.seen) + Len(PageRead)
           /\ Len(PageRead') = 0 /\ walk'.items = None
           /\ walk'.stored = walk.stored /\ walk'.inserts = walk.inserts
           /\ walk'.rule = walk.rule
           /\ walk'.pc = IF LastPage THEN "done" ELSE "reading"
           /\ ~ LastPage => NextOffset' = NextOffset
           /\ \A i : Rank(walk.owner, i)' = Rank(walk.owner, i)
<1>1. /\ walk.pc = "reading" /\ walk.items # None
      /\ walk'.pc = IF LastPage THEN "done" ELSE "reading"
      /\ walk'.page = IF LastPage THEN walk.page ELSE walk.page + 1
      /\ walk'.seen = walk.seen \o walk.items
      /\ walk'.items = None /\ walk'.owner = walk.owner /\ walk'.rule = walk.rule
      /\ walk'.size = walk.size /\ walk'.stored = walk.stored /\ walk'.inserts = walk.inserts
      /\ UNCHANGED rows
  BY AnswerPageFields DEF AnswerPage, ReadsType
<1>2. /\ walk.seen \in Seq(Ids) /\ walk.items \in Seq(Ids)
      /\ walk.size \in Nat \ {0} /\ walk.page \in Nat \ {0}
  BY <1>1, WalkFields
<1>3. PageRead = walk.items /\ PageRead' = <<>>
  BY <1>1 DEF PageRead
<1>4. ToSet(walk'.seen) = ToSet(walk.seen) \cup ToSet(walk.items)
  BY <1>1, <1>2, ToSetOfBoth
<1>5. Len(walk'.seen) = Len(walk.seen) + Len(walk.items)
  BY <1>1, <1>2
<1>6. SeenSoFar = ToSet(walk'.seen) /\ SeenSoFar' = ToSet(walk'.seen)
  BY <1>3, <1>4, ToSetOfNone DEF SeenSoFar
<1>7. ~ LastPage => NextOffset' = NextOffset
  <2>1. PICK page, size : page = walk.page /\ size = walk.size
                         /\ page \in Nat \ {0} /\ size \in Nat \ {0}
    BY <1>2
  <2>2. Offset(page + 1, size) = Offset(page, size) + size /\ Offset(page + 1, size) + 0 = Offset(page + 1, size)
    BY <2>1, OffsetNext DEF Offset
  <2>3. NextOffset = Offset(page, size) + size
    BY <1>1, <2>1 DEF NextOffset
  <2>4. ~ LastPage => NextOffset' = Offset(page + 1, size) + 0
    BY <1>1, <2>1 DEF NextOffset, Offset
  <2> QED
    BY <2>2, <2>3, <2>4
<1>8. \A i : Rank(walk.owner, i)' = Rank(walk.owner, i)
  BY <1>1 DEF Rank, OwnedBy, Before
<1>9. Len(PageRead') = 0
  BY <1>3
<1> QED
  BY <1>1, <1>2, <1>3, <1>5, <1>6, <1>7, <1>8, <1>9

LEMMA AheadStep ==
    ASSUME ReadsInv, ReadsType', StoredIsAhead, WalkShowsWhatWasStored, [Next]_vars
    PROVE  StoredIsAhead' /\ WalkShowsWhatWasStored'
<1> USE DEF ReadsInv
<1>1. CASE \/ \E i \in Ids, owner \in Owners, t \in Times : Insert(i, owner, t)
           \/ \E i \in DOMAIN rows : Advance(i)
           \/ UNCHANGED vars
  <2>1. Follows /\ RanksGrow
    BY <1>1, OthersFollow, StepsGrow DEF vars, ReadsType
  <2>2. WalkShowsWhatWasStored'
    BY <2>1 DEF WalkShowsWhatWasStored, Follows
  <2> QED
    BY <2>1, <2>2, FollowsIsAhead
<1>2. CASE \E owner \in Owners, raw \in RawSizes, rule \in {"shortPage", "total"} :
             Begin(owner, raw, rule)
  BY <1>2, BeginIsFresh, FreshIsAheadNext
<1>3. CASE \E owner \in Owners, id \in Ids : FindOne(owner, id) \/ FindArchive(owner, id)
  <2>1. walk' = NoWalk
    BY <1>3 DEF FindOne, FindArchive, Answer
  <2> QED
    BY <2>1, NoWalkIsFreshNext, FreshIsAheadNext
<1>4. CASE ReadPage
  <2>1. PICK o, offset, size, page :
             /\ o = walk.owner /\ size = walk.size
             /\ page = walk'.items
             /\ offset = NextOffset /\ offset + size = NextOffset'
             /\ offset \in Nat /\ size \in Nat \ {0}
             /\ SeenSoFar = ToSet(walk.seen)
             /\ SeenSoFar' = ToSet(walk.seen) \cup ToSet(page)
             /\ \A i \in OwnedBy(o) :
                  i \in ToSet(page) <=> offset <= Rank(o, i) /\ Rank(o, i) < offset + size
             /\ Len(page) < size => \A i \in OwnedBy(o) : Rank(o, i) < offset + size
             /\ \A i : Rank(walk.owner, i)' = Rank(o, i)
    BY <1>4, PageThatIsRead
  <2>2. walk.pc = "reading" /\ walk'.pc = "reading" /\ walk'.stored = walk.stored
        /\ walk'.size = walk.size
    BY <1>4, ReadPageFields DEF ReadsType
  <2>3. walk.stored \subseteq OwnedBy(o)
    BY <2>1 DEF Progress
  <2>4. \A i \in walk.stored : i \in ToSet(walk.seen) \/ offset <= Rank(o, i)
    BY <2>1, <2>2 DEF StoredIsAhead
  <2>5. \A i : Rank(o, i) \in Nat
    BY RanksAreNat
  <2>6. \A i \in walk.stored : i \in SeenSoFar' \/ offset + size <= Rank(o, i)
    BY <2>1, <2>3, <2>4, <2>5
  <2>7. Len(page) < size => walk.stored \subseteq SeenSoFar'
    BY <2>1, <2>3, <2>4, <2>5
  <2>8. StoredIsAhead'
    BY <2>1, <2>2, <2>6, <2>7 DEF StoredIsAhead
  <2>9. WalkShowsWhatWasStored'
    BY <2>2 DEF WalkShowsWhatWasStored
  <2> QED
    BY <2>8, <2>9
<1>5. CASE ReadTotal
  <2>1. /\ walk.pc = "reading" /\ walk'.pc = "reading" /\ walk'.owner = walk.owner
        /\ walk'.size = walk.size /\ walk'.page = walk.page /\ walk'.items = walk.items
        /\ walk'.stored = walk.stored /\ walk'.seen = walk.seen /\ UNCHANGED rows
    BY <1>5, ReadTotalFields DEF ReadTotal, ReadsType
  <2>2. /\ SeenSoFar' = SeenSoFar /\ NextOffset' = NextOffset
        /\ \A i : Rank(walk.owner, i)' = Rank(walk.owner, i)
    BY <2>1 DEF SeenSoFar, PageRead, NextOffset, Offset, Rank, OwnedBy, Before
  <2> QED
    BY <2>1, <2>2 DEF StoredIsAhead, WalkShowsWhatWasStored
<1>6. CASE AnswerPage
  <2>1. /\ walk.pc = "reading" /\ walk.items # None
        /\ ToSet(walk'.seen) = SeenSoFar /\ SeenSoFar' = SeenSoFar
        /\ walk'.items = None /\ walk'.stored = walk.stored /\ walk'.rule = walk.rule
        /\ walk'.pc = IF LastPage THEN "done" ELSE "reading"
        /\ ~ LastPage => NextOffset' = NextOffset
        /\ \A i : Rank(walk.owner, i)' = Rank(walk.owner, i)
    BY <1>6, PageThatIsAnswered, AnswerPageFields DEF ReadsType
  <2>2. CASE LastPage
    <3>1. walk.rule = "shortPage" => walk.stored \subseteq SeenSoFar
      BY <2>1, <2>2 DEF LastPage, StoredIsAhead
    <3> QED
      BY <2>1, <2>2, <3>1 DEF StoredIsAhead, WalkShowsWhatWasStored
  <2>3. CASE ~ LastPage
    BY <2>1, <2>3 DEF StoredIsAhead, WalkShowsWhatWasStored
  <2> QED
    BY <2>2, <2>3
<1> QED
  BY <1>1, <1>2, <1>3, <1>4, <1>5, <1>6 DEF Next

LEMMA WalksGoAhead == Spec => [](StoredIsAhead /\ WalkShowsWhatWasStored)
<1>1. Init => StoredIsAhead /\ WalkShowsWhatWasStored
  BY InitType, NoWalkIsFresh, FreshIsAhead DEF Init
<1>2. ReadsInv /\ ReadsInv' /\ StoredIsAhead /\ WalkShowsWhatWasStored /\ [Next]_vars
        => (StoredIsAhead /\ WalkShowsWhatWasStored)'
  BY AheadStep DEF ReadsInv
<1> QED
  BY <1>1, <1>2, ReadsInvariant, PTL DEF Spec

\* A walk that ends at a page that is not full has shown every request that was
\* stored when it began, whatever was created and in whichever order.
THEOREM WalksShowWhatWasStored == Spec => []WalkShowsWhatWasStored
BY WalksGoAhead, PTL

-----------------------------------------------------------------------------
(* Repeats.  Every insert pays for one: it pushes at most one of the rows   *)
(* that were seen, the one whose rank was just below, over the next offset, *)
(* where a page will show it again.                                         *)

Above(o, A, t) == {x \in A : t <= Rank(o, x)}

RepeatsArePaid ==
    walk.pc = "reading" =>
      Len(walk.seen) + Len(PageRead) + Cardinality(Above(walk.owner, SeenSoFar, NextOffset))
        <= walk.inserts + Cardinality(SeenSoFar)

LEMMA OfIdsIsFinite ==
    ASSUME NEW A \in SUBSET Ids PROVE IsFiniteSet(A) /\ Cardinality(A) \in Nat
BY FS_Subset, FS_CardinalityType DEF ReadsAssumption

LEMMA AddOne ==
    ASSUME NEW S, NEW x, IsFiniteSet(S)
    PROVE  /\ IsFiniteSet(S \cup {x}) /\ Cardinality(S \cup {x}) \in Nat
           /\ Cardinality(S \cup {x}) <= Cardinality(S) + 1
<1>1. Cardinality(S) \in Nat
  BY FS_CardinalityType
<1>2. /\ IsFiniteSet(S \cup {x})
      /\ x \in S => Cardinality(S \cup {x}) = Cardinality(S)
      /\ x \notin S => Cardinality(S \cup {x}) = Cardinality(S) + 1
  BY FS_AddElement
<1> QED
  BY <1>1, <1>2

LEMMA InsertRaisesByOne ==
    ASSUME ReadsType, ReadsType', NEW i, NEW owner, NEW t, Insert(i, owner, t), NEW o,
           NEW j \in OwnedBy(o)
    PROVE  /\ Rank(o, j)' <= Rank(o, j) + 1
           /\ o # owner => Rank(o, j)' = Rank(o, j)
<1> DEFINE B == {k \in OwnedBy(o) : Before(k, j)}
           C == {k \in OwnedBy(o)' : Before(k, j)'}
<1>1. /\ OwnedBy(o)' = IF o = owner THEN OwnedBy(o) \cup {i} ELSE OwnedBy(o)
      /\ \A x, k \in DOMAIN rows : Before(x, k)' <=> Before(x, k)
      /\ OwnedBy(o) \subseteq DOMAIN rows
  BY InsertGrows DEF OwnedBy
<1>2. C \subseteq B \cup {i} /\ (o # owner => C = B)
  BY <1>1
<1>3. IsFiniteSet(B) /\ Cardinality(B) \in Nat
  <2>1. B \in SUBSET Ids
    BY DEF OwnedBy, ReadsType
  <2> QED
    BY <2>1, OfIdsIsFinite
<1>4. Rank(o, j) = Cardinality(B) /\ Rank(o, j)' = Cardinality(C)
  BY DEF Rank
<1> HIDE DEF B, C
<1>5. IsFiniteSet(B \cup {i}) /\ Cardinality(B \cup {i}) <= Cardinality(B) + 1
      /\ Cardinality(B \cup {i}) \in Nat
  BY <1>3, AddOne
<1>6. Cardinality(C) <= Cardinality(B \cup {i}) /\ Cardinality(C) \in Nat
  BY <1>2, <1>5, FS_Subset, FS_CardinalityType
<1> QED
  BY <1>2, <1>3, <1>4, <1>5, <1>6

\* When ranks grow by one at most, one row at most comes to be above a bound.
LEMMA AboveGrowsByOne ==
    ASSUME ReadsType, ReadsType', NEW o, NEW A \in SUBSET OwnedBy(o), NEW t \in Nat,
           \A j \in OwnedBy(o) : Rank(o, j)' <= Rank(o, j) + 1
    PROVE  /\ Cardinality(Above(o, A, t)') <= Cardinality(Above(o, A, t)) + 1
           /\ Cardinality(Above(o, A, t)') \in Nat /\ Cardinality(Above(o, A, t)) \in Nat
<1> DEFINE X == Above(o, A, t)
           Y == Above(o, A, t)'
<1>1. Y = {x \in A : t <= Rank(o, x)'} /\ X = {x \in A : t <= Rank(o, x)}
  BY DEF Above
<1>2. A \in SUBSET Ids
  BY DEF OwnedBy, ReadsType
<1>3. X \in SUBSET Ids /\ Y \in SUBSET Ids
  BY <1>1, <1>2
<1>4. \A x : Rank(o, x) \in Nat /\ Rank(o, x)' \in Nat
  BY RanksAreNat, RanksAreNatNext
<1>5. \A x, y \in A : Rank(o, x) = Rank(o, y) => x = y
  BY RanksDiffer
<1>6. \A x \in A : Rank(o, x)' <= Rank(o, x) + 1
  OBVIOUS
<1> HIDE DEF X, Y
<1>7. IsFiniteSet(X) /\ Cardinality(X) \in Nat /\ IsFiniteSet(Y) /\ Cardinality(Y) \in Nat
  BY <1>3, OfIdsIsFinite
<1>8. \E y : Y \subseteq X \cup {y}
  <2>1. CASE \E y \in A : Rank(o, y) + 1 = t
    <3>1. PICK y \in A : Rank(o, y) + 1 = t
      BY <2>1
    <3>2. ASSUME NEW x \in Y, x # y PROVE x \in X
      <4>1. x \in A /\ t <= Rank(o, x)' /\ Rank(o, x)' <= Rank(o, x) + 1
        BY <1>1, <1>6, <3>2
      <4>2. Rank(o, x) # Rank(o, y)
        BY <1>5, <3>1, <3>2, <4>1
      <4>3. t <= Rank(o, x)
        BY <1>4, <3>1, <4>1, <4>2
      <4> QED
        BY <1>1, <4>1, <4>3
    <3> QED
      BY <3>2
  <2>2. CASE ~ \E y \in A : Rank(o, y) + 1 = t
    <3>1. ASSUME NEW x \in Y PROVE x \in X
      <4>1. x \in A /\ t <= Rank(o, x)' /\ Rank(o, x)' <= Rank(o, x) + 1 /\ Rank(o, x) + 1 # t
        BY <1>1, <1>6, <2>2, <3>1
      <4>2. t <= Rank(o, x)
        BY <1>4, <4>1
      <4> QED
        BY <1>1, <4>1, <4>2
    <3> QED
      BY <3>1
  <2> QED
    BY <2>1, <2>2
<1>9. PICK y : Y \subseteq X \cup {y}
  BY <1>8
<1>10. IsFiniteSet(X \cup {y}) /\ Cardinality(X \cup {y}) <= Cardinality(X) + 1
       /\ Cardinality(X \cup {y}) \in Nat
  BY <1>7, AddOne
<1>11. Cardinality(Y) <= Cardinality(X \cup {y})
  BY <1>9, <1>10, FS_Subset
<1>12. Cardinality(Y) <= Cardinality(X) + 1
  BY <1>7, <1>10, <1>11
<1> QED
  BY <1>7, <1>12 DEF X, Y

LEMMA FreshIsPaid == ReadsType /\ Fresh => RepeatsArePaid /\ RepeatsAreInserts
<1> SUFFICES ASSUME ReadsType, Fresh PROVE RepeatsArePaid /\ RepeatsAreInserts
  OBVIOUS
<1>1. walk.seen = <<>> /\ PageRead = <<>> /\ walk.inserts = 0 /\ ToSet(walk.seen) = {}
  BY ToSetOfNone DEF Fresh, PageRead
<1>2. SeenSoFar = {}
  BY <1>1, ToSetOfNone DEF SeenSoFar
<1>3. Above(walk.owner, SeenSoFar, NextOffset) = {}
  BY <1>2 DEF Above
<1>4. Cardinality({}) = 0 /\ Len(<<>>) = 0
  BY FS_EmptySet
<1>5. /\ Len(walk.seen) = 0 /\ Len(PageRead) = 0 /\ Cardinality(ToSet(walk.seen)) = 0
      /\ Cardinality(SeenSoFar) = 0
      /\ Cardinality(Above(walk.owner, SeenSoFar, NextOffset)) = 0
  BY <1>1, <1>2, <1>3, <1>4
<1> QED
  BY <1>1, <1>5 DEF RepeatsArePaid, RepeatsAreInserts

LEMMA FreshIsPaidNext ==
    (ReadsType /\ Fresh => RepeatsArePaid /\ RepeatsAreInserts)'
BY FreshIsPaid, PTL

\* What was seen is owned, so counted, while a walk is read.
LEMMA SeenIsOwned ==
    ASSUME ReadsType, Progress, walk.pc = "reading"
    PROVE  SeenSoFar \subseteq OwnedBy(walk.owner) /\ SeenSoFar \in SUBSET Ids
<1>1. ToSet(PageRead) \subseteq OwnedBy(walk.owner)
  BY ToSetOfNone DEF PageRead, Progress
<1> QED
  BY <1>1 DEF SeenSoFar, Progress, OwnedBy, ReadsType

LEMMA FollowsIsPaid ==
    ASSUME ReadsInv, ReadsType', RepeatsArePaid, RepeatsAreInserts, Follows, walk.pc = "reading",
           NEW o, o = walk.owner,
           \/ /\ walk'.inserts = walk.inserts
              /\ \A j \in OwnedBy(o) : Rank(o, j)' = Rank(o, j)
           \/ /\ walk'.inserts = walk.inserts + 1
              /\ \A j \in OwnedBy(o) : Rank(o, j)' <= Rank(o, j) + 1
    PROVE  RepeatsArePaid'
<1> USE DEF ReadsInv
<1>1. PICK A, t, n, p, c, ins :
        /\ A = SeenSoFar /\ t = NextOffset /\ n = Len(walk.seen) /\ p = Len(PageRead)
        /\ c = Cardinality(SeenSoFar) /\ ins = walk.inserts
  OBVIOUS
<1>2. /\ t \in Nat /\ n \in Nat /\ p \in Nat /\ ins \in Nat
      /\ A \in SUBSET OwnedBy(o) /\ c \in Nat /\ c = Cardinality(A)
  <2>1. SeenSoFar \in SUBSET OwnedBy(o) /\ Cardinality(SeenSoFar) \in Nat
    BY SeenIsOwned, OfIdsIsFinite
  <2> QED
    BY <1>1, <2>1, WalkFields
<1>3. /\ A = SeenSoFar' /\ t = NextOffset' /\ n = Len(walk'.seen) /\ p = Len(PageRead')
      /\ o = walk'.owner
  BY <1>1, FollowsShape DEF Follows
<1>4. n + p + Cardinality(Above(o, A, t)) <= ins + c
  BY <1>1 DEF RepeatsArePaid
<1>5. Above(walk.owner, SeenSoFar, NextOffset)' = Above(o, A, t)'
  BY <1>3 DEF Above, Rank, OwnedBy
<1>6. n + p + Cardinality(Above(o, A, t)') <= walk'.inserts + c
  <2>1. CASE /\ walk'.inserts = walk.inserts
             /\ \A j \in OwnedBy(o) : Rank(o, j)' = Rank(o, j)
    <3>1. Above(o, A, t)' = Above(o, A, t)
      BY <1>2, <2>1 DEF Above
    <3> QED
      BY <1>1, <1>4, <2>1, <3>1
  <2>2. CASE /\ walk'.inserts = walk.inserts + 1
             /\ \A j \in OwnedBy(o) : Rank(o, j)' <= Rank(o, j) + 1
    <3>1. PICK x, y : x = Cardinality(Above(o, A, t)) /\ y = Cardinality(Above(o, A, t)')
      OBVIOUS
    <3>2. y <= x + 1 /\ y \in Nat /\ x \in Nat
      BY <1>2, <2>2, <3>1, AboveGrowsByOne
    <3>3. n + p + x <= ins + c
      BY <1>4, <3>1
    <3>4. n + p + y <= (ins + 1) + c
      BY <1>2, <3>2, <3>3
    <3> QED
      BY <1>1, <2>2, <3>1, <3>4
  <2> QED
    BY <2>1, <2>2
<1> QED
  BY <1>1, <1>2, <1>3, <1>5, <1>6 DEF RepeatsArePaid

\* A page that is read repeats the rows it shows again, which were counted as
\* above the offset and no longer are.
LEMMA ReadPageIsPaid ==
    ASSUME ReadsInv, RepeatsArePaid, ReadPage PROVE RepeatsArePaid'
<1> USE DEF ReadsInv
<1>1. PICK o, offset, size, page :
             /\ o = walk.owner
             /\ offset = NextOffset /\ offset + size = NextOffset'
             /\ offset \in Nat /\ size \in Nat \ {0} /\ page \in Seq(Ids)
             /\ SeenSoFar = ToSet(walk.seen)
             /\ SeenSoFar' = ToSet(walk.seen) \cup ToSet(page)
             /\ ToSet(page) \subseteq OwnedBy(o) /\ Cardinality(ToSet(page)) = Len(page)
             /\ \A i \in OwnedBy(o) :
                  i \in ToSet(page) <=> offset <= Rank(o, i) /\ Rank(o, i) < offset + size
             /\ \A i : Rank(walk.owner, i)' = Rank(o, i)
             /\ Len(PageRead') = Len(page) /\ PageRead = <<>>
  BY PageThatIsRead
<1>2. walk.pc = "reading" /\ walk'.seen = walk.seen /\ walk'.inserts = walk.inserts
  BY ReadPageFields DEF ReadsType
<1> DEFINE A == ToSet(walk.seen)
           P == ToSet(page)
           X == Above(o, A, offset)
           Y == Above(o, A \cup P, offset + size)
<1>3. A \subseteq OwnedBy(o) /\ P \subseteq OwnedBy(o) /\ OwnedBy(o) \subseteq Ids
  BY <1>1 DEF Progress, OwnedBy, ReadsType
<1>4. \A x : Rank(o, x) \in Nat
  BY RanksAreNat
<1>5. X = (A \cap P) \cup Y /\ (A \cap P) \cap Y = {}
  <2>1. X = {x \in A : offset <= Rank(o, x)}
        /\ Y = {x \in A \cup P : offset + size <= Rank(o, x)}
    BY DEF Above
  <2> HIDE DEF A, P, X, Y
  <2>2. \A x \in P : offset <= Rank(o, x) /\ ~ offset + size <= Rank(o, x)
    BY <1>1, <1>3, <1>4 DEF P
  <2>3. \A x \in A : offset <= Rank(o, x) => x \in P \/ offset + size <= Rank(o, x)
    BY <1>1, <1>3, <1>4 DEF P
  <2>4. \A x : offset + size <= Rank(o, x) => offset <= Rank(o, x)
    BY <1>1, <1>4
  <2> QED
    BY <2>1, <2>2, <2>3, <2>4
<1>6. Above(walk.owner, SeenSoFar, NextOffset)' = Y
  BY <1>1 DEF Above
<1>7. /\ IsFiniteSet(A) /\ IsFiniteSet(P) /\ IsFiniteSet(A \cap P) /\ IsFiniteSet(Y)
      /\ Cardinality(A) \in Nat /\ Cardinality(P) \in Nat /\ Cardinality(A \cap P) \in Nat
      /\ Cardinality(Y) \in Nat
  <2>1. A \in SUBSET Ids /\ P \in SUBSET Ids /\ A \cap P \in SUBSET Ids /\ Y \in SUBSET Ids
    BY <1>3 DEF Above
  <2> HIDE DEF A, P, Y
  <2> QED
    BY <2>1, OfIdsIsFinite
<1>8. Len(walk.seen) + 0 + Cardinality(X) <= walk.inserts + Cardinality(A)
  <2>1. Len(PageRead) = 0
    BY <1>1
  <2> QED
    BY <1>1, <1>2, <2>1 DEF RepeatsArePaid
<1>9. Len(PageRead') = Cardinality(P) /\ Len(walk.seen) \in Nat /\ walk.inserts \in Nat
      /\ SeenSoFar' = A \cup P
  BY <1>1, WalkFields
<1> HIDE DEF A, P, X, Y
<1>10. Cardinality(A \cup P) = Cardinality(A) + Cardinality(P) - Cardinality(A \cap P)
  BY <1>7, FS_Union
<1>11. Cardinality(X) = Cardinality(A \cap P) + Cardinality(Y)
  <2>1. Cardinality((A \cap P) \cup Y)
          = Cardinality(A \cap P) + Cardinality(Y) - Cardinality((A \cap P) \cap Y)
    BY <1>7, FS_Union
  <2>2. Cardinality((A \cap P) \cap Y) = 0
    BY <1>5, FS_EmptySet
  <2> QED
    BY <1>5, <1>7, <2>1, <2>2
<1>12. Len(walk.seen) + Cardinality(P) + Cardinality(Y) <= walk.inserts + Cardinality(A \cup P)
  BY <1>7, <1>8, <1>9, <1>10, <1>11
<1> QED
  BY <1>2, <1>6, <1>9, <1>12 DEF RepeatsArePaid

LEMMA AnswerPageIsPaid ==
    ASSUME ReadsInv, RepeatsArePaid, AnswerPage PROVE RepeatsArePaid' /\ RepeatsAreInserts'
<1> USE DEF ReadsInv
<1>1. /\ walk.pc = "reading"
      /\ ToSet(walk'.seen) = SeenSoFar /\ SeenSoFar' = SeenSoFar
      /\ Len(walk'.seen) = Len(walk.seen) + Len(PageRead)
      /\ Len(PageRead') = 0 /\ walk'.inserts = walk.inserts
      /\ walk'.pc = IF LastPage THEN "done" ELSE "reading"
      /\ ~ LastPage => NextOffset' = NextOffset
      /\ \A i : Rank(walk.owner, i)' = Rank(walk.owner, i)
  BY PageThatIsAnswered
<1>2. /\ Len(walk.seen) \in Nat /\ Len(PageRead) \in Nat /\ walk.inserts \in Nat
      /\ Cardinality(SeenSoFar) \in Nat
      /\ Cardinality(Above(walk.owner, SeenSoFar, NextOffset)) \in Nat
  <2>1. SeenSoFar \in SUBSET Ids
    BY <1>1, SeenIsOwned
  <2>2. Above(walk.owner, SeenSoFar, NextOffset) \in SUBSET Ids
    BY <2>1 DEF Above
  <2> QED
    BY <2>1, <2>2, OfIdsIsFinite, WalkFields
<1>3. Len(walk.seen) + Len(PageRead) + Cardinality(Above(walk.owner, SeenSoFar, NextOffset))
        <= walk.inserts + Cardinality(SeenSoFar)
  BY <1>1 DEF RepeatsArePaid
<1>4. RepeatsAreInserts'
  <2>1. PICK n, a, ins, c :
          /\ n = Len(walk.seen) + Len(PageRead) /\ ins = walk.inserts
          /\ a = Cardinality(Above(walk.owner, SeenSoFar, NextOffset))
          /\ c = Cardinality(SeenSoFar)
    OBVIOUS
  <2>2. n \in Nat /\ a \in Nat /\ ins \in Nat /\ c \in Nat /\ n + a <= ins + c
    BY <1>2, <1>3, <2>1
  <2>3. n - c <= ins
    BY <2>2
  <2> QED
    BY <1>1, <2>1, <2>3 DEF RepeatsAreInserts
<1>5. CASE LastPage
  BY <1>1, <1>4, <1>5 DEF RepeatsArePaid
<1>6. CASE ~ LastPage
  <2>1. Above(walk.owner, SeenSoFar, NextOffset)' = Above(walk.owner, SeenSoFar, NextOffset)
    BY <1>1, <1>6 DEF Above
  <2>2. Len(walk'.seen) + Len(PageRead')
          + Cardinality(Above(walk.owner, SeenSoFar, NextOffset)')
          <= walk'.inserts + Cardinality(SeenSoFar')
    <3>1. Len(walk'.seen) + Len(PageRead') = Len(walk.seen) + Len(PageRead)
      BY <1>1, <1>2
    <3> QED
      BY <1>1, <1>3, <2>1, <3>1
  <2> QED
    BY <1>4, <2>2 DEF RepeatsArePaid
<1> QED
  BY <1>5, <1>6

LEMMA OthersPay ==
    ASSUME ReadsInv, ReadsType', RepeatsArePaid, RepeatsAreInserts,
           \/ \E i \in Ids, owner \in Owners, t \in Times : Insert(i, owner, t)
           \/ \E i \in DOMAIN rows : Advance(i)
           \/ UNCHANGED vars
    PROVE  RepeatsArePaid' /\ RepeatsAreInserts'
<1> USE DEF ReadsInv
<1>1. Follows
  BY OthersFollow DEF vars, ReadsType
<1>2. RepeatsAreInserts'
  <2>1. walk.inserts \in Nat /\ walk'.seen = walk.seen
        /\ walk'.inserts \in {walk.inserts, walk.inserts + 1}
    BY <1>1, WalkFields DEF Follows
  <2>2. Cardinality(ToSet(walk.seen)) \in Nat /\ Len(walk.seen) \in Nat
    <3>1. ToSet(walk.seen) \in SUBSET Ids
      BY DEF Progress, OwnedBy, ReadsType
    <3> QED
      BY <3>1, OfIdsIsFinite, WalkFields
  <2> QED
    BY <2>1, <2>2 DEF RepeatsAreInserts
<1>3. CASE walk.pc # "reading"
  BY <1>1, <1>2, <1>3 DEF RepeatsArePaid, Follows
<1>4. CASE walk.pc = "reading"
  <2>1. PICK o : o = walk.owner
    OBVIOUS
  <2>2. \A j : Rank(o, j) \in Nat
    BY RanksAreNat
  <2>3. \/ /\ walk'.inserts = walk.inserts
           /\ \A j \in OwnedBy(o) : Rank(o, j)' = Rank(o, j)
        \/ /\ walk'.inserts = walk.inserts + 1
           /\ \A j \in OwnedBy(o) : Rank(o, j)' <= Rank(o, j) + 1
    <3>1. ASSUME NEW i \in Ids, NEW owner \in Owners, NEW t \in Times, Insert(i, owner, t),
                 owner = o
          PROVE  /\ walk'.inserts = walk.inserts + 1
                 /\ \A j \in OwnedBy(o) : Rank(o, j)' <= Rank(o, j) + 1
      <4>1. walk' = [walk EXCEPT !.inserts = @ + 1]
        BY <2>1, <3>1 DEF Insert
      <4>2. walk'.inserts = walk.inserts + 1
        BY <4>1 DEF ReadsType, Walk
      <4> QED
        BY <3>1, <4>2, InsertRaisesByOne
    <3>2. ASSUME NEW i \in Ids, NEW owner \in Owners, NEW t \in Times, Insert(i, owner, t),
                 owner # o
          PROVE  /\ walk'.inserts = walk.inserts
                 /\ \A j \in OwnedBy(o) : Rank(o, j)' = Rank(o, j)
      <4>1. walk' = walk
        BY <2>1, <3>2 DEF Insert
      <4> QED
        BY <3>2, <4>1, InsertRaisesByOne
    <3>3. ASSUME NEW i \in DOMAIN rows, Advance(i)
          PROVE  /\ walk'.inserts = walk.inserts
                 /\ \A j \in OwnedBy(o) : Rank(o, j)' = Rank(o, j)
      <4>1. OwnedBy(o)' = OwnedBy(o) /\ OwnedBy(o) \subseteq DOMAIN rows
            /\ \A j, k \in DOMAIN rows : Before(j, k)' <=> Before(j, k)
        BY <3>3, AdvanceKeepsOrder DEF OwnedBy
      <4>2. \A j \in OwnedBy(o) :
              {k \in OwnedBy(o)' : Before(k, j)'} = {k \in OwnedBy(o) : Before(k, j)}
        BY <4>1
      <4> QED
        BY <3>3, <4>2 DEF Rank, Advance
    <3>4. CASE UNCHANGED vars
      BY <3>4 DEF vars, Rank, OwnedBy, Before
    <3> QED
      BY <3>1, <3>2, <3>3, <3>4
  <2>4. RepeatsArePaid'
    BY <1>1, <1>4, <2>1, <2>3, FollowsIsPaid
  <2> QED
    BY <1>2, <2>4
<1> QED
  BY <1>3, <1>4

LEMMA PaidStep ==
    ASSUME ReadsInv, ReadsType', RepeatsArePaid, RepeatsAreInserts, [Next]_vars
    PROVE  RepeatsArePaid' /\ RepeatsAreInserts'
<1>1. CASE \/ \E i \in Ids, owner \in Owners, t \in Times : Insert(i, owner, t)
           \/ \E i \in DOMAIN rows : Advance(i)
           \/ UNCHANGED vars
  BY <1>1, OthersPay
<1>2. CASE \E owner \in Owners, raw \in RawSizes, rule \in {"shortPage", "total"} :
             Begin(owner, raw, rule)
  BY <1>2, BeginIsFresh, FreshIsPaidNext DEF ReadsInv
<1>3. CASE \E owner \in Owners, id \in Ids : FindOne(owner, id) \/ FindArchive(owner, id)
  <2>1. walk' = NoWalk
    BY <1>3 DEF FindOne, FindArchive, Answer
  <2> QED
    BY <2>1, NoWalkIsFreshNext, FreshIsPaidNext
<1>4. CASE ReadPage
  <2>1. walk'.seen = walk.seen /\ walk'.inserts = walk.inserts
    BY <1>4, ReadPageFields DEF ReadsInv, ReadsType
  <2> QED
    BY <1>4, <2>1, ReadPageIsPaid DEF RepeatsAreInserts
<1>5. CASE ReadTotal
  <2>1. /\ walk'.pc = walk.pc /\ walk'.owner = walk.owner
        /\ walk'.size = walk.size /\ walk'.page = walk.page /\ walk'.items = walk.items
        /\ walk'.inserts = walk.inserts /\ walk'.seen = walk.seen /\ UNCHANGED rows
    BY <1>5, ReadTotalFields DEF ReadTotal, ReadsInv, ReadsType
  <2>2. /\ SeenSoFar' = SeenSoFar /\ NextOffset' = NextOffset /\ PageRead' = PageRead
        /\ \A i : Rank(walk.owner, i)' = Rank(walk.owner, i)
    BY <2>1 DEF SeenSoFar, PageRead, NextOffset, Offset, Rank, OwnedBy, Before
  <2>3. Above(walk.owner, SeenSoFar, NextOffset)' = Above(walk.owner, SeenSoFar, NextOffset)
    BY <2>2 DEF Above
  <2> QED
    BY <2>1, <2>2, <2>3 DEF RepeatsArePaid, RepeatsAreInserts
<1>6. CASE AnswerPage
  BY <1>6, AnswerPageIsPaid
<1> QED
  BY <1>1, <1>2, <1>3, <1>4, <1>5, <1>6 DEF Next

LEMMA WalksPay == Spec => [](RepeatsArePaid /\ RepeatsAreInserts)
<1>1. Init => RepeatsArePaid /\ RepeatsAreInserts
  BY InitType, NoWalkIsFresh, FreshIsPaid DEF Init
<1>2. ReadsInv /\ ReadsInv' /\ RepeatsArePaid /\ RepeatsAreInserts /\ [Next]_vars
        => (RepeatsArePaid /\ RepeatsAreInserts)'
  BY PaidStep DEF ReadsInv
<1> QED
  BY <1>1, <1>2, ReadsInvariant, PTL DEF Spec

\* A walk repeats a request only because one was created meanwhile, and each
\* that was created makes one other repeat at most.
THEOREM RepeatsArePaidByInserts == Spec => []RepeatsAreInserts
BY WalksPay, PTL

=============================================================================
