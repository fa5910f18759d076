------------------------- MODULE OutboxRelay_proofs -------------------------
(***************************************************************************)
(* What the relays promise, for any number of requests, replicas, rows,    *)
(* faults and any batch size: rows reach the broker in the order of their  *)
(* request, are marked only once they did, and only a fault repeats one.   *)
(***************************************************************************)
EXTENDS OutboxRelay, SequenceTheorems, FiniteSetTheorems, WellFoundedInduction, TLAPS

USE RelayAssumption

Row == [request : Requests, pattern : Patterns]

PCs == {"idle", "select", "sent", "waiting", "confirmed", "stopped"}

HasArrived(i) == \E n \in DOMAIN arrived : arrived[n] = i

-----------------------------------------------------------------------------
(* Sequences and least ids *)

LEMMA NatHasLeast == ASSUME NEW S \in SUBSET Nat, S # {} PROVE \E x \in S : \A y \in S : x <= y
<1>1. PICK x \in S : \A y \in S : ~ (<<y, x>> \in OpToRel(<, Nat))
  BY NatLessThanWellFounded, WFMin
<1>2. \A y \in S : ~ (y < x)
  BY <1>1 DEF OpToRel
<1> QED
  BY <1>2

LEMMA MinIsLeast ==
    ASSUME NEW S \in SUBSET Nat, S # {} PROVE Min(S) \in S /\ \A y \in S : Min(S) <= y
BY NatHasLeast DEF Min

LEMMA FunctionIsSeq ==
    ASSUME NEW S, NEW n \in Nat, NEW f \in [1..n -> S] PROVE f \in Seq(S) /\ Len(f) = n
<1>1. Seq(S) = UNION {[1..m -> S] : m \in Nat}
  BY SeqDef
<1>2. f \in Seq(S)
  BY <1>1
<1>3. DOMAIN f = 1..n /\ DOMAIN f = 1..Len(f) /\ Len(f) \in Nat
  BY <1>2, LenProperties
<1>4. 1..n = 1..Len(f)
  BY <1>3
<1> QED
  BY <1>2, <1>3, <1>4

LEMMA IdsAreNats == TypeOK => Ids = 1..Len(rows) /\ Len(rows) \in Nat /\ Ids \subseteq Nat
BY LenProperties DEF TypeOK, Ids

\* The row a drain is about to publish is the least of its batch.
LEMMA NextRowIsLeast ==
    ASSUME TypeOK, NEW k \in Relays, batch[k] # {}
    PROVE  NextRow(k) \in batch[k] /\ NextRow(k) \in Ids /\ \A i \in batch[k] : NextRow(k) <= i
<1>1. batch[k] \subseteq Ids /\ batch[k] \in SUBSET Nat
  BY IdsAreNats DEF TypeOK
<1> QED
  BY <1>1, MinIsLeast DEF NextRow

\* Inserting a row gives it the next id.
LEMMA InsertAppends ==
    ASSUME TypeOK, NEW row \in Row, rows' = Append(rows, row), state' = Append(state, "open")
    PROVE  /\ rows' \in Seq(Row) /\ Ids' = Ids \cup {Len(rows) + 1}
           /\ Len(rows) + 1 \notin Ids
           /\ state' \in [Ids' -> {"open", "gone", "pending", "published"}]
           /\ \A i \in Ids : rows'[i] = rows[i] /\ state'[i] = state[i]
           /\ rows'[Len(rows) + 1] = row /\ state'[Len(rows) + 1] = "open"
<1> DEFINE States == {"open", "gone", "pending", "published"}
<1>1. Ids = 1..Len(rows) /\ Len(rows) \in Nat /\ rows \in Seq(Row)
  BY IdsAreNats DEF TypeOK, Row
<1>2. state \in Seq(States) /\ Len(state) = Len(rows)
  <2>1. state \in [1..Len(rows) -> States]
    BY <1>1 DEF TypeOK
  <2> QED
    BY <1>1, <2>1, FunctionIsSeq
<1>3. /\ rows' \in Seq(Row) /\ Len(rows') = Len(rows) + 1
      /\ \A i \in 1..Len(rows) : rows'[i] = rows[i]
      /\ rows'[Len(rows) + 1] = row
  BY <1>1, AppendProperties
<1>4. /\ state' \in Seq(States) /\ Len(state') = Len(rows) + 1
      /\ \A i \in 1..Len(rows) : state'[i] = state[i]
      /\ state'[Len(rows) + 1] = "open"
  <2>1. "open" \in States
    OBVIOUS
  <2> QED
    BY <1>2, <2>1, AppendProperties
<1>5. Ids' = 1..(Len(rows) + 1)
  BY <1>3, LenProperties DEF Ids
<1>6. state' \in [1..(Len(rows) + 1) -> States]
  BY <1>4, LenProperties
<1> QED
  BY <1>1, <1>3, <1>4, <1>5, <1>6

\* A message that reaches the broker is one arrival more, of its row.
LEMMA ArriveAppends ==
    ASSUME TypeOK, NEW i \in Ids, Arrive(i)
    PROVE  /\ arrived' \in Seq(Ids) /\ kept' \subseteq Ids
           /\ Len(arrived) \in Nat
           /\ DOMAIN arrived = 1..Len(arrived)
           /\ DOMAIN arrived' = 1..(Len(arrived) + 1)
           /\ \A n \in 1..Len(arrived) : arrived'[n] = arrived[n]
           /\ arrived'[Len(arrived) + 1] = i
<1>1. arrived' = Append(arrived, i) /\ arrived \in Seq(Ids)
  BY DEF Arrive, TypeOK
<1>2. /\ arrived' \in Seq(Ids) /\ Len(arrived') = Len(arrived) + 1
      /\ \A n \in 1..Len(arrived) : arrived'[n] = arrived[n]
      /\ arrived'[Len(arrived) + 1] = i
  BY <1>1, AppendProperties
<1>3. kept' \subseteq Ids
  BY DEF Arrive, TypeOK
<1> QED
  BY <1>1, <1>2, <1>3, LenProperties

LEMMA ArriveArrives ==
    ASSUME TypeOK, NEW i \in Ids, Arrive(i)
    PROVE  HasArrived(i)' /\ \A j : HasArrived(j) => HasArrived(j)'
BY ArriveAppends DEF HasArrived

\* What a drain reads is pending, with every pending row before it.
LEMMA BatchIsPrefix ==
    ASSUME TypeOK
    PROVE  /\ Batch \subseteq Ids
           /\ \A i \in Batch : state[i] = "pending"
           /\ \A i \in Batch, j \in Ids : j < i /\ state[j] = "pending" => j \in Batch
<1>1. Batch \subseteq Ids /\ \A i \in Batch : state[i] = "pending"
  BY DEF Batch, Pending
<1>2. ASSUME NEW i \in Batch, NEW j \in Ids, j < i, state[j] = "pending" PROVE j \in Batch
  <2> DEFINE Below(n) == {m \in Pending : m < n}
  <2>1. Ids = 1..Len(rows) /\ Len(rows) \in Nat /\ i \in Nat /\ j \in Nat
    BY <1>1, IdsAreNats
  <2>2. IsFiniteSet(Below(i))
    <3>1. Below(i) \in SUBSET (1..Len(rows)) /\ IsFiniteSet(1..Len(rows))
      BY <2>1, FS_Interval DEF Pending
    <3> QED
      BY <3>1, FS_Subset
  <2>3. Below(j) \in SUBSET Below(i)
    BY <1>2, <2>1 DEF Pending
  <2>4. /\ Cardinality(Below(j)) <= Cardinality(Below(i))
        /\ Cardinality(Below(j)) \in Nat /\ Cardinality(Below(i)) \in Nat
    BY <2>2, <2>3, FS_Subset, FS_CardinalityType
  <2>5. Cardinality(Below(i)) < BatchSize
    BY DEF Batch
  <2>6. j \in Pending /\ Cardinality(Below(j)) < BatchSize
    BY <1>2, <2>4, <2>5 DEF Pending
  <2> QED
    BY <2>6 DEF Batch
<1> QED
  BY <1>1, <1>2

-----------------------------------------------------------------------------
(* The inductive invariant *)

\* j is an earlier row of the request of i.
Before(j, i) == j < i /\ rows[j].request = rows[i].request /\ state[j] # "gone"

\* The advisory lock goes with a transaction, the marks are the transaction's.
LockIsHeld ==
    \A k \in Relays :
      /\ session[k] <=> lock = k
      /\ session[k] => pc[k] # "idle"
      /\ ~ session[k] => marks[k] = {}

\* A relay holds committed rows, and with each the earlier rows of its request
\* that have not arrived.  A relay with the lock holds rows nobody else marks.
DrainInOrder(k) ==
    /\ pc[k] \in {"idle", "select"} => batch[k] = {} /\ marks[k] = {}
    /\ pc[k] \in {"waiting", "confirmed"} => batch[k] # {}
    /\ pc[k] = "confirmed" => HasArrived(NextRow(k))
    /\ \A i \in batch[k] : state[i] \in {"pending", "published"}
    /\ \A i \in batch[k], j \in Ids : Before(j, i) => j \in batch[k] \/ HasArrived(j)
    /\ \A i \in marks[k] : HasArrived(i) /\ i \notin batch[k]
    /\ session[k] => \A i \in batch[k] \cup marks[k] : state[i] = "pending"

\* A publish that was given up comes too late to overtake its own request.
StragglersInOrder ==
    \A i \in stragglers :
      /\ state[i] \in {"pending", "published"}
      /\ \A j \in Ids : Before(j, i) => HasArrived(j)

\* The transactions of one request take turns.
OpenIsLast == \A i, j \in Ids : Before(j, i) => state[j] # "open"

PublishedArrived == \A i \in Ids : state[i] = "published" => HasArrived(i)

RelayInv ==
    /\ TypeOK
    /\ LockIsHeld
    /\ \A k \in Relays : DrainInOrder(k)
    /\ StragglersInOrder
    /\ OpenIsLast
    /\ PublishedArrived

LEMMA RelayInit == Init => RelayInv
<1> SUFFICES ASSUME Init PROVE RelayInv
  OBVIOUS
<1>1. rows = <<>> /\ Ids = {}
  BY DEF Init, Ids
<1>2. rows \in Seq(Row) /\ arrived \in Seq(Ids)
  BY EmptySeq DEF Init
<1>3. state \in [Ids -> {"open", "gone", "pending", "published"}]
  BY <1>1 DEF Init
<1>4. TypeOK
  BY <1>2, <1>3 DEF Init, TypeOK, Row
<1>5. LockIsHeld
  BY DEF Init, LockIsHeld
<1>6. \A k \in Relays : DrainInOrder(k)
  BY DEF Init, DrainInOrder
<1>7. StragglersInOrder /\ OpenIsLast /\ PublishedArrived
  BY <1>1 DEF Init, StragglersInOrder, OpenIsLast, PublishedArrived
<1> QED
  BY <1>4, <1>5, <1>6, <1>7 DEF RelayInv

-----------------------------------------------------------------------------
(* Recording *)

LEMMA UpcomingIsPattern == ASSUME NEW r, NEW p \in Upcoming(r) PROVE p \in Patterns
BY DEF Upcoming, Patterns

LEMMA InsertInv == ASSUME RelayInv, NEW r \in Requests, Insert(r) PROVE RelayInv'
<1> DEFINE n == Len(rows) + 1
<1> USE DEF RelayInv
<1>1. PICK p \in Upcoming(r) : rows' = Append(rows, [request |-> r, pattern |-> p])
  BY DEF Insert
<1>2. /\ state' = Append(state, "open") /\ ~ RowLocked(r)
      /\ UNCHANGED <<relay, broker, faults>>
  BY DEF Insert
<1>3. [request |-> r, pattern |-> p] \in Row
  BY UpcomingIsPattern DEF Row
<1>4. /\ rows' \in Seq(Row) /\ Ids' = Ids \cup {n} /\ n \notin Ids
      /\ state' \in [Ids' -> {"open", "gone", "pending", "published"}]
      /\ \A i \in Ids : rows'[i] = rows[i] /\ state'[i] = state[i]
      /\ rows'[n] = [request |-> r, pattern |-> p] /\ state'[n] = "open"
  BY <1>1, <1>2, <1>3, InsertAppends
<1>5. Ids = 1..Len(rows) /\ Len(rows) \in Nat
  BY IdsAreNats
<1>6. TypeOK'
  <2>1. arrived' \in Seq(Ids')
    BY <1>2, <1>4, SeqMonotonic DEF TypeOK, broker
  <2> QED
    BY <1>2, <1>4, <2>1 DEF TypeOK, Row, relay, broker
<1>7. LockIsHeld'
  BY <1>2 DEF LockIsHeld, relay
<1>8. \A i \in Ids, j \in Ids' : Before(j, i)' => j \in Ids /\ Before(j, i)
  BY <1>4, <1>5 DEF Before
<1>9. \A i : HasArrived(i)' <=> HasArrived(i)
  BY <1>2 DEF broker, HasArrived
<1>10. ASSUME NEW k \in Relays PROVE DrainInOrder(k)'
  <2>1. /\ pc'[k] = pc[k] /\ batch'[k] = batch[k] /\ marks'[k] = marks[k]
        /\ session'[k] = session[k] /\ batch[k] \subseteq Ids /\ marks[k] \subseteq Ids
    BY <1>2 DEF relay, TypeOK
  <2> QED
    BY <1>4, <1>8, <1>9, <2>1 DEF DrainInOrder, NextRow
<1>11. StragglersInOrder'
  <2>1. stragglers' = stragglers /\ stragglers \subseteq Ids
    BY <1>2 DEF broker, TypeOK
  <2> QED
    BY <1>4, <1>8, <1>9, <2>1 DEF StragglersInOrder
<1>12. OpenIsLast'
  <2> SUFFICES ASSUME NEW i \in Ids', NEW j \in Ids', Before(j, i)' PROVE state'[j] # "open"
    BY DEF OpenIsLast
  <2>1. CASE i \in Ids
    BY <1>4, <1>8, <2>1 DEF OpenIsLast
  <2>2. CASE i = n
    <3>1. j \in Ids /\ rows[j].request = r
      BY <1>4, <1>5, <2>2 DEF Before
    <3> QED
      BY <1>2, <1>4, <3>1 DEF RowLocked
  <2> QED
    BY <1>4, <2>1, <2>2
<1>13. PublishedArrived'
  BY <1>4, <1>9 DEF PublishedArrived
<1> QED
  BY <1>6, <1>7, <1>10, <1>11, <1>12, <1>13

\* A recording transaction ends: its row was in no drain.
LEMMA SettleInv ==
    ASSUME RelayInv, NEW i \in Ids, state[i] = "open", NEW end \in {"pending", "gone"},
           state' = [state EXCEPT ![i] = end], UNCHANGED <<rows, relay, broker>>,
           faults' \in 0..MaxFaults
    PROVE  RelayInv'
<1> USE DEF RelayInv
<1>1. Ids' = Ids /\ state' \in [Ids -> {"open", "gone", "pending", "published"}]
  BY DEF Ids, TypeOK
<1>2. \A j \in Ids : state'[j] = IF j = i THEN end ELSE state[j]
  BY DEF TypeOK
<1>3. TypeOK' /\ LockIsHeld'
  BY <1>1 DEF TypeOK, LockIsHeld, relay, broker
<1>4. \A l \in Ids, j \in Ids : Before(j, l)' => Before(j, l)
  BY <1>2 DEF Before
<1>5. \A l : HasArrived(l)' <=> HasArrived(l)
  BY DEF HasArrived, broker
<1>6. ASSUME NEW k \in Relays PROVE DrainInOrder(k)'
  <2>1. /\ pc'[k] = pc[k] /\ batch'[k] = batch[k] /\ marks'[k] = marks[k]
        /\ session'[k] = session[k] /\ batch[k] \subseteq Ids /\ marks[k] \subseteq Ids
    BY DEF relay, TypeOK
  <2> QED
    BY <1>1, <1>2, <1>4, <1>5, <2>1 DEF DrainInOrder, NextRow
<1>7. StragglersInOrder' /\ OpenIsLast' /\ PublishedArrived'
  <2>1. stragglers' = stragglers /\ stragglers \subseteq Ids
    BY DEF broker, TypeOK
  <2> QED
    BY <1>1, <1>2, <1>4, <1>5, <2>1 DEF StragglersInOrder, OpenIsLast, PublishedArrived
<1> QED
  BY <1>3, <1>6, <1>7

-----------------------------------------------------------------------------
(* Draining *)

\* The rows of a request before the one that is sent have arrived.
LEMMA NextRowInOrder ==
    ASSUME RelayInv, NEW k \in Relays, batch[k] # {}
    PROVE  /\ NextRow(k) \in batch[k] /\ NextRow(k) \in Ids
           /\ state[NextRow(k)] \in {"pending", "published"}
           /\ \A j \in Ids : Before(j, NextRow(k)) => HasArrived(j)
<1>1. NextRow(k) \in batch[k] /\ NextRow(k) \in Ids /\ \A i \in batch[k] : NextRow(k) <= i
  BY NextRowIsLeast DEF RelayInv
<1>2. \A j \in Ids : Before(j, NextRow(k)) => j \notin batch[k]
  BY <1>1, IdsAreNats DEF Before, RelayInv
<1> QED
  BY <1>1, <1>2 DEF RelayInv, DrainInOrder

\* Rows stay as they are, relay k takes a step that leaves its own drain in order.
LEMMA DrainMoves ==
    ASSUME RelayInv, NEW k \in Relays, TypeOK', LockIsHeld', DrainInOrder(k)',
           UNCHANGED recorded,
           \A i : HasArrived(i) => HasArrived(i)',
           \A g \in Relays \ {k} : /\ pc'[g] = pc[g] /\ session'[g] = session[g]
                                   /\ batch'[g] = batch[g] /\ marks'[g] = marks[g],
           \A i \in stragglers' : i \in stragglers \/ (pc[k] = "waiting" /\ i = NextRow(k))
    PROVE  RelayInv'
<1> USE DEF RelayInv
<1>1. Ids' = Ids /\ rows' = rows /\ state' = state
  BY DEF recorded, Ids
<1>2. \A j, i : Before(j, i)' <=> Before(j, i)
  BY <1>1 DEF Before
<1>3. ASSUME NEW g \in Relays \ {k} PROVE DrainInOrder(g)'
  <2>1. batch[g] \subseteq Ids
    BY DEF TypeOK
  <2> QED
    BY <1>1, <1>2, <2>1 DEF DrainInOrder, NextRow
<1>4. pc[k] = "waiting" =>
        /\ state[NextRow(k)] \in {"pending", "published"}
        /\ \A j \in Ids : Before(j, NextRow(k)) => HasArrived(j)
  BY NextRowInOrder DEF DrainInOrder
<1>5. StragglersInOrder'
  BY <1>1, <1>2, <1>4 DEF StragglersInOrder
<1>6. OpenIsLast' /\ PublishedArrived'
  BY <1>1, <1>2 DEF OpenIsLast, PublishedArrived
<1> QED
  BY <1>3, <1>5, <1>6

\* How the functions of the relays change at k only.
LEMMA RelayUpdates ==
    ASSUME TypeOK, NEW k \in Relays, NEW l \in PCs, NEW b \in SUBSET Ids,
           NEW m \in SUBSET Ids, NEW e \in BOOLEAN,
           \/ pc' = [pc EXCEPT ![k] = l]
           \/ pc' = pc /\ l = pc[k],
           \/ batch' = [batch EXCEPT ![k] = b]
           \/ batch' = batch /\ b = batch[k],
           \/ marks' = [marks EXCEPT ![k] = m]
           \/ marks' = marks /\ m = marks[k],
           \/ session' = [session EXCEPT ![k] = e]
           \/ session' = session /\ e = session[k]
    PROVE  /\ pc' \in [Relays -> PCs] /\ pc'[k] = l
           /\ batch' \in [Relays -> SUBSET Ids] /\ batch'[k] = b
           /\ marks' \in [Relays -> SUBSET Ids] /\ marks'[k] = m
           /\ session' \in [Relays -> BOOLEAN] /\ session'[k] = e
           /\ \A g \in Relays \ {k} : /\ pc'[g] = pc[g] /\ session'[g] = session[g]
                                      /\ batch'[g] = batch[g] /\ marks'[g] = marks[g]
<1>1. pc' \in [Relays -> PCs] /\ pc'[k] = l /\ \A g \in Relays \ {k} : pc'[g] = pc[g]
  BY DEF TypeOK, PCs
<1>2. /\ batch' \in [Relays -> SUBSET Ids] /\ batch'[k] = b
      /\ \A g \in Relays \ {k} : batch'[g] = batch[g]
  BY DEF TypeOK
<1>3. /\ marks' \in [Relays -> SUBSET Ids] /\ marks'[k] = m
      /\ \A g \in Relays \ {k} : marks'[g] = marks[g]
  BY DEF TypeOK
<1>4. /\ session' \in [Relays -> BOOLEAN] /\ session'[k] = e
      /\ \A g \in Relays \ {k} : session'[g] = session[g]
  BY DEF TypeOK
<1> QED
  BY <1>1, <1>2, <1>3, <1>4

LEMMA TryLockInv == ASSUME RelayInv, NEW k \in Relays, TryLock(k) PROVE RelayInv'
<1> USE DEF RelayInv
<1>1. /\ pc[k] = "idle" /\ lock = Nobody /\ lock' = k
      /\ session' = [session EXCEPT ![k] = TRUE] /\ pc' = [pc EXCEPT ![k] = "select"]
      /\ UNCHANGED <<recorded, batch, marks, broker, faults>>
  BY DEF TryLock, LockFree
<1>2. "select" \in PCs /\ batch[k] \in SUBSET Ids /\ marks[k] \in SUBSET Ids
  BY DEF TypeOK, PCs
<1>3. /\ pc' \in [Relays -> PCs] /\ pc'[k] = "select"
      /\ session' \in [Relays -> BOOLEAN] /\ session'[k] = TRUE
      /\ \A g \in Relays \ {k} : /\ pc'[g] = pc[g] /\ session'[g] = session[g]
                                 /\ batch'[g] = batch[g] /\ marks'[g] = marks[g]
  BY <1>1, <1>2, RelayUpdates
<1>4. TypeOK'
  BY <1>1, <1>3 DEF TypeOK, PCs, recorded, broker, Ids
<1>5. LockIsHeld'
  BY <1>1, <1>3 DEF LockIsHeld
<1>6. DrainInOrder(k)'
  BY <1>1, <1>3 DEF DrainInOrder, LockIsHeld, recorded
<1> QED
  BY <1>1, <1>3, <1>4, <1>5, <1>6, DrainMoves DEF broker, HasArrived

\* A step that ends the drain leaves nothing behind.
LEMMA LeaveInv ==
    ASSUME RelayInv, NEW k \in Relays, Leave(k), UNCHANGED <<recorded, arrived, kept>>,
           stragglers' \subseteq Ids, faults' \in 0..MaxFaults,
           \A i \in stragglers' : i \in stragglers \/ (pc[k] = "waiting" /\ i = NextRow(k))
    PROVE  RelayInv'
<1> USE DEF RelayInv
<1>1. "idle" \in PCs /\ {} \in SUBSET Ids /\ FALSE \in BOOLEAN
  BY DEF PCs
<1>2. /\ pc' \in [Relays -> PCs] /\ pc'[k] = "idle"
      /\ batch' \in [Relays -> SUBSET Ids] /\ batch'[k] = {}
      /\ marks' \in [Relays -> SUBSET Ids] /\ marks'[k] = {}
      /\ session' \in [Relays -> BOOLEAN] /\ session'[k] = FALSE
      /\ \A g \in Relays \ {k} : /\ pc'[g] = pc[g] /\ session'[g] = session[g]
                                 /\ batch'[g] = batch[g] /\ marks'[g] = marks[g]
  BY <1>1, RelayUpdates DEF Leave
<1>3. lock' = IF lock = k THEN Nobody ELSE lock
  BY DEF Leave
<1>4. TypeOK'
  BY <1>2, <1>3 DEF TypeOK, PCs, recorded, Ids
<1>5. LockIsHeld'
  BY <1>2, <1>3 DEF LockIsHeld
<1>6. DrainInOrder(k)'
  BY <1>2 DEF DrainInOrder
<1> QED
  BY <1>2, <1>4, <1>5, <1>6, DrainMoves DEF HasArrived

\* Read rows are pending and come with the pending rows before them; the open
\* rows before them are another request's.
LEMMA SelectInv == ASSUME RelayInv, NEW k \in Relays, Select(k) PROVE RelayInv'
<1> USE DEF RelayInv
<1> DEFINE label == IF Batch = {} THEN "sent" ELSE "waiting"
<1>1. /\ pc[k] = "select" /\ session[k]
      /\ batch' = [batch EXCEPT ![k] = Batch] /\ pc' = [pc EXCEPT ![k] = label]
      /\ UNCHANGED <<recorded, lock, session, marks, broker, faults>>
  BY DEF Select, Send
<1>2. /\ Batch \subseteq Ids /\ \A i \in Batch : state[i] = "pending"
      /\ \A i \in Batch, j \in Ids : j < i /\ state[j] = "pending" => j \in Batch
  BY BatchIsPrefix
<1>3. label \in PCs /\ session[k] \in BOOLEAN /\ marks[k] \in SUBSET Ids /\ Batch \in SUBSET Ids
  BY <1>2 DEF TypeOK, PCs
<1>4. /\ pc' \in [Relays -> PCs] /\ pc'[k] = label
      /\ batch' \in [Relays -> SUBSET Ids] /\ batch'[k] = Batch
      /\ \A g \in Relays \ {k} : /\ pc'[g] = pc[g] /\ session'[g] = session[g]
                                 /\ batch'[g] = batch[g] /\ marks'[g] = marks[g]
  <2> HIDE DEF label
  <2> QED
    BY <1>1, <1>3, RelayUpdates
<1>5. TypeOK' /\ LockIsHeld'
  BY <1>1, <1>4 DEF TypeOK, PCs, recorded, broker, Ids, LockIsHeld
<1>6. DrainInOrder(k)'
  <2>1. UNCHANGED <<rows, state, arrived, Ids>> /\ session'[k] = session[k] /\ marks'[k] = marks[k]
    BY <1>1 DEF recorded, broker, Ids
  <2>2. ASSUME NEW i \in Batch, NEW j \in Ids, Before(j, i) PROVE j \in Batch \/ HasArrived(j)
    <3>1. state[j] # "open" /\ j < i /\ state[j] # "gone" /\ state[j] \in {"open", "gone", "pending", "published"}
      BY <1>2, <2>2 DEF OpenIsLast, Before, TypeOK
    <3> QED
      BY <1>2, <3>1 DEF PublishedArrived
  <2>3. marks[k] = {}
    BY <1>1 DEF DrainInOrder
  <2> QED
    BY <1>2, <1>4, <2>1, <2>2, <2>3 DEF DrainInOrder, Before, HasArrived
<1> QED
  BY <1>1, <1>4, <1>5, <1>6, DrainMoves DEF broker, HasArrived

LEMMA ConfirmInv ==
    ASSUME RelayInv, NEW k \in Relays, Confirm(k) PROVE RelayInv'
<1> USE DEF RelayInv
<1>1. /\ pc[k] = "waiting" /\ Arrive(NextRow(k)) /\ pc' = [pc EXCEPT ![k] = "confirmed"]
      /\ UNCHANGED <<recorded, lock, session, batch, marks, stragglers, faults>>
  BY DEF Confirm
<1>2. PICK i \in Ids : i = NextRow(k)
  BY <1>1, NextRowInOrder DEF DrainInOrder
<1>3. /\ HasArrived(i)' /\ \A j : HasArrived(j) => HasArrived(j)'
      /\ arrived' \in Seq(Ids) /\ kept' \subseteq Ids
  BY <1>1, <1>2, ArriveArrives, ArriveAppends
<1>4. "confirmed" \in PCs /\ batch[k] \in SUBSET Ids /\ marks[k] \in SUBSET Ids
      /\ session[k] \in BOOLEAN
  BY DEF TypeOK, PCs
<1>5. /\ pc' \in [Relays -> PCs] /\ pc'[k] = "confirmed"
      /\ \A g \in Relays \ {k} : /\ pc'[g] = pc[g] /\ session'[g] = session[g]
                                 /\ batch'[g] = batch[g] /\ marks'[g] = marks[g]
  BY <1>1, <1>4, RelayUpdates
<1>6. TypeOK' /\ LockIsHeld'
  BY <1>1, <1>3, <1>5 DEF TypeOK, PCs, recorded, Ids, LockIsHeld
<1>7. DrainInOrder(k)'
  <2>1. UNCHANGED <<rows, state, Ids, NextRow(k)>> /\ batch'[k] = batch[k] /\ marks'[k] = marks[k]
        /\ session'[k] = session[k]
    BY <1>1 DEF recorded, Ids, NextRow
  <2> QED
    BY <1>1, <1>2, <1>3, <1>5, <2>1 DEF DrainInOrder, Before
<1> QED
  BY <1>1, <1>3, <1>5, <1>6, <1>7, DrainMoves

LEMMA MarkInv == ASSUME RelayInv, NEW k \in Relays, Mark(k) PROVE RelayInv'
<1> USE DEF RelayInv
<1> DEFINE i == NextRow(k)
           rest == batch[k] \ {i}
           label == IF rest = {} THEN "sent" ELSE "waiting"
<1>1. /\ pc[k] = "confirmed" /\ session[k]
      /\ marks' = [marks EXCEPT ![k] = marks[k] \cup {i}]
      /\ batch' = [batch EXCEPT ![k] = rest] /\ pc' = [pc EXCEPT ![k] = label]
      /\ UNCHANGED <<recorded, lock, session, broker, faults>>
  BY DEF Mark, Send
<1>2. i \in batch[k] /\ i \in Ids /\ HasArrived(i)
  BY <1>1, NextRowInOrder DEF DrainInOrder
<1>3. /\ label \in PCs /\ session[k] \in BOOLEAN /\ rest \in SUBSET Ids
      /\ marks[k] \cup {i} \in SUBSET Ids
  BY <1>2 DEF TypeOK, PCs
<1>4. /\ pc' \in [Relays -> PCs] /\ pc'[k] = label
      /\ batch' \in [Relays -> SUBSET Ids] /\ batch'[k] = rest
      /\ marks' \in [Relays -> SUBSET Ids] /\ marks'[k] = marks[k] \cup {i}
      /\ \A g \in Relays \ {k} : /\ pc'[g] = pc[g] /\ session'[g] = session[g]
                                 /\ batch'[g] = batch[g] /\ marks'[g] = marks[g]
  <2> HIDE DEF label, rest
  <2> QED
    BY <1>1, <1>3, RelayUpdates
<1>5. TypeOK' /\ LockIsHeld'
  BY <1>1, <1>4 DEF TypeOK, PCs, recorded, broker, Ids, LockIsHeld
<1>6. DrainInOrder(k)'
  <2>1. UNCHANGED <<rows, state, arrived, Ids>> /\ session'[k] = session[k]
    BY <1>1 DEF recorded, broker, Ids
  <2> QED
    BY <1>1, <1>2, <1>4, <2>1 DEF DrainInOrder, Before, HasArrived
<1> QED
  BY <1>1, <1>4, <1>5, <1>6, DrainMoves DEF broker, HasArrived

\* What a drain marked had arrived.
LEMMA FinishInv == ASSUME RelayInv, NEW k \in Relays, Finish(k) PROVE RelayInv'
<1> USE DEF RelayInv
<1>1. /\ pc[k] \in {"sent", "stopped"} /\ session[k] /\ Leave(k)
      /\ state' = [i \in Ids |-> IF i \in marks[k] THEN "published" ELSE state[i]]
      /\ UNCHANGED <<rows, broker, faults>>
  BY DEF Finish, NothingToSend
<1>2. \A i \in marks[k] : state[i] = "pending" /\ HasArrived(i) /\ i \in Ids
  BY <1>1 DEF DrainInOrder, TypeOK
<1>3. /\ Ids' = Ids /\ state' \in [Ids -> {"open", "gone", "pending", "published"}]
      /\ \A i \in Ids : /\ state'[i] = "open" <=> state[i] = "open"
                        /\ state'[i] = "gone" <=> state[i] = "gone"
                        /\ state[i] = "published" => state'[i] = "published"
                        /\ state[i] = "pending" => state'[i] \in {"pending", "published"}
                        /\ state'[i] = "published" => HasArrived(i)
  BY <1>1, <1>2 DEF TypeOK, Ids, PublishedArrived
<1>4. "idle" \in PCs /\ {} \in SUBSET Ids /\ FALSE \in BOOLEAN
  BY DEF PCs
<1>5. /\ pc' \in [Relays -> PCs] /\ pc'[k] = "idle"
      /\ batch' \in [Relays -> SUBSET Ids] /\ batch'[k] = {}
      /\ marks' \in [Relays -> SUBSET Ids] /\ marks'[k] = {}
      /\ session' \in [Relays -> BOOLEAN] /\ session'[k] = FALSE
      /\ \A g \in Relays \ {k} : /\ pc'[g] = pc[g] /\ session'[g] = session[g]
                                 /\ batch'[g] = batch[g] /\ marks'[g] = marks[g]
  BY <1>1, <1>4, RelayUpdates DEF Leave
<1>6. lock' = Nobody /\ lock = k
  BY <1>1 DEF Leave, LockIsHeld
<1>7. TypeOK' /\ LockIsHeld'
  BY <1>1, <1>3, <1>5, <1>6 DEF TypeOK, PCs, broker, LockIsHeld
<1>8. /\ \A i : HasArrived(i)' <=> HasArrived(i)
      /\ \A i : \A j \in Ids : Before(j, i)' <=> Before(j, i)
  BY <1>1, <1>3 DEF broker, HasArrived, Before
<1>9. ASSUME NEW g \in Relays PROVE DrainInOrder(g)'
  <2>1. CASE g = k
    BY <1>5, <2>1 DEF DrainInOrder
  <2>2. CASE g # k
    <3>1. ~ session[g] /\ marks[g] = {} /\ batch[g] \subseteq Ids
      BY <1>6, <2>2 DEF LockIsHeld, TypeOK
    <3>2. /\ pc'[g] = pc[g] /\ ~ session'[g] /\ marks'[g] = {} /\ batch'[g] = batch[g]
          /\ NextRow(g)' = NextRow(g)
      BY <1>5, <2>2, <3>1 DEF NextRow
    <3> QED
      BY <1>3, <1>8, <3>1, <3>2 DEF DrainInOrder
  <2> QED
    BY <2>1, <2>2
<1>10. StragglersInOrder'
  BY <1>1, <1>3, <1>8 DEF broker, StragglersInOrder, TypeOK
<1>11. OpenIsLast' /\ PublishedArrived'
  BY <1>3, <1>8 DEF OpenIsLast, PublishedArrived
<1> QED
  BY <1>7, <1>9, <1>10, <1>11

-----------------------------------------------------------------------------
(* Faults *)

LEMMA FaultCounted == ASSUME TypeOK, Fault PROVE faults' \in 0..MaxFaults
BY DEF TypeOK, Fault

LEMMA PublishFailsInv == ASSUME RelayInv, NEW k \in Relays, PublishFails(k) PROVE RelayInv'
<1> USE DEF RelayInv
<1>1. /\ pc[k] = "waiting" /\ pc' = [pc EXCEPT ![k] = "stopped"]
      /\ stragglers' = stragglers \/ stragglers' = stragglers \cup {NextRow(k)}
      /\ UNCHANGED <<recorded, lock, session, batch, marks, arrived, kept>>
      /\ faults' \in 0..MaxFaults
  BY FaultCounted DEF PublishFails, GiveUp
<1>2. NextRow(k) \in Ids
  BY <1>1, NextRowInOrder DEF DrainInOrder
<1>3. "stopped" \in PCs /\ batch[k] \in SUBSET Ids /\ marks[k] \in SUBSET Ids
      /\ session[k] \in BOOLEAN
  BY DEF TypeOK, PCs
<1>4. /\ pc' \in [Relays -> PCs] /\ pc'[k] = "stopped"
      /\ \A g \in Relays \ {k} : /\ pc'[g] = pc[g] /\ session'[g] = session[g]
                                 /\ batch'[g] = batch[g] /\ marks'[g] = marks[g]
  BY <1>1, <1>3, RelayUpdates
<1>5. TypeOK' /\ LockIsHeld'
  BY <1>1, <1>2, <1>4 DEF TypeOK, PCs, recorded, Ids, LockIsHeld
<1>6. DrainInOrder(k)'
  <2>1. UNCHANGED <<rows, state, Ids, arrived>> /\ batch'[k] = batch[k] /\ marks'[k] = marks[k]
        /\ session'[k] = session[k]
    BY <1>1 DEF recorded, Ids
  <2> QED
    BY <1>4, <2>1 DEF DrainInOrder, Before, HasArrived
<1> QED
  BY <1>1, <1>4, <1>5, <1>6, DrainMoves DEF HasArrived

\* An arrival that moves no relay.
LEMMA ArriveInv ==
    ASSUME RelayInv, NEW i \in Ids, Arrive(i), UNCHANGED <<recorded, relay>>,
           stragglers' \subseteq stragglers, faults' \in 0..MaxFaults
    PROVE  RelayInv'
<1> USE DEF RelayInv
<1>1. /\ \A j : HasArrived(j) => HasArrived(j)'
      /\ arrived' \in Seq(Ids) /\ kept' \subseteq Ids
  BY ArriveArrives, ArriveAppends
<1>2. UNCHANGED <<rows, state, lock, session, pc, batch, marks, Ids>>
  BY DEF recorded, relay, Ids
<1>3. TypeOK' /\ LockIsHeld'
  BY <1>1, <1>2 DEF TypeOK, LockIsHeld
<1>4. \A g \in Relays : DrainInOrder(g)'
  BY <1>1, <1>2 DEF DrainInOrder, NextRow, Before
<1>5. StragglersInOrder' /\ OpenIsLast' /\ PublishedArrived'
  BY <1>1, <1>2 DEF StragglersInOrder, OpenIsLast, PublishedArrived, Before
<1> QED
  BY <1>3, <1>4, <1>5

LEMMA SessionLostInv == ASSUME RelayInv, NEW k \in Relays, SessionLost(k) PROVE RelayInv'
<1> USE DEF RelayInv
<1>1. /\ session[k] /\ session' = [session EXCEPT ![k] = FALSE] /\ lock' = Nobody
      /\ marks' = [marks EXCEPT ![k] = {}] /\ UNCHANGED <<recorded, pc, batch, broker>>
      /\ faults' \in 0..MaxFaults
  BY FaultCounted DEF SessionLost
<1>2. pc[k] \in PCs /\ batch[k] \in SUBSET Ids /\ {} \in SUBSET Ids /\ FALSE \in BOOLEAN
  BY DEF TypeOK, PCs
<1>3. /\ marks' \in [Relays -> SUBSET Ids] /\ marks'[k] = {}
      /\ session' \in [Relays -> BOOLEAN] /\ session'[k] = FALSE
      /\ \A g \in Relays \ {k} : /\ pc'[g] = pc[g] /\ session'[g] = session[g]
                                 /\ batch'[g] = batch[g] /\ marks'[g] = marks[g]
  BY <1>1, <1>2, RelayUpdates
<1>4. lock = k
  BY <1>1 DEF LockIsHeld
<1>5. TypeOK' /\ LockIsHeld'
  BY <1>1, <1>3, <1>4 DEF TypeOK, recorded, broker, Ids, LockIsHeld
<1>6. DrainInOrder(k)'
  <2>1. UNCHANGED <<rows, state, Ids, arrived>> /\ batch'[k] = batch[k] /\ pc'[k] = pc[k]
    BY <1>1 DEF recorded, broker, Ids
  <2> QED
    BY <1>3, <2>1 DEF DrainInOrder, Before, HasArrived, NextRow
<1> QED
  BY <1>1, <1>3, <1>5, <1>6, DrainMoves DEF broker, HasArrived

LEMMA CrashInv == ASSUME RelayInv, NEW k \in Relays, Crash(k) PROVE RelayInv'
<1>1. /\ Leave(k) /\ UNCHANGED <<recorded, arrived, kept>> /\ faults' \in 0..MaxFaults
      /\ \/ stragglers' = stragglers
         \/ pc[k] = "waiting" /\ stragglers' = stragglers \cup {NextRow(k)}
  BY FaultCounted DEF Crash, GiveUp, RelayInv
<1>2. pc[k] = "waiting" => NextRow(k) \in Ids
  BY NextRowInOrder DEF DrainInOrder, RelayInv
<1>3. stragglers' \subseteq Ids
  BY <1>1, <1>2 DEF RelayInv, TypeOK
<1> QED
  BY <1>1, <1>3, LeaveInv

LEMMA RelayStep == RelayInv /\ [Next]_vars => RelayInv'
<1> SUFFICES ASSUME RelayInv, [Next]_vars PROVE RelayInv'
  OBVIOUS
<1>0. faults \in 0..MaxFaults /\ stragglers \subseteq Ids
  BY DEF RelayInv, TypeOK
<1>1. ASSUME NEW i \in Ids, Commit(i) PROVE RelayInv'
  BY <1>0, <1>1, SettleInv DEF Commit
<1>2. ASSUME NEW i \in Ids, Rollback(i) PROVE RelayInv'
  BY <1>2, SettleInv, FaultCounted DEF Rollback, RelayInv
<1>3. ASSUME NEW k \in Relays, Drain(k) PROVE RelayInv'
  <2>1. CASE StatementFails(k)
    BY <1>0, <2>1, LeaveInv DEF StatementFails, broker
  <2> QED
    BY <1>3, <2>1, TryLockInv, SelectInv, ConfirmInv, MarkInv, FinishInv DEF Drain
<1>4. ASSUME NEW i \in stragglers, StragglerArrives(i) PROVE RelayInv'
  BY <1>0, <1>4, ArriveInv DEF StragglerArrives
<1>5. ASSUME NEW k \in Relays, ConfirmLost(k) PROVE RelayInv'
  <2>1. NextRow(k) \in Ids
    BY <1>5, NextRowInOrder DEF ConfirmLost, DrainInOrder, RelayInv
  <2>2. faults' \in 0..MaxFaults
    BY <1>5, FaultCounted DEF ConfirmLost, RelayInv
  <2> QED
    BY <1>5, <2>1, <2>2, ArriveInv DEF ConfirmLost
<1>6. ASSUME FaultStep PROVE RelayInv'
  BY <1>2, <1>5, <1>6, PublishFailsInv, SessionLostInv, CrashInv DEF FaultStep
<1>7. ASSUME UNCHANGED vars PROVE RelayInv'
  <2>1. UNCHANGED <<rows, state, lock, session, pc, batch, marks, stragglers, arrived, kept,
                    faults, Ids>>
    BY <1>7 DEF vars, Ids
  <2> QED
    BY <2>1 DEF RelayInv, TypeOK, LockIsHeld, DrainInOrder, NextRow, StragglersInOrder, OpenIsLast,
                PublishedArrived, Before, HasArrived
<1> QED
  BY <1>1, <1>3, <1>4, <1>6, <1>7, InsertInv DEF Next

LEMMA RelayInvariant == Spec => []RelayInv
BY RelayInit, RelayStep, PTL DEF Spec

\* Every variable of the relays keeps its type: a batch and the marks of a
\* drain are rows that exist, and no more than MaxFaults faults happen.
THEOREM RelayTypeCorrect == Spec => []TypeOK
BY RelayInvariant, PTL DEF RelayInv

-----------------------------------------------------------------------------
(* The relays implement OutboxDelivery *)

\* What reaches the broker is committed, and the earlier rows of its request
\* have arrived.
InOrder(i) ==
    /\ i \in Ids /\ state[i] \in {"pending", "published"}
    /\ \A j \in Ids : Before(j, i) => HasArrived(j)

LEMMA DeliverStep ==
    ASSUME TypeOK, NEW i, InOrder(i), Arrive(i), UNCHANGED recorded PROVE Delivery!Next
<1>1. \A j \in 1..(i - 1) : j \in Ids /\ j < i
  BY IdsAreNats DEF InOrder
<1>2. \A j \in 1..(i - 1) :
        rows[j].request = rows[i].request /\ state[j] # "gone" => Delivery!HasArrived(j)
  BY <1>1 DEF InOrder, Before, HasArrived, Delivery!HasArrived
<1>3. Delivery!Deliver
  BY <1>2 DEF InOrder, Arrive, recorded, Delivery!Deliver, Delivery!Ids, Ids
<1> QED
  BY <1>3 DEF Delivery!Next

LEMMA DeliveryStep == RelayInv /\ [Next]_vars => [Delivery!Next]_(Delivery!vars)
<1> SUFFICES ASSUME RelayInv, Next PROVE Delivery!Next \/ UNCHANGED <<rows, state, arrived>>
  BY DEF vars, Delivery!vars
<1> USE DEF RelayInv
<1>1. ASSUME NEW r \in Requests, Insert(r) PROVE Delivery!Next
  <2>1. PICK p \in Patterns : rows' = Append(rows, [request |-> r, pattern |-> p])
    BY <1>1, UpcomingIsPattern DEF Insert
  <2>2. /\ \A i \in Ids : rows[i].request = r => state[i] # "open"
        /\ state' = Append(state, "open") /\ UNCHANGED arrived
    BY <1>1 DEF Insert, RowLocked, broker
  <2>3. Delivery!Insert
    BY <2>1, <2>2 DEF Delivery!Insert, Delivery!Ids, Ids
  <2> QED
    BY <2>3 DEF Delivery!Next
<1>2. ASSUME NEW i \in Ids, Commit(i) \/ Rollback(i) PROVE Delivery!Next
  BY <1>2 DEF Commit, Rollback, broker, Delivery!Next, Delivery!Settle, Delivery!Ids, Ids
<1>3. ASSUME NEW k \in Relays, Confirm(k) \/ ConfirmLost(k) PROVE Delivery!Next
  <2>1. pc[k] = "waiting" /\ Arrive(NextRow(k)) /\ UNCHANGED recorded
    BY <1>3 DEF Confirm, ConfirmLost
  <2>2. InOrder(NextRow(k))
    BY <2>1, NextRowInOrder DEF DrainInOrder, InOrder
  <2> QED
    BY <2>1, <2>2, DeliverStep
<1>4. ASSUME NEW i \in stragglers, StragglerArrives(i) PROVE Delivery!Next
  <2>1. InOrder(i)
    BY DEF StragglersInOrder, InOrder, TypeOK
  <2> QED
    BY <1>4, <2>1, DeliverStep DEF StragglerArrives
<1>5. ASSUME NEW k \in Relays, Finish(k) PROVE Delivery!Next
  <2>1. /\ session[k] /\ UNCHANGED <<rows, arrived>>
        /\ state' = [i \in Ids |-> IF i \in marks[k] THEN "published" ELSE state[i]]
    BY <1>5 DEF Finish, broker
  <2>2. marks[k] \in SUBSET Ids /\ \A i \in marks[k] : state[i] = "pending" /\ HasArrived(i)
    BY <2>1 DEF DrainInOrder, TypeOK
  <2>3. Delivery!Publish
    BY <2>1, <2>2 DEF Delivery!Publish, Delivery!Ids, Delivery!HasArrived, HasArrived, Ids
  <2> QED
    BY <2>3 DEF Delivery!Next
<1>6. ASSUME NEW k \in Relays, \/ TryLock(k) \/ Select(k) \/ Mark(k) \/ StatementFails(k)
                               \/ PublishFails(k) \/ SessionLost(k) \/ Crash(k)
      PROVE  UNCHANGED <<rows, state, arrived>>
  BY <1>6 DEF TryLock, Select, Mark, StatementFails, PublishFails, SessionLost, Crash, recorded,
              broker
<1> QED
  BY <1>1, <1>2, <1>3, <1>4, <1>5, <1>6 DEF Next, Drain, FaultStep

\* Through crashes, timeouts, lost sessions and any number of replicas, a
\* row reaches the broker only after the earlier rows of its request have, and is
\* marked as published only after it did.
THEOREM DeliveryImplemented == Spec => ImplementsDelivery
<1>1. Init => Delivery!Init
  BY DEF Init, Delivery!Init
<1> QED
  BY <1>1, DeliveryStep, RelayInvariant, PTL DEF Spec, ImplementsDelivery, Delivery!Spec

-----------------------------------------------------------------------------
(* Nothing is lost *)

\* Only an arrival changes what the broker has.
LEMMA BrokerStep ==
    ASSUME RelayInv, [Next]_vars
    PROVE  UNCHANGED <<arrived, kept>> \/ \E i \in Ids : Arrive(i)
<1>1. ASSUME NEW k \in Relays, Confirm(k) \/ ConfirmLost(k) PROVE \E i \in Ids : Arrive(i)
  BY <1>1, NextRowInOrder DEF Confirm, ConfirmLost, RelayInv, DrainInOrder
<1>2. ASSUME NEW i \in stragglers, StragglerArrives(i) PROVE \E j \in Ids : Arrive(j)
  BY <1>2 DEF StragglerArrives, RelayInv, TypeOK
<1> QED
  BY <1>1, <1>2 DEF Next, Drain, FaultStep, Insert, Commit, TryLock, Select, Mark, Finish,
                    StatementFails, PublishFails, SessionLost, Crash, Rollback, broker, vars

\* Where every route of the events leads to a declared queue, a row that is
\* marked as published is on a queue.
THEOREM PublishedIsKeptAlways ==
    ASSUME \A p \in Patterns : EVENT_ROUTES[p] \in Declared
    PROVE  Spec => []PublishedIsKept
<1> DEFINE ArrivedIsKept == \A i \in Ids : HasArrived(i) => i \in kept
<1>1. Init => ArrivedIsKept
  BY DEF Init, Ids
<1>2. RelayInv /\ RelayInv' /\ ArrivedIsKept /\ [Next]_vars => ArrivedIsKept'
  <2> SUFFICES ASSUME RelayInv, RelayInv', ArrivedIsKept, [Next]_vars PROVE ArrivedIsKept'
    OBVIOUS
  <2>1. \A j : HasArrived(j) => j \in Ids
    BY ElementOfSeq, LenProperties DEF RelayInv, TypeOK, HasArrived
  <2>2. CASE UNCHANGED <<arrived, kept>>
    BY <2>1, <2>2 DEF HasArrived
  <2>3. ASSUME NEW i \in Ids, Arrive(i) PROVE ArrivedIsKept'
    <3>1. kept' = kept \cup {i}
      <4>1. rows \in Seq(Row) /\ i \in 1..Len(rows)
        BY IdsAreNats DEF RelayInv, TypeOK, Row
      <4>2. rows[i] \in Row
        BY <4>1, ElementOfSeq
      <4> QED
        BY <2>3, <4>2 DEF Arrive, Row
    <3>2. \A j : HasArrived(j)' => HasArrived(j) \/ j = i
      <4>1. /\ DOMAIN arrived = 1..Len(arrived) /\ Len(arrived) \in Nat
            /\ DOMAIN arrived' = 1..(Len(arrived) + 1)
            /\ \A n \in 1..Len(arrived) : arrived'[n] = arrived[n]
            /\ arrived'[Len(arrived) + 1] = i
        BY <2>3, ArriveAppends DEF RelayInv
      <4> QED
        BY <4>1 DEF HasArrived
    <3> QED
      BY <2>1, <3>1, <3>2
  <2> QED
    BY <2>2, <2>3, BrokerStep
<1>3. RelayInv /\ ArrivedIsKept => PublishedIsKept
  BY DEF RelayInv, PublishedArrived, PublishedIsKept
<1> QED
  BY <1>1, <1>2, <1>3, RelayInvariant, PTL DEF Spec

-----------------------------------------------------------------------------
(* Only faults repeat a row: every fault is good for one arrival of a row   *)
(* more, and so is the row itself.                                          *)

Arrivals(i) == {n \in DOMAIN arrived : arrived[n] = i}

\* A relay without its transaction that still waits for a confirm of row i.
IsOrphan(k, i) == pc[k] = "waiting" /\ ~ session[k] /\ NextRow(k) = i

Orphans(i) == {k \in Relays : IsOrphan(k, i)}

\* The drain of relay k has sent row i and will mark it.
HasSent(k, i) ==
    session[k] /\ (i \in marks[k] \/ (pc[k] = "confirmed" /\ NextRow(k) = i))

\* No drain will send row i again, unless a fault undoes what was done.
Settled(i) == state[i] = "published" \/ \E k \in Relays : HasSent(k, i)

One(b) == IF b THEN 1 ELSE 0

Expected(i) == One(i \in stragglers) + Cardinality(Orphans(i)) + One(~ Settled(i))

WithinBudget(i) ==
    /\ IsFiniteSet(Orphans(i))
    /\ Cardinality(Arrivals(i)) + Expected(i) <= 1 + faults

LEMMA ArrivalsFinite ==
    ASSUME TypeOK, NEW i PROVE IsFiniteSet(Arrivals(i)) /\ Cardinality(Arrivals(i)) \in Nat
<1>1. DOMAIN arrived = 1..Len(arrived) /\ Len(arrived) \in Nat
  BY LenProperties DEF TypeOK
<1>2. IsFiniteSet(1..Len(arrived)) /\ Arrivals(i) \in SUBSET (1..Len(arrived))
  BY <1>1, FS_Interval DEF Arrivals
<1> QED
  BY <1>2, FS_Subset, FS_CardinalityType

LEMMA ArrivalsSame ==
    ASSUME TypeOK, UNCHANGED arrived, NEW i
    PROVE  Cardinality(Arrivals(i))' = Cardinality(Arrivals(i)) + 0
<1>1. Arrivals(i)' = Arrivals(i)
  BY DEF Arrivals
<1> QED
  BY <1>1, ArrivalsFinite

LEMMA ArriveCounts ==
    ASSUME TypeOK, NEW x \in Ids, Arrive(x), NEW i
    PROVE  Cardinality(Arrivals(i))' = Cardinality(Arrivals(i)) + One(i = x)
<1> DEFINE n == Len(arrived) + 1
<1>1. /\ DOMAIN arrived = 1..Len(arrived) /\ Len(arrived) \in Nat
      /\ DOMAIN arrived' = 1..n
      /\ \A m \in 1..Len(arrived) : arrived'[m] = arrived[m]
      /\ arrived'[n] = x
  BY ArriveAppends
<1>2. IsFiniteSet(Arrivals(i)) /\ n \notin Arrivals(i) /\ Cardinality(Arrivals(i)) \in Nat
  <2>1. n \notin Arrivals(i)
    BY <1>1 DEF Arrivals
  <2> QED
    BY <2>1, ArrivalsFinite
<1>3. CASE i = x
  <2>1. Arrivals(i)' = Arrivals(i) \cup {n}
    BY <1>1, <1>3 DEF Arrivals
  <2>2. Cardinality(Arrivals(i) \cup {n}) = Cardinality(Arrivals(i)) + 1
    BY <1>2, FS_AddElement
  <2>3. Cardinality(Arrivals(i))' = Cardinality(Arrivals(i)) + 1
    BY <2>1, <2>2
  <2> QED
    BY <1>3, <2>3 DEF One
<1>4. CASE i # x
  <2>1. Arrivals(i)' = Arrivals(i)
    BY <1>1, <1>4 DEF Arrivals
  <2> QED
    BY <1>2, <1>4, <2>1 DEF One
<1> QED
  BY <1>3, <1>4

\* A step of relay k makes or ends no other orphan.
LEMMA OrphansCount ==
    ASSUME NEW k \in Relays, NEW i, IsFiniteSet(Orphans(i)),
           \A g \in Relays \ {k} : IsOrphan(g, i)' <=> IsOrphan(g, i)
    PROVE  /\ IsFiniteSet(Orphans(i))'
           /\ Cardinality(Orphans(i)) \in Nat
           /\ Cardinality(Orphans(i))' + One(IsOrphan(k, i))
                = Cardinality(Orphans(i)) + One(IsOrphan(k, i)')
<1>0. Cardinality(Orphans(i)) \in Nat
  BY FS_CardinalityType
<1>1. CASE IsOrphan(k, i)' <=> IsOrphan(k, i)
  <2>1. Orphans(i)' = Orphans(i)
    BY <1>1 DEF Orphans
  <2> QED
    BY <1>0, <1>1, <2>1 DEF One
<1>2. CASE IsOrphan(k, i)' /\ ~ IsOrphan(k, i)
  <2>1. Orphans(i)' = Orphans(i) \cup {k} /\ k \notin Orphans(i)
    BY <1>2 DEF Orphans
  <2>2. /\ IsFiniteSet(Orphans(i) \cup {k})
        /\ Cardinality(Orphans(i) \cup {k}) = Cardinality(Orphans(i)) + 1
    BY <2>1, FS_AddElement
  <2>3. IsFiniteSet(Orphans(i))' /\ Cardinality(Orphans(i))' = Cardinality(Orphans(i)) + 1
    BY <2>1, <2>2
  <2>4. One(IsOrphan(k, i)) = 0 /\ One(IsOrphan(k, i)') = 1
    BY <1>2 DEF One
  <2> QED
    BY <1>0, <2>3, <2>4
<1>3. CASE ~ IsOrphan(k, i)' /\ IsOrphan(k, i)
  <2>1. Orphans(i)' = Orphans(i) \ {k} /\ k \in Orphans(i)
    BY <1>3 DEF Orphans
  <2>2. /\ IsFiniteSet(Orphans(i) \ {k})
        /\ Cardinality(Orphans(i) \ {k}) = Cardinality(Orphans(i)) - 1
    BY <2>1, FS_RemoveElement
  <2>3. IsFiniteSet(Orphans(i))' /\ Cardinality(Orphans(i))' = Cardinality(Orphans(i)) - 1
    BY <2>1, <2>2
  <2>4. One(IsOrphan(k, i)) = 1 /\ One(IsOrphan(k, i)') = 0
    BY <1>3 DEF One
  <2> QED
    BY <1>0, <2>3, <2>4
<1> QED
  BY <1>1, <1>2, <1>3

\* What a step of relay k has to show for row i.
LEMMA BudgetKept ==
    ASSUME RelayInv, NEW k \in Relays, NEW i, WithinBudget(i),
           \A g \in Relays \ {k} : IsOrphan(g, i)' <=> IsOrphan(g, i),
           faults' \in Nat, NEW a \in Nat,
           Cardinality(Arrivals(i))' = Cardinality(Arrivals(i)) + a,
           a + One(i \in stragglers)' + One(IsOrphan(k, i)') + One(~ Settled(i))' + faults
             <= One(i \in stragglers) + One(IsOrphan(k, i)) + One(~ Settled(i)) + faults'
    PROVE  WithinBudget(i)'
<1>1. /\ IsFiniteSet(Orphans(i))' /\ Cardinality(Orphans(i)) \in Nat
      /\ Cardinality(Orphans(i))' + One(IsOrphan(k, i))
           = Cardinality(Orphans(i)) + One(IsOrphan(k, i)')
  BY OrphansCount DEF WithinBudget
<1>2. Cardinality(Orphans(i))' \in Nat
  BY <1>1, FS_CardinalityType
<1>3. Cardinality(Arrivals(i)) \in Nat /\ faults \in Nat
  BY ArrivalsFinite DEF RelayInv, TypeOK
<1>4. /\ One(i \in stragglers) \in Nat /\ One(i \in stragglers)' \in Nat
      /\ One(IsOrphan(k, i)) \in Nat /\ One(IsOrphan(k, i)') \in Nat
      /\ One(~ Settled(i)) \in Nat /\ One(~ Settled(i))' \in Nat
  BY DEF One
<1> QED
  BY <1>1, <1>2, <1>3, <1>4 DEF WithinBudget, Expected

RelayAct(k) ==
    Drain(k) \/ PublishFails(k) \/ ConfirmLost(k) \/ SessionLost(k) \/ Crash(k)

LEMMA OtherRelays ==
    ASSUME TypeOK, NEW k \in Relays, RelayAct(k), NEW g \in Relays \ {k}
    PROVE  /\ pc'[g] = pc[g] /\ session'[g] = session[g]
           /\ batch'[g] = batch[g] /\ marks'[g] = marks[g]
<1>1. CASE TryLock(k) \/ Select(k) \/ Confirm(k) \/ Mark(k)
  BY <1>1 DEF TypeOK, TryLock, Select, Send, Confirm, Mark
<1>2. CASE Finish(k) \/ StatementFails(k) \/ Crash(k)
  BY <1>2 DEF TypeOK, Finish, StatementFails, Crash, Leave
<1>3. CASE PublishFails(k) \/ ConfirmLost(k) \/ SessionLost(k)
  BY <1>3 DEF TypeOK, PublishFails, ConfirmLost, SessionLost, relay
<1> QED
  BY <1>1, <1>2, <1>3 DEF RelayAct, Drain

\* What the other relays hold is the same; only a drain with the lock sends and
\* marks.
LEMMA OthersTheSame ==
    ASSUME TypeOK, NEW k \in Relays, RelayAct(k), NEW i
    PROVE  \A g \in Relays \ {k} : /\ IsOrphan(g, i)' <=> IsOrphan(g, i)
                                   /\ HasSent(g, i)' <=> HasSent(g, i)
<1> TAKE g \in Relays \ {k}
<1>1. /\ pc'[g] = pc[g] /\ session'[g] = session[g]
      /\ batch'[g] = batch[g] /\ marks'[g] = marks[g]
  BY OtherRelays
<1> QED
  BY <1>1 DEF IsOrphan, HasSent, NextRow

LEMMA SettledStays ==
    ASSUME TypeOK, NEW k \in Relays, RelayAct(k), NEW i, Settled(i),
           state[i] = "published" => state'[i] = "published",
           HasSent(k, i) => HasSent(k, i)' \/ state'[i] = "published"
    PROVE  Settled(i)'
BY OthersTheSame DEF Settled

\* A row that the lock's holder waits for is not settled.
LEMMA WaitingIsUnsettled ==
    ASSUME RelayInv, NEW k \in Relays, session[k], pc[k] = "waiting"
    PROVE  ~ Settled(NextRow(k))
<1>1. NextRow(k) \in batch[k] /\ state[NextRow(k)] = "pending" /\ NextRow(k) \notin marks[k]
  BY NextRowInOrder DEF RelayInv, DrainInOrder
<1>2. \A g \in Relays : session[g] => g = k
  BY DEF RelayInv, LockIsHeld
<1> QED
  BY <1>1, <1>2 DEF Settled, HasSent

\* A drain that goes on or ends without a fault costs nothing.
LEMMA QuietBudget ==
    ASSUME RelayInv, RelayInv', NEW k \in Relays, NEW i \in Ids, WithinBudget(i),
           TryLock(k) \/ Select(k) \/ Mark(k) \/ Finish(k) \/ StatementFails(k)
    PROVE  WithinBudget(i)'
<1>1. RelayAct(k)
  BY DEF RelayAct, Drain
<1>2. UNCHANGED <<arrived, stragglers, faults>>
  BY DEF TryLock, Select, Mark, Finish, StatementFails, broker
<1>3. Cardinality(Arrivals(i))' = Cardinality(Arrivals(i)) + 0
  BY <1>2, ArrivalsSame DEF RelayInv
<1>4. ~ IsOrphan(k, i)'
  BY DEF IsOrphan, RelayInv, TypeOK, TryLock, Select, Send, Mark, Finish, StatementFails, Leave
<1>5. Settled(i) => Settled(i)'
  <2>1. state[i] = "published" => state'[i] = "published"
    BY DEF TryLock, Select, Mark, Finish, StatementFails, recorded
  <2>2. HasSent(k, i) => HasSent(k, i)' \/ state'[i] = "published"
    <3>1. CASE TryLock(k) \/ StatementFails(k)
      BY <3>1 DEF TryLock, LockFree, StatementFails, HasSent, RelayInv, LockIsHeld
    <3>2. CASE Select(k)
      BY <3>2 DEF Select, HasSent, RelayInv, DrainInOrder
    <3>3. CASE Mark(k)
      BY <3>3 DEF Mark, HasSent, RelayInv, TypeOK
    <3>4. CASE Finish(k)
      BY <3>4 DEF Finish, NothingToSend, HasSent
    <3> QED
      BY <3>1, <3>2, <3>3, <3>4
  <2> QED
    BY <1>1, <2>1, <2>2, SettledStays DEF RelayInv
<1>6. faults \in Nat /\ faults' \in Nat
  BY DEF RelayInv, TypeOK
<1>7. \A g \in Relays \ {k} : IsOrphan(g, i)' <=> IsOrphan(g, i)
  BY <1>1, OthersTheSame DEF RelayInv
<1>8. 0 + One(i \in stragglers)' + One(IsOrphan(k, i)') + One(~ Settled(i))' + faults
        <= One(i \in stragglers) + One(IsOrphan(k, i)) + One(~ Settled(i)) + faults'
  <2>1. One(i \in stragglers)' = One(i \in stragglers) /\ faults' = faults
    BY <1>2 DEF One
  <2>2. One(IsOrphan(k, i)') <= One(IsOrphan(k, i))
    BY <1>4 DEF One
  <2>3. One(~ Settled(i))' <= One(~ Settled(i))
    BY <1>5 DEF One
  <2>4. /\ One(i \in stragglers) \in Nat
        /\ One(IsOrphan(k, i)) \in Nat /\ One(IsOrphan(k, i)') \in Nat
        /\ One(~ Settled(i)) \in Nat /\ One(~ Settled(i))' \in Nat
    BY DEF One
  <2> QED
    BY <1>6, <2>1, <2>2, <2>3, <2>4
<1> QED
  BY <1>3, <1>6, <1>7, <1>8, BudgetKept

\* A confirm settles its row, or ends an orphan.
LEMMA ConfirmBudget ==
    ASSUME RelayInv, RelayInv', NEW k \in Relays, NEW i \in Ids, WithinBudget(i), Confirm(k)
    PROVE  WithinBudget(i)'
<1>1. RelayAct(k)
  BY DEF RelayAct, Drain
<1>2. PICK x \in Ids : x = NextRow(k)
  BY NextRowInOrder DEF Confirm, RelayInv, DrainInOrder
<1>3. /\ pc[k] = "waiting" /\ Arrive(x) /\ pc'[k] = "confirmed"
      /\ UNCHANGED <<stragglers, faults, state>> /\ session'[k] = session[k]
      /\ NextRow(k)' = NextRow(k) /\ marks'[k] = marks[k]
  BY <1>2 DEF Confirm, RelayInv, TypeOK, recorded, NextRow
<1>4. Cardinality(Arrivals(i))' = Cardinality(Arrivals(i)) + One(i = x)
  BY <1>3, ArriveCounts DEF RelayInv
<1>5. ~ IsOrphan(k, i)'
  BY <1>3 DEF IsOrphan
<1>6. Settled(i) => Settled(i)'
  BY <1>1, <1>3, SettledStays DEF RelayInv, HasSent
<1>7. i = x => IsOrphan(k, i) \/ (~ Settled(i) /\ Settled(i)')
  <2>1. CASE session[k]
    <3>1. ~ Settled(x)
      BY <1>2, <1>3, <2>1, WaitingIsUnsettled
    <3>2. HasSent(k, x)'
      BY <1>2, <1>3, <2>1 DEF HasSent
    <3> QED
      BY <3>1, <3>2 DEF Settled
  <2>2. CASE ~ session[k]
    BY <1>2, <1>3, <2>2 DEF IsOrphan
  <2> QED
    BY <2>1, <2>2
<1>8. faults \in Nat /\ faults' \in Nat
  BY DEF RelayInv, TypeOK
<1>9. \A g \in Relays \ {k} : IsOrphan(g, i)' <=> IsOrphan(g, i)
  BY <1>1, OthersTheSame DEF RelayInv
<1>10. One(i = x) + One(i \in stragglers)' + One(IsOrphan(k, i)') + One(~ Settled(i))' + faults
        <= One(i \in stragglers) + One(IsOrphan(k, i)) + One(~ Settled(i)) + faults'
  <2>1. One(i \in stragglers)' = One(i \in stragglers) /\ faults' = faults
    BY <1>3 DEF One
  <2>2. One(IsOrphan(k, i)') = 0
    BY <1>5 DEF One
  <2>3. One(i = x) + One(~ Settled(i))' <= One(IsOrphan(k, i)) + One(~ Settled(i))
    BY <1>6, <1>7 DEF One
  <2>4. /\ One(i \in stragglers) \in Nat /\ One(i = x) \in Nat
        /\ One(IsOrphan(k, i)) \in Nat /\ One(IsOrphan(k, i)') \in Nat
        /\ One(~ Settled(i)) \in Nat /\ One(~ Settled(i))' \in Nat
    BY DEF One
  <2> QED
    BY <1>8, <2>1, <2>2, <2>3, <2>4
<1>11. PICK a \in Nat : a = One(i = x)
  BY DEF One
<1>12. /\ Cardinality(Arrivals(i))' = Cardinality(Arrivals(i)) + a
       /\ a + One(i \in stragglers)' + One(IsOrphan(k, i)') + One(~ Settled(i))' + faults
            <= One(i \in stragglers) + One(IsOrphan(k, i)) + One(~ Settled(i)) + faults'
  BY <1>4, <1>10, <1>11
<1> QED
  BY <1>8, <1>9, <1>12, BudgetKept

\* A fault pays for what it repeats: one straggler, one orphan, one arrival or
\* one lost mark of a row.
LEMMA FaultBudget ==
    ASSUME RelayInv, RelayInv', NEW k \in Relays, NEW i \in Ids, WithinBudget(i),
           PublishFails(k) \/ SessionLost(k) \/ Crash(k)
    PROVE  WithinBudget(i)'
<1>1. RelayAct(k)
  BY DEF RelayAct
<1>2. UNCHANGED <<arrived, state>> /\ faults' = faults + 1
  BY DEF PublishFails, SessionLost, Crash, Fault, recorded, broker
<1>3. Cardinality(Arrivals(i))' = Cardinality(Arrivals(i)) + 0
  BY <1>2, ArrivalsSame DEF RelayInv
<1>4. faults \in Nat /\ faults' \in Nat
  BY DEF RelayInv, TypeOK
<1>5. \A g \in Relays \ {k} : IsOrphan(g, i)' <=> IsOrphan(g, i)
  BY <1>1, OthersTheSame DEF RelayInv
<1>6. ~ session[k] => (Settled(i) => Settled(i)')
  BY <1>1, <1>2, SettledStays DEF RelayInv, HasSent
<1>7. session[k] /\ pc[k] = "waiting" /\ i = NextRow(k) => ~ Settled(i)
  BY WaitingIsUnsettled
<1>8. CASE PublishFails(k)
  <2>1. pc[k] = "waiting" /\ ~ IsOrphan(k, i)'
    BY <1>8 DEF PublishFails, IsOrphan, RelayInv, TypeOK
  <2>2. Settled(i) => Settled(i)'
    <3>1. HasSent(k, i) => HasSent(k, i)'
      BY <1>8 DEF PublishFails, HasSent
    <3> QED
      BY <1>1, <1>2, <3>1, SettledStays DEF RelayInv
  <2>3. /\ One(i \in stragglers)' <= One(i \in stragglers) + 1
        /\ One(IsOrphan(k, i)') = 0
        /\ One(~ Settled(i))' <= One(~ Settled(i))
    BY <2>1, <2>2 DEF One
  <2>4. 0 + One(i \in stragglers)' + One(IsOrphan(k, i)') + One(~ Settled(i))' + faults
          <= One(i \in stragglers) + One(IsOrphan(k, i)) + One(~ Settled(i)) + faults'
    BY <1>2, <1>4, <2>3 DEF One
  <2> QED
    BY <1>3, <1>4, <1>5, <2>4, BudgetKept
<1>9. CASE SessionLost(k)
  <2>1. session[k] /\ UNCHANGED stragglers /\ pc'[k] = pc[k] /\ NextRow(k)' = NextRow(k)
    BY <1>9 DEF SessionLost, broker, NextRow
  <2>2. IsOrphan(k, i)' => ~ Settled(i)
    BY <1>7, <2>1 DEF IsOrphan
  <2>3. /\ One(i \in stragglers)' = One(i \in stragglers)
        /\ One(IsOrphan(k, i)') + One(~ Settled(i))' <= 1 + One(~ Settled(i))
    BY <2>1, <2>2 DEF One
  <2>4. 0 + One(i \in stragglers)' + One(IsOrphan(k, i)') + One(~ Settled(i))' + faults
          <= One(i \in stragglers) + One(IsOrphan(k, i)) + One(~ Settled(i)) + faults'
    BY <1>2, <1>4, <2>3 DEF One
  <2> QED
    BY <1>3, <1>4, <1>5, <2>4, BudgetKept
<1>10. CASE Crash(k)
  <2>1. ~ IsOrphan(k, i)'
    BY <1>10 DEF Crash, Leave, IsOrphan, RelayInv, TypeOK
  <2>2. \/ stragglers' = stragglers
        \/ pc[k] = "waiting" /\ stragglers' = stragglers \cup {NextRow(k)}
    BY <1>10 DEF Crash, GiveUp
  <2>3. i \in stragglers' => \/ i \in stragglers
                             \/ IsOrphan(k, i)
                             \/ session[k] /\ ~ Settled(i)
    BY <1>7, <2>2 DEF IsOrphan
  <2>4. /\ One(IsOrphan(k, i)') = 0
        /\ One(i \in stragglers)' + One(~ Settled(i))'
             <= 1 + One(i \in stragglers) + One(IsOrphan(k, i)) + One(~ Settled(i))
    BY <1>6, <2>1, <2>3 DEF One
  <2>5. 0 + One(i \in stragglers)' + One(IsOrphan(k, i)') + One(~ Settled(i))' + faults
          <= One(i \in stragglers) + One(IsOrphan(k, i)) + One(~ Settled(i)) + faults'
    BY <1>2, <1>4, <2>4 DEF One
  <2> QED
    BY <1>3, <1>4, <1>5, <2>5, BudgetKept
<1> QED
  BY <1>8, <1>9, <1>10

\* A repeated publish is a fault, a late one was paid for when it was given up.
LEMMA ArrivalBudget ==
    ASSUME RelayInv, RelayInv', NEW i \in Ids, WithinBudget(i),
           NEW x \in Ids, Arrive(x), UNCHANGED <<recorded, relay>>,
           \/ UNCHANGED stragglers /\ faults' = faults + 1
           \/ x \in stragglers /\ stragglers' = stragglers \ {x} /\ UNCHANGED faults
    PROVE  WithinBudget(i)'
<1>1. Cardinality(Arrivals(i))' = Cardinality(Arrivals(i)) + One(i = x)
  BY ArriveCounts DEF RelayInv
<1>2. Orphans(i)' = Orphans(i) /\ (Settled(i)' <=> Settled(i))
  BY DEF relay, recorded, Orphans, IsOrphan, HasSent, NextRow, Settled
<1>3. /\ IsFiniteSet(Orphans(i))' /\ Cardinality(Orphans(i))' = Cardinality(Orphans(i))
      /\ One(~ Settled(i))' = One(~ Settled(i))
  BY <1>2 DEF One, WithinBudget
<1>4. /\ One(i = x) \in Nat /\ One(i = x) <= 1
      /\ One(i \in stragglers) \in Nat /\ One(i \in stragglers)' \in Nat
      /\ One(~ Settled(i)) \in Nat
  BY DEF One
<1>5. /\ faults \in Nat /\ faults' \in Nat /\ Cardinality(Arrivals(i)) \in Nat
      /\ Cardinality(Orphans(i)) \in Nat
  BY ArrivalsFinite, FS_CardinalityType DEF RelayInv, TypeOK, WithinBudget
<1>6. One(i = x) + One(i \in stragglers)' + faults <= One(i \in stragglers) + faults'
  <2>1. CASE UNCHANGED stragglers /\ faults' = faults + 1
    <3>1. One(i \in stragglers)' = One(i \in stragglers)
      BY <2>1 DEF One
    <3> QED
      BY <1>4, <1>5, <2>1, <3>1
  <2>2. CASE x \in stragglers /\ stragglers' = stragglers \ {x} /\ UNCHANGED faults
    <3>1. One(i = x) + One(i \in stragglers)' <= One(i \in stragglers)
      BY <2>2 DEF One
    <3> QED
      BY <1>4, <1>5, <2>2, <3>1
  <2> QED
    BY <2>1, <2>2
<1> QED
  BY <1>1, <1>3, <1>4, <1>5, <1>6 DEF WithinBudget, Expected

\* A row is written without any arrival; it is owed one.
LEMMA RecordBudget ==
    ASSUME RelayInv, RelayInv', NEW i \in Ids', \A j \in Ids : WithinBudget(j),
           \/ \E r \in Requests : Insert(r)
           \/ \E j \in Ids : Commit(j) \/ Rollback(j)
    PROVE  WithinBudget(i)'
<1>1. /\ UNCHANGED <<relay, broker>> /\ faults' >= faults
  BY DEF Insert, Commit, Rollback, Fault, RelayInv, TypeOK
<1>2. /\ \A g \in Relays : IsOrphan(g, i)' <=> IsOrphan(g, i)
      /\ UNCHANGED <<arrived, stragglers, Orphans(i)>>
  BY <1>1 DEF relay, broker, IsOrphan, NextRow, Orphans
<1>3. faults \in Nat /\ faults' \in Nat
  BY DEF RelayInv, TypeOK
<1>4. CASE i \in Ids
  <2>1. WithinBudget(i)
    BY <1>4
  <2>2. Settled(i) => Settled(i)'
    <3>1. state[i] = "published" => state'[i] = "published"
      <4>1. ASSUME NEW r \in Requests, Insert(r) PROVE state'[i] = state[i]
        <5>1. PICK p \in Upcoming(r) : rows' = Append(rows, [request |-> r, pattern |-> p])
          BY <4>1 DEF Insert
        <5>2. [request |-> r, pattern |-> p] \in Row /\ state' = Append(state, "open")
          BY <4>1, UpcomingIsPattern DEF Row, Insert
        <5> QED
          BY <1>4, <5>1, <5>2, InsertAppends DEF RelayInv
      <4>2. ASSUME NEW j \in Ids, Commit(j) \/ Rollback(j)
            PROVE  state[i] = "published" => state'[i] = "published"
        BY <1>4, <4>2 DEF Commit, Rollback, RelayInv, TypeOK
      <4> QED
        BY <4>1, <4>2
    <3>2. \A g \in Relays : HasSent(g, i) => HasSent(g, i)'
      BY <1>1 DEF relay, HasSent, NextRow
    <3> QED
      BY <3>1, <3>2 DEF Settled
  <2>3. /\ Cardinality(Arrivals(i))' = Cardinality(Arrivals(i))
        /\ Cardinality(Orphans(i))' = Cardinality(Orphans(i)) /\ IsFiniteSet(Orphans(i))'
        /\ One(i \in stragglers)' = One(i \in stragglers)
    BY <1>2, <2>1 DEF Arrivals, WithinBudget
  <2>4. One(~ Settled(i))' <= One(~ Settled(i))
    BY <2>2 DEF One
  <2>5. /\ Cardinality(Arrivals(i)) \in Nat /\ Cardinality(Orphans(i)) \in Nat
        /\ One(i \in stragglers) \in Nat
        /\ One(~ Settled(i)) \in Nat /\ One(~ Settled(i))' \in Nat
    BY <2>1, ArrivalsFinite, FS_CardinalityType DEF One, WithinBudget, RelayInv
  <2> QED
    BY <1>1, <1>3, <2>1, <2>3, <2>4, <2>5 DEF WithinBudget, Expected
<1>5. CASE i \notin Ids
  <2>1. Arrivals(i)' = {}
    <3>1. \A n \in DOMAIN arrived : arrived[n] \in Ids
      BY ElementOfSeq, LenProperties DEF RelayInv, TypeOK
    <3> QED
      BY <1>2, <1>5, <3>1 DEF Arrivals
  <2>2. i \notin stragglers
    BY <1>5 DEF RelayInv, TypeOK
  <2>3. Orphans(i)' = {}
    <3>1. \A g \in Relays : pc[g] = "waiting" => NextRow(g) \in Ids
      BY NextRowInOrder DEF RelayInv, DrainInOrder
    <3> QED
      BY <1>2, <1>5, <3>1 DEF Orphans, IsOrphan
  <2>4. One(i \in stragglers)' = 0 /\ One(~ Settled(i))' \in {0, 1}
    BY <1>2, <2>2 DEF One
  <2> QED
    BY <1>3, <2>1, <2>3, <2>4, FS_EmptySet DEF WithinBudget, Expected
<1> QED
  BY <1>4, <1>5

LEMMA BudgetStep ==
    ASSUME RelayInv, RelayInv', [Next]_vars, \A i \in Ids : WithinBudget(i)
    PROVE  \A i \in Ids' : WithinBudget(i)'
<1>1. CASE (\E r \in Requests : Insert(r)) \/ \E j \in Ids : Commit(j) \/ Rollback(j)
  BY <1>1, RecordBudget
<1>2. ASSUME UNCHANGED rows, NEW k \in Relays, RelayAct(k) PROVE \A i \in Ids' : WithinBudget(i)'
  <2> SUFFICES ASSUME NEW i \in Ids PROVE WithinBudget(i)'
    BY <1>2 DEF Ids
  <2>1. CASE ConfirmLost(k)
    <3>1. /\ NextRow(k) \in Ids /\ Arrive(NextRow(k)) /\ UNCHANGED <<recorded, relay, stragglers>>
          /\ faults' = faults + 1
      BY <2>1, NextRowInOrder DEF ConfirmLost, Fault, RelayInv, DrainInOrder
    <3> QED
      BY <3>1, ArrivalBudget
  <2> QED
    BY <1>2, <2>1, QuietBudget, ConfirmBudget, FaultBudget DEF RelayAct, Drain
<1>3. ASSUME NEW x \in stragglers, StragglerArrives(x) PROVE \A i \in Ids' : WithinBudget(i)'
  <2>1. /\ x \in Ids /\ Arrive(x) /\ UNCHANGED <<recorded, relay, faults>>
        /\ stragglers' = stragglers \ {x}
    BY <1>3 DEF StragglerArrives, RelayInv, TypeOK
  <2> SUFFICES ASSUME NEW i \in Ids PROVE WithinBudget(i)'
    BY <2>1 DEF Ids, recorded
  <2> QED
    BY <2>1, ArrivalBudget
<1>4. ASSUME UNCHANGED vars PROVE \A i \in Ids' : WithinBudget(i)'
  <2>1. UNCHANGED <<rows, state, session, pc, batch, marks, stragglers, arrived, faults>>
    BY <1>4 DEF vars
  <2> QED
    BY <2>1 DEF Ids, WithinBudget, Expected, Orphans, IsOrphan, Settled, HasSent, NextRow, Arrivals,
                One
<1>5. \A k \in Relays : RelayAct(k) => UNCHANGED rows
  BY DEF RelayAct, Drain, TryLock, Select, Confirm, Mark, Finish, StatementFails, PublishFails,
         ConfirmLost, SessionLost, Crash, recorded
<1> QED
  BY <1>1, <1>2, <1>3, <1>4, <1>5 DEF Next, FaultStep, RelayAct

\* Only a fault repeats a row, and each fault repeats a row at most once,
\* however many replicas drain and whatever they lose on the way.
THEOREM RepeatsArePaidFor == Spec => []RepeatsAreFaults
<1> DEFINE Budget == \A i \in Ids : WithinBudget(i)
<1>1. Init => Budget
  BY DEF Init, Ids
<1>2. RelayInv /\ RelayInv' /\ Budget /\ [Next]_vars => Budget'
  BY BudgetStep
<1>3. RelayInv /\ Budget => RepeatsAreFaults
  <2> SUFFICES ASSUME RelayInv, NEW i \in Ids, WithinBudget(i)
      PROVE  Cardinality(Arrivals(i)) <= 1 + faults
    BY DEF RepeatsAreFaults, Arrivals
  <2>1. /\ Cardinality(Arrivals(i)) \in Nat /\ Cardinality(Orphans(i)) \in Nat /\ faults \in Nat
        /\ One(i \in stragglers) \in Nat /\ One(~ Settled(i)) \in Nat
    BY ArrivalsFinite, FS_CardinalityType DEF One, WithinBudget, RelayInv, TypeOK
  <2> QED
    BY <2>1 DEF WithinBudget, Expected
<1> QED
  BY <1>1, <1>2, <1>3, RelayInvariant, PTL DEF Spec

=============================================================================
