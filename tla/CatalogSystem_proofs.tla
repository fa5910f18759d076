------------------------ MODULE CatalogSystem_proofs ------------------------
(***************************************************************************)
(* The loop through the other services, for any requests, messages,        *)
(* attempts and faults.  The composition implements the lifecycle of the   *)
(* requests and the delivery of the outbox at once; from the history the   *)
(* lifecycle promises it follows that what the others were told is what is *)
(* stored, and from that that no event is ever too early.                  *)
(***************************************************************************)
EXTENDS CatalogSystem, SequenceTheorems, FiniteSetTheorems, TLAPS

USE NoneAssumption, MessagesAssumption, SystemAssumption

Row == [request : Requests, pattern : OutboxPatterns, payload : Request]

RowStates == {"pending", "sent", "published"}

HasArrived(i) == \E n \in DOMAIN arrived : arrived[n] = i

\* Nothing has happened about a request that is not created.
NothingBeforeCreation ==
    \A r \in Requests \ created :
      requests[r] = CreatedRequest /\ \A i \in Ids : rows[i].request # r

\* What was published, marked or not, arrived.
PublishedHasArrived == \A i \in Ids : state[i] # "pending" => HasArrived(i)

SystemInv == TypeOK /\ NothingBeforeCreation /\ PublishedHasArrived

-----------------------------------------------------------------------------
(* Writing rows *)

LEMMA FunctionIsSeq ==
    ASSUME NEW S, NEW n \in Nat, NEW f \in [1..n -> S] PROVE f \in Seq(S) /\ Len(f) = n
<1>1. Seq(S) = UNION {[1..m -> S] : m \in Nat}
  BY SeqDef
<1>2. f \in Seq(S)
  BY <1>1
<1>3. DOMAIN f = 1..n /\ DOMAIN f = 1..Len(f) /\ Len(f) \in Nat
  BY <1>2, LenProperties
<1>4. 1..n = 1..Len(f)
  BY <1>3
<1> QED
  BY <1>2, <1>3, <1>4

LEMMA AppendIsFunction ==
    ASSUME NEW S, NEW s \in Seq(S), NEW x \in S
    PROVE  Append(s, x) = [i \in 1..(Len(s) + 1) |-> IF i = Len(s) + 1 THEN x ELSE s[i]]
<1> DEFINE f == [i \in 1..(Len(s) + 1) |-> IF i = Len(s) + 1 THEN x ELSE s[i]]
<1>1. Len(s) \in Nat /\ \A i \in 1..Len(s) : s[i] \in S
  BY LenProperties, ElementOfSeq
<1>2. f \in [1..(Len(s) + 1) -> S] /\ Len(s) + 1 \in Nat
  BY <1>1
<1>3. f \in Seq(S) /\ Len(f) = Len(s) + 1
  <2> HIDE DEF f
  <2> QED
    BY <1>2, FunctionIsSeq
<1>4. /\ Append(s, x) \in Seq(S) /\ Len(Append(s, x)) = Len(s) + 1
      /\ \A i \in 1..Len(s) : Append(s, x)[i] = s[i]
      /\ Append(s, x)[Len(s) + 1] = x
  BY AppendProperties
<1>5. \A i \in 1..(Len(s) + 1) : f[i] = Append(s, x)[i]
  BY <1>1, <1>4
<1> HIDE DEF f
<1> QED
  BY <1>3, <1>4, <1>5, SeqEqual DEF f

LEMMA TablesAreSequences ==
    ASSUME TypeOK
    PROVE  /\ rows \in Seq(Row) /\ Len(rows) \in Nat /\ Ids = 1..Len(rows)
           /\ state \in Seq(RowStates) /\ Len(state) = Len(rows)
<1>1. rows \in Seq(Row) /\ Len(rows) \in Nat /\ Ids = 1..Len(rows)
  BY LenProperties DEF TypeOK, Row, Ids
<1>2. state \in [1..Len(rows) -> RowStates]
  BY <1>1 DEF TypeOK, RowStates
<1>3. state \in Seq(RowStates) /\ Len(state) = Len(rows)
  BY <1>1, <1>2, FunctionIsSeq
<1> QED
  BY <1>1, <1>3

LEMMA WriteNothing ==
    ASSUME TypeOK, NEW r \in Requests, Write(r, <<>>)
    PROVE  UNCHANGED <<rows, state>>
<1>1. rows \in Seq(Row) /\ state \in Seq(RowStates)
  BY TablesAreSequences
<1>2. DOMAIN <<>> = {}
  OBVIOUS
<1>3. /\ [n \in DOMAIN <<>> |-> [request |-> r, pattern |-> <<>>[n].pattern,
                                 payload |-> <<>>[n].request]] = <<>>
      /\ [n \in DOMAIN <<>> |-> "pending"] = <<>>
  BY <1>2
<1>4. rows' = rows \o <<>> /\ state' = state \o <<>>
  BY <1>3 DEF Write
<1> QED
  BY <1>1, <1>4, ConcatEmptySeq

\* The row w of request r is the next of the outbox.
Wrote(r, w) ==
    LET row == [request |-> r, pattern |-> w.pattern, payload |-> w.request]
    IN  rows' = Append(rows, row) /\ state' = Append(state, "pending")

LEMMA WriteOne ==
    ASSUME TypeOK, NEW r \in Requests, NEW w \in OutboxRow, Write(r, <<w>>)
    PROVE  Wrote(r, w)
<1> DEFINE row == [request |-> r, pattern |-> w.pattern, payload |-> w.request]
<1>1. rows \in Seq(Row) /\ state \in Seq(RowStates) /\ row \in Row /\ "pending" \in RowStates
  BY TablesAreSequences DEF Row, OutboxRow, RowStates
<1>2. DOMAIN <<w>> = {1} /\ <<w>>[1] = w
  OBVIOUS
<1>3. /\ [n \in DOMAIN <<w>> |-> [request |-> r, pattern |-> <<w>>[n].pattern,
                                  payload |-> <<w>>[n].request]] = [n \in {1} |-> row]
      /\ [n \in DOMAIN <<w>> |-> "pending"] = [n \in {1} |-> "pending"]
  BY <1>2
<1>4. \A x : [n \in {1} |-> x] = <<x>>
  OBVIOUS
<1>5. rows' = rows \o <<row>> /\ state' = state \o <<"pending">>
  BY <1>3, <1>4 DEF Write
<1>6. rows \o <<row>> = Append(rows, row) /\ state \o <<"pending">> = Append(state, "pending")
  BY <1>1, AppendIsConcat
<1> QED
  BY <1>5, <1>6 DEF Wrote

\* It gets the next id and leaves every other row as it was.
LEMMA WroteAppends ==
    ASSUME TypeOK, NEW r \in Requests, NEW w \in OutboxRow, Wrote(r, w)
    PROVE  /\ rows' \in Seq(Row) /\ Ids' = Ids \cup {Len(rows) + 1}
           /\ Len(rows) + 1 \notin Ids
           /\ state' \in [Ids' -> RowStates]
           /\ \A i \in Ids : rows'[i] = rows[i] /\ state'[i] = state[i]
           /\ rows'[Len(rows) + 1] =
                [request |-> r, pattern |-> w.pattern, payload |-> w.request]
           /\ state'[Len(rows) + 1] = "pending"
<1> DEFINE row == [request |-> r, pattern |-> w.pattern, payload |-> w.request]
<1>1. /\ rows \in Seq(Row) /\ Len(rows) \in Nat /\ Ids = 1..Len(rows)
      /\ state \in Seq(RowStates) /\ Len(state) = Len(rows)
  BY TablesAreSequences
<1>2. row \in Row /\ "pending" \in RowStates
  BY DEF Row, OutboxRow, RowStates
<1>3. rows' = Append(rows, row) /\ state' = Append(state, "pending")
  BY DEF Wrote
<1> HIDE DEF row
<1>4. /\ rows' \in Seq(Row) /\ Len(rows') = Len(rows) + 1
      /\ \A i \in 1..Len(rows) : rows'[i] = rows[i]
      /\ rows'[Len(rows) + 1] = row
  BY <1>1, <1>2, <1>3, AppendProperties
<1>5. /\ state' \in Seq(RowStates) /\ Len(state') = Len(rows) + 1
      /\ \A i \in 1..Len(rows) : state'[i] = state[i]
      /\ state'[Len(rows) + 1] = "pending"
  BY <1>1, <1>2, <1>3, AppendProperties
<1>6. Ids' = 1..(Len(rows) + 1)
  BY <1>1, <1>4, LenProperties DEF Ids
<1>7. 1..(Len(rows) + 1) = (1..Len(rows)) \cup {Len(rows) + 1} /\ Len(rows) + 1 \notin 1..Len(rows)
  BY <1>1
<1>8. state' \in [Ids' -> RowStates]
  BY <1>1, <1>5, <1>6, LenProperties
<1> QED
  BY <1>1, <1>4, <1>5, <1>6, <1>7, <1>8 DEF row
-----------------------------------------------------------------------------
(* What applying an event does *)

Becomes(r, q) == requests' = [requests EXCEPT ![r] = q]

\* A leftover, or an event that restates what is already true.
MovesNothing(m) == UNCHANGED <<requests, rows, state>>

Accepts(m) ==
    /\ m.kind = "VideoAccepted"
    /\ requests[m.request].status = "RECEIVED"
    /\ \E a \in FreshAttempts :
         LET q == [requests[m.request] EXCEPT !.status = "QUEUED", !.attemptId = a]
         IN  Becomes(m.request, q) /\ Wrote(m.request, QueuedRow(q))

Starts(m) ==
    /\ m.kind = "ProcessingStarted"
    /\ requests[m.request].status = "QUEUED"
    /\ Becomes(m.request, [requests[m.request] EXCEPT !.status = "PROCESSING"])
    /\ UNCHANGED <<rows, state>>

Completes(m) ==
    /\ m.kind = "ProcessingCompleted"
    /\ requests[m.request].status \in {"QUEUED", "PROCESSING"}
    /\ \E zip \in Zips :
         LET q == [requests[m.request] EXCEPT !.status = "COMPLETED", !.zipStorageKey = zip]
         IN  Becomes(m.request, q) /\ Wrote(m.request, TerminalRow(q))

Fails(m) ==
    /\ \/ m.kind = "VideoRejected" /\ requests[m.request].status = "RECEIVED"
       \/ m.kind = "ProcessingFailed" /\ requests[m.request].status \in {"QUEUED", "PROCESSING"}
    /\ \E code \in FailureCodes :
         LET q == [requests[m.request] EXCEPT !.status = "FAILED", !.failureCode = code]
         IN  Becomes(m.request, q) /\ Wrote(m.request, TerminalRow(q))

LEMMA AppendToNone == ASSUME NEW x PROVE Append(<<>>, x) = <<x>>
<1>1. <<>> \in Seq({x}) /\ x \in {x} /\ <<x>> \in Seq({x})
  OBVIOUS
<1>2. /\ Append(<<>>, x) \in Seq({x}) /\ Len(Append(<<>>, x)) = 1
      /\ Append(<<>>, x)[1] = x
  BY <1>1
<1> QED
  BY <1>1, <1>2, SeqEqual

LEMMA ApplyMoves ==
    ASSUME TypeOK, NEW m \in Messages, m.request \in created, Apply(m)
    PROVE  /\ m.eventId \in EventIds /\ m.eventId \notin processed
           /\ processed' = processed \cup {m.eventId}
           /\ MovesNothing(m) \/ Accepts(m) \/ Starts(m) \/ Completes(m) \/ Fails(m)
<1> DEFINE r == m.request
           q == requests[r]
<1>1. r \in Requests /\ q \in Request /\ requests \in [Requests -> Request]
  BY DEF TypeOK
<1>2. PICK a \in (IF m.kind = "VideoAccepted" THEN FreshAttempts ELSE {None}) :
        /\ Becomes(r, Result(m, q, a))
        /\ Write(r, Recorded(m, q, Result(m, q, a), <<>>))
  BY DEF Apply, Becomes
<1> DEFINE q1 == Result(m, q, a)
<1>3. Stale(m, q) \/ Permitted(m, q)
  BY DEF Apply
<1>4. /\ m.eventId \in EventIds /\ m.eventId \notin processed
      /\ processed' = processed \cup {m.eventId}
  BY DEF Apply, Record, EventIds
<1> SUFFICES MovesNothing(m) \/ Accepts(m) \/ Starts(m) \/ Completes(m) \/ Fails(m)
  BY <1>4
<1>5. CASE q1 = q
  <2>1. Recorded(m, q, q1, <<>>) = <<>>
    BY <1>5 DEF Recorded
  <2>2. UNCHANGED requests
    BY <1>1, <1>2, <1>5 DEF Becomes
  <2> HIDE DEF q1
  <2>3. MovesNothing(m)
    BY <1>1, <1>2, <2>1, <2>2, WriteNothing DEF MovesNothing, q1
  <2> QED
    BY <2>3
<1>6. CASE q1 # q /\ m.kind = "VideoAccepted"
  <2>1. /\ ~ Stale(m, q) /\ a \in FreshAttempts /\ a \in Attempts
        /\ q1 = [q EXCEPT !.status = "QUEUED", !.attemptId = a]
    BY <1>2, <1>6 DEF Stale, AttemptEvents, Result, Transition, Accepted, FreshAttempts
  <2>2. q.status = "RECEIVED"
    BY <1>3, <1>6, <2>1 DEF Permitted, CanAccept
  <2>3. q1 \in Request
    BY <1>1, <2>1 DEF Request, Statuses
  <2>4. QueuedRow(q1) \in OutboxRow
    BY <2>3 DEF QueuedRow, OutboxRow, OutboxPatterns
  <2>5. Recorded(m, q, q1, <<>>) = <<QueuedRow(q1)>>
    BY <1>6, AppendToNone DEF Recorded
  <2>6. Becomes(r, q1) /\ Wrote(r, QueuedRow(q1))
    <3> HIDE DEF q1
    <3> QED
      BY <1>1, <1>2, <2>4, <2>5, WriteOne DEF q1
  <2>7. Accepts(m)
    <3> HIDE DEF q1
    <3> QED
      BY <1>6, <2>1, <2>2, <2>6 DEF Accepts
  <2> QED
    BY <2>7
<1>7. CASE q1 # q /\ m.kind = "ProcessingStarted"
  <2>1. ~ Stale(m, q)
    BY <1>7 DEF Result
  <2>2. q.status = "QUEUED" /\ q1 = [q EXCEPT !.status = "PROCESSING"]
    BY <1>7, <2>1 DEF Result, Transition, Started
  <2>3. Recorded(m, q, q1, <<>>) = <<>>
    BY <1>7 DEF Recorded
  <2> HIDE DEF q1
  <2>4. Starts(m)
    BY <1>1, <1>2, <1>7, <2>2, <2>3, WriteNothing DEF Starts, q1
  <2> QED
    BY <2>4
<1>8. CASE q1 # q /\ m.kind = "ProcessingCompleted"
  <2>1. ~ Stale(m, q)
    BY <1>8 DEF Result
  <2>2. q1 = Completed(q, m.zipStorageKey) /\ CanComplete(q, m.zipStorageKey)
    BY <1>3, <1>8, <2>1 DEF Result, Transition, Permitted
  <2>3. /\ q.status \in {"QUEUED", "PROCESSING"} /\ m.zipStorageKey \in Zips
        /\ q1 = [q EXCEPT !.status = "COMPLETED", !.zipStorageKey = m.zipStorageKey]
    BY <1>8, <2>2 DEF Completed, CanComplete, CompletableStatuses
  <2>4. q1 \in Request
    BY <1>1, <2>3 DEF Request, Statuses
  <2>5. TerminalRow(q1) \in OutboxRow
    BY <2>4 DEF TerminalRow, OutboxRow, OutboxPatterns
  <2>6. Recorded(m, q, q1, <<>>) = <<TerminalRow(q1)>>
    BY <1>8, AppendToNone DEF Recorded
  <2> HIDE DEF q1
  <2>7. Becomes(r, q1) /\ Wrote(r, TerminalRow(q1))
    BY <1>1, <1>2, <2>5, <2>6, WriteOne DEF q1
  <2>8. Completes(m)
    BY <1>8, <2>3, <2>7 DEF Completes
  <2> QED
    BY <2>8
<1>9. CASE q1 # q /\ m.kind \in {"VideoRejected", "ProcessingFailed"}
  <2>1. ~ Stale(m, q)
    BY <1>9 DEF Result
  <2>2. /\ \/ m.kind = "VideoRejected" /\ q.status = "RECEIVED"
           \/ m.kind = "ProcessingFailed" /\ q.status \in {"QUEUED", "PROCESSING"}
        /\ m.failureCode \in FailureCodes
    BY <1>3, <1>9, <2>1
       DEF Permitted, CanReject, CanFail, IsFailureCode, FailableStatuses
  <2>3. q1 = [q EXCEPT !.status = "FAILED", !.failureCode = m.failureCode]
    BY <1>9, <2>1 DEF Result, Transition, Failed
  <2>4. q1 \in Request
    BY <1>1, <2>2, <2>3 DEF Request, Statuses
  <2>5. TerminalRow(q1) \in OutboxRow
    BY <2>4 DEF TerminalRow, OutboxRow, OutboxPatterns
  <2>6. Recorded(m, q, q1, <<>>) = <<TerminalRow(q1)>>
    BY <1>9, AppendToNone DEF Recorded
  <2> HIDE DEF q1
  <2>7. Becomes(r, q1) /\ Wrote(r, TerminalRow(q1))
    BY <1>1, <1>2, <2>5, <2>6, WriteOne DEF q1
  <2>8. Fails(m)
    BY <2>2, <2>3, <2>7 DEF Fails
  <2> QED
    BY <2>8
<1> QED
  BY <1>5, <1>6, <1>7, <1>8, <1>9 DEF EventKinds
\* Whatever an event does, it does it to its own request.
LEMMA ApplyIsLocal ==
    ASSUME TypeOK, NEW m \in Messages, m.request \in created, Apply(m)
    PROVE  /\ requests' \in [Requests -> Request]
           /\ \A o \in Requests \ {m.request} : requests'[o] = requests[o]
           /\ UNCHANGED <<rows, state>> \/ \E w \in OutboxRow : Wrote(m.request, w)
<1> DEFINE r == m.request
           q == requests[r]
<1>1. r \in Requests /\ q \in Request /\ requests \in [Requests -> Request]
  BY DEF TypeOK
<1>2. ASSUME NEW q1 \in Request, Becomes(r, q1)
      PROVE  /\ requests' \in [Requests -> Request]
             /\ \A o \in Requests \ {m.request} : requests'[o] = requests[o]
  BY <1>1, <1>2 DEF Becomes
<1>3. CASE MovesNothing(m)
  BY <1>1, <1>3 DEF MovesNothing
<1>4. CASE Accepts(m)
  <2>1. PICK a \in FreshAttempts :
          LET q1 == [q EXCEPT !.status = "QUEUED", !.attemptId = a]
          IN  Becomes(r, q1) /\ Wrote(r, QueuedRow(q1))
    BY <1>4 DEF Accepts
  <2> DEFINE q1 == [q EXCEPT !.status = "QUEUED", !.attemptId = a]
  <2>2. q1 \in Request
    BY <1>1 DEF Request, Statuses, FreshAttempts
  <2>3. QueuedRow(q1) \in OutboxRow
    BY <2>2 DEF QueuedRow, OutboxRow, OutboxPatterns
  <2>4. Becomes(r, q1) /\ Wrote(r, QueuedRow(q1))
    BY <2>1
  <2> HIDE DEF q1
  <2> QED
    BY <1>2, <2>2, <2>3, <2>4
<1>5. CASE Starts(m)
  <2> DEFINE q1 == [q EXCEPT !.status = "PROCESSING"]
  <2>1. q1 \in Request /\ Becomes(r, q1) /\ UNCHANGED <<rows, state>>
    BY <1>1, <1>5 DEF Request, Statuses, Starts
  <2> HIDE DEF q1
  <2> QED
    BY <1>2, <2>1
<1>6. CASE Completes(m)
  <2>1. PICK zip \in Zips :
          LET q1 == [q EXCEPT !.status = "COMPLETED", !.zipStorageKey = zip]
          IN  Becomes(r, q1) /\ Wrote(r, TerminalRow(q1))
    BY <1>6 DEF Completes
  <2> DEFINE q1 == [q EXCEPT !.status = "COMPLETED", !.zipStorageKey = zip]
  <2>2. q1 \in Request
    BY <1>1 DEF Request, Statuses
  <2>3. TerminalRow(q1) \in OutboxRow
    BY <2>2 DEF TerminalRow, OutboxRow, OutboxPatterns
  <2>4. Becomes(r, q1) /\ Wrote(r, TerminalRow(q1))
    BY <2>1
  <2> HIDE DEF q1
  <2> QED
    BY <1>2, <2>2, <2>3, <2>4
<1>7. CASE Fails(m)
  <2>1. PICK code \in FailureCodes :
          LET q1 == [q EXCEPT !.status = "FAILED", !.failureCode = code]
          IN  Becomes(r, q1) /\ Wrote(r, TerminalRow(q1))
    BY <1>7 DEF Fails
  <2> DEFINE q1 == [q EXCEPT !.status = "FAILED", !.failureCode = code]
  <2>2. q1 \in Request
    BY <1>1 DEF Request, Statuses
  <2>3. TerminalRow(q1) \in OutboxRow
    BY <2>2 DEF TerminalRow, OutboxRow, OutboxPatterns
  <2>4. Becomes(r, q1) /\ Wrote(r, TerminalRow(q1))
    BY <2>1
  <2> HIDE DEF q1
  <2> QED
    BY <1>2, <2>2, <2>3, <2>4
<1> QED
  BY <1>3, <1>4, <1>5, <1>6, <1>7, ApplyMoves

-----------------------------------------------------------------------------
(* The invariant of the composition *)

\* A new row is pending, and it is about a request that has been created.
LEMMA WroteKeepsInv ==
    ASSUME SystemInv, NEW r \in created', NEW w \in OutboxRow, Wrote(r, w),
           created \subseteq created', created' \subseteq Requests,
           requests' \in [Requests -> Request],
           \A o \in Requests \ created' : requests'[o] = requests[o],
           processed' \subseteq EventIds, UNCHANGED arrived,
           broker' \in [Messages -> {"unsent", "ready", "acked", "dead"}],
           faults' \in 0..MaxFaults
    PROVE  SystemInv'
<1>1. /\ rows' \in Seq(Row) /\ Ids' = Ids \cup {Len(rows) + 1}
      /\ Len(rows) + 1 \notin Ids
      /\ state' \in [Ids' -> RowStates]
      /\ \A i \in Ids : rows'[i] = rows[i] /\ state'[i] = state[i]
      /\ rows'[Len(rows) + 1].request = r
      /\ state'[Len(rows) + 1] = "pending"
  <2>1. TypeOK /\ r \in Requests
    BY DEF SystemInv
  <2>2. rows'[Len(rows) + 1] = [request |-> r, pattern |-> w.pattern, payload |-> w.request]
    BY <2>1, WroteAppends
  <2> QED
    BY <2>1, <2>2, WroteAppends
<1>2. arrived' \in Seq(Ids')
  <2>1. arrived \in Seq(Ids) /\ Ids \subseteq Ids'
    BY <1>1 DEF SystemInv, TypeOK
  <2>2. DOMAIN arrived = 1..Len(arrived) /\ Len(arrived) \in Nat
        /\ arrived \in [1..Len(arrived) -> Ids]
    BY <2>1, LenProperties, ElementOfSeq
  <2>3. arrived \in [1..Len(arrived) -> Ids']
    BY <2>1, <2>2
  <2> QED
    BY <2>2, <2>3, FunctionIsSeq
<1>3. TypeOK'
  BY <1>1, <1>2 DEF TypeOK, Row, RowStates
<1>4. NothingBeforeCreation'
  BY <1>1 DEF SystemInv, NothingBeforeCreation
<1>5. PublishedHasArrived'
  BY <1>1 DEF SystemInv, PublishedHasArrived, HasArrived
<1> QED
  BY <1>3, <1>4, <1>5 DEF SystemInv

\* A step that leaves the tables and the relay alone.
LEMMA SettleKeepsInv ==
    ASSUME SystemInv, UNCHANGED <<created, rows, state, arrived>>,
           requests' \in [Requests -> Request],
           \A o \in Requests \ created : requests'[o] = requests[o],
           processed' \subseteq EventIds,
           broker' \in [Messages -> {"unsent", "ready", "acked", "dead"}],
           faults' \in 0..MaxFaults
    PROVE  SystemInv'
<1>1. Ids' = Ids
  BY DEF Ids
<1>2. TypeOK'
  BY <1>1 DEF SystemInv, TypeOK
<1>3. NothingBeforeCreation' /\ PublishedHasArrived'
  BY <1>1 DEF SystemInv, NothingBeforeCreation, PublishedHasArrived, HasArrived
<1> QED
  BY <1>2, <1>3 DEF SystemInv

LEMMA ApplyKeepsInv ==
    ASSUME SystemInv, NEW m \in Messages, m.request \in created, Apply(m),
           UNCHANGED <<created, arrived>>,
           broker' \in [Messages -> {"unsent", "ready", "acked", "dead"}],
           faults' \in 0..MaxFaults
    PROVE  SystemInv'
<1>1. TypeOK
  BY DEF SystemInv
<1>2. /\ processed' \subseteq EventIds
      /\ created' \subseteq Requests /\ m.request \in created'
  BY <1>1, ApplyMoves DEF TypeOK
<1>3. /\ requests' \in [Requests -> Request]
      /\ \A o \in Requests \ {m.request} : requests'[o] = requests[o]
      /\ UNCHANGED <<rows, state>> \/ \E w \in OutboxRow : Wrote(m.request, w)
  BY <1>1, ApplyIsLocal
<1>4. CASE UNCHANGED <<rows, state>>
  BY <1>2, <1>3, <1>4, SettleKeepsInv
<1>5. CASE \E w \in OutboxRow : Wrote(m.request, w)
  BY <1>2, <1>3, <1>5, WroteKeepsInv
<1> QED
  BY <1>3, <1>4, <1>5
LEMMA CreatedType == CreatedRequest \in Request /\ ValidationRow \in OutboxRow
  BY DEF CreatedRequest, Request, Statuses, ValidationRow, OutboxRow, OutboxPatterns

LEMMA SystemInit == Init => SystemInv
<1> SUFFICES ASSUME Init PROVE SystemInv
  OBVIOUS
<1>1. Ids = {} /\ DOMAIN arrived = {}
  BY DEF Init, Ids
<1>2. TypeOK
  BY <1>1, CreatedType DEF Init, TypeOK
<1>3. NothingBeforeCreation /\ PublishedHasArrived
  BY <1>1 DEF Init, NothingBeforeCreation, PublishedHasArrived
<1> QED
  BY <1>2, <1>3 DEF SystemInv

LEMMA CreateKeepsInv ==
    ASSUME SystemInv, NEW r \in Requests, Create(r) PROVE SystemInv'
<1>1. TypeOK
  BY DEF SystemInv
<1>2. Wrote(r, ValidationRow)
  BY <1>1, CreatedType, WriteOne DEF Create
<1>3. r \in created' /\ created \subseteq created' /\ created' \subseteq Requests
  BY <1>1 DEF Create, TypeOK
<1>4. \A o \in Requests \ created' : requests'[o] = requests[o]
  BY DEF Create
<1> QED
  BY <1>1, <1>2, <1>3, <1>4, CreatedType, WroteKeepsInv DEF Create, TypeOK

LEMMA HandleKeepsInv ==
    ASSUME SystemInv, NEW m \in Messages, Handle(m) PROVE SystemInv'
<1>1. TypeOK /\ m.request \in created /\ UNCHANGED <<created, arrived, faults>>
  BY DEF SystemInv, Handle
<1>2. broker' \in [Messages -> {"unsent", "ready", "acked", "dead"}]
  BY <1>1 DEF Handle, Settled, TypeOK
<1>3. CASE Apply(m)
  BY <1>1, <1>2, <1>3, ApplyKeepsInv DEF TypeOK
<1>4. CASE UNCHANGED <<requests, processed, rows, state>>
  BY <1>1, <1>2, <1>4, SettleKeepsInv DEF TypeOK
<1> QED
  BY <1>3, <1>4 DEF Handle

\* Only the state of the rows and what arrived changes in the relay.
LEMMA RelayKeepsInv ==
    ASSUME SystemInv, UNCHANGED <<tables, rows, broker>>, faults' \in 0..MaxFaults,
           state' \in [Ids -> RowStates], arrived' \in Seq(Ids),
           \A i \in Ids : state'[i] # "pending" => HasArrived(i)'
    PROVE  SystemInv'
<1>1. Ids' = Ids
  BY DEF Ids
<1>2. TypeOK'
  BY <1>1 DEF SystemInv, TypeOK, tables, RowStates
<1>3. NothingBeforeCreation'
  BY <1>1 DEF SystemInv, NothingBeforeCreation, tables
<1>4. PublishedHasArrived'
  BY <1>1 DEF PublishedHasArrived
<1> QED
  BY <1>2, <1>3, <1>4 DEF SystemInv

\* Something that arrives joins what has arrived.
LEMMA ArrivalJoins ==
    ASSUME TypeOK, NEW i \in Ids, arrived' = Append(arrived, i)
    PROVE  /\ arrived' \in Seq(Ids)
           /\ DOMAIN arrived' = DOMAIN arrived \cup {Len(arrived) + 1}
           /\ \A n \in DOMAIN arrived : arrived'[n] = arrived[n]
           /\ arrived'[Len(arrived) + 1] = i
           /\ \A j : HasArrived(j)' <=> HasArrived(j) \/ j = i
<1>1. arrived \in Seq(Ids) /\ Len(arrived) \in Nat /\ DOMAIN arrived = 1..Len(arrived)
  BY LenProperties DEF TypeOK
<1>2. /\ arrived' \in Seq(Ids) /\ Len(arrived') = Len(arrived) + 1
      /\ \A n \in 1..Len(arrived) : arrived'[n] = arrived[n]
      /\ arrived'[Len(arrived) + 1] = i
  BY <1>1, AppendProperties
<1>3. DOMAIN arrived' = DOMAIN arrived \cup {Len(arrived) + 1}
  BY <1>1, <1>2, LenProperties
<1>4. \A j : HasArrived(j)' <=> HasArrived(j) \/ j = i
  BY <1>1, <1>2, <1>3 DEF HasArrived
<1> QED
  BY <1>1, <1>2, <1>3, <1>4

LEMMA SendKeepsInv ==
    ASSUME SystemInv, NEW i \in Ids, Send(i) PROVE SystemInv'
<1>1. TypeOK /\ state \in [Ids -> RowStates]
  BY DEF SystemInv, TypeOK, RowStates
<1>2. arrived' \in Seq(Ids) /\ \A j : HasArrived(j)' <=> HasArrived(j) \/ j = i
  BY <1>1, ArrivalJoins DEF Send
<1>3. state' \in [Ids -> RowStates] /\ \A j \in Ids : j # i => state'[j] = state[j]
  BY <1>1 DEF Send, RowStates
<1>4. \A j \in Ids : state'[j] # "pending" => HasArrived(j)'
  BY <1>2, <1>3 DEF SystemInv, PublishedHasArrived
<1>5. faults' \in 0..MaxFaults /\ UNCHANGED <<tables, rows, broker>>
  BY <1>1 DEF Send, TypeOK
<1> QED
  BY <1>2, <1>3, <1>4, <1>5, RelayKeepsInv

LEMMA MarkKeepsInv ==
    ASSUME SystemInv, NEW mark \in {"published", "pending"}, MarkSent(mark),
           UNCHANGED <<tables, rows, arrived, broker>>, faults' \in 0..MaxFaults
    PROVE  SystemInv'
<1>1. state \in [Ids -> RowStates] /\ arrived' \in Seq(Ids)
  BY DEF SystemInv, TypeOK, RowStates
<1>2. state' \in [Ids -> RowStates]
  BY <1>1 DEF MarkSent, RowStates
<1>3. \A j \in Ids : state'[j] # "pending" => HasArrived(j)'
  BY <1>1 DEF MarkSent, Sent, SystemInv, PublishedHasArrived, HasArrived
<1> QED
  BY <1>1, <1>2, <1>3, RelayKeepsInv

LEMMA SystemNext == SystemInv /\ [Next]_vars => SystemInv'
<1> SUFFICES ASSUME SystemInv, [Next]_vars PROVE SystemInv'
  OBVIOUS
<1>1. TypeOK /\ MaxFaults \in Nat
  BY DEF SystemInv
<1>2. CASE UNCHANGED vars
  BY <1>1, <1>2, SettleKeepsInv DEF vars, TypeOK
<1>3. ASSUME NEW r \in Requests, Create(r) PROVE SystemInv'
  BY <1>3, CreateKeepsInv
<1>4. ASSUME NEW m \in Messages, Publish(m) PROVE SystemInv'
  <2>1. UNCHANGED <<tables, relay, faults>>
        /\ broker' \in [Messages -> {"unsent", "ready", "acked", "dead"}]
    BY <1>1, <1>4 DEF Publish, TypeOK
  <2> QED
    BY <1>1, <2>1, SettleKeepsInv DEF tables, relay, TypeOK
<1>5. ASSUME NEW m \in Messages, Handle(m) PROVE SystemInv'
  BY <1>5, HandleKeepsInv
<1>6. Fault => faults' \in 0..MaxFaults
  BY <1>1 DEF Fault, TypeOK
<1>7. ASSUME NEW m \in Messages, HandledUnsettled(m) PROVE SystemInv'
  BY <1>1, <1>6, <1>7, ApplyKeepsInv DEF HandledUnsettled, TypeOK
<1>8. ASSUME NEW i \in Ids, Send(i) PROVE SystemInv'
  BY <1>8, SendKeepsInv
<1>9. CASE CommitMarks
  BY <1>1, <1>9, MarkKeepsInv DEF CommitMarks, TypeOK
<1>10. CASE DrainFails
  BY <1>6, <1>10, MarkKeepsInv DEF DrainFails
<1> QED
  BY <1>2, <1>3, <1>4, <1>5, <1>7, <1>8, <1>9, <1>10 DEF Next, Drain, Quiet

THEOREM SystemInvariant == Spec => []SystemInv
<1> QED
  BY SystemInit, SystemNext, PTL DEF Spec

\* Every variable keeps its type: requests, rows and messages of the loop are
\* never in a state the code has no name for.
THEOREM SystemTypeCorrect == Spec => []TypeOK
<1>1. SystemInv => TypeOK
  BY DEF SystemInv
<1> QED
  BY <1>1, SystemInvariant, PTL
-----------------------------------------------------------------------------
(* The composition implements OutboxDelivery *)

LEMMA DeliverySequences ==
    ASSUME TypeOK
    PROVE  /\ announced \in Seq([request : Requests, pattern : OutboxPatterns])
           /\ committed \in Seq({"pending", "published"})
           /\ Len(announced) = Len(rows) /\ Len(committed) = Len(rows)
           /\ DOMAIN announced = Ids /\ DOMAIN committed = Ids
<1>1. /\ Ids = 1..Len(rows) /\ Len(rows) \in Nat
      /\ \A i \in Ids : rows[i] \in Row /\ state[i] \in RowStates
  BY TablesAreSequences, ElementOfSeq DEF TypeOK, RowStates
<1>2. /\ announced \in [1..Len(rows) -> [request : Requests, pattern : OutboxPatterns]]
      /\ committed \in [1..Len(rows) -> {"pending", "published"}]
  BY <1>1 DEF announced, committed, Row, RowStates
<1> QED
  BY <1>1, <1>2, FunctionIsSeq DEF announced, committed

LEMMA WroteInserts ==
    ASSUME SystemInv, NEW r \in Requests, NEW w \in OutboxRow, Wrote(r, w),
           UNCHANGED arrived, TypeOK'
    PROVE  Delivery!Insert
<1> DEFINE row == [request |-> r, pattern |-> w.pattern]
<1>1. TypeOK
  BY DEF SystemInv
<1>2. /\ Ids = 1..Len(rows) /\ Len(rows) \in Nat /\ Ids' = 1..(Len(rows) + 1)
      /\ \A i \in Ids : rows'[i] = rows[i] /\ state'[i] = state[i]
      /\ rows'[Len(rows) + 1] =
           [request |-> r, pattern |-> w.pattern, payload |-> w.request]
      /\ state'[Len(rows) + 1] = "pending"
  <2>1. 1..(Len(rows) + 1) = (1..Len(rows)) \cup {Len(rows) + 1}
    BY <1>1, TablesAreSequences
  <2> QED
    BY <1>1, <2>1, TablesAreSequences, WroteAppends
<1>3. row \in [request : Requests, pattern : OutboxPatterns]
  BY DEF OutboxRow
<1>4. announced' = Append(announced, row)
  <2>1. announced' = [i \in 1..(Len(rows) + 1) |-> IF i = Len(rows) + 1 THEN row ELSE announced[i]]
    BY <1>2 DEF announced
  <2>2. announced \in Seq([request : Requests, pattern : OutboxPatterns])
        /\ Len(announced) = Len(rows)
    BY <1>1, DeliverySequences
  <2> DEFINE S == [request : Requests, pattern : OutboxPatterns]
  <2>3. Append(announced, row) =
          [i \in 1..(Len(announced) + 1) |-> IF i = Len(announced) + 1 THEN row ELSE announced[i]]
    <3>1. announced \in Seq(S) /\ row \in S
      BY <1>3, <2>2
    <3> HIDE DEF row, S
    <3> QED
      BY <3>1, AppendIsFunction
  <2> HIDE DEF row
  <2> QED
    BY <2>1, <2>2, <2>3
<1>5. committed' = Append(committed, "pending")
  <2>1. committed' = [i \in 1..(Len(rows) + 1) |->
                        IF i = Len(rows) + 1 THEN "pending" ELSE committed[i]]
    BY <1>2 DEF committed
  <2>2. committed \in Seq({"pending", "published"}) /\ Len(committed) = Len(rows)
    BY <1>1, DeliverySequences
  <2> QED
    BY <1>2, <2>1, <2>2, AppendIsFunction
<1>6. w.pattern \in OutboxPatterns
  BY DEF OutboxRow
<1>7. \A i \in Ids : committed[i] # "open"
  BY <1>1 DEF committed, TypeOK
<1> QED
  BY <1>1, <1>4, <1>5, <1>6, <1>7, DeliverySequences DEF Delivery!Insert, Delivery!Ids

LEMMA SendDelivers ==
    ASSUME SystemInv, NEW i \in Ids, Send(i) PROVE Delivery!Deliver
<1>1. TypeOK /\ Ids = 1..Len(rows) /\ Len(rows) \in Nat
  BY TablesAreSequences DEF SystemInv
<1>2. UNCHANGED <<announced, committed>>
  BY <1>1 DEF Send, IsNext, announced, committed, TypeOK, Ids
<1>3. \A j \in 1..(i - 1) : HasArrived(j)
  BY <1>1 DEF Send, IsNext, SystemInv, PublishedHasArrived
<1>4. committed[i] = "pending"
  BY DEF Send, IsNext, committed
<1> QED
  BY <1>1, <1>2, <1>3, <1>4, DeliverySequences
  DEF Delivery!Deliver, Delivery!Ids, Delivery!HasArrived, HasArrived, Send

LEMMA MarksPublish ==
    ASSUME SystemInv, CommitMarks PROVE Delivery!Publish
<1>1. TypeOK
  BY DEF SystemInv
<1>2. /\ UNCHANGED <<rows, arrived>>
      /\ state' = [i \in Ids |-> IF i \in Sent THEN "published" ELSE state[i]]
  BY DEF CommitMarks, MarkSent
<1>3. announced' = announced
  BY <1>2 DEF announced, Ids
<1>4. committed' = [i \in Ids |-> IF i \in Sent THEN "published" ELSE committed[i]]
  BY <1>2 DEF committed, Sent, Ids
<1>5. \A i \in Sent : committed[i] = "pending" /\ HasArrived(i)
  BY DEF Sent, committed, SystemInv, PublishedHasArrived
<1>6. Sent \in SUBSET Ids
  BY DEF Sent
<1> QED
  BY <1>1, <1>2, <1>3, <1>4, <1>5, <1>6, DeliverySequences
  DEF Delivery!Publish, Delivery!Ids, Delivery!HasArrived, HasArrived

LEMMA DeliveryStep == SystemInv /\ SystemInv' /\ [Next]_vars => [Delivery!Next]_(Delivery!vars)
<1> SUFFICES ASSUME SystemInv, SystemInv', [Next]_vars
             PROVE  Delivery!Next \/ UNCHANGED <<announced, committed, arrived>>
  BY DEF Delivery!vars
<1>1. TypeOK /\ TypeOK'
  BY DEF SystemInv
<1>2. ASSUME UNCHANGED <<rows, state, arrived>> PROVE UNCHANGED <<announced, committed, arrived>>
  BY <1>2 DEF announced, committed, Ids
<1>3. CASE UNCHANGED vars
  BY <1>2, <1>3 DEF vars
<1>4. ASSUME NEW r \in Requests, Create(r) PROVE Delivery!Next
  <2>1. Wrote(r, ValidationRow) /\ UNCHANGED arrived
    BY <1>1, <1>4, CreatedType, WriteOne DEF Create
  <2> QED
    BY <1>1, <2>1, CreatedType, WroteInserts DEF Delivery!Next
<1>5. ASSUME NEW m \in Messages, m.request \in created, Apply(m), UNCHANGED arrived
      PROVE  Delivery!Next \/ UNCHANGED <<announced, committed, arrived>>
  <2>1. UNCHANGED <<rows, state>> \/ \E w \in OutboxRow : Wrote(m.request, w)
    BY <1>1, <1>5, ApplyIsLocal
  <2>2. m.request \in Requests
    BY <1>1, <1>5 DEF TypeOK
  <2> QED
    BY <1>1, <1>2, <1>5, <2>1, <2>2, WroteInserts DEF Delivery!Next
<1>6. ASSUME NEW m \in Messages, Publish(m)
      PROVE  UNCHANGED <<announced, committed, arrived>>
  BY <1>2, <1>6 DEF Publish, relay
<1>7. ASSUME NEW m \in Messages, Handle(m) \/ HandledUnsettled(m)
      PROVE  Delivery!Next \/ UNCHANGED <<announced, committed, arrived>>
  BY <1>2, <1>5, <1>7 DEF Handle, HandledUnsettled
<1>8. ASSUME NEW i \in Ids, Send(i) PROVE Delivery!Next
  BY <1>8, SendDelivers DEF Delivery!Next
<1>9. CASE CommitMarks
  BY <1>9, MarksPublish DEF Delivery!Next
<1>10. CASE DrainFails
  BY <1>1, <1>10 DEF DrainFails, MarkSent, Sent, announced, committed, Ids, TypeOK
<1> QED
  BY <1>3, <1>4, <1>6, <1>7, <1>8, <1>9, <1>10 DEF Next, Drain, Quiet

\* In the loop a row reaches the other services only after the earlier rows of
\* its request have, and is marked only after it did, whatever fails.
THEOREM LoopImplementsDelivery == Spec => ImplementsDelivery
<1>1. Init => Delivery!Init
  BY DEF Init, Delivery!Init, announced, committed, Ids
<1> QED
  BY <1>1, DeliveryStep, SystemInvariant, PTL DEF Spec, ImplementsDelivery, Delivery!Spec
-----------------------------------------------------------------------------
(* The log of a request: its rows are numbered without gaps *)

Entry(i) == [pattern |-> rows[i].pattern, request |-> rows[i].payload]

LEMMA OwnIsFinite ==
    ASSUME TypeOK, NEW r \in Requests
    PROVE  /\ IsFiniteSet(Own(r)) /\ Cardinality(Own(r)) \in Nat
           /\ Own(r) \subseteq Ids /\ Own(r) \in SUBSET Nat
<1>1. Ids = 1..Len(rows) /\ Len(rows) \in Nat
  BY TablesAreSequences
<1>2. IsFiniteSet(Ids) /\ Own(r) \subseteq Ids
  BY <1>1, FS_Interval DEF Own
<1>3. IsFiniteSet(Own(r))
  BY <1>2, FS_Subset
<1> QED
  BY <1>1, <1>2, <1>3, FS_CardinalityType

Earlier(r, i) == {j \in Own(r) : j <= i}

LEMMA PlaceType ==
    ASSUME TypeOK, NEW r \in Requests, NEW i \in Own(r)
    PROVE  Place(r, i) \in 1..Cardinality(Own(r)) /\ IsFiniteSet(Earlier(r, i))
<1>1. /\ IsFiniteSet(Own(r)) /\ Cardinality(Own(r)) \in Nat /\ i \in Nat
      /\ Earlier(r, i) \in SUBSET Own(r) /\ i \in Earlier(r, i)
  BY OwnIsFinite DEF Earlier
<1>2. /\ IsFiniteSet(Earlier(r, i)) /\ Cardinality(Earlier(r, i)) \in Nat
      /\ Cardinality(Earlier(r, i)) <= Cardinality(Own(r))
      /\ Cardinality(Earlier(r, i)) # 0
  BY <1>1, FS_Subset, FS_CardinalityType, FS_EmptySet
<1>3. Place(r, i) = Cardinality(Earlier(r, i))
  BY DEF Place, Earlier
<1> QED
  BY <1>1, <1>2, <1>3

LEMMA PlacesGrow ==
    ASSUME TypeOK, NEW r \in Requests, NEW i \in Own(r), NEW j \in Own(r), i < j
    PROVE  Place(r, i) # Place(r, j)
<1>1. i \in Nat /\ j \in Nat
  BY OwnIsFinite
<1>2. /\ Earlier(r, i) \in SUBSET Earlier(r, j)
      /\ j \in Earlier(r, j) /\ j \notin Earlier(r, i)
  BY <1>1, OwnIsFinite DEF Earlier
<1>3. Cardinality(Earlier(r, j)) # Cardinality(Earlier(r, i))
  BY <1>2, PlaceType, FS_Subset
<1> QED
  BY <1>3 DEF Place, Earlier

LEMMA PlacesDiffer ==
    ASSUME TypeOK, NEW r \in Requests, NEW i \in Own(r), NEW j \in Own(r),
           Place(r, i) = Place(r, j)
    PROVE  i = j
<1>1. i \in Nat /\ j \in Nat
  BY OwnIsFinite
<1> QED
  BY <1>1, PlacesGrow

LEMMA PlacesAreTaken ==
    ASSUME TypeOK, NEW r \in Requests, NEW n \in 1..Cardinality(Own(r))
    PROVE  \E i \in Own(r) : Place(r, i) = n
<1> DEFINE S == Own(r)
           T == 1..Cardinality(Own(r))
           f == [i \in S |-> Place(r, i)]
<1>1. IsFiniteSet(S) /\ Cardinality(S) \in Nat
  BY OwnIsFinite
<1>2. f \in [S -> T] /\ \A i, j \in S : f[i] = f[j] => i = j
  BY PlaceType, PlacesDiffer
<1>3. f \in Injection(S, T)
  BY <1>2 DEF Injection, IsInjective
<1>4. IsFiniteSet(T) /\ Cardinality(T) = Cardinality(S)
  BY <1>1, FS_Interval
<1>5. f \in Surjection(S, T)
  <2> HIDE DEF f, S, T
  <2> QED
    BY <1>3, <1>4, FS_Injection
<1>6. \E i \in S : f[i] = n
  <2> HIDE DEF f
  <2> QED
    BY <1>5 DEF Surjection
<1> QED
  BY <1>6

\* The n-th entry of the log is the request's row whose place is n.
LEMMA LogHas ==
    ASSUME TypeOK, NEW r \in Requests, NEW i \in Own(r)
    PROVE  Log(r)[Place(r, i)] = Entry(i)
<1>1. {j \in Own(r) : Place(r, j) = Place(r, i)} = {i}
  BY PlacesDiffer
<1>2. (CHOOSE k \in {j \in Own(r) : Place(r, j) = Place(r, i)} : TRUE) = i
  BY <1>1
<1> QED
  BY <1>2, PlaceType DEF Log, Entry

LEMMA LogType ==
    ASSUME TypeOK, NEW r \in Requests
    PROVE  /\ Log(r) \in Seq(OutboxRow) /\ Len(Log(r)) = Cardinality(Own(r))
           /\ DOMAIN Log(r) = 1..Cardinality(Own(r))
<1>1. \A n \in 1..Cardinality(Own(r)) : Log(r)[n] \in OutboxRow
  <2>1. SUFFICES ASSUME NEW n \in 1..Cardinality(Own(r)) PROVE Log(r)[n] \in OutboxRow
    OBVIOUS
  <2>2. PICK i \in Own(r) : Place(r, i) = n
    BY PlacesAreTaken
  <2>3. rows[i] \in Row
    BY OwnIsFinite, TablesAreSequences, ElementOfSeq
  <2>4. Entry(i) \in OutboxRow
    BY <2>3 DEF Entry, Row, OutboxRow
  <2> QED
    BY <2>2, <2>4, LogHas
<1>2. Log(r) \in [1..Cardinality(Own(r)) -> OutboxRow]
  BY <1>1 DEF Log
<1> QED
  BY <1>2, OwnIsFinite, FunctionIsSeq

\* All of it, for the state after a step.
Numbered(r) ==
    /\ \A i \in Own(r) : Log(r)[Place(r, i)] = Entry(i)
    /\ \A n \in 1..Cardinality(Own(r)) : \E i \in Own(r) : Place(r, i) = n
    /\ Log(r) \in Seq(OutboxRow) /\ Len(Log(r)) = Cardinality(Own(r))
    /\ DOMAIN Log(r) = 1..Cardinality(Own(r))

LEMMA LogIsNumbered == TypeOK => \A r \in Requests : Numbered(r)
BY LogHas, LogType, PlacesAreTaken DEF Numbered

LEMMA LogIsNumberedNext == (TypeOK => \A r \in Requests : Numbered(r))'
BY LogIsNumbered, PTL

\* Rows of other requests do not show in the log.
LEMMA LogStays ==
    ASSUME TypeOK, TypeOK', NEW r \in Requests, Own(r)' = Own(r),
           \A i \in Own(r) : rows'[i] = rows[i]
    PROVE  Log(r)' = Log(r)
<1>1. Numbered(r) /\ Numbered(r)'
  BY LogIsNumbered, LogIsNumberedNext
<1>2. \A i \in Own(r) : Place(r, i)' = Place(r, i)
  BY DEF Place
<1>3. \A n \in 1..Cardinality(Own(r)) : Log(r)'[n] = Log(r)[n]
  <2>1. SUFFICES ASSUME NEW n \in 1..Cardinality(Own(r)) PROVE Log(r)'[n] = Log(r)[n]
    OBVIOUS
  <2>2. PICK i \in Own(r) : Place(r, i) = n
    BY <1>1 DEF Numbered
  <2>3. Log(r)[n] = Entry(i) /\ Log(r)'[n] = Entry(i)'
    BY <1>1, <1>2, <2>2 DEF Numbered
  <2> QED
    BY <2>3 DEF Entry
<1>4. /\ Log(r) \in Seq(OutboxRow) /\ Log(r)' \in Seq(OutboxRow)
      /\ Len(Log(r)') = Len(Log(r)) /\ Len(Log(r)) = Cardinality(Own(r))
  BY <1>1 DEF Numbered
<1> QED
  BY <1>3, <1>4, SeqEqual

\* The row a request writes is the last entry of its log.
LEMMA LogAppends ==
    ASSUME TypeOK, TypeOK', NEW r \in Requests, NEW w \in OutboxRow, Wrote(r, w)
    PROVE  /\ Log(r)' = Append(Log(r), w)
           /\ \A o \in Requests \ {r} : Log(o)' = Log(o)
<1> DEFINE size == Cardinality(Own(r))
<1>0. PICK new : new = Len(rows) + 1
  OBVIOUS
<1>1. /\ Ids = 1..Len(rows) /\ Len(rows) \in Nat /\ Ids' = Ids \cup {new} /\ new \notin Ids
      /\ \A i \in Ids : rows'[i] = rows[i]
      /\ rows'[new] = [request |-> r, pattern |-> w.pattern, payload |-> w.request]
  BY <1>0, TablesAreSequences, WroteAppends
<1>2. Own(r)' = Own(r) \cup {new} /\ new \notin Own(r) /\ \A i \in Own(r) : i < new
  BY <1>0, <1>1 DEF Own
<1>3. \A o \in Requests \ {r} : Own(o)' = Own(o) /\ \A i \in Own(o) : rows'[i] = rows[i]
  BY <1>1 DEF Own
<1>4. \A o \in Requests \ {r} : Log(o)' = Log(o)
  BY <1>3, LogStays
<1>5. IsFiniteSet(Own(r)) /\ size \in Nat /\ Own(r) \in SUBSET Nat /\ new \in Nat
  BY <1>0, <1>1, OwnIsFinite
<1>6. Cardinality(Own(r))' = size + 1
  BY <1>2, <1>5, FS_AddElement
<1>7. \A i \in Own(r) : Place(r, i)' = Place(r, i)
  <2>1. \A i \in Own(r) : {j \in Own(r)' : j <= i} = {j \in Own(r) : j <= i}
    BY <1>2, <1>5
  <2> QED
    BY <2>1 DEF Place
<1>8. Place(r, new)' = size + 1
  <2>1. {j \in Own(r)' : j <= new} = Own(r)'
    BY <1>2, <1>5
  <2> QED
    BY <1>6, <2>1 DEF Place
<1>9. Numbered(r) /\ Numbered(r)'
  BY LogIsNumbered, LogIsNumberedNext
<1>10. \A n \in 1..size : Log(r)'[n] = Log(r)[n]
  <2>1. SUFFICES ASSUME NEW n \in 1..size PROVE Log(r)'[n] = Log(r)[n]
    OBVIOUS
  <2>2. PICK i \in Own(r) : Place(r, i) = n
    BY <1>9 DEF Numbered
  <2>3. Log(r)[n] = Entry(i) /\ Log(r)'[n] = Entry(i)'
    BY <1>2, <1>7, <1>9, <2>2 DEF Numbered
  <2>4. rows'[i] = rows[i]
    BY <1>1, OwnIsFinite
  <2> QED
    BY <2>3, <2>4 DEF Entry
<1>11. Log(r)'[size + 1] = w
  <2>1. Log(r)'[size + 1] = [pattern |-> rows'[new].pattern, request |-> rows'[new].payload]
    BY <1>2, <1>8, <1>9 DEF Numbered, Entry
  <2> QED
    BY <1>1, <2>1 DEF OutboxRow
<1>12. /\ Log(r) \in Seq(OutboxRow) /\ Len(Log(r)) = size
       /\ Log(r)' \in Seq(OutboxRow) /\ Len(Log(r)') = size + 1
  BY <1>6, <1>9 DEF Numbered
<1>13. /\ Append(Log(r), w) \in Seq(OutboxRow) /\ Len(Append(Log(r), w)) = size + 1
       /\ \A n \in 1..size : Append(Log(r), w)[n] = Log(r)[n]
       /\ Append(Log(r), w)[size + 1] = w
  BY <1>12, AppendProperties
<1>14. \A n \in 1..(size + 1) : Log(r)'[n] = Append(Log(r), w)[n]
  BY <1>5, <1>10, <1>11, <1>13
<1>15. Log(r)' = Append(Log(r), w)
  BY <1>12, <1>13, <1>14, SeqEqual
<1> QED
  BY <1>4, <1>15
-----------------------------------------------------------------------------
(* The composition implements RequestLifecycle *)

LEMMA OutboxStays ==
    ASSUME UNCHANGED <<created, rows>> PROVE UNCHANGED outbox
<1>1. \A r : Log(r)' = Log(r)
  BY DEF Log, Place, Own, Ids
<1> QED
  BY <1>1 DEF outbox

LEMMA OutboxAppends ==
    ASSUME TypeOK, TypeOK', NEW r \in created, NEW w \in OutboxRow, Wrote(r, w),
           UNCHANGED created
    PROVE  outbox' = [outbox EXCEPT ![r] = Append(outbox[r], w)]
<1>1. r \in Requests
  BY DEF TypeOK
<1>2. Log(r)' = Append(Log(r), w) /\ \A o \in Requests \ {r} : Log(o)' = Log(o)
  BY <1>1, LogAppends
<1> QED
  BY <1>1, <1>2 DEF outbox

\* A request that is created starts with the row everybody expects of it.
LEMMA CreateIsInvisible ==
    ASSUME SystemInv, TypeOK', NEW r \in Requests, Create(r)
    PROVE  UNCHANGED <<requests, processed, outbox>>
<1>1. TypeOK /\ Wrote(r, ValidationRow)
  BY CreatedType, WriteOne DEF SystemInv, Create
<1>2. Log(r)' = Append(Log(r), ValidationRow) /\ \A o \in Requests \ {r} : Log(o)' = Log(o)
  BY <1>1, CreatedType, LogAppends
<1>3. Own(r) = {}
  BY DEF Create, SystemInv, NothingBeforeCreation, Own
<1>4. Log(r) = <<>>
  <2>1. Log(r) \in Seq(OutboxRow) /\ Len(Log(r)) = 0
    BY <1>1, <1>3, LogType, FS_EmptySet
  <2> QED
    BY <2>1, EmptySeq
<1>5. Log(r)' = <<ValidationRow>>
  BY <1>2, <1>4, AppendToNone
<1>6. outbox' = outbox
  BY <1>2, <1>5 DEF outbox, Create
<1> QED
  BY <1>6 DEF Create

LEMMA ApplyIsLifecycleStep ==
    ASSUME SystemInv, TypeOK', NEW m \in Messages, m.request \in created, Apply(m),
           UNCHANGED created
    PROVE  Lifecycle!Next
<1> DEFINE r == m.request
           q == requests[r]
<1>1. /\ TypeOK /\ r \in Requests /\ q \in Request /\ r \in created
      /\ requests \in [Requests -> Request]
      /\ outbox[r] = Log(r)
  BY DEF SystemInv, TypeOK, outbox
<1>2. Lifecycle!Record(m.eventId) /\ m.eventId \in Lifecycle!EventIds
  BY <1>1, ApplyMoves DEF Lifecycle!Record, Lifecycle!EventIds, EventIds
<1>3. CASE MovesNothing(m)
  BY <1>2, <1>3, OutboxStays DEF MovesNothing, Lifecycle!Next, Lifecycle!Ignore
<1>4. CASE Accepts(m)
  <2>1. PICK a \in FreshAttempts :
          LET q1 == [q EXCEPT !.status = "QUEUED", !.attemptId = a]
          IN  Becomes(r, q1) /\ Wrote(r, QueuedRow(q1))
    BY <1>4 DEF Accepts
  <2> DEFINE q1 == [q EXCEPT !.status = "QUEUED", !.attemptId = a]
  <2>2. Becomes(r, q1) /\ Wrote(r, QueuedRow(q1)) /\ q.status = "RECEIVED"
    BY <1>4, <2>1 DEF Accepts
  <2>3. q1 \in Request
    BY <1>1 DEF Request, Statuses, FreshAttempts
  <2>4. QueuedRow(q1) \in OutboxRow
    BY <2>3 DEF QueuedRow, OutboxRow, OutboxPatterns
  <2>5. outbox' = [outbox EXCEPT ![r] = Append(outbox[r], Lifecycle!QueuedRow(q1))]
    <3> HIDE DEF q1
    <3> QED
      BY <1>1, <2>2, <2>4, OutboxAppends DEF QueuedRow, Lifecycle!QueuedRow
  <2>6. a \in Attempts \ {requests[o].attemptId : o \in Requests}
    BY DEF FreshAttempts
  <2>7. Lifecycle!Move(r, [requests[r] EXCEPT !.status = "QUEUED", !.attemptId = a],
          Append(outbox[r], Lifecycle!QueuedRow([requests[r] EXCEPT !.status = "QUEUED",
                                                                   !.attemptId = a])))
    BY <2>2, <2>5 DEF Lifecycle!Move, Becomes
  <2>8. Lifecycle!Accept(r)
    BY <1>1, <2>2, <2>6, <2>7, Zenon DEF Lifecycle!Accept, Lifecycle!Status
  <2> QED
    BY <1>1, <1>2, <2>8 DEF Lifecycle!Next
<1>5. CASE Starts(m)
  <2>1. UNCHANGED outbox
    BY <1>5, OutboxStays DEF Starts
  <2>2. outbox' = [outbox EXCEPT ![r] = outbox[r]]
    BY <2>1 DEF outbox
  <2>3. Lifecycle!Start(r)
    BY <1>5, <2>2 DEF Starts, Becomes, Lifecycle!Start, Lifecycle!Move, Lifecycle!Status
  <2> QED
    BY <1>1, <1>2, <2>3 DEF Lifecycle!Next
<1>6. CASE Completes(m)
  <2>1. PICK zip \in Zips :
          LET q1 == [q EXCEPT !.status = "COMPLETED", !.zipStorageKey = zip]
          IN  Becomes(r, q1) /\ Wrote(r, TerminalRow(q1))
    BY <1>6 DEF Completes
  <2> DEFINE q1 == [q EXCEPT !.status = "COMPLETED", !.zipStorageKey = zip]
  <2>2. Becomes(r, q1) /\ Wrote(r, TerminalRow(q1)) /\ q.status \in {"QUEUED", "PROCESSING"}
    BY <1>6, <2>1 DEF Completes
  <2>3. q1 \in Request
    BY <1>1 DEF Request, Statuses
  <2>4. TerminalRow(q1) \in OutboxRow
    BY <2>3 DEF TerminalRow, OutboxRow, OutboxPatterns
  <2>5. outbox' = [outbox EXCEPT ![r] = Append(outbox[r], Lifecycle!TerminalRow(q1))]
    <3> HIDE DEF q1
    <3> QED
      BY <1>1, <2>2, <2>4, OutboxAppends DEF TerminalRow, Lifecycle!TerminalRow
  <2>6. Lifecycle!Move(r,
          [requests[r] EXCEPT !.status = "COMPLETED", !.zipStorageKey = zip],
          Append(outbox[r], Lifecycle!TerminalRow(
            [requests[r] EXCEPT !.status = "COMPLETED", !.zipStorageKey = zip])))
    BY <2>2, <2>5 DEF Lifecycle!Move, Becomes
  <2>7. Lifecycle!Complete(r)
    BY <1>1, <2>2, <2>6, Zenon DEF Lifecycle!Complete, Lifecycle!Status
  <2> QED
    BY <1>1, <1>2, <2>7 DEF Lifecycle!Next
<1>7. CASE Fails(m)
  <2>1. PICK code \in FailureCodes :
          LET q1 == [q EXCEPT !.status = "FAILED", !.failureCode = code]
          IN  Becomes(r, q1) /\ Wrote(r, TerminalRow(q1))
    BY <1>7 DEF Fails
  <2> DEFINE q1 == [q EXCEPT !.status = "FAILED", !.failureCode = code]
  <2>2. Becomes(r, q1) /\ Wrote(r, TerminalRow(q1))
        /\ q.status \in {"RECEIVED", "QUEUED", "PROCESSING"}
    BY <1>7, <2>1 DEF Fails
  <2>3. q1 \in Request
    BY <1>1 DEF Request, Statuses
  <2>4. TerminalRow(q1) \in OutboxRow
    BY <2>3 DEF TerminalRow, OutboxRow, OutboxPatterns
  <2>5. outbox' = [outbox EXCEPT ![r] = Append(outbox[r], Lifecycle!TerminalRow(q1))]
    <3> HIDE DEF q1
    <3> QED
      BY <1>1, <2>2, <2>4, OutboxAppends DEF TerminalRow, Lifecycle!TerminalRow
  <2>6. Lifecycle!Move(r,
          [requests[r] EXCEPT !.status = "FAILED", !.failureCode = code],
          Append(outbox[r], Lifecycle!TerminalRow(
            [requests[r] EXCEPT !.status = "FAILED", !.failureCode = code])))
    BY <2>2, <2>5 DEF Lifecycle!Move, Becomes
  <2>7. code \in Lifecycle!FailureCodes
    BY DEF Lifecycle!FailureCodes, FailureCodes
  <2>8. Lifecycle!Fail(r)
    BY <1>1, <2>2, <2>6, <2>7, Zenon DEF Lifecycle!Fail, Lifecycle!Status
  <2> QED
    BY <1>1, <1>2, <2>8 DEF Lifecycle!Next
<1> QED
  BY <1>1, <1>3, <1>4, <1>5, <1>6, <1>7, ApplyMoves

LEMMA LifecycleStep ==
    SystemInv /\ SystemInv' /\ [Next]_vars => [Lifecycle!Next]_(Lifecycle!vars)
<1> SUFFICES ASSUME SystemInv, SystemInv', [Next]_vars
             PROVE  Lifecycle!Next \/ UNCHANGED <<requests, processed, outbox>>
  BY DEF Lifecycle!vars
<1>1. TypeOK /\ TypeOK'
  BY DEF SystemInv
<1>2. ASSUME UNCHANGED <<tables, rows>> PROVE UNCHANGED <<requests, processed, outbox>>
  BY <1>2, OutboxStays DEF tables
<1>3. CASE UNCHANGED vars
  BY <1>2, <1>3 DEF vars, tables
<1>4. ASSUME NEW r \in Requests, Create(r) PROVE UNCHANGED <<requests, processed, outbox>>
  BY <1>1, <1>4, CreateIsInvisible
<1>5. ASSUME NEW m \in Messages, Handle(m)
      PROVE  Lifecycle!Next \/ UNCHANGED <<requests, processed, outbox>>
  BY <1>1, <1>2, <1>5, ApplyIsLifecycleStep DEF Handle, tables
<1>6. ASSUME NEW m \in Messages, HandledUnsettled(m) PROVE Lifecycle!Next
  BY <1>1, <1>6, ApplyIsLifecycleStep DEF HandledUnsettled
<1>7. ASSUME NEW m \in Messages, Publish(m) PROVE UNCHANGED <<requests, processed, outbox>>
  BY <1>2, <1>7 DEF Publish, relay
<1>8. ASSUME NEW i \in Ids, Send(i) PROVE UNCHANGED <<requests, processed, outbox>>
  BY <1>2, <1>8 DEF Send
<1>9. CASE CommitMarks \/ DrainFails
  BY <1>2, <1>9 DEF CommitMarks, DrainFails
<1> QED
  BY <1>3, <1>4, <1>5, <1>6, <1>7, <1>8, <1>9 DEF Next, Drain, Quiet

LEMMA LifecycleInit == Init => Lifecycle!Init
  BY DEF Init, outbox, Lifecycle!Init, CreatedRequest, Lifecycle!CreatedRequest,
         ValidationRow, Lifecycle!ValidationRow

\* The Catalog that creates requests one by one, relays its outbox and is
\* answered by the others implements the lifecycle in which all requests are
\* there from the start and every event is applied at most once.
THEOREM LoopImplementsLifecycle == Spec => ImplementsLifecycle
<1> QED
  BY LifecycleInit, LifecycleStep, SystemInvariant, PTL
     DEF Spec, ImplementsLifecycle, Lifecycle!Spec
-----------------------------------------------------------------------------
(* What the lifecycle promises *)

Promised == INSTANCE RequestLifecycle_proofs

Explained == Lifecycle!StatusExplained /\ Lifecycle!OutboxTellsTheRequest

\* Each log is the history of its request, and a status says what is set.
LEMMA LifecycleExplains == Spec => []Explained
<1>1. Lifecycle!Init => Promised!Init
  BY Zenon DEF Lifecycle!Init, Lifecycle!CreatedRequest, Lifecycle!ValidationRow,
               Promised!Init, Promised!CreatedRequest, Promised!ValidationRow
<1>2. [Lifecycle!Next]_(Lifecycle!vars) => [Promised!Next]_(Promised!vars)
  BY Zenon
  DEF Lifecycle!vars, Lifecycle!Next, Lifecycle!Record, Lifecycle!Ignore,
      Lifecycle!Accept, Lifecycle!Start, Lifecycle!Complete, Lifecycle!Fail,
      Lifecycle!Status, Lifecycle!Move, Lifecycle!QueuedRow, Lifecycle!TerminalRow,
      Lifecycle!FailureCodes, Lifecycle!EventIds,
      Promised!vars, Promised!Next, Promised!Record, Promised!Ignore,
      Promised!Accept, Promised!Start, Promised!Complete, Promised!Fail,
      Promised!Status, Promised!Move, Promised!QueuedRow, Promised!TerminalRow,
      Promised!FailureCodes, Promised!EventIds
<1>3. Promised!Init => Promised!LifecycleInv
  BY Promised!InitInv, NoneAssumption, MessagesAssumption
  DEF EventKinds, Promised!EventKinds
<1>4. Promised!LifecycleInv /\ [Promised!Next]_(Promised!vars)
        => Promised!LifecycleInv'
  BY Promised!NextInv, NoneAssumption, MessagesAssumption
  DEF EventKinds, Promised!EventKinds
<1>5. Promised!LifecycleInv => Explained
  BY Zenon
  DEF Explained, Lifecycle!StatusExplained, Promised!StatusExplained,
      Lifecycle!OutboxTellsTheRequest, Lifecycle!History,
      Lifecycle!CreatedRequest, Lifecycle!ValidationRow, Lifecycle!QueuedRow,
      Lifecycle!TerminalRow, Lifecycle!IsTerminal, Lifecycle!TerminalStatuses,
      Promised!LifecycleInv, Promised!OutboxTellsTheRequest, Promised!History,
      Promised!CreatedRequest, Promised!ValidationRow, Promised!QueuedRow,
      Promised!TerminalRow, Promised!IsTerminal, Promised!TerminalStatuses
<1> QED
  BY <1>1, <1>2, <1>3, <1>4, <1>5, LoopImplementsLifecycle, PTL
  DEF ImplementsLifecycle, Lifecycle!Spec

\* A row shows the stored outcome, or the attempt the request has for good.
Tells(w, q) ==
    /\ w.pattern = "TerminalEvent" => w.request = q
    /\ w.pattern = "ProcessingQueued" => w.request.attemptId = q.attemptId

LEMMA HistoryTells ==
    ASSUME NEW q \in Request, NEW n \in DOMAIN Lifecycle!History(q)
    PROVE  Tells(Lifecycle!History(q)[n], q)
<1> DEFINE asked == Lifecycle!ValidationRow
           queued == Lifecycle!QueuedRow([Lifecycle!CreatedRequest
                       EXCEPT !.status = "QUEUED", !.attemptId = q.attemptId])
           ended == Lifecycle!TerminalRow(q)
<1>1. Tells(asked, q) /\ Tells(queued, q) /\ Tells(ended, q)
  BY DEF Tells, Lifecycle!ValidationRow, Lifecycle!QueuedRow, Lifecycle!TerminalRow,
         Lifecycle!CreatedRequest
<1>2. \/ Lifecycle!History(q) = <<asked>>
      \/ Lifecycle!History(q) = <<asked, ended>>
      \/ Lifecycle!History(q) = <<asked, queued>>
      \/ Lifecycle!History(q) = <<asked, queued, ended>>
  BY DEF Lifecycle!History
<1> HIDE DEF asked, queued, ended
<1>3. Lifecycle!History(q)[n] \in {asked, queued, ended}
  BY <1>2
<1> QED
  BY <1>1, <1>3

RowsTell == \A i \in Ids : Tells(Entry(i), requests[rows[i].request])

LEMMA HistoryReachesRows == SystemInv /\ Explained => RowsTell
<1> SUFFICES ASSUME SystemInv, Explained, NEW i \in Ids
             PROVE  Tells(Entry(i), requests[rows[i].request])
  BY DEF RowsTell
<1> DEFINE r == rows[i].request
<1>1. TypeOK /\ rows[i] \in Row
  BY TablesAreSequences, ElementOfSeq DEF SystemInv
<1>2. r \in Requests /\ i \in Own(r) /\ requests[r] \in Request
  BY <1>1 DEF Row, Own, TypeOK
<1>3. r \in created
  BY <1>2 DEF SystemInv, NothingBeforeCreation
<1>4. Log(r) = Lifecycle!History(requests[r])
  BY <1>2, <1>3 DEF Explained, Lifecycle!OutboxTellsTheRequest, outbox
<1>5. Place(r, i) \in DOMAIN Log(r) /\ Log(r)[Place(r, i)] = Entry(i)
  BY <1>1, <1>2, LogHas, LogType, PlaceType
<1> HIDE DEF r
<1>6. Tells(Entry(i), requests[r])
  BY <1>2, <1>4, <1>5, HistoryTells
<1> QED
  BY <1>6 DEF r

\* However often the outbox was drained, the terminal event that reached the
\* others tells the stored outcome, and the attempt the Worker runs is the one
\* the request has.
THEOREM ToldIsStoredAlways == Spec => []ToldIsStored
<1>1. SystemInv /\ RowsTell => ToldIsStored
  <2> SUFFICES ASSUME SystemInv, RowsTell, NEW n \in DOMAIN arrived
               PROVE  Tells(Entry(arrived[n]), requests[rows[arrived[n]].request])
    BY DEF ToldIsStored, Tells, Entry
  <2>1. arrived[n] \in Ids
    BY ElementOfSeq, LenProperties DEF SystemInv, TypeOK
  <2> QED
    BY <2>1 DEF RowsTell
<1> QED
  BY <1>1, SystemInvariant, LifecycleExplains, HistoryReachesRows, PTL
-----------------------------------------------------------------------------
(* No event is too early *)

Context == SystemInv /\ Explained /\ RowsTell

LEMMA ContextInvariant == Spec => []Context
BY SystemInvariant, LifecycleExplains, HistoryReachesRows, PTL DEF Context

\* An event that was published is about a request the sender heard of, and if
\* it names an attempt then that request's.
AnswersKnow ==
    \A m \in Messages : broker[m] # "unsent" =>
      /\ m.request \in Requests
      /\ m.kind \in AttemptEvents => requests[m.request].attemptId = m.attemptId

Happened(r, kinds) ==
    \E n \in Messages : n.eventId \in processed /\ n.request = r /\ n.kind \in kinds

\* A request left RECEIVED by an answer of validation that is recorded, and its
\* attempt ended by an outcome that is.
MovesHaveCauses ==
    \A r \in Requests :
      /\ requests[r].status # "RECEIVED" => Happened(r, ValidationKinds)
      /\ IsTerminal(requests[r]) /\ requests[r].attemptId # None => Happened(r, OutcomeKinds)

LoopInv == AnswersKnow /\ MovesHaveCauses /\ DeadLettersAreLate

\* Moved past m: the event of m came after one that decided the same.
Late(m) ==
    \E n \in Messages :
      /\ n.eventId \in processed \ {m.eventId}
      /\ n.request = m.request
      /\ {n.kind, m.kind} \subseteq ValidationKinds
         \/ {n.kind, m.kind} \subseteq OutcomeKinds

LEMMA LoopInit == Init => LoopInv
BY DEF Init, LoopInv, AnswersKnow, MovesHaveCauses, DeadLettersAreLate, CreatedRequest,
       IsTerminal, TerminalStatuses

\* What an event does to its request, in the terms of this section.
LEMMA ApplyHasCause ==
    ASSUME Context, NEW m \in Messages, m.request \in created, Apply(m)
    PROVE  LET q == requests[m.request]
               new == requests'[m.request]
           IN  /\ q.attemptId # None => new.attemptId = q.attemptId
               /\ \/ new = q
                  \/ new.status # "RECEIVED" /\ ~ IsTerminal(new) /\ q.status # "RECEIVED"
                  \/ new.status # "RECEIVED" /\ ~ IsTerminal(new) /\ m.kind \in ValidationKinds
                  \/ q.status # "RECEIVED" /\ m.kind \in OutcomeKinds
                  \/ new.attemptId = None /\ m.kind \in ValidationKinds
<1> DEFINE r == m.request
           q == requests[r]
<1>1. /\ TypeOK /\ r \in Requests /\ q \in Request /\ requests \in [Requests -> Request]
      /\ q.status = "RECEIVED" => q.attemptId = None
  BY DEF Context, SystemInv, TypeOK, Explained, Lifecycle!StatusExplained
<1>2. ASSUME NEW q1, Becomes(r, q1) PROVE requests'[r] = q1
  BY <1>1, <1>2 DEF Becomes
<1>3. CASE MovesNothing(m)
  BY <1>3 DEF MovesNothing
<1>4. CASE Accepts(m)
  <2>1. PICK a \in FreshAttempts :
          Becomes(r, [q EXCEPT !.status = "QUEUED", !.attemptId = a])
    BY <1>4 DEF Accepts
  <2>2. requests'[r] = [q EXCEPT !.status = "QUEUED", !.attemptId = a]
    BY <1>2, <2>1
  <2>3. requests'[r].status = "QUEUED"
    BY <1>1, <2>2 DEF Request
  <2> QED
    BY <1>1, <1>4, <2>3 DEF Accepts, IsTerminal, TerminalStatuses, ValidationKinds
<1>5. CASE Starts(m)
  <2>1. requests'[r] = [q EXCEPT !.status = "PROCESSING"]
    BY <1>2, <1>5 DEF Starts
  <2>2. requests'[r].status = "PROCESSING" /\ requests'[r].attemptId = q.attemptId
    BY <1>1, <2>1 DEF Request
  <2> QED
    BY <1>5, <2>2 DEF Starts, IsTerminal, TerminalStatuses
<1>6. CASE Completes(m)
  <2>1. PICK zip \in Zips :
          Becomes(r, [q EXCEPT !.status = "COMPLETED", !.zipStorageKey = zip])
    BY <1>6 DEF Completes
  <2>2. requests'[r] = [q EXCEPT !.status = "COMPLETED", !.zipStorageKey = zip]
    BY <1>2, <2>1
  <2>3. requests'[r].attemptId = q.attemptId
    BY <1>1, <2>2 DEF Request
  <2> QED
    BY <1>6, <2>3 DEF Completes, OutcomeKinds
<1>7. CASE Fails(m)
  <2>1. PICK code \in FailureCodes :
          Becomes(r, [q EXCEPT !.status = "FAILED", !.failureCode = code])
    BY <1>7 DEF Fails
  <2>2. requests'[r] = [q EXCEPT !.status = "FAILED", !.failureCode = code]
    BY <1>2, <2>1
  <2>3. requests'[r].attemptId = q.attemptId
    BY <1>1, <2>2 DEF Request
  <2> QED
    BY <1>1, <1>7, <2>3 DEF Fails, OutcomeKinds, ValidationKinds
<1> QED
  BY <1>1, <1>3, <1>4, <1>5, <1>6, <1>7, ApplyMoves

LEMMA ApplyKeepsLoop ==
    ASSUME Context, LoopInv, NEW m \in Messages, m.request \in created, Apply(m),
           \A n \in Messages : /\ broker'[n] # "unsent" => broker[n] # "unsent"
                               /\ broker'[n] = "dead" => broker[n] = "dead"
    PROVE  LoopInv'
<1> DEFINE r == m.request
           q == requests[r]
           new == requests'[r]
<1>1. /\ TypeOK /\ r \in Requests
      /\ \A o \in Requests \ {r} : requests'[o] = requests[o]
      /\ processed' = processed \cup {m.eventId}
  BY ApplyMoves, ApplyIsLocal DEF Context, SystemInv, TypeOK
<1>2. /\ q.attemptId # None => new.attemptId = q.attemptId
      /\ \/ new = q
         \/ new.status # "RECEIVED" /\ ~ IsTerminal(new) /\ q.status # "RECEIVED"
         \/ new.status # "RECEIVED" /\ ~ IsTerminal(new) /\ m.kind \in ValidationKinds
         \/ q.status # "RECEIVED" /\ m.kind \in OutcomeKinds
         \/ new.attemptId = None /\ m.kind \in ValidationKinds
  BY ApplyHasCause
<1>3. AnswersKnow'
  <2>1. SUFFICES ASSUME NEW n \in Messages, broker'[n] # "unsent"
                 PROVE  /\ n.request \in Requests
                        /\ n.kind \in AttemptEvents => requests'[n.request].attemptId = n.attemptId
    BY DEF AnswersKnow
  <2>2. /\ n.request \in Requests
        /\ n.kind \in AttemptEvents => requests[n.request].attemptId = n.attemptId
    BY <2>1 DEF LoopInv, AnswersKnow
  <2>3. n.kind \in AttemptEvents => n.attemptId # None
    BY DEF WellFormed
  <2> QED
    BY <1>1, <1>2, <2>2, <2>3
<1>4. \A o, kinds : Happened(o, kinds) => Happened(o, kinds)'
  BY <1>1 DEF Happened
<1>5. \A kinds : m.kind \in kinds => Happened(r, kinds)'
  BY <1>1 DEF Happened
<1>6. MovesHaveCauses'
  <2>1. ASSUME NEW o \in Requests \ {r}
        PROVE  /\ requests'[o].status # "RECEIVED" => Happened(o, ValidationKinds)'
               /\ IsTerminal(requests'[o]) /\ requests'[o].attemptId # None
                    => Happened(o, OutcomeKinds)'
    BY <1>1, <1>4 DEF LoopInv, MovesHaveCauses
  <2>2. /\ new.status # "RECEIVED" => Happened(r, ValidationKinds)'
        /\ IsTerminal(new) /\ new.attemptId # None => Happened(r, OutcomeKinds)'
    <3>1. /\ q.status # "RECEIVED" => Happened(r, ValidationKinds)'
          /\ IsTerminal(q) /\ q.attemptId # None => Happened(r, OutcomeKinds)'
      BY <1>1, <1>4 DEF LoopInv, MovesHaveCauses
    <3>2. /\ m.kind \in ValidationKinds => Happened(r, ValidationKinds)'
          /\ m.kind \in OutcomeKinds => Happened(r, OutcomeKinds)'
      BY <1>5
    <3> QED
      BY <1>2, <3>1, <3>2
  <2> QED
    BY <2>1, <2>2 DEF MovesHaveCauses, IsTerminal
<1>7. DeadLettersAreLate'
  BY <1>1 DEF LoopInv, DeadLettersAreLate
<1> QED
  BY <1>3, <1>6, <1>7 DEF LoopInv

\* A step that leaves requests and processed events alone.
LEMMA SettleKeepsLoop ==
    ASSUME LoopInv, UNCHANGED <<requests, processed>>,
           \A n \in Messages : /\ broker'[n] # "unsent" => broker[n] # "unsent"
                               /\ broker'[n] = "dead" => broker[n] = "dead" \/ Late(n)
    PROVE  LoopInv'
<1>1. AnswersKnow'
  BY DEF LoopInv, AnswersKnow
<1>2. MovesHaveCauses'
  BY DEF LoopInv, MovesHaveCauses, Happened
<1>3. DeadLettersAreLate'
  BY DEF LoopInv, DeadLettersAreLate, Late
<1> QED
  BY <1>1, <1>2, <1>3 DEF LoopInv

\* An answer is about what arrived, and what arrived is what is stored.
LEMMA PublishKeepsLoop ==
    ASSUME Context, LoopInv, NEW m \in Messages, Publish(m) PROVE LoopInv'
<1>1. /\ TypeOK /\ UNCHANGED <<requests, processed>>
      /\ broker' = [broker EXCEPT ![m] = "ready"]
  BY DEF Context, SystemInv, Publish, tables
<1>2. PICK n \in DOMAIN arrived :
        LET w == rows[arrived[n]] IN
        /\ w.request = m.request
        /\ IF m.kind \in AttemptEvents
           THEN w.pattern = "ProcessingQueued" /\ w.payload.attemptId = m.attemptId
           ELSE w.pattern = "VideoValidationRequested"
  BY DEF Publish, Knows
<1>3. arrived[n] \in Ids
  BY <1>1, ElementOfSeq, LenProperties DEF TypeOK
<1>4. rows[arrived[n]] \in Row /\ m.request \in Requests
  <2>1. rows[arrived[n]] \in Row
    BY <1>1, <1>3, TablesAreSequences, ElementOfSeq
  <2> QED
    BY <1>2, <2>1 DEF Row
<1>5. m.kind \in AttemptEvents => requests[m.request].attemptId = m.attemptId
  BY <1>2, <1>3 DEF Context, RowsTell, Tells, Entry
<1>6. \A o \in Messages \ {m} : broker'[o] = broker[o]
  BY <1>1 DEF TypeOK
<1>7. broker'[m] = "ready"
  BY <1>1 DEF TypeOK
<1>8. AnswersKnow'
  BY <1>1, <1>4, <1>5, <1>6 DEF LoopInv, AnswersKnow
<1>9. MovesHaveCauses'
  BY <1>1 DEF LoopInv, MovesHaveCauses, Happened
<1>10. DeadLettersAreLate'
  BY <1>1, <1>6, <1>7 DEF LoopInv, DeadLettersAreLate
<1> QED
  BY <1>8, <1>9, <1>10 DEF LoopInv

\* An event the domain refuses comes after another that decided the same.
LEMMA RefusedIsLate ==
    ASSUME Context, LoopInv, NEW m \in Messages, broker[m] = "ready",
           m.eventId \notin processed, ~ Stale(m, requests[m.request]),
           ~ Permitted(m, requests[m.request])
    PROVE  Late(m)
<1> DEFINE r == m.request
           q == requests[r]
<1>1. /\ r \in Requests /\ q \in Request /\ WellFormed(m)
      /\ m.kind \in AttemptEvents => q.attemptId # None
      /\ q.status = "RECEIVED" => q.attemptId = None
  BY DEF LoopInv, AnswersKnow, WellFormed, Context, SystemInv, TypeOK, Explained,
         Lifecycle!StatusExplained
<1>2. /\ q.status # "RECEIVED" => Happened(r, ValidationKinds)
      /\ IsTerminal(q) /\ q.attemptId # None => Happened(r, OutcomeKinds)
  BY <1>1 DEF LoopInv, MovesHaveCauses
<1>3. CASE m.kind \in ValidationKinds
  <2>1. q.status # "RECEIVED"
    BY <1>1, <1>3 DEF ValidationKinds, Permitted, CanAccept, CanReject, IsFailureCode, WellFormed
  <2>2. PICK n \in Messages : n.eventId \in processed /\ n.request = r /\ n.kind \in ValidationKinds
    BY <1>2, <2>1 DEF Happened
  <2> QED
    BY <1>3, <2>2 DEF Late
<1>4. CASE m.kind = "ProcessingStarted"
  BY <1>1, <1>4 DEF Permitted, CanStart, AttemptEvents
<1>5. CASE m.kind \in OutcomeKinds
  <2>1. q.attemptId # None /\ q.status # "RECEIVED"
    BY <1>1, <1>5 DEF OutcomeKinds, AttemptEvents
  <2>2. q.status \notin {"QUEUED", "PROCESSING"}
    BY <1>1, <1>5 DEF OutcomeKinds, Permitted, CanComplete, CompletableStatuses, CanFail,
                      FailableStatuses, IsFailureCode, WellFormed
  <2>3. IsTerminal(q)
    BY <1>1, <2>1, <2>2 DEF Request, Statuses, IsTerminal, TerminalStatuses
  <2>4. PICK n \in Messages : n.eventId \in processed /\ n.request = r /\ n.kind \in OutcomeKinds
    BY <1>2, <2>1, <2>3 DEF Happened
  <2> QED
    BY <1>5, <2>4 DEF Late
<1> QED
  BY <1>3, <1>4, <1>5 DEF EventKinds, ValidationKinds, OutcomeKinds

LEMMA LoopNext == Context /\ LoopInv /\ [Next]_vars => LoopInv'
<1> SUFFICES ASSUME Context, LoopInv, [Next]_vars PROVE LoopInv'
  OBVIOUS
<1>1. broker \in [Messages -> {"unsent", "ready", "acked", "dead"}]
  BY DEF Context, SystemInv, TypeOK
<1>2. ASSUME UNCHANGED <<requests, processed, broker>> PROVE LoopInv'
  BY <1>2, SettleKeepsLoop
<1>3. CASE UNCHANGED vars
  BY <1>2, <1>3 DEF vars
<1>4. ASSUME NEW r \in Requests, Create(r) PROVE LoopInv'
  BY <1>2, <1>4 DEF Create
<1>5. ASSUME NEW m \in Messages, Publish(m) PROVE LoopInv'
  BY <1>5, PublishKeepsLoop
<1>6. ASSUME NEW m \in Messages, Handle(m) PROVE LoopInv'
  <2>1. broker[m] = "ready" /\ m.request \in created
    BY <1>6 DEF Handle
  <2>2. CASE Apply(m) /\ Settled(m, "acked")
    BY <1>1, <2>1, <2>2, ApplyKeepsLoop DEF Settled
  <2>3. CASE Settled(m, "acked") /\ UNCHANGED <<requests, processed, rows, state>>
    BY <1>1, <2>1, <2>3, SettleKeepsLoop DEF Settled
  <2>4. CASE /\ m.eventId \notin processed
             /\ ~ Stale(m, requests[m.request]) /\ ~ Permitted(m, requests[m.request])
             /\ Settled(m, "dead")
             /\ UNCHANGED <<requests, processed, rows, state>>
    <3>1. Late(m)
      BY <2>1, <2>4, RefusedIsLate
    <3> QED
      BY <1>1, <2>1, <2>4, <3>1, SettleKeepsLoop DEF Settled
  <2> QED
    BY <1>6, <2>2, <2>3, <2>4 DEF Handle
<1>7. ASSUME NEW m \in Messages, HandledUnsettled(m) PROVE LoopInv'
  BY <1>7, ApplyKeepsLoop DEF HandledUnsettled
<1>8. ASSUME NEW i \in Ids, Send(i) PROVE LoopInv'
  BY <1>2, <1>8 DEF Send, tables
<1>9. CASE CommitMarks \/ DrainFails
  BY <1>2, <1>9 DEF CommitMarks, DrainFails, tables
<1> QED
  BY <1>3, <1>4, <1>5, <1>6, <1>7, <1>8, <1>9 DEF Next, Drain, Quiet

\* An event is dead-lettered only after another event of the same request had
\* decided what it wanted to decide; a start never is.
THEOREM DeadLettersAreLateAlways == Spec => []DeadLettersAreLate
<1>1. LoopInv => DeadLettersAreLate
  BY DEF LoopInv
<1> QED
  BY <1>1, LoopInit, LoopNext, ContextInvariant, PTL DEF Spec
=============================================================================
