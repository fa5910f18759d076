-------------------- MODULE EventConsumerOutcomes_proofs --------------------
(***************************************************************************)
(* What becomes of the events: which are dead-lettered, what a duplicate   *)
(* does and whose outcome a request stores, for any number of handlers,    *)
(* messages, requests and faults.                                          *)
(***************************************************************************)
EXTENDS EventConsumer_proofs

USE NoneAssumption, MessagesAssumption, HandlersAssumption

\* A validation outcome that names no request, or one that has moved on, will
\* never be applied.
Past(m) == m.request \notin Requests \/ requests[m.request].status # "RECEIVED"

\* What is known of a message the use case refuses.
Refused(m) ==
    WellFormed(m) /\ m.kind \in {"VideoAccepted", "VideoRejected"} =>
      /\ Past(m)
      /\ OwnEventId(m) => m.eventId \notin processed

\* Refusals are told apart when the handler leaves the use case, not only once
\* the message is dead.
RefusedIsPast ==
    /\ \A h \in Handlers : pc[h] = "refused" => Refused(delivery[h])
    /\ \A m \in Messages : broker[m] = "dead" => Refused(m)

\* Only an event about a stored request is recorded.
RecordedNamesRequest ==
    \A m \in Messages : OwnEventId(m) /\ m.eventId \in processed => m.request \in Requests

\* Whatever is handled was published.
HandledWasPublished ==
    \A h \in Handlers : pc[h] # "idle" => broker[delivery[h]] # "unsent"

\* A request has an attempt once it has been accepted, and not before.
AcceptedHasAttempt ==
    \A r \in Requests :
      /\ requests[r].status = "RECEIVED" => requests[r].attemptId = None
      /\ requests[r].status \in {"QUEUED", "PROCESSING", "COMPLETED"}
           => requests[r].attemptId # None

\* The inductive invariant.
OutcomesInv ==
    /\ ConsumerInv
    /\ RefusedIsPast
    /\ RecordedNamesRequest
    /\ HandledWasPublished
    /\ AcceptedHasAttempt
    /\ OutcomeBelongsToAttempt

-----------------------------------------------------------------------------
(* Steps that leave the tables alone *)

LEMMA OutcomesInit == Init => OutcomesInv
<1> SUFFICES ASSUME Init PROVE OutcomesInv
  OBVIOUS
<1>1. ConsumerInv
  BY ConsumerInit
<1>2. RefusedIsPast /\ RecordedNamesRequest /\ HandledWasPublished
  BY DEF Init, RefusedIsPast, RecordedNamesRequest, HandledWasPublished
<1>3. AcceptedHasAttempt /\ OutcomeBelongsToAttempt
  BY DEF Init, CreatedRequest, AcceptedHasAttempt, OutcomeBelongsToAttempt
<1> QED
  BY <1>1, <1>2, <1>3 DEF OutcomesInv

\* Such a step has to explain what it refuses and what it dead-letters.
LEMMA TablesKept ==
    ASSUME OutcomesInv, ConsumerInv', UNCHANGED tables,
           \A m \in Messages : broker'[m] = "dead" => broker[m] = "dead" \/ Refused(m),
           \A m \in Messages : broker[m] # "unsent" => broker'[m] # "unsent",
           \A h \in Handlers : pc'[h] = "refused" => Refused(delivery'[h]),
           \A h \in Handlers : pc'[h] # "idle" => broker'[delivery'[h]] # "unsent"
    PROVE  OutcomesInv'
<1>1. UNCHANGED <<requests, processed>>
  BY DEF tables
<1>2. \A m : Refused(m)' <=> Refused(m)
  BY <1>1 DEF Refused, Past, WellFormed, OwnEventId
<1>3. RefusedIsPast'
  <2>1. \A h \in Handlers : pc'[h] = "refused" => Refused(delivery[h])'
    BY <1>1 DEF Refused, Past, WellFormed, OwnEventId
  <2>2. \A m \in Messages : broker'[m] = "dead" => Refused(m)'
    BY <1>2 DEF OutcomesInv, RefusedIsPast
  <2> QED
    BY <2>1, <2>2 DEF RefusedIsPast
<1>4. RecordedNamesRequest' /\ HandledWasPublished' /\ AcceptedHasAttempt'
  BY <1>1 DEF OutcomesInv, RecordedNamesRequest, HandledWasPublished, AcceptedHasAttempt,
              OwnEventId
<1>5. OutcomeBelongsToAttempt'
  BY <1>1 DEF OutcomesInv, OutcomeBelongsToAttempt
<1> QED
  BY <1>3, <1>4, <1>5 DEF OutcomesInv

\* The same for a step of one handler that only moves messages and handlers:
\* its own message, its own pc.
LEMMA HandlerMoves ==
    ASSUME OutcomesInv, ConsumerInv', UNCHANGED tables, NEW h \in Handlers,
           pc[h] # "idle",
           \A g \in Handlers \ {h} : pc'[g] = pc[g] /\ delivery'[g] = delivery[g],
           pc'[h] # "idle" => delivery'[h] = delivery[h],
           \A m \in Messages : broker'[m] = broker[m] \/ (m = delivery[h] /\ broker'[m] # "unsent"),
           broker'[delivery[h]] = "dead" => broker[delivery[h]] = "dead" \/ Refused(delivery[h]),
           pc'[h] = "refused" => Refused(delivery[h])
    PROVE  OutcomesInv'
<1>1. \A g \in Handlers : pc[g] # "idle" => delivery[g] \in Messages
  BY DEF OutcomesInv, ConsumerInv, CommitIsAtomic
<1>2. \A m \in Messages : broker'[m] = "dead" => broker[m] = "dead" \/ Refused(m)
  OBVIOUS
<1>3. \A m \in Messages : broker[m] # "unsent" => broker'[m] # "unsent"
  OBVIOUS
<1>4. \A g \in Handlers : pc'[g] = "refused" => Refused(delivery'[g])
  BY DEF OutcomesInv, RefusedIsPast
<1>5. \A g \in Handlers : pc'[g] # "idle" => broker'[delivery'[g]] # "unsent"
  BY <1>1, <1>3 DEF OutcomesInv, HandledWasPublished
<1> QED
  BY <1>2, <1>3, <1>4, <1>5, TablesKept

LEMMA PublishOutcomes ==
    ASSUME OutcomesInv, NEW m \in Messages, Publish(m) PROVE OutcomesInv'
<1>1. ConsumerInv'
  BY PublishInv DEF OutcomesInv
<1>2. UNCHANGED <<tables, pc, delivery>> /\ broker' = [broker EXCEPT ![m] = "ready"]
  BY DEF Publish, handler
<1>3. \A n \in Messages : broker'[n] = IF n = m THEN "ready" ELSE broker[n]
  BY <1>2 DEF OutcomesInv, ConsumerInv, TypeOK
<1>4. \A h \in Handlers : pc[h] # "idle" => delivery[h] \in Messages
  BY DEF OutcomesInv, ConsumerInv, CommitIsAtomic
<1>5. \A h \in Handlers : pc'[h] = "refused" => Refused(delivery'[h])
  BY <1>2 DEF OutcomesInv, RefusedIsPast
<1>6. \A h \in Handlers : pc'[h] # "idle" => broker'[delivery'[h]] # "unsent"
  BY <1>2, <1>3, <1>4 DEF OutcomesInv, HandledWasPublished
<1> QED
  BY <1>1, <1>2, <1>3, <1>5, <1>6, TablesKept

LEMMA ReceiveOutcomes ==
    ASSUME OutcomesInv, NEW h \in Handlers, NEW m \in Messages, Receive(h, m)
    PROVE  OutcomesInv'
<1>1. ConsumerInv'
  BY ReceiveInv DEF OutcomesInv
<1>2. /\ UNCHANGED tables /\ pc'[h] = "received" /\ delivery'[h] = m
      /\ \A g \in Handlers \ {h} : pc'[g] = pc[g] /\ delivery'[g] = delivery[g]
      /\ \A n \in Messages : broker'[n] = IF n = m THEN "unacked" ELSE broker[n]
  BY DEF Receive, OutcomesInv, ConsumerInv, TypeOK
<1>3. \A g \in Handlers : pc[g] # "idle" => delivery[g] \in Messages
  BY DEF OutcomesInv, ConsumerInv, CommitIsAtomic
<1>4. \A g \in Handlers : pc'[g] = "refused" => Refused(delivery'[g])
  BY <1>2 DEF OutcomesInv, RefusedIsPast
<1>5. \A g \in Handlers : pc'[g] # "idle" => broker'[delivery'[g]] # "unsent"
  BY <1>2, <1>3 DEF OutcomesInv, HandledWasPublished
<1> QED
  BY <1>1, <1>2, <1>4, <1>5, TablesKept

\* A step inside the use case.
LEMMA UseCaseStep ==
    ASSUME OutcomesInv, ConsumerInv', NEW h \in Handlers, NEW label, Goto(h, label),
           pc[h] # "idle", UNCHANGED <<tables, broker, delivery>>,
           label = "refused" => Refused(delivery[h])
    PROVE  OutcomesInv'
<1>1. pc'[h] = label /\ \A g \in Handlers \ {h} : pc'[g] = pc[g]
  BY DEF Goto, OutcomesInv, ConsumerInv, TypeOK
<1>2. \A m \in Messages : broker[m] = broker'[m]
  OBVIOUS
<1>3. broker'[delivery[h]] = "dead" => broker[delivery[h]] = "dead"
  OBVIOUS
<1> QED
  BY <1>1, <1>2, <1>3, HandlerMoves

LEMMA CheckProcessedOutcomes ==
    ASSUME OutcomesInv, NEW h \in Handlers, CheckProcessed(h) PROVE OutcomesInv'
<1>1. ConsumerInv'
  BY CheckProcessedInv DEF OutcomesInv
<1>2. PICK label : Goto(h, label) /\ (label = "refused" => ~ WellFormed(delivery[h]))
  BY DEF CheckProcessed
<1>3. label = "refused" => Refused(delivery[h])
  BY <1>2 DEF Refused
<1> QED
  BY <1>1, <1>2, <1>3, UseCaseStep DEF CheckProcessed

LEMMA FindNothingOutcomes ==
    ASSUME OutcomesInv, NEW h \in Handlers, FindNothing(h) PROVE OutcomesInv'
<1>1. ConsumerInv' /\ delivery[h] \in Messages
  BY FindNothingInv DEF OutcomesInv, FindNothing, ConsumerInv, CommitIsAtomic
<1>2. Refused(delivery[h])
  BY <1>1 DEF FindNothing, Refused, Past, OutcomesInv, RecordedNamesRequest
<1> QED
  BY <1>1, <1>2, UseCaseStep DEF FindNothing

LEMMA DecideOutcomes ==
    ASSUME OutcomesInv, NEW h \in Handlers, Decide(h) PROVE OutcomesInv'
<1> DEFINE m == delivery[h]
<1>1. ConsumerInv'
  BY DecideInv DEF OutcomesInv
<1>2. m.request \in Requests /\ row[h] = requests[m.request]
  BY DEF Decide, OutcomesInv, ConsumerInv, CommitIsAtomic, LockedRowIsCurrent, InTransaction
<1>3. PICK label : /\ Goto(h, label)
                   /\ label = "refused" => /\ ~ RecordedUnderLock(m)
                                           /\ ~ Permitted(m, row[h])
  BY DEF Decide
<1>4. ASSUME label = "refused" PROVE Refused(m)
  <2>1. ASSUME WellFormed(m), m.kind \in {"VideoAccepted", "VideoRejected"}
        PROVE  row[h].status # "RECEIVED"
    BY <1>3, <1>4, <2>1 DEF Permitted, CanAccept, CanReject, WellFormed
  <2> QED
    BY <1>2, <1>3, <1>4, <2>1 DEF Refused, Past, RecordedUnderLock
<1> QED
  BY <1>1, <1>3, <1>4, UseCaseStep DEF Decide

LEMMA MarkProcessedOutcomes ==
    ASSUME OutcomesInv, NEW h \in Handlers, MarkProcessed(h) PROVE OutcomesInv'
<1>1. ConsumerInv'
  BY MarkProcessedInv DEF OutcomesInv
<1>2. PICK label \in {"marked", "failed"} : Goto(h, label)
  BY DEF MarkProcessed
<1> QED
  BY <1>1, <1>2, UseCaseStep DEF MarkProcessed

LEMMA LockRequestOutcomes ==
    ASSUME OutcomesInv, NEW h \in Handlers, LockRequest(h) PROVE OutcomesInv'
<1>1. ConsumerInv'
  BY LockRequestInv DEF OutcomesInv
<1> QED
  BY <1>1, UseCaseStep DEF LockRequest

LEMMA DatabaseErrorOutcomes ==
    ASSUME OutcomesInv, NEW h \in Handlers, DatabaseError(h) PROVE OutcomesInv'
<1>1. ConsumerInv'
  BY DatabaseErrorInv DEF OutcomesInv
<1>2. pc[h] # "idle"
  BY DEF DatabaseError, InTransaction
<1> QED
  BY <1>1, <1>2, UseCaseStep DEF DatabaseError

\* The end of a delivery.
LEMMA EndOutcomes ==
    ASSUME OutcomesInv, ConsumerInv', NEW h \in Handlers, pc[h] # "idle",
           NEW outcome \in {"ready", "acked", "dead"},
           outcome = "dead" => pc[h] = "refused",
           broker' = IF live[h] THEN [broker EXCEPT ![delivery[h]] = outcome] ELSE broker,
           Goto(h, "idle"), delivery' = [delivery EXCEPT ![h] = Nobody], UNCHANGED tables
    PROVE  OutcomesInv'
<1>1. /\ pc'[h] = "idle"
      /\ \A g \in Handlers \ {h} : pc'[g] = pc[g] /\ delivery'[g] = delivery[g]
  BY DEF Goto, OutcomesInv, ConsumerInv, TypeOK
<1>2. delivery[h] \in Messages
  BY DEF OutcomesInv, ConsumerInv, CommitIsAtomic
<1>3. /\ \A m \in Messages : broker'[m] = broker[m] \/ (m = delivery[h] /\ broker'[m] = outcome)
      /\ broker'[delivery[h]] = "dead" => broker[delivery[h]] = "dead" \/ outcome = "dead"
  BY <1>2 DEF OutcomesInv, ConsumerInv, TypeOK
<1>4. outcome = "dead" => Refused(delivery[h])
  BY DEF OutcomesInv, RefusedIsPast
<1> QED
  BY <1>1, <1>3, <1>4, HandlerMoves

LEMMA SettleOutcomes ==
    ASSUME OutcomesInv, NEW h \in Handlers, Ack(h) \/ DeadLetter(h) \/ Requeue(h)
    PROVE  OutcomesInv'
<1>1. ConsumerInv'
  BY AckInv, DeadLetterInv, RequeueInv DEF OutcomesInv
<1>2. PICK outcome \in {"ready", "acked", "dead"} :
        pc[h] # "idle" /\ (outcome = "dead" => pc[h] = "refused") /\ Settle(h, outcome)
  BY DEF Ack, DeadLetter, Requeue
<1> QED
  BY <1>1, <1>2, EndOutcomes DEF Settle

LEMMA CrashOutcomes ==
    ASSUME OutcomesInv, NEW h \in Handlers, Crash(h) PROVE OutcomesInv'
<1>1. ConsumerInv'
  BY CrashInv DEF OutcomesInv
<1> QED
  BY <1>1, EndOutcomes DEF Crash

LEMMA ConnectionLostOutcomes ==
    ASSUME OutcomesInv, NEW h \in Handlers, ConnectionLost(h) PROVE OutcomesInv'
<1>1. ConsumerInv' /\ pc[h] # "idle" /\ delivery[h] \in Messages
  BY ConnectionLostInv DEF OutcomesInv, ConnectionLost, ConsumerInv, CommitIsAtomic
<1>2. UNCHANGED <<tables, pc, delivery>> /\ broker' = [broker EXCEPT ![delivery[h]] = "ready"]
  BY DEF ConnectionLost, tables
<1>3. \A m \in Messages : broker'[m] = IF m = delivery[h] THEN "ready" ELSE broker[m]
  BY <1>1, <1>2 DEF OutcomesInv, ConsumerInv, TypeOK
<1>4. pc'[h] = "refused" => Refused(delivery[h])
  BY <1>2 DEF OutcomesInv, RefusedIsPast
<1> QED
  BY <1>1, <1>2, <1>3, <1>4, HandlerMoves

-----------------------------------------------------------------------------
(* A commit *)

\* What the decision makes of a request: it never goes back to RECEIVED, ends
\* only by an event of its own, and stays as it is once it has ended.
LEMMA ResultProgress ==
    ASSUME NEW m \in Messages, NEW q \in Request, NEW a,
           Stale(m, q) \/ Permitted(m, q),
           m.kind = "VideoAccepted" => a \in Attempts
    PROVE  LET q1 == Result(m, q, a) IN
           /\ q1 = q \/ q1.status # "RECEIVED"
           /\ q1 = q \/ ~ IsTerminal(q)
           /\ q1.attemptId = IF m.kind = "VideoAccepted" THEN a ELSE q.attemptId
           /\ q1 # q /\ q1.status = "QUEUED" => m.kind = "VideoAccepted"
           /\ q1 # q /\ q1.status = "PROCESSING" => q.status = "QUEUED"
           /\ q1 # q /\ q1.status = "COMPLETED" =>
                /\ m.kind = "ProcessingCompleted" /\ q.status \in {"QUEUED", "PROCESSING"}
                /\ ~ Stale(m, q) /\ q1.zipStorageKey = m.zipStorageKey
           /\ q1 # q /\ q1.status = "FAILED" =>
                /\ ~ Stale(m, q) /\ q1.failureCode = m.failureCode
                /\ \/ m.kind = "VideoRejected" /\ q.status = "RECEIVED"
                   \/ m.kind = "ProcessingFailed" /\ q.status \in {"QUEUED", "PROCESSING"}
<1> DEFINE q1 == Result(m, q, a)
<1>1. CASE Stale(m, q)
  <2>1. q1 = q /\ m.kind # "VideoAccepted"
    BY <1>1 DEF Result, Stale, AttemptEvents
  <2> QED
    BY <2>1
<1>2. CASE ~ Stale(m, q) /\ m.kind = "VideoAccepted"
  <2>1. q.status = "RECEIVED" /\ q1 = [q EXCEPT !.status = "QUEUED", !.attemptId = a]
    BY <1>2 DEF Result, Transition, Accepted, Permitted, CanAccept
  <2>2. q1.status = "QUEUED" /\ q1.attemptId = a
    BY <2>1 DEF Request
  <2> QED
    BY <1>2, <2>1, <2>2 DEF IsTerminal, TerminalStatuses
<1>3. CASE ~ Stale(m, q) /\ m.kind = "VideoRejected"
  <2>1. q.status = "RECEIVED" /\ q1 = [q EXCEPT !.status = "FAILED", !.failureCode = m.failureCode]
    BY <1>3 DEF Result, Transition, Failed, Permitted, CanReject
  <2>2. q1.status = "FAILED" /\ q1.attemptId = q.attemptId /\ q1.failureCode = m.failureCode
    BY <2>1 DEF Request
  <2> QED
    BY <1>3, <2>1, <2>2 DEF IsTerminal, TerminalStatuses
<1>4. CASE ~ Stale(m, q) /\ m.kind = "ProcessingStarted"
  <2>1. q1 = IF q.status = "QUEUED" THEN [q EXCEPT !.status = "PROCESSING"] ELSE q
    BY <1>4 DEF Result, Transition, Started
  <2>2. q1 # q => q.status = "QUEUED" /\ q1.status = "PROCESSING"
    BY <2>1 DEF Request
  <2>3. q1.attemptId = q.attemptId
    BY <2>1 DEF Request
  <2> QED
    BY <1>4, <2>1, <2>2, <2>3 DEF IsTerminal, TerminalStatuses
<1>5. CASE ~ Stale(m, q) /\ m.kind = "ProcessingCompleted"
  <2>1. q1 = IF AlreadyCompleted(q, m.zipStorageKey) THEN q
             ELSE [q EXCEPT !.status = "COMPLETED", !.zipStorageKey = m.zipStorageKey]
    BY <1>5 DEF Result, Transition, Completed
  <2>2. q1 # q => /\ q.status \in {"QUEUED", "PROCESSING"}
                  /\ q1.status = "COMPLETED" /\ q1.zipStorageKey = m.zipStorageKey
    BY <1>5, <2>1 DEF Permitted, CanComplete, CompletableStatuses, Request
  <2>3. q1.attemptId = q.attemptId
    BY <2>1 DEF Request
  <2> QED
    BY <1>5, <2>1, <2>2, <2>3 DEF IsTerminal, TerminalStatuses
<1>6. CASE ~ Stale(m, q) /\ m.kind = "ProcessingFailed"
  <2>1. /\ q.status \in {"QUEUED", "PROCESSING"}
        /\ q1 = [q EXCEPT !.status = "FAILED", !.failureCode = m.failureCode]
    BY <1>6 DEF Result, Transition, Failed, Permitted, CanFail, FailableStatuses
  <2>2. q1.status = "FAILED" /\ q1.attemptId = q.attemptId /\ q1.failureCode = m.failureCode
    BY <2>1 DEF Request
  <2> QED
    BY <1>6, <2>1, <2>2 DEF IsTerminal, TerminalStatuses
<1> QED
  BY <1>1, <1>2, <1>3, <1>4, <1>5, <1>6 DEF EventKinds

\* Two messages of one event are alike but for their number.
LEMMA SameEvent ==
    ASSUME NEW m \in Messages, NEW n \in Messages, OwnEventId(m), n.eventId = m.eventId
    PROVE  n.kind = m.kind /\ n.request = m.request
<1>1. n = [m EXCEPT !.copy = n.copy]
  BY DEF OwnEventId
<1>2. DOMAIN m = {"copy", "eventId", "kind", "request", "attemptId", "zipStorageKey", "failureCode"}
  BY MessagesAssumption
<1>3. [m EXCEPT !.copy = n.copy].kind = m.kind /\ [m EXCEPT !.copy = n.copy].request = m.request
  BY <1>2
<1> QED
  BY <1>1, <1>3, Zenon

LEMMA WriteOutcomes ==
    ASSUME OutcomesInv, ConsumerInv', NEW h \in Handlers, pc[h] = "marked", WriteTables(h),
           NEW label \in {"done", "failed"}, Goto(h, label), UNCHANGED <<broker, delivery>>
    PROVE  OutcomesInv'
<1> DEFINE m == delivery[h]
           r == m.request
           q == row[h]
           q1 == after[h]
<1>1. /\ m \in Messages /\ r \in Requests /\ q = requests[r] /\ q \in Request
      /\ Decided(h) /\ broker[m] # "unsent"
  BY DEF OutcomesInv, ConsumerInv, CommitIsAtomic, LockedRowIsCurrent, TypeOK, InTransaction,
         HandledWasPublished
<1>2. /\ \A o \in Requests : requests'[o] = IF o = r THEN q1 ELSE requests[o]
      /\ processed' = processed \cup {m.eventId}
      /\ pc'[h] = label /\ \A g \in Handlers \ {h} : pc'[g] = pc[g]
  BY <1>1 DEF WriteTables, Goto, OutcomesInv, ConsumerInv, TypeOK
<1>3. PICK a : /\ q1 = Result(m, q, a)
               /\ Stale(m, q) \/ Permitted(m, q)
               /\ m.kind = "VideoAccepted" => a \in Attempts
  BY <1>1 DEF Decided
<1>4. /\ q1 = q \/ q1.status # "RECEIVED"
      /\ q1 = q \/ ~ IsTerminal(q)
      /\ q1.attemptId = IF m.kind = "VideoAccepted" THEN a ELSE q.attemptId
      /\ q1 # q /\ q1.status = "QUEUED" => m.kind = "VideoAccepted"
      /\ q1 # q /\ q1.status = "PROCESSING" => q.status = "QUEUED"
      /\ q1 # q /\ q1.status = "COMPLETED" =>
           /\ m.kind = "ProcessingCompleted" /\ q.status \in {"QUEUED", "PROCESSING"}
           /\ ~ Stale(m, q) /\ q1.zipStorageKey = m.zipStorageKey
      /\ q1 # q /\ q1.status = "FAILED" =>
           /\ ~ Stale(m, q) /\ q1.failureCode = m.failureCode
           /\ \/ m.kind = "VideoRejected" /\ q.status = "RECEIVED"
              \/ m.kind = "ProcessingFailed" /\ q.status \in {"QUEUED", "PROCESSING"}
  BY <1>1, <1>3, ResultProgress
<1> HIDE DEF q1
<1>5. \A n \in Messages : Past(n) => Past(n)'
  BY <1>2, <1>4, <1>1 DEF Past
<1>6. ASSUME NEW n \in Messages, Refused(n) PROVE Refused(n)'
  <2> SUFFICES ASSUME WellFormed(n), n.kind \in {"VideoAccepted", "VideoRejected"},
                      OwnEventId(n), n.eventId = m.eventId
               PROVE  FALSE
    BY <1>2, <1>5, <1>6 DEF Refused, WellFormed, OwnEventId
  <2>1. m.kind = n.kind /\ r = n.request
    BY <1>1, SameEvent
  <2>2. q.status # "RECEIVED"
    BY <1>1, <1>6, <2>1 DEF Refused, Past
  <2> QED
    BY <1>3, <2>1, <2>2 DEF Stale, AttemptEvents, Permitted, CanAccept, CanReject
<1>7. RefusedIsPast'
  <2>1. \A g \in Handlers : pc'[g] = "refused" => pc[g] = "refused" /\ delivery[g] \in Messages
    BY <1>2 DEF OutcomesInv, ConsumerInv, CommitIsAtomic
  <2> QED
    BY <1>6, <2>1 DEF OutcomesInv, RefusedIsPast
<1>8. RecordedNamesRequest'
  <2> SUFFICES ASSUME NEW n \in Messages, OwnEventId(n), n.eventId \in processed'
               PROVE  n.request \in Requests
    BY DEF RecordedNamesRequest, OwnEventId
  <2> QED
    BY <1>1, <1>2, SameEvent DEF OutcomesInv, RecordedNamesRequest
<1>9. HandledWasPublished'
  BY <1>2 DEF OutcomesInv, HandledWasPublished
<1>10. AcceptedHasAttempt'
  <2> SUFFICES ASSUME q1 # q
               PROVE  /\ q1.status = "RECEIVED" => q1.attemptId = None
                      /\ q1.status \in {"QUEUED", "PROCESSING", "COMPLETED"}
                           => q1.attemptId # None
    BY <1>1, <1>2 DEF OutcomesInv, AcceptedHasAttempt
  <2>1. m.kind = "VideoAccepted" => q1.attemptId # None
    BY <1>3, <1>4
  <2>2. q.status \in {"QUEUED", "PROCESSING"} => q.attemptId # None
    BY <1>1 DEF OutcomesInv, AcceptedHasAttempt
  <2> QED
    BY <1>4, <2>1, <2>2
<1>11. OutcomeBelongsToAttempt'
  <2> DEFINE reported(kind, o, p) ==
               \E n \in Messages :
                 /\ broker[n] # "unsent" /\ n.eventId \in processed'
                 /\ n.kind = kind /\ n.request = o
                 /\ kind # "VideoRejected" => n.attemptId = p.attemptId
                 /\ p.status = "COMPLETED" => n.zipStorageKey = p.zipStorageKey
                 /\ p.status = "FAILED" => n.failureCode = p.failureCode
             explained(o, p) ==
               /\ p.status = "COMPLETED" => reported("ProcessingCompleted", o, p)
               /\ p.status = "FAILED" =>
                    reported(IF p.attemptId = None THEN "VideoRejected"
                             ELSE "ProcessingFailed", o, p)
  <2> SUFFICES ASSUME NEW o \in Requests PROVE explained(o, requests'[o])
    BY DEF OutcomeBelongsToAttempt
  <2>1. explained(o, requests[o])
    BY <1>2 DEF OutcomesInv, OutcomeBelongsToAttempt
  <2>2. ASSUME o = r, q1 # q, q1.status = "COMPLETED"
        PROVE  reported("ProcessingCompleted", r, q1)
    <3>1. q.attemptId # None
      BY <1>1, <1>4, <2>2 DEF OutcomesInv, AcceptedHasAttempt
    <3>2. m.kind = "ProcessingCompleted" /\ m.attemptId = q1.attemptId
      BY <1>4, <2>2, <3>1 DEF Stale, AttemptEvents, IsStaleAttempt
    <3> QED
      BY <1>1, <1>2, <1>4, <2>2, <3>2
  <2>3. ASSUME o = r, q1 # q, q1.status = "FAILED"
        PROVE  reported(IF q1.attemptId = None THEN "VideoRejected"
                        ELSE "ProcessingFailed", r, q1)
    <3>1. CASE m.kind = "VideoRejected" /\ q.status = "RECEIVED"
      <4>1. q1.attemptId = None
        BY <1>1, <1>4, <3>1 DEF OutcomesInv, AcceptedHasAttempt
      <4> QED
        BY <1>1, <1>2, <1>4, <2>3, <3>1, <4>1
    <3>2. CASE m.kind = "ProcessingFailed" /\ q.status \in {"QUEUED", "PROCESSING"}
      <4>1. q.attemptId # None
        BY <1>1, <3>2 DEF OutcomesInv, AcceptedHasAttempt
      <4>2. m.attemptId = q1.attemptId /\ q1.attemptId # None
        BY <1>4, <2>3, <3>2, <4>1 DEF Stale, AttemptEvents, IsStaleAttempt
      <4> QED
        BY <1>1, <1>2, <1>4, <2>3, <3>2, <4>2
    <3> QED
      BY <1>4, <2>3, <3>1, <3>2
  <2> HIDE DEF reported
  <2> QED
    BY <1>1, <1>2, <2>1, <2>2, <2>3
<1> QED
  BY <1>7, <1>8, <1>9, <1>10, <1>11 DEF OutcomesInv

LEMMA OutcomesNext == OutcomesInv /\ [Next]_vars => OutcomesInv'
<1> SUFFICES ASSUME OutcomesInv, [Next]_vars PROVE OutcomesInv'
  OBVIOUS
<1>1. ConsumerInv'
  BY ConsumerNext DEF OutcomesInv
<1>2. CASE UNCHANGED vars
  BY <1>1, <1>2, TablesKept DEF OutcomesInv, RefusedIsPast, HandledWasPublished, vars, tables
<1>3. ASSUME NEW m \in Messages, Publish(m) PROVE OutcomesInv'
  BY <1>3, PublishOutcomes
<1>4. ASSUME NEW h \in Handlers, NEW m \in Messages, Receive(h, m) PROVE OutcomesInv'
  BY <1>4, ReceiveOutcomes
<1>5. ASSUME NEW h \in Handlers, Commit(h) \/ CommitUnanswered(h) PROVE OutcomesInv'
  BY <1>1, <1>5, WriteOutcomes DEF Commit, CommitUnanswered
<1>6. ASSUME NEW h \in Handlers, Step(h) \/ FaultStep(h) PROVE OutcomesInv'
  BY <1>5, <1>6, CheckProcessedOutcomes, LockRequestOutcomes, FindNothingOutcomes,
     DecideOutcomes, MarkProcessedOutcomes, SettleOutcomes, DatabaseErrorOutcomes,
     ConnectionLostOutcomes, CrashOutcomes DEF Step, FaultStep
<1> QED
  BY <1>2, <1>3, <1>4, <1>6 DEF Next, Quiet

LEMMA OutcomesInvariant == Spec => []OutcomesInv
<1> QED
  BY OutcomesInit, OutcomesNext, PTL DEF Spec

-----------------------------------------------------------------------------
(* Theorems *)

\* A transaction commits one step of the lifecycle: nobody else changed the
\* row it read, recorded its event or minted its attempt.
THEOREM CommitsAreAtomic == Spec => []CommitIsAtomic
<1>1. ConsumerInv => CommitIsAtomic
  BY DEF ConsumerInv
<1> QED
  BY <1>1, ConsumerInvariant, PTL

\* A well-formed validation outcome is dead-lettered only if its request can
\* never take it any more: no transient failure parks a message.
THEOREM DeadLettersArePermanent == Spec => []DeadLetterIsPermanent
<1>1. OutcomesInv => DeadLetterIsPermanent
  BY DEF OutcomesInv, RefusedIsPast, Refused, Past, DeadLetterIsPermanent
<1> QED
  BY <1>1, OutcomesInvariant, PTL

\* A copy of an event that was applied is never dead-lettered, wherever the
\* redelivery, the crash or the race happened.
THEOREM DuplicatesAreAbsorbed == Spec => []DuplicateIsAbsorbed
<1>1. OutcomesInv => DuplicateIsAbsorbed
  BY DEF OutcomesInv, RefusedIsPast, Refused, DuplicateIsAbsorbed
<1> QED
  BY <1>1, OutcomesInvariant, PTL

\* The outcome a request stores was reported by an event of its own attempt.
THEOREM OutcomesBelongToAttempts == Spec => []OutcomeBelongsToAttempt
<1>1. OutcomesInv => OutcomeBelongsToAttempt
  BY DEF OutcomesInv
<1> QED
  BY <1>1, OutcomesInvariant, PTL

-----------------------------------------------------------------------------
(* The action properties of the lifecycle *)

LEMMA OnlyCommitsWrite ==
    ASSUME Next, ~ \E h \in Handlers : Commit(h) \/ CommitUnanswered(h)
    PROVE  UNCHANGED tables
  BY DEF Next, Step, FaultStep, Quiet, vars, tables, Publish, Receive, CheckProcessed,
    LockRequest, FindNothing, Decide, MarkProcessed, Ack, DeadLetter, Requeue, Settle,
    DatabaseError, ConnectionLost, Crash

\* What a commit does to a request that has ended, or has an attempt.
LEMMA CommitKeeps ==
    ASSUME OutcomesInv, NEW h \in Handlers, Commit(h) \/ CommitUnanswered(h),
           NEW r \in Requests
    PROVE  /\ IsTerminal(requests[r]) =>
                requests'[r] = requests[r] /\ outbox'[r] = outbox[r]
           /\ requests[r].attemptId # None =>
                requests'[r].attemptId = requests[r].attemptId
<1> DEFINE m == delivery[h]
<1>1. pc[h] = "marked" /\ WriteTables(h)
  BY DEF Commit, CommitUnanswered
<1>2. /\ m \in Messages /\ m.request \in Requests /\ row[h] = requests[m.request]
      /\ row[h] \in Request /\ Decided(h)
  BY <1>1 DEF OutcomesInv, ConsumerInv, CommitIsAtomic, LockedRowIsCurrent, TypeOK,
              InTransaction
<1>3. CASE m.request # r
  BY <1>1, <1>2, <1>3 DEF WriteTables, OutcomesInv, ConsumerInv, TypeOK
<1>4. CASE m.request = r
  <2>1. /\ requests'[r] = after[h]
        /\ outbox'[r] = Recorded(m, row[h], after[h], outbox[r])
    BY <1>1, <1>2, <1>4 DEF WriteTables, OutcomesInv, ConsumerInv, TypeOK
  <2>2. IsTerminal(row[h]) => after[h] = row[h]
    BY <1>2, ResultProgress DEF Decided
  <2>3. m.kind # "VideoAccepted" => after[h].attemptId = row[h].attemptId
    BY <1>2, ResultAttempt DEF Decided
  <2>4. m.kind = "VideoAccepted" => row[h].attemptId = None
    BY <1>2, <1>4 DEF Decided, Stale, AttemptEvents, Permitted, CanAccept, OutcomesInv,
                      AcceptedHasAttempt
  <2> QED
    BY <1>2, <1>4, <2>1, <2>2, <2>3, <2>4 DEF Recorded
<1> QED
  BY <1>3, <1>4

\* Once a request has ended, no event changes it or adds to what the outbox
\* tells of it, however late or contradictory it is.
THEOREM EndedRequestsStay == Spec => Lifecycle!TerminalIsFinal
<1>1. OutcomesInv /\ [Next]_vars =>
        [\A r \in Requests : Lifecycle!IsTerminal(requests[r]) =>
           requests'[r] = requests[r] /\ outbox'[r] = outbox[r]]_(Lifecycle!vars)
  BY OnlyCommitsWrite, CommitKeeps
  DEF Lifecycle!IsTerminal, Lifecycle!TerminalStatuses, IsTerminal, TerminalStatuses,
      Lifecycle!vars, vars, tables
<1> QED
  BY <1>1, OutcomesInvariant, PTL DEF Spec, Lifecycle!TerminalIsFinal

\* A request keeps the attempt its acceptance gave it: a second acceptance, or
\* a redelivery of the first, never starts another one.
THEOREM AttemptsStay == Spec => Lifecycle!AttemptIsFinal
<1>1. OutcomesInv /\ [Next]_vars =>
        [\A r \in Requests : requests[r].attemptId # None =>
           requests'[r].attemptId = requests[r].attemptId]_(Lifecycle!vars)
  BY OnlyCommitsWrite, CommitKeeps DEF Lifecycle!vars, vars, tables
<1> QED
  BY <1>1, OutcomesInvariant, PTL DEF Spec, Lifecycle!AttemptIsFinal
=============================================================================
