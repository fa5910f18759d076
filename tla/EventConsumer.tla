--------------------------- MODULE EventConsumer ---------------------------
(***************************************************************************)
(* Consuming the five events over PostgreSQL and RabbitMQ.                 *)
(*                                                                         *)
(* A handler is one running delivery: the callback of a consumer, the use  *)
(* case it calls and the settlement of the message.  Handlers run on any   *)
(* number of replicas, and on one replica they interleave at every await.  *)
(* The steps of a handler are its database statements:                     *)
(*                                                                         *)
(*   idle -Receive-> received -CheckProcessed-> begin -LockRequest-> locked *)
(*     -Decide-> staged -MarkProcessed-> marked -Commit-> done -Ack-> idle *)
(*                                                                         *)
(* leaving for "refused" (a permanent failure, dead-lettered) or "failed"  *)
(* (anything else, requeued after the backoff).  What a transaction wrote  *)
(* is invisible until Commit and gone if it does not commit.               *)
(***************************************************************************)
EXTENDS CatalogEvents, Naturals

CONSTANTS
    Handlers,   \* concurrent deliveries, over all replicas
    Nobody,     \* not a handler, not a message
    MaxFaults   \* bound: crashes, lost connections and database errors

ASSUME HandlersAssumption ==
    /\ Nobody \notin Handlers \cup Messages
    /\ MaxFaults \in Nat

VARIABLES
    requests, processed, outbox,   \* the committed rows of the three tables
    broker,     \* [Messages -> {"unsent", "ready", "unacked", "acked", "dead"}]
    rowLock,    \* [Requests -> Handlers \cup {Nobody}]: SELECT ... FOR UPDATE
    pc,         \* [Handlers -> PCs]
    delivery,   \* [Handlers -> Messages \cup {Nobody}]: the message handled
    live,       \* [Handlers -> BOOLEAN]: its channel can still settle it
    row,        \* [Handlers -> Request]: the row read under the lock
    after,      \* [Handlers -> Request]: the row the transaction wrote
    faults      \* how many faults happened

tables == <<requests, processed, outbox>>
handler == <<pc, delivery, live, row, after>>
vars == <<requests, processed, outbox, broker, rowLock, pc, delivery, live,
          row, after, faults>>

PCs == {"idle", "received", "begin", "locked", "staged", "marked",
        "done", "refused", "failed"}

\* The steps inside a transaction that holds the row lock of its request.
InTransaction == {"locked", "staged", "marked"}

BrokerStates == {"unsent", "ready", "unacked", "acked", "dead"}

Init ==
    /\ requests = [r \in Requests |-> CreatedRequest]
    /\ processed = {}
    /\ outbox = [r \in Requests |-> <<ValidationRow>>]
    /\ broker = [m \in Messages |-> "unsent"]
    /\ rowLock = [r \in Requests |-> Nobody]
    /\ pc = [h \in Handlers |-> "idle"]
    /\ delivery = [h \in Handlers |-> Nobody]
    /\ live = [h \in Handlers |-> FALSE]
    /\ row = [h \in Handlers |-> CreatedRequest]
    /\ after = [h \in Handlers |-> CreatedRequest]
    /\ faults = 0

-----------------------------------------------------------------------------
(* Producers *)

\* Attempt ids nobody can have seen: not in a request, in a message that was
\* published, or in a transaction that is still open.
FreshAttempts ==
    Attempts \ ({requests[r].attemptId : r \in Requests}
                \cup {m.attemptId : m \in {n \in Messages : broker[n] # "unsent"}}
                \cup {after[h].attemptId : h \in {g \in Handlers : pc[g] \in InTransaction}})

\* A producer publishes an event.  It learns an attempt of this Catalog from
\* its ProcessingQueued event, so only once the acceptance has committed.
Publish(m) ==
    /\ broker[m] = "unsent"
    /\ m.attemptId \in Attempts =>
         \E r \in Requests : requests[r].attemptId = m.attemptId
    /\ broker' = [broker EXCEPT ![m] = "ready"]
    /\ UNCHANGED <<tables, rowLock, handler, faults>>

-----------------------------------------------------------------------------
(* The broker hands over a message.  The consume channel sets no prefetch,  *)
(* so any ready message may be handed to any handler, in any order.         *)

Receive(h, m) ==
    /\ pc[h] = "idle"
    /\ broker[m] = "ready"
    /\ broker' = [broker EXCEPT ![m] = "unacked"]
    /\ pc' = [pc EXCEPT ![h] = "received"]
    /\ delivery' = [delivery EXCEPT ![h] = m]
    /\ live' = [live EXCEPT ![h] = TRUE]
    /\ UNCHANGED <<tables, rowLock, row, after, faults>>

-----------------------------------------------------------------------------
(* The use case *)

Goto(h, label) == pc' = [pc EXCEPT ![h] = label]

\* Leaving a transaction, by commit or rollback, frees the row.
Unlock(h) == rowLock' = [r \in Requests |->
                           IF rowLock[r] = h THEN Nobody ELSE rowLock[r]]

\* The payload is parsed and validated, then the event is looked up outside
\* any transaction: one already recorded is answered from the stored request.
CheckProcessed(h) ==
    /\ pc[h] = "received"
    /\ \/ /\ ~ WellFormed(delivery[h])
          /\ Goto(h, "refused")
       \/ /\ WellFormed(delivery[h])
          /\ Goto(h, IF delivery[h].eventId \in processed THEN "done" ELSE "begin")
    /\ UNCHANGED <<tables, broker, rowLock, delivery, live, row, after, faults>>

\* Mutant: SELECT without FOR UPDATE.
RowFree_PlainSelect(r) == TRUE

RowFree(r) == rowLock[r] = Nobody

\* findForUpdate: waits until no other transaction holds the row, then reads
\* what the last one committed.
LockRequest(h) ==
    LET r == delivery[h].request IN
    /\ pc[h] = "begin"
    /\ r \in Requests
    /\ RowFree(r)
    /\ rowLock' = [rowLock EXCEPT ![r] = h]
    /\ row' = [row EXCEPT ![h] = requests[r]]
    /\ Goto(h, "locked")
    /\ UNCHANGED <<tables, broker, delivery, live, after, faults>>

\* No such row is a domain error; an id that is not a uuid makes the query
\* itself fail, which is not one.
FindNothing(h) ==
    /\ pc[h] = "begin"
    /\ delivery[h].request \notin Requests
    /\ Goto(h, IF delivery[h].request \in MalformedIds THEN "failed" ELSE "refused")
    /\ UNCHANGED <<tables, broker, rowLock, delivery, live, row, after, faults>>

\* Mutant: the check outside the transaction is the only one.
RecordedUnderLock_NotChecked(m) == FALSE

RecordedUnderLock(m) == m.eventId \in processed

\* Under the lock the event is looked up again, then the domain decides.  A
\* refusal rolls back.  A row the transaction wrote stays in "after".
Decide(h) ==
    LET m == delivery[h] IN
    /\ pc[h] = "locked"
    /\ \/ /\ RecordedUnderLock(m)
          /\ Goto(h, "done")
          /\ Unlock(h)
          /\ UNCHANGED after
       \/ /\ ~ RecordedUnderLock(m)
          /\ ~ Stale(m, row[h]) /\ ~ Permitted(m, row[h])
          /\ Goto(h, "refused")
          /\ Unlock(h)
          /\ UNCHANGED after
       \/ /\ ~ RecordedUnderLock(m)
          /\ Stale(m, row[h]) \/ Permitted(m, row[h])
          /\ Goto(h, "staged")
          /\ IF m.kind = "VideoAccepted"
             THEN \E a \in FreshAttempts :
                    after' = [after EXCEPT ![h] = Result(m, row[h], a)]
             ELSE after' = [after EXCEPT ![h] = Result(m, row[h], None)]
          /\ UNCHANGED rowLock
    /\ UNCHANGED <<tables, broker, delivery, live, row, faults>>

\* Mutant: the insert ignores a key that is already there.
KeyTaken_Ignored(m) == FALSE

KeyTaken(m) == m.eventId \in processed

\* The event's row in processed_event: its key is unique, so the insert waits
\* for a transaction that inserted the same key and fails if that committed.
\* Only one eventId used for two requests can meet this.
MarkProcessed(h) ==
    /\ pc[h] = "staged"
    /\ \A g \in Handlers : pc[g] = "marked"
                             => delivery[g].eventId # delivery[h].eventId
    /\ \/ /\ ~ KeyTaken(delivery[h])
          /\ Goto(h, "marked")
          /\ UNCHANGED rowLock
       \/ /\ KeyTaken(delivery[h])
          /\ Goto(h, "failed")
          /\ Unlock(h)
    /\ UNCHANGED <<tables, broker, delivery, live, row, after, faults>>

\* The request, its outbox rows and the event's record become visible at once.
WriteTables(h) ==
    LET m == delivery[h]
        r == m.request IN
    /\ requests' = [requests EXCEPT ![r] = after[h]]
    /\ processed' = processed \cup {m.eventId}
    /\ outbox' = [outbox EXCEPT ![r] = Recorded(m, row[h], after[h], outbox[r])]

Commit(h) ==
    /\ pc[h] = "marked"
    /\ WriteTables(h)
    /\ Unlock(h)
    /\ Goto(h, "done")
    /\ UNCHANGED <<broker, delivery, live, row, after, faults>>

-----------------------------------------------------------------------------
(* settleMessage.  A delivery whose channel is gone settles nothing.        *)

Settle(h, outcome) ==
    /\ broker' = IF live[h] THEN [broker EXCEPT ![delivery[h]] = outcome] ELSE broker
    /\ Goto(h, "idle")
    /\ delivery' = [delivery EXCEPT ![h] = Nobody]
    /\ live' = [live EXCEPT ![h] = FALSE]
    /\ row' = [row EXCEPT ![h] = CreatedRequest]
    /\ after' = [after EXCEPT ![h] = CreatedRequest]
    /\ UNCHANGED <<tables, rowLock, faults>>

Ack(h) == pc[h] = "done" /\ Settle(h, "acked")

\* nack without requeue: the broker's policy routes it to <queue>.dlq.
DeadLetter(h) == pc[h] = "refused" /\ Settle(h, "dead")

\* Mutant: a transient failure is dead-lettered like a permanent one.
Requeue_DeadLetters(h) == pc[h] = "failed" /\ Settle(h, "dead")

\* Mutant: a failed message is acked.
Requeue_Acks(h) == pc[h] = "failed" /\ Settle(h, "acked")

\* Mutant: a failed message is never settled.
Requeue_Forgets(h) == pc[h] = "failed" /\ Settle(h, "unacked")

\* nack with requeue, after the backoff.
Requeue(h) == pc[h] = "failed" /\ Settle(h, "ready")

-----------------------------------------------------------------------------
(* Faults *)

Fault == faults < MaxFaults /\ faults' = faults + 1

\* A statement, or the COMMIT, fails: the transaction rolls back.
DatabaseError(h) ==
    /\ Fault
    /\ pc[h] \in {"received", "begin"} \cup InTransaction
    /\ WellFormed(delivery[h])
    /\ Unlock(h)
    /\ Goto(h, "failed")
    /\ UNCHANGED <<tables, broker, delivery, live, row, after>>

\* The database commits but its answer is lost, so the handler sees an error.
CommitUnanswered(h) ==
    /\ Fault
    /\ pc[h] = "marked"
    /\ WriteTables(h)
    /\ Unlock(h)
    /\ Goto(h, "failed")
    /\ UNCHANGED <<broker, delivery, live, row, after>>

\* The broker connection drops: the message is redelivered while the handler
\* that has it runs on.
ConnectionLost(h) ==
    /\ Fault
    /\ live[h]
    /\ live' = [live EXCEPT ![h] = FALSE]
    /\ broker' = [broker EXCEPT ![delivery[h]] = "ready"]
    /\ UNCHANGED <<tables, rowLock, pc, delivery, row, after>>

\* The process dies: its transaction rolls back, the broker takes the message
\* back.  A crash of several handlers is several crashes in a row.
Crash(h) ==
    /\ Fault
    /\ pc[h] # "idle"
    /\ broker' = IF live[h] THEN [broker EXCEPT ![delivery[h]] = "ready"] ELSE broker
    /\ Unlock(h)
    /\ Goto(h, "idle")
    /\ delivery' = [delivery EXCEPT ![h] = Nobody]
    /\ live' = [live EXCEPT ![h] = FALSE]
    /\ row' = [row EXCEPT ![h] = CreatedRequest]
    /\ after' = [after EXCEPT ![h] = CreatedRequest]
    /\ UNCHANGED tables

-----------------------------------------------------------------------------

Step(h) ==
    \/ CheckProcessed(h) \/ LockRequest(h) \/ FindNothing(h) \/ Decide(h)
    \/ MarkProcessed(h) \/ Commit(h) \/ Ack(h) \/ DeadLetter(h) \/ Requeue(h)

FaultStep(h) ==
    DatabaseError(h) \/ CommitUnanswered(h) \/ ConnectionLost(h) \/ Crash(h)

\* Nothing to do: no message is ready and no handler runs.  Anything else that
\* stops is a deadlock.
Quiet ==
    /\ \A m \in Messages : broker[m] # "ready"
    /\ \A h \in Handlers : pc[h] = "idle"
    /\ UNCHANGED vars

Next ==
    \/ \E m \in Messages : Publish(m)
    \/ \E h \in Handlers, m \in Messages : Receive(h, m)
    \/ \E h \in Handlers : Step(h) \/ FaultStep(h)
    \/ Quiet

Spec == Init /\ [][Next]_vars

\* The event loop and PostgreSQL's lock queue run every handler on, and the
\* broker delivers every ready message while a consumer is attached: there is
\* no prefetch limit that others could use up.
Fairness ==
    /\ \A h \in Handlers : WF_vars(Step(h))
    /\ \A m \in Messages : SF_vars(\E h \in Handlers : Receive(h, m))

FairSpec == Spec /\ Fairness

-----------------------------------------------------------------------------
(* Properties *)

TypeOK ==
    /\ requests \in [Requests -> Request]
    /\ processed \subseteq EventIds
    /\ outbox \in [Requests -> Seq(OutboxRow)]
    /\ broker \in [Messages -> BrokerStates]
    /\ rowLock \in [Requests -> Handlers \cup {Nobody}]
    /\ pc \in [Handlers -> PCs]
    /\ delivery \in [Handlers -> Messages \cup {Nobody}]
    /\ live \in [Handlers -> BOOLEAN]
    /\ row \in [Handlers -> Request]
    /\ after \in [Handlers -> Request]
    /\ faults \in 0..MaxFaults

\* Handling events concurrently, with redeliveries, rollbacks and crashes, is
\* no different from applying each event atomically and at most once.
Lifecycle == INSTANCE RequestLifecycle

ImplementsLifecycle == Lifecycle!Spec

\* The outbox log of a request is exactly what its stored state owes: one
\* terminal event for a terminal request, carrying what is stored, none before.
OutboxTellsTheRequest == Lifecycle!OutboxTellsTheRequest

\* A message is acked only when its event is recorded: no crash, lost
\* connection or database error acks a message whose effect did not commit.
AckedIsRecorded ==
    \A m \in Messages : broker[m] = "acked" => m.eventId \in processed

\* Only messages no retry could apply are dead-lettered: a transient failure
\* never parks a well-formed validation outcome that could still be applied.
DeadLetterIsPermanent ==
    \A m \in Messages :
      /\ broker[m] = "dead"
      /\ WellFormed(m)
      /\ m.kind \in {"VideoAccepted", "VideoRejected"}
      => m.request \notin Requests \/ requests[m.request].status # "RECEIVED"

\* Producers give every event an eventId of its own.
OwnEventId(m) == \A n \in Messages :
                   n.eventId = m.eventId => n = [m EXCEPT !.copy = n.copy]

\* A duplicate of an event that was applied is absorbed: a validation outcome
\* whose event is recorded is never dead-lettered.
DuplicateIsAbsorbed ==
    \A m \in Messages :
      /\ broker[m] = "dead"
      /\ WellFormed(m)
      /\ m.kind \in {"VideoAccepted", "VideoRejected"}
      /\ OwnEventId(m)
      => m.eventId \notin processed

\* Whatever ended a request belongs to its own attempt: a completion or a
\* failure of another attempt is never the outcome that is stored.
OutcomeBelongsToAttempt ==
    \A r \in Requests :
      LET q == requests[r]
          reported(kind) == \E m \in Messages :
            /\ broker[m] # "unsent" /\ m.eventId \in processed
            /\ m.kind = kind /\ m.request = r
            /\ kind # "VideoRejected" => m.attemptId = q.attemptId
            /\ q.status = "COMPLETED" => m.zipStorageKey = q.zipStorageKey
            /\ q.status = "FAILED" => m.failureCode = q.failureCode
      IN  /\ q.status = "COMPLETED" => reported("ProcessingCompleted")
          /\ q.status = "FAILED" =>
               reported(IF q.attemptId = None THEN "VideoRejected" ELSE "ProcessingFailed")

\* Two transactions never hold one request, and whoever holds it works on
\* what is stored.
LockedRowIsCurrent ==
    \A h \in Handlers : pc[h] \in InTransaction =>
      /\ rowLock[delivery[h].request] = h
      /\ row[h] = requests[delivery[h].request]

\* What a transaction that has decided wrote follows from the row it read.
Decided(h) ==
    LET m == delivery[h] IN
    /\ Stale(m, row[h]) \/ Permitted(m, row[h])
    /\ IF m.kind = "VideoAccepted"
       THEN \E a \in Attempts : after[h] = Result(m, row[h], a)
       ELSE after[h] = Result(m, row[h], None)

\* A transaction that minted an attempt nobody else may get.
Minting(h) == pc[h] \in {"staged", "marked"} /\ delivery[h].kind = "VideoAccepted"

\* What makes the commit of a handler one step of the abstract lifecycle: the
\* row it read under its lock is still the stored one, its event is not
\* recorded by anyone else and the attempt it minted is its own.
CommitIsAtomic ==
    /\ \A h \in Handlers :
         /\ pc[h] # "idle" => delivery[h] \in Messages
         /\ live[h] => pc[h] # "idle"
         /\ pc[h] \in InTransaction => delivery[h].request \in Requests
         /\ pc[h] \in {"staged", "marked"} => Decided(h)
         /\ pc[h] = "marked" => delivery[h].eventId \notin processed
         /\ pc[h] = "done" => delivery[h].eventId \in processed
         /\ Minting(h) => \A r \in Requests : requests[r].attemptId # after[h].attemptId
    /\ \A g, h \in Handlers : g # h =>
         /\ pc[g] = "marked" /\ pc[h] = "marked"
              => delivery[g].eventId # delivery[h].eventId
         /\ Minting(g) /\ Minting(h) => after[g].attemptId # after[h].attemptId

\* Every message that reaches a queue is settled: while one is on its way, all
\* that were published end up acked or dead-lettered.
\* Not claimed of one whose processingRequestId is not a uuid, which is
\* requeued for ever (NoRequestIsDeadLettered).
EveryMessageSettles ==
    LET settling == {m \in Messages : m.request \notin MalformedIds} IN
    (\E m \in settling : broker[m] = "ready")
      ~> (\A m \in settling : broker[m] \in {"unsent", "acked", "dead"})

\* Once the outcome of its current attempt has been published, a request ends,
\* whatever the order in which the start, the outcome and the leftovers of
\* other attempts are handled.
AttemptOutcomeEndsRequest ==
    \A m \in Messages :
      m.kind \in {"ProcessingCompleted", "ProcessingFailed"} /\ WellFormed(m)
        /\ m.request \in Requests /\ OwnEventId(m) =>
        (broker[m] = "ready" /\ requests[m.request].attemptId = m.attemptId
           ~> IsTerminal(requests[m.request]))

\* A message that names no request is wrong on every delivery, so it ends in
\* the dead-letter queue.  The code does so only for ids that are uuids.
NoRequestIsDeadLettered ==
    \A m \in Messages : m.request \notin Requests =>
      (broker[m] = "ready" ~> broker[m] = "dead")
=============================================================================
