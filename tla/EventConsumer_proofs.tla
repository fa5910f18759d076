------------------------ MODULE EventConsumer_proofs ------------------------
(***************************************************************************)
(* EventConsumer implements RequestLifecycle, for any number of handlers,  *)
(* messages, requests and faults; what RequestLifecycle promises therefore *)
(* holds of the consumers.                                                 *)
(***************************************************************************)
EXTENDS EventConsumer, TLAPS

USE NoneAssumption, MessagesAssumption, HandlersAssumption

\* The inductive invariant of the consumers.
ConsumerInv == TypeOK /\ LockedRowIsCurrent /\ CommitIsAtomic /\ AckedIsRecorded

-----------------------------------------------------------------------------
(* The decision on a message *)

LEMMA CreatedType == CreatedRequest \in Request
  BY DEF CreatedRequest, Request, Statuses

LEMMA ResultType ==
    ASSUME NEW m \in Messages, NEW q \in Request, NEW a,
           Stale(m, q) \/ Permitted(m, q),
           m.kind = "VideoAccepted" => a \in Attempts
    PROVE  Result(m, q, a) \in Request
<1>1. CASE Stale(m, q)
  BY <1>1 DEF Result
<1>2. CASE ~ Stale(m, q) /\ m.kind = "VideoAccepted"
  BY <1>2 DEF Result, Transition, Accepted, Request, Statuses
<1>3. CASE ~ Stale(m, q) /\ m.kind = "VideoRejected"
  BY <1>3 DEF Result, Transition, Permitted, CanReject, IsFailureCode, Failed, Request, Statuses
<1>4. CASE ~ Stale(m, q) /\ m.kind = "ProcessingStarted"
  BY <1>4 DEF Result, Transition, Started, Request, Statuses
<1>5. CASE ~ Stale(m, q) /\ m.kind = "ProcessingCompleted"
  BY <1>5 DEF Result, Transition, Permitted, CanComplete, Completed, Request, Statuses
<1>6. CASE ~ Stale(m, q) /\ m.kind = "ProcessingFailed"
  BY <1>6 DEF Result, Transition, Permitted, CanFail, IsFailureCode, Failed, Request, Statuses
<1> QED
  BY <1>1, <1>2, <1>3, <1>4, <1>5, <1>6 DEF EventKinds

\* Only an acceptance gives a request an attempt.
LEMMA ResultAttempt ==
    ASSUME NEW m \in Messages, NEW q \in Request, NEW a, m.kind # "VideoAccepted"
    PROVE  Result(m, q, a).attemptId = q.attemptId
  BY DEF Result, Transition, Started, Completed, Failed, Request, EventKinds

LEMMA AcceptedAttempt ==
    ASSUME NEW m \in Messages, NEW q \in Request, NEW a, m.kind = "VideoAccepted"
    PROVE  Result(m, q, a).attemptId = a
  BY DEF Result, Stale, AttemptEvents, Transition, Accepted, Request

-----------------------------------------------------------------------------
(* The invariant *)

\* A step that leaves the tables, and everything of the other handlers, as it
\* was can only disturb what the invariant says of its own handler.
LEMMA LocalStep ==
    ASSUME ConsumerInv, TypeOK', NEW h \in Handlers, UNCHANGED tables,
           \A g \in Handlers \ {h} :
             /\ pc'[g] = pc[g] /\ delivery'[g] = delivery[g] /\ live'[g] = live[g]
             /\ row'[g] = row[g] /\ after'[g] = after[g],
           \A r \in Requests : rowLock[r] \in Handlers \ {h} => rowLock'[r] = rowLock[r],
           \A m \in Messages : broker'[m] = "acked" => broker[m] = "acked"
                                                      \/ m.eventId \in processed,
           pc'[h] # "idle" => delivery'[h] \in Messages,
           live'[h] => pc'[h] # "idle",
           pc'[h] \in InTransaction =>
             /\ delivery'[h].request \in Requests
             /\ rowLock'[delivery'[h].request] = h
             /\ row'[h] = requests[delivery'[h].request],
           pc'[h] \in {"staged", "marked"} => Decided(h)',
           pc'[h] = "marked" => delivery'[h].eventId \notin processed,
           pc'[h] = "done" => delivery'[h].eventId \in processed,
           Minting(h)' => \A r \in Requests : requests[r].attemptId # after'[h].attemptId,
           \A g \in Handlers \ {h} :
             /\ pc[g] = "marked" /\ pc'[h] = "marked"
                  => delivery[g].eventId # delivery'[h].eventId
             /\ Minting(g) /\ Minting(h)' => after[g].attemptId # after'[h].attemptId
    PROVE  ConsumerInv'
<1>1. AckedIsRecorded'
  BY DEF ConsumerInv, AckedIsRecorded, tables
<1>2. ASSUME NEW g \in Handlers, g # h
      PROVE  /\ pc'[g] = pc[g] /\ delivery'[g] = delivery[g] /\ live'[g] = live[g]
             /\ row'[g] = row[g] /\ after'[g] = after[g]
             /\ Minting(g)' <=> Minting(g)
             /\ Decided(g)' <=> Decided(g)
  BY <1>2 DEF Minting, Decided
<1>3. LockedRowIsCurrent'
  <2> SUFFICES ASSUME NEW g \in Handlers, pc'[g] \in InTransaction
               PROVE  /\ rowLock'[delivery'[g].request] = g
                      /\ row'[g] = requests'[delivery'[g].request]
    BY DEF LockedRowIsCurrent
  <2>1. CASE g = h
    BY <2>1 DEF tables
  <2>2. CASE g # h
    BY <1>2, <2>2 DEF ConsumerInv, LockedRowIsCurrent, CommitIsAtomic, tables
  <2> QED
    BY <2>1, <2>2
<1>4. CommitIsAtomic'
  <2>1. ASSUME NEW g \in Handlers
        PROVE  /\ pc'[g] # "idle" => delivery'[g] \in Messages
               /\ live'[g] => pc'[g] # "idle"
               /\ pc'[g] \in InTransaction => delivery'[g].request \in Requests
               /\ pc'[g] \in {"staged", "marked"} => Decided(g)'
               /\ pc'[g] = "marked" => delivery'[g].eventId \notin processed'
               /\ pc'[g] = "done" => delivery'[g].eventId \in processed'
               /\ Minting(g)' =>
                    \A r \in Requests : requests'[r].attemptId # after'[g].attemptId
    <3>1. CASE g = h
      BY <3>1 DEF tables
    <3>2. CASE g # h
      BY <1>2, <3>2 DEF ConsumerInv, CommitIsAtomic, tables
    <3> QED
      BY <3>1, <3>2
  <2>2. ASSUME NEW f \in Handlers, NEW g \in Handlers, f # g
        PROVE  /\ pc'[f] = "marked" /\ pc'[g] = "marked"
                    => delivery'[f].eventId # delivery'[g].eventId
               /\ Minting(f)' /\ Minting(g)' => after'[f].attemptId # after'[g].attemptId
    <3>1. CASE f = h
      BY <1>2, <2>2, <3>1
    <3>2. CASE g = h
      BY <1>2, <2>2, <3>2
    <3>3. CASE f # h /\ g # h
      BY <1>2, <2>2, <3>3 DEF ConsumerInv, CommitIsAtomic
    <3> QED
      BY <3>1, <3>2, <3>3
  <2> QED
    BY <2>1, <2>2 DEF CommitIsAtomic
<1> QED
  BY <1>1, <1>3, <1>4 DEF ConsumerInv

LEMMA ConsumerInit == Init => ConsumerInv
<1> SUFFICES ASSUME Init PROVE ConsumerInv
  OBVIOUS
<1>1. ValidationRow \in OutboxRow
  BY CreatedType DEF ValidationRow, OutboxRow, OutboxPatterns
<1>2. TypeOK
  BY <1>1, CreatedType DEF Init, TypeOK, BrokerStates, PCs
<1>3. LockedRowIsCurrent /\ CommitIsAtomic /\ AckedIsRecorded
  BY DEF Init, LockedRowIsCurrent, CommitIsAtomic, AckedIsRecorded, InTransaction, Minting
<1> QED
  BY <1>2, <1>3 DEF ConsumerInv

LEMMA PublishInv ==
    ASSUME ConsumerInv, NEW m \in Messages, Publish(m) PROVE ConsumerInv'
<1>1. TypeOK'
  BY DEF ConsumerInv, TypeOK, Publish, BrokerStates, tables, handler
<1>2. AckedIsRecorded'
  BY DEF ConsumerInv, TypeOK, AckedIsRecorded, Publish, tables
<1>3. LockedRowIsCurrent' /\ CommitIsAtomic'
  BY DEF ConsumerInv, LockedRowIsCurrent, CommitIsAtomic, Decided, Minting,
         Publish, tables, handler
<1> QED
  BY <1>1, <1>2, <1>3 DEF ConsumerInv

LEMMA ReceiveInv ==
    ASSUME ConsumerInv, NEW h \in Handlers, NEW m \in Messages, Receive(h, m)
    PROVE  ConsumerInv'
<1>1. TypeOK'
  BY DEF ConsumerInv, TypeOK, Receive, BrokerStates, PCs, tables
<1>2. pc'[h] = "received" /\ delivery'[h] = m /\ UNCHANGED <<tables, rowLock>>
  BY DEF ConsumerInv, TypeOK, Receive
<1>3. \A g \in Handlers \ {h} :
        /\ pc'[g] = pc[g] /\ delivery'[g] = delivery[g] /\ live'[g] = live[g]
        /\ row'[g] = row[g] /\ after'[g] = after[g]
  BY DEF ConsumerInv, TypeOK, Receive
<1>4. \A n \in Messages : broker'[n] = "acked" => broker[n] = "acked"
  BY DEF ConsumerInv, TypeOK, Receive
<1>5. ~ Minting(h)'
  BY <1>2 DEF Minting
<1> QED
  BY <1>1, <1>2, <1>3, <1>4, <1>5, LocalStep DEF InTransaction

\* Leaving a transaction frees no row but its own.
LEMMA UnlockOthers ==
    ASSUME TypeOK, NEW h \in Handlers, Unlock(h)
    PROVE  /\ rowLock' \in [Requests -> Handlers \cup {Nobody}]
           /\ \A r \in Requests : rowLock[r] \in Handlers \ {h} => rowLock'[r] = rowLock[r]
  BY DEF TypeOK, Unlock

\* A step that only moves the handler's pc, out of any transaction.
LEMMA LeaveInv ==
    ASSUME ConsumerInv, NEW h \in Handlers, NEW label \in {"begin", "done", "refused", "failed"},
           pc[h] # "idle", Goto(h, label), Unlock(h) \/ UNCHANGED rowLock,
           label = "done" => delivery[h].eventId \in processed,
           UNCHANGED <<tables, broker, delivery, live, row, after>>,
           faults' \in 0..MaxFaults
    PROVE  ConsumerInv'
<1>1. TypeOK'
  BY UnlockOthers DEF ConsumerInv, TypeOK, Goto, PCs, tables
<1>2. /\ pc'[h] = label
      /\ \A g \in Handlers \ {h} : pc'[g] = pc[g]
  BY DEF ConsumerInv, TypeOK, Goto
<1>3. \A r \in Requests : rowLock[r] \in Handlers \ {h} => rowLock'[r] = rowLock[r]
  BY UnlockOthers DEF ConsumerInv
<1>4. delivery[h] \in Messages
  BY DEF ConsumerInv, CommitIsAtomic
<1>5. label \notin InTransaction /\ label \notin {"staged", "marked"} /\ label # "idle"
  BY DEF InTransaction
<1>6. ~ Minting(h)'
  BY <1>2, <1>5 DEF Minting
<1> QED
  BY <1>1, <1>2, <1>3, <1>4, <1>5, <1>6, LocalStep DEF tables

LEMMA CheckProcessedInv ==
    ASSUME ConsumerInv, NEW h \in Handlers, CheckProcessed(h) PROVE ConsumerInv'
<1>1. PICK label \in {"begin", "done", "refused"} :
        Goto(h, label) /\ (label = "done" => delivery[h].eventId \in processed)
  BY DEF CheckProcessed
<1> QED
  BY <1>1, LeaveInv DEF CheckProcessed, ConsumerInv, TypeOK

LEMMA FindNothingInv ==
    ASSUME ConsumerInv, NEW h \in Handlers, FindNothing(h) PROVE ConsumerInv'
  BY LeaveInv DEF FindNothing, ConsumerInv, TypeOK

LEMMA DatabaseErrorInv ==
    ASSUME ConsumerInv, NEW h \in Handlers, DatabaseError(h) PROVE ConsumerInv'
<1>1. faults' \in 0..MaxFaults
  BY DEF DatabaseError, Fault, ConsumerInv, TypeOK
<1>2. pc[h] # "idle"
  BY DEF DatabaseError, InTransaction
<1> QED
  BY <1>1, <1>2, LeaveInv DEF DatabaseError

LEMMA LockRequestInv ==
    ASSUME ConsumerInv, NEW h \in Handlers, LockRequest(h) PROVE ConsumerInv'
<1> DEFINE r == delivery[h].request
<1>1. r \in Requests /\ delivery[h] \in Messages /\ requests[r] \in Request
  BY DEF LockRequest, ConsumerInv, CommitIsAtomic, TypeOK
<1>2. TypeOK'
  BY <1>1 DEF ConsumerInv, TypeOK, LockRequest, Goto, PCs, tables
<1>3. pc'[h] = "locked" /\ row'[h] = requests[r] /\ rowLock'[r] = h
  BY <1>1 DEF ConsumerInv, TypeOK, LockRequest, Goto
<1>4. \A g \in Handlers \ {h} : pc'[g] = pc[g] /\ row'[g] = row[g]
  BY DEF ConsumerInv, TypeOK, LockRequest, Goto
<1>5. \A o \in Requests : rowLock[o] \in Handlers \ {h} => rowLock'[o] = rowLock[o]
  BY <1>1 DEF ConsumerInv, TypeOK, LockRequest, RowFree
<1>6. ~ Minting(h)'
  BY <1>3 DEF Minting
<1> HIDE DEF r
<1>7. UNCHANGED <<tables, broker, delivery, live, after>> /\ delivery'[h].request = r
  BY DEF LockRequest, r
<1> QED
  BY <1>1, <1>2, <1>3, <1>4, <1>5, <1>6, <1>7, LocalStep DEF tables

LEMMA DecideInv ==
    ASSUME ConsumerInv, NEW h \in Handlers, Decide(h) PROVE ConsumerInv'
<1> DEFINE m == delivery[h]
<1>1. /\ pc[h] = "locked" /\ m \in Messages /\ row[h] \in Request
      /\ m.request \in Requests /\ rowLock[m.request] = h /\ row[h] = requests[m.request]
  BY DEF Decide, ConsumerInv, CommitIsAtomic, LockedRowIsCurrent, TypeOK, InTransaction
<1>2. CASE RecordedUnderLock(m) /\ Goto(h, "done") /\ Unlock(h) /\ UNCHANGED after
  BY <1>1, <1>2, LeaveInv DEF Decide, RecordedUnderLock, ConsumerInv, TypeOK
<1>3. CASE Goto(h, "refused") /\ Unlock(h) /\ UNCHANGED after
  BY <1>1, <1>3, LeaveInv DEF Decide, ConsumerInv, TypeOK
<1>4. ASSUME ~ RecordedUnderLock(m), Stale(m, row[h]) \/ Permitted(m, row[h]),
             Goto(h, "staged"), UNCHANGED rowLock,
             NEW a, m.kind = "VideoAccepted" => a \in FreshAttempts,
             m.kind # "VideoAccepted" => a = None,
             after' = [after EXCEPT ![h] = Result(m, row[h], a)]
      PROVE  ConsumerInv'
  <2>1. m.kind = "VideoAccepted" => a \in Attempts
    BY <1>4 DEF FreshAttempts
  <2>2. Result(m, row[h], a) \in Request
    BY <1>1, <1>4, <2>1, ResultType
  <2>3. TypeOK'
    BY <1>4, <2>2 DEF ConsumerInv, TypeOK, Decide, Goto, PCs, tables
  <2>4. /\ pc'[h] = "staged" /\ after'[h] = Result(m, row[h], a)
        /\ \A g \in Handlers \ {h} : pc'[g] = pc[g] /\ after'[g] = after[g]
    BY <1>4 DEF ConsumerInv, TypeOK, Goto
  <2>5. UNCHANGED <<tables, broker, delivery, live, row, faults>>
    BY DEF Decide
  <2>6. Decided(h)'
    BY <1>4, <2>1, <2>4, <2>5 DEF Decided, Stale, Permitted
  <2>7. ASSUME Minting(h)'
        PROVE  /\ \A r \in Requests : requests[r].attemptId # after'[h].attemptId
               /\ \A g \in Handlers \ {h} :
                    Minting(g) => after[g].attemptId # after'[h].attemptId
    <3>1. m.kind = "VideoAccepted"
      BY <2>5, <2>7 DEF Minting
    <3>2. a \in FreshAttempts /\ after'[h].attemptId = a
      BY <1>1, <1>4, <2>4, <3>1, AcceptedAttempt
    <3> QED
      BY <3>2 DEF FreshAttempts, Minting, InTransaction
  <2> QED
    BY <1>1, <1>4, <2>3, <2>4, <2>5, <2>6, <2>7, LocalStep DEF tables, InTransaction
<1>5. CASE /\ ~ RecordedUnderLock(m)
           /\ Stale(m, row[h]) \/ Permitted(m, row[h])
           /\ Goto(h, "staged")
           /\ IF m.kind = "VideoAccepted"
              THEN \E a \in FreshAttempts :
                     after' = [after EXCEPT ![h] = Result(m, row[h], a)]
              ELSE after' = [after EXCEPT ![h] = Result(m, row[h], None)]
           /\ UNCHANGED rowLock
  BY <1>4, <1>5
<1> QED
  BY <1>2, <1>3, <1>5 DEF Decide

LEMMA MarkProcessedInv ==
    ASSUME ConsumerInv, NEW h \in Handlers, MarkProcessed(h) PROVE ConsumerInv'
<1> DEFINE m == delivery[h]
<1>1. /\ pc[h] = "staged" /\ m \in Messages /\ Decided(h)
      /\ m.request \in Requests /\ rowLock[m.request] = h /\ row[h] = requests[m.request]
  BY DEF MarkProcessed, ConsumerInv, CommitIsAtomic, LockedRowIsCurrent, InTransaction
<1>2. CASE Goto(h, "failed") /\ Unlock(h)
  BY <1>1, <1>2, LeaveInv DEF MarkProcessed, ConsumerInv, TypeOK
<1>3. CASE ~ KeyTaken(m) /\ Goto(h, "marked") /\ UNCHANGED rowLock
  <2>1. TypeOK'
    BY <1>3 DEF ConsumerInv, TypeOK, MarkProcessed, Goto, PCs, tables
  <2>2. /\ pc'[h] = "marked" /\ \A g \in Handlers \ {h} : pc'[g] = pc[g]
        /\ UNCHANGED <<tables, broker, delivery, live, row, after>>
    BY <1>3 DEF ConsumerInv, TypeOK, MarkProcessed, Goto
  <2>3. Decided(h)' /\ (Minting(h)' <=> Minting(h))
    BY <1>1, <2>2 DEF Decided, Minting
  <2>4. m.eventId \notin processed
    BY <1>3 DEF KeyTaken
  <2>5. \A g \in Handlers : pc[g] = "marked" => delivery[g].eventId # m.eventId
    BY DEF MarkProcessed
  <2>6. /\ Minting(h) => \A r \in Requests : requests[r].attemptId # after[h].attemptId
        /\ \A g \in Handlers \ {h} :
             Minting(g) /\ Minting(h) => after[g].attemptId # after[h].attemptId
    BY DEF ConsumerInv, CommitIsAtomic
  <2> QED
    BY <1>1, <1>3, <2>1, <2>2, <2>3, <2>4, <2>5, <2>6, LocalStep DEF tables
<1> QED
  BY <1>2, <1>3 DEF MarkProcessed

LEMMA RecordedType ==
    ASSUME NEW m \in Messages, NEW q \in Request, NEW q1 \in Request,
           NEW rows \in Seq(OutboxRow)
    PROVE  Recorded(m, q, q1, rows) \in Seq(OutboxRow)
<1>1. QueuedRow(q1) \in OutboxRow /\ TerminalRow(q1) \in OutboxRow
  BY DEF QueuedRow, TerminalRow, OutboxRow, OutboxPatterns
<1> QED
  BY <1>1 DEF Recorded

\* A commit disturbs no other transaction: they hold other rows, insert other
\* events and minted other attempts.
LEMMA WriteTablesInv ==
    ASSUME ConsumerInv, NEW h \in Handlers, pc[h] = "marked", WriteTables(h), Unlock(h),
           NEW label \in {"done", "failed"}, Goto(h, label),
           UNCHANGED <<broker, delivery, live, row, after>>,
           faults' \in 0..MaxFaults
    PROVE  ConsumerInv'
<1> DEFINE m == delivery[h]
           r == m.request
<1>1. /\ m \in Messages /\ r \in Requests /\ rowLock[r] = h /\ row[h] = requests[r]
      /\ Decided(h) /\ m.eventId \notin processed
      /\ row[h] \in Request /\ after[h] \in Request
  BY DEF ConsumerInv, CommitIsAtomic, LockedRowIsCurrent, TypeOK, InTransaction
<1>2. /\ \A o \in Requests : requests'[o] = IF o = r THEN after[h] ELSE requests[o]
      /\ processed' = processed \cup {m.eventId}
      /\ pc'[h] = label
      /\ \A g \in Handlers \ {h} : pc'[g] = pc[g]
      /\ \A o \in Requests : rowLock[o] \in Handlers \ {h} => rowLock'[o] = rowLock[o]
  BY <1>1, UnlockOthers DEF ConsumerInv, TypeOK, WriteTables, Goto
<1>3. TypeOK'
  <2>1. outbox' \in [Requests -> Seq(OutboxRow)]
    BY <1>1, RecordedType DEF ConsumerInv, TypeOK, WriteTables
  <2>2. requests' \in [Requests -> Request] /\ processed' \subseteq EventIds
    BY <1>1 DEF ConsumerInv, TypeOK, WriteTables, EventIds
  <2> QED
    BY <2>1, <2>2, UnlockOthers DEF ConsumerInv, TypeOK, Goto, PCs
<1>4. AckedIsRecorded'
  BY <1>2 DEF ConsumerInv, AckedIsRecorded
<1>5. ASSUME NEW g \in Handlers, pc'[g] \in InTransaction
      PROVE  /\ g # h /\ delivery[g].request \in Requests /\ delivery[g].request # r
             /\ rowLock[delivery[g].request] = g
  BY <1>1, <1>2, <1>5 DEF ConsumerInv, CommitIsAtomic, LockedRowIsCurrent, InTransaction
<1>6. LockedRowIsCurrent'
  <2> SUFFICES ASSUME NEW g \in Handlers, pc'[g] \in InTransaction
               PROVE  /\ rowLock'[delivery'[g].request] = g
                      /\ row'[g] = requests'[delivery'[g].request]
    BY DEF LockedRowIsCurrent
  <2> QED
    BY <1>2, <1>5 DEF ConsumerInv, LockedRowIsCurrent
<1>7. ASSUME NEW g \in Handlers, Minting(g)'
      PROVE  g # h /\ Minting(g) /\ \A o \in Requests : requests'[o].attemptId # after'[g].attemptId
  <2>1. g # h /\ Minting(g)
    BY <1>2, <1>7 DEF Minting
  <2>2. requests[r].attemptId # after[g].attemptId
    BY <1>1, <2>1 DEF ConsumerInv, CommitIsAtomic
  <2>3. after[h].attemptId # after[g].attemptId
    <3>1. CASE m.kind = "VideoAccepted"
      BY <2>1, <3>1 DEF ConsumerInv, CommitIsAtomic, Minting
    <3>2. CASE m.kind # "VideoAccepted"
      BY <1>1, <2>2, <3>2, ResultAttempt DEF Decided
    <3> QED
      BY <3>1, <3>2
  <2> QED
    BY <1>2, <2>1, <2>3 DEF ConsumerInv, CommitIsAtomic
<1>8. CommitIsAtomic'
  <2>1. ASSUME NEW g \in Handlers
        PROVE  /\ pc'[g] # "idle" => delivery'[g] \in Messages
               /\ live'[g] => pc'[g] # "idle"
               /\ pc'[g] \in InTransaction => delivery'[g].request \in Requests
               /\ pc'[g] \in {"staged", "marked"} => Decided(g)'
               /\ pc'[g] = "marked" => delivery'[g].eventId \notin processed'
               /\ pc'[g] = "done" => delivery'[g].eventId \in processed'
               /\ Minting(g)' =>
                    \A o \in Requests : requests'[o].attemptId # after'[g].attemptId
    <3>1. CASE g = h
      BY <1>1, <1>2, <1>5, <1>7, <3>1 DEF InTransaction
    <3>2. CASE g # h
      <4>1. Decided(g)' <=> Decided(g)
        BY DEF Decided
      <4>2. pc[g] = "marked" => delivery[g].eventId # m.eventId
        BY <3>2 DEF ConsumerInv, CommitIsAtomic
      <4> QED
        BY <1>2, <1>7, <3>2, <4>1, <4>2 DEF ConsumerInv, CommitIsAtomic
    <3> QED
      BY <3>1, <3>2
  <2>2. ASSUME NEW f \in Handlers, NEW g \in Handlers, f # g
        PROVE  /\ pc'[f] = "marked" /\ pc'[g] = "marked"
                    => delivery'[f].eventId # delivery'[g].eventId
               /\ Minting(f)' /\ Minting(g)' => after'[f].attemptId # after'[g].attemptId
    BY <1>2, <1>7, <2>2 DEF ConsumerInv, CommitIsAtomic
  <2> QED
    BY <2>1, <2>2 DEF CommitIsAtomic
<1> QED
  BY <1>3, <1>4, <1>6, <1>8 DEF ConsumerInv

\* The end of a delivery: the handler is idle again.
LEMMA EndInv ==
    ASSUME ConsumerInv, NEW h \in Handlers,
           NEW outcome \in BrokerStates, pc[h] # "idle",
           broker' = IF live[h] THEN [broker EXCEPT ![delivery[h]] = outcome] ELSE broker,
           outcome = "acked" => delivery[h].eventId \in processed,
           Goto(h, "idle"), Unlock(h) \/ UNCHANGED rowLock,
           delivery' = [delivery EXCEPT ![h] = Nobody],
           live' = [live EXCEPT ![h] = FALSE],
           row' = [row EXCEPT ![h] = CreatedRequest],
           after' = [after EXCEPT ![h] = CreatedRequest],
           UNCHANGED tables, faults' \in 0..MaxFaults
    PROVE  ConsumerInv'
<1>1. delivery[h] \in Messages
  BY DEF ConsumerInv, CommitIsAtomic
<1>2. TypeOK'
  BY <1>1, CreatedType, UnlockOthers DEF ConsumerInv, TypeOK, Goto, PCs, tables
<1>3. /\ pc'[h] = "idle" /\ ~ live'[h]
      /\ \A g \in Handlers \ {h} :
           /\ pc'[g] = pc[g] /\ delivery'[g] = delivery[g] /\ live'[g] = live[g]
           /\ row'[g] = row[g] /\ after'[g] = after[g]
  BY DEF ConsumerInv, TypeOK, Goto
<1>4. \A r \in Requests : rowLock[r] \in Handlers \ {h} => rowLock'[r] = rowLock[r]
  BY UnlockOthers DEF ConsumerInv
<1>5. \A m \in Messages : broker'[m] = "acked" => broker[m] = "acked"
                                                   \/ m.eventId \in processed
  BY <1>1 DEF ConsumerInv, TypeOK
<1>6. ~ Minting(h)'
  BY <1>3 DEF Minting
<1> QED
  BY <1>2, <1>3, <1>4, <1>5, <1>6, LocalStep DEF InTransaction

LEMMA AckInv ==
    ASSUME ConsumerInv, NEW h \in Handlers, Ack(h) PROVE ConsumerInv'
<1>1. delivery[h].eventId \in processed
  BY DEF Ack, ConsumerInv, CommitIsAtomic
<1> QED
  BY <1>1, EndInv DEF Ack, Settle, BrokerStates, ConsumerInv, TypeOK

LEMMA DeadLetterInv ==
    ASSUME ConsumerInv, NEW h \in Handlers, DeadLetter(h) PROVE ConsumerInv'
  BY EndInv DEF DeadLetter, Settle, BrokerStates, ConsumerInv, TypeOK

LEMMA RequeueInv ==
    ASSUME ConsumerInv, NEW h \in Handlers, Requeue(h) PROVE ConsumerInv'
  BY EndInv DEF Requeue, Settle, BrokerStates, ConsumerInv, TypeOK

LEMMA CrashInv ==
    ASSUME ConsumerInv, NEW h \in Handlers, Crash(h) PROVE ConsumerInv'
<1>1. faults' \in 0..MaxFaults
  BY DEF Crash, Fault, ConsumerInv, TypeOK
<1> QED
  BY <1>1, EndInv DEF Crash, BrokerStates

LEMMA ConnectionLostInv ==
    ASSUME ConsumerInv, NEW h \in Handlers, ConnectionLost(h) PROVE ConsumerInv'
<1>1. delivery[h] \in Messages
  BY DEF ConnectionLost, ConsumerInv, CommitIsAtomic
<1>2. TypeOK'
  BY <1>1 DEF ConnectionLost, Fault, ConsumerInv, TypeOK, BrokerStates, tables
<1>3. AckedIsRecorded'
  BY DEF ConnectionLost, ConsumerInv, TypeOK, AckedIsRecorded, tables
<1>4. \A g \in Handlers : live'[g] => live[g]
  BY DEF ConnectionLost, ConsumerInv, TypeOK
<1>5. LockedRowIsCurrent' /\ CommitIsAtomic'
  BY <1>4 DEF ConnectionLost, ConsumerInv, LockedRowIsCurrent, CommitIsAtomic,
              Decided, Minting, tables
<1> QED
  BY <1>2, <1>3, <1>5 DEF ConsumerInv

LEMMA ConsumerNext == ConsumerInv /\ [Next]_vars => ConsumerInv'
<1> SUFFICES ASSUME ConsumerInv, [Next]_vars PROVE ConsumerInv'
  OBVIOUS
<1>1. CASE UNCHANGED vars
  BY <1>1 DEF ConsumerInv, TypeOK, LockedRowIsCurrent, CommitIsAtomic, AckedIsRecorded,
              Decided, Minting, vars
<1>2. ASSUME NEW m \in Messages, Publish(m) PROVE ConsumerInv'
  BY <1>2, PublishInv
<1>3. ASSUME NEW h \in Handlers, NEW m \in Messages, Receive(h, m) PROVE ConsumerInv'
  BY <1>3, ReceiveInv
<1>4. ASSUME NEW h \in Handlers, Step(h) PROVE ConsumerInv'
  <2>1. CASE Commit(h)
    BY <2>1, WriteTablesInv DEF Commit, ConsumerInv, TypeOK
  <2> QED
    BY <1>4, <2>1, CheckProcessedInv, LockRequestInv, FindNothingInv, DecideInv,
       MarkProcessedInv, AckInv, DeadLetterInv, RequeueInv DEF Step
<1>5. ASSUME NEW h \in Handlers, FaultStep(h) PROVE ConsumerInv'
  <2>1. CASE CommitUnanswered(h)
    <3>1. faults' \in 0..MaxFaults
      BY <2>1 DEF CommitUnanswered, Fault, ConsumerInv, TypeOK
    <3> QED
      BY <2>1, <3>1, WriteTablesInv DEF CommitUnanswered
  <2> QED
    BY <1>5, <2>1, DatabaseErrorInv, ConnectionLostInv, CrashInv DEF FaultStep
<1> QED
  BY <1>1, <1>2, <1>3, <1>4, <1>5 DEF Next, Quiet

\* The invariant holds in every reachable state.
THEOREM ConsumerInvariant == Spec => []ConsumerInv
<1> QED
  BY ConsumerInit, ConsumerNext, PTL DEF Spec

\* Type correctness of the consumers.
THEOREM ConsumerTypeCorrect == Spec => []TypeOK
<1>1. ConsumerInv => TypeOK
  BY DEF ConsumerInv
<1> QED
  BY <1>1, ConsumerInvariant, PTL

\* No message is acked unless its event has been recorded.
THEOREM AckedMessagesAreRecorded == Spec => []AckedIsRecorded
<1>1. ConsumerInv => AckedIsRecorded
  BY DEF ConsumerInv
<1> QED
  BY <1>1, ConsumerInvariant, PTL

\* A transaction owns its request and works on the row that is stored.
THEOREM TransactionsOwnTheirRow == Spec => []LockedRowIsCurrent
<1>1. ConsumerInv => LockedRowIsCurrent
  BY DEF ConsumerInv
<1> QED
  BY <1>1, ConsumerInvariant, PTL

-----------------------------------------------------------------------------
(* Refinement: a commit is one step of the abstract lifecycle, every other  *)
(* step of the consumers is invisible there.                                *)

LEMMA CommitIsLifecycleStep ==
    ASSUME ConsumerInv, NEW h \in Handlers, pc[h] = "marked", WriteTables(h)
    PROVE  Lifecycle!Next
<1> DEFINE m == delivery[h]
           r == m.request
           q == row[h]
           q1 == after[h]
<1>1. /\ m \in Messages /\ m.eventId \in EventIds /\ m.eventId \notin processed
      /\ r \in Requests /\ q = requests[r] /\ q \in Request /\ Decided(h)
  BY DEF ConsumerInv, CommitIsAtomic, LockedRowIsCurrent, TypeOK, InTransaction, EventIds
<1>2. /\ requests' = [requests EXCEPT ![r] = q1]
      /\ outbox' = [outbox EXCEPT ![r] = Recorded(m, q, q1, outbox[r])]
  BY DEF WriteTables
<1>3. Lifecycle!Record(m.eventId) /\ m.eventId \in Lifecycle!EventIds
  BY <1>1 DEF WriteTables, Lifecycle!Record, Lifecycle!EventIds, EventIds
<1>4. CASE q1 = q
  <2>1. Recorded(m, q, q1, outbox[r]) = outbox[r]
    BY <1>4 DEF Recorded
  <2>2. UNCHANGED <<requests, outbox>>
    BY <1>1, <1>2, <1>4, <2>1 DEF ConsumerInv, TypeOK
  <2> QED
    BY <1>3, <2>2 DEF Lifecycle!Next, Lifecycle!Ignore
<1>5. CASE q1 # q /\ m.kind = "VideoAccepted"
  <2>1. ~ Stale(m, q)
    BY <1>5 DEF Stale, AttemptEvents
  <2>2. q.status = "RECEIVED"
    BY <1>1, <1>5, <2>1 DEF Decided, Permitted, CanAccept
  <2>3. PICK a \in Attempts : q1 = [q EXCEPT !.status = "QUEUED", !.attemptId = a]
    BY <1>1, <1>5, <2>1 DEF Decided, Result, Transition, Accepted
  <2>4. q1.attemptId = a
    BY <1>1, <2>3 DEF Request
  <2>5. \A o \in Requests : requests[o].attemptId # a
    BY <1>5, <2>4 DEF ConsumerInv, CommitIsAtomic, Minting
  <2>6. outbox' = [outbox EXCEPT ![r] = Append(outbox[r], Lifecycle!QueuedRow(q1))]
    BY <1>2, <1>5 DEF Recorded, QueuedRow, Lifecycle!QueuedRow
  <2>7. Lifecycle!Move(r, [requests[r] EXCEPT !.status = "QUEUED", !.attemptId = a],
          Append(outbox[r], Lifecycle!QueuedRow([requests[r] EXCEPT !.status = "QUEUED",
                                                                   !.attemptId = a])))
    BY <1>1, <1>2, <2>3, <2>6 DEF Lifecycle!Move
  <2>8. a \in Attempts \ {requests[o].attemptId : o \in Requests}
    BY <2>5
  <2>9. Lifecycle!Accept(r)
    BY <1>1, <2>2, <2>7, <2>8, Zenon DEF Lifecycle!Accept, Lifecycle!Status
  <2> QED
    BY <1>1, <1>3, <2>9 DEF Lifecycle!Next
<1>6. CASE q1 # q /\ m.kind \in {"VideoRejected", "ProcessingFailed"}
  <2>1. ~ Stale(m, q)
    BY <1>1, <1>6 DEF Decided, Result
  <2>2. /\ q.status \in {"RECEIVED", "QUEUED", "PROCESSING"}
        /\ m.failureCode \in FailureCodes
    BY <1>1, <1>6, <2>1
       DEF Decided, Permitted, CanReject, CanFail, IsFailureCode, FailableStatuses
  <2>3. q1 = [q EXCEPT !.status = "FAILED", !.failureCode = m.failureCode]
    BY <1>1, <1>6, <2>1 DEF Decided, Result, Transition, Failed
  <2>4. outbox' = [outbox EXCEPT ![r] = Append(outbox[r], Lifecycle!TerminalRow(q1))]
    BY <1>2, <1>6 DEF Recorded, TerminalRow, Lifecycle!TerminalRow
  <2>5. Lifecycle!Move(r,
          [requests[r] EXCEPT !.status = "FAILED", !.failureCode = m.failureCode],
          Append(outbox[r], Lifecycle!TerminalRow(
            [requests[r] EXCEPT !.status = "FAILED", !.failureCode = m.failureCode])))
    BY <1>1, <1>2, <2>3, <2>4 DEF Lifecycle!Move
  <2>6. m.failureCode \in Lifecycle!FailureCodes
    BY <2>2 DEF Lifecycle!FailureCodes, FailureCodes
  <2>7. Lifecycle!Fail(r)
    BY <1>1, <2>2, <2>5, <2>6, Zenon DEF Lifecycle!Fail, Lifecycle!Status
  <2> QED
    BY <1>1, <1>3, <2>7 DEF Lifecycle!Next
<1>7. CASE q1 # q /\ m.kind = "ProcessingStarted"
  <2>1. ~ Stale(m, q)
    BY <1>1, <1>7 DEF Decided, Result
  <2>2. q.status = "QUEUED" /\ q1 = [q EXCEPT !.status = "PROCESSING"]
    BY <1>1, <1>7, <2>1 DEF Decided, Result, Transition, Started
  <2>3. outbox' = outbox
    BY <1>1, <1>2, <1>7 DEF Recorded, ConsumerInv, TypeOK
  <2>4. Lifecycle!Start(r)
    BY <1>1, <1>2, <2>2, <2>3
       DEF Lifecycle!Start, Lifecycle!Move, Lifecycle!Status, ConsumerInv, TypeOK
  <2> QED
    BY <1>1, <1>3, <2>4 DEF Lifecycle!Next
<1>8. CASE q1 # q /\ m.kind = "ProcessingCompleted"
  <2>1. ~ Stale(m, q)
    BY <1>1, <1>8 DEF Decided, Result
  <2>2. q1 = Completed(q, m.zipStorageKey) /\ CanComplete(q, m.zipStorageKey)
    BY <1>1, <1>8, <2>1 DEF Decided, Result, Transition, Permitted
  <2>3. /\ q.status \in {"QUEUED", "PROCESSING"} /\ m.zipStorageKey \in Zips
        /\ q1 = [q EXCEPT !.status = "COMPLETED", !.zipStorageKey = m.zipStorageKey]
    BY <1>8, <2>2 DEF Completed, CanComplete, CompletableStatuses
  <2>4. outbox' = [outbox EXCEPT ![r] = Append(outbox[r], Lifecycle!TerminalRow(q1))]
    BY <1>2, <1>8 DEF Recorded, TerminalRow, Lifecycle!TerminalRow
  <2>5. Lifecycle!Move(r,
          [requests[r] EXCEPT !.status = "COMPLETED", !.zipStorageKey = m.zipStorageKey],
          Append(outbox[r], Lifecycle!TerminalRow(
            [requests[r] EXCEPT !.status = "COMPLETED", !.zipStorageKey = m.zipStorageKey])))
    BY <1>1, <1>2, <2>3, <2>4 DEF Lifecycle!Move
  <2>6. Lifecycle!Complete(r)
    BY <1>1, <2>3, <2>5, Zenon DEF Lifecycle!Complete, Lifecycle!Status
  <2> QED
    BY <1>1, <1>3, <2>6 DEF Lifecycle!Next
<1> QED
  BY <1>1, <1>4, <1>5, <1>6, <1>7, <1>8 DEF EventKinds

LEMMA StepSimulation == ConsumerInv /\ [Next]_vars => [Lifecycle!Next]_(Lifecycle!vars)
<1> SUFFICES ASSUME ConsumerInv, [Next]_vars
             PROVE  Lifecycle!Next \/ UNCHANGED tables
  BY DEF Lifecycle!vars, tables
<1>1. CASE UNCHANGED vars
  BY <1>1 DEF vars, tables
<1>2. ASSUME NEW h \in Handlers, Commit(h) \/ CommitUnanswered(h)
      PROVE  Lifecycle!Next
  BY <1>2, CommitIsLifecycleStep DEF Commit, CommitUnanswered
<1>3. CASE (\E m \in Messages : Publish(m)) \/ (\E h \in Handlers, m \in Messages : Receive(h, m))
  BY <1>3 DEF Publish, Receive
<1>4. ASSUME NEW h \in Handlers,
             \/ CheckProcessed(h) \/ LockRequest(h) \/ FindNothing(h) \/ Decide(h)
             \/ MarkProcessed(h) \/ Ack(h) \/ DeadLetter(h) \/ Requeue(h)
             \/ DatabaseError(h) \/ ConnectionLost(h) \/ Crash(h)
      PROVE  UNCHANGED tables
  BY <1>4 DEF CheckProcessed, LockRequest, FindNothing, Decide, MarkProcessed, Ack,
              DeadLetter, Requeue, Settle, DatabaseError, ConnectionLost, Crash
<1> QED
  BY <1>1, <1>2, <1>3, <1>4 DEF Next, Step, FaultStep, Quiet

LEMMA InitSimulation == Init => Lifecycle!Init
  BY DEF Init, Lifecycle!Init, CreatedRequest, Lifecycle!CreatedRequest,
         ValidationRow, Lifecycle!ValidationRow

\* Concurrent, redelivered, rolled back and crashing handlers implement the
\* lifecycle in which every event is applied atomically and at most once.
THEOREM ConsumersImplementLifecycle == Spec => ImplementsLifecycle
<1> QED
  BY InitSimulation, StepSimulation, ConsumerInvariant, PTL
     DEF Spec, ImplementsLifecycle, Lifecycle!Spec

-----------------------------------------------------------------------------
(* What the lifecycle promises *)

Promised == INSTANCE RequestLifecycle_proofs

\* The outbox log of each request is the history of its stored state, however
\* the events were delivered.
THEOREM OutboxTellsTheRequestAlways == Spec => []OutboxTellsTheRequest
<1>1. Lifecycle!Init => Promised!Init
  BY Zenon DEF Lifecycle!Init, Lifecycle!CreatedRequest, Lifecycle!ValidationRow,
               Promised!Init, Promised!CreatedRequest, Promised!ValidationRow
<1>2. [Lifecycle!Next]_(Lifecycle!vars) => [Promised!Next]_(Promised!vars)
  BY Zenon
  DEF Lifecycle!vars, Lifecycle!Next, Lifecycle!Record, Lifecycle!Ignore,
      Lifecycle!Accept, Lifecycle!Start, Lifecycle!Complete, Lifecycle!Fail,
      Lifecycle!Status, Lifecycle!Move, Lifecycle!QueuedRow, Lifecycle!TerminalRow,
      Lifecycle!FailureCodes, Lifecycle!EventIds,
      Promised!vars, Promised!Next, Promised!Record, Promised!Ignore,
      Promised!Accept, Promised!Start, Promised!Complete, Promised!Fail,
      Promised!Status, Promised!Move, Promised!QueuedRow, Promised!TerminalRow,
      Promised!FailureCodes, Promised!EventIds
<1>3. Promised!Init => Promised!LifecycleInv
  BY Promised!InitInv, NoneAssumption, MessagesAssumption
  DEF EventKinds, Promised!EventKinds
<1>4. Promised!LifecycleInv /\ [Promised!Next]_(Promised!vars)
        => Promised!LifecycleInv'
  BY Promised!NextInv, NoneAssumption, MessagesAssumption
  DEF EventKinds, Promised!EventKinds
<1>5. Promised!LifecycleInv => OutboxTellsTheRequest
  BY Zenon
  DEF OutboxTellsTheRequest, Lifecycle!OutboxTellsTheRequest, Lifecycle!History,
      Lifecycle!CreatedRequest, Lifecycle!ValidationRow, Lifecycle!QueuedRow,
      Lifecycle!TerminalRow, Lifecycle!IsTerminal, Lifecycle!TerminalStatuses,
      Promised!LifecycleInv, Promised!OutboxTellsTheRequest, Promised!History,
      Promised!CreatedRequest, Promised!ValidationRow, Promised!QueuedRow,
      Promised!TerminalRow, Promised!IsTerminal, Promised!TerminalStatuses
<1> QED
  BY <1>1, <1>2, <1>3, <1>4, <1>5, ConsumersImplementLifecycle, PTL
  DEF ImplementsLifecycle, Lifecycle!Spec
=============================================================================
