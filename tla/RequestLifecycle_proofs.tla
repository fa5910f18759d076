----------------------- MODULE RequestLifecycle_proofs -----------------------
(***************************************************************************)
(* The promises of RequestLifecycle, proved for any requests, attempts,    *)
(* archives and messages.                                                  *)
(***************************************************************************)
EXTENDS RequestLifecycle, SequenceTheorems, TLAPS

USE NoneAssumption

\* The inductive invariant.  OutboxTellsTheRequest is not inductive alone: that
\* an acceptance appends to a log of one row needs StatusExplained.
LifecycleInv ==
    TypeOK /\ StatusExplained /\ AttemptsDistinct /\ OutboxTellsTheRequest

LEMMA AppendToOne == ASSUME NEW x, NEW y PROVE Append(<<x>>, y) = <<x, y>>
<1>1. <<x>> \in Seq({x, y}) /\ y \in {x, y} /\ <<x, y>> \in Seq({x, y})
  OBVIOUS
<1>2. /\ Append(<<x>>, y) \in Seq({x, y})
      /\ Len(Append(<<x>>, y)) = 2
      /\ \A i \in 1..2 : Append(<<x>>, y)[i] = <<x, y>>[i]
  BY <1>1
<1> QED
  BY <1>1, <1>2, SeqEqual

LEMMA AppendToTwo ==
    ASSUME NEW x, NEW y, NEW z PROVE Append(<<x, y>>, z) = <<x, y, z>>
<1>1. /\ <<x, y>> \in Seq({x, y, z}) /\ z \in {x, y, z}
      /\ <<x, y, z>> \in Seq({x, y, z})
  OBVIOUS
<1>2. /\ Append(<<x, y>>, z) \in Seq({x, y, z})
      /\ Len(Append(<<x, y>>, z)) = 3
      /\ \A i \in 1..3 : Append(<<x, y>>, z)[i] = <<x, y, z>>[i]
  BY <1>1
<1> QED
  BY <1>1, <1>2, SeqEqual

\* A move of one request keeps the invariant when the new request is well
\* explained, its attempt is its own and its log is its history.
LEMMA MoveKeepsInv ==
    ASSUME LifecycleInv,
           NEW r \in Requests, NEW q \in Request, NEW rows \in Seq(OutboxRow),
           Move(r, q, rows),
           processed' \subseteq EventIds,
           q.status = "RECEIVED" => q.attemptId = None,
           q.status \in {"QUEUED", "PROCESSING", "COMPLETED"} => q.attemptId # None,
           q.status = "COMPLETED" <=> q.zipStorageKey # None,
           q.status = "FAILED" <=> q.failureCode # None,
           q.attemptId # None =>
             \A o \in Requests \ {r} : requests[o].attemptId # q.attemptId,
           rows = History(q)
    PROVE  LifecycleInv'
<1>1. TypeOK'
  BY DEF LifecycleInv, TypeOK, Move
<1>2. \A o \in Requests : /\ requests'[o] = IF o = r THEN q ELSE requests[o]
                          /\ outbox'[o] = IF o = r THEN rows ELSE outbox[o]
  BY DEF LifecycleInv, TypeOK, Move
<1>3. StatusExplained'
  BY <1>2 DEF LifecycleInv, StatusExplained
<1>4. AttemptsDistinct'
  BY <1>2 DEF LifecycleInv, AttemptsDistinct
<1>5. OutboxTellsTheRequest'
  BY <1>2 DEF LifecycleInv, OutboxTellsTheRequest
<1> QED
  BY <1>1, <1>3, <1>4, <1>5 DEF LifecycleInv

LEMMA InitInv == Init => LifecycleInv
<1> SUFFICES ASSUME Init PROVE LifecycleInv
  OBVIOUS
<1>1. CreatedRequest \in Request
  BY DEF CreatedRequest, Request, Statuses
<1>2. ValidationRow \in OutboxRow
  BY <1>1 DEF ValidationRow, OutboxRow, OutboxPatterns
<1>3. TypeOK
  BY <1>1, <1>2 DEF Init, TypeOK
<1>4. StatusExplained /\ AttemptsDistinct
  BY DEF Init, StatusExplained, AttemptsDistinct, CreatedRequest
<1>5. OutboxTellsTheRequest
  BY DEF Init, OutboxTellsTheRequest, History, CreatedRequest, IsTerminal, TerminalStatuses
<1> QED
  BY <1>3, <1>4, <1>5 DEF LifecycleInv

LEMMA NextInv == LifecycleInv /\ [Next]_vars => LifecycleInv'
<1> SUFFICES ASSUME LifecycleInv, [Next]_vars PROVE LifecycleInv'
  OBVIOUS
<1>1. CASE UNCHANGED vars
  BY <1>1 DEF vars, LifecycleInv, TypeOK, StatusExplained, AttemptsDistinct,
              OutboxTellsTheRequest
<1>2. ASSUME NEW e \in EventIds, Record(e), Ignore PROVE LifecycleInv'
  BY <1>2 DEF Record, Ignore, LifecycleInv, TypeOK, StatusExplained,
              AttemptsDistinct, OutboxTellsTheRequest
<1>3. ASSUME NEW e \in EventIds, Record(e), NEW r \in Requests,
             Accept(r) \/ Start(r) \/ Complete(r) \/ Fail(r)
      PROVE  LifecycleInv'
  <2> DEFINE old == requests[r]
             Queued == QueuedRow([CreatedRequest EXCEPT !.status = "QUEUED",
                                                        !.attemptId = old.attemptId])
  <2>1. /\ old \in Request /\ outbox[r] = History(old) /\ processed' \subseteq EventIds
        /\ old.status = "RECEIVED" => old.attemptId = None
        /\ old.status \in {"QUEUED", "PROCESSING", "COMPLETED"} => old.attemptId # None
        /\ old.status = "COMPLETED" <=> old.zipStorageKey # None
        /\ old.status = "FAILED" <=> old.failureCode # None
    BY <1>3 DEF Record, LifecycleInv, TypeOK, StatusExplained, OutboxTellsTheRequest
  <2>2. outbox[r] \in Seq(OutboxRow)
    BY DEF LifecycleInv, TypeOK
  <2>3. old.attemptId # None =>
          \A o \in Requests \ {r} : requests[o].attemptId # old.attemptId
    BY DEF LifecycleInv, AttemptsDistinct
  <2>4. CASE Accept(r)
    <3>1. PICK a \in Attempts \ {requests[o].attemptId : o \in Requests} :
            LET q == [old EXCEPT !.status = "QUEUED", !.attemptId = a]
            IN  Move(r, q, Append(outbox[r], QueuedRow(q)))
      BY <2>4 DEF Accept
    <3> DEFINE q == [old EXCEPT !.status = "QUEUED", !.attemptId = a]
    <3>2. Status(r) = "RECEIVED"
      BY <2>4 DEF Accept
    <3>3. q \in Request /\ q.attemptId = a /\ a # None /\ q.status = "QUEUED"
          /\ q.zipStorageKey = None /\ q.failureCode = None
      BY <2>1, <3>2 DEF Request, Statuses, Status
    <3>4. q = [CreatedRequest EXCEPT !.status = "QUEUED", !.attemptId = q.attemptId]
      BY <2>1, <3>2 DEF Request, CreatedRequest, Status
    <3>5. outbox[r] = <<ValidationRow>>
      BY <2>1, <3>2 DEF History, IsTerminal, TerminalStatuses, Status
    <3>6. Append(outbox[r], QueuedRow(q)) = History(q)
      <4> HIDE DEF q
      <4>1. History(q) = <<ValidationRow, QueuedRow(q)>>
        BY <3>3, <3>4 DEF History, IsTerminal, TerminalStatuses
      <4> QED
        BY <3>5, <4>1, AppendToOne
    <3>7. Append(outbox[r], QueuedRow(q)) \in Seq(OutboxRow)
      BY <2>2, <3>3 DEF QueuedRow, OutboxRow, OutboxPatterns
    <3>8. Move(r, q, Append(outbox[r], QueuedRow(q)))
      BY <3>1
    <3>9. \A o \in Requests \ {r} : requests[o].attemptId # q.attemptId
      BY <3>1, <3>3
    <3> HIDE DEF q
    <3> QED
      BY <2>1, <3>3, <3>6, <3>7, <3>8, <3>9, MoveKeepsInv
  <2>5. CASE Start(r)
    <3> DEFINE q == [old EXCEPT !.status = "PROCESSING"]
    <3>1. Move(r, q, outbox[r]) /\ old.status = "QUEUED"
      BY <2>5 DEF Start, Status
    <3>2. q \in Request /\ q.attemptId = old.attemptId /\ q.status = "PROCESSING"
          /\ q.zipStorageKey = old.zipStorageKey /\ q.failureCode = old.failureCode
      BY <2>1 DEF Request, Statuses
    <3>3. outbox[r] = History(q)
      BY <2>1, <3>1, <3>2 DEF History, IsTerminal, TerminalStatuses
    <3> HIDE DEF q
    <3> QED
      BY <2>1, <2>2, <2>3, <3>1, <3>2, <3>3, MoveKeepsInv
  <2>6. CASE Complete(r)
    <3>1. PICK zip \in Zips :
            LET q == [old EXCEPT !.status = "COMPLETED", !.zipStorageKey = zip]
            IN  Move(r, q, Append(outbox[r], TerminalRow(q)))
      BY <2>6 DEF Complete
    <3> DEFINE q == [old EXCEPT !.status = "COMPLETED", !.zipStorageKey = zip]
    <3>2. old.status \in {"QUEUED", "PROCESSING"}
      BY <2>6 DEF Complete, Status
    <3>3. q \in Request /\ q.attemptId = old.attemptId /\ q.status = "COMPLETED"
          /\ q.zipStorageKey = zip /\ zip # None /\ q.failureCode = old.failureCode
      BY <2>1 DEF Request, Statuses
    <3>4. outbox[r] = <<ValidationRow, Queued>>
      BY <2>1, <3>2 DEF History, IsTerminal, TerminalStatuses
    <3>5. Append(outbox[r], TerminalRow(q)) = History(q)
      <4> HIDE DEF q
      <4>1. History(q) = <<ValidationRow, Queued, TerminalRow(q)>>
        BY <2>1, <3>2, <3>3 DEF History, IsTerminal, TerminalStatuses
      <4> QED
        BY <3>4, <4>1, AppendToTwo
    <3>6. Append(outbox[r], TerminalRow(q)) \in Seq(OutboxRow)
      BY <2>2, <3>3 DEF TerminalRow, OutboxRow, OutboxPatterns
    <3>7. Move(r, q, Append(outbox[r], TerminalRow(q)))
      BY <3>1
    <3> HIDE DEF q
    <3> QED
      BY <2>1, <2>3, <3>2, <3>3, <3>5, <3>6, <3>7, MoveKeepsInv
  <2>7. CASE Fail(r)
    <3>1. PICK code \in FailureCodes :
            LET q == [old EXCEPT !.status = "FAILED", !.failureCode = code]
            IN  Move(r, q, Append(outbox[r], TerminalRow(q)))
      BY <2>7 DEF Fail
    <3> DEFINE q == [old EXCEPT !.status = "FAILED", !.failureCode = code]
    <3>2. old.status \in {"RECEIVED", "QUEUED", "PROCESSING"}
      BY <2>7 DEF Fail, Status
    <3>3. q \in Request /\ q.attemptId = old.attemptId /\ q.status = "FAILED"
          /\ q.failureCode = code /\ code # None /\ q.zipStorageKey = old.zipStorageKey
      BY <2>1 DEF Request, Statuses, FailureCodes
    <3>4. outbox[r] = IF old.attemptId = None THEN <<ValidationRow>>
                                              ELSE <<ValidationRow, Queued>>
      BY <2>1, <3>2 DEF History, IsTerminal, TerminalStatuses
    <3>5. Append(outbox[r], TerminalRow(q)) = History(q)
      <4> HIDE DEF q
      <4>1. History(q) = IF old.attemptId = None
                         THEN <<ValidationRow, TerminalRow(q)>>
                         ELSE <<ValidationRow, Queued, TerminalRow(q)>>
        BY <3>3 DEF History, IsTerminal, TerminalStatuses
      <4> QED
        BY <3>4, <4>1, AppendToOne, AppendToTwo
    <3>6. Append(outbox[r], TerminalRow(q)) \in Seq(OutboxRow)
      BY <2>2, <3>3 DEF TerminalRow, OutboxRow, OutboxPatterns
    <3>7. Move(r, q, Append(outbox[r], TerminalRow(q)))
      BY <3>1
    <3> HIDE DEF q
    <3> QED
      BY <2>1, <2>3, <3>2, <3>3, <3>5, <3>6, <3>7, MoveKeepsInv
  <2> QED
    BY <1>3, <2>4, <2>5, <2>6, <2>7
<1> QED
  BY <1>1, <1>2, <1>3 DEF Next

\* The invariant holds in every state of the abstract specification.
THEOREM LifecycleInvariant == Spec => []LifecycleInv
<1> QED
  BY InitInv, NextInv, PTL DEF Spec

\* Type correctness of the three tables.
THEOREM LifecycleTypeCorrect == Spec => []TypeOK
<1>1. LifecycleInv => TypeOK
  BY DEF LifecycleInv
<1> QED
  BY <1>1, LifecycleInvariant, PTL

\* The outbox log of each request is the history of its stored state.
THEOREM OutboxIsHistory == Spec => []OutboxTellsTheRequest
<1>1. LifecycleInv => OutboxTellsTheRequest
  BY DEF LifecycleInv
<1> QED
  BY <1>1, LifecycleInvariant, PTL

\* Attempt, archive and failure code are set exactly when the status says so.
THEOREM StatusIsExplained == Spec => []StatusExplained
<1>1. LifecycleInv => StatusExplained
  BY DEF LifecycleInv
<1> QED
  BY <1>1, LifecycleInvariant, PTL

\* No event moves a terminal request or adds to its outbox log.
THEOREM TerminalRequestsAreFinal == Spec => TerminalIsFinal
<1>1. ASSUME LifecycleInv, [Next]_vars, NEW r \in Requests, IsTerminal(requests[r])
      PROVE  requests'[r] = requests[r] /\ outbox'[r] = outbox[r]
  <2>1. CASE UNCHANGED vars
    BY <2>1 DEF vars
  <2>2. CASE Ignore
    BY <2>2 DEF Ignore
  <2>3. ASSUME NEW o \in Requests, Accept(o) \/ Start(o) \/ Complete(o) \/ Fail(o)
        PROVE  requests'[r] = requests[r] /\ outbox'[r] = outbox[r]
    <3>1. o # r
      BY <1>1, <2>3 DEF Accept, Start, Complete, Fail, Status, IsTerminal, TerminalStatuses
    <3>2. \E q, rows : Move(o, q, rows)
      BY <2>3 DEF Accept, Start, Complete, Fail
    <3> QED
      BY <1>1, <3>1, <3>2 DEF Move, LifecycleInv, TypeOK
  <2> QED
    BY <1>1, <2>1, <2>2, <2>3 DEF Next
<1>2. LifecycleInv /\ [Next]_vars
        => [\A r \in Requests : IsTerminal(requests[r]) =>
              requests'[r] = requests[r] /\ outbox'[r] = outbox[r]]_vars
  BY <1>1
<1> QED
  BY <1>2, LifecycleInvariant, PTL DEF Spec, TerminalIsFinal

\* A request keeps the attempt its acceptance gave it.
THEOREM AttemptsAreFinal == Spec => AttemptIsFinal
<1>1. ASSUME LifecycleInv, [Next]_vars, NEW r \in Requests,
             requests[r].attemptId # None
      PROVE  requests'[r].attemptId = requests[r].attemptId
  <2>1. CASE UNCHANGED vars
    BY <2>1 DEF vars
  <2>2. CASE Ignore
    BY <2>2 DEF Ignore
  <2>3. ASSUME NEW o \in Requests, Accept(o) \/ Start(o) \/ Complete(o) \/ Fail(o)
        PROVE  requests'[r].attemptId = requests[r].attemptId
    <3>1. CASE o # r
      <4>1. \E q, rows : Move(o, q, rows)
        BY <2>3 DEF Accept, Start, Complete, Fail
      <4> QED
        BY <1>1, <3>1, <4>1 DEF Move, LifecycleInv, TypeOK
    <3>2. CASE o = r
      <4>1. ~ Accept(o)
        BY <1>1, <3>2 DEF Accept, Status, LifecycleInv, StatusExplained
      <4>2. \E q : /\ requests' = [requests EXCEPT ![r] = q]
                   /\ q.attemptId = requests[r].attemptId
        <5>1. requests[r] \in Request
          BY <1>1 DEF LifecycleInv, TypeOK
        <5>2. CASE Start(r)
          <6>1. requests' = [requests EXCEPT ![r] =
                  [requests[r] EXCEPT !.status = "PROCESSING"]]
            BY <5>2 DEF Start, Move
          <6>2. [requests[r] EXCEPT !.status = "PROCESSING"].attemptId
                  = requests[r].attemptId
            BY <5>1 DEF Request
          <6> QED
            BY <6>1, <6>2, Zenon
        <5>3. CASE Complete(r)
          <6>1. PICK zip \in Zips :
                  requests' = [requests EXCEPT ![r] =
                    [requests[r] EXCEPT !.status = "COMPLETED", !.zipStorageKey = zip]]
            BY <5>3 DEF Complete, Move
          <6>2. [requests[r] EXCEPT !.status = "COMPLETED", !.zipStorageKey = zip].attemptId
                  = requests[r].attemptId
            BY <5>1 DEF Request
          <6> QED
            BY <6>1, <6>2, Zenon
        <5>4. CASE Fail(r)
          <6>1. PICK code \in FailureCodes :
                  requests' = [requests EXCEPT ![r] =
                    [requests[r] EXCEPT !.status = "FAILED", !.failureCode = code]]
            BY <5>4 DEF Fail, Move
          <6>2. [requests[r] EXCEPT !.status = "FAILED", !.failureCode = code].attemptId
                  = requests[r].attemptId
            BY <5>1 DEF Request
          <6> QED
            BY <6>1, <6>2, Zenon
        <5> QED
          BY <2>3, <3>2, <4>1, <5>2, <5>3, <5>4
      <4> QED
        BY <1>1, <4>2 DEF LifecycleInv, TypeOK
    <3> QED
      BY <3>1, <3>2
  <2> QED
    BY <1>1, <2>1, <2>2, <2>3 DEF Next
<1>2. LifecycleInv /\ [Next]_vars
        => [\A r \in Requests : requests[r].attemptId # None =>
              requests'[r].attemptId = requests[r].attemptId]_vars
  BY <1>1
<1> QED
  BY <1>2, LifecycleInvariant, PTL DEF Spec, AttemptIsFinal
=============================================================================
