--------------------------- MODULE CatalogEvents ---------------------------
(***************************************************************************)
(* The five events the Catalog consumes and what one of them does to a     *)
(* request: the part of the use cases of src/src/application that is       *)
(* decided once the request has been read under its lock.                  *)
(***************************************************************************)
EXTENDS ProcessingRequest, Sequences

CONSTANTS
    Requests,      \* ids (uuids) of the requests the Catalog created
    MalformedIds,  \* processingRequestIds that are not uuids
    Messages       \* every message a producer may put on a consumed queue

EventKinds == {"VideoAccepted", "VideoRejected", "ProcessingStarted",
               "ProcessingCompleted", "ProcessingFailed"}

\* The events that name the attempt they belong to.
AttemptEvents == {"ProcessingStarted", "ProcessingCompleted", "ProcessingFailed"}

\* A message on one of the five queues. Two messages with one eventId are an
\* event its producer published twice. Ids that are not in Requests name no
\* request, attempt ids that are not in Attempts were never minted here.
ASSUME MessagesAssumption ==
    /\ \A m \in Messages :
         DOMAIN m = {"copy", "eventId", "kind", "request", "attemptId",
                     "zipStorageKey", "failureCode"}
    /\ \A m \in Messages : m.kind \in EventKinds
    /\ None \notin Requests
    /\ Requests \cap MalformedIds = {}

EventIds == {m.eventId : m \in Messages}

\* Parsing of the payload and the field checks at the top of each use case.
\* What fails them is a domain error, before the database is touched.
WellFormed(m) ==
    /\ m.eventId # None
    /\ m.request # None
    /\ m.kind \in AttemptEvents => m.attemptId # None
    /\ m.kind = "ProcessingCompleted" => m.zipStorageKey \in Zips
    /\ m.kind \in {"VideoRejected", "ProcessingFailed"}
         => IsFailureCode(m.failureCode)

-----------------------------------------------------------------------------
(* The decision on a request q read under its lock *)

\* Mutant: a failure is not compared with the attempt it belongs to.
Stale_NotForFailures(m, q) ==
    /\ m.kind \in AttemptEvents \ {"ProcessingFailed"}
    /\ IsStaleAttempt(q, m.attemptId)

\* A leftover of another attempt: recorded, otherwise ignored.
Stale(m, q) == m.kind \in AttemptEvents /\ IsStaleAttempt(q, m.attemptId)

Permitted(m, q) ==
    \/ m.kind = "VideoAccepted" /\ CanAccept(q)
    \/ m.kind = "VideoRejected" /\ CanReject(q, m.failureCode)
    \/ m.kind = "ProcessingStarted" /\ CanStart(q)
    \/ m.kind = "ProcessingCompleted" /\ CanComplete(q, m.zipStorageKey)
    \/ m.kind = "ProcessingFailed" /\ CanFail(q, m.failureCode)

\* The request after m; a is the attempt minted if m is a VideoAccepted.
Transition(m, q, a) ==
    CASE m.kind = "VideoAccepted"       -> Accepted(q, a)
      [] m.kind = "VideoRejected"       -> Failed(q, m.failureCode)
      [] m.kind = "ProcessingStarted"   -> Started(q)
      [] m.kind = "ProcessingCompleted" -> Completed(q, m.zipStorageKey)
      [] m.kind = "ProcessingFailed"    -> Failed(q, m.failureCode)

Result(m, q, a) == IF Stale(m, q) THEN q ELSE Transition(m, q, a)

-----------------------------------------------------------------------------
(* The outbox rows of a request: what it tells the other services, with the *)
(* request as the payload shows it.                                         *)

OutboxPatterns == {"VideoValidationRequested", "ProcessingQueued", "TerminalEvent"}

OutboxRow == [pattern : OutboxPatterns, request : Request]

ValidationRow == [pattern |-> "VideoValidationRequested", request |-> CreatedRequest]

QueuedRow(q) == [pattern |-> "ProcessingQueued", request |-> q]

TerminalRow(q) == [pattern |-> "TerminalEvent", request |-> q]

\* Mutant: the outbox row is written whether or not anything changed.
Recorded_EvenIfUnchanged(m, q, q1, rows) ==
    IF m.kind = "ProcessingStarted" THEN rows
    ELSE IF m.kind = "VideoAccepted" THEN Append(rows, QueuedRow(q1))
    ELSE Append(rows, TerminalRow(q1))

\* Mutant: the row shows the request as it was loaded.
Recorded_AsLoaded(m, q, q1, rows) ==
    IF q1 = q \/ m.kind = "ProcessingStarted" THEN rows
    ELSE IF m.kind = "VideoAccepted" THEN Append(rows, QueuedRow(q))
    ELSE Append(rows, TerminalRow(q))

\* What handling m adds to the outbox rows of its request when it takes the
\* request from q to q1. Entering PROCESSING tells nobody.
Recorded(m, q, q1, rows) ==
    IF q1 = q \/ m.kind = "ProcessingStarted" THEN rows
    ELSE IF m.kind = "VideoAccepted" THEN Append(rows, QueuedRow(q1))
    ELSE Append(rows, TerminalRow(q1))
=============================================================================
