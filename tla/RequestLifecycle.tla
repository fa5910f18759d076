-------------------------- MODULE RequestLifecycle --------------------------
(***************************************************************************)
(* What the Catalog promises about its requests, with nothing said of      *)
(* messages, replicas, transactions or locks: requests only move along the *)
(* edges of the lifecycle, each move is one atomic step that records the   *)
(* event that caused it and writes the outbox row the move owes, and an    *)
(* event recorded once never moves anything again.                         *)
(*                                                                         *)
(* EventConsumer is shown to implement this specification.  The guards are *)
(* spelled out here, not taken from ProcessingRequest, so that a wrong     *)
(* guard there is a step this specification does not have.                 *)
(***************************************************************************)
EXTENDS CatalogEvents

VARIABLES
    requests,   \* [Requests -> Request]: table processing_request
    processed,  \* SUBSET EventIds: table processed_event
    outbox      \* [Requests -> Seq(OutboxRow)]: table outbox, by request and id

vars == <<requests, processed, outbox>>

\* Requests are created RECEIVED, with the row that asks for validation.
Init ==
    /\ requests = [r \in Requests |-> CreatedRequest]
    /\ processed = {}
    /\ outbox = [r \in Requests |-> <<ValidationRow>>]

-----------------------------------------------------------------------------

Status(r) == requests[r].status

Move(r, q, rows) ==
    /\ requests' = [requests EXCEPT ![r] = q]
    /\ outbox' = [outbox EXCEPT ![r] = rows]

Accept(r) ==
    /\ Status(r) = "RECEIVED"
    /\ \E a \in Attempts \ {requests[o].attemptId : o \in Requests} :
         LET q == [requests[r] EXCEPT !.status = "QUEUED", !.attemptId = a]
         IN  Move(r, q, Append(outbox[r], QueuedRow(q)))

Start(r) ==
    /\ Status(r) = "QUEUED"
    /\ Move(r, [requests[r] EXCEPT !.status = "PROCESSING"], outbox[r])

Complete(r) ==
    /\ Status(r) \in {"QUEUED", "PROCESSING"}
    /\ \E zip \in Zips :
         LET q == [requests[r] EXCEPT !.status = "COMPLETED", !.zipStorageKey = zip]
         IN  Move(r, q, Append(outbox[r], TerminalRow(q)))

\* A rejection (RECEIVED) and a failed attempt (QUEUED, PROCESSING).
Fail(r) ==
    /\ Status(r) \in {"RECEIVED", "QUEUED", "PROCESSING"}
    /\ \E code \in FailureCodes :
         LET q == [requests[r] EXCEPT !.status = "FAILED", !.failureCode = code]
         IN  Move(r, q, Append(outbox[r], TerminalRow(q)))

\* A stale event, or one that restates what is already true.
Ignore == UNCHANGED <<requests, outbox>>

Record(e) == e \notin processed /\ processed' = processed \cup {e}

Next == \E e \in EventIds :
          /\ Record(e)
          /\ \/ \E r \in Requests : Accept(r) \/ Start(r) \/ Complete(r) \/ Fail(r)
             \/ Ignore

Spec == Init /\ [][Next]_vars

-----------------------------------------------------------------------------

TypeOK ==
    /\ requests \in [Requests -> Request]
    /\ processed \subseteq EventIds
    /\ outbox \in [Requests -> Seq(OutboxRow)]

\* The rows a request has written, as a function of the request alone.
History(q) ==
    IF q.attemptId = None
    THEN IF IsTerminal(q) THEN <<ValidationRow, TerminalRow(q)>> ELSE <<ValidationRow>>
    ELSE LET queued == QueuedRow([CreatedRequest EXCEPT !.status = "QUEUED",
                                                        !.attemptId = q.attemptId])
         IN  IF IsTerminal(q) THEN <<ValidationRow, queued, TerminalRow(q)>>
                              ELSE <<ValidationRow, queued>>

\* The outbox tells exactly what happened to each request: validation was
\* asked for once, each acceptance queued one attempt, a terminal request sent
\* exactly one terminal event and it says what is stored, and a request that
\* is not terminal sent none.
OutboxTellsTheRequest == \A r \in Requests : outbox[r] = History(requests[r])

\* A request has an attempt from its acceptance on and never before, an
\* archive exactly when COMPLETED and a failure code exactly when FAILED.
StatusExplained ==
    \A r \in Requests : LET q == requests[r] IN
      /\ q.status = "RECEIVED" => q.attemptId = None
      /\ q.status \in {"QUEUED", "PROCESSING", "COMPLETED"} => q.attemptId # None
      /\ q.status = "COMPLETED" <=> q.zipStorageKey # None
      /\ q.status = "FAILED" <=> q.failureCode # None

\* No two requests ever share an attempt.
AttemptsDistinct ==
    \A r, o \in Requests :
      requests[r].attemptId = requests[o].attemptId /\ requests[r].attemptId # None
        => r = o

\* A terminal request never changes again, and neither does its outbox log.
TerminalIsFinal ==
    [][\A r \in Requests : IsTerminal(requests[r]) =>
         requests'[r] = requests[r] /\ outbox'[r] = outbox[r]]_vars

\* The attempt of a request never changes once it has one.
AttemptIsFinal ==
    [][\A r \in Requests : requests[r].attemptId # None =>
         requests'[r].attemptId = requests[r].attemptId]_vars
=============================================================================
