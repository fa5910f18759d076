------------------------- MODULE ProcessingRequest -------------------------
(***************************************************************************)
(* The domain of the Catalog: one processing request and the transitions   *)
(* of its lifecycle (src/src/domain/processing-request.ts).                *)
(*                                                                         *)
(*   RECEIVED --accept--> QUEUED --start--> PROCESSING --complete--> COMPLETED *)
(*      |                   |                   |                          *)
(*      |                   +-----complete------|--------------> COMPLETED *)
(*      |                   +-------fail--------+--fail--------> FAILED    *)
(*      +-----------------------reject-------------------------> FAILED    *)
(*                                                                         *)
(* A transition is a pair of operators: when the domain permits it (its    *)
(* negation is a ProcessingRequestDomainError) and what it returns.        *)
(* Owner, e-mail, source key, correlation id and timestamps never steer a  *)
(* transition and are left out; so is a new updatedAt, so the object       *)
(* identity of isUnchanged is equality here.                               *)
(***************************************************************************)

CONSTANTS
    Attempts,   \* attempt ids this Catalog can mint (randomUUID)
    Zips,       \* non-blank archive keys
    None        \* undefined, or a field that is missing or blank

ASSUME NoneAssumption ==
    None \notin Attempts \cup Zips
        \cup {"FORMATO_INVALIDO", "DURACAO_EXCEDIDA", "PROCESSAMENTO_FALHOU"}

Statuses == {"RECEIVED", "QUEUED", "PROCESSING", "COMPLETED", "FAILED"}

TerminalStatuses == {"COMPLETED", "FAILED"}

\* The closed vocabulary of failure codes.
FailureCodes == {"FORMATO_INVALIDO", "DURACAO_EXCEDIDA", "PROCESSAMENTO_FALHOU"}

\* Mutant: any code is stored.
IsFailureCode_AnyCode(code) == code # None

IsFailureCode(code) == code \in FailureCodes

Request == [status        : Statuses,
            attemptId     : Attempts \cup {None},
            zipStorageKey : Zips \cup {None},
            failureCode   : FailureCodes \cup {None}]

CreatedRequest == [status |-> "RECEIVED", attemptId |-> None,
                   zipStorageKey |-> None, failureCode |-> None]

IsTerminal(q) == q.status \in TerminalStatuses

-----------------------------------------------------------------------------
(* Accept: VideoAccepted. The request gets the attempt the Worker will run. *)

CanAccept(q) == q.status = "RECEIVED"

Accepted(q, a) == [q EXCEPT !.status = "QUEUED", !.attemptId = a]

-----------------------------------------------------------------------------
(* An attempt event whose attempt is not the request's current one. *)

IsStaleAttempt(q, a) == q.attemptId # None /\ a # q.attemptId

-----------------------------------------------------------------------------
(* Start: ProcessingStarted. After QUEUED it is stale, not wrong. *)

CanStart(q) == q.status # "RECEIVED"

\* Mutant: a start overtaken by its own completion is applied anyway.
Started_MovesBack(q) == [q EXCEPT !.status = "PROCESSING"]

Started(q) == IF q.status = "QUEUED" THEN [q EXCEPT !.status = "PROCESSING"]
                                     ELSE q

-----------------------------------------------------------------------------
(* Complete: ProcessingCompleted. QUEUED is completable because the start   *)
(* and the completion travel on different queues.                           *)

\* Mutant: a completion that overtakes its start is refused.
CompletableStatuses_OnlyProcessing == {"PROCESSING"}

CompletableStatuses == {"QUEUED", "PROCESSING"}

AlreadyCompleted(q, zip) == q.status = "COMPLETED" /\ q.zipStorageKey = zip

\* Mutant: the status of the request is not consulted.
CanComplete_AnyStatus(q, zip) == zip \in Zips

CanComplete(q, zip) ==
    /\ zip \in Zips
    /\ AlreadyCompleted(q, zip) \/ q.status \in CompletableStatuses

Completed(q, zip) ==
    IF AlreadyCompleted(q, zip)
    THEN q
    ELSE [q EXCEPT !.status = "COMPLETED", !.zipStorageKey = zip]

-----------------------------------------------------------------------------
(* Fail: ProcessingFailed ends an attempt. Reject: VideoRejected refuses a  *)
(* video that has none.                                                     *)

FailableStatuses == {"QUEUED", "PROCESSING"}

CanFail(q, code) == q.status \in FailableStatuses /\ IsFailureCode(code)

CanReject(q, code) == q.status = "RECEIVED" /\ IsFailureCode(code)

Failed(q, code) == [q EXCEPT !.status = "FAILED", !.failureCode = code]
=============================================================================
