--------------------------- MODULE CreateRequest ---------------------------
(***************************************************************************)
(* POST /processing-requests over PostgreSQL: the controller, the use case *)
(* and the insert of CreateProcessingRequestUseCase.  Calls run on any     *)
(* number of replicas and interleave at every await:                       *)
(*                                                                         *)
(*   idle -Validate-> findKey -FindByKey-> findSource -FindBySource->      *)
(*     insertKey -InsertKey-> insertSource -InsertSource-> inserted        *)
(*     -Commit-> answered                                                  *)
(*                                                                         *)
(* The two lookups only spare the insert; the two unique indexes decide.   *)
(* A loser's transaction rolls back and the winner is read outside it.     *)
(* The eventId of a call is a fresh uuid, so the lookup by eventId finds   *)
(* nothing and its record in processed_event never collides.               *)
(***************************************************************************)
EXTENDS RequestCreation, Naturals, FiniteSets

CONSTANT MaxFaults   \* bound: failed statements, crashes and lost answers

ASSUME FaultsAssumption == MaxFaults \in Nat

VARIABLES
    pc,       \* [Calls -> where execute() is]
    faults    \* how many faults happened

allVars == <<rows, outbox, answer, pc, faults>>

PCs == {"idle", "findKey", "findSource", "insertKey", "insertSource",
        "inserted", "lostKey", "lostSource", "answered"}

CreateInit ==
    /\ Init
    /\ pc = [c \in Calls |-> "idle"]
    /\ faults = 0

-----------------------------------------------------------------------------

Goto(c, label) == pc' = [pc EXCEPT ![c] = label]

AnswerWith(c, kind, r) == Reply(c, kind, r) /\ Goto(c, "answered")

\* A bound key answers with its request, or refuses another source.
ReplayByKey(c, r) ==
    IF SameUpload(r, c) THEN AnswerWith(c, "replayed", r)
                        ELSE AnswerWith(c, "conflict", None)

\* validateDto and the checks at the top of execute().
Validate(c) ==
    /\ pc[c] = "idle"
    /\ IF Valid(c) THEN Goto(c, "findKey") /\ UNCHANGED answer
                   ELSE AnswerWith(c, "invalid", None)
    /\ UNCHANGED <<rows, outbox, faults>>

\* Mutant: a known key is replayed whatever the source.
FindByKey_AnySource(c) ==
    /\ pc[c] = "findKey"
    /\ \/ \E r \in rows : SameKey(r, c) /\ AnswerWith(c, "replayed", r)
       \/ /\ \A r \in rows : ~ SameKey(r, c)
          /\ Goto(c, "findSource") /\ UNCHANGED answer
    /\ UNCHANGED <<rows, outbox, faults>>

FindByKey(c) ==
    /\ pc[c] = "findKey"
    /\ \/ \E r \in rows : SameKey(r, c) /\ ReplayByKey(c, r)
       \/ /\ \A r \in rows : ~ SameKey(r, c)
          /\ Goto(c, "findSource") /\ UNCHANGED answer
    /\ UNCHANGED <<rows, outbox, faults>>

FindBySource(c) ==
    /\ pc[c] = "findSource"
    /\ \/ \E r \in rows : SameUpload(r, c) /\ AnswerWith(c, "replayed", r)
       \/ /\ \A r \in rows : ~ SameUpload(r, c)
          /\ Goto(c, "insertKey") /\ UNCHANGED answer
    /\ UNCHANGED <<rows, outbox, faults>>

-----------------------------------------------------------------------------
(* The insert enters the row into the index on (owner, key), then into the  *)
(* one on (owner, source).  An entry of a transaction still open makes it   *)
(* wait; a committed one fails it.                                          *)

InsertKey(c) ==
    /\ pc[c] = "insertKey"
    /\ \A d \in Calls : pc[d] \in {"insertSource", "inserted"} => ~ SameKey(d, c)
    /\ Goto(c, IF \E r \in rows : SameKey(r, c) THEN "lostKey" ELSE "insertSource")
    /\ UNCHANGED <<rows, answer, outbox, faults>>

\* Mutant: there is no unique index on (owner, source).
InsertSource_NoIndex(c) ==
    /\ pc[c] = "insertSource"
    /\ Goto(c, "inserted")
    /\ UNCHANGED <<rows, answer, outbox, faults>>

InsertSource(c) ==
    /\ pc[c] = "insertSource"
    /\ \A d \in Calls : pc[d] = "inserted" => ~ SameUpload(d, c)
    /\ Goto(c, IF \E r \in rows : SameUpload(r, c) THEN "lostSource" ELSE "inserted")
    /\ UNCHANGED <<rows, answer, outbox, faults>>

\* The outbox row and the event's record are inserted; all three commit.
WriteTables(c) == rows' = rows \cup {c} /\ outbox' = outbox \cup {c}

Commit(c) ==
    /\ pc[c] = "inserted"
    /\ WriteTables(c)
    /\ AnswerWith(c, "created", c)
    /\ UNCHANGED faults

\* DuplicateIdempotencyKeyError: the winner is read by the key.
ReadWinnerByKey(c) ==
    /\ pc[c] = "lostKey"
    /\ IF \E r \in rows : SameKey(r, c)
       THEN \E r \in rows : SameKey(r, c) /\ ReplayByKey(c, r)
       ELSE AnswerWith(c, "error", None)
    /\ UNCHANGED <<rows, outbox, faults>>

\* Mutant: only a lost key is a lost race, a lost source is an error.
ReadWinnerBySource_Rethrows(c) ==
    /\ pc[c] = "lostSource"
    /\ AnswerWith(c, "error", None)
    /\ UNCHANGED <<rows, outbox, faults>>

\* Mutant: the loser tries its insert again.
ReadWinnerBySource_Retries(c) ==
    /\ pc[c] = "lostSource"
    /\ Goto(c, "insertKey")
    /\ UNCHANGED <<rows, outbox, answer, faults>>

\* Mutant: the winner is read in the aborted transaction, which sees nothing.
ReadWinnerBySource_Inside(c) ==
    /\ pc[c] = "lostSource"
    /\ AnswerWith(c, "replayed", None)
    /\ UNCHANGED <<rows, outbox, faults>>

\* DuplicateSourceError: the winner is read by the source.
ReadWinnerBySource(c) ==
    /\ pc[c] = "lostSource"
    /\ IF \E r \in rows : SameUpload(r, c)
       THEN \E r \in rows : SameUpload(r, c) /\ AnswerWith(c, "replayed", r)
       ELSE AnswerWith(c, "error", None)
    /\ UNCHANGED <<rows, outbox, faults>>

-----------------------------------------------------------------------------
(* Faults.  The caller of a replica that dies sees an error as well.        *)

Fault == faults < MaxFaults /\ faults' = faults + 1

Fails(c) ==
    /\ Fault
    /\ pc[c] \notin {"idle", "answered"}
    /\ AnswerWith(c, "error", None)
    /\ UNCHANGED <<rows, outbox>>

CommitUnanswered(c) ==
    /\ Fault
    /\ pc[c] = "inserted"
    /\ WriteTables(c)
    /\ AnswerWith(c, "error", None)

-----------------------------------------------------------------------------

Step(c) ==
    \/ FindByKey(c) \/ FindBySource(c) \/ InsertKey(c) \/ InsertSource(c)
    \/ Commit(c) \/ ReadWinnerByKey(c) \/ ReadWinnerBySource(c)

\* Every call was answered, or never made.
Quiet ==
    /\ \A c \in Calls : pc[c] \in {"idle", "answered"}
    /\ UNCHANGED allVars

CreateNext ==
    \/ \E c \in Calls : Validate(c) \/ Step(c) \/ Fails(c) \/ CommitUnanswered(c)
    \/ Quiet

CreateSpec == CreateInit /\ [][CreateNext]_allVars

\* A call that was made runs on: the event loop and PostgreSQL's lock queues
\* never forget one.  Nobody has to make a call.
CreateFairSpec == CreateSpec /\ \A c \in Calls : WF_allVars(Step(c))

-----------------------------------------------------------------------------
(* Properties *)

CreateTypeOK ==
    /\ TypeOK
    /\ pc \in [Calls -> PCs]
    /\ faults \in 0..MaxFaults

\* Lookups, indexes and lost races amount to one atomic step per call.
ImplementsCreation == Spec

\* Losing a race is never an error: only a fault makes a call fail, and each
\* fault fails one call.
ErrorsAreFaults == Cardinality({c \in Calls : answer[c].kind = "error"}) = faults

\* Every call is answered: no two calls wait for each other.
EveryCallIsAnswered == \A c \in Calls : pc[c] = "findKey" ~> pc[c] = "answered"

\* README: the same owner and key with the same source replays the existing
\* request.  A call whose fields were answered with a request before is never
\* told that its key belongs to another upload.
RetryIsReplayed ==
    \A c, d \in Calls :
      SameKey(c, d) /\ SameUpload(c, d) /\ Told(c) => answer[d].kind # "conflict"
=============================================================================
