-------------------------- MODULE RequestCreation --------------------------
(***************************************************************************)
(* What POST /processing-requests promises, with nothing said of lookups,  *)
(* indexes or transactions: one upload of an owner is one request, one     *)
(* idempotency key of an owner names at most one request, and a call is    *)
(* answered with the request of its own upload or told that its key names  *)
(* another one.                                                            *)
(*                                                                         *)
(* A request is named by the call that created it.  A retry by the client  *)
(* is a call of its own with the same fields.                              *)
(***************************************************************************)
CONSTANTS
    Calls,   \* records: n, ownerUserId, idempotencyKey, sourceStorageKey
    None     \* a missing or blank field; no answer

ASSUME CallsAssumption ==
    /\ None \notin Calls
    /\ \A c \in Calls :
         DOMAIN c = {"n", "ownerUserId", "idempotencyKey", "sourceStorageKey"}

VARIABLES
    rows,     \* SUBSET Calls: the requests that are stored
    outbox,   \* SUBSET Calls: the requests whose validation was asked for
    answer    \* [Calls -> Answer]

vars == <<rows, outbox, answer>>

Answer == [kind : {"created", "replayed"}, request : Calls]
          \cup [kind : {"none", "conflict", "invalid", "error"}, request : {None}]

Unanswered == [kind |-> "none", request |-> None]

Valid(c) == None \notin {c.ownerUserId, c.idempotencyKey, c.sourceStorageKey}

SameKey(c, d) == /\ c.ownerUserId = d.ownerUserId
                 /\ c.idempotencyKey = d.idempotencyKey

SameUpload(c, d) == /\ c.ownerUserId = d.ownerUserId
                    /\ c.sourceStorageKey = d.sourceStorageKey

Init == rows = {} /\ outbox = {} /\ answer = [c \in Calls |-> Unanswered]

Reply(c, kind, r) ==
    /\ answer[c] = Unanswered
    /\ answer' = [answer EXCEPT ![c] = [kind |-> kind, request |-> r]]

\* A request is stored together with the event that asks for its validation.
Store(c) ==
    /\ Valid(c)
    /\ \A r \in rows : ~ SameKey(r, c) /\ ~ SameUpload(r, c)
    /\ rows' = rows \cup {c}
    /\ outbox' = outbox \cup {c}

Create(c) == Store(c) /\ Reply(c, "created", c)

\* The request was stored, but the caller was not told.
CreateUnnoticed(c) == Store(c) /\ Reply(c, "error", None)

Replay(c) ==
    /\ \E r \in rows : SameUpload(r, c) /\ Reply(c, "replayed", r)
    /\ UNCHANGED <<rows, outbox>>

Conflict(c) ==
    /\ \E r \in rows : SameKey(r, c) /\ ~ SameUpload(r, c)
    /\ Reply(c, "conflict", None)
    /\ UNCHANGED <<rows, outbox>>

Invalid(c) == ~ Valid(c) /\ Reply(c, "invalid", None) /\ UNCHANGED <<rows, outbox>>

Error(c) == Reply(c, "error", None) /\ UNCHANGED <<rows, outbox>>

Next == \E c \in Calls : Create(c) \/ CreateUnnoticed(c) \/ Replay(c)
                         \/ Conflict(c) \/ Invalid(c) \/ Error(c)

Spec == Init /\ [][Next]_vars

-----------------------------------------------------------------------------

TypeOK ==
    /\ rows \subseteq Calls
    /\ outbox \subseteq Calls
    /\ answer \in [Calls -> Answer]

\* One upload is one request, one key is one request.
OneRequestEach ==
    \A r, s \in rows : SameKey(r, s) \/ SameUpload(r, s) => r = s

Told(c) == answer[c].kind \in {"created", "replayed"}

\* Whoever is told of a request is told of the stored request of its own
\* upload, so all the calls for one upload are told of the same one.
AnswersAgree ==
    /\ \A c \in Calls : Told(c) =>
         /\ answer[c].request \in rows
         /\ SameUpload(answer[c].request, c)
    /\ \A c, d \in Calls : Told(c) /\ Told(d) /\ SameUpload(c, d) =>
         answer[c].request = answer[d].request

\* A request is announced as created to one call, the one that stored it.
OneCreator == \A c \in Calls : answer[c].kind = "created" => answer[c].request = c
=============================================================================
