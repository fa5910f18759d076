---------------------------- MODULE OutboxRelay ----------------------------
(***************************************************************************)
(* Publishing the outbox (infrastructure/messaging/outbox-relay.ts).       *)
(*                                                                         *)
(* Transactions of the use cases write outbox rows.  A row gets its id     *)
(* when it is inserted and becomes visible when its transaction commits;   *)
(* the transactions of one request take turns on its row lock.  Every      *)
(* replica runs a relay that drains on a timer:                            *)
(*                                                                         *)
(*   idle -TryLock-> select -Select-> waiting -Confirm-> confirmed         *)
(*     -Mark-> waiting ... sent -Finish-> idle                             *)
(*                                                                         *)
(* inside one database transaction that holds the advisory lock.  Marks    *)
(* are part of that transaction.  The relay and its transaction can part:  *)
(* a session PostgreSQL has dropped has lost lock and marks while the      *)
(* relay still waits for a confirm.                                        *)
(***************************************************************************)
EXTENDS Naturals, Sequences, FiniteSets, FiniteSetsExt

CONSTANTS
    Requests,        \* ids of the requests that write rows
    Relays,          \* one per replica
    Nobody,          \* not a relay
    PlatformQueues,  \* queues the broker definitions of the platform declare
    BatchSize,       \* rows one drain reads (50 in the code)
    MaxRows,         \* bound: rows that are ever inserted
    MaxFaults        \* bound: timeouts, crashes, lost sessions and confirms

ASSUME RelayAssumption ==
    /\ Nobody \notin Relays
    /\ BatchSize \in Nat \ {0}
    /\ MaxRows \in Nat
    /\ MaxFaults \in Nat

VARIABLES
    rows,        \* Seq([request, pattern]): the row of each id, visible or not
    state,       \* Seq of "open", "gone", "pending", "published", by id
    lock,        \* Relays \cup {Nobody}: the advisory lock
    session,     \* [Relays -> BOOLEAN]: its transaction is still open
    pc,          \* [Relays -> where drain() is]
    batch,       \* [Relays -> SUBSET ids]: rows it read and has still to publish
    marks,       \* [Relays -> SUBSET ids]: marked in the open transaction
    stragglers,  \* ids of publishes the relay gave up that may still arrive
    arrived,     \* Seq(ids): what reached the broker, in order
    kept,        \* ids the broker put on a queue
    faults       \* how many faults happened

recorded == <<rows, state>>
relay == <<lock, session, pc, batch, marks>>
broker == <<stragglers, arrived, kept>>
vars == <<rows, state, lock, session, pc, batch, marks, stragglers, arrived,
          kept, faults>>

-----------------------------------------------------------------------------
(* Events and queues *)

Patterns == {"VideoValidationRequested", "ProcessingQueued", "TerminalEvent"}

\* EVENT_ROUTES: the queue each event is sent to, through the default exchange.
EVENT_ROUTES == [VideoValidationRequested |-> "video-validation",
                 ProcessingQueued         |-> "processing",
                 TerminalEvent            |-> "notification.terminal"]

\* What the Catalog asserts when its channels are set up.
RABBITMQ_QUEUES == {"video.validation.requested", "video.accepted",
    "video.rejected", "processing.queued", "processing.started",
    "processing.completed", "processing.failed", "processing.terminal"}

Declared == RABBITMQ_QUEUES \cup PlatformQueues

Ids == DOMAIN rows

-----------------------------------------------------------------------------
(* The recording transactions *)

\* The events a request may still announce: see the lifecycle.
Written(r) == {rows[i].pattern : i \in {j \in Ids : rows[j].request = r
                                                    /\ state[j] # "gone"}}

Upcoming(r) ==
    CASE Written(r) = {} -> {"VideoValidationRequested"}
      [] Written(r) = {"VideoValidationRequested"} -> {"ProcessingQueued", "TerminalEvent"}
      [] "TerminalEvent" \in Written(r) -> {}
      [] OTHER -> {"TerminalEvent"}

RowLocked(r) == \E i \in Ids : rows[i].request = r /\ state[i] = "open"

\* A transaction that holds the request inserts a row: the id is drawn now.
Insert(r) ==
    /\ Len(rows) < MaxRows
    /\ ~ RowLocked(r)
    /\ \E p \in Upcoming(r) : rows' = Append(rows, [request |-> r, pattern |-> p])
    /\ state' = Append(state, "open")
    /\ UNCHANGED <<relay, broker, faults>>

Commit(i) ==
    /\ state[i] = "open"
    /\ state' = [state EXCEPT ![i] = "pending"]
    /\ UNCHANGED <<rows, relay, broker, faults>>

-----------------------------------------------------------------------------
(* drain() *)

\* Mutant: the relays do not take the advisory lock.
LockFree_Always == TRUE

LockFree == lock = Nobody

\* A tick that finds the lock taken ends at once; a tick during a drain of the
\* same relay is skipped.
TryLock(k) ==
    /\ pc[k] = "idle"
    /\ LockFree
    /\ lock' = k
    /\ session' = [session EXCEPT ![k] = TRUE]
    /\ pc' = [pc EXCEPT ![k] = "select"]
    /\ UNCHANGED <<recorded, batch, marks, broker, faults>>

\* Leaving the drain, whatever the transaction did.
Leave(k) ==
    /\ lock' = IF lock = k THEN Nobody ELSE lock
    /\ session' = [session EXCEPT ![k] = FALSE]
    /\ pc' = [pc EXCEPT ![k] = "idle"]
    /\ batch' = [batch EXCEPT ![k] = {}]
    /\ marks' = [marks EXCEPT ![k] = {}]

Pending == {i \in Ids : state[i] = "pending"}

\* ORDER BY id LIMIT BatchSize
Batch == {i \in Pending : Cardinality({j \in Pending : j < i}) < BatchSize}

\* A drain publishes what it read in the order of the ids.
NextRow(k) == Min(batch[k])

\* The turn that has read or marked a row sends the next one.  Sending does not
\* touch the database: it happens with or without a session.
Send(k, rest) ==
    /\ batch' = [batch EXCEPT ![k] = rest]
    /\ pc' = [pc EXCEPT ![k] = IF rest = {} THEN "sent" ELSE "waiting"]

Select(k) ==
    /\ pc[k] = "select"
    /\ session[k]
    /\ Send(k, Batch)
    /\ UNCHANGED <<recorded, lock, session, marks, broker, faults>>

\* A message reaches the broker.  It is not published as mandatory: the broker
\* drops what it has no queue for, and confirms it all the same.
Arrive(i) ==
    /\ arrived' = Append(arrived, i)
    /\ kept' = IF EVENT_ROUTES[rows[i].pattern] \in Declared
               THEN kept \cup {i} ELSE kept

Confirm(k) ==
    /\ pc[k] = "waiting"
    /\ Arrive(NextRow(k))
    /\ pc' = [pc EXCEPT ![k] = "confirmed"]
    /\ UNCHANGED <<recorded, lock, session, batch, marks, stragglers, faults>>

Mark(k) ==
    /\ pc[k] = "confirmed"
    /\ session[k]
    /\ marks' = [marks EXCEPT ![k] = @ \cup {NextRow(k)}]
    /\ Send(k, batch[k] \ {NextRow(k)})
    /\ UNCHANGED <<recorded, lock, session, broker, faults>>

NothingToSend(k) == pc[k] \in {"sent", "stopped"}

\* Everything published, or a publish failed: the marks made so far commit.
Finish(k) ==
    /\ NothingToSend(k)
    /\ session[k]
    /\ state' = [i \in Ids |-> IF i \in marks[k] THEN "published" ELSE state[i]]
    /\ Leave(k)
    /\ UNCHANGED <<rows, broker, faults>>

\* Any statement on a session that is gone fails, and the drain with it.
StatementFails(k) ==
    /\ ~ session[k]
    /\ pc[k] \in {"select", "confirmed"} \/ NothingToSend(k)
    /\ Leave(k)
    /\ UNCHANGED <<recorded, broker, faults>>

-----------------------------------------------------------------------------
(* Faults *)

Fault == faults < MaxFaults /\ faults' = faults + 1

\* What the relay sent may still be on its way.
GiveUp(i) == stragglers' = stragglers \/ stragglers' = stragglers \cup {i}

\* Mutant: a failed publish is skipped, and the drain goes on.
PublishFails_Skips(k) ==
    /\ Fault
    /\ pc[k] = "waiting"
    /\ GiveUp(NextRow(k))
    /\ Send(k, batch[k] \ {NextRow(k)})
    /\ UNCHANGED <<recorded, lock, session, marks, arrived, kept>>

\* Mutant: the row is marked before the broker has confirmed it.
PublishFails_Marks(k) ==
    /\ Fault
    /\ pc[k] = "waiting"
    /\ marks' = [marks EXCEPT ![k] = @ \cup {NextRow(k)}]
    /\ GiveUp(NextRow(k))
    /\ pc' = [pc EXCEPT ![k] = "stopped"]
    /\ UNCHANGED <<recorded, lock, session, batch, arrived, kept>>

\* Mutant: the failed drain never leaves its transaction.
PublishFails_Hangs(k) ==
    /\ Fault
    /\ pc[k] = "waiting"
    /\ GiveUp(NextRow(k))
    /\ pc' = [pc EXCEPT ![k] = "hung"]
    /\ UNCHANGED <<recorded, lock, session, batch, marks, arrived, kept>>

\* A refusal or a confirm timeout: the drain stops at this row.
PublishFails(k) ==
    /\ Fault
    /\ pc[k] = "waiting"
    /\ GiveUp(NextRow(k))
    /\ pc' = [pc EXCEPT ![k] = "stopped"]
    /\ UNCHANGED <<recorded, lock, session, batch, marks, arrived, kept>>

\* The broker took the message but its confirm was lost with the connection:
\* the channel wrapper sends it again when it has reconnected.
ConfirmLost(k) ==
    /\ Fault
    /\ pc[k] = "waiting"
    /\ Arrive(NextRow(k))
    /\ UNCHANGED <<recorded, relay, stragglers>>

StragglerArrives(i) ==
    /\ Arrive(i)
    /\ stragglers' = stragglers \ {i}
    /\ UNCHANGED <<recorded, relay, faults>>

\* PostgreSQL drops the session: lock and marks are gone, the relay runs on.
SessionLost(k) ==
    /\ Fault
    /\ session[k]
    /\ session' = [session EXCEPT ![k] = FALSE]
    /\ lock' = Nobody
    /\ marks' = [marks EXCEPT ![k] = {}]
    /\ UNCHANGED <<recorded, pc, batch, broker>>

\* The process dies, possibly between a confirm and its mark.
Crash(k) ==
    /\ Fault
    /\ pc[k] # "idle"
    /\ IF pc[k] = "waiting" THEN GiveUp(NextRow(k)) ELSE UNCHANGED stragglers
    /\ Leave(k)
    /\ UNCHANGED <<recorded, arrived, kept>>

\* A recording transaction rolls back: its id is never used.
Rollback(i) ==
    /\ Fault
    /\ state[i] = "open"
    /\ state' = [state EXCEPT ![i] = "gone"]
    /\ UNCHANGED <<rows, relay, broker>>

-----------------------------------------------------------------------------

Init ==
    /\ rows = <<>> /\ state = <<>>
    /\ lock = Nobody
    /\ session = [k \in Relays |-> FALSE]
    /\ pc = [k \in Relays |-> "idle"]
    /\ batch = [k \in Relays |-> {}]
    /\ marks = [k \in Relays |-> {}]
    /\ stragglers = {} /\ arrived = <<>> /\ kept = {}
    /\ faults = 0

Drain(k) ==
    TryLock(k) \/ Select(k) \/ Confirm(k) \/ Mark(k) \/ Finish(k)
    \/ StatementFails(k)

FaultStep ==
    \/ \E k \in Relays : PublishFails(k) \/ ConfirmLost(k) \/ SessionLost(k) \/ Crash(k)
    \/ \E i \in Ids : Rollback(i)

Next ==
    \/ \E r \in Requests : Insert(r)
    \/ \E i \in Ids : Commit(i)
    \/ \E k \in Relays : Drain(k)
    \/ \E i \in stragglers : StragglerArrives(i)
    \/ FaultStep

Spec == Init /\ [][Next]_vars

\* Each scheduler ticks for ever and a drain under way runs on; whichever relay
\* takes the lock, some drain is always next.  Recording transactions end.
Fairness ==
    /\ \A k \in Relays : WF_vars(Drain(k))
    /\ WF_vars(\E i \in Ids : Commit(i))

FairSpec == Spec /\ Fairness

-----------------------------------------------------------------------------
(* Properties *)

TypeOK ==
    /\ rows \in Seq([request : Requests, pattern : Patterns])
    /\ state \in [Ids -> {"open", "gone", "pending", "published"}]
    /\ lock \in Relays \cup {Nobody}
    /\ session \in [Relays -> BOOLEAN]
    /\ pc \in [Relays -> {"idle", "select", "sent", "waiting", "confirmed", "stopped"}]
    /\ batch \in [Relays -> SUBSET Ids]
    /\ marks \in [Relays -> SUBSET Ids]
    /\ stragglers \subseteq Ids
    /\ arrived \in Seq(Ids)
    /\ kept \subseteq Ids
    /\ faults \in 0..MaxFaults

\* Publishing through crashes, timeouts and several replicas is delivering each
\* request's rows at least once, in order, and marking only what was delivered.
Delivery == INSTANCE OutboxDelivery

ImplementsDelivery == Delivery!Spec

\* Only a fault repeats a row, and each fault repeats a row at most once: two
\* replicas draining together never publish the same row.
RepeatsAreFaults ==
    \A i \in Ids : Cardinality({n \in DOMAIN arrived : arrived[n] = i}) <= 1 + faults

\* Nothing is lost: a row marked as published is on a queue.
PublishedIsKept == \A i \in Ids : state[i] = "published" => i \in kept

\* No committed row is left behind: whatever failed on the way and whichever
\* relay drains, the outbox is empty again and again.
EveryRowIsPublished ==
    (\E i \in Ids : state[i] = "pending") ~> (\A i \in Ids : state[i] # "pending")
=============================================================================
