---------------------------- MODULE ReplicaBoot ----------------------------
(***************************************************************************)
(* How replicas of the Catalog come up, on one database and one broker:    *)
(*                                                                         *)
(*   down -Start-> connect -Initialize-> check -LoadPending-> migrate      *)
(*     -Migrate-> ... -CommitMigrations-> start -Listen-> serving          *)
(*                                                                         *)
(* Nest awaits the data source, with its migrations, before any consumer   *)
(* or controller that depends on it exists.  The broker is not awaited: a  *)
(* channel asserts its queues, one awaited call after another, and then    *)
(* attaches its consumers, whenever there is a connection; the connection  *)
(* can be lost between two of those calls.  A replica that fails exits and *)
(* is started again.                                                       *)
(***************************************************************************)
EXTENDS Naturals, Sequences

CONSTANTS
    Replicas,
    Queues,       \* how many queues the set-up of a channel asserts
    MaxCrashes,   \* bound: processes that die
    MaxOutages,   \* bound: outages of the database or the broker
    MaxUndos      \* bound: migrations that are undone

ASSUME BootAssumption ==
    Queues \in Nat /\ MaxCrashes \in Nat /\ MaxOutages \in Nat /\ MaxUndos \in Nat

VARIABLES
    schema,      \* the tables, columns and indexes that are committed
    recorded,    \* how many migrations the migrations table lists
    duplicates,  \* some owner has two requests for one source
    databaseUp, brokerUp,
    declared,    \* the queues that exist on the broker
    pc,          \* [Replicas -> where bootstrap() is]
    work,        \* [Replicas -> [next, written, schema]]: its open transaction
    channel,     \* [Replicas -> [state, asserted]]: its set-up, queue by queue
    crashes, outages, undos

database == <<schema, recorded, duplicates>>
dependencies == <<databaseUp, brokerUp, declared>>
counters == <<crashes, outages, undos>>
vars == <<schema, recorded, duplicates, databaseUp, brokerUp, declared,
          pc, work, channel, crashes, outages, undos>>

-----------------------------------------------------------------------------
(* The migrations, in the order of their timestamps.  Every statement is    *)
(* guarded: it creates what is not there and drops what is.                 *)

Create(o) == [unless |-> {o}, adds |-> {o}, drops |-> {}]
Drop(o)   == [unless |-> {}, adds |-> {}, drops |-> {o}]

CreateProcessingRequest ==
    [up   |-> <<Create("processing_request"), Create("processed_event"),
                Create("idx_processing_request_owner")>>,
     down |-> <<Drop("idx_processing_request_owner"), Drop("processed_event"),
                Drop("processing_request")>>]

CreateOutbox ==
    [up   |-> <<Create("outbox"), Create("idx_outbox_pending")>>,
     down |-> <<Drop("idx_outbox_pending"), Drop("outbox")>>]

IndexProcessingRequestOwnerCreatedAt ==
    [up   |-> <<Create("idx_processing_request_owner_created"),
                Drop("idx_processing_request_owner")>>,
     down |-> <<Create("idx_processing_request_owner"),
                Drop("idx_processing_request_owner_created")>>]

AddIdempotencyKey ==
    [up   |-> <<Create("idempotency_key"),
                Create("uq_processing_request_owner_idempotency")>>,
     down |-> <<Drop("uq_processing_request_owner_idempotency"),
                Drop("idempotency_key")>>]

UniqueOwnerSource ==
    [up   |-> <<Create("uq_processing_request_owner_source")>>,
     down |-> <<Drop("uq_processing_request_owner_source")>>]

\* The rows there are get a default, which is dropped afterwards.
AddEmailColumn ==
    [unless |-> {"owner_email"}, adds |-> {"owner_email", "owner_email default"},
     drops |-> {}]

\* Mutant: the default stays on the column.
AddOwnerEmail_KeepsDefault ==
    [up   |-> <<AddEmailColumn>>,
     down |-> <<Drop("owner_email")>>]

AddOwnerEmail ==
    [up   |-> <<AddEmailColumn, Drop("owner_email default")>>,
     down |-> <<Drop("owner_email")>>]

AddCorrelationId ==
    [up   |-> <<Create("correlation_id")>>,
     down |-> <<Drop("correlation_id")>>]

Migrations ==
    <<CreateProcessingRequest, CreateOutbox, IndexProcessingRequestOwnerCreatedAt,
      AddIdempotencyKey, UniqueOwnerSource, AddOwnerEmail, AddCorrelationId>>

Versions == DOMAIN Migrations
Latest == Len(Migrations)

\* A database that holds a duplicate fails at a unique index.
FailsOnDuplicates(v) == Migrations[v] = UniqueOwnerSource

Execute(s, statement) ==
    IF statement.unless # {} /\ statement.unless \subseteq s THEN s
    ELSE (s \ statement.drops) \cup statement.adds

Run(s, statements) ==
    LET after[n \in 0..Len(statements)] ==
          IF n = 0 THEN s ELSE Execute(after[n - 1], statements[n])
    IN  after[Len(statements)]

-----------------------------------------------------------------------------
(* What each version of the schema holds, told without the statements *)

Since == [processing_request |-> 1, processed_event |-> 1, outbox |-> 2,
          idx_processing_request_owner |-> 1, idx_outbox_pending |-> 2,
          idx_processing_request_owner_created |-> 3, idempotency_key |-> 4,
          uq_processing_request_owner_idempotency |-> 4,
          uq_processing_request_owner_source |-> 5, owner_email |-> 6,
          correlation_id |-> 7]

Objects == DOMAIN Since

SchemaAt(v) ==
    {o \in Objects : Since[o] <= v /\ (o = "idx_processing_request_owner" => v < 3)}

-----------------------------------------------------------------------------

NoWork == [next |-> 0, written |-> FALSE, schema |-> {}]

NoChannel == [state |-> "closed", asserted |-> 0]

\* Any version an earlier deployment may have left; a broker with the queues
\* that earlier set-ups, or the other services, have declared.
Init ==
    /\ recorded \in 0..Latest
    /\ schema = SchemaAt(recorded)
    /\ duplicates \in {d \in BOOLEAN :
         d => recorded > 0 /\ "uq_processing_request_owner_source" \notin schema}
    /\ databaseUp = TRUE /\ brokerUp = TRUE
    /\ declared \in SUBSET (1..Queues)
    /\ pc = [k \in Replicas |-> "down"]
    /\ work = [k \in Replicas |-> NoWork]
    /\ channel = [k \in Replicas |-> NoChannel]
    /\ crashes = 0 /\ outages = 0 /\ undos = 0

Goto(k, label) == pc' = [pc EXCEPT ![k] = label]

\* Mutant: a set-up goes on where it was when the connection went.
Disconnect_Resumes(K) ==
    channel' = [k \in Replicas |->
                  IF k \in K THEN [channel[k] EXCEPT !.state = "closed"] ELSE channel[k]]

\* A channel is gone, and what it had done of its set-up counts no more.
Disconnect(K) ==
    channel' = [k \in Replicas |-> IF k \in K THEN NoChannel ELSE channel[k]]

\* The process is gone, and its transaction with it.
Stop(K) ==
    /\ pc' = [k \in Replicas |-> IF k \in K THEN "down" ELSE pc[k]]
    /\ work' = [k \in Replicas |-> IF k \in K THEN NoWork ELSE work[k]]

Exit(K) == Stop(K) /\ Disconnect(K)

-----------------------------------------------------------------------------
(* The data source *)

Start(k) ==
    /\ pc[k] = "down"
    /\ Goto(k, "connect")
    /\ UNCHANGED <<database, dependencies, work, channel, counters>>

\* initialize() does not try again.
Initialize(k) ==
    /\ pc[k] = "connect"
    /\ IF databaseUp THEN Goto(k, "check") /\ UNCHANGED <<work, channel>> ELSE Exit({k})
    /\ UNCHANGED <<database, dependencies, counters>>

\* runMigrations() reads what is recorded, then runs the rest in a transaction.
LoadPending(k) ==
    /\ pc[k] = "check"
    /\ Goto(k, IF recorded = Latest THEN "start" ELSE "migrate")
    /\ work' = [work EXCEPT ![k].next = recorded + 1]
    /\ UNCHANGED <<database, dependencies, channel, counters>>

\* The locks of a transaction that has changed the schema keep others out.
Blocked(k) == \E j \in Replicas \ {k} : work[j].written

CanRun(k) == pc[k] = "migrate" /\ work[k].next \in Versions

\* Mutant: each migration commits by itself, and is recorded at the end.
Migrate_NoTransaction(k) ==
    LET v == work[k].next IN
    /\ CanRun(k)
    /\ ~ Blocked(k)
    /\ ~ (FailsOnDuplicates(v) /\ duplicates)
    /\ schema' = Run(schema, Migrations[v].up)
    /\ work' = [work EXCEPT ![k] = [next |-> v + 1, written |-> TRUE, schema |-> schema']]
    /\ UNCHANGED <<recorded, duplicates, dependencies, pc, channel, counters>>

\* One migration.  What it sees is what is committed, and its own changes.
Migrate(k) ==
    LET v == work[k].next
        base == IF work[k].written THEN work[k].schema ELSE schema IN
    /\ CanRun(k)
    /\ ~ Blocked(k)
    /\ ~ (FailsOnDuplicates(v) /\ duplicates)
    /\ work' = [work EXCEPT ![k] = [next |-> v + 1, written |-> TRUE,
                                    schema |-> Run(base, Migrations[v].up)]]
    /\ UNCHANGED <<database, dependencies, pc, channel, counters>>

\* The unique index cannot be built; or the statement that waited for another
\* replica finds its object in the catalogue after all, as two concurrent
\* CREATE ... IF NOT EXISTS do.
MigrationFails(k) ==
    /\ CanRun(k)
    /\ Blocked(k) \/ (FailsOnDuplicates(work[k].next) /\ duplicates)
    /\ Exit({k})
    /\ UNCHANGED <<database, dependencies, counters>>

CommitMigrations(k) ==
    /\ pc[k] = "migrate"
    /\ work[k].next = Latest + 1
    /\ schema' = work[k].schema
    /\ recorded' = Latest
    /\ work' = [work EXCEPT ![k] = NoWork]
    /\ Goto(k, "start")
    /\ UNCHANGED <<duplicates, dependencies, channel, counters>>

\* Mutant: the migrations are started, and not awaited.
Booted_NotAwaited(k) == pc[k] \in {"migrate", "start"}

Booted(k) == pc[k] = "start"

\* Providers, module init, listen: from here on the replica handles requests
\* and events, and its relay ticks.
Listen(k) ==
    /\ Booted(k)
    /\ Goto(k, "serving")
    /\ UNCHANGED <<database, dependencies, work, channel, counters>>

-----------------------------------------------------------------------------
(* The broker *)

\* One channel stands for the two of a replica, which are set up alike.
OpenChannel(k) ==
    /\ pc[k] = "serving"
    /\ brokerUp
    /\ channel[k].state = "closed"
    /\ channel' = [channel EXCEPT ![k].state = "settingUp"]
    /\ UNCHANGED <<database, dependencies, pc, work, counters>>

\* The next queue, with its dead-letter queue and their bindings.
AssertQueue(k) ==
    LET queue == channel[k].asserted + 1 IN
    /\ channel[k].state = "settingUp"
    /\ queue <= Queues
    /\ declared' = declared \cup {queue}
    /\ channel' = [channel EXCEPT ![k].asserted = queue]
    /\ UNCHANGED <<database, databaseUp, brokerUp, pc, work, counters>>

\* Mutant: the calls of the set-up are not awaited.
IsSetUp_NotAwaited(k) == channel[k].state = "settingUp"

IsSetUp(k) == channel[k].state = "settingUp" /\ channel[k].asserted = Queues

\* Consuming a queue that does not exist is a 404 that takes the process down.
Consume(k) ==
    /\ IsSetUp(k)
    /\ IF declared = 1..Queues
       THEN channel' = [channel EXCEPT ![k].state = "consuming"] /\ UNCHANGED <<pc, work>>
       ELSE Exit({k})
    /\ UNCHANGED <<database, dependencies, counters>>

\* Those that wait for an answer of the broker to a call of their set-up.
CutShort == {k \in Replicas : channel[k].state = "settingUp"}

-----------------------------------------------------------------------------
(* Faults and operations *)

Crash(k) ==
    /\ crashes < MaxCrashes /\ crashes' = crashes + 1
    /\ pc[k] # "down"
    /\ Exit({k})
    /\ UNCHANGED <<database, dependencies, outages, undos>>

Outage == outages < MaxOutages /\ outages' = outages + 1

\* Pooled connections are replaced later; a boot that is using one fails.
DatabaseDown ==
    /\ Outage
    /\ databaseUp /\ databaseUp' = FALSE
    /\ Exit({k \in Replicas : pc[k] \in {"check", "migrate"}})
    /\ UNCHANGED <<database, brokerUp, declared, crashes, undos>>

DatabaseBack ==
    /\ ~ databaseUp /\ databaseUp' = TRUE
    /\ UNCHANGED <<database, brokerUp, declared, pc, work, channel, counters>>

\* The broker may come back without what it held.  The call a set-up waits for
\* is rejected, which nobody handles: it ends the process, unless the wrapper
\* sees the channel closed first and takes it as one more reconnection.
BrokerDown ==
    /\ Outage
    /\ brokerUp /\ brokerUp' = FALSE
    /\ declared' \in {declared, {}}
    /\ \E failed \in SUBSET CutShort : Stop(failed)
    /\ Disconnect(Replicas)
    /\ UNCHANGED <<database, databaseUp, crashes, undos>>

BrokerBack ==
    /\ ~ brokerUp /\ brokerUp' = TRUE
    /\ UNCHANGED <<database, databaseUp, declared, pc, work, channel, counters>>

\* undoLastMigration(), with the service stopped.
UndoLast ==
    /\ undos < MaxUndos /\ undos' = undos + 1
    /\ databaseUp
    /\ \A k \in Replicas : pc[k] = "down"
    /\ recorded > 0
    /\ schema' = Run(schema, Migrations[recorded].down)
    /\ recorded' = recorded - 1
    /\ UNCHANGED <<duplicates, dependencies, pc, work, channel, crashes, outages>>

-----------------------------------------------------------------------------

Boot(k) ==
    \/ Start(k) \/ Initialize(k) \/ LoadPending(k) \/ Migrate(k)
    \/ MigrationFails(k) \/ CommitMigrations(k) \/ Listen(k)

Attach(k) == OpenChannel(k) \/ AssertQueue(k) \/ Consume(k)

\* Everybody consumes, and nothing is left that could fail.
Quiet == (\A k \in Replicas : channel[k].state = "consuming") /\ UNCHANGED vars

Next ==
    \/ \E k \in Replicas : Boot(k) \/ Attach(k) \/ Crash(k)
    \/ DatabaseDown \/ DatabaseBack \/ BrokerDown \/ BrokerBack
    \/ UndoLast
    \/ Quiet

Spec == Init /\ [][Next]_vars

\* The orchestrator starts what is down, a boot runs on, the connection manager
\* reconnects, and outages end.
Fairness ==
    /\ \A k \in Replicas : WF_vars(Boot(k)) /\ WF_vars(Attach(k))
    /\ WF_vars(DatabaseBack) /\ WF_vars(BrokerBack)

FairSpec == Spec /\ Fairness

-----------------------------------------------------------------------------
(* Properties *)

TypeOK ==
    /\ schema \subseteq Objects
    /\ recorded \in 0..Latest
    /\ <<duplicates, databaseUp, brokerUp>> \in BOOLEAN \X BOOLEAN \X BOOLEAN
    /\ declared \subseteq 1..Queues
    /\ pc \in [Replicas -> {"down", "connect", "check", "migrate", "start", "serving"}]
    /\ \A k \in Replicas : work[k].next \in 0..(Latest + 1)
    /\ channel \in [Replicas -> [state : {"closed", "settingUp", "consuming"},
                                asserted : 0..Queues]]
    /\ crashes <= MaxCrashes /\ outages <= MaxOutages /\ undos <= MaxUndos

\* README: migrations are applied at startup, before any event is accepted.
\* A replica that handles events finds every table, column and index, whoever
\* created them.
ServesOnFullSchema ==
    (\E k \in Replicas : pc[k] = "serving") =>
      schema = SchemaAt(Latest) /\ recorded = Latest

\* The schema is always the one of the version that is recorded, although
\* boots race, die halfway and run migrations another replica has run, and
\* migrations are undone and run again.
SchemaIsRecorded == schema = SchemaAt(recorded)

\* rabbitmq.connection.ts: a consumer never depends on a producer having connected
\* first.  Whoever is about to consume, or consumes, finds every queue, although
\* its own set-up and others' were cut short and the broker lost what they made.
ConsumersFindTheirQueues ==
    \A k \in Replicas :
      IsSetUp(k) \/ channel[k].state = "consuming" => declared = 1..Queues

\* GET /health, while the process serves.
Ready(k) == pc[k] = "serving" /\ brokerUp /\ databaseUp

\* Every replica comes up in the end, ready and consuming, whatever raced or
\* failed meanwhile, unless the database holds a duplicate.
EveryReplicaIsReady ==
    \A k \in Replicas :
      []<>(duplicates \/ (Ready(k) /\ channel[k].state = "consuming"))
=============================================================================
