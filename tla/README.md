# Formal models of the processing catalog

TLA+ models of the Catalog service (`../src`), the TLC instances that check
them and the TLAPS proofs of what holds for every instance. Paths below are
relative to `src/src/` of the repository; `PROJECT.json` maps every definition
to the lines it stands for.

## 1. The system

The Catalog owns the lifecycle of processing requests. It creates a request for
an upload, hears from the validation service and the Worker through five
RabbitMQ queues, and announces what happened through an outbox.

```
HTTP POST -> CreateProcessingRequestUseCase --+
                                              |  one transaction each
5 queues -> consumer -> use case -------------+--> processing_request
   ^                       |                       processed_event
   +--- ack / nack --------+                       outbox
                                                     |
                     OutboxRelay, one per replica ---+--> RabbitMQ
```

| component | state | operations | what makes it correct |
| --- | --- | --- | --- |
| domain (`domain/`) | none: pure functions | create, accept, start, complete, fail, reject | only the edges of the lifecycle; an event that restates the truth changes nothing |
| event use cases (`application/*.use-case.ts`) | the three tables | accept, start, complete, fail | an event is applied atomically and at most once; one terminal event per request |
| consumers and settlement (`infrastructure/rabbitmq/`) | unacked deliveries | parse, ack, dead-letter, requeue | acked means recorded; dead-lettered means no retry could help; nothing stays unsettled |
| repository, unit of work (`infrastructure/persistence/`) | connections, row locks | read, lock, insert, update, commit | a transaction decides on the row that is stored; its writes appear together |
| creation (`create-*`) | the tables | `POST /processing-requests` | one upload is one request; losers of a race answer with the winner |
| relay and scheduler (`infrastructure/messaging/`) | advisory lock, open transaction, batch | drain, tick | at least once, in order per request, marked only after the confirm |
| connection and topology | channels, queues | setup, `sendToQueue`, ack and nack | whoever consumes finds its queues; what is confirmed is on a queue; a settlement belongs to its own delivery |
| in-memory adapters (`infrastructure/in-memory-*`) | two maps, one array | the same, without transactions | the same outcome as the lifecycle |
| owner's reads (`*.query.ts`, `owned-*`) | none | list, item, archive | only the owner's rows; pages that agree with each other; answers that agree with time |
| startup and migrations (`app.module.ts`, `data-source.ts`, `migrations/`) | the schema, the migrations table | run, undo, boot | nothing is served on a partial schema, whoever races or dies |
| health | none | ready, live | an outage makes a replica not ready, and it becomes ready again |
| metrics, correlation, observation, unused publishers | gauges and log context | | they steer no request |

They interact through the tables (every use case, the relay and the reads),
through messages (producers, consumers and the broker) and through PostgreSQL's
locks (replicas). Nothing is shared in memory but the in-memory adapters, the
consume channel and the `draining` flag of a scheduler.

What is hard: consumers set no prefetch, so all events of a request may be
handled at once, on several replicas, in any order; RabbitMQ redelivers what was
not acked, so every crash between commit and ack repeats an event; a `COMMIT` can
succeed without an answer; the look-up before a transaction is out of date when
its answer is used; outbox ids are drawn before their rows become visible; the
broker may take a publish the relay has given up; a database session may end
under a running drain; a list is two queries and a walk many; replicas boot
and migrate side by side; delivery tags outlive their channel. The list with source lines is `hazards` in
`PROJECT.json`.

## 2. Modules

| module | models | extends / instantiates |
| --- | --- | --- |
| `ProcessingRequest` | the transitions and their guards | |
| `CatalogEvents` | the five events: well-formedness, staleness, the decision, the outbox row owed | `ProcessingRequest` |
| `RequestLifecycle` | abstract: each event is one atomic step | `CatalogEvents` |
| `RequestLifecycle_proofs` | proofs about it | `RequestLifecycle` |
| `EventConsumer` | handlers, broker, row locks, transactions, faults | `CatalogEvents`; implements `RequestLifecycle` |
| `EventConsumer_proofs` | invariant, refinement and their consequences | `EventConsumer`, instance of `RequestLifecycle_proofs` |
| `EventConsumerOutcomes_proofs` | dead letters, duplicates and outcomes | `EventConsumer_proofs` |
| `OutboxDelivery` | abstract: rows arrive at least once, in order per request | |
| `OutboxRelay` | relays, advisory lock, sessions, confirms, faults | implements `OutboxDelivery` |
| `OutboxRelay_proofs` | order, marks and repeats, the refinement | `OutboxRelay` |
| `RequestCreation` | abstract: a create call is one atomic step | |
| `CreateRequest` | look-ups, unique indexes, commits, lost races | `RequestCreation`, which it implements |
| `CreateRequest_proofs` | the promises of `RequestCreation` and the refinement | `CreateRequest` |
| `InMemoryConsumer` | the event use cases without a database | `CatalogEvents`, instance of `RequestLifecycle` |
| `OwnerReads` | the owner's list, item and archive over a table that changes | `ProcessingRequest` |
| `OwnerReads_proofs` | pages and ranks, walks, answers over time | `OwnerReads` |
| `CatalogSystem` | creation, consumers and relay in a loop with their neighbours | `CatalogEvents`; implements `RequestLifecycle` and `OutboxDelivery` |
| `CatalogSystem_proofs` | both refinements and what follows from them | `CatalogSystem`, instance of `RequestLifecycle_proofs` |
| `ReplicaBoot` | migrations, boot order, channel set-up, outages | |
| `ReplicaBoot_proofs` | the schema, what serves on it, the queues of the consumers | `ReplicaBoot` |
| `ChannelTags` | deliveries and settlements across a reconnection | |
| `MC*` | instances for TLC | |

`EventConsumer`, `CreateRequest` and `OutboxRelay` implement the atomic steps of
`RequestLifecycle`, `RequestCreation` and `OutboxDelivery`. `CatalogSystem` is
written at that level: its `Handle`, `Create` and `Send` are those atomic steps,
and what it adds is the loop. Composing the detailed modules instead would
multiply their interleavings without a property that tells the difference.

The guards of `RequestLifecycle` are written out and do not use
`ProcessingRequest`, so that refinement compares the code's guards with a
statement of their own rather than with themselves.

### From code to model

**EventConsumer.** A handler is one delivery being handled, on any replica: the
callback of a consumer, the use case it calls and `settleMessage`. Its `pc` moves
at the awaits: `CheckProcessed` is the parse, the field checks and
`hasEventBeenProcessed` before the transaction; `LockRequest` and `FindNothing`
are `findForUpdate`; `Decide` is the second `hasEventBeenProcessed`,
`isStaleAttempt` and the domain transition; `MarkProcessed` is the insert into
`processed_event`; `Commit` makes request, outbox row and record visible.
`after[h]` is what an open transaction has written. The handler of each event is
the same control flow with its own decision, so the five are one module and
`CatalogEvents` holds what differs (`Stale`, `Permitted`, `Transition`,
`Recorded`). A message is a record with a copy number, so an event published
twice is two messages with one `eventId`. Faults are a failed statement, a commit
without an answer, a lost broker connection and a crash. A settlement made on a
lost connection settles nothing there; `ChannelTags` is about what else it may do.

**OutboxRelay.** `rows` and `state` are the outbox by id. `Insert` draws an id
inside a transaction that holds its request's row, `Commit` makes it visible.
A drain is `TryLock`, `Select`, then `Confirm` and `Mark` per row, then `Finish`;
`batch` holds the ids it has still to publish and `NextRow` is the least of them;
the turn of the event loop that reads or marks a row also sends the next one
(`Send`). `session[k]` says whether PostgreSQL still holds the drain's
transaction: losing it frees the lock and the marks at once, and the relay learns
of it at its next statement. A publish given up at the timeout may arrive later
(`stragglers`).

**CreateRequest.** A call is a record of its fields and a number; a request is
named by the call that created it. The insert enters two unique indexes one after
the other and waits at an entry of an open transaction. `eventId` is a fresh uuid
per call (the controller mints it), so the look-up by `eventId` finds nothing.

**InMemoryConsumer.** The same use cases with one step per turn of the event
loop and no rollback. It is what runs when `DATABASE_HOST` is unset
(`app.module.ts:97-125`).

**OwnerReads.** A client makes one walk over the pages at a time, or asks for an
item or an archive. `ReadPage` and `ReadTotal` are the two queries of
`Promise.all`, in either order; `AnswerPage` is the answer. When a walk ends is
the client's rule: the first page that is not full, or the total. `Insert` is a
create with any `createdAt`: `new Date()` is called before the commit, on the
clock of its replica. `PagesByOwner` is every order PostgreSQL may use within the
`ORDER BY`, so dropping the tiebreak shows. `Insert` and `Advance` stand for the
rest of the service and use the transitions of `ProcessingRequest`. Both
adapters answer these queries alike (`findPageByOwner`, `compare`).

**CatalogSystem.** An event of another service can only be published once the row
it answers has arrived (`Knows`): the attempt of a report is one that the Worker
was given. Messages whose causes never come about stay `unsent`. A row is `sent`
between its confirm and the commit of its mark, and the Worker may answer
meanwhile. The others follow the contract of the events (`SystemAssumption`):
what becomes of a malformed message is `EventConsumer`'s subject. For the
refinement, the log of a request is the rows that carry its id, numbered in the
order of their ids (`Log`, `Place`). In the refinements, a request that is not created yet is one about
which nothing has happened, and a row that is `sent` is still pending.

**ReplicaBoot.** The schema is a set of tables, columns and indexes. A migration
is its statements, `up` and `down`, each with its `IF [NOT] EXISTS`. What every
version should hold is stated a second time, by object, in `Since`. TypeORM's
`runMigrations` reads what is recorded, then runs the rest in one transaction; a
replica that finds another one's uncommitted changes waits for them, or fails as
two concurrent `CREATE ... IF NOT EXISTS` may. Nest awaits the data source before
anything that depends on it exists; the broker is not awaited. A process that
exits is started again.

`setup` in `rabbitmq.connection.ts` is a series of awaited calls, made anew on
every connection; `AssertQueue` is one queue's part of it, and `Queues` how many
there are. The two channels of a replica are set up alike and are one here, and the
exchanges belong to the first queue. `BrokerDown` can come between any two of those
calls. The one that waits for an answer is then rejected. Nothing in `src/` listens
for errors of the channel wrapper or handles a rejection nobody awaits, so the
process ends (`Stop`); or the wrapper sees first that the channel is closed and
begins again with the next connection. Which of the two happens is up to
amqp-connection-manager, which is external, and `BrokerDown` leaves it open for each
replica. That a failed set-up takes the process down is also what the comment at
`RABBITMQ_QUEUES` says of a missing queue.

**ChannelTags.** Consumers hand the channel wrapper to `settleMessage`, and a
message carries the tag of the channel that delivered it. Tags count from 1 on
every channel. That the wrapper passes `ack` and `nack` to the channel of the
moment is how amqp-connection-manager behaves and is external to this repository.

**Abstractions.** Owner, e-mail, source key, correlation id and timestamps steer
no transition and are left out of the lifecycle. A transition always sets a new
`updatedAt`, so a returned request equals the given one only where the code
returns the same object; `isUnchanged` is equality. `randomUUID` is an attempt id
no one has seen. The backoff is a delay. Ids that are not uuids are the constant
`MalformedIds`.

## 3. Runs

| run | instance | shows |
| --- | --- | --- |
| `consumer_attempt` | 1 request, 4 messages: acceptance, start, completion, the completion restated; redeliveries after faults, 2 handlers, 2 faults, fair; 86 thousand states | refinement of the lifecycle; duplicates are absorbed; acked means recorded; every message settles; the outcome of the attempt ends its request |
| `consumer_outcomes` | 2 requests, contradicting outcomes, a leftover, an unknown code, a shared eventId, an unknown request, 2 handlers, 1 fault; 650 thousand states | one outcome wins and belongs to the current attempt; the outbox tells exactly what is stored; transactions own their rows; each commit is atomic; what is dead-lettered could not be applied |
| `relay_faults` | 2 relays, 3 rows of 2 requests whose commits overtake each other, 2 faults, fair; 0.8 million states | delivery at least once and in order per request; a marked row is on a queue; only faults repeat a row; no row is left behind |
| `create_races` | 5 calls over 2 keys and 2 sources, crossed, 1 fault, fair | one upload is one request; losers answer with the winner; no race is an error; no two inserts wait for each other |
| `reads_walks` | 3 ids, 2 owners, 2 instants, pages of 1 and 2, 2 events | a walk to the first short page shows all that was stored when it began and repeats at most what was inserted; owners see their own; answers agree with time |
| `system` | 2 requests, 5 messages, 1 fault, fair; 78 thousand states | the others were told what is stored; nothing is dead-lettered for being early; both refinements; every request ends |
| `boot` | 2 replicas, every version of the schema, 2 crashes, 2 queues, 2 outages, 1 undo, fair; 108 thousand states | nothing serves on a partial schema; the schema is the one that is recorded; whoever consumes finds every queue, although set-ups are cut short and the broker comes back empty; all replicas come up |

**Bounds.** Two handlers are the smallest number that race, and a row lock or a
key only ever has one holder and one that waits; a third handler adds waiters of
the same kind. Two faults suffice for a crash and a redelivery that fails again;
two in `relay_faults` put a straggler and a lost session into one drain.
`BatchSize = 2` with three rows makes a drain leave rows behind. Three ids and
pages of up to two are enough for a walk of three pages, for ties on `createdAt`
and for an insert on either side of the page that is read. In `boot` two crashes
can hit one replica in its migrations and the other while it waits, and with two
queues an outage finds a set-up before, between and after its calls. `MaxRows`,
`MaxFaults`, `MaxMoves`, `MaxCrashes`, `MaxOutages`, `MaxUndos`, `MaxLosses` and
`MaxErrors` bound counters and appear in guards. Handlers, owners and keys are
symmetric where a run checks no liveness. The proofs of section 4 remove every
bound from every safety property of a passing run. `relay_faults` takes the queues of the outgoing events as declared by
the platform (`PlatformQueues`): they are not in `RABBITMQ_QUEUES`, although the
comment above it says "every queue the Catalog publishes to". With
`PlatformQueues = {}` every event is confirmed, dropped and marked as published,
and `PublishedIsKept` fails at the first row.

**Deadlock** is checked in every run but `channel_tags`, which stops when all
messages are settled. `Quiet` is the state with nothing to do: no message ready
and no handler running, every request ended, or every replica consuming. Any
other state without a step would be reported, such as two handlers waiting for
each other's rows.

**Fairness.** Weak fairness of each handler's, relay's or call's own steps: the
event loop and PostgreSQL's lock queues run what can run. Strong fairness for the
delivery of each message in `EventConsumer`, because a handler may be busy
whenever another message is ready: without a prefetch limit RabbitMQ delivers
every ready message. Weak fairness per relay suffices in `OutboxRelay`: whoever
holds the lock drains, and the interval ticks for ever (`outbox-relay.scheduler.ts`).
In `CatalogSystem`, draining and handling are fair because `EveryRowIsPublished`
and `EveryMessageSettles` hold of the parts, and each of the other services owes
one answer to what reached it (`FirstAnswer`): validation a verdict, the Worker an
outcome. In `ReplicaBoot` an orchestrator starts what is down, a boot runs on,
and outages end. No fault is fair, and nobody has to make a call or an undo.

### Disagreements with the documentation

Each is a run that must be violated.

| run | the documentation | the code |
| --- | --- | --- |
| `consumer_no_request` | README: an unknown request id is dead-lettered | an id that is not a uuid fails the query, which counts as transient: requeued for ever |
| `create_retried` | README: the same owner, key and source replays the request | a key answered with another key's request stays unbound and can become a conflict |
| `reads_pages` | port and spec: the order is total, so pages never repeat or skip a row | an insert between two pages repeats one; page and total are two queries, so a client that counts can skip one |
| `channel_tags` | design: ack only after the use case returns; README: an outage never dead-letters what is in flight | after a reconnection a settlement carries the tag of the old channel and can ack or dead-letter another message |
| `memory_interleaved` | comment: a single-threaded map has no concurrent writer | read and write are separate turns; two deliveries overwrite each other |

The README also says that draining one replica at a time keeps a global
`ORDER BY id`. The query orders what it can see, and a later id may commit first,
so rows of different requests can leave out of id order; the order of each
request's rows, which is what the sentence is about, holds (`ImplementsDelivery`).

It says too that `/health/live` stays 200, so that a replica is not restarted for an
outage. No probe restarts it; but an outage in the middle of a channel set-up may end
the process all the same (`BrokerDown`). No property states that claim: what holds,
and is checked, is that the replica comes up again (`EveryReplicaIsReady`) and that
a set-up cut short leaves nobody consuming a queue that is not there.

## 4. Proofs

Every invariant and every action property of a passing run is proved, and so is
every refinement, for any sets of requests, messages, handlers, relays,
replicas, calls, owners, attempts and archives, any page and batch sizes and any
number of faults. What is assumed is named where the constants are declared:
`NoneAssumption`, `MessagesAssumption`, `HandlersAssumption`, `RelayAssumption`,
`CallsAssumption`, `FaultsAssumption`, `ReadsAssumption`, `BootAssumption` and
`SystemAssumption` say that missing values are not values, that bounds are
numbers and, for the reads, that finitely many ids exist. TLC evaluates them in
the runs. Each module has an inductive invariant, one lemma per action or group
of actions that touch the same state, and theorems that follow from it.

`RequestLifecycle_proofs`: `LifecycleInv` (types, `OutboxTellsTheRequest`,
`StatusExplained`, `AttemptsDistinct`). `OutboxTellsTheRequest` is not inductive
alone: that an accepted request has written exactly its validation row needs
`StatusExplained` to know that it had no attempt before. `TerminalRequestsAreFinal`
and `AttemptsAreFinal` follow.

`EventConsumer_proofs`: `ConsumerInv` conjoins `TypeOK`, `AckedIsRecorded`,
`LockedRowIsCurrent` and `CommitIsAtomic`, all of which the runs check. The
refinement needs, at a commit, that the row the transaction read is still the
stored one (the lock), that the event is not recorded (the key, which excludes
two transactions marked with one eventId) and that the attempt is new (fresh when
minted, and kept so against every other open transaction). The actions that touch
only their handler share `LocalStep`. Only `Commit` and `CommitUnanswered` are
steps of the lifecycle (`CommitIsLifecycleStep`); `OutboxTellsTheRequestAlways`
carries the abstract theorem over.

`EventConsumerOutcomes_proofs`: `DeadLetterIsPermanent` and `DuplicateIsAbsorbed`
speak of dead messages, but what they rest on is decided when a handler leaves
the use case with a domain error, steps before its settlement: `RefusedIsPast`
says of both moments that the request has moved past the message. With
`RecordedNamesRequest`, `HandledWasPublished`, `AcceptedHasAttempt` and
`OutcomeBelongsToAttempt` it is inductive over `ConsumerInv`. `EndedRequestsStay`
and `AttemptsStay` are the action properties of the lifecycle for the handlers
themselves.

`CreateRequest_proofs`: `CreateInv` says that open inserts and stored rows never
share an entry of an index (`IndexesAreUnique`), that a call past its checks is
valid, that only an answered call has an answer, and that a call that lost a race
has a committed winner to read (`LosersHaveWinners`), which is what makes the
look-up after the violation find something. `AnswersAgree`, `OneRequestEach` and
`OneCreator` are proved of `RequestCreation` and inherited through
`CreationImplemented`. `ErrorsAreFaults` counts the failed calls; the set of
calls may be infinite, the failed ones are not.

`OutboxRelay_proofs`: the heart of `RelayInv` is `DrainInOrder`: with each row a
relay holds every earlier row of that request that has not arrived, and a relay
with its session holds and marks only pending rows. That is true of a batch
because the transactions of one request take turns (`OpenIsLast`), so an open row
never precedes a pending one of its request; it stays true after the session is
lost because the relay stops at its next statement, and of publishes it gave up
(`StragglersInOrder`). `RepeatsAreFaults` is a budget: the arrivals of a row, plus
one for a straggler, one for each relay that lost its session and still waits for
that row, and one while no drain has it marked, never exceed one plus the faults
(`WithinBudget`). `PublishedIsKeptAlways` has the hypothesis that every route leads
to a declared queue, which is the platform's to keep (see Bounds).

`ReplicaBoot_proofs`: `BootInv` follows the transaction of a replica: what it has
written so far is the schema of the version it has come to, or, when another
replica has committed in the meantime, the full schema, over which the rest of
its statements change nothing in the end (`RerunFrom`, proved migration by
migration, and `Run`, a recursive function over the statements). At most one
replica has uncommitted changes (`OneWriter`). A channel that has asserted some of
its queues finds them declared, whoever else asserts, fails or stops, and one that
has lost its connection has asserted none (`InStep`); a set-up at its end has
therefore declared every queue (`SetUpHasDeclared`), which is
`ConsumersFindTheirQueues`, for any number of queues.

`OwnerReads_proofs`: the rank of a row is the number of the owner's rows listed
before it, and a page holds exactly the rows with ranks from its offset on
(`PagesHold`), whichever order the database uses within the `ORDER BY`. Inserts
never lower a rank (`RanksGrow`), so what was stored and not yet seen is still
ahead (`StoredIsAhead`); and an insert lifts at most one seen row, the one just
below, over the next offset, so repeats are paid for by inserts
(`RepeatsArePaid`). Both are inductive over `ReadsInv`, which also says that the
last answer still stands (`ToldStands`), and with it `AnswersNeverGoBack`.

`CatalogSystem_proofs`: `SystemInv` is the types, that nothing has happened about
a request that is not created, and that what was sent has arrived. Under it every
step is a step of `OutboxDelivery` (`DeliveryStep`) and one of `RequestLifecycle`
(`LifecycleStep`): writing a row appends to the log of its request and leaves the
other logs alone (`LogAppends`, from the numbering without gaps, `LogIsNumbered`).
The lifecycle then promises that a log is the history of the stored request, and a
row of a history shows the stored outcome or attempt (`HistoryTells`):
`ToldIsStored` needs no invariant of its own. `LoopInv` adds that an event which
names an attempt names the request's (because it answers a row that arrived) and
that every move has a recorded cause; a refused event is therefore late
(`RefusedIsLate`), which is `DeadLettersAreLate`.

Only model-checked, because liveness under fairness is outside the prover:
`EveryMessageSettles`, `AttemptOutcomeEndsRequest`, `EveryRowIsPublished`,
`EveryCallIsAnswered`, `EveryRequestEnds` and `EveryReplicaIsReady`. The
properties of `InMemoryConsumer` and `ChannelTags` are the documentation's, and
the runs refute them.

## 5. Not modelled

The local observation route, metrics, correlation and logging, the unused direct
publishers, the parsing of settings and of raw payloads (a payload is well-formed
or not), `save` over the in-memory map, the closing of channels at shutdown, and
pool exhaustion. `components` in `PROJECT.json` gives the reason for each, and the
hazards without a property say what is left to chance.

## 6. Plan

Done: domain and lifecycle, consumers, relay, creation, in-memory adapters,
owner's reads, the loop, startup, channel tags, and the proofs of section 4. Next:

1. What the documentation should say instead where a run refutes it, stated and
   proved: which message a stale settlement can reach in `ChannelTags`, what an
   unbound key can be taken by in `CreateRequest`.
2. `Settings`: the millisecond parsers against reference definitions.
