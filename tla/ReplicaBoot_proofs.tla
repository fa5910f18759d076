------------------------- MODULE ReplicaBoot_proofs -------------------------
(***************************************************************************)
(* What booting promises for any number of replicas, queues, crashes,      *)
(* outages and undone migrations.                                          *)
(***************************************************************************)
EXTENDS ReplicaBoot, TLAPS

USE BootAssumption

-----------------------------------------------------------------------------
(* What the migrations do *)

LEMMA RunUnfolds ==
    ASSUME NEW s, NEW st, NEW n \in 1..3, Len(st) = n
    PROVE  LET one == Execute(s, st[1])
               two == Execute(one, st[2])
           IN  Run(s, st) = CASE n = 1 -> one [] n = 2 -> two [] n = 3 -> Execute(two, st[3])
<1> DEFINE one == Execute(s, st[1])
           two == Execute(one, st[2])
           E(f) == [m \in 0..n |-> IF m = 0 THEN s ELSE Execute(f[m - 1], st[m])]
           F == CHOOSE f : f = E(f)
           g == [m \in 0..n |-> CASE m = 0 -> s [] m = 1 -> one [] m = 2 -> two
                                  [] m = 3 -> Execute(two, st[3])]
<1>1. Run(s, st) = F[n]
  BY DEF Run
<1>2. g = E(g)
  OBVIOUS
<1>3. F = E(F)
  <2> HIDE DEF E, g
  <2> QED
    BY <1>2
<1>4. F = [m \in 0..n |-> IF m = 0 THEN s ELSE Execute(F[m - 1], st[m])]
  <2> HIDE DEF F
  <2> QED
    BY <1>3
<1>5. /\ F[0] = s /\ F[1] = Execute(F[0], st[1])
      /\ n > 1 => F[2] = Execute(F[1], st[2])
      /\ n > 2 => F[3] = Execute(F[2], st[3])
  <2> HIDE DEF F
  <2> QED
    BY <1>4
<1> QED
  <2> HIDE DEF F
  <2> QED
    BY <1>1, <1>5

LEMMA RunOne == ASSUME NEW s, NEW a PROVE Run(s, <<a>>) = Execute(s, a)
BY RunUnfolds, Len(<<a>>) = 1

LEMMA RunTwo ==
    ASSUME NEW s, NEW a, NEW b PROVE Run(s, <<a, b>>) = Execute(Execute(s, a), b)
BY RunUnfolds, Len(<<a, b>>) = 2

LEMMA RunThree ==
    ASSUME NEW s, NEW a, NEW b, NEW c
    PROVE  Run(s, <<a, b, c>>) = Execute(Execute(Execute(s, a), b), c)
BY RunUnfolds, Len(<<a, b, c>>) = 3

\* A guarded statement creates what is not there and drops what is.
LEMMA ExecuteCreate == ASSUME NEW s, NEW o PROVE Execute(s, Create(o)) = s \cup {o}
BY DEF Execute, Create

LEMMA ExecuteDrop == ASSUME NEW s, NEW o PROVE Execute(s, Drop(o)) = s \ {o}
BY DEF Execute, Drop

\* The column for the e-mail is added with a default unless it is there, and the
\* default is dropped.
LEMMA ExecuteAddEmail ==
    ASSUME NEW s
    PROVE  Execute(Execute(s, AddEmailColumn), Drop("owner_email default"))
             = (s \cup {"owner_email"}) \ {"owner_email default"}
<1> DEFINE added == Execute(s, AddEmailColumn)
<1>1. added = IF "owner_email" \in s THEN s ELSE s \cup {"owner_email", "owner_email default"}
  BY DEF Execute, AddEmailColumn
<1>2. added \ {"owner_email default"} = (s \cup {"owner_email"}) \ {"owner_email default"}
  <2> HIDE DEF added
  <2> QED
    BY <1>1
<1> QED
  BY <1>2, ExecuteDrop

LEMMA MigrationsAre ==
    /\ Latest = 7 /\ Versions = 1..7
    /\ Migrations[1] = CreateProcessingRequest
    /\ Migrations[2] = CreateOutbox
    /\ Migrations[3] = IndexProcessingRequestOwnerCreatedAt
    /\ Migrations[4] = AddIdempotencyKey
    /\ Migrations[5] = UniqueOwnerSource
    /\ Migrations[6] = AddOwnerEmail
    /\ Migrations[7] = AddCorrelationId
BY DEF Migrations, Latest, Versions

\* What a migration leaves of any set of objects.
LEMMA UpEffects ==
    ASSUME NEW s
    PROVE  /\ Run(s, CreateProcessingRequest.up)
                = s \cup {"processing_request", "processed_event", "idx_processing_request_owner"}
           /\ Run(s, CreateOutbox.up) = s \cup {"outbox", "idx_outbox_pending"}
           /\ Run(s, IndexProcessingRequestOwnerCreatedAt.up)
                = (s \cup {"idx_processing_request_owner_created"})
                    \ {"idx_processing_request_owner"}
           /\ Run(s, AddIdempotencyKey.up)
                = s \cup {"idempotency_key", "uq_processing_request_owner_idempotency"}
           /\ Run(s, UniqueOwnerSource.up) = s \cup {"uq_processing_request_owner_source"}
           /\ Run(s, AddOwnerEmail.up) = (s \cup {"owner_email"}) \ {"owner_email default"}
           /\ Run(s, AddCorrelationId.up) = s \cup {"correlation_id"}
<1>1. Run(s, CreateProcessingRequest.up)
        = s \cup {"processing_request", "processed_event", "idx_processing_request_owner"}
  <2>1. ((s \cup {"processing_request"}) \cup {"processed_event"})
          \cup {"idx_processing_request_owner"}
          = s \cup {"processing_request", "processed_event", "idx_processing_request_owner"}
    OBVIOUS
  <2> QED
    BY <2>1, RunThree, ExecuteCreate DEF CreateProcessingRequest
<1>2. Run(s, CreateOutbox.up) = s \cup {"outbox", "idx_outbox_pending"}
  <2>1. (s \cup {"outbox"}) \cup {"idx_outbox_pending"} = s \cup {"outbox", "idx_outbox_pending"}
    OBVIOUS
  <2> QED
    BY <2>1, RunTwo, ExecuteCreate DEF CreateOutbox
<1>3. Run(s, IndexProcessingRequestOwnerCreatedAt.up)
        = (s \cup {"idx_processing_request_owner_created"}) \ {"idx_processing_request_owner"}
  BY RunTwo, ExecuteCreate, ExecuteDrop DEF IndexProcessingRequestOwnerCreatedAt
<1>4. Run(s, AddIdempotencyKey.up)
        = s \cup {"idempotency_key", "uq_processing_request_owner_idempotency"}
  <2>1. (s \cup {"idempotency_key"}) \cup {"uq_processing_request_owner_idempotency"}
          = s \cup {"idempotency_key", "uq_processing_request_owner_idempotency"}
    OBVIOUS
  <2> QED
    BY <2>1, RunTwo, ExecuteCreate DEF AddIdempotencyKey
<1>5. Run(s, UniqueOwnerSource.up) = s \cup {"uq_processing_request_owner_source"}
  BY RunOne, ExecuteCreate DEF UniqueOwnerSource
<1>6. Run(s, AddOwnerEmail.up) = (s \cup {"owner_email"}) \ {"owner_email default"}
  <2>1. AddOwnerEmail.up = <<AddEmailColumn, Drop("owner_email default")>>
    BY DEF AddOwnerEmail
  <2>2. Run(s, <<AddEmailColumn, Drop("owner_email default")>>)
          = Execute(Execute(s, AddEmailColumn), Drop("owner_email default"))
    <3>1. PICK a, b : a = AddEmailColumn /\ b = Drop("owner_email default")
      OBVIOUS
    <3>2. Run(s, <<a, b>>) = Execute(Execute(s, a), b)
      BY RunTwo
    <3> QED
      BY <3>1, <3>2
  <2> QED
    BY <2>1, <2>2, ExecuteAddEmail
<1>7. Run(s, AddCorrelationId.up) = s \cup {"correlation_id"}
  BY RunOne, ExecuteCreate DEF AddCorrelationId
<1> QED
  BY <1>1, <1>2, <1>3, <1>4, <1>5, <1>6, <1>7

LEMMA DownEffects ==
    ASSUME NEW s
    PROVE  /\ Run(s, CreateProcessingRequest.down)
                = s \ {"processing_request", "processed_event", "idx_processing_request_owner"}
           /\ Run(s, CreateOutbox.down) = s \ {"outbox", "idx_outbox_pending"}
           /\ Run(s, IndexProcessingRequestOwnerCreatedAt.down)
                = (s \cup {"idx_processing_request_owner"})
                    \ {"idx_processing_request_owner_created"}
           /\ Run(s, AddIdempotencyKey.down)
                = s \ {"idempotency_key", "uq_processing_request_owner_idempotency"}
           /\ Run(s, UniqueOwnerSource.down) = s \ {"uq_processing_request_owner_source"}
           /\ Run(s, AddOwnerEmail.down) = s \ {"owner_email"}
           /\ Run(s, AddCorrelationId.down) = s \ {"correlation_id"}
<1>1. Run(s, CreateProcessingRequest.down)
        = s \ {"processing_request", "processed_event", "idx_processing_request_owner"}
  <2>1. ((s \ {"idx_processing_request_owner"}) \ {"processed_event"}) \ {"processing_request"}
          = s \ {"processing_request", "processed_event", "idx_processing_request_owner"}
    OBVIOUS
  <2> QED
    BY <2>1, RunThree, ExecuteDrop DEF CreateProcessingRequest
<1>2. Run(s, CreateOutbox.down) = s \ {"outbox", "idx_outbox_pending"}
  <2>1. (s \ {"idx_outbox_pending"}) \ {"outbox"} = s \ {"outbox", "idx_outbox_pending"}
    OBVIOUS
  <2> QED
    BY <2>1, RunTwo, ExecuteDrop DEF CreateOutbox
<1>3. Run(s, IndexProcessingRequestOwnerCreatedAt.down)
        = (s \cup {"idx_processing_request_owner"}) \ {"idx_processing_request_owner_created"}
  BY RunTwo, ExecuteCreate, ExecuteDrop DEF IndexProcessingRequestOwnerCreatedAt
<1>4. Run(s, AddIdempotencyKey.down)
        = s \ {"idempotency_key", "uq_processing_request_owner_idempotency"}
  <2>1. (s \ {"uq_processing_request_owner_idempotency"}) \ {"idempotency_key"}
          = s \ {"idempotency_key", "uq_processing_request_owner_idempotency"}
    OBVIOUS
  <2> QED
    BY <2>1, RunTwo, ExecuteDrop DEF AddIdempotencyKey
<1>5. /\ Run(s, UniqueOwnerSource.down) = s \ {"uq_processing_request_owner_source"}
      /\ Run(s, AddOwnerEmail.down) = s \ {"owner_email"}
      /\ Run(s, AddCorrelationId.down) = s \ {"correlation_id"}
  BY RunOne, ExecuteDrop DEF UniqueOwnerSource, AddOwnerEmail, AddCorrelationId
<1> QED
  BY <1>1, <1>2, <1>3, <1>4, <1>5

\* Every version of the schema, object by object.
LEMMA InSchemaAt ==
    ASSUME NEW v \in 0..7, NEW o
    PROVE  o \in SchemaAt(v) <=>
             \/ o \in {"processing_request", "processed_event"} /\ v >= 1
             \/ o = "idx_processing_request_owner" /\ v \in 1..2
             \/ o \in {"outbox", "idx_outbox_pending"} /\ v >= 2
             \/ o = "idx_processing_request_owner_created" /\ v >= 3
             \/ o \in {"idempotency_key", "uq_processing_request_owner_idempotency"} /\ v >= 4
             \/ o = "uq_processing_request_owner_source" /\ v >= 5
             \/ o = "owner_email" /\ v >= 6
             \/ o = "correlation_id" /\ v >= 7
<1>1. Objects =
        {"processing_request", "processed_event", "outbox", "idx_processing_request_owner",
         "idx_outbox_pending", "idx_processing_request_owner_created", "idempotency_key",
         "uq_processing_request_owner_idempotency", "uq_processing_request_owner_source",
         "owner_email", "correlation_id"}
  BY DEF Objects, Since
<1>2. CASE o \notin Objects
  BY <1>1, <1>2 DEF SchemaAt
<1>3. CASE o \in Objects
  <2>1. o \in SchemaAt(v) <=> Since[o] <= v /\ (o = "idx_processing_request_owner" => v < 3)
    BY <1>3 DEF SchemaAt
  <2>2. /\ o \in {"processing_request", "processed_event", "idx_processing_request_owner"}
             => Since[o] = 1
        /\ o \in {"outbox", "idx_outbox_pending"} => Since[o] = 2
        /\ o = "idx_processing_request_owner_created" => Since[o] = 3
        /\ o \in {"idempotency_key", "uq_processing_request_owner_idempotency"} => Since[o] = 4
        /\ o = "uq_processing_request_owner_source" => Since[o] = 5
        /\ o = "owner_email" => Since[o] = 6
        /\ o = "correlation_id" => Since[o] = 7
    BY DEF Since
  <2> HIDE DEF Since
  <2> QED
    BY <1>1, <1>3, <2>1, <2>2
<1> QED
  BY <1>2, <1>3

\* The default that AddOwnerEmail gives the column belongs to no version.
LEMMA DefaultIsNoObject == ASSUME NEW v PROVE "owner_email default" \notin SchemaAt(v)
<1>1. "owner_email default" \notin Objects
  BY DEF Objects, Since
<1> QED
  BY <1>1 DEF SchemaAt

LEMMA SchemaSteps ==
    /\ SchemaAt(0) = {}
    /\ SchemaAt(1) = {"processing_request", "processed_event", "idx_processing_request_owner"}
    /\ SchemaAt(2) = SchemaAt(1) \cup {"outbox", "idx_outbox_pending"}
    /\ SchemaAt(3) = (SchemaAt(2) \cup {"idx_processing_request_owner_created"})
                       \ {"idx_processing_request_owner"}
    /\ SchemaAt(4) = SchemaAt(3)
                       \cup {"idempotency_key", "uq_processing_request_owner_idempotency"}
    /\ SchemaAt(5) = SchemaAt(4) \cup {"uq_processing_request_owner_source"}
    /\ SchemaAt(6) = (SchemaAt(5) \cup {"owner_email"}) \ {"owner_email default"}
    /\ SchemaAt(7) = SchemaAt(6) \cup {"correlation_id"}
<1>1. SchemaAt(0) = {}
  BY InSchemaAt
<1>2. SchemaAt(1) = {"processing_request", "processed_event", "idx_processing_request_owner"}
  BY InSchemaAt
<1>3. SchemaAt(2) = SchemaAt(1) \cup {"outbox", "idx_outbox_pending"}
  BY InSchemaAt
<1>4. SchemaAt(3) = (SchemaAt(2) \cup {"idx_processing_request_owner_created"})
                       \ {"idx_processing_request_owner"}
  BY InSchemaAt
<1>5. SchemaAt(4) = SchemaAt(3)
                       \cup {"idempotency_key", "uq_processing_request_owner_idempotency"}
  BY InSchemaAt
<1>6. SchemaAt(5) = SchemaAt(4) \cup {"uq_processing_request_owner_source"}
  BY InSchemaAt
<1>7. SchemaAt(6) = (SchemaAt(5) \cup {"owner_email"}) \ {"owner_email default"}
  <2>1. SchemaAt(6) = SchemaAt(5) \cup {"owner_email"}
    BY InSchemaAt
  <2>2. "owner_email default" \notin SchemaAt(6)
    BY DefaultIsNoObject
  <2> QED
    BY <2>1, <2>2
<1>8. SchemaAt(7) = SchemaAt(6) \cup {"correlation_id"}
  BY InSchemaAt
<1> QED
  BY <1>1, <1>2, <1>3, <1>4, <1>5, <1>6, <1>7, <1>8

LEMMA SchemaStepsBack ==
    /\ SchemaAt(0) = SchemaAt(1)
                       \ {"processing_request", "processed_event", "idx_processing_request_owner"}
    /\ SchemaAt(1) = SchemaAt(2) \ {"outbox", "idx_outbox_pending"}
    /\ SchemaAt(2) = (SchemaAt(3) \cup {"idx_processing_request_owner"})
                       \ {"idx_processing_request_owner_created"}
    /\ SchemaAt(3) = SchemaAt(4) \ {"idempotency_key", "uq_processing_request_owner_idempotency"}
    /\ SchemaAt(4) = SchemaAt(5) \ {"uq_processing_request_owner_source"}
    /\ SchemaAt(5) = SchemaAt(6) \ {"owner_email"}
    /\ SchemaAt(6) = SchemaAt(7) \ {"correlation_id"}
BY InSchemaAt

\* A migration takes the schema to the next version, and undoing it takes it back.
LEMMA UpIsNext ==
    ASSUME NEW v \in Versions PROVE Run(SchemaAt(v - 1), Migrations[v].up) = SchemaAt(v)
<1>1. Run(SchemaAt(0), CreateProcessingRequest.up) = SchemaAt(1)
  BY UpEffects, SchemaSteps
<1>2. Run(SchemaAt(1), CreateOutbox.up) = SchemaAt(2)
  BY UpEffects, SchemaSteps
<1>3. Run(SchemaAt(2), IndexProcessingRequestOwnerCreatedAt.up) = SchemaAt(3)
  BY UpEffects, SchemaSteps
<1>4. Run(SchemaAt(3), AddIdempotencyKey.up) = SchemaAt(4)
  BY UpEffects, SchemaSteps
<1>5. Run(SchemaAt(4), UniqueOwnerSource.up) = SchemaAt(5)
  BY UpEffects, SchemaSteps
<1>6. Run(SchemaAt(5), AddOwnerEmail.up) = SchemaAt(6)
  BY UpEffects, SchemaSteps
<1>7. Run(SchemaAt(6), AddCorrelationId.up) = SchemaAt(7)
  BY UpEffects, SchemaSteps
<1> QED
  BY <1>1, <1>2, <1>3, <1>4, <1>5, <1>6, <1>7, MigrationsAre

LEMMA DownIsBack ==
    ASSUME NEW v \in Versions PROVE Run(SchemaAt(v), Migrations[v].down) = SchemaAt(v - 1)
<1>1. Run(SchemaAt(1), CreateProcessingRequest.down) = SchemaAt(0)
  BY DownEffects, SchemaStepsBack
<1>2. Run(SchemaAt(2), CreateOutbox.down) = SchemaAt(1)
  BY DownEffects, SchemaStepsBack
<1>3. Run(SchemaAt(3), IndexProcessingRequestOwnerCreatedAt.down) = SchemaAt(2)
  BY DownEffects, SchemaStepsBack
<1>4. Run(SchemaAt(4), AddIdempotencyKey.down) = SchemaAt(3)
  BY DownEffects, SchemaStepsBack
<1>5. Run(SchemaAt(5), UniqueOwnerSource.down) = SchemaAt(4)
  BY DownEffects, SchemaStepsBack
<1>6. Run(SchemaAt(6), AddOwnerEmail.down) = SchemaAt(5)
  BY DownEffects, SchemaStepsBack
<1>7. Run(SchemaAt(7), AddCorrelationId.down) = SchemaAt(6)
  BY DownEffects, SchemaStepsBack
<1> QED
  BY <1>1, <1>2, <1>3, <1>4, <1>5, <1>6, <1>7, MigrationsAre

\* A replica that finds its migrations done by another one runs them again: the
\* guarded statements leave the full schema, but for the old index, which the
\* first migration creates and the third one drops.
OldIndex == "idx_processing_request_owner"

RerunFrom(v, s) ==
    \/ s = SchemaAt(Latest)
    \/ v \in 2..3 /\ s = SchemaAt(Latest) \cup {OldIndex}

LEMMA FullSchema ==
    /\ SchemaAt(7) =
         {"processing_request", "processed_event", "outbox", "idx_outbox_pending",
          "idx_processing_request_owner_created", "idempotency_key",
          "uq_processing_request_owner_idempotency", "uq_processing_request_owner_source",
          "owner_email", "correlation_id"}
    /\ "idx_processing_request_owner" \notin SchemaAt(7)
<1>1. "idx_processing_request_owner" \notin SchemaAt(7)
  BY DEF SchemaAt
<1> QED
  BY <1>1, InSchemaAt

LEMMA UpAgain ==
    ASSUME NEW v \in Versions, NEW s, RerunFrom(v, s)
    PROVE  RerunFrom(v + 1, Run(s, Migrations[v].up))
<1> DEFINE full == SchemaAt(7)
           old == "idx_processing_request_owner"
           result == Run(s, Migrations[v].up)
<1>1. s = full \/ (v \in 2..3 /\ s = full \cup {old})
  BY MigrationsAre DEF RerunFrom, OldIndex
<1>2. old \notin full /\ "owner_email default" \notin full
  BY FullSchema, DefaultIsNoObject
<1>3. /\ {"processing_request", "processed_event"} \subseteq full
      /\ {"outbox", "idx_outbox_pending"} \subseteq full
      /\ "idx_processing_request_owner_created" \in full
      /\ {"idempotency_key", "uq_processing_request_owner_idempotency"} \subseteq full
      /\ "uq_processing_request_owner_source" \in full
      /\ "owner_email" \in full
      /\ "correlation_id" \in full
  BY FullSchema
<1>4. v \in 1..7
  BY MigrationsAre
<1>5. ASSUME result = full PROVE RerunFrom(v + 1, result)
  BY <1>5, MigrationsAre DEF RerunFrom
<1>6. CASE v = 1
  <2>1. result = s \cup {"processing_request", "processed_event", old}
    BY <1>6, UpEffects, MigrationsAre
  <2>2. result = full \cup {old}
    <3> HIDE DEF result, full
    <3> QED
      BY <1>1, <1>3, <1>6, <2>1
  <2> QED
    BY <1>6, <2>2, MigrationsAre DEF RerunFrom, OldIndex
<1>7. CASE v = 2
  <2>1. result = s \cup {"outbox", "idx_outbox_pending"}
    BY <1>7, UpEffects, MigrationsAre
  <2>2. result = s
    <3> HIDE DEF result, full
    <3> QED
      BY <1>1, <1>3, <2>1
  <2> QED
    BY <1>1, <1>7, <2>2, MigrationsAre DEF RerunFrom, OldIndex
<1>8. CASE v = 3
  <2>1. result = (s \cup {"idx_processing_request_owner_created"}) \ {old}
    BY <1>8, UpEffects, MigrationsAre
  <2>2. result = full
    <3> HIDE DEF result, full
    <3> QED
      BY <1>1, <1>2, <1>3, <2>1
  <2> QED
    BY <1>5, <2>2
<1>9. CASE v \in 4..7
  <2>1. s = full
    BY <1>1, <1>9
  <2>2. CASE v = 4
    <3>1. result = s \cup {"idempotency_key", "uq_processing_request_owner_idempotency"}
      BY <2>2, UpEffects, MigrationsAre
    <3>2. result = full
      <4> HIDE DEF result, full
      <4> QED
        BY <1>3, <2>1, <3>1
    <3> QED
      BY <1>5, <3>2
  <2>3. CASE v = 5
    <3>1. result = s \cup {"uq_processing_request_owner_source"}
      BY <2>3, UpEffects, MigrationsAre
    <3>2. result = full
      <4> HIDE DEF result, full
      <4> QED
        BY <1>3, <2>1, <3>1
    <3> QED
      BY <1>5, <3>2
  <2>4. CASE v = 6
    <3>1. result = (s \cup {"owner_email"}) \ {"owner_email default"}
      BY <2>4, UpEffects, MigrationsAre
    <3>2. result = full
      <4> HIDE DEF result, full
      <4> QED
        BY <1>2, <1>3, <2>1, <3>1
    <3> QED
      BY <1>5, <3>2
  <2>5. CASE v = 7
    <3>1. result = s \cup {"correlation_id"}
      BY <2>5, UpEffects, MigrationsAre
    <3>2. result = full
      <4> HIDE DEF result, full
      <4> QED
        BY <1>3, <2>1, <3>1
    <3> QED
      BY <1>5, <3>2
  <2> QED
    BY <1>9, <2>2, <2>3, <2>4, <2>5
<1> QED
  BY <1>4, <1>6, <1>7, <1>8, <1>9

-----------------------------------------------------------------------------
(* The inductive invariant.  A replica that migrates holds, in its          *)
(* transaction, the schema of the version it has come to; or, when another  *)
(* replica has committed meanwhile, the full one.                           *)

Channels == [state : {"closed", "settingUp", "consuming"}, asserted : 0..Queues]

\* TypeOK, flag by flag.
Typed ==
    /\ schema \subseteq Objects
    /\ recorded \in 0..7
    /\ duplicates \in BOOLEAN /\ databaseUp \in BOOLEAN
    /\ brokerUp \in BOOLEAN /\ declared \subseteq 1..Queues
    /\ pc \in [Replicas -> {"down", "connect", "check", "migrate", "start", "serving"}]
    /\ \A k \in Replicas : work[k].next \in 0..8
    /\ channel \in [Replicas -> Channels]
    /\ crashes <= MaxCrashes /\ outages <= MaxOutages /\ undos <= MaxUndos

LEMMA TypeParts == TypeOK <=> Typed
<1>1. <<duplicates, databaseUp, brokerUp>> \in BOOLEAN \X BOOLEAN \X BOOLEAN
        <=> duplicates \in BOOLEAN /\ databaseUp \in BOOLEAN /\ brokerUp \in BOOLEAN
  OBVIOUS
<1>2. Latest = 7 /\ Latest + 1 = 8
  BY MigrationsAre
<1> QED
  BY <1>1, <1>2 DEF TypeOK, Typed, Channels

WorkOK ==
    /\ work \in [Replicas -> [next : 0..8, written : BOOLEAN, schema : SUBSET Objects]]
    /\ crashes \in Nat /\ outages \in Nat /\ undos \in Nat

OneWriter == \A j, k \in Replicas : work[j].written /\ work[k].written => j = k

\* What the transaction of a replica that has changed the schema holds.
HasCome(k) ==
    /\ work[k].next \in 2..8
    /\ recorded < 7 => work[k].schema = SchemaAt(work[k].next - 1)
    /\ recorded = 7 => RerunFrom(work[k].next, work[k].schema)

InStep(k) ==
    /\ work[k].written => pc[k] = "migrate" /\ HasCome(k)
    /\ pc[k] = "migrate" /\ ~ work[k].written
         => work[k].next \in 1..7 /\ (recorded < 7 => work[k].next = recorded + 1)
    /\ pc[k] \in {"start", "serving"} => recorded = 7
    /\ channel[k].state # "closed" => pc[k] = "serving"
    /\ channel[k].state = "consuming" => channel[k].asserted = Queues
    /\ 1..channel[k].asserted \subseteq declared

BootInv ==
    Typed /\ WorkOK /\ SchemaIsRecorded /\ OneWriter /\ \A k \in Replicas : InStep(k)

USE BootAssumption

LEMMA SchemaIsOfObjects == \A v : SchemaAt(v) \subseteq Objects
BY DEF SchemaAt

\* A channel that is closed has set nothing up.
LEMMA NoChannelIsEmpty ==
    /\ NoChannel \in Channels
    /\ NoChannel.state = "closed" /\ 1..NoChannel.asserted = {}
BY DEF NoChannel, Channels

LEMMA InitBoot == Init => BootInv
<1> SUFFICES ASSUME Init PROVE BootInv
  OBVIOUS
<1> USE DEF Init
<1>1. Typed
  BY SchemaIsOfObjects, MigrationsAre, NoChannelIsEmpty DEF Typed, NoWork
<1>2. WorkOK /\ SchemaIsRecorded /\ OneWriter
  BY DEF WorkOK, SchemaIsRecorded, OneWriter, NoWork
<1>3. \A k \in Replicas : InStep(k)
  BY NoChannelIsEmpty DEF InStep, NoWork
<1> QED
  BY <1>1, <1>2, <1>3 DEF BootInv

\* A replica keeps in step when nothing of its own changes but its channel, which
\* may close.
LEMMA StaysInStep ==
    ASSUME NEW k \in Replicas, InStep(k),
           pc'[k] = pc[k], work'[k] = work[k], recorded' = recorded,
           \/ channel'[k] = NoChannel
           \/ channel'[k] = channel[k] /\ declared \subseteq declared'
    PROVE  InStep(k)'
<1>1. HasCome(k)' <=> HasCome(k)
  BY DEF HasCome
<1> QED
  BY <1>1, NoChannelIsEmpty DEF InStep

\* Whoever stops drops its transaction, and whoever stays is as before, but for
\* its channel, which may close.
LEMMA StopInStep ==
    ASSUME BootInv, NEW K \in SUBSET Replicas, Stop(K), UNCHANGED database,
           declared' \subseteq 1..Queues, brokerUp' \in BOOLEAN, databaseUp' \in BOOLEAN,
           channel' \in [Replicas -> Channels],
           \A k \in Replicas :
             \/ channel'[k] = NoChannel
             \/ k \notin K /\ channel'[k] = channel[k] /\ declared \subseteq declared',
           crashes' \in Nat, crashes' <= MaxCrashes,
           outages' \in Nat, outages' <= MaxOutages, UNCHANGED undos
    PROVE  BootInv'
<1> USE DEF BootInv
<1>1. /\ pc \in [Replicas -> {"down", "connect", "check", "migrate", "start", "serving"}]
      /\ work \in [Replicas -> [next : 0..8, written : BOOLEAN, schema : SUBSET Objects]]
  BY DEF Typed, WorkOK
<1>2. NoWork \in [next : 0..8, written : BOOLEAN, schema : SUBSET Objects]
  BY DEF NoWork
<1>3. /\ pc' \in [Replicas -> {"down", "connect", "check", "migrate", "start", "serving"}]
      /\ work' \in [Replicas -> [next : 0..8, written : BOOLEAN, schema : SUBSET Objects]]
  BY <1>1, <1>2 DEF Stop
<1>4. \A k \in Replicas : work'[k].next \in 0..8
  BY <1>3
<1>5. Typed'
  <2>1. schema' = schema /\ recorded' = recorded /\ duplicates' = duplicates
    BY DEF database
  <2> QED
    BY <1>3, <1>4, <2>1 DEF Typed, Channels
<1>6. WorkOK'
  BY <1>3 DEF WorkOK
<1>7. SchemaIsRecorded'
  BY DEF SchemaIsRecorded, database
<1>8. ~ NoWork.written
  BY DEF NoWork
<1>9. OneWriter'
  BY <1>8 DEF OneWriter, Stop
<1>10. ASSUME NEW k \in Replicas PROVE InStep(k)'
  <2>1. CASE k \in K
    <3>1. pc'[k] = "down" /\ ~ work'[k].written /\ channel'[k] = NoChannel
      BY <1>8, <2>1 DEF Stop
    <3> QED
      BY <3>1, NoChannelIsEmpty DEF InStep
  <2>2. CASE k \notin K
    <3>1. pc'[k] = pc[k] /\ work'[k] = work[k] /\ recorded' = recorded
      BY <2>2 DEF Stop, database
    <3> QED
      BY <3>1, StaysInStep
  <2> QED
    BY <2>1, <2>2
<1> QED
  BY <1>5, <1>6, <1>7, <1>9, <1>10

LEMMA ExitInStep ==
    ASSUME BootInv, NEW K \in SUBSET Replicas, Exit(K), UNCHANGED database,
           declared' = declared, brokerUp' = brokerUp, databaseUp' \in BOOLEAN,
           crashes' \in Nat, crashes' <= MaxCrashes,
           outages' \in Nat, outages' <= MaxOutages, UNCHANGED undos
    PROVE  BootInv'
<1>1. /\ channel \in [Replicas -> Channels]
      /\ declared' \subseteq 1..Queues /\ brokerUp' \in BOOLEAN
  BY DEF BootInv, Typed
<1>2. channel' \in [Replicas -> Channels]
  BY <1>1, NoChannelIsEmpty DEF Exit, Disconnect
<1>3. ASSUME NEW k \in Replicas
      PROVE  \/ channel'[k] = NoChannel
             \/ k \notin K /\ channel'[k] = channel[k] /\ declared \subseteq declared'
  BY DEF Exit, Disconnect
<1>4. Stop(K)
  BY DEF Exit
<1> QED
  BY <1>1, <1>2, <1>3, <1>4, StopInStep

-----------------------------------------------------------------------------
(* One lemma for each action *)

LEMMA StartInv == ASSUME BootInv, NEW k \in Replicas, Start(k) PROVE BootInv'
<1> USE DEF BootInv, Start, Goto, database, dependencies, counters
<1>1. Typed' /\ WorkOK' /\ SchemaIsRecorded' /\ OneWriter'
  BY DEF Typed, WorkOK, SchemaIsRecorded, OneWriter
<1>2. pc'[k] = "connect" /\ ~ work'[k].written /\ channel'[k].state = "closed"
  BY DEF Typed, InStep
<1>3. ASSUME NEW j \in Replicas PROVE InStep(j)'
  <2>1. CASE j = k
    BY <1>2, <2>1 DEF InStep
  <2>2. CASE j # k
    <3>1. pc'[j] = pc[j]
      BY <2>2 DEF Typed
    <3> QED
      BY <3>1, StaysInStep
  <2> QED
    BY <2>1, <2>2
<1> QED
  BY <1>1, <1>3

LEMMA InitializeInv == ASSUME BootInv, NEW k \in Replicas, Initialize(k) PROVE BootInv'
<1>1. CASE databaseUp
  <2> USE DEF BootInv, Initialize, Goto, database, dependencies, counters
  <2>1. Typed' /\ WorkOK' /\ SchemaIsRecorded' /\ OneWriter'
    BY <1>1 DEF Typed, WorkOK, SchemaIsRecorded, OneWriter
  <2>2. pc'[k] = "check" /\ ~ work'[k].written /\ channel'[k].state = "closed"
    BY <1>1 DEF Typed, InStep
  <2>3. ASSUME NEW j \in Replicas PROVE InStep(j)'
    <3>1. CASE j = k
      <4>1. InStep(k) /\ UNCHANGED <<channel, declared>>
        BY <1>1
      <4> QED
        BY <2>2, <3>1, <4>1 DEF InStep
    <3>2. CASE j # k
      <4>1. pc'[j] = pc[j]
        BY <1>1, <3>2 DEF Typed
      <4> QED
        BY <1>1, <4>1, StaysInStep
    <3> QED
      BY <3>1, <3>2
  <2> QED
    BY <2>1, <2>3
<1>2. CASE ~ databaseUp
  <2>1. Exit({k}) /\ UNCHANGED database /\ UNCHANGED dependencies /\ UNCHANGED counters
    BY <1>2 DEF Initialize
  <2>2. /\ declared' = declared /\ brokerUp' = brokerUp /\ databaseUp' \in BOOLEAN
        /\ crashes' \in Nat /\ crashes' <= MaxCrashes
        /\ outages' \in Nat /\ outages' <= MaxOutages /\ UNCHANGED undos
    BY <2>1 DEF BootInv, Typed, WorkOK, dependencies, counters
  <2> QED
    BY <2>1, <2>2, ExitInStep
<1> QED
  BY <1>1, <1>2

LEMMA LoadPendingInv == ASSUME BootInv, NEW k \in Replicas, LoadPending(k) PROVE BootInv'
<1> USE DEF BootInv, LoadPending, Goto, database, dependencies, counters
<1>1. /\ work \in [Replicas -> [next : 0..8, written : BOOLEAN, schema : SUBSET Objects]]
      /\ recorded \in 0..7 /\ ~ work[k].written /\ channel[k].state = "closed"
      /\ pc \in [Replicas -> {"down", "connect", "check", "migrate", "start", "serving"}]
  BY DEF Typed, WorkOK, InStep
<1>2. work'[k].next = recorded + 1 /\ ~ work'[k].written
  BY <1>1
<1>3. \A j \in Replicas \ {k} : pc'[j] = pc[j] /\ work'[j] = work[j]
  BY <1>1
<1>4. pc'[k] = IF recorded = 7 THEN "start" ELSE "migrate"
  BY <1>1, MigrationsAre
<1>5. work' \in [Replicas -> [next : 0..8, written : BOOLEAN, schema : SUBSET Objects]]
  BY <1>1
<1>6. pc' \in [Replicas -> {"down", "connect", "check", "migrate", "start", "serving"}]
  BY <1>1
<1>7. Typed'
  BY <1>5, <1>6 DEF Typed
<1>8. WorkOK' /\ SchemaIsRecorded'
  BY <1>5 DEF WorkOK, SchemaIsRecorded
<1>9. OneWriter'
  BY <1>2, <1>3 DEF OneWriter
<1>10. ASSUME NEW j \in Replicas PROVE InStep(j)'
  <2>1. CASE j = k
    BY <1>1, <1>2, <1>4, <2>1 DEF InStep
  <2>2. CASE j # k
    BY <1>3, <2>2, StaysInStep
  <2> QED
    BY <2>1, <2>2
<1> QED
  BY <1>7, <1>8, <1>9, <1>10

\* What a transaction holds after one more migration.
LEMMA MigrateComes ==
    ASSUME BootInv, NEW k \in Replicas, CanRun(k)
    PROVE  LET v == work[k].next
               base == IF work[k].written THEN work[k].schema ELSE schema
               result == Run(base, Migrations[v].up)
           IN  /\ v \in 1..7
               /\ recorded < 7 => result = SchemaAt(v)
               /\ recorded = 7 => RerunFrom(v + 1, result)
<1> DEFINE v == work[k].next
           base == IF work[k].written THEN work[k].schema ELSE schema
           result == Run(base, Migrations[v].up)
<1>1. v \in Versions /\ v \in 1..7 /\ recorded \in 0..7 /\ pc[k] = "migrate"
  BY MigrationsAre DEF CanRun, BootInv, Typed
<1>2. recorded < 7 => base = SchemaAt(v - 1)
  <2>1. CASE work[k].written
    BY <2>1 DEF BootInv, InStep, HasCome
  <2>2. CASE ~ work[k].written
    BY <1>1, <2>2 DEF BootInv, InStep, SchemaIsRecorded
  <2> QED
    BY <2>1, <2>2
<1>3. recorded = 7 => RerunFrom(v, base)
  <2>1. CASE work[k].written
    BY <2>1 DEF BootInv, InStep, HasCome
  <2>2. CASE ~ work[k].written
    BY <2>2, MigrationsAre DEF BootInv, SchemaIsRecorded, RerunFrom
  <2> QED
    BY <2>1, <2>2
<1> HIDE DEF v, base
<1>4. recorded < 7 => result = SchemaAt(v)
  BY <1>1, <1>2, UpIsNext
<1>5. recorded = 7 => RerunFrom(v + 1, result)
  BY <1>1, <1>3, UpAgain
<1> QED
  BY <1>1, <1>4, <1>5 DEF v, base

LEMMA MigrateInv == ASSUME BootInv, NEW k \in Replicas, Migrate(k) PROVE BootInv'
<1> DEFINE v == work[k].next
           base == IF work[k].written THEN work[k].schema ELSE schema
           result == Run(base, Migrations[v].up)
<1>1. /\ CanRun(k) /\ ~ Blocked(k)
      /\ work' = [work EXCEPT ![k] = [next |-> v + 1, written |-> TRUE, schema |-> result]]
      /\ UNCHANGED database /\ UNCHANGED dependencies /\ UNCHANGED counters
      /\ UNCHANGED <<pc, channel>>
  BY DEF Migrate
<1>2. /\ v \in 1..7
      /\ recorded < 7 => result = SchemaAt(v)
      /\ recorded = 7 => RerunFrom(v + 1, result)
  BY <1>1, MigrateComes
<1>3. pc[k] = "migrate" /\ \A j \in Replicas \ {k} : ~ work[j].written
  BY <1>1 DEF CanRun, Blocked
<1>4. recorded \in 0..7
  BY DEF BootInv, Typed
<1>5. result \subseteq Objects
  <2> HIDE DEF result, v
  <2>1. OldIndex \in Objects
    BY DEF OldIndex, Objects, Since
  <2> QED
    BY <1>2, <1>4, <2>1, SchemaIsOfObjects DEF RerunFrom
<1> HIDE DEF result, v
<1>6. work' \in [Replicas -> [next : 0..8, written : BOOLEAN, schema : SUBSET Objects]]
  BY <1>1, <1>2, <1>5 DEF BootInv, WorkOK
<1>7. /\ work'[k] = [next |-> v + 1, written |-> TRUE, schema |-> result]
      /\ \A j \in Replicas \ {k} : work'[j] = work[j]
  BY <1>1 DEF BootInv, WorkOK
<1>8. Typed'
  BY <1>1, <1>6 DEF BootInv, Typed, database, dependencies, counters
<1>9. WorkOK' /\ SchemaIsRecorded'
  BY <1>1, <1>6 DEF BootInv, WorkOK, SchemaIsRecorded, database, counters
<1>10. OneWriter'
  BY <1>3, <1>7 DEF OneWriter
<1>11. ASSUME NEW j \in Replicas PROVE InStep(j)'
  <2>1. CASE j = k
    <3>1. HasCome(k)'
      BY <1>1, <1>2, <1>4, <1>7 DEF HasCome, database
    <3>2. InStep(k) /\ UNCHANGED <<pc, channel, declared>>
      BY <1>1 DEF BootInv, dependencies
    <3> QED
      BY <1>3, <1>7, <2>1, <3>1, <3>2 DEF InStep
  <2>2. CASE j # k
    BY <1>1, <1>7, <2>2, StaysInStep DEF BootInv, database, dependencies
  <2> QED
    BY <2>1, <2>2
<1> QED
  BY <1>8, <1>9, <1>10, <1>11 DEF BootInv

LEMMA MigrationFailsInv == ASSUME BootInv, NEW k \in Replicas, MigrationFails(k) PROVE BootInv'
<1>1. Exit({k}) /\ UNCHANGED database /\ UNCHANGED dependencies /\ UNCHANGED counters
  BY DEF MigrationFails
<1>2. /\ declared' = declared /\ brokerUp' = brokerUp /\ databaseUp' \in BOOLEAN
      /\ crashes' \in Nat /\ crashes' <= MaxCrashes
      /\ outages' \in Nat /\ outages' <= MaxOutages /\ UNCHANGED undos
  BY <1>1 DEF BootInv, Typed, WorkOK, dependencies, counters
<1> QED
  BY <1>1, <1>2, ExitInStep

LEMMA CommitMigrationsInv ==
    ASSUME BootInv, NEW k \in Replicas, CommitMigrations(k) PROVE BootInv'
<1>1. /\ pc[k] = "migrate" /\ work[k].next = 8
      /\ schema' = work[k].schema /\ recorded' = 7
      /\ work' = [work EXCEPT ![k] = NoWork] /\ pc' = [pc EXCEPT ![k] = "start"]
      /\ UNCHANGED <<duplicates, databaseUp, brokerUp, declared, channel, crashes, outages, undos>>
  BY MigrationsAre DEF CommitMigrations, Goto, dependencies, counters
<1>2. work[k].written /\ HasCome(k) /\ channel[k].state = "closed"
  BY <1>1 DEF BootInv, InStep, Typed
<1>3. schema' = SchemaAt(7)
  <2>1. recorded \in 0..7
    BY DEF BootInv, Typed
  <2>2. recorded < 7 => work[k].schema = SchemaAt(8 - 1)
    BY <1>1, <1>2 DEF HasCome
  <2>3. recorded = 7 => work[k].schema = SchemaAt(7)
    BY <1>1, <1>2, MigrationsAre DEF HasCome, RerunFrom
  <2> QED
    BY <1>1, <2>1, <2>2, <2>3
<1>4. NoWork \in [next : 0..8, written : BOOLEAN, schema : SUBSET Objects] /\ ~ NoWork.written
  BY DEF NoWork
<1>5. /\ work' \in [Replicas -> [next : 0..8, written : BOOLEAN, schema : SUBSET Objects]]
      /\ work'[k] = NoWork
      /\ \A j \in Replicas \ {k} : work'[j] = work[j]
  BY <1>1, <1>4 DEF BootInv, WorkOK
<1>6. /\ pc' \in [Replicas -> {"down", "connect", "check", "migrate", "start", "serving"}]
      /\ pc'[k] = "start"
      /\ \A j \in Replicas \ {k} : pc'[j] = pc[j]
  BY <1>1 DEF BootInv, Typed
<1>7. \A j \in Replicas \ {k} : ~ work[j].written
  BY <1>2 DEF BootInv, OneWriter
<1>8. Typed'
  BY <1>1, <1>3, <1>5, <1>6, SchemaIsOfObjects DEF BootInv, Typed
<1>9. WorkOK' /\ SchemaIsRecorded'
  BY <1>1, <1>3, <1>5 DEF BootInv, WorkOK, SchemaIsRecorded
<1>10. OneWriter'
  BY <1>4, <1>5, <1>7 DEF OneWriter
<1>11. ASSUME NEW j \in Replicas PROVE InStep(j)'
  <2>1. CASE j = k
    <3>1. InStep(k) /\ UNCHANGED <<channel, declared>>
      BY <1>1 DEF BootInv
    <3> QED
      BY <1>1, <1>2, <1>4, <1>5, <1>6, <2>1, <3>1 DEF InStep
  <2>2. CASE j # k
    <3>1. InStep(j)
      BY DEF BootInv
    <3>2. pc'[j] = pc[j] /\ work'[j] = work[j] /\ ~ work[j].written
      BY <1>5, <1>6, <1>7, <2>2
    <3> QED
      BY <1>1, <3>1, <3>2 DEF InStep
  <2> QED
    BY <2>1, <2>2
<1> QED
  BY <1>8, <1>9, <1>10, <1>11 DEF BootInv

LEMMA ListenInv == ASSUME BootInv, NEW k \in Replicas, Listen(k) PROVE BootInv'
<1> USE DEF BootInv, Listen, Goto, database, dependencies, counters
<1>1. Typed' /\ WorkOK' /\ SchemaIsRecorded' /\ OneWriter'
  BY DEF Typed, WorkOK, SchemaIsRecorded, OneWriter
<1>2. pc[k] = "start" /\ pc'[k] = "serving"
  BY DEF Typed, Booted
<1>3. ASSUME NEW j \in Replicas PROVE InStep(j)'
  <2>1. CASE j = k
    BY <1>2, <2>1 DEF InStep
  <2>2. CASE j # k
    <3>1. pc'[j] = pc[j]
      BY <2>2 DEF Typed
    <3> QED
      BY <3>1, StaysInStep
  <2> QED
    BY <2>1, <2>2
<1> QED
  BY <1>1, <1>3

LEMMA OpenChannelInv == ASSUME BootInv, NEW k \in Replicas, OpenChannel(k) PROVE BootInv'
<1> USE DEF BootInv, OpenChannel, database, dependencies, counters
<1>1. /\ channel \in [Replicas -> Channels]
      /\ channel' = [channel EXCEPT ![k].state = "settingUp"]
  BY DEF Typed
<1>2. /\ channel' \in [Replicas -> Channels]
      /\ channel'[k].state = "settingUp" /\ channel'[k].asserted = channel[k].asserted
      /\ \A j \in Replicas \ {k} : channel'[j] = channel[j]
  BY <1>1 DEF Channels
<1>3. Typed' /\ WorkOK' /\ SchemaIsRecorded' /\ OneWriter'
  BY <1>2 DEF Typed, Channels, WorkOK, SchemaIsRecorded, OneWriter
<1>4. ASSUME NEW j \in Replicas PROVE InStep(j)'
  <2>1. CASE j = k
    <3>1. InStep(k) /\ (HasCome(k)' <=> HasCome(k))
      BY DEF HasCome
    <3> QED
      BY <1>2, <2>1, <3>1 DEF InStep
  <2>2. CASE j # k
    BY <1>2, <2>2, StaysInStep
  <2> QED
    BY <2>1, <2>2
<1> QED
  BY <1>3, <1>4

\* What a set-up has asserted exists, and the queues of others are left alone.
LEMMA AssertQueueInv == ASSUME BootInv, NEW k \in Replicas, AssertQueue(k) PROVE BootInv'
<1> DEFINE queue == channel[k].asserted + 1
<1>1. /\ channel[k].state = "settingUp" /\ queue <= Queues
      /\ declared' = declared \cup {queue}
      /\ channel' = [channel EXCEPT ![k].asserted = queue]
      /\ UNCHANGED <<schema, recorded, duplicates, databaseUp, brokerUp, pc, work,
                     crashes, outages, undos>>
  BY DEF AssertQueue, database, counters
<1>2. /\ channel \in [Replicas -> Channels] /\ declared \subseteq 1..Queues
      /\ InStep(k) /\ Queues \in Nat
  BY DEF BootInv, Typed, BootAssumption
<1>3. channel[k].asserted \in 0..Queues /\ queue \in 1..Queues
  BY <1>1, <1>2 DEF Channels
<1>4. /\ channel' \in [Replicas -> Channels]
      /\ channel'[k].state = "settingUp" /\ channel'[k].asserted = queue
      /\ \A j \in Replicas \ {k} : channel'[j] = channel[j]
  BY <1>1, <1>2, <1>3 DEF Channels
<1>5. 1..queue \subseteq declared'
  <2>1. 1..queue = 1..channel[k].asserted \cup {queue}
    BY <1>3
  <2>2. 1..channel[k].asserted \subseteq declared
    BY <1>2 DEF InStep
  <2> QED
    BY <1>1, <2>1, <2>2
<1> HIDE DEF queue
<1>6. Typed' /\ WorkOK' /\ SchemaIsRecorded' /\ OneWriter'
  BY <1>1, <1>2, <1>3, <1>4 DEF BootInv, Typed, Channels, WorkOK, SchemaIsRecorded, OneWriter
<1>7. ASSUME NEW j \in Replicas PROVE InStep(j)'
  <2>1. CASE j = k
    <3>1. HasCome(k)' <=> HasCome(k)
      BY <1>1 DEF HasCome
    <3> QED
      BY <1>1, <1>2, <1>4, <1>5, <2>1, <3>1 DEF InStep
  <2>2. CASE j # k
    BY <1>1, <1>4, <2>2, StaysInStep DEF BootInv
  <2> QED
    BY <2>1, <2>2
<1> QED
  BY <1>6, <1>7 DEF BootInv

\* A set-up that has come to its end has declared every queue that is read.
LEMMA SetUpHasDeclared ==
    ASSUME BootInv, NEW k \in Replicas, channel[k].asserted = Queues
    PROVE  declared = 1..Queues
BY DEF BootInv, InStep, Typed

LEMMA ConsumeInv == ASSUME BootInv, NEW k \in Replicas, Consume(k) PROVE BootInv'
<1> USE DEF BootInv, Consume, database, dependencies, counters
<1>1. /\ channel[k].state = "settingUp" /\ channel[k].asserted = Queues
      /\ declared = 1..Queues /\ InStep(k)
  BY SetUpHasDeclared DEF IsSetUp
<1>2. channel' = [channel EXCEPT ![k].state = "consuming"] /\ UNCHANGED <<pc, work>>
  BY <1>1
<1>3. /\ channel' \in [Replicas -> Channels]
      /\ channel'[k].state = "consuming" /\ channel'[k].asserted = channel[k].asserted
      /\ \A j \in Replicas \ {k} : channel'[j] = channel[j]
  BY <1>2 DEF Typed, Channels
<1>4. Typed' /\ WorkOK' /\ SchemaIsRecorded' /\ OneWriter'
  BY <1>2, <1>3 DEF Typed, Channels, WorkOK, SchemaIsRecorded, OneWriter
<1>5. ASSUME NEW j \in Replicas PROVE InStep(j)'
  <2>1. CASE j = k
    <3>1. HasCome(k)' <=> HasCome(k)
      BY <1>2 DEF HasCome
    <3> QED
      BY <1>1, <1>2, <1>3, <2>1, <3>1 DEF InStep
  <2>2. CASE j # k
    BY <1>2, <1>3, <2>2, StaysInStep
  <2> QED
    BY <2>1, <2>2
<1> QED
  BY <1>4, <1>5

LEMMA CrashInv == ASSUME BootInv, NEW k \in Replicas, Crash(k) PROVE BootInv'
<1>1. /\ Exit({k}) /\ UNCHANGED database /\ UNCHANGED dependencies /\ UNCHANGED <<outages, undos>>
      /\ crashes < MaxCrashes /\ crashes' = crashes + 1
  BY DEF Crash
<1>2. /\ declared' = declared /\ brokerUp' = brokerUp /\ databaseUp' \in BOOLEAN
      /\ crashes' \in Nat /\ crashes' <= MaxCrashes
      /\ outages' \in Nat /\ outages' <= MaxOutages /\ UNCHANGED undos
  BY <1>1 DEF BootInv, Typed, WorkOK, dependencies
<1> QED
  BY <1>1, <1>2, ExitInStep

LEMMA OutageIsBounded ==
    ASSUME BootInv, Outage PROVE outages' \in Nat /\ outages' <= MaxOutages
<1>1. outages \in Nat /\ MaxOutages \in Nat
  BY DEF BootInv, WorkOK, BootAssumption
<1> QED
  BY <1>1 DEF Outage

LEMMA DatabaseDownInv == ASSUME BootInv, DatabaseDown PROVE BootInv'
<1> DEFINE K == {k \in Replicas : pc[k] \in {"check", "migrate"}}
<1>1. Exit(K) /\ UNCHANGED database /\ K \in SUBSET Replicas
  BY DEF DatabaseDown
<1>2. /\ declared' = declared /\ brokerUp' = brokerUp /\ databaseUp' \in BOOLEAN
      /\ crashes' \in Nat /\ crashes' <= MaxCrashes
      /\ outages' \in Nat /\ outages' <= MaxOutages /\ UNCHANGED undos
  <2>1. outages' \in Nat /\ outages' <= MaxOutages
    BY OutageIsBounded DEF DatabaseDown
  <2> QED
    BY <2>1 DEF DatabaseDown, BootInv, Typed, WorkOK
<1> HIDE DEF K
<1> QED
  BY <1>1, <1>2, ExitInStep

LEMMA DatabaseBackInv == ASSUME BootInv, DatabaseBack PROVE BootInv'
<1> USE DEF BootInv, DatabaseBack, database, counters
<1>1. Typed' /\ WorkOK' /\ SchemaIsRecorded' /\ OneWriter'
  BY DEF Typed, WorkOK, SchemaIsRecorded, OneWriter
<1> QED
  BY <1>1, StaysInStep

LEMMA BrokerDownInv == ASSUME BootInv, BrokerDown PROVE BootInv'
<1>1. /\ Disconnect(Replicas) /\ UNCHANGED database
      /\ declared' \in {declared, {}} /\ brokerUp' = FALSE
      /\ UNCHANGED <<databaseUp, crashes, undos>>
  BY DEF BrokerDown
<1>2. PICK failed \in SUBSET CutShort : Stop(failed)
  BY DEF BrokerDown
<1>3. outages' \in Nat /\ outages' <= MaxOutages
  BY OutageIsBounded DEF BrokerDown
<1>4. failed \in SUBSET Replicas
  BY DEF CutShort
<1>5. \A k \in Replicas : channel'[k] = NoChannel
  BY <1>1 DEF Disconnect
<1>6. channel' \in [Replicas -> Channels]
  BY <1>1, NoChannelIsEmpty DEF Disconnect
<1>7. /\ declared' \subseteq 1..Queues /\ brokerUp' \in BOOLEAN /\ databaseUp' \in BOOLEAN
      /\ crashes' \in Nat /\ crashes' <= MaxCrashes /\ UNCHANGED undos
  BY <1>1 DEF BootInv, Typed, WorkOK
<1> QED
  BY <1>1, <1>2, <1>3, <1>4, <1>5, <1>6, <1>7, StopInStep

LEMMA BrokerBackInv == ASSUME BootInv, BrokerBack PROVE BootInv'
<1> USE DEF BootInv, BrokerBack, database, counters
<1>1. Typed' /\ WorkOK' /\ SchemaIsRecorded' /\ OneWriter'
  BY DEF Typed, WorkOK, SchemaIsRecorded, OneWriter
<1> QED
  BY <1>1, StaysInStep

LEMMA UndoLastInv == ASSUME BootInv, UndoLast PROVE BootInv'
<1> USE DEF BootInv, UndoLast, dependencies
<1>1. recorded \in 1..7 /\ recorded \in Versions
  BY MigrationsAre DEF Typed
<1>2. schema' = SchemaAt(recorded')
  BY <1>1, DownIsBack DEF SchemaIsRecorded
<1>3. Typed'
  BY <1>1, <1>2, SchemaIsOfObjects DEF Typed, WorkOK
<1>4. WorkOK' /\ SchemaIsRecorded' /\ OneWriter'
  BY <1>2 DEF WorkOK, SchemaIsRecorded, OneWriter
<1>5. ASSUME NEW k \in Replicas PROVE InStep(k)'
  BY DEF InStep
<1> QED
  BY <1>3, <1>4, <1>5

LEMMA BootStepInv == ASSUME BootInv, [Next]_vars PROVE BootInv'
<1>1. CASE UNCHANGED vars
  <2> USE <1>1 DEF BootInv, vars
  <2>1. Typed' /\ WorkOK' /\ SchemaIsRecorded' /\ OneWriter'
    BY DEF Typed, WorkOK, SchemaIsRecorded, OneWriter
  <2> QED
    BY <2>1, StaysInStep
<1>2. CASE \E k \in Replicas : Boot(k)
  BY <1>2, StartInv, InitializeInv, LoadPendingInv, MigrateInv, MigrationFailsInv,
     CommitMigrationsInv, ListenInv DEF Boot
<1>3. CASE \E k \in Replicas : Attach(k)
  BY <1>3, OpenChannelInv, AssertQueueInv, ConsumeInv DEF Attach
<1>4. CASE \E k \in Replicas : Crash(k)
  BY <1>4, CrashInv
<1>5. CASE DatabaseDown \/ DatabaseBack \/ BrokerDown \/ BrokerBack \/ UndoLast
  BY <1>5, DatabaseDownInv, DatabaseBackInv, BrokerDownInv, BrokerBackInv, UndoLastInv
<1> QED
  BY <1>1, <1>2, <1>3, <1>4, <1>5 DEF Next, Quiet

LEMMA BootIsInvariant == Spec => []BootInv
BY InitBoot, BootStepInv, PTL DEF Spec

-----------------------------------------------------------------------------
(* The theorems *)

\* Every variable keeps to its values, for any number of replicas.
THEOREM BootTypeCorrect == Spec => []TypeOK
<1>1. BootInv => TypeOK
  BY TypeParts DEF BootInv
<1> QED
  BY <1>1, BootIsInvariant, PTL

\* The committed schema is the one of the version that is recorded, whatever
\* boots race, die halfway or run again what another replica has run.
THEOREM SchemaIsAlwaysRecorded == Spec => []SchemaIsRecorded
<1>1. BootInv => SchemaIsRecorded
  BY DEF BootInv
<1> QED
  BY <1>1, BootIsInvariant, PTL

\* No replica handles a request or an event on a schema that lacks something.
THEOREM ServesOnFullSchemaAlways == Spec => []ServesOnFullSchema
<1>1. BootInv => ServesOnFullSchema
  BY MigrationsAre DEF BootInv, SchemaIsRecorded, InStep, ServesOnFullSchema
<1> QED
  BY <1>1, BootIsInvariant, PTL

\* Nobody consumes a queue that does not exist, for any number of queues, wherever
\* outages cut the set-ups of the replicas short and whatever the broker loses.
THEOREM ConsumersFindTheirQueuesAlways == Spec => []ConsumersFindTheirQueues
<1>1. ASSUME BootInv, NEW k \in Replicas, IsSetUp(k) \/ channel[k].state = "consuming"
      PROVE  declared = 1..Queues
  <2>1. channel[k].asserted = Queues
    BY <1>1 DEF BootInv, InStep, IsSetUp
  <2> QED
    BY <1>1, <2>1, SetUpHasDeclared
<1>2. BootInv => ConsumersFindTheirQueues
  BY <1>1 DEF ConsumersFindTheirQueues
<1> QED
  BY <1>2, BootIsInvariant, PTL

=============================================================================
