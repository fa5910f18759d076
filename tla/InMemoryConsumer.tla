-------------------------- MODULE InMemoryConsumer --------------------------
(***************************************************************************)
(* Consuming the same events without a database: the composition root      *)
(* selects the in-memory repository, unit of work and outbox when          *)
(* DATABASE_HOST is unset.  One process, no lock and no rollback: every    *)
(* write is visible at once, and deliveries interleave at every await.     *)
(*                                                                         *)
(*   idle -Receive-> received -CheckProcessed-> begin -Read-> read         *)
(*     -Recheck-> decide -Update-> updated -AddRow-> recorded -Mark->      *)
(*     done -Settle-> idle                                                 *)
(***************************************************************************)
EXTENDS CatalogEvents, Naturals

CONSTANTS
    Handlers,   \* concurrent deliveries of the one process
    Nobody      \* not a message

VARIABLES
    requests, processed, outbox,   \* the two maps and the array of entries
    broker,     \* [Messages -> {"unsent", "ready", "unacked", "acked", "dead"}]
    pc,         \* [Handlers -> where the delivery is]
    delivery,   \* [Handlers -> Messages \cup {Nobody}]
    row         \* [Handlers -> Request]: the request it read

vars == <<requests, processed, outbox, broker, pc, delivery, row>>

Init ==
    /\ requests = [r \in Requests |-> CreatedRequest]
    /\ processed = {}
    /\ outbox = [r \in Requests |-> <<ValidationRow>>]
    /\ broker = [m \in Messages |-> "unsent"]
    /\ pc = [h \in Handlers |-> "idle"]
    /\ delivery = [h \in Handlers |-> Nobody]
    /\ row = [h \in Handlers |-> CreatedRequest]

-----------------------------------------------------------------------------

\* Producers learn an attempt only after the acceptance.
Publish(m) ==
    /\ broker[m] = "unsent"
    /\ m.attemptId \in Attempts =>
         \E r \in Requests : requests[r].attemptId = m.attemptId
    /\ broker' = [broker EXCEPT ![m] = "ready"]
    /\ UNCHANGED <<requests, processed, outbox, pc, delivery, row>>

Receive(h, m) ==
    /\ pc[h] = "idle"
    /\ broker[m] = "ready"
    /\ broker' = [broker EXCEPT ![m] = "unacked"]
    /\ delivery' = [delivery EXCEPT ![h] = m]
    /\ pc' = [pc EXCEPT ![h] = "received"]
    /\ UNCHANGED <<requests, processed, outbox, row>>

Goto(h, label) == pc' = [pc EXCEPT ![h] = label]

CheckProcessed(h) ==
    /\ pc[h] = "received"
    /\ Goto(h, CASE ~ WellFormed(delivery[h])            -> "refused"
                 [] delivery[h].eventId \in processed    -> "done"
                 [] OTHER                                -> "begin")
    /\ UNCHANGED <<requests, processed, outbox, broker, delivery, row>>

\* findForUpdate holds nothing here; a request that is not there is refused.
Read(h) ==
    LET r == delivery[h].request IN
    /\ pc[h] = "begin"
    /\ IF r \in Requests
       THEN row' = [row EXCEPT ![h] = requests[r]] /\ Goto(h, "read")
       ELSE UNCHANGED row /\ Goto(h, "refused")
    /\ UNCHANGED <<requests, processed, outbox, broker, delivery>>

FreshAttempts ==
    Attempts \ ({requests[r].attemptId : r \in Requests}
                \cup {row[h].attemptId : h \in Handlers}
                \cup {m.attemptId : m \in {n \in Messages : broker[n] # "unsent"}})

\* The event is looked up again, one await after the request was read...
Recheck(h) ==
    /\ pc[h] = "read"
    /\ Goto(h, IF delivery[h].eventId \in processed THEN "done" ELSE "decide")
    /\ UNCHANGED <<requests, processed, outbox, broker, delivery, row>>

\* ... and one await later the domain decides on the request that was read;
\* what it returns replaces whatever is stored by now.
Update(h) ==
    LET m == delivery[h] IN
    /\ pc[h] = "decide"
    /\ \/ /\ ~ Stale(m, row[h]) /\ ~ Permitted(m, row[h])
          /\ Goto(h, "refused")
          /\ UNCHANGED <<requests, row>>
       \/ /\ Stale(m, row[h]) \/ Permitted(m, row[h])
          /\ \E a \in IF m.kind = "VideoAccepted" THEN FreshAttempts ELSE {None} :
               LET q == Result(m, row[h], a) IN
               IF q = row[h]
               THEN Goto(h, "recorded") /\ UNCHANGED <<requests, row>>
               ELSE /\ requests' = [requests EXCEPT ![m.request] = q]
                    /\ row' = [row EXCEPT ![h] = q]
                    /\ Goto(h, "updated")
    /\ UNCHANGED <<processed, outbox, broker, delivery>>

\* The entry for the transition just made; a start has none.
AddRow(h) ==
    LET r == delivery[h].request IN
    /\ pc[h] = "updated"
    /\ outbox' = [outbox EXCEPT ![r] =
                    Recorded(delivery[h], CreatedRequest, row[h], @)]
    /\ Goto(h, "recorded")
    /\ UNCHANGED <<requests, processed, broker, delivery, row>>

Mark(h) ==
    /\ pc[h] = "recorded"
    /\ processed' = processed \cup {delivery[h].eventId}
    /\ Goto(h, "done")
    /\ UNCHANGED <<requests, outbox, broker, delivery, row>>

\* Nothing fails but the domain: acked, or dead-lettered.
Settle(h) ==
    /\ pc[h] \in {"done", "refused"}
    /\ broker' = [broker EXCEPT ![delivery[h]] =
                    IF pc[h] = "done" THEN "acked" ELSE "dead"]
    /\ Goto(h, "idle")
    /\ delivery' = [delivery EXCEPT ![h] = Nobody]
    /\ row' = [row EXCEPT ![h] = CreatedRequest]
    /\ UNCHANGED <<requests, processed, outbox>>

Quiet ==
    /\ \A m \in Messages : broker[m] # "ready"
    /\ \A h \in Handlers : pc[h] = "idle"
    /\ UNCHANGED vars

Next ==
    \/ \E m \in Messages : Publish(m)
    \/ \E h \in Handlers, m \in Messages : Receive(h, m)
    \/ \E h \in Handlers : CheckProcessed(h) \/ Read(h) \/ Recheck(h)
                           \/ Update(h) \/ AddRow(h) \/ Mark(h) \/ Settle(h)
    \/ Quiet

Spec == Init /\ [][Next]_vars

-----------------------------------------------------------------------------

Lifecycle == INSTANCE RequestLifecycle

\* Between deliveries the outbox entries of a request tell what happened to
\* it.  The repository says it needs no lock because a single-threaded map has
\* no concurrent writer.
SettledOutboxTellsTheRequest ==
    (\A h \in Handlers : pc[h] = "idle") => Lifecycle!OutboxTellsTheRequest
=============================================================================
