--------------------------- MODULE CatalogSystem ---------------------------
(***************************************************************************)
(* The Catalog among its neighbours: requests are created, the outbox is   *)
(* relayed, the validation service and the Worker answer what reached      *)
(* them, and their answers are consumed.                                   *)
(*                                                                         *)
(*   Create --VideoValidationRequested--> validation --VideoAccepted-->    *)
(*   Handle --ProcessingQueued--> Worker --ProcessingCompleted--> Handle   *)
(*   --TerminalEvent--> notification                                       *)
(*                                                                         *)
(* Handling an event, creating a request and one publish of the relay are  *)
(* atomic steps here: RequestLifecycle, RequestCreation and OutboxDelivery *)
(* are what EventConsumer, CreateRequest and OutboxRelay implement.  What  *)
(* this module adds is the loop: an event exists only because an outbox    *)
(* row arrived, and a row only because an event was handled.               *)
(***************************************************************************)
EXTENDS CatalogEvents, Naturals, FiniteSets

CONSTANT MaxFaults   \* bound: lost settlements and failed drains

\* The other services follow the contract of the events.  What becomes of a
\* message that does not is told by EventConsumer.
ASSUME SystemAssumption ==
    /\ MaxFaults \in Nat
    /\ \A m \in Messages : WellFormed(m)

VARIABLES
    created,    \* SUBSET Requests: the requests that were created
    requests,   \* [Requests -> Request]
    processed,  \* SUBSET EventIds
    rows,       \* Seq([request, pattern, payload]): table outbox, by id
    state,      \* Seq of "pending", "sent" (its mark not committed), "published"
    arrived,    \* Seq(ids): what reached the other services, in order
    broker,     \* [Messages -> {"unsent", "ready", "acked", "dead"}]
    faults

tables == <<created, requests, processed>>
relay == <<rows, state, arrived>>
vars == <<created, requests, processed, rows, state, arrived, broker, faults>>

Ids == DOMAIN rows

Init ==
    /\ created = {}
    /\ requests = [r \in Requests |-> CreatedRequest]
    /\ processed = {}
    /\ rows = <<>> /\ state = <<>> /\ arrived = <<>>
    /\ broker = [m \in Messages |-> "unsent"]
    /\ faults = 0

\* A transaction adds new rows to the outbox.
Write(r, new) ==
    /\ rows' = rows \o [n \in DOMAIN new |->
                 [request |-> r, pattern |-> new[n].pattern, payload |-> new[n].request]]
    /\ state' = state \o [n \in DOMAIN new |-> "pending"]

-----------------------------------------------------------------------------
(* The Catalog *)

Create(r) ==
    /\ r \notin created
    /\ created' = created \cup {r}
    /\ Write(r, <<ValidationRow>>)
    /\ UNCHANGED <<requests, processed, arrived, broker, faults>>

FreshAttempts == Attempts \ {requests[r].attemptId : r \in Requests}

Record(m) == processed' = processed \cup {m.eventId}

\* The event is applied, or recorded as a leftover.
Apply(m) ==
    LET r == m.request
        q == requests[r] IN
    /\ m.eventId \notin processed
    /\ Stale(m, q) \/ Permitted(m, q)
    /\ \E a \in IF m.kind = "VideoAccepted" THEN FreshAttempts ELSE {None} :
         LET q1 == Result(m, q, a) IN
         /\ requests' = [requests EXCEPT ![r] = q1]
         /\ Write(r, Recorded(m, q, q1, <<>>))
    /\ Record(m)

Settled(m, outcome) == broker' = [broker EXCEPT ![m] = outcome]

Handle(m) ==
    /\ broker[m] = "ready"
    /\ m.request \in created
    /\ \/ Apply(m) /\ Settled(m, "acked")
       \/ /\ m.eventId \in processed
          /\ Settled(m, "acked")
          /\ UNCHANGED <<requests, processed, rows, state>>
       \/ /\ m.eventId \notin processed
          /\ ~ Stale(m, requests[m.request]) /\ ~ Permitted(m, requests[m.request])
          /\ Settled(m, "dead")
          /\ UNCHANGED <<requests, processed, rows, state>>
    /\ UNCHANGED <<created, arrived, faults>>

\* ORDER BY id ASC.
IsNext(i) == state[i] = "pending" /\ \A j \in 1..(i - 1) : state[j] # "pending"

Send(i) ==
    /\ IsNext(i)
    /\ state' = [state EXCEPT ![i] = "sent"]
    /\ arrived' = Append(arrived, i)
    /\ UNCHANGED <<tables, rows, broker, faults>>

Sent == {i \in Ids : state[i] = "sent"}

\* Mutant: every row without a mark is marked.
MarkSent_All(mark) ==
    state' = [i \in Ids |-> IF state[i] # "published" THEN mark ELSE state[i]]

MarkSent(mark) == state' = [i \in Ids |-> IF i \in Sent THEN mark ELSE state[i]]

CommitMarks ==
    /\ Sent # {}
    /\ MarkSent("published")
    /\ UNCHANGED <<tables, rows, arrived, broker, faults>>

-----------------------------------------------------------------------------
(* The other services.  They know a request and an attempt from the event   *)
(* that reached them and answer it with events of their own, each at least  *)
(* once; what the Worker reports about an attempt may contradict itself.    *)

Knows(m) == \E n \in DOMAIN arrived :
    LET w == rows[arrived[n]] IN
    /\ w.request = m.request
    /\ IF m.kind \in AttemptEvents
       THEN w.pattern = "ProcessingQueued" /\ w.payload.attemptId = m.attemptId
       ELSE w.pattern = "VideoValidationRequested"

Publish(m) ==
    /\ broker[m] = "unsent"
    /\ Knows(m)
    /\ broker' = [broker EXCEPT ![m] = "ready"]
    /\ UNCHANGED <<tables, relay, faults>>

-----------------------------------------------------------------------------
(* Faults *)

Fault == faults < MaxFaults /\ faults' = faults + 1

\* The commit succeeded, and the settlement never reached the broker.
HandledUnsettled(m) ==
    /\ Fault
    /\ broker[m] = "ready"
    /\ m.request \in created
    /\ Apply(m)
    /\ UNCHANGED <<created, arrived, broker>>

\* Mutant: the rows of a failed drain are parked.
DrainFails_Parks ==
    /\ Fault
    /\ Sent # {}
    /\ MarkSent("parked")
    /\ UNCHANGED <<tables, rows, arrived, broker>>

\* The marks of a drain do not commit: what it published is published again.
DrainFails ==
    /\ Fault
    /\ Sent # {}
    /\ MarkSent("pending")
    /\ UNCHANGED <<tables, rows, arrived, broker>>

-----------------------------------------------------------------------------

\* Every request has ended and everybody was told.
Quiet ==
    /\ \A r \in created : IsTerminal(requests[r])
    /\ \A i \in Ids : state[i] = "published"
    /\ \A m \in Messages : broker[m] # "ready"
    /\ UNCHANGED vars

Drain == CommitMarks \/ \E i \in Ids : Send(i)

Next ==
    \/ \E r \in Requests : Create(r)
    \/ \E m \in Messages : Publish(m) \/ Handle(m) \/ HandledUnsettled(m)
    \/ Drain
    \/ DrainFails
    \/ Quiet

Spec == Init /\ [][Next]_vars

ValidationKinds == {"VideoAccepted", "VideoRejected"}
OutcomeKinds == {"ProcessingCompleted", "ProcessingFailed"}

\* A service that owes an answer about r gives one.
FirstAnswer(r, kinds) ==
    LET answers == {m \in Messages : m.request = r /\ m.kind \in kinds} IN
    /\ \A m \in answers : broker[m] = "unsent"
    /\ \E m \in answers : Publish(m)

\* What EveryMessageSettles and EveryRowIsPublished promise of the parts, and
\* of the other services: validation answers, and an attempt that was queued
\* comes to an outcome.
Fairness ==
    /\ WF_vars(Drain)
    /\ WF_vars(\E m \in Messages : Handle(m))
    /\ \A r \in Requests, kinds \in {ValidationKinds, OutcomeKinds} :
         WF_vars(FirstAnswer(r, kinds))

FairSpec == Spec /\ Fairness

-----------------------------------------------------------------------------
(* Properties *)

TypeOK ==
    /\ created \subseteq Requests
    /\ requests \in [Requests -> Request]
    /\ processed \subseteq EventIds
    /\ rows \in Seq([request : Requests, pattern : OutboxPatterns, payload : Request])
    /\ state \in [Ids -> {"pending", "sent", "published"}]
    /\ arrived \in Seq(Ids)
    /\ broker \in [Messages -> {"unsent", "ready", "acked", "dead"}]
    /\ faults \in 0..MaxFaults

\* The outbox rows of one request, and which of them the row at i is.
Own(r) == {i \in Ids : rows[i].request = r}

Place(r, i) == Cardinality({j \in Own(r) : j <= i})

\* The rows of one request, in order.
Log(r) ==
    [n \in 1..Cardinality(Own(r)) |->
       LET w == rows[CHOOSE i \in {j \in Own(r) : Place(r, j) = n} : TRUE]
       IN  [pattern |-> w.pattern, request |-> w.payload]]

\* Seen from the requests: a request that is not created yet is one about
\* which nothing has happened.
outbox == [r \in Requests |-> IF r \in created THEN Log(r) ELSE <<ValidationRow>>]

Lifecycle == INSTANCE RequestLifecycle

ImplementsLifecycle == Lifecycle!Spec

\* Seen from the outbox: a publish whose mark has not committed is pending.
announced == [i \in Ids |-> [request |-> rows[i].request, pattern |-> rows[i].pattern]]

committed == [i \in Ids |-> IF state[i] = "sent" THEN "pending" ELSE state[i]]

Delivery == INSTANCE OutboxDelivery
    WITH Patterns <- OutboxPatterns, rows <- announced, state <- committed

ImplementsDelivery == Delivery!Spec

\* What the other services were told is what the Catalog has stored: however
\* often the terminal event of a request arrives it tells one outcome, the
\* stored one, and the attempt the Worker runs is the request's own.
ToldIsStored ==
    \A n \in DOMAIN arrived :
      LET w == rows[arrived[n]]
          q == requests[w.request]
      IN  /\ w.pattern = "TerminalEvent" => w.payload = q
          /\ w.pattern = "ProcessingQueued" => w.payload.attemptId = q.attemptId

\* Nothing is dead-lettered because it came too early: an event that is parked
\* met a request that another event had already moved past it, so a start
\* never is and a first outcome never is.
DeadLettersAreLate ==
    \A m \in Messages : broker[m] = "dead" =>
      \E n \in Messages :
        /\ n.eventId \in processed \ {m.eventId}
        /\ n.request = m.request
        /\ {n.kind, m.kind} \subseteq ValidationKinds
           \/ {n.kind, m.kind} \subseteq OutcomeKinds

\* Every request that is created ends, and its owner is told.
EveryRequestEnds ==
    \A r \in Requests : r \in created ~>
      \E n \in DOMAIN arrived : rows[arrived[n]].request = r
                                /\ rows[arrived[n]].pattern = "TerminalEvent"
=============================================================================
