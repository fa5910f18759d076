--------------------------- MODULE OutboxDelivery ---------------------------
(***************************************************************************)
(* What the outbox promises the other services: a row that committed       *)
(* reaches the broker at least once, never before an earlier row of the    *)
(* same request has, and is marked as published only after it did.         *)
(* Replicas, locks, batches and transactions of the relay do not appear.   *)
(***************************************************************************)
EXTENDS Naturals, Sequences

CONSTANTS Requests, Patterns

VARIABLES
    rows,     \* Seq([request, pattern]): the row of each id
    state,    \* Seq of "open", "gone", "pending", "published", by id
    arrived   \* Seq(ids): what reached the broker, in order

vars == <<rows, state, arrived>>

Ids == DOMAIN rows

Init == rows = <<>> /\ state = <<>> /\ arrived = <<>>

HasArrived(i) == \E n \in DOMAIN arrived : arrived[n] = i

\* A row may commit in a later step than the one that draws its id.
Insert == \E r \in Requests, p \in Patterns, s \in {"open", "pending"} :
    /\ \A i \in Ids : rows[i].request = r => state[i] # "open"
    /\ rows' = Append(rows, [request |-> r, pattern |-> p])
    /\ state' = Append(state, s)
    /\ UNCHANGED arrived

Settle == \E i \in Ids, outcome \in {"pending", "gone"} :
    /\ state[i] = "open"
    /\ state' = [state EXCEPT ![i] = outcome]
    /\ UNCHANGED <<rows, arrived>>

\* A repeat is allowed: consumers know an event by its eventId.
Deliver == \E i \in Ids :
    /\ state[i] \in {"pending", "published"}
    /\ \A j \in 1..(i - 1) :
         rows[j].request = rows[i].request /\ state[j] # "gone" => HasArrived(j)
    /\ arrived' = Append(arrived, i)
    /\ UNCHANGED <<rows, state>>

\* A drain commits the marks of everything it published at once.
Publish == \E S \in SUBSET Ids :
    /\ \A i \in S : state[i] \in {"pending", "published"} /\ HasArrived(i)
    /\ state' = [i \in Ids |-> IF i \in S THEN "published" ELSE state[i]]
    /\ UNCHANGED <<rows, arrived>>

Next == Insert \/ Settle \/ Deliver \/ Publish

Spec == Init /\ [][Next]_vars
=============================================================================
