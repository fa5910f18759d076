--------------------------- MODULE MCOutboxRelay ---------------------------
(* A small instance of OutboxRelay for TLC. *)
EXTENDS OutboxRelay

\* The queues fiap-x-platform declares for the events of the Catalog.
AllPlatformQueues == {EVENT_ROUTES[p] : p \in Patterns}
=============================================================================
