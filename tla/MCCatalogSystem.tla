-------------------------- MODULE MCCatalogSystem --------------------------
(* A small instance of CatalogSystem for TLC. *)
EXTENDS CatalogSystem

CONSTANTS r1, r2, a1, z1

Message(kind, r, a, zip, code) ==
    [copy |-> 1, eventId |-> <<kind, r>>, kind |-> kind, request |-> r,
     attemptId |-> a, zipStorageKey |-> zip, failureCode |-> code]

\* r1 is accepted, and its attempt reports a start, a completion and a failure;
\* r2 is rejected.
SystemMessages ==
    {Message("VideoAccepted", r1, None, None, None),
     Message("ProcessingStarted", r1, a1, None, None),
     Message("ProcessingCompleted", r1, a1, z1, None),
     Message("ProcessingFailed", r1, a1, None, "PROCESSAMENTO_FALHOU"),
     Message("VideoRejected", r2, None, None, "DURACAO_EXCEDIDA")}
=============================================================================
