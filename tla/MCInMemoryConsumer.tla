------------------------- MODULE MCInMemoryConsumer -------------------------
(* Small instances of InMemoryConsumer for TLC. *)
EXTENDS InMemoryConsumer, TLC

CONSTANTS r1, a1, z1

HandlerSymmetry == Permutations(Handlers)

Message(copy, id, kind, attempt, zip, code) ==
    [copy |-> copy, eventId |-> id, kind |-> kind, request |-> r1,
     attemptId |-> attempt, zipStorageKey |-> zip, failureCode |-> code]

\* An attempt whose start and outcomes arrive in any order, published twice.
AttemptMessages ==
    {Message(1, "e1", "VideoAccepted", None, None, None),
     Message(2, "e1", "VideoAccepted", None, None, None),
     Message(1, "e2", "ProcessingStarted", a1, None, None),
     Message(1, "e3", "ProcessingCompleted", a1, z1, None),
     Message(2, "e3", "ProcessingCompleted", a1, z1, None),
     Message(1, "e4", "ProcessingCompleted", a1, z1, None),
     Message(1, "e5", "ProcessingFailed", a1, None, "OUTRO")}
=============================================================================
