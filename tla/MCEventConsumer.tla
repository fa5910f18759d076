-------------------------- MODULE MCEventConsumer --------------------------
(* Small instances of EventConsumer for TLC. *)
EXTENDS EventConsumer, TLC

CONSTANTS r1, r2, a1, a2, z1, z2, notAUuid, unknownId

Message(copy, id, kind, r, attempt, zip, code) ==
    [copy |-> copy, eventId |-> id, kind |-> kind, request |-> r,
     attemptId |-> attempt, zipStorageKey |-> zip, failureCode |-> code]

AcceptMsg(copy, id, r)      == Message(copy, id, "VideoAccepted", r, None, None, None)
RejectMsg(id, r, code)      == Message(1, id, "VideoRejected", r, None, None, code)
StartMsg(id, r, a)          == Message(1, id, "ProcessingStarted", r, a, None, None)
CompleteMsg(copy, id, r, a, z) == Message(copy, id, "ProcessingCompleted", r, a, z, None)
FailMsg(id, r, a)           == Message(1, id, "ProcessingFailed", r, a, None, "PROCESSAMENTO_FALHOU")

\* One request taken through an attempt: the start races the completion, and
\* the completion is restated under another eventId.
AttemptMessages ==
    {AcceptMsg(1, "e1", r1), StartMsg("e2", r1, a1),
     CompleteMsg(1, "e3", r1, a1, z1), CompleteMsg(1, "e4", r1, a1, z1)}

\* Outcomes that contradict each other, a leftover of another attempt, a code
\* outside the vocabulary, one eventId used for two requests and an event that
\* names no request.
OutcomeMessages ==
    {AcceptMsg(1, "e1", r1), CompleteMsg(1, "e3", r1, a1, z1),
     FailMsg("e4", r1, a1), FailMsg("e5", r1, "leftover"),
     RejectMsg("e1", r2, "FORMATO_INVALIDO"), RejectMsg("e6", r2, "OUTRO"),
     AcceptMsg(1, "e7", unknownId)}

\* Messages that name no request, one by an id that is not a uuid.
NoRequestMessages ==
    {AcceptMsg(1, "e1", r1), AcceptMsg(1, "e2", unknownId),
     AcceptMsg(1, "e3", notAUuid)}

HandlerSymmetry == Permutations(Handlers)
=============================================================================
