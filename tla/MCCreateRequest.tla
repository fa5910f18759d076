-------------------------- MODULE MCCreateRequest --------------------------
(* Small instances of CreateRequest for TLC. *)
EXTENDS CreateRequest, TLC

CONSTANTS o1, o2, K1, K2, S1, S2

Call(n, owner, key, source) ==
    [n |-> n, ownerUserId |-> owner, idempotencyKey |-> key,
     sourceStorageKey |-> source]

\* Two keys and two sources in every combination, so that keys and sources
\* cross over; one call made twice.
RacingCalls ==
    {Call(1, o1, K1, S1), Call(2, o1, K1, S1), Call(1, o1, K1, S2),
     Call(1, o1, K2, S1), Call(1, o1, K2, S2)}

\* A key that was answered with the request of another key; one call of another
\* owner and one without a key.
RetriedCalls ==
    {Call(1, o1, K1, S1), Call(1, o1, K2, S1), Call(1, o1, K2, S2),
     Call(2, o1, K2, S1), Call(1, o2, K2, S2), Call(1, o1, None, S1)}
=============================================================================
