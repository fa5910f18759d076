---------------------------- MODULE ChannelTags ----------------------------
(***************************************************************************)
(* Settling messages of one replica across a reconnection.                 *)
(*                                                                         *)
(* A consumer passes the message and the channel wrapper to settleMessage. *)
(* The wrapper outlives the channel: it hands ack and nack to whatever     *)
(* channel it has when they are called.  A channel knows its deliveries by *)
(* tags, counted from 1 on each channel, and the message carries the tag   *)
(* of the channel that delivered it.  The broker and the wrapper           *)
(* (amqp-connection-manager over amqplib) are not part of this repository: *)
(* what is modelled of them is that.                                       *)
(***************************************************************************)
EXTENDS Naturals, Functions

CONSTANTS
    Messages,
    Refused,     \* SUBSET Messages: those that fail permanently
    MaxLosses,   \* bound: connections that are lost
    MaxErrors    \* bound: transient failures of a handler

VARIABLES
    broker,      \* [Messages -> {"ready", "unacked", "acked", "dead"}]
    open,        \* the wrapper has a channel
    channels,    \* how many channels it has had
    unacked,     \* function from the tags outstanding on the channel to messages
    nextTag,
    handlers,    \* the handlers running: channel, tag, message, outcome
    returned,    \* the messages whose use case has returned
    losses, errors

vars == <<broker, open, channels, unacked, nextTag, handlers, returned, losses, errors>>

Init ==
    /\ broker = [m \in Messages |-> "ready"]
    /\ open = TRUE /\ channels = 1
    /\ unacked = <<>> /\ nextTag = 1
    /\ handlers = {}
    /\ returned = {}
    /\ losses = 0 /\ errors = 0

-----------------------------------------------------------------------------

Deliver(m) ==
    /\ open
    /\ broker[m] = "ready"
    /\ broker' = [broker EXCEPT ![m] = "unacked"]
    /\ unacked' = [t \in DOMAIN unacked \cup {nextTag} |->
                     IF t = nextTag THEN m ELSE unacked[t]]
    /\ nextTag' = nextTag + 1
    /\ handlers' = handlers \cup
         {[channel |-> channels, tag |-> nextTag, message |-> m, outcome |-> "none"]}
    /\ UNCHANGED <<open, channels, returned, losses, errors>>

Decide(h, outcome) ==
    /\ h.outcome = "none"
    /\ handlers' = (handlers \ {h}) \cup {[h EXCEPT !.outcome = outcome]}
    /\ UNCHANGED <<broker, open, channels, unacked, nextTag, losses>>

Return(h) ==
    /\ h.message \notin Refused
    /\ Decide(h, "acked")
    /\ returned' = returned \cup {h.message}
    /\ UNCHANGED errors

FailPermanently(h) ==
    h.message \in Refused /\ Decide(h, "dead") /\ UNCHANGED <<returned, errors>>

FailTransiently(h) ==
    /\ errors < MaxErrors /\ errors' = errors + 1
    /\ Decide(h, "ready")
    /\ UNCHANGED returned

\* What is outstanding on a channel that is gone becomes ready again.
Released == [m \in Messages |-> IF m \in Range(unacked) THEN "ready" ELSE broker[m]]

\* ack and nack, with the tag of the delivery, on the channel of now.
Settle(h) ==
    /\ h.outcome # "none"
    /\ handlers' = handlers \ {h}
    /\ \/ /\ ~ open
          /\ UNCHANGED <<broker, open, unacked>>
       \/ /\ open /\ h.tag \in DOMAIN unacked
          /\ broker' = [broker EXCEPT ![unacked[h.tag]] = h.outcome]
          /\ unacked' = Restrict(unacked, DOMAIN unacked \ {h.tag})
          /\ UNCHANGED open
       \/ \* A tag the channel does not know: the broker closes the channel.
          /\ open /\ h.tag \notin DOMAIN unacked
          /\ open' = FALSE
          /\ broker' = Released
          /\ unacked' = <<>>
    /\ UNCHANGED <<channels, nextTag, returned, losses, errors>>

ConnectionLost ==
    /\ open
    /\ losses < MaxLosses /\ losses' = losses + 1
    /\ open' = FALSE
    /\ broker' = Released
    /\ unacked' = <<>>
    /\ UNCHANGED <<channels, nextTag, handlers, returned, errors>>

\* The manager reconnects and the wrapper attaches its consumers again.
Reconnected ==
    /\ ~ open
    /\ open' = TRUE
    /\ channels' = channels + 1
    /\ nextTag' = 1
    /\ UNCHANGED <<broker, unacked, handlers, returned, losses, errors>>

Next ==
    \/ \E m \in Messages : Deliver(m)
    \/ \E h \in handlers : Return(h) \/ FailPermanently(h) \/ FailTransiently(h) \/ Settle(h)
    \/ ConnectionLost
    \/ Reconnected

Spec == Init /\ [][Next]_vars

-----------------------------------------------------------------------------

\* A message is acked only after its own use case has returned, and only a
\* message that fails permanently is dead-lettered: an outage never does.
SettledByItsOwnOutcome ==
    \A m \in Messages :
      /\ broker[m] = "acked" => m \in returned
      /\ broker[m] = "dead" => m \in Refused
=============================================================================
