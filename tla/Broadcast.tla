----------------------------- MODULE Broadcast ------------------------------
(***************************************************************************)
(* The per-topic tokio broadcast channel (src/src/topic.rs).               *)
(*                                                                         *)
(* chan[t] is everything fanned out to topic t since the process started.  *)
(* The channel itself retains the last Capacity of them; a receiver is the *)
(* number of messages it has moved past, counted on this sequence.  A      *)
(* message sent while nobody listens is not stored by tokio and a topic    *)
(* nobody has subscribed to has no channel at all: both are                *)
(* indistinguishable from a message no receiver's cursor can ever reach,   *)
(* because a new receiver starts at the end of chan[t].                    *)
(***************************************************************************)
EXTENDS Integers, Sequences, Messages

CONSTANT Capacity  \* BROADCAST_CAPACITY: messages a channel retains (32)

ASSUME CapacityAssumption == Capacity \in Nat \ {0}

VARIABLE chan

BroadcastTypeOK == chan \in [Topic -> Seq(Msg)]

BroadcastInit == chan = [t \in Topic |-> <<>>]

\* The cursor of a receiver created now: it sees only what is sent later.
End(t) == Len(chan[t])

\* TopicMap::publish -> Sender::send
Send(t, m) == chan' = [chan EXCEPT ![t] = Append(@, m)]

\* The next recv of a receiver at position p reports Lagged.
Lagged(t, p) == Len(chan[t]) - p > Capacity

\* Where a lagged receiver continues: the oldest message still retained.
Oldest(t) == Len(chan[t]) - Capacity

\* What a receiver at position p has still to take, overwritten or not.
After(sent, p) == {sent[i] : i \in {j \in 1 .. Len(sent) : j > p}}
Ahead(t, p) == After(chan[t], p)

=============================================================================
