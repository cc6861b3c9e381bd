----------------------------- MODULE MCDelivery -----------------------------
(***************************************************************************)
(* Instances of Delivery for TLC.                                          *)
(***************************************************************************)
EXTENDS Delivery, TLC

CONSTANTS m1, m2, m3, t1, t2

\* All messages go to one topic, or the first to one and the others to another;
\* every client subscribes to all topics.
OneTopic == [m \in Msg |-> t1]
TwoTopics == [m \in Msg |-> IF m = m1 THEN t1 ELSE t2]
AllTopics == [c \in Client |-> Topic]

=============================================================================
