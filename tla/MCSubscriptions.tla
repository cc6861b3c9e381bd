--------------------------- MODULE MCSubscriptions ---------------------------
(***************************************************************************)
(* Instances of Subscriptions for TLC.                                     *)
(***************************************************************************)
EXTENDS Subscriptions, TLC

CONSTANTS s1, s2, s3, t1, t2, v1

\* The first stream wants every topic there is, the others only the first.
WantsTopics == [s \in Stream |-> IF s = s1 THEN Topic ELSE {t1}]

OneVisitor == [s \in Stream |-> v1]

=============================================================================
