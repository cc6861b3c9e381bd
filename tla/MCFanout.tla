------------------------------ MODULE MCFanout ------------------------------
(***************************************************************************)
(* Instances of Fanout for TLC.                                            *)
(***************************************************************************)
EXTENDS Fanout, TLC

\* Every message goes to one topic: the write side treats topics alike.
OneTopic == [m \in Msg |-> CHOOSE t \in Topic : TRUE]

=============================================================================
