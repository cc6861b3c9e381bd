------------------------------ MODULE MCNotify ------------------------------
(***************************************************************************)
(* Instances of Notify for TLC.                                            *)
(***************************************************************************)
EXTENDS Notify, TLC

\* Every message goes to one topic: rows of other topics are never looked at.
OneTopic == [m \in Msg |-> CHOOSE t \in Topic : TRUE]

Symmetry == Permutations(Msg) \cup Permutations(Endpoint) \cup Permutations(Id)

=============================================================================
