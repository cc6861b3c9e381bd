------------------------------ MODULE MCSchema -------------------------------
(***************************************************************************)
(* Instances of Schema for TLC.                                            *)
(***************************************************************************)
EXTENDS Schema, TLC

CONSTANTS a1, a2, b1

\* a1 and a2 are two subscriptions of one browser to one topic.
TwoOfOneBrowser == (a1 :> "a") @@ (a2 :> "a") @@ (b1 :> "b")

=============================================================================
