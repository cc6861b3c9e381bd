---------------------------- MODULE MCAttachments ----------------------------
(***************************************************************************)
(* Instances of Attachments for TLC.                                       *)
(***************************************************************************)
EXTENDS Attachments, TLC

CONSTANTS u1, u2

\* Each fits under a limit of 2, both do not.
Sizes == (u1 :> 1) @@ (u2 :> 2)

=============================================================================
