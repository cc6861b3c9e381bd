------------------------------ MODULE Messages ------------------------------
(***************************************************************************)
(* Message identity (src/src/message.rs).  A message is named by its id;   *)
(* generate_id draws ids from 62^12 values and they are taken as distinct. *)
(* The topic is part of the request and never changes.                     *)
(***************************************************************************)

CONSTANTS
  Msg,       \* message ids
  Topic,     \* topic names
  TopicOf    \* the topic each message is addressed to

ASSUME TopicOfAssumption == TopicOf \in [Msg -> Topic]

=============================================================================
