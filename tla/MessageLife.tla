----------------------------- MODULE MessageLife -----------------------------
(***************************************************************************)
(* What the write side promises about the life of a message, without       *)
(* handlers, manager, channels or crashes: a message becomes visible in    *)
(* the cache at once or waits for its time, it is announced to the live    *)
(* subscribers at most once and only after it became visible, and it may   *)
(* be forgotten only when its retention is over.                           *)
(*                                                                         *)
(* A crash is no event here: it can only keep an announcement from coming. *)
(***************************************************************************)
EXTENDS Integers

CONSTANT Msg

VARIABLES
  clock,
  phase,      \* where the message is in its life
  dueAt,      \* the time from which it may be seen
  keepUntil,  \* the time after which it may be forgotten
  announced   \* how often it was announced

vars == <<clock, phase, dueAt, keepUntil, announced>>

\* "dropped" is the end of a message that was never visible.
Phase == {"unknown", "waiting", "visible", "forgotten", "dropped"}

Init ==
  /\ clock = 1
  /\ phase = [m \in Msg |-> "unknown"]
  /\ dueAt = [m \in Msg |-> 0]
  /\ keepUntil = [m \in Msg |-> 0]
  /\ announced = [m \in Msg |-> 0]

\* The message is accepted with a time and a retention of its own.
Accept(m) ==
  /\ phase[m] = "unknown"
  /\ dueAt' = [dueAt EXCEPT ![m] = dueAt'[m]]
  /\ keepUntil' = [keepUntil EXCEPT ![m] = keepUntil'[m]]
  /\ keepUntil'[m] >= clock
  /\ \/ phase' = [phase EXCEPT ![m] = "waiting"]
     \/ phase' = [phase EXCEPT ![m] = "visible"] /\ dueAt'[m] <= clock
  /\ UNCHANGED <<clock, announced>>

\* The time of a waiting message has come.
Reveal(m) ==
  /\ phase[m] = "waiting" /\ dueAt[m] <= clock
  /\ phase' = [phase EXCEPT ![m] = "visible"]
  /\ UNCHANGED <<clock, dueAt, keepUntil, announced>>

\* The announcement may come late, after the message was forgotten.
Announce(m) ==
  /\ phase[m] \in {"visible", "forgotten"} /\ announced[m] = 0
  /\ announced' = [announced EXCEPT ![m] = 1]
  /\ UNCHANGED <<clock, phase, dueAt, keepUntil>>

\* Some messages whose retention is over are given up together.
Forget(gone) ==
  /\ \A m \in gone : phase[m] \in {"waiting", "visible"} /\ keepUntil[m] < clock
  /\ phase' = [m \in Msg |-> IF m \notin gone THEN phase[m]
                             ELSE IF phase[m] = "waiting" THEN "dropped"
                             ELSE "forgotten"]
  /\ UNCHANGED <<clock, dueAt, keepUntil, announced>>

Tick == clock' = clock + 1 /\ UNCHANGED <<phase, dueAt, keepUntil, announced>>

Next ==
  \/ \E m \in Msg : Accept(m) \/ Reveal(m) \/ Announce(m)
  \/ \E gone \in SUBSET Msg : Forget(gone)
  \/ Tick

Spec == Init /\ [][Next]_vars

=============================================================================
