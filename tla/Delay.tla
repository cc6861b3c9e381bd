------------------------------- MODULE Delay --------------------------------
(***************************************************************************)
(* What the publish handler makes of a delay (publish.rs:200-207, 371-426):*)
(* deliver at once, deliver later, or answer 400.                          *)
(*                                                                         *)
(* The numbers come from the client and are i64; the release build has no  *)
(* overflow checks, so sums and products wrap.  Half stands for 2^63, Unit *)
(* for the seconds in s, m, h and d.                                       *)
(***************************************************************************)
EXTENDS Integers

CONSTANTS
  Half,  \* an i64 is in -Half .. Half - 1, a u64 in 0 .. 2 * Half - 1
  Unit   \* seconds in the units of a duration

ASSUME DelayAssumption ==
  /\ Half \in Nat \ {0}
  /\ Unit \subseteq 1 .. Half - 1

Signed   == -Half .. Half - 1
Unsigned == 0 .. 2 * Half - 1

\* What the header parses as, tried in this order: an integer or an RFC 3339
\* date, a number with a unit, or neither.
Header ==
  [form : {"instant"}, n : Signed]
    \cup [form : {"duration"}, n : Signed, unit : Unit]
    \cup [form : {"garbage"}]

\* The i64 that a sum, a difference or a product leaves.
Wrap(x) == ((x + Half) % (2 * Half)) - Half

\* `as u64'
AsUnsigned(x) == x % (2 * Half)

\* Mutant: the maximum is not looked at.
ValidateAny(ts, clock, max) ==
  [fate |-> IF ts <= clock THEN "immediate" ELSE "delayed", at |-> ts]

\* validate_delay; `at' is of use when the fate is "delayed".
Validate(ts, clock, max) ==
  [fate |-> IF ts <= clock THEN "immediate"
            ELSE IF AsUnsigned(Wrap(ts - clock)) > max THEN "refused"
            ELSE "delayed",
   at   |-> ts]

\* parse_delay, at a clock and under a maximum.
Parsed(h, clock, max) ==
  IF h.form = "instant" THEN Validate(h.n, clock, max)
  ELSE IF h.form = "duration" THEN Validate(Wrap(clock + Wrap(h.n * h.unit)), clock, max)
  ELSE [fate |-> "refused", at |-> clock]

\* The instant the client means, whatever its size.
Meant(h, clock) == IF h.form = "instant" THEN h.n ELSE clock + h.n * h.unit

=============================================================================
