------------------------------- MODULE Millis -------------------------------
(***************************************************************************)
(* The firmware's clock arithmetic.  millis() is a 32-bit unsigned counter *)
(* of milliseconds since boot and every timer of the firmware compares     *)
(* unsigned differences of its readings.                                   *)
(*                                                                         *)
(* The specifications keep every timestamp as the true uptime at which it  *)
(* was taken (Controllers alone keeps the stored values).  The stored      *)
(* value of the code is that number modulo WRAP; because a timestamp is    *)
(* only ever used in a difference modulo WRAP or in a test against zero,   *)
(* applying the modulus there is the same program, and a property can      *)
(* compare what the code computes with the real time that went by.         *)
(***************************************************************************)
EXTENDS Integers

CONSTANT WRAP  \* number of values of an unsigned long: 2^32 on the ESP32-C3

ASSUME WrapAssumption == WRAP \in Nat \ {0}

\* (now - then) on unsigned longs: a `then` later than `now` underflows.
Elapsed(now, then) == (now - then) % WRAP

\* (int32_t)(t - now) > 0: the cast makes the upper half of the range negative.
Ahead(t, now) == LET d == (t - now) % WRAP IN 0 < d /\ d < WRAP \div 2

\* The stored value of timestamp t is 0, which some timers read as "not set".
IsZero(t) == t % WRAP = 0

=============================================================================
