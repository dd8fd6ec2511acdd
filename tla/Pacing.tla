-------------------------------- MODULE Pacing --------------------------------
(***************************************************************************)
(* The arithmetic of the sender's schedule, src/sender/sender_common.hpp:  *)
(* packet number i of a run at rate_pps is due i / rate_pps seconds after  *)
(* the start. The 128-bit intermediate values of the code do not overflow, *)
(* so the operators use plain integers; the code's saturation at the       *)
(* largest 64-bit time is kept.                                            *)
(***************************************************************************)
EXTENDS Integers

CONSTANTS
  Second,   \* clock ticks per second (10^9: nanoseconds)
  MaxTime   \* the largest value of the clock (UINT64_MAX)

ASSUME PacingAssumption ==
  /\ Second \in Nat \ {0}
  /\ MaxTime \in Nat

(* Ticks from the start of the run to packet number i. *)
Offset(i, rate_pps) == (i * Second) \div rate_pps

deadline_ns(start, i, rate_pps) ==
  IF Offset(i, rate_pps) > MaxTime - start
    THEN MaxTime
    ELSE start + Offset(i, rate_pps)

(* How many packets are due in a run of this duration: rounded up. *)
scheduled_packet_count(duration, rate_pps) ==
  (duration * rate_pps + Second - 1) \div Second

(* A batch that starts with packet number first may go on to the count-th  *)
(* packet of its worker.                                                   *)
MayExtend(first, count, limit, stride, rate_pps, window) ==
  LET i == first + count * stride
  IN  /\ i < limit
      /\ Offset(i, rate_pps) - Offset(first, rate_pps) <= window

(* How many packets of one worker are sent in one call: the loop stops at  *)
(* the first packet that is not in the run or is due too late.             *)
adaptive_batch_count(first, limit, stride, rate_pps, batch_max, window) ==
  IF first >= limit \/ stride = 0 \/ batch_max = 0
    THEN 0
    ELSE CHOOSE count \in 1 .. batch_max :
           /\ \A c \in 1 .. count - 1 : MayExtend(first, c, limit, stride, rate_pps, window)
           /\ count = batch_max \/ ~MayExtend(first, count, limit, stride, rate_pps, window)

=============================================================================
