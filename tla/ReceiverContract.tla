--------------------------- MODULE ReceiverContract ---------------------------
(***************************************************************************)
(* What the harness (main.py) relies on, whichever of the three receivers  *)
(* it starts: packets are processed in the order they were received, a     *)
(* packet may be dropped only when it arrives and is then counted, and     *)
(* statistics are reported once no received packet is left.                *)
(***************************************************************************)
EXTENDS Naturals, Sequences

CONSTANT Packet

VARIABLES
  received,   \* how many packets were counted as valid (valid_packets)
  waiting,    \* packets received and neither processed nor dropped
  processed,  \* packets processed, in order
  dropped,    \* how many were dropped (spsc_overflow)
  reported    \* the statistics have been written

vars == <<received, waiting, processed, dropped, reported>>

Init ==
  /\ received = 0
  /\ waiting = <<>>
  /\ processed = <<>>
  /\ dropped = 0
  /\ reported = FALSE

Receive(p) ==
  /\ ~reported
  /\ received' = received + 1
  /\ waiting' = Append(waiting, p)
  /\ UNCHANGED <<processed, dropped, reported>>

(* The oldest waiting packet is processed. *)
Process ==
  /\ ~reported
  /\ waiting # <<>>
  /\ processed' = Append(processed, Head(waiting))
  /\ waiting' = Tail(waiting)
  /\ UNCHANGED <<received, dropped, reported>>

(* The newest waiting packet is dropped. *)
Drop ==
  /\ ~reported
  /\ waiting # <<>>
  /\ waiting' = SubSeq(waiting, 1, Len(waiting) - 1)
  /\ dropped' = dropped + 1
  /\ UNCHANGED <<received, processed, reported>>

Report ==
  /\ ~reported
  /\ waiting = <<>>
  /\ reported' = TRUE
  /\ UNCHANGED <<received, waiting, processed, dropped>>

Next ==
  \/ \E p \in Packet : Receive(p)
  \/ Process
  \/ Drop
  \/ Report

Spec == Init /\ [][Next]_vars

=============================================================================
