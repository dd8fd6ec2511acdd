-------------------------- MODULE MCThreadedReceiver --------------------------
(* ThreadedReceiver on small instances: see the .cfg files. *)
EXTENDS ThreadedReceiver

MCItem == [seq : 0 .. MaxDatagrams, sampled : BOOLEAN]

=============================================================================
