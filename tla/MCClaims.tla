------------------------------- MODULE MCClaims -------------------------------
(* A campaign at two amounts of work per packet. Every workload has a rate *)
(* its receiver keeps up with and, but for the last two, one it does not;  *)
(* the batched receiver is measured with two batch sizes. The pipelined    *)
(* receiver is measured with a sampled trace, the others without one; the  *)
(* batched receiver with another setup, as is the baseline in the last     *)
(* configuration. MCSmall is the part without work.                        *)
EXTENDS Claims

LOCAL Config(receiver, batch_size, work_ns, rate) ==
  [receiver |-> receiver, batch_size |-> batch_size, work_ns |-> work_ns,
   sample_every |-> IF receiver = "threaded" THEN 64 ELSE 0,
   setup |-> IF receiver = "batched" THEN 2 ELSE 1, rate |-> rate]

MCSmall == << Config("baseline", 1, 0, 1000), Config("baseline", 1, 0, 2000),
              Config("batched", 4, 0, 2000),  Config("batched", 4, 0, 3000),
              Config("threaded", 4, 0, 2000), Config("threaded", 4, 0, 3000) >>

MCConfigs == MCSmall \o
           << Config("baseline", 1, 5, 500),  Config("baseline", 1, 5, 700),
              Config("threaded", 4, 5, 1500), Config("threaded", 4, 5, 1800),
              Config("batched", 2, 5, 1500),
              [Config("baseline", 1, 0, 900) EXCEPT !.setup = 2] >>

MCOverload == {2, 4, 6, 8, 10}
MCSmallOverload == {2, 4, 6}

=============================================================================
