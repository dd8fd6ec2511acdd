---------------------------- MODULE NodeProcesses ----------------------------
(***************************************************************************)
(* What runs on the two benchmark nodes, as RemoteNode of main.py starts   *)
(* and watches it. start_process() leaves on the node a monitor (the       *)
(* `nohup sh -c' of the launch command) that forks the receiver or sender, *)
(* writes its pid to <log>.pid, waits for it and writes its exit status to *)
(* <log>.status. The paths are those of the run, so every attempt at the   *)
(* run uses the same ones.                                                 *)
(*                                                                         *)
(* A process is named by its node (each node runs one program) and by the  *)
(* attempt that started it; its pid stands for it.                         *)
(*                                                                         *)
(* Left out: the profiled receiver (perf wrapper and tracked workload),    *)
(* the reuse of a pid by another process, and LocalNode.                   *)
(***************************************************************************)
EXTENDS Integers

CONSTANT MAX_RUN_ATTEMPTS

ASSUME AttemptsAssumption == MAX_RUN_ATTEMPTS \in Nat \ {0}

VARIABLES
  proc,        \* proc[r][a]: the process on node r started by attempt a
  monitor,     \* monitor[r][a]: its monitor
  pidFile,     \* pidFile[r]: the attempt whose pid the file holds
  statusFile,  \* statusFile[r]: the exit status in the file, and whose it is
  output       \* output[r]: the attempt that wrote the statistics file

nodeVars == <<proc, monitor, pidFile, statusFile, output>>

Role == {"receiver", "sender"}
Attempt == 1 .. MAX_RUN_ATTEMPTS
NoAttempt == 0
NoStatus == [of |-> NoAttempt, ok |-> FALSE]

Alive == {"running", "stopping", "dying"}

NodeInit ==
  /\ proc = [r \in Role |-> [a \in Attempt |-> "none"]]
  /\ monitor = [r \in Role |-> [a \in Attempt |-> "none"]]
  /\ pidFile = [r \in Role |-> NoAttempt]
  /\ statusFile = [r \in Role |-> NoStatus]
  /\ output = [r \in Role |-> NoAttempt]

-----------------------------------------------------------------------------
(* Faulty variants of the definitions that follow.                         *)

(* The monitor writes a status without waiting for the process. *)
MonitorDoesNotWait(r, a) ==
  /\ monitor[r][a] = "waiting"
  /\ monitor' = [monitor EXCEPT ![r][a] = "gone"]
  /\ statusFile' = [statusFile EXCEPT ![r] = [of |-> a, ok |-> TRUE]]
  /\ UNCHANGED <<proc, pidFile, output>>

-----------------------------------------------------------------------------
(* Commands of the controller.                                             *)

(* The launch command: the monitor is started and forks the program. *)
Launch(r, a) ==
  /\ proc' = [proc EXCEPT ![r][a] = "running"]
  /\ monitor' = [monitor EXCEPT ![r][a] = "forked"]
  /\ UNCHANGED <<pidFile, statusFile, output>>

(* kill -<signum> -<pid>, or nothing if there is no such process. The      *)
(* programs handle SIGINT; SIGTERM and SIGKILL end them.                   *)
Signal(r, a, signum) ==
  /\ proc' = [proc EXCEPT ![r][a] =
                IF @ = "running" /\ signum = "SIGINT" THEN "stopping"
                ELSE IF @ \in Alive /\ signum # "SIGINT" THEN "dying"
                ELSE @]
  /\ UNCHANGED <<monitor, pidFile, statusFile, output>>

(* rm -f of the run's files. *)
RemoveFiles(r) ==
  /\ pidFile' = [pidFile EXCEPT ![r] = NoAttempt]
  /\ statusFile' = [statusFile EXCEPT ![r] = NoStatus]
  /\ output' = [output EXCEPT ![r] = NoAttempt]
  /\ UNCHANGED <<proc, monitor>>

-----------------------------------------------------------------------------
(* Steps of the nodes.                                                     *)

MonitorWritesPid(r, a) ==
  /\ monitor[r][a] = "forked"
  /\ monitor' = [monitor EXCEPT ![r][a] = "waiting"]
  /\ pidFile' = [pidFile EXCEPT ![r] = a]
  /\ UNCHANGED <<proc, statusFile, output>>

(* The program ends by itself or after SIGINT, and writes its statistics   *)
(* first; if it fails it may or may not have written them.                 *)
ProcessExits(r, a, ok) ==
  /\ proc[r][a] \in {"running", "stopping"}
  /\ proc' = [proc EXCEPT ![r][a] = IF ok THEN "exited" ELSE "failed"]
  /\ \/ output' = [output EXCEPT ![r] = a]
     \/ ~ok /\ UNCHANGED output
  /\ UNCHANGED <<monitor, pidFile, statusFile>>

ProcessDies(r, a) ==
  /\ proc[r][a] = "dying"
  /\ proc' = [proc EXCEPT ![r][a] = "failed"]
  /\ UNCHANGED <<monitor, pidFile, statusFile, output>>

MonitorWritesStatus(r, a) ==
  /\ monitor[r][a] = "waiting"
  /\ proc[r][a] \in {"exited", "failed"}
  /\ monitor' = [monitor EXCEPT ![r][a] = "gone"]
  /\ statusFile' = [statusFile EXCEPT ![r] = [of |-> a, ok |-> proc[r][a] = "exited"]]
  /\ UNCHANGED <<proc, pidFile, output>>

=============================================================================
