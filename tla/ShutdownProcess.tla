--------------------------- MODULE ShutdownProcess ---------------------------
(***************************************************************************)
(* shutdown_process() of main.py against a profiled receiver (perf is the  *)
(* wrapper, the receiver its workload) or a direct command (no workload is *)
(* tracked, handle.pid is the program). Signals go to the workload, waits  *)
(* are for the top-level command; every wait has a deadline, and what is   *)
(* being stopped may end, or not, at any moment.                           *)
(*                                                                         *)
(* In the direct case `workload' stands for the program and `wrapper' is   *)
(* not used. Failures of the connection are in RunAttempts.                *)
(***************************************************************************)
EXTENDS Integers, Sequences

VARIABLES
  profiled,   \* handle.workload_pid is not None
  control,    \* the program counter of shutdown_process()
  round,      \* of the loop over `stages', then of the wrapper's
  status,     \* the wait of this stage returned a status
  workload,   \* "up", "gone", or "stuck": it does not react even to SIGKILL
  wrapper,    \* the same
  received,   \* the signals the workload got while it was up, in order
  targeted    \* the signals sent to the wrapper, in order

shutdownVars == <<profiled, control, round, status, workload, wrapper, received, targeted>>

workload_stages == <<"SIGINT", "SIGTERM", "SIGKILL">>
wrapper_stages == <<"SIGTERM", "SIGKILL">>

ShutdownInit ==
  /\ profiled \in BOOLEAN
  /\ control = "signal"
  /\ round = 1
  /\ status = FALSE
  /\ workload \in {"up", "gone", "stuck"}
  /\ wrapper \in IF profiled THEN {"up", "gone", "stuck"} ELSE {"gone"}
  /\ received = <<>>
  /\ targeted = <<>>

(* The command that wait_process() waits for has ended. *)
CommandGone == IF profiled THEN wrapper = "gone" ELSE workload = "gone"

-----------------------------------------------------------------------------
(* Faulty variants of the definitions that follow.                         *)

(* The status of the wrapper is enough. *)
DecideOnStatus ==
  /\ control = "decide"
  /\ IF status
       THEN control' = "returned" /\ UNCHANGED <<round, status>>
       ELSE IF round < Len(workload_stages)
       THEN control' = "signal" /\ round' = round + 1 /\ status' = FALSE
       ELSE /\ control' = IF profiled THEN "exists" ELSE "raised"
            /\ UNCHANGED <<round, status>>
  /\ UNCHANGED <<profiled, workload, wrapper, received, targeted>>

(* The workload is asked, and asked again, but never killed. *)
DecideWithoutKill ==
  /\ control = "decide"
  /\ IF status /\ (profiled => workload = "gone")
       THEN control' = "returned" /\ UNCHANGED <<round, status>>
       ELSE IF round < 2
       THEN control' = "signal" /\ round' = round + 1 /\ status' = FALSE
       ELSE /\ control' = IF profiled THEN "exists" ELSE "raised"
            /\ UNCHANGED <<round, status>>
  /\ UNCHANGED <<profiled, workload, wrapper, received, targeted>>

-----------------------------------------------------------------------------
(* The processes.                                                          *)

(* A workload ends once it has a signal, or by itself. *)
WorkloadEnds ==
  /\ workload = "up"
  /\ workload' = "gone"
  /\ UNCHANGED <<profiled, control, round, status, wrapper, received, targeted>>

(* The wrapper ends after its workload, or fails and leaves it behind. *)
WrapperEnds ==
  /\ wrapper = "up"
  /\ wrapper' = "gone"
  /\ UNCHANGED <<profiled, control, round, status, workload, received, targeted>>

-----------------------------------------------------------------------------
(* shutdown_process().                                                     *)

(* send_signal(handle, signum). SIGKILL ends what is not stuck in the      *)
(* kernel.                                                                 *)
send_signal ==
  /\ control = "signal"
  /\ received' = IF workload = "gone" THEN received ELSE Append(received, workload_stages[round])
  /\ workload' = IF workload = "up" /\ workload_stages[round] = "SIGKILL" THEN "gone" ELSE workload
  /\ control' = "wait"
  /\ UNCHANGED <<profiled, round, status, wrapper, targeted>>

(* wait_process(): a status, or TimeoutExpired. *)
Wait ==
  /\ control = "wait"
  /\ \/ CommandGone /\ status' = TRUE
     \/ ~CommandGone /\ UNCHANGED status
  /\ control' = "decide"
  /\ UNCHANGED <<profiled, round, workload, wrapper, received, targeted>>

(* wait_pid_exit() on a tracked workload, then: return, the next stage, or *)
(* the end of the loop.                                                    *)
Decide ==
  /\ control = "decide"
  /\ IF status /\ (profiled => workload = "gone")
       THEN control' = "returned" /\ UNCHANGED <<round, status>>
       ELSE IF round < Len(workload_stages)
       THEN control' = "signal" /\ round' = round + 1 /\ status' = FALSE
       ELSE /\ control' = IF profiled THEN "exists" ELSE "raised"
            /\ UNCHANGED <<round, status>>
  /\ UNCHANGED <<profiled, workload, wrapper, received, targeted>>

(* process_exists(workload_pid): only without a workload is the wrapper    *)
(* targeted.                                                               *)
CheckWorkload ==
  /\ control = "exists"
  /\ IF workload # "gone"
       THEN control' = "raised" /\ UNCHANGED round
       ELSE control' = "wrapper_signal" /\ round' = 1
  /\ UNCHANGED <<profiled, status, workload, wrapper, received, targeted>>

(* signal_wrapper(). *)
SignalWrapper ==
  /\ control = "wrapper_signal"
  /\ targeted' = Append(targeted, wrapper_stages[round])
  /\ wrapper' = IF wrapper = "up" /\ wrapper_stages[round] = "SIGKILL"
                  THEN "gone" ELSE wrapper
  /\ control' = "wrapper_wait"
  /\ UNCHANGED <<profiled, round, status, workload, received>>

WrapperWait ==
  /\ control = "wrapper_wait"
  /\ IF CommandGone
       THEN control' = "returned" /\ UNCHANGED round
       ELSE IF round < Len(wrapper_stages)
       THEN control' = "wrapper_signal" /\ round' = round + 1
       ELSE control' = "raised" /\ UNCHANGED round
  /\ UNCHANGED <<profiled, status, workload, wrapper, received, targeted>>

-----------------------------------------------------------------------------
Processes == WorkloadEnds \/ WrapperEnds

Shutdown ==
  send_signal \/ Wait \/ Decide \/ CheckWorkload \/ SignalWrapper \/ WrapperWait

ShutdownOver == control \in {"returned", "raised"} /\ UNCHANGED shutdownVars

ShutdownNext == Processes \/ Shutdown \/ ShutdownOver

ShutdownSpec == ShutdownInit /\ [][ShutdownNext]_shutdownVars

-----------------------------------------------------------------------------
TypeOK ==
  /\ profiled \in BOOLEAN
  /\ control \in {"signal", "wait", "decide", "exists", "wrapper_signal", "wrapper_wait",
             "returned", "raised"}
  /\ round \in 1 .. Len(workload_stages)
  /\ status \in BOOLEAN
  /\ workload \in {"up", "gone", "stuck"}
  /\ wrapper \in {"up", "gone", "stuck"}
  /\ received \in Seq({"SIGINT", "SIGTERM", "SIGKILL"})
  /\ targeted \in Seq({"SIGTERM", "SIGKILL"})

(* A status is returned only when nothing is left: neither the command nor *)
(* the workload, even if the wrapper fails first and leaves it behind.     *)
ReturnMeansStopped == control = "returned" => CommandGone /\ workload = "gone"

(* The escalation is orderly and complete. "allowing their wrapper to      *)
(* observe and finalize naturally": the wrapper is targeted only when its  *)
(* workload is gone. A timeout is raised only after everything was tried:  *)
(* a workload or program that does not go has had SIGINT, SIGTERM and      *)
(* SIGKILL, in this order, and a wrapper that stays behind SIGTERM and     *)
(* SIGKILL.                                                                *)
EscalationIsComplete ==
  /\ targeted # <<>> => profiled /\ workload = "gone"
  /\ control = "raised" =>
       IF profiled /\ workload = "gone"
         THEN targeted = wrapper_stages
         ELSE received = workload_stages

=============================================================================
