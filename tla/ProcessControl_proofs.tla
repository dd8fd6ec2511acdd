------------------------ MODULE ProcessControl_proofs ------------------------
(***************************************************************************)
(* How the harness stops and retries. First shutdown_process() by itself:  *)
(* it returns only when everything is stopped and gives up only after      *)
(* everything was tried, whatever the processes do meanwhile. Then the     *)
(* attempts at a run: what the first of them reports is true of its        *)
(* processes, none of these is left behind over connections that hold, and *)
(* a node keeps its status files until the metadata is written.            *)
(***************************************************************************)
EXTENDS RunAttempts, ShutdownProcess, TLAPS

-----------------------------------------------------------------------------
(* shutdown_process().                                                     *)

(* The first n of the signals that escalate. *)
Prefix(signals, n) == [i \in 1 .. n |-> signals[i]]

(* A workload that is still there has received every signal sent so far.   *)
SignalInv ==
  /\ control = "signal" /\ workload # "gone" => received = Prefix(workload_stages, round - 1)
  /\ control \in {"wait", "decide"} /\ workload # "gone" =>
       received = Prefix(workload_stages, round)
  /\ control \in {"exists", "raised"} /\ workload # "gone" => received = workload_stages

(* Nothing that can end is left after SIGKILL. *)
KillInv ==
  /\ control \in {"wait", "decide"} /\ round = Len(workload_stages) => workload # "up"
  /\ control \in {"exists", "wrapper_signal", "wrapper_wait", "raised"} => workload # "up"
  /\ control = "decide" /\ round = Len(workload_stages) /\ ~profiled /\ ~status =>
       workload = "stuck"
  /\ control = "raised" /\ ~profiled => workload = "stuck"

(* What wait_process() has reported stays true. *)
StatusInv ==
  /\ status => CommandGone
  /\ control \in {"signal", "wait"} => ~status
  /\ control = "returned" => CommandGone /\ workload = "gone"

(* The wrapper is reached with its workload gone only. *)
WrapperInv ==
  /\ control \in {"signal", "wait", "decide", "exists"} => targeted = <<>>
  /\ control \in {"exists", "wrapper_signal", "wrapper_wait"} => profiled
  /\ control \in {"wrapper_signal", "wrapper_wait"} => workload = "gone" /\ round \in 1 .. 2
  /\ control = "wrapper_signal" => targeted = Prefix(wrapper_stages, round - 1)
  /\ control = "wrapper_wait" => targeted = Prefix(wrapper_stages, round)
  /\ targeted # <<>> => profiled /\ workload = "gone"
  /\ control = "raised" /\ profiled /\ workload = "gone" => targeted = wrapper_stages

ShutdownInv == TypeOK /\ SignalInv /\ KillInv /\ StatusInv /\ WrapperInv

-----------------------------------------------------------------------------
(* The prefixes grow by one signal, from none to all of them. *)
LEMMA Prefixes ==
  /\ Prefix(workload_stages, 0) = <<>>
  /\ Prefix(workload_stages, 3) = workload_stages
  /\ \A n \in 1 .. 3 :
       Append(Prefix(workload_stages, n - 1), workload_stages[n]) = Prefix(workload_stages, n)
  /\ Prefix(wrapper_stages, 0) = <<>>
  /\ Prefix(wrapper_stages, 2) = wrapper_stages
  /\ \A n \in 1 .. 2 :
       Append(Prefix(wrapper_stages, n - 1), wrapper_stages[n]) = Prefix(wrapper_stages, n)
  /\ Len(workload_stages) = 3
  /\ Len(wrapper_stages) = 2
<1> USE DEF Prefix, workload_stages, wrapper_stages
<1>1. Len(workload_stages) = 3 /\ Len(wrapper_stages) = 2
  OBVIOUS
<1>2. Prefix(workload_stages, 0) = <<>> /\ Prefix(wrapper_stages, 0) = <<>>
  OBVIOUS
<1>3. Prefix(workload_stages, 3) = workload_stages
  OBVIOUS
<1>4. Prefix(wrapper_stages, 2) = wrapper_stages
  OBVIOUS
<1>5. ASSUME NEW n \in 1 .. 3
      PROVE  Append(Prefix(workload_stages, n - 1), workload_stages[n]) = Prefix(workload_stages, n)
  OBVIOUS
<1>6. ASSUME NEW n \in 1 .. 2
      PROVE  Append(Prefix(wrapper_stages, n - 1), wrapper_stages[n])
               = Prefix(wrapper_stages, n)
  OBVIOUS
<1> QED
  BY <1>1, <1>2, <1>3, <1>4, <1>5, <1>6

(* The last of the three signals, and only it, kills. *)
LEMMA Signals ==
  /\ \A n \in 1 .. 3 : /\ workload_stages[n] \in {"SIGINT", "SIGTERM", "SIGKILL"}
                       /\ workload_stages[n] = "SIGKILL" <=> n = 3
  /\ \A n \in 1 .. 2 : wrapper_stages[n] \in {"SIGTERM", "SIGKILL"}
BY DEF workload_stages, wrapper_stages

LEMMA ShutdownInitInv == ShutdownInit => ShutdownInv
<1> SUFFICES ASSUME ShutdownInit PROVE ShutdownInv
  OBVIOUS
<1>1. TypeOK
  <2>1. wrapper \in {"up", "gone", "stuck"}
    BY DEF ShutdownInit
  <2>2. round \in 1 .. Len(workload_stages) /\ received = <<>> /\ targeted = <<>>
    BY Prefixes DEF ShutdownInit
  <2>3. profiled \in BOOLEAN /\ status \in BOOLEAN
    BY DEF ShutdownInit
  <2> QED
    BY <2>1, <2>2, <2>3 DEF ShutdownInit, TypeOK
<1>2. SignalInv /\ KillInv /\ StatusInv /\ WrapperInv
  BY Prefixes DEF ShutdownInit, SignalInv, KillInv, StatusInv, WrapperInv
<1> QED
  BY <1>1, <1>2 DEF ShutdownInv

(* The processes: nothing that has ended comes back. *)
LEMMA ProcessesInv == ShutdownInv /\ Processes => ShutdownInv'
<1> SUFFICES ASSUME ShutdownInv, Processes PROVE ShutdownInv'
  OBVIOUS
<1> USE Prefixes DEF ShutdownInv, TypeOK, SignalInv, KillInv, StatusInv, WrapperInv, CommandGone
<1>1. CASE WorkloadEnds
  BY <1>1 DEF WorkloadEnds
<1>2. CASE WrapperEnds
  BY <1>2 DEF WrapperEnds
<1> QED
  BY <1>1, <1>2 DEF Processes

(* The loop over the stages, up to the look at the workload after it. *)
LEMMA StagesInv == ShutdownInv /\ (send_signal \/ Wait \/ Decide) => ShutdownInv'
<1> SUFFICES ASSUME ShutdownInv, send_signal \/ Wait \/ Decide PROVE ShutdownInv'
  OBVIOUS
<1> USE Prefixes DEF ShutdownInv, TypeOK, SignalInv, KillInv, StatusInv, WrapperInv, CommandGone
<1>1. CASE send_signal
  <2>1. round \in 1 .. 3
    OBVIOUS
  <2>2. received' \in Seq({"SIGINT", "SIGTERM", "SIGKILL"})
    BY <1>1, <2>1, Signals DEF send_signal
  <2>3. workload # "gone" => received' = Prefix(workload_stages, round)
    BY <1>1, <2>1 DEF send_signal
  <2>4. /\ workload' \in {"up", "gone", "stuck"}
        /\ workload' # "gone" => workload # "gone"
        /\ workload = "gone" => workload' = "gone"
        /\ round = 3 => workload' # "up"
    BY <1>1, <2>1, Signals DEF send_signal
  <2> QED
    BY <1>1, <2>1, <2>2, <2>3, <2>4 DEF send_signal
<1>2. CASE Wait
  <2>1. CASE CommandGone /\ status' = TRUE
    BY <1>2, <2>1 DEF Wait
  <2>2. CASE ~CommandGone /\ UNCHANGED status
    BY <1>2, <2>2 DEF Wait
  <2> QED
    BY <1>2, <2>1, <2>2 DEF Wait
<1>3. CASE Decide
  <2>1. CASE status /\ (profiled => workload = "gone")
    <3>1. CommandGone /\ workload = "gone"
      <4>1. CASE profiled
        BY <2>1, <4>1
      <4>2. CASE ~profiled
        BY <2>1, <4>2
      <4> QED
        BY <4>1, <4>2
    <3>2. /\ control' = "returned"
          /\ UNCHANGED <<round, status, profiled, workload, wrapper, received, targeted>>
      BY <1>3, <2>1 DEF Decide
    <3> QED
      BY <3>1, <3>2
  <2>2. CASE ~(status /\ (profiled => workload = "gone")) /\ round < Len(workload_stages)
    <3>1. /\ control' = "signal" /\ round' = round + 1 /\ status' = FALSE
          /\ UNCHANGED <<profiled, workload, wrapper, received, targeted>>
      BY <1>3, <2>2 DEF Decide
    <3>2. round' \in 1 .. 3 /\ round' - 1 = round /\ control = "decide"
      BY <1>3, <2>2, <3>1 DEF Decide
    <3>3. workload' # "gone" => received' = Prefix(workload_stages, round' - 1)
      BY <3>1, <3>2
    <3> QED
      BY <3>1, <3>2, <3>3
  <2>3. CASE ~(status /\ (profiled => workload = "gone")) /\ ~(round < Len(workload_stages))
    <3>1. control' = (IF profiled THEN "exists" ELSE "raised")
      BY <1>3, <2>3 DEF Decide
    <3>2. round = 3
      BY <2>3
    <3> QED
      BY <1>3, <2>3, <3>1, <3>2 DEF Decide
  <2> QED
    BY <2>1, <2>2, <2>3
<1> QED
  BY <1>1, <1>2, <1>3

(* The wrapper, when its workload is gone. *)
LEMMA WrapperStagesInv ==
  ShutdownInv /\ (CheckWorkload \/ SignalWrapper \/ WrapperWait) => ShutdownInv'
<1> SUFFICES ASSUME ShutdownInv, CheckWorkload \/ SignalWrapper \/ WrapperWait PROVE ShutdownInv'
  OBVIOUS
<1> USE Prefixes DEF ShutdownInv, TypeOK, SignalInv, KillInv, StatusInv, WrapperInv, CommandGone
<1>1. CASE CheckWorkload
  BY <1>1 DEF CheckWorkload
<1>2. CASE SignalWrapper
  <2>1. round \in 1 .. 2 /\ profiled /\ workload = "gone"
    BY <1>2 DEF SignalWrapper
  <2>2. targeted' \in Seq({"SIGTERM", "SIGKILL"})
    BY <1>2, <2>1, Signals DEF SignalWrapper
  <2>3. targeted' = Prefix(wrapper_stages, round)
    BY <1>2, <2>1 DEF SignalWrapper
  <2>4. wrapper' \in {"up", "gone", "stuck"} /\ (wrapper = "gone" => wrapper' = "gone")
    BY <1>2 DEF SignalWrapper
  <2> QED
    BY <1>2, <2>1, <2>2, <2>3, <2>4 DEF SignalWrapper
<1>3. CASE WrapperWait
  BY <1>3 DEF WrapperWait
<1> QED
  BY <1>1, <1>2, <1>3

(* The inductive invariant of shutdown_process(). *)
THEOREM ShutdownInvariance == ShutdownSpec => []ShutdownInv
<1>1. ShutdownInv /\ [ShutdownNext]_shutdownVars => ShutdownInv'
  <2> SUFFICES ASSUME ShutdownInv, [ShutdownNext]_shutdownVars PROVE ShutdownInv'
    OBVIOUS
  <2>1. CASE Processes
    BY <2>1, ProcessesInv
  <2>2. CASE Shutdown
    BY <2>2, StagesInv, WrapperStagesInv DEF Shutdown
  <2>3. CASE UNCHANGED shutdownVars
    BY <2>3 DEF shutdownVars, ShutdownInv, TypeOK, SignalInv, KillInv, StatusInv, WrapperInv,
                CommandGone
  <2> QED
    BY <2>1, <2>2, <2>3 DEF ShutdownNext, ShutdownOver
<1> QED
  BY <1>1, ShutdownInitInv, PTL DEF ShutdownSpec

(* Types of the state of shutdown_process(); the stage in particular never *)
(* runs past the signals there are.                                        *)
THEOREM ShutdownTypeCorrect == ShutdownSpec => []TypeOK
BY ShutdownInvariance, PTL DEF ShutdownInv

(* A returned status means that nothing is left running. *)
THEOREM Stopped == ShutdownSpec => []ReturnMeansStopped
<1>1. ShutdownInv => ReturnMeansStopped
  BY DEF ShutdownInv, StatusInv, ReturnMeansStopped
<1> QED
  BY <1>1, ShutdownInvariance, PTL

(* The wrapper is spared while its workload is there, and a timeout is     *)
(* raised only after every signal was tried.                               *)
THEOREM Escalated == ShutdownSpec => []EscalationIsComplete
<1>1. ShutdownInv => EscalationIsComplete
  BY Prefixes DEF ShutdownInv, TypeOK, SignalInv, KillInv, WrapperInv, EscalationIsComplete
<1> QED
  BY <1>1, ShutdownInvariance, PTL

-----------------------------------------------------------------------------
(* The attempts at a run.                                                  *)

Life == {"none", "running", "stopping", "dying", "exited", "failed"}
Watch == {"none", "forked", "waiting", "gone"}
Run == 0 .. MAX_RUN_ATTEMPTS
Waits == {"wait_status", "wait_alive"}
Jobs == {"sender", "stop", "cleanup"}
Control == {"launch", "ready", "check", "signal", "fetch", "write", "finally", "remove",
            "end", "done", "aborted"} \union Waits

NodeTypeInv ==
  /\ proc \in [Role -> [Attempt -> Life]]
  /\ monitor \in [Role -> [Attempt -> Watch]]
  /\ pidFile \in [Role -> Run]
  /\ statusFile \in [Role -> [of : Run, ok : BOOLEAN]]
  /\ output \in [Role -> Run]

ControlTypeInv ==
  /\ pc \in Control
  /\ target \in Role
  /\ job \in Jobs \union {"none"}
  /\ stage \in 1 .. 3
  /\ handle \in [Role -> [pid : Run, monitor : Run]]
  /\ active \in [Role -> BOOLEAN]

RunTypeInv ==
  /\ attempt \in Attempt
  /\ eligible \in BOOLEAN
  /\ raised \in {"none", "transport", "error"}
  /\ fetched \in [Role -> Run]
  /\ result \in [attempt : Run, receiver : Run, sender : Run, valid : BOOLEAN]
  /\ link \in [Role -> BOOLEAN]
  /\ faults \in 0 .. MaxFaults
  /\ troubles \in 0 .. MaxTroubles

TypeInv == NodeTypeInv /\ ControlTypeInv /\ RunTypeInv

(* What the files on a node say of its processes is true: a monitor goes   *)
(* when its process has ended, and a status is the one it ended with.      *)
NodeInv ==
  /\ \A r \in Role, a \in Attempt :
       /\ a > attempt => proc[r][a] = "none" /\ monitor[r][a] = "none"
       /\ monitor[r][a] = "gone" => proc[r][a] \in {"exited", "failed"}
  /\ \A r \in Role : pidFile[r] <= attempt
  /\ \A r \in Role : statusFile[r] # NoStatus =>
       /\ statusFile[r].of \in Attempt
       /\ monitor[r][statusFile[r].of] = "gone"
       /\ statusFile[r].ok => proc[r][statusFile[r].of] = "exited"

(* An attempt starts its receiver first, and each program once.            *)
LaunchInv ==
  /\ pc = "launch" => proc[target][attempt] = "none" /\ monitor[target][attempt] = "none"
  /\ pc \in {"launch", "ready", "check"} /\ target = "receiver" =>
       proc["sender"][attempt] = "none" /\ monitor["sender"][attempt] = "none"
  /\ pc = "check" => target = "receiver"

(* Whom the controller waits for, and what it is still to stop.            *)
JobInv ==
  /\ pc \in Waits => job \in Jobs
  /\ pc = "signal" => job \in {"stop", "cleanup"}
  /\ pc \in Waits /\ job = "sender" => target = "sender"
  /\ pc \in Waits \union {"signal"} /\ job = "stop" => target = "receiver"
  /\ pc \in Waits \union {"signal"} /\ job = "cleanup" => active[target]
  /\ pc \in {"remove", "end"} => \A r \in Role : ~active[r]

(* Files are removed only when the metadata is there.                      *)
EligibleInv ==
  /\ eligible => result # NoResult
  /\ pc = "remove" => eligible
  /\ result = NoResult =>
       \A r \in Role, a \in Attempt : monitor[r][a] = "gone" => statusFile[r] # NoStatus

(* What the first attempt knows of its processes.                          *)
FirstInv ==
  /\ attempt = 1 /\ job = "stop" => proc["sender"][1] = "exited"
  /\ attempt = 1 /\ pc \in {"fetch", "write"} => \A r \in Role : proc[r][1] = "exited"
  /\ result.attempt = 1 => \A r \in Role : proc[r][1] = "exited"

(* The first attempt stops what it has started.                            *)
StopInv ==
  attempt = 1 /\ faults = 0 =>
    /\ \A r \in Role : link[r]
    /\ \A r \in Role : active[r] => handle[r].pid = 1
    /\ \A r \in Role : ~active[r] /\ ~(pc = "ready" /\ target = r) => ~Running(r, 1)
    /\ pc \in Waits /\ job = "cleanup" /\ stage = 3 => ~Running(target, 1)

Inv == TypeInv /\ NodeInv /\ LaunchInv /\ JobInv /\ EligibleInv /\ FirstInv /\ StopInv

-----------------------------------------------------------------------------
(* The processes. But for a launch, no step gives a process life: what has *)
(* ended stays as it is, and what does not run does not run again.         *)
Wanes ==
  /\ proc' \in [Role -> [Attempt -> Life]]
  /\ \A r \in Role, a \in Attempt :
       /\ proc[r][a] \in {"none", "exited", "failed"} => proc'[r][a] = proc[r][a]
       /\ Running(r, a)' => Running(r, a)

(* One process, if there is such a one, changes.                           *)
LEMMA ProcessChanges ==
  ASSUME NodeTypeInv, NEW r \in Role, NEW a \in Run, NEW state \in Life,
         proc' = [proc EXCEPT ![r][a] = state]
  PROVE  /\ proc' \in [Role -> [Attempt -> Life]]
         /\ \A q \in Role, b \in Attempt :
              proc'[q][b] = IF q = r /\ b = a THEN state ELSE proc[q][b]
<1> DEFINE of == [proc[r] EXCEPT ![a] = state]
<1>1. proc \in [Role -> [Attempt -> Life]] /\ proc[r] \in [Attempt -> Life]
  BY DEF NodeTypeInv
<1>2. /\ of \in [Attempt -> Life]
      /\ \A b \in Attempt : of[b] = IF b = a THEN state ELSE proc[r][b]
  BY <1>1
<1>3. proc' = [proc EXCEPT ![r] = of]
  OBVIOUS
<1> HIDE DEF of
<1>4. proc' \in [Role -> [Attempt -> Life]]
  BY <1>1, <1>2, <1>3
<1>5. ASSUME NEW q \in Role, NEW b \in Attempt
      PROVE  proc'[q][b] = IF q = r /\ b = a THEN state ELSE proc[q][b]
  <2>1. CASE q = r
    BY <1>1, <1>2, <1>3, <2>1
  <2>2. CASE q # r
    BY <1>1, <1>3, <2>2
  <2> QED
    BY <2>1, <2>2
<1> QED
  BY <1>4, <1>5

LEMMA MonitorChanges ==
  ASSUME NodeTypeInv, NEW r \in Role, NEW a \in Attempt,
         NEW state \in Watch,
         monitor' = [monitor EXCEPT ![r][a] = state]
  PROVE  /\ monitor' \in [Role -> [Attempt -> Watch]]
         /\ \A q \in Role, b \in Attempt :
              monitor'[q][b] = IF q = r /\ b = a THEN state ELSE monitor[q][b]
<1> DEFINE of == [monitor[r] EXCEPT ![a] = state]
<1>1. monitor \in [Role -> [Attempt -> Watch]] /\ monitor[r] \in [Attempt -> Watch]
  BY DEF NodeTypeInv
<1>2. /\ of \in [Attempt -> Watch]
      /\ \A b \in Attempt : of[b] = IF b = a THEN state ELSE monitor[r][b]
  BY <1>1
<1>3. monitor' = [monitor EXCEPT ![r] = of]
  OBVIOUS
<1> HIDE DEF of
<1>4. monitor' \in [Role -> [Attempt -> Watch]]
  BY <1>1, <1>2, <1>3
<1>5. ASSUME NEW q \in Role, NEW b \in Attempt
      PROVE  monitor'[q][b] = IF q = r /\ b = a THEN state ELSE monitor[q][b]
  <2>1. CASE q = r
    BY <1>1, <1>2, <1>3, <2>1
  <2>2. CASE q # r
    BY <1>1, <1>3, <2>2
  <2> QED
    BY <2>1, <2>2
<1> QED
  BY <1>4, <1>5

(* A signal stops a process or leaves it as it is; SIGKILL stops it.       *)
LEMMA SignalWanes ==
  ASSUME NodeTypeInv, NEW r \in Role, NEW a \in Run, NEW signum, Signal(r, a, signum)
  PROVE  /\ Wanes
         /\ signum = "SIGKILL" /\ a \in Attempt => ~Running(r, a)'
<1> DEFINE was == proc[r][a]
           state == IF was = "running" /\ signum = "SIGINT" THEN "stopping"
                    ELSE IF was \in Alive /\ signum # "SIGINT" THEN "dying"
                    ELSE was
<1>1. proc' = [proc EXCEPT ![r][a] = state]
  BY DEF Signal
<1>2. CASE a \in Attempt
  <2>1. was \in Life /\ state \in Life
    BY <1>2 DEF NodeTypeInv, Life
  <2>2. /\ was \in {"none", "exited", "failed"} => state = was
        /\ state \in {"running", "stopping"} => was \in {"running", "stopping"}
        /\ signum = "SIGKILL" => state \notin {"running", "stopping"}
    BY <2>1 DEF Alive, Life
  <2> HIDE DEF state
  <2>3. /\ proc' \in [Role -> [Attempt -> Life]]
        /\ \A q \in Role, b \in Attempt :
             proc'[q][b] = IF q = r /\ b = a THEN state ELSE proc[q][b]
    BY <1>1, <2>1, ProcessChanges
  <2> QED
    BY <1>2, <2>2, <2>3 DEF Wanes, Running
<1>3. CASE a \notin Attempt
  <2> HIDE DEF state
  <2>1. proc \in [Role -> [Attempt -> Life]] /\ proc[r] \in [Attempt -> Life]
    BY DEF NodeTypeInv
  <2>2. [proc[r] EXCEPT ![a] = state] = proc[r]
    BY <1>3, <2>1
  <2>3. proc' = [proc EXCEPT ![r] = proc[r]]
    BY <1>1, <2>2
  <2>4. proc' = proc
    BY <2>1, <2>3
  <2> QED
    BY <1>3, <2>1, <2>4 DEF Wanes, Running
<1> QED
  BY <1>2, <1>3

LEMMA ExitWanes ==
  ASSUME NodeTypeInv, NEW r \in Role, NEW a \in Attempt, NEW ok \in BOOLEAN,
         ProcessExits(r, a, ok) \/ ProcessDies(r, a)
  PROVE  Wanes /\ output' \in [Role -> Run] /\ UNCHANGED <<monitor, pidFile, statusFile>>
<1>1. a \in Run
  BY AttemptsAssumption DEF Attempt, Run
<1>2. PICK state \in {"exited", "failed"} :
        proc' = [proc EXCEPT ![r][a] = state] /\ proc[r][a] \in {"running", "stopping", "dying"}
  BY DEF ProcessExits, ProcessDies
<1>3. /\ proc' \in [Role -> [Attempt -> Life]]
      /\ \A q \in Role, b \in Attempt :
           proc'[q][b] = IF q = r /\ b = a THEN state ELSE proc[q][b]
  <2>1. state \in Life
    BY DEF Life
  <2> QED
    BY <1>1, <1>2, <2>1, ProcessChanges
<1>4. Wanes
  BY <1>2, <1>3 DEF Wanes, Running
<1>5. output' \in [Role -> Run]
  <2>1. output' = output \/ output' = [output EXCEPT ![r] = a]
    BY DEF ProcessExits, ProcessDies
  <2> QED
    BY <1>1, <2>1 DEF NodeTypeInv
<1> QED
  BY <1>4, <1>5 DEF ProcessExits, ProcessDies

(* The part of the invariant that is about the nodes outlives such a step, *)
(* and so does what was known of programs that had ended.                  *)
LEMMA WanesKeeps ==
  ASSUME Inv, Wanes, output' \in [Role -> Run],
         UNCHANGED <<monitor, pidFile, statusFile, attempt>>
  PROVE  /\ NodeTypeInv' /\ NodeInv'
         /\ \A r \in Role : proc[r][1] = "exited" => proc'[r][1] = "exited"
<1>1. NodeTypeInv /\ NodeInv /\ 1 \in Attempt
  BY AttemptsAssumption DEF Inv, TypeInv, Attempt
<1>2. NodeTypeInv'
  BY <1>1 DEF NodeTypeInv, Wanes
<1>3. NodeInv'
  BY <1>1 DEF NodeInv, NodeTypeInv, Wanes
<1>4. \A r \in Role : proc[r][1] = "exited" => proc'[r][1] = "exited"
  BY <1>1 DEF Wanes
<1> QED
  BY <1>2, <1>3, <1>4

-----------------------------------------------------------------------------
(* A process ends, or a monitor writes; the controller does nothing.       *)
controls == <<pc, controlVars, runVars, active, link, faults>>

LEMMA ExitInv ==
  ASSUME Inv, NEW r \in Role, NEW a \in Attempt, NEW ok \in BOOLEAN,
         ProcessExits(r, a, ok) \/ ProcessDies(r, a),
         UNCHANGED <<controls, raised>>, troubles' \in 0 .. MaxTroubles
  PROVE  Inv'
<1> USE DEF controls, controlVars, runVars
<1>1. /\ Wanes /\ output' \in [Role -> Run] /\ UNCHANGED <<monitor, pidFile, statusFile>>
      /\ NodeTypeInv' /\ NodeInv'
      /\ \A q \in Role : proc[q][1] = "exited" => proc'[q][1] = "exited"
  BY ExitWanes, WanesKeeps DEF Inv, TypeInv
<1>2. TypeInv'
  BY <1>1 DEF Inv, TypeInv, ControlTypeInv, RunTypeInv
<1>3. LaunchInv'
  BY <1>1 DEF Inv, TypeInv, ControlTypeInv, RunTypeInv, LaunchInv, Wanes, Role
<1>4. JobInv'
  BY DEF Inv, JobInv
<1>5. EligibleInv'
  BY <1>1 DEF Inv, EligibleInv
<1>6. FirstInv'
  BY <1>1 DEF Inv, FirstInv, Role
<1>7. StopInv'
  <2>1. \A q \in Role : Running(q, 1)' => Running(q, 1)
    BY <1>1, AttemptsAssumption DEF Wanes, Attempt
  <2>2. target \in Role
    BY DEF Inv, TypeInv, ControlTypeInv
  <2> QED
    BY <2>1, <2>2 DEF Inv, StopInv
<1> QED
  BY <1>1, <1>2, <1>3, <1>4, <1>5, <1>6, <1>7 DEF Inv

LEMMA MonitorInv ==
  ASSUME Inv, NEW r \in Role, NEW a \in Attempt,
         MonitorWritesPid(r, a) \/ MonitorWritesStatus(r, a),
         UNCHANGED <<controls, raised, troubles>>
  PROVE  Inv'
<1> USE DEF controls, controlVars, runVars
<1>1. /\ NodeTypeInv /\ NodeInv /\ NoAttempt \notin Attempt
      /\ a \in Run /\ a <= attempt /\ attempt \in Attempt
  <2>1. a \in Run /\ NoAttempt \notin Attempt /\ attempt \in Attempt /\ NodeTypeInv /\ NodeInv
    BY AttemptsAssumption DEF Inv, TypeInv, RunTypeInv, Attempt, Run, NoAttempt
  <2>2. ~(a > attempt)
    BY DEF Inv, NodeInv, MonitorWritesPid, MonitorWritesStatus
  <2> QED
    BY <2>1, <2>2, AttemptsAssumption DEF Attempt
<1>2. UNCHANGED <<proc, output>>
  BY DEF MonitorWritesPid, MonitorWritesStatus
<1>3. PICK state \in {"waiting", "gone"} :
        /\ monitor' = [monitor EXCEPT ![r][a] = state]
        /\ state = "waiting" => MonitorWritesPid(r, a)
        /\ state = "gone" => MonitorWritesStatus(r, a)
  BY DEF MonitorWritesPid, MonitorWritesStatus
<1>4. /\ monitor' \in [Role -> [Attempt -> Watch]]
      /\ \A q \in Role, b \in Attempt :
           monitor'[q][b] = IF q = r /\ b = a THEN state ELSE monitor[q][b]
  <2>1. state \in Watch
    BY DEF Watch
  <2> QED
    BY <1>1, <1>3, <2>1, MonitorChanges
<1>5. CASE MonitorWritesPid(r, a)
  <2>1. /\ state = "waiting" /\ UNCHANGED statusFile
        /\ pidFile' = [pidFile EXCEPT ![r] = a]
        /\ monitor[r][a] = "forked"
    <3>1. monitor'[r][a] = "waiting"
      BY <1>1, <1>5 DEF MonitorWritesPid, NodeTypeInv
    <3> QED
      BY <1>4, <1>5, <3>1 DEF MonitorWritesPid
  <2>2. NodeTypeInv'
    BY <1>1, <1>2, <1>4, <2>1 DEF NodeTypeInv
  <2>3. \A q \in Role, b \in Attempt :
          /\ monitor'[q][b] = "gone" <=> monitor[q][b] = "gone"
          /\ monitor'[q][b] = "none" <=> monitor[q][b] = "none"
    BY <1>4, <2>1
  <2>4. NodeInv'
    <3>1. \A q \in Role : pidFile'[q] <= attempt'
      BY <1>1, <2>1 DEF NodeTypeInv, NodeInv
    <3> QED
      BY <1>1, <1>2, <2>1, <2>3, <3>1 DEF NodeInv
  <2>5. EligibleInv'
    BY <2>1, <2>3 DEF Inv, EligibleInv
  <2> QED
    BY <1>1, <1>2, <2>2, <2>3, <2>4, <2>5
    DEF Inv, TypeInv, ControlTypeInv, RunTypeInv, LaunchInv, JobInv, FirstInv, StopInv,
        Running, Role
<1>6. CASE MonitorWritesStatus(r, a)
  <2> DEFINE status_written == [of |-> a, ok |-> proc[r][a] = "exited"]
  <2>1. /\ state = "gone" /\ UNCHANGED pidFile
        /\ statusFile' = [statusFile EXCEPT ![r] = status_written]
        /\ monitor[r][a] = "waiting" /\ proc[r][a] \in {"exited", "failed"}
    <3>1. monitor'[r][a] = "gone"
      BY <1>1, <1>6 DEF MonitorWritesStatus, NodeTypeInv
    <3> QED
      BY <1>4, <1>6, <3>1 DEF MonitorWritesStatus
  <2>2. /\ status_written \in [of : Run, ok : BOOLEAN] /\ status_written # NoStatus
        /\ status_written.of = a /\ (status_written.ok => proc[r][a] = "exited")
    BY <1>1 DEF NoStatus
  <2> HIDE DEF status_written
  <2>3. NodeTypeInv'
    BY <1>1, <1>2, <1>4, <2>1, <2>2 DEF NodeTypeInv
  <2>4. \A q \in Role, b \in Attempt :
          /\ monitor'[q][b] = "gone" <=> monitor[q][b] = "gone" \/ (q = r /\ b = a)
          /\ monitor'[q][b] = "none" <=> monitor[q][b] = "none"
    BY <1>4, <2>1
  <2>5. \A q \in Role : statusFile'[q] = IF q = r THEN status_written ELSE statusFile[q]
    BY <1>1, <2>1 DEF NodeTypeInv
  <2>6. NodeInv'
    BY <1>1, <1>2, <2>1, <2>2, <2>4, <2>5 DEF NodeInv
  <2>7. EligibleInv'
    BY <2>2, <2>4, <2>5 DEF Inv, EligibleInv
  <2> QED
    BY <1>1, <1>2, <2>3, <2>4, <2>6, <2>7
    DEF Inv, TypeInv, ControlTypeInv, RunTypeInv, LaunchInv, JobInv, FirstInv, StopInv,
        Running, Role
<1> QED
  BY <1>5, <1>6

LEMMA NodesInv == ASSUME Inv, Nodes PROVE Inv'
<1>1. PICK r \in Role, a \in Attempt :
        \/ NodeStep(r, a)
        \/ \E ok \in BOOLEAN : ProgramExits(r, a, ok) \/ ProgramFails(r, a, ok)
  BY DEF Nodes
<1>2. CASE NodeStep(r, a)
  <2>1. CASE ProcessDies(r, a)
    <3>1. troubles' \in 0 .. MaxTroubles
      BY <1>2 DEF NodeStep, Inv, TypeInv, RunTypeInv
    <3> QED
      BY <1>2, <2>1, <3>1, ExitInv DEF NodeStep, controls
  <2>2. CASE MonitorWritesPid(r, a) \/ MonitorWritesStatus(r, a)
    BY <1>2, <2>2, MonitorInv DEF NodeStep, controls
  <2> QED
    BY <1>2, <2>1, <2>2 DEF NodeStep
<1>3. ASSUME NEW ok \in BOOLEAN, ProgramExits(r, a, ok) \/ ProgramFails(r, a, ok) PROVE Inv'
  <2>1. ProcessExits(r, a, ok) /\ UNCHANGED <<controls, raised>>
    BY <1>3 DEF ProgramExits, ProgramFails, controls
  <2>2. troubles' \in 0 .. MaxTroubles
    BY <1>3, FaultsAssumption DEF ProgramExits, ProgramFails, Inv, TypeInv, RunTypeInv
  <2> QED
    BY <2>1, <2>2, ExitInv
<1> QED
  BY <1>1, <1>2, <1>3

-----------------------------------------------------------------------------
(* The controller starts a program.                                        *)
LEMMA LaunchSentInv == ASSUME Inv, LaunchSent PROVE Inv'
<1> USE DEF controlVars, runVars
<1>1. /\ NodeTypeInv /\ NodeInv /\ target \in Role /\ attempt \in Attempt /\ attempt \in Run
      /\ proc[target][attempt] = "none" /\ monitor[target][attempt] = "none"
      /\ target = "receiver" =>
           proc["sender"][attempt] = "none" /\ monitor["sender"][attempt] = "none"
  BY AttemptsAssumption
  DEF LaunchSent, Inv, TypeInv, ControlTypeInv, RunTypeInv, LaunchInv, Attempt, Run
<1>2. /\ proc' = [proc EXCEPT ![target][attempt] = "running"]
      /\ monitor' = [monitor EXCEPT ![target][attempt] = "forked"]
      /\ pc' = "ready"
      /\ UNCHANGED <<pidFile, statusFile, output, target, job, stage, handle, runVars,
                     active, raised, cause, link, faults, troubles>>
  BY DEF LaunchSent, Launch
<1>3. /\ proc' \in [Role -> [Attempt -> Life]]
      /\ \A q \in Role, b \in Attempt :
           proc'[q][b] = IF q = target /\ b = attempt THEN "running" ELSE proc[q][b]
  <2>1. "running" \in Life
    BY DEF Life
  <2> QED
    BY <1>1, <1>2, <2>1, ProcessChanges
<1>4. /\ monitor' \in [Role -> [Attempt -> Watch]]
      /\ \A q \in Role, b \in Attempt :
           monitor'[q][b] = IF q = target /\ b = attempt THEN "forked" ELSE monitor[q][b]
  <2>1. "forked" \in Watch
    BY DEF Watch
  <2> QED
    BY <1>1, <1>2, <2>1, MonitorChanges
<1>5. TypeInv'
  <2>1. NodeTypeInv'
    BY <1>1, <1>2, <1>3, <1>4 DEF NodeTypeInv
  <2>2. ControlTypeInv' /\ RunTypeInv'
    BY <1>2 DEF Inv, TypeInv, ControlTypeInv, RunTypeInv, Control
  <2> QED
    BY <2>1, <2>2 DEF TypeInv
<1>6. NodeInv'
  <2>1. ASSUME NEW q \in Role, NEW b \in Attempt
        PROVE  /\ b > attempt => proc'[q][b] = "none" /\ monitor'[q][b] = "none"
               /\ monitor'[q][b] = "gone" => proc'[q][b] \in {"exited", "failed"}
    <3>1. b > attempt => b # attempt
      BY AttemptsAssumption, <1>1 DEF Attempt
    <3> QED
      BY <1>1, <1>3, <1>4, <3>1 DEF NodeInv
  <2>2. ASSUME NEW q \in Role, statusFile[q] # NoStatus
        PROVE  /\ statusFile[q].of \in Attempt
               /\ monitor'[q][statusFile[q].of] = "gone"
               /\ statusFile[q].ok => proc'[q][statusFile[q].of] = "exited"
    <3>1. /\ statusFile[q].of \in Attempt
          /\ monitor[q][statusFile[q].of] = "gone"
          /\ statusFile[q].ok => proc[q][statusFile[q].of] = "exited"
      BY <1>1, <2>2 DEF NodeInv
    <3>2. ~(q = target /\ statusFile[q].of = attempt)
      BY <1>1, <3>1
    <3> QED
      BY <1>3, <1>4, <3>1, <3>2
  <2>3. \A q \in Role : pidFile'[q] <= attempt'
    BY <1>1, <1>2 DEF NodeInv
  <2> QED
    BY <1>2, <2>1, <2>2, <2>3 DEF NodeInv
<1>7. LaunchInv'
  BY <1>1, <1>2, <1>3, <1>4 DEF LaunchInv, Role
<1>8. JobInv'
  BY <1>2 DEF Inv, JobInv, Waits
<1>9. EligibleInv'
  BY <1>2, <1>4 DEF Inv, EligibleInv
<1>10. FirstInv'
  <2>1. 1 \in Attempt
    BY AttemptsAssumption DEF Attempt
  <2>2. ASSUME NEW q \in Role, proc[q][1] = "exited" PROVE proc'[q][1] = "exited"
    BY <1>1, <1>3, <2>1, <2>2
  <2> QED
    BY <1>2, <2>2 DEF Inv, FirstInv, Role
<1>11. StopInv'
  <2>1. 1 \in Attempt
    BY AttemptsAssumption DEF Attempt
  <2>2. pc = "launch"
    BY DEF LaunchSent
  <2>3. ASSUME NEW q \in Role, q # target PROVE Running(q, 1)' <=> Running(q, 1)
    BY <1>3, <2>1, <2>3 DEF Running
  <2> QED
    BY <1>2, <2>2, <2>3 DEF Inv, StopInv, Waits
<1> QED
  BY <1>5, <1>6, <1>7, <1>8, <1>9, <1>10, <1>11 DEF Inv

(* The nodes stay as they are.                                             *)
LEMMA NodesRest ==
  ASSUME Inv, UNCHANGED <<nodeVars, attempt>>
  PROVE  NodeTypeInv' /\ NodeInv'
BY DEF Inv, TypeInv, NodeTypeInv, NodeInv, nodeVars

LEMMA LaunchReadyInv == ASSUME Inv, LaunchReady PROVE Inv'
<1> USE DEF nodeVars, runVars
<1>1. NodeTypeInv' /\ NodeInv'
  BY NodesRest DEF LaunchReady
<1>2. /\ NodeTypeInv /\ NodeInv /\ ControlTypeInv /\ RunTypeInv
      /\ target \in Role /\ attempt \in Attempt /\ attempt \in Run
  BY AttemptsAssumption DEF Inv, TypeInv, ControlTypeInv, RunTypeInv, Attempt, Run
<1>3. TypeInv'
  <2>1. [pid |-> pidFile[target], monitor |-> attempt] \in [pid : Run, monitor : Run]
    BY <1>2 DEF NodeTypeInv
  <2>2. handle' \in [Role -> [pid : Run, monitor : Run]]
    BY <1>2, <2>1 DEF LaunchReady, ControlTypeInv
  <2>3. active' \in [Role -> BOOLEAN]
    BY <1>2 DEF LaunchReady, ControlTypeInv
  <2>4. pc' \in Control /\ job' \in Jobs \union {"none"} /\ UNCHANGED <<target, stage>>
    BY <1>2 DEF LaunchReady, ControlTypeInv, Control, Jobs, Waits
  <2> QED
    BY <1>1, <1>2, <2>2, <2>3, <2>4 DEF LaunchReady, TypeInv, ControlTypeInv, RunTypeInv
<1>4. LaunchInv'
  BY DEF LaunchReady, Inv, LaunchInv
<1>5. JobInv'
  BY <1>2 DEF LaunchReady, Inv, JobInv, Jobs, Waits, Role
<1>6. EligibleInv'
  BY DEF LaunchReady, Inv, EligibleInv
<1>7. FirstInv'
  BY DEF LaunchReady, Inv, FirstInv
<1>8. StopInv'
  <2>1. ASSUME attempt = 1, NEW r \in Role, active'[r]
        PROVE  \/ r = target /\ handle'[r].pid = 1
               \/ r # target /\ active[r] /\ handle'[r] = handle[r]
    <3>1. CASE r = target
      <4>1. handle'[r].pid = pidFile[target]
        BY <1>2, <3>1 DEF LaunchReady, ControlTypeInv
      <4>2. pidFile[target] \in Nat /\ pidFile[target] <= 1 /\ pidFile[target] # 0
        BY <1>2, <2>1, AttemptsAssumption DEF LaunchReady, NodeTypeInv, NodeInv, Run, NoAttempt
      <4>3. pidFile[target] = 1
        BY ONLY <4>2
      <4>4. handle'[r].pid = 1
        BY ONLY <4>1, <4>3
      <4> QED
        BY ONLY <3>1, <4>4
    <3>2. CASE r # target
      BY <1>2, <2>1, <3>2 DEF LaunchReady, ControlTypeInv
    <3> QED
      BY <3>1, <3>2
  <2>2. ASSUME NEW r \in Role, ~active'[r] PROVE ~active[r] /\ r # target
    BY <1>2, <2>2 DEF LaunchReady, ControlTypeInv
  <2>3. job' # "cleanup" \/ pc' \notin Waits
    BY DEF LaunchReady, Waits
  <2> QED
    BY <2>1, <2>2, <2>3 DEF LaunchReady, Inv, StopInv, Running
<1> QED
  BY <1>1, <1>3, <1>4, <1>5, <1>6, <1>7, <1>8 DEF Inv

(* The launch times out: what the pid file names is killed.                *)
LEMMA LaunchTimesOutInv == ASSUME Inv, LaunchTimesOut PROVE Inv'
<1> USE DEF controlVars, runVars, Raise
<1>1. NodeTypeInv /\ NodeInv /\ target \in Role /\ pidFile[target] \in Run
  BY DEF Inv, TypeInv, NodeTypeInv, ControlTypeInv
<1>2. Wanes /\ output' \in [Role -> Run] /\ UNCHANGED <<monitor, pidFile, statusFile>>
  BY <1>1, SignalWanes DEF LaunchTimesOut, Signal, NodeTypeInv
<1>3. /\ NodeTypeInv' /\ NodeInv'
      /\ \A r \in Role : proc[r][1] = "exited" => proc'[r][1] = "exited"
  BY <1>2, WanesKeeps DEF LaunchTimesOut
<1>4. faults' \in 0 .. MaxFaults /\ faults' # 0
  BY FaultsAssumption DEF LaunchTimesOut, Inv, TypeInv, RunTypeInv
<1>5. TypeInv'
  BY <1>3, <1>4 DEF LaunchTimesOut, Inv, TypeInv, ControlTypeInv, RunTypeInv, Control
<1>6. LaunchInv' /\ JobInv' /\ StopInv'
  BY <1>4 DEF LaunchTimesOut, Inv, LaunchInv, JobInv, StopInv, Waits
<1>7. EligibleInv'
  BY <1>2 DEF LaunchTimesOut, Inv, EligibleInv
<1>8. FirstInv'
  BY <1>3 DEF LaunchTimesOut, Inv, FirstInv, Role
<1> QED
  BY <1>3, <1>5, <1>6, <1>7, <1>8 DEF Inv

(* A call fails, or the controller looks whether its receiver runs.        *)
LEMMA StartStepsInv ==
  ASSUME Inv, CallFails \/ ReceiverStarted \/ ReceiverGone
  PROVE  Inv'
<1> USE DEF nodeVars, controlVars, runVars, Raise
<1>1. NodeTypeInv' /\ NodeInv'
  BY NodesRest DEF CallFails, ReceiverStarted, ReceiverGone
<1>2. CASE CallFails
  BY <1>1, <1>2 DEF CallFails, Inv, TypeInv, ControlTypeInv, RunTypeInv, LaunchInv, JobInv,
                    EligibleInv, FirstInv, StopInv, Running, Control, Waits
<1>3. CASE ReceiverStarted
  BY <1>1, <1>3 DEF ReceiverStarted, Inv, TypeInv, ControlTypeInv, RunTypeInv, LaunchInv,
                    JobInv, EligibleInv, FirstInv, StopInv, Running, Control, Waits, Role
<1>4. CASE ReceiverGone
  BY <1>1, <1>4 DEF ReceiverGone, Inv, TypeInv, ControlTypeInv, RunTypeInv, LaunchInv,
                    JobInv, EligibleInv, FirstInv, StopInv, Running, Control, Waits
<1> QED
  BY <1>2, <1>3, <1>4

-----------------------------------------------------------------------------
(* The controller signals and waits.                                       *)
LEMMA SendSignalInv == ASSUME Inv, SendSignal PROVE Inv'
<1> USE DEF controlVars, runVars
<1> DEFINE pid == handle[target].pid
<1>1. NodeTypeInv /\ target \in Role /\ pid \in Run /\ stage \in 1 .. 3
  BY DEF Inv, TypeInv, ControlTypeInv
<1>2. Signal(target, pid, stages[stage]) /\ pc = "signal" /\ pc' = "wait_status"
      /\ UNCHANGED <<controlVars, runVars, active, raised, cause, link, faults, troubles>>
  BY DEF SendSignal
<1>3. UNCHANGED <<monitor, pidFile, statusFile, output>>
  BY <1>2 DEF Signal
<1>4. stage = 3 => stages[stage] = "SIGKILL"
  BY DEF stages
<1>5. Wanes /\ (stage = 3 /\ pid \in Attempt => proc'[target][pid] \notin {"running", "stopping"})
  <2> HIDE DEF pid
  <2> QED
    BY <1>1, <1>2, <1>4, SignalWanes DEF Running
<1>6. /\ NodeTypeInv' /\ NodeInv'
      /\ \A r \in Role : proc[r][1] = "exited" => proc'[r][1] = "exited"
  <2>1. output' \in [Role -> Run]
    BY <1>1, <1>3 DEF NodeTypeInv
  <2> QED
    BY <1>2, <1>3, <1>5, <2>1, WanesKeeps
<1>7. TypeInv'
  BY <1>2, <1>6 DEF Inv, TypeInv, ControlTypeInv, RunTypeInv, Control, Waits
<1>8. LaunchInv' /\ JobInv'
  BY <1>2 DEF Inv, LaunchInv, JobInv, Waits, Jobs
<1>9. EligibleInv'
  BY <1>2, <1>3 DEF Inv, EligibleInv
<1>10. FirstInv'
  BY <1>2, <1>6 DEF Inv, FirstInv, Role
<1>11. StopInv'
  <2>1. 1 \in Attempt
    BY AttemptsAssumption DEF Attempt
  <2>2. \A r \in Role : Running(r, 1)' => Running(r, 1)
    BY <1>5, <2>1 DEF Wanes
  <2>3. ASSUME attempt = 1, faults = 0, job = "cleanup", stage = 3
        PROVE  ~Running(target, 1)'
    <3>1. active[target]
      BY <1>2, <2>3 DEF Inv, JobInv
    <3>2. pid = 1
      BY <1>1, <2>3, <3>1 DEF Inv, StopInv
    <3>3. proc'[target][1] \notin {"running", "stopping"}
      BY <1>5, <2>1, <2>3, <3>2
    <3> QED
      BY <1>2, <3>3 DEF Running
  <2> QED
    BY <1>2, <2>2, <2>3 DEF Inv, StopInv
<1> QED
  BY <1>6, <1>7, <1>8, <1>9, <1>10, <1>11 DEF Inv

(* A poll finds nothing.                                                   *)
LEMMA PollInv == ASSUME Inv, WaitNoStatus \/ WaitRunning PROVE Inv'
<1> USE DEF nodeVars, controlVars, runVars
<1>1. NodeTypeInv' /\ NodeInv'
  BY NodesRest DEF WaitNoStatus, WaitRunning
<1>2. /\ pc \in Waits /\ pc' \in Waits
      /\ UNCHANGED <<nodeVars, controlVars, runVars, active, raised, link, faults, troubles>>
  BY DEF WaitNoStatus, WaitRunning, Waits
<1> QED
  BY <1>1, <1>2 DEF Inv, TypeInv, ControlTypeInv, RunTypeInv, LaunchInv, JobInv, EligibleInv,
                    FirstInv, StopInv, Running, Control, Waits

(* A status on the node is that of a process that has ended, and in the    *)
(* first attempt it is the process that the controller has started.        *)
LEMMA StatusIsTrue ==
  ASSUME Inv, NEW r \in Role, attempt = 1, statusFile[r] # NoStatus
  PROVE  ~Running(r, 1) /\ (statusFile[r].ok => proc[r][1] = "exited")
<1> DEFINE a == statusFile[r].of
<1>1. a \in Attempt /\ monitor[r][a] = "gone" /\ (statusFile[r].ok => proc[r][a] = "exited")
  BY DEF Inv, NodeInv
<1>2. ~(a > attempt)
  BY <1>1 DEF Inv, NodeInv
<1>3. a = 1
  BY <1>1, <1>2, AttemptsAssumption DEF Attempt
<1> HIDE DEF a
<1>4. proc[r][a] \in {"exited", "failed"}
  BY <1>1 DEF Inv, NodeInv
<1> QED
  BY <1>1, <1>3, <1>4 DEF Running, a

(* A shutdown in the `finally' is over: its program has ended, has been    *)
(* killed, or the connection has failed.                                   *)
LEMMA CleanupEndsInv ==
  ASSUME Inv, pc \in Waits \union {"signal"},
         active' = [active EXCEPT ![target] = FALSE], pc' = "finally",
         UNCHANGED <<nodeVars, controlVars, runVars, raised, cause, link, faults>>,
         troubles' \in 0 .. MaxTroubles,
         attempt = 1 /\ faults = 0 => ~Running(target, 1)
  PROVE  Inv'
<1> USE DEF nodeVars, controlVars, runVars
<1>1. NodeTypeInv' /\ NodeInv'
  BY NodesRest
<1>2. /\ active' \in [Role -> BOOLEAN]
      /\ \A r \in Role : active'[r] <=> active[r] /\ r # target
  BY DEF Inv, TypeInv, ControlTypeInv
<1>3. TypeInv'
  BY <1>1, <1>2 DEF Inv, TypeInv, ControlTypeInv, RunTypeInv, Control
<1>4. LaunchInv' /\ JobInv' /\ EligibleInv' /\ FirstInv'
  BY DEF Inv, LaunchInv, JobInv, EligibleInv, FirstInv, Waits
<1>5. StopInv'
  BY <1>2 DEF Inv, StopInv, Waits, Running
<1> QED
  BY <1>1, <1>3, <1>4, <1>5 DEF Inv

(* An exception leaves the body of execute_run().                          *)
LEMMA RaiseInv ==
  ASSUME Inv, NEW kind \in {"transport", "error"}, NEW what, Raise(kind, what),
         pc \in Waits \union {"signal"},
         UNCHANGED <<nodeVars, controlVars, runVars, active, link, faults>>,
         troubles' \in 0 .. MaxTroubles
  PROVE  Inv'
<1> USE DEF nodeVars, controlVars, runVars, Raise
<1>1. NodeTypeInv' /\ NodeInv'
  BY NodesRest
<1> QED
  BY <1>1 DEF Inv, TypeInv, ControlTypeInv, RunTypeInv, LaunchInv, JobInv, EligibleInv,
              FirstInv, StopInv, Running, Control, Waits

LEMMA WaitTimesOutInv == ASSUME Inv, WaitTimesOut PROVE Inv'
<1>1. pc \in Waits \union {"signal"} /\ pc = "wait_alive"
  BY DEF WaitTimesOut, Waits
<1>2. troubles' \in 0 .. MaxTroubles
  BY FaultsAssumption DEF WaitTimesOut, Inv, TypeInv, RunTypeInv
<1>3. stage \in 1 .. 3 /\ Len(stages) = 3
  BY DEF Inv, TypeInv, ControlTypeInv, stages
<1>4. CASE job # "sender" /\ stage < Len(stages)
  <2>1. /\ stage' = stage + 1 /\ pc' = "signal"
        /\ UNCHANGED <<active, raised, cause, nodeVars, target, job, handle, runVars, link, faults>>
    BY <1>4 DEF WaitTimesOut
  <2>2. NodeTypeInv' /\ NodeInv'
    BY <2>1, NodesRest DEF runVars
  <2>3. stage' \in 1 .. 3
    BY <1>3, <1>4, <2>1
  <2> QED
    BY <1>1, <1>2, <1>4, <2>1, <2>2, <2>3
    DEF Inv, TypeInv, ControlTypeInv, RunTypeInv, LaunchInv, JobInv, EligibleInv,
        FirstInv, StopInv, Running, Control, Waits, Jobs, nodeVars, runVars
<1>5. CASE job = "cleanup" /\ ~(stage < Len(stages))
  <2>1. /\ active' = [active EXCEPT ![target] = FALSE] /\ pc' = "finally"
        /\ UNCHANGED <<nodeVars, controlVars, runVars, raised, cause, link, faults>>
    BY <1>5 DEF WaitTimesOut, controlVars
  <2>2. stage = 3
    BY <1>3, <1>5
  <2>3. attempt = 1 /\ faults = 0 => ~Running(target, 1)
    BY <1>1, <1>5, <2>2 DEF Inv, StopInv, Waits
  <2> QED
    BY <1>1, <1>2, <2>1, <2>3, CleanupEndsInv
<1>6. CASE ~(job # "sender" /\ stage < Len(stages)) /\ job # "cleanup"
  <2>1. /\ Raise("transport", "timeout")
        /\ UNCHANGED <<nodeVars, controlVars, runVars, active, link, faults>>
    BY <1>6 DEF WaitTimesOut, controlVars
  <2> QED
    BY <1>1, <1>2, <2>1, RaiseInv
<1> QED
  BY <1>4, <1>5, <1>6

(* An exception of the wait or the signal.                                 *)
LEMMA ShutdownRaisesInv ==
  ASSUME Inv, NEW kind \in {"transport", "error"}, NEW what, ShutdownRaises(kind, what),
         pc \in Waits \union {"signal"},
         job = "cleanup" /\ attempt = 1 /\ faults = 0 => ~Running(target, 1)
  PROVE  Inv'
<1>1. troubles' \in 0 .. MaxTroubles
  BY DEF ShutdownRaises, Inv, TypeInv, RunTypeInv
<1>2. CASE job = "cleanup"
  <2>1. /\ active' = [active EXCEPT ![target] = FALSE] /\ pc' = "finally"
        /\ UNCHANGED <<nodeVars, controlVars, runVars, raised, cause, link, faults>>
    BY <1>2 DEF ShutdownRaises
  <2> QED
    BY <1>1, <1>2, <2>1, CleanupEndsInv
<1>3. CASE job # "cleanup"
  <2>1. /\ Raise(kind, what)
        /\ UNCHANGED <<nodeVars, controlVars, runVars, active, link, faults>>
    BY <1>3 DEF ShutdownRaises
  <2> QED
    BY <1>1, <2>1, RaiseInv
<1> QED
  BY <1>2, <1>3

LEMMA WaitExitedInv == ASSUME Inv, WaitExited PROVE Inv'
<1>1. pc \in Waits \union {"signal"} /\ ShutdownRaises("error", "no status")
  BY DEF WaitExited, Waits
<1>2. ASSUME job = "cleanup", attempt = 1, faults = 0 PROVE ~Running(target, 1)
  <2>1. active[target] /\ target \in Role
    BY <1>1, <1>2 DEF Inv, JobInv, TypeInv, ControlTypeInv
  <2>2. handle[target].pid = 1
    BY <1>2, <2>1 DEF Inv, StopInv
  <2> QED
    BY <2>2 DEF WaitExited, Running, Alive
<1> QED
  BY <1>1, <1>2, ShutdownRaisesInv

LEMMA ShutdownLosesLinkInv == ASSUME Inv, ShutdownLosesLink PROVE Inv'
<1>1. pc \in Waits \union {"signal"} /\ ShutdownRaises("transport", "connection")
  BY DEF ShutdownLosesLink, Waits
<1>2. attempt = 1 /\ faults = 0 => FALSE
  BY DEF ShutdownLosesLink, Inv, StopInv, TypeInv, ControlTypeInv
<1> QED
  BY <1>1, <1>2, ShutdownRaisesInv

(* The wait finds a status.                                                *)
LEMMA WaitReturnsInv == ASSUME Inv, WaitReturns PROVE Inv'
<1> USE DEF nodeVars, runVars
<1>1. /\ pc = "wait_status" /\ pc \in Waits /\ statusFile[target] # NoStatus
      /\ active' = [active EXCEPT ![target] = FALSE]
      /\ UNCHANGED <<nodeVars, handle, runVars, link, faults, troubles>>
  BY DEF WaitReturns, Waits
<1>2. target \in Role /\ job \in Jobs /\ troubles \in 0 .. MaxTroubles
  BY <1>1 DEF Inv, TypeInv, ControlTypeInv, RunTypeInv, JobInv
<1>3. attempt = 1 =>
        ~Running(target, 1) /\ (statusFile[target].ok => proc[target][1] = "exited")
  BY <1>1, <1>2, StatusIsTrue
<1>4. /\ active' \in [Role -> BOOLEAN]
      /\ \A r \in Role : active'[r] <=> active[r] /\ r # target
  BY <1>1 DEF Inv, TypeInv, ControlTypeInv
<1>5. NodeTypeInv' /\ NodeInv'
  BY <1>1, NodesRest
<1>6. CASE job = "cleanup"
  <2>1. pc' = "finally" /\ UNCHANGED <<controlVars, raised>>
    BY <1>6 DEF WaitReturns, controlVars
  <2> QED
    BY <1>1, <1>2, <1>3, <1>4, <1>5, <2>1
    DEF Inv, TypeInv, ControlTypeInv, RunTypeInv, LaunchInv, JobInv, EligibleInv, FirstInv,
        StopInv, Running, Control, Waits, controlVars
<1>7. CASE job # "cleanup" /\ ~statusFile[target].ok
  <2>1. pc' = "finally" /\ raised' = "error" /\ UNCHANGED controlVars
    BY <1>7 DEF WaitReturns, Raise, controlVars
  <2> QED
    BY <1>1, <1>2, <1>3, <1>4, <1>5, <2>1
    DEF Inv, TypeInv, ControlTypeInv, RunTypeInv, LaunchInv, JobInv, EligibleInv, FirstInv,
        StopInv, Running, Control, Waits, controlVars
<1>8. CASE job = "sender" /\ statusFile[target].ok
  <2>1. /\ pc' = "signal" /\ target' = "receiver" /\ job' = "stop" /\ stage' = 1
        /\ UNCHANGED raised
    BY <1>8 DEF WaitReturns, BeginShutdown
  <2>2. target = "sender"
    BY <1>1, <1>8 DEF Inv, JobInv
  <2>3. attempt = 1 => proc["sender"][1] = "exited"
    BY <1>3, <1>8, <2>2
  <2>4. TypeInv'
    BY <1>1, <1>4, <1>5, <2>1
    DEF Inv, TypeInv, ControlTypeInv, RunTypeInv, Control, Jobs, Role
  <2>5. LaunchInv' /\ JobInv' /\ EligibleInv'
    BY <1>1, <1>4, <2>1 DEF Inv, LaunchInv, JobInv, EligibleInv, Waits
  <2>6. FirstInv'
    BY <1>1, <2>1, <2>3 DEF Inv, FirstInv
  <2>7. StopInv'
    BY <1>1, <1>3, <1>4, <2>1 DEF Inv, StopInv, Waits, Running
  <2> QED
    BY <1>5, <2>4, <2>5, <2>6, <2>7 DEF Inv
<1>9. CASE job = "stop" /\ statusFile[target].ok
  <2>1. pc' = "fetch" /\ UNCHANGED <<controlVars, raised>>
    BY <1>9 DEF WaitReturns, controlVars
  <2>2. target = "receiver"
    BY <1>1, <1>9 DEF Inv, JobInv
  <2>3. attempt = 1 => \A r \in Role : proc[r][1] = "exited"
    BY <1>3, <1>9, <2>2 DEF Inv, FirstInv, Role
  <2>4. TypeInv'
    BY <1>1, <1>4, <1>5, <2>1
    DEF Inv, TypeInv, ControlTypeInv, RunTypeInv, Control, controlVars
  <2>5. LaunchInv' /\ JobInv' /\ EligibleInv'
    BY <1>1, <1>4, <2>1 DEF Inv, LaunchInv, JobInv, EligibleInv, Waits, controlVars
  <2>6. FirstInv'
    BY <1>1, <2>1, <2>3 DEF Inv, FirstInv, controlVars
  <2>7. StopInv'
    BY <1>1, <1>3, <1>4, <2>1 DEF Inv, StopInv, Waits, Running, controlVars
  <2> QED
    BY <1>5, <2>4, <2>5, <2>6, <2>7 DEF Inv
<1> QED
  BY <1>2, <1>6, <1>7, <1>8, <1>9 DEF Jobs

-----------------------------------------------------------------------------
(* The controller fetches, writes, and cleans up.                          *)
LEMMA FetchInv == ASSUME Inv, Fetch PROVE Inv'
<1> USE DEF nodeVars
<1>1. NodeTypeInv' /\ NodeInv'
  BY NodesRest DEF Fetch
<1>2. fetched' \in [Role -> Run]
  <2>1. target \in Role /\ output[target] \in Run
    BY DEF Inv, TypeInv, NodeTypeInv, ControlTypeInv
  <2> QED
    BY <2>1 DEF Fetch, Inv, TypeInv, RunTypeInv
<1>3. TypeInv'
  BY <1>1, <1>2 DEF Fetch, Inv, TypeInv, ControlTypeInv, RunTypeInv, Control, Role
<1> QED
  BY <1>1, <1>3 DEF Fetch, Inv, LaunchInv, JobInv, EligibleInv, FirstInv, StopInv, Running, Waits

LEMMA WriteMetadataInv ==
  ASSUME Inv, NEW valid \in BOOLEAN, WriteMetadata(valid)
  PROVE  Inv'
<1> USE DEF nodeVars, controlVars
<1>1. NodeTypeInv' /\ NodeInv'
  BY NodesRest DEF WriteMetadata
<1>2. /\ attempt \in Run /\ attempt # NoAttempt
      /\ fetched["receiver"] \in Run /\ fetched["sender"] \in Run
  BY AttemptsAssumption DEF Inv, TypeInv, RunTypeInv, Attempt, Run, NoAttempt, Role
<1>3. /\ result' \in [attempt : Run, receiver : Run, sender : Run, valid : BOOLEAN]
      /\ result'.attempt = attempt /\ result' # NoResult
  BY <1>2 DEF WriteMetadata, NoResult
<1>4. TypeInv'
  BY <1>1, <1>3 DEF WriteMetadata, Inv, TypeInv, ControlTypeInv, RunTypeInv, Control
<1>5. LaunchInv' /\ JobInv' /\ StopInv'
  BY DEF WriteMetadata, Inv, LaunchInv, JobInv, StopInv, Running, Waits
<1>6. EligibleInv'
  BY <1>3 DEF WriteMetadata, EligibleInv
<1>7. FirstInv'
  BY <1>3 DEF WriteMetadata, Inv, FirstInv
<1> QED
  BY <1>1, <1>4, <1>5, <1>6, <1>7 DEF Inv

LEMMA FinallyInv ==
  ASSUME Inv, FinallyEnds \/ \E r \in Role : FinallyStops(r)
  PROVE  Inv'
<1> USE DEF nodeVars, runVars
<1>1. NodeTypeInv' /\ NodeInv'
  BY NodesRest DEF FinallyEnds, FinallyStops
<1>2. CASE FinallyEnds
  <2>1. TypeInv'
    BY <1>1, <1>2 DEF FinallyEnds, Inv, TypeInv, ControlTypeInv, RunTypeInv, Control, Role
  <2> QED
    BY <1>1, <1>2, <2>1 DEF FinallyEnds, Inv, LaunchInv, JobInv, EligibleInv, FirstInv, StopInv,
                            Running, Waits
<1>3. ASSUME NEW r \in Role, FinallyStops(r) PROVE Inv'
  <2>1. TypeInv'
    BY <1>1, <1>3
    DEF FinallyStops, BeginShutdown, Inv, TypeInv, ControlTypeInv, RunTypeInv, Control, Jobs
  <2> QED
    BY <1>1, <1>3, <2>1 DEF FinallyStops, BeginShutdown, Inv, LaunchInv, JobInv, EligibleInv,
                            FirstInv, StopInv, Running, Waits
<1> QED
  BY <1>2, <1>3

(* The files of a node are gone, if only by half a removal.                *)
LEMMA RemoveInv ==
  ASSUME Inv, Remove \/ RemoveFails
  PROVE  Inv'
<1> USE DEF runVars
<1>1. /\ pc = "remove" /\ pc' \in {"remove", "end"} /\ target' \in Role
      /\ raised' \in {"none", "transport", "error"}
      /\ UNCHANGED <<job, stage, handle, runVars, active, link, faults, troubles>>
  BY DEF Remove, RemoveFails, controlVars, Inv, TypeInv, ControlTypeInv, RunTypeInv, Role
<1>2. /\ NodeTypeInv /\ NodeInv /\ target \in Role /\ attempt \in Nat
      /\ eligible /\ result # NoResult
  BY <1>1, AttemptsAssumption
  DEF Inv, TypeInv, ControlTypeInv, RunTypeInv, EligibleInv, Attempt
<1>3. NodeTypeInv' /\ NodeInv' /\ UNCHANGED <<proc, monitor>>
  <2>1. CASE RemoveFiles(target)
    <3>1. /\ UNCHANGED <<proc, monitor>>
          /\ \A r \in Role : pidFile'[r] \in {pidFile[r], NoAttempt}
          /\ \A r \in Role : statusFile'[r] \in {statusFile[r], NoStatus}
      BY <1>2, <2>1 DEF RemoveFiles, NodeTypeInv
    <3>2. NodeTypeInv'
      <4>1. NoAttempt \in Run /\ NoStatus \in [of : Run, ok : BOOLEAN]
        BY AttemptsAssumption DEF Run, NoAttempt, NoStatus
      <4> QED
        BY <1>2, <2>1, <4>1 DEF RemoveFiles, NodeTypeInv
    <3>3. NodeInv'
      <4>1. \A r \in Role : pidFile'[r] <= attempt'
        BY <1>1, <1>2, <3>1 DEF NodeInv, NoAttempt
      <4> QED
        BY <1>1, <1>2, <3>1, <4>1 DEF NodeInv
    <3> QED
      BY <3>1, <3>2, <3>3
  <2>2. CASE UNCHANGED nodeVars
    BY <1>1, <2>2, NodesRest DEF nodeVars
  <2> QED
    BY <2>1, <2>2 DEF Remove, RemoveFails
<1>4. TypeInv'
  BY <1>1, <1>3 DEF Inv, TypeInv, ControlTypeInv, RunTypeInv, Control
<1>5. LaunchInv' /\ JobInv' /\ FirstInv' /\ StopInv'
  BY <1>1, <1>3 DEF Inv, LaunchInv, JobInv, FirstInv, StopInv, Running, Waits
<1>6. EligibleInv'
  BY <1>1, <1>2 DEF EligibleInv
<1> QED
  BY <1>3, <1>4, <1>5, <1>6 DEF Inv

-----------------------------------------------------------------------------
(* The attempt is over.                                                    *)
LEMMA ReconnectInv == ASSUME Inv, Reconnect PROVE Inv'
<1> USE DEF nodeVars
<1>1. /\ NodeTypeInv /\ NodeInv /\ attempt \in Attempt /\ attempt \in Nat /\ NoAttempt \in Run
      /\ attempt' = attempt + 1 /\ attempt' \in Attempt /\ attempt' # 1
      /\ \A a \in Attempt : a \in Nat
  BY AttemptsAssumption DEF Reconnect, Inv, TypeInv, RunTypeInv, Attempt, Run, NoAttempt
<1>2. NodeTypeInv'
  BY <1>1 DEF Reconnect, NodeTypeInv
<1>3. NodeInv'
  <2>1. ASSUME NEW a \in Attempt, a > attempt' PROVE a > attempt
    BY <1>1, <2>1
  <2>2. \A r \in Role : pidFile'[r] <= attempt'
    <3>1. ASSUME NEW r \in Role PROVE pidFile[r] <= attempt + 1
      <4>1. pidFile[r] \in Nat /\ pidFile[r] <= attempt
        BY <1>1, AttemptsAssumption DEF NodeTypeInv, NodeInv, Run
      <4> QED
        BY <1>1, <4>1
    <3> QED
      BY <1>1, <3>1 DEF Reconnect
  <2> QED
    BY <1>1, <2>1, <2>2 DEF Reconnect, NodeInv
<1>4. TypeInv'
  <2>1. NoHandle \in [pid : Run, monitor : Run]
    BY <1>1 DEF NoHandle
  <2>2. ControlTypeInv'
    BY <2>1 DEF Reconnect, Inv, TypeInv, ControlTypeInv, Control, Role
  <2>3. RunTypeInv'
    BY <1>1 DEF Reconnect, Inv, TypeInv, RunTypeInv
  <2> QED
    BY <1>2, <2>2, <2>3 DEF TypeInv
<1>5. LaunchInv'
  <2>1. attempt' > attempt
    BY <1>1
  <2>2. \A r \in Role : proc[r][attempt'] = "none" /\ monitor[r][attempt'] = "none"
    BY <1>1, <2>1 DEF NodeInv
  <2> QED
    BY <2>2 DEF Reconnect, LaunchInv, Role
<1>6. JobInv'
  BY DEF Reconnect, JobInv, Waits
<1>7. EligibleInv'
  BY DEF Reconnect, Inv, EligibleInv
<1>8. FirstInv' /\ StopInv'
  BY <1>1 DEF Reconnect, Inv, FirstInv, StopInv
<1> QED
  BY <1>3, <1>4, <1>5, <1>6, <1>7, <1>8 DEF Inv

LEMMA EndInv ==
  ASSUME Inv, Return \/ Abort \/ ReconnectFails
  PROVE  Inv'
<1> USE DEF nodeVars, controlVars, runVars
<1>1. NodeTypeInv' /\ NodeInv'
  BY NodesRest DEF Return, Abort, ReconnectFails
<1>2. /\ pc = "end" /\ pc' \in {"done", "aborted"}
      /\ UNCHANGED <<nodeVars, controlVars, runVars, active, raised, link, troubles>>
      /\ faults' \in 0 .. MaxFaults /\ (faults' = 0 => faults = 0)
  BY FaultsAssumption DEF Return, Abort, ReconnectFails, Inv, TypeInv, RunTypeInv
<1> QED
  BY <1>1, <1>2 DEF Inv, TypeInv, ControlTypeInv, RunTypeInv, LaunchInv, JobInv, EligibleInv,
                    FirstInv, StopInv, Running, Control, Waits

LEMMA DropInv == ASSUME Inv, NEW r \in Role, Drop(r) PROVE Inv'
<1> USE DEF nodeVars, controlVars, runVars
<1>1. NodeTypeInv' /\ NodeInv'
  BY NodesRest DEF Drop
<1>2. /\ link' \in [Role -> BOOLEAN] /\ faults' \in 0 .. MaxFaults /\ faults' # 0
      /\ UNCHANGED <<nodeVars, pc, controlVars, runVars, active, raised, troubles>>
  BY FaultsAssumption DEF Drop, Inv, TypeInv, RunTypeInv
<1> QED
  BY <1>1, <1>2 DEF Inv, TypeInv, ControlTypeInv, RunTypeInv, LaunchInv, JobInv, EligibleInv,
                    FirstInv, StopInv, Running

LEMMA InitInv == Init => Inv
<1> SUFFICES ASSUME Init PROVE Inv
  OBVIOUS
<1> USE AttemptsAssumption, FaultsAssumption
<1>1. /\ NoAttempt \in Run /\ NoStatus \in [of : Run, ok : BOOLEAN]
      /\ NoHandle \in [pid : Run, monitor : Run]
      /\ NoResult \in [attempt : Run, receiver : Run, sender : Run, valid : BOOLEAN]
      /\ NoResult.attempt # 1 /\ NoAttempt <= 1 /\ 1 \in Attempt
  BY DEF NoAttempt, NoStatus, NoHandle, NoResult, Run, Attempt
<1>2. TypeInv
  <2>1. NodeTypeInv
    BY <1>1 DEF Init, NodeInit, NodeTypeInv, Life, Watch
  <2>2. ControlTypeInv
    BY <1>1 DEF Init, ControlTypeInv, Control, Role
  <2>3. 0 \in 0 .. MaxFaults /\ 0 \in 0 .. MaxTroubles
    OBVIOUS
  <2>4. RunTypeInv
    BY <1>1, <2>3 DEF Init, RunTypeInv
  <2> QED
    BY <2>1, <2>2, <2>4 DEF TypeInv
<1>3. NodeInv /\ LaunchInv
  BY <1>1 DEF Init, NodeInit, NodeInv, LaunchInv, Role
<1>4. JobInv /\ EligibleInv /\ FirstInv /\ StopInv
  BY <1>1 DEF Init, NodeInit, JobInv, EligibleInv, FirstInv, StopInv, Running, Waits
<1> QED
  BY <1>2, <1>3, <1>4 DEF Inv

(* The inductive invariant of the attempts.                                *)
THEOREM Invariance == Spec => []Inv
<1>1. Inv /\ [Next]_vars => Inv'
  <2> SUFFICES ASSUME Inv, [Next]_vars PROVE Inv'
    OBVIOUS
  <2>1. CASE Controller
    <3>1. CASE LaunchSent \/ LaunchReady \/ CallFails \/ ReceiverStarted \/ ReceiverGone
      BY <3>1, LaunchSentInv, LaunchReadyInv, StartStepsInv
    <3>2. CASE SendSignal \/ WaitNoStatus \/ WaitRunning \/ WaitTimesOut \/ WaitExited
                 \/ WaitReturns \/ ShutdownLosesLink
      BY <3>2, SendSignalInv, PollInv, WaitTimesOutInv, WaitExitedInv, WaitReturnsInv,
         ShutdownLosesLinkInv
    <3>3. CASE Fetch \/ \E valid \in BOOLEAN : WriteMetadata(valid)
      BY <3>3, FetchInv, WriteMetadataInv
    <3>4. CASE FinallyEnds \/ (\E r \in Role : FinallyStops(r)) \/ Remove \/ RemoveFails
      BY <3>4, FinallyInv, RemoveInv
    <3>5. CASE Return \/ Abort \/ Reconnect
      BY <3>5, EndInv, ReconnectInv
    <3> QED
      BY <2>1, <3>1, <3>2, <3>3, <3>4, <3>5 DEF Controller
  <2>2. CASE Nodes
    BY <2>2, NodesInv
  <2>3. CASE Network
    BY <2>3, DropInv, LaunchTimesOutInv, EndInv DEF Network
  <2>4. CASE UNCHANGED vars
    <3>1. NodeTypeInv' /\ NodeInv'
      BY <2>4, NodesRest DEF vars, nodeVars, runVars
    <3> QED
      BY <2>4, <3>1 DEF vars, nodeVars, controlVars, runVars, Inv, TypeInv, ControlTypeInv,
                        RunTypeInv, LaunchInv, JobInv, EligibleInv, FirstInv, StopInv, Running
  <2> QED
    BY <2>1, <2>2, <2>3, <2>4 DEF Next, Ended
<1> QED
  BY <1>1, InitInv, PTL DEF Spec

(* Types of the state of the nodes and of the controller, over every       *)
(* number of attempts, faults and troubles.                                *)
THEOREM TypeCorrect == Spec => []TypeInv
<1>1. Inv => TypeInv
  BY DEF Inv
<1> QED
  BY <1>1, Invariance, PTL

(* The first attempt interrupts its receiver only after its sender has     *)
(* ended with status 0, and has a result only if both have ended so,       *)
(* although the controller sees only the monitors' files.                  *)
THEOREM FirstResultIsSoundHolds == Spec => []FirstResultIsSound
<1>1. Inv => FirstResultIsSound
  BY DEF Inv, FirstInv, FirstResultIsSound
<1> QED
  BY <1>1, Invariance, PTL

(* Until the metadata of the run is written, no status file of a program   *)
(* that has ended is removed from its node.                                *)
THEOREM DiagnosticsAreKeptHolds == Spec => []DiagnosticsAreKept
<1>1. Inv => DiagnosticsAreKept
  BY DEF Inv, EligibleInv, DiagnosticsAreKept
<1> QED
  BY <1>1, Invariance, PTL

(* Each path out of execute_run() stops what the first attempt has         *)
(* started, as long as no connection has failed.                           *)
THEOREM FirstAttemptStopsItsProcessesHolds == Spec => []FirstAttemptStopsItsProcesses
<1>1. Inv => FirstAttemptStopsItsProcesses
  BY DEF Inv, JobInv, StopInv, FirstAttemptStopsItsProcesses
<1> QED
  BY <1>1, Invariance, PTL

=============================================================================
