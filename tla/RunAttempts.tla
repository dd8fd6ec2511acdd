----------------------------- MODULE RunAttempts -----------------------------
(***************************************************************************)
(* One run of a distributed campaign: execute_with_progress() of           *)
(* run_campaign() in main.py, which calls execute_run() up to              *)
(* MAX_RUN_ATTEMPTS times and reconnects after a transport failure;        *)
(* execute_run() starts the receiver and the sender, waits for the sender, *)
(* stops the receiver, fetches the files, writes the metadata and, in its  *)
(* `finally', stops what is still active and removes the remote files.     *)
(*                                                                         *)
(* A remote call needs the connection to its node. A connection may drop   *)
(* at any moment and stays dropped until reconnect_nodes(); a call over a  *)
(* dropped connection raises a transport failure. (Connections drop        *)
(* between the two halves of a launch too, so a call may take effect and   *)
(* still fail.)                                                            *)
(*                                                                         *)
(* Left out: the probes of run_state() and snapshot_counters(), whose      *)
(* failures probe() turns into data; the profiled receiver; the content of *)
(* the statistics, so that a verdict is either.                            *)
(***************************************************************************)
EXTENDS NodeProcesses, Sequences

CONSTANTS
  MaxFaults,    \* bound of the model: transport faults
  MaxTroubles   \* bound of the model: programs that fail or leave by themselves

ASSUME FaultsAssumption == MaxFaults \in Nat /\ MaxTroubles \in Nat

VARIABLES
  pc,        \* the controller's program counter
  target,    \* the node of the current call
  job,       \* on whose behalf it waits or signals
  stage,     \* of shutdown_process()
  attempt,   \* attempt of execute_with_progress()
  handle,    \* handle[r]: the ProcessHandle of node r
  active,    \* active_receiver, active_sender are not None
  eligible,  \* cleanup_eligible
  raised,    \* the exception on its way
  cause,     \* what it says
  fetched,   \* fetched[r]: the attempt whose statistics were fetched
  result,    \* the metadata file of the run
  link,      \* link[r]: the connection is up
  faults,    \* transport faults so far
  troubles   \* programs that failed or left by themselves, waits that timed out

controlVars == <<target, job, stage, handle>>
runVars == <<attempt, eligible, fetched, result>>
vars == <<nodeVars, pc, controlVars, runVars, active, raised, cause, link, faults, troubles>>

NoHandle == [pid |-> NoAttempt, monitor |-> NoAttempt]
NoResult == [attempt |-> NoAttempt, receiver |-> NoAttempt,
             sender |-> NoAttempt, valid |-> FALSE]

stages == <<"SIGINT", "SIGTERM", "SIGKILL">>

Init ==
  /\ NodeInit
  /\ pc = "launch"
  /\ target = "receiver"
  /\ job = "none"
  /\ stage = 1
  /\ attempt = 1
  /\ handle = [r \in Role |-> NoHandle]
  /\ active = [r \in Role |-> FALSE]
  /\ eligible = FALSE
  /\ raised = "none"
  /\ cause = "none"
  /\ fetched = [r \in Role |-> NoAttempt]
  /\ result = NoResult
  /\ link = [r \in Role |-> TRUE]
  /\ faults = 0
  /\ troubles = 0

Over == pc \in {"done", "aborted"}

-----------------------------------------------------------------------------
(* Faulty variants of the definitions that follow.                         *)

(* The files are removed although the run produced no metadata. *)
FinallyRemovesAlways ==
  /\ pc = "finally"
  /\ \A r \in Role : ~active[r]
  /\ pc' = "remove"
  /\ target' = "receiver"
  /\ UNCHANGED <<nodeVars, job, stage, handle, runVars, active, raised, cause, link,
                 faults, troubles>>

(* The receiver is no longer tracked once the sender has been started. *)
LaunchForgetsReceiver ==
  /\ pc = "ready"
  /\ link[target]
  /\ pidFile[target] # NoAttempt
  /\ handle' = [handle EXCEPT ![target] = [pid |-> pidFile[target], monitor |-> attempt]]
  /\ active' = [r \in Role |-> r = target]
  /\ IF target = "receiver"
       THEN pc' = "check" /\ UNCHANGED job
       ELSE pc' = "wait_status" /\ job' = "sender"
  /\ UNCHANGED <<nodeVars, target, stage, runVars, raised, cause, link, faults, troubles>>

(* A wait has no deadline. *)
WaitForEver ==
  /\ pc = "wait_alive"
  /\ FALSE
  /\ UNCHANGED vars

-----------------------------------------------------------------------------
(* The nodes and the network.                                              *)

(* The sender finishes, or a program that was interrupted ends; the sender *)
(* then fails.                                                             *)
ProgramExits(r, a, ok) ==
  /\ IF proc[r][a] = "running" THEN r = "sender" /\ ok ELSE ok \/ r = "sender"
  /\ ProcessExits(r, a, ok)
  /\ UNCHANGED <<pc, controlVars, runVars, active, raised, cause, link, faults, troubles>>

(* The receiver leaves by itself, or a program fails. *)
ProgramFails(r, a, ok) ==
  /\ troubles < MaxTroubles
  /\ \/ r = "receiver" /\ (proc[r][a] = "running" \/ ~ok)
     \/ r = "sender" /\ proc[r][a] = "running" /\ ~ok
  /\ ProcessExits(r, a, ok)
  /\ troubles' = troubles + 1
  /\ UNCHANGED <<pc, controlVars, runVars, active, raised, cause, link, faults>>

NodeStep(r, a) ==
  /\ MonitorWritesPid(r, a) \/ ProcessDies(r, a) \/ MonitorWritesStatus(r, a)
  /\ UNCHANGED <<pc, controlVars, runVars, active, raised, cause, link, faults, troubles>>

Drop(r) ==
  /\ ~Over
  /\ link[r]
  /\ faults < MaxFaults
  /\ link' = [link EXCEPT ![r] = FALSE]
  /\ faults' = faults + 1
  /\ UNCHANGED <<nodeVars, pc, controlVars, runVars, active, raised, cause, troubles>>

-----------------------------------------------------------------------------
(* An exception leaves the body of execute_run(). *)
Raise(kind, what) ==
  /\ raised' = kind
  /\ cause' = what
  /\ pc' = "finally"

(* start_process(): the launch command is sent ... *)
LaunchSent ==
  /\ pc = "launch"
  /\ link[target]
  /\ Launch(target, attempt)
  /\ pc' = "ready"
  /\ UNCHANGED <<controlVars, runVars, active, raised, cause, link, faults, troubles>>

(* ... and returns the pids once the pid file is not empty. *)
LaunchReady ==
  /\ pc = "ready"
  /\ link[target]
  /\ pidFile[target] # NoAttempt
  /\ handle' = [handle EXCEPT ![target] = [pid |-> pidFile[target], monitor |-> attempt]]
  /\ active' = [active EXCEPT ![target] = TRUE]
  /\ IF target = "receiver"
       THEN pc' = "check" /\ UNCHANGED job
       ELSE pc' = "wait_status" /\ job' = "sender"
  /\ UNCHANGED <<nodeVars, target, stage, runVars, raised, cause, link, faults, troubles>>

(* The answer does not come in time (30 s, long after the pid was written) *)
(* over a connection that holds: the process that the pid file names is    *)
(* killed, and the exception goes on.                                      *)
LaunchTimesOut ==
  /\ pc = "ready"
  /\ link[target]
  /\ monitor[target][attempt] # "forked"
  /\ faults < MaxFaults
  /\ faults' = faults + 1
  /\ Signal(target, pidFile[target], "SIGKILL")
  /\ Raise("transport", "launch")
  /\ UNCHANGED <<controlVars, runVars, active, link, troubles>>

(* A call over a dropped connection, outside shutdown_process(). In the    *)
(* middle of a launch the kill that should follow is lost with it.         *)
CallFails ==
  /\ pc \in {"launch", "ready", "check", "fetch"}
  /\ ~link[target]
  /\ Raise("transport", "connection")
  /\ UNCHANGED <<nodeVars, controlVars, runVars, active, link, faults, troubles>>

(* process_exists(receiver_pid) after the startup time; the probes follow, *)
(* then the sender is started.                                             *)
ReceiverStarted ==
  /\ pc = "check"
  /\ link["receiver"]
  /\ proc["receiver"][handle["receiver"].pid] \in Alive
  /\ pc' = "launch"
  /\ target' = "sender"
  /\ UNCHANGED <<nodeVars, job, stage, handle, runVars, active, raised, cause, link,
                 faults, troubles>>

ReceiverGone ==
  /\ pc = "check"
  /\ link["receiver"]
  /\ proc["receiver"][handle["receiver"].pid] \notin Alive
  /\ Raise("error", "startup")
  /\ UNCHANGED <<nodeVars, controlVars, runVars, active, link, faults, troubles>>

-----------------------------------------------------------------------------
(* shutdown_process() and wait_process(). `job' says for whom: "sender" is *)
(* the wait for the sender's end, "stop" the shutdown of the receiver,     *)
(* "cleanup" a shutdown in the `finally', whose exceptions are logged.     *)

(* Shutdown of `r' begins with SIGINT. *)
BeginShutdown(r, why) ==
  /\ pc' = "signal"
  /\ target' = r
  /\ job' = why
  /\ stage' = 1

SendSignal ==
  /\ pc = "signal"
  /\ link[target]
  /\ Signal(target, handle[target].pid, stages[stage])
  /\ pc' = "wait_status"
  /\ UNCHANGED <<controlVars, runVars, active, raised, cause, link, faults, troubles>>

(* The polling command finds no status ... *)
WaitNoStatus ==
  /\ pc = "wait_status"
  /\ link[target]
  /\ statusFile[target] = NoStatus
  /\ pc' = "wait_alive"
  /\ UNCHANGED <<nodeVars, controlVars, runVars, active, raised, cause, link, faults, troubles>>

(* ... but the process or its monitor: poll again. *)
WaitRunning ==
  /\ pc = "wait_alive"
  /\ \/ proc[target][handle[target].pid] \in Alive
     \/ monitor[target][handle[target].monitor] \in {"forked", "waiting"}
  /\ pc' = "wait_status"
  /\ UNCHANGED <<nodeVars, controlVars, runVars, active, raised, cause, link, faults, troubles>>

(* The deadline passes: the next signal, or TimeoutExpired, which counts   *)
(* as a transport failure.                                                 *)
WaitTimesOut ==
  /\ pc = "wait_alive"
  /\ troubles' = IF troubles < MaxTroubles THEN troubles + 1 ELSE troubles
  /\ IF job # "sender" /\ stage < Len(stages)
       THEN /\ stage' = stage + 1
            /\ pc' = "signal"
            /\ UNCHANGED <<active, raised, cause>>
       ELSE IF job = "cleanup"
       THEN /\ active' = [active EXCEPT ![target] = FALSE]
            /\ pc' = "finally"
            /\ UNCHANGED <<stage, raised, cause>>
       ELSE /\ Raise("transport", "timeout")
            /\ UNCHANGED <<stage, active>>
  /\ UNCHANGED <<nodeVars, target, job, handle, runVars, link, faults>>

(* An exception of the signal or wait: a dropped connection, or the report *)
(* that the process exited without status.                                 *)
ShutdownRaises(kind, what) ==
  /\ IF job = "cleanup"
       THEN /\ active' = [active EXCEPT ![target] = FALSE]
            /\ pc' = "finally"
            /\ UNCHANGED <<raised, cause>>
       ELSE /\ Raise(kind, what)
            /\ UNCHANGED active
  /\ UNCHANGED <<nodeVars, controlVars, runVars, link, faults, troubles>>

WaitExited ==
  /\ pc = "wait_alive"
  /\ proc[target][handle[target].pid] \notin Alive
  /\ monitor[target][handle[target].monitor] \notin {"forked", "waiting"}
  /\ ShutdownRaises("error", "no status")

ShutdownLosesLink ==
  /\ pc \in {"signal", "wait_status"}
  /\ ~link[target]
  /\ ShutdownRaises("transport", "connection")

(* The polling command finds a status. *)
WaitReturns ==
  /\ pc = "wait_status"
  /\ link[target]
  /\ statusFile[target] # NoStatus
  /\ active' = [active EXCEPT ![target] = FALSE]
  /\ IF job = "cleanup"
       THEN /\ pc' = "finally"
            /\ UNCHANGED <<raised, cause, target, job, stage>>
       ELSE IF ~statusFile[target].ok
       THEN /\ Raise("error", "status")
            /\ UNCHANGED <<target, job, stage>>
       ELSE /\ IF job = "sender"
                 THEN BeginShutdown("receiver", "stop")
                 ELSE pc' = "fetch" /\ UNCHANGED <<target, job, stage>>
            /\ UNCHANGED <<raised, cause>>
  /\ UNCHANGED <<nodeVars, handle, runVars, link, faults, troubles>>

-----------------------------------------------------------------------------
(* fetch_file(), from the receiver's node and then from the sender's. The  *)
(* file is there: a program with status 0 has written it.                  *)
Fetch ==
  /\ pc = "fetch"
  /\ link[target]
  /\ output[target] # NoAttempt
  /\ fetched' = [fetched EXCEPT ![target] = output[target]]
  /\ IF target = "receiver"
       THEN target' = "sender" /\ UNCHANGED pc
       ELSE pc' = "write" /\ UNCHANGED target
  /\ UNCHANGED <<nodeVars, job, stage, handle, attempt, eligible, result, active,
                 raised, cause, link, faults, troubles>>

(* The verdict is written; now the remote files may go. *)
WriteMetadata(valid) ==
  /\ pc = "write"
  /\ result' = [attempt |-> attempt, receiver |-> fetched["receiver"],
                sender |-> fetched["sender"], valid |-> valid]
  /\ eligible' = TRUE
  /\ pc' = "finally"
  /\ UNCHANGED <<nodeVars, controlVars, attempt, fetched, active, raised, cause, link,
                 faults, troubles>>

-----------------------------------------------------------------------------
(* The `finally' of execute_run(): first the sender, then the receiver. *)
FinallyStops(r) ==
  /\ pc = "finally"
  /\ active[r]
  /\ r = "receiver" => ~active["sender"]
  /\ BeginShutdown(r, "cleanup")
  /\ UNCHANGED <<nodeVars, handle, runVars, active, raised, cause, link, faults, troubles>>

FinallyEnds ==
  /\ pc = "finally"
  /\ \A r \in Role : ~active[r]
  /\ IF eligible
       THEN pc' = "remove" /\ target' = "receiver"
       ELSE pc' = "end" /\ UNCHANGED target
  /\ UNCHANGED <<nodeVars, job, stage, handle, runVars, active, raised, cause, link,
                 faults, troubles>>

Remove ==
  /\ pc = "remove"
  /\ link[target]
  /\ RemoveFiles(target)
  /\ IF target = "receiver"
       THEN target' = "sender" /\ UNCHANGED pc
       ELSE pc' = "end" /\ UNCHANGED target
  /\ UNCHANGED <<job, stage, handle, runVars, active, raised, cause, link, faults, troubles>>

(* A failure here takes the place of the result that was to be returned.   *)
RemoveFails ==
  /\ pc = "remove"
  /\ ~link[target]
  /\ RemoveFiles(target) \/ UNCHANGED nodeVars
  /\ raised' = "transport"
  /\ cause' = "connection"
  /\ pc' = "end"
  /\ UNCHANGED <<controlVars, runVars, active, link, faults, troubles>>

-----------------------------------------------------------------------------
(* execute_with_progress(). *)

Return ==
  /\ pc = "end"
  /\ raised = "none"
  /\ pc' = "done"
  /\ UNCHANGED <<nodeVars, controlVars, runVars, active, raised, cause, link, faults, troubles>>

(* Only transport failures are retried. *)
Abort ==
  /\ pc = "end"
  /\ raised = "error" \/ (raised = "transport" /\ attempt = MAX_RUN_ATTEMPTS)
  /\ pc' = "aborted"
  /\ UNCHANGED <<nodeVars, controlVars, runVars, active, raised, cause, link, faults, troubles>>

Reconnect ==
  /\ pc = "end"
  /\ raised = "transport"
  /\ attempt < MAX_RUN_ATTEMPTS
  /\ attempt' = attempt + 1
  /\ link' = [r \in Role |-> TRUE]
  /\ raised' = "none"
  /\ cause' = "none"
  /\ eligible' = FALSE
  /\ fetched' = [r \in Role |-> NoAttempt]
  /\ handle' = [r \in Role |-> NoHandle]
  /\ target' = "receiver"
  /\ job' = "none"
  /\ stage' = 1
  /\ pc' = "launch"
  /\ UNCHANGED <<nodeVars, active, result, faults, troubles>>

(* get_node() cannot connect: its exception ends the campaign. *)
ReconnectFails ==
  /\ pc = "end"
  /\ raised = "transport"
  /\ attempt < MAX_RUN_ATTEMPTS
  /\ faults < MaxFaults
  /\ faults' = faults + 1
  /\ pc' = "aborted"
  /\ UNCHANGED <<nodeVars, controlVars, runVars, active, raised, cause, link, troubles>>

-----------------------------------------------------------------------------
Controller ==
  \/ LaunchSent \/ LaunchReady \/ CallFails
  \/ ReceiverStarted \/ ReceiverGone
  \/ SendSignal \/ WaitNoStatus \/ WaitRunning \/ WaitTimesOut \/ WaitExited
  \/ WaitReturns \/ ShutdownLosesLink
  \/ Fetch
  \/ \E valid \in BOOLEAN : WriteMetadata(valid)
  \/ \E r \in Role : FinallyStops(r)
  \/ FinallyEnds \/ Remove \/ RemoveFails
  \/ Return \/ Abort \/ Reconnect

(* Until the run is over; then nobody looks any more. *)
Nodes ==
  ~Over /\ \E r \in Role, a \in Attempt :
    \/ NodeStep(r, a)
    \/ \E ok \in BOOLEAN : ProgramExits(r, a, ok) \/ ProgramFails(r, a, ok)

Network ==
  \/ \E r \in Role : Drop(r)
  \/ LaunchTimesOut
  \/ ReconnectFails

Ended == Over /\ UNCHANGED vars

Next == Controller \/ Nodes \/ Network \/ Ended

Spec == Init /\ [][Next]_vars

(* The controller runs, every wait has a deadline, and a monitor writes    *)
(* the pid of what it has forked. Nothing is assumed of the programs or of *)
(* the network.                                                            *)
Fairness ==
  /\ WF_vars(Controller)
  /\ SF_vars(WaitTimesOut)
  /\ \A r \in Role, a \in Attempt :
       WF_vars(MonitorWritesPid(r, a) /\ NodeStep(r, a))

FairSpec == Spec /\ Fairness

-----------------------------------------------------------------------------
Running(r, a) == proc[r][a] \in {"running", "stopping"}

(* A first attempt interrupts its receiver only after its sender has ended *)
(* with status 0, and has a result only if its receiver has ended with 0   *)
(* too, although it knows of both only through the monitors' files and     *)
(* connections drop and waits time out.                                    *)
FirstResultIsSound ==
  /\ attempt = 1 /\ job = "stop" => proc["sender"][1] = "exited"
  /\ result.attempt = 1 => \A r \in Role : proc[r][1] = "exited"

(* "The harness removes a run's remote artifacts only after all required   *)
(* outputs are stored locally and its metadata is written": unless there   *)
(* is metadata, a program that has ended has left its status on the node.  *)
DiagnosticsAreKept ==
  result = NoResult =>
    \A r \in Role, a \in Attempt : monitor[r][a] = "gone" => statusFile[r] # NoStatus

(* However a first attempt ends, if no connection failed it leaves no      *)
(* program running: each path out of execute_run() stops what it started.  *)
FirstAttemptStopsItsProcesses ==
  pc = "end" /\ attempt = 1 /\ faults = 0 => \A r \in Role : ~Running(r, 1)

(* The run ends, with a result or an error, whatever the nodes and the     *)
(* network do: no wait is without a deadline.                              *)
RunEnds == <>Over

-----------------------------------------------------------------------------
(* Claims of the comments and documents, which the code does not meet.     *)

(* main.py: "a single dropped connection must not discard the session". If *)
(* one connection fails once and nothing else goes wrong, the run is not   *)
(* aborted.                                                                *)
OneDropIsSurvived ==
  faults <= 1 /\ troubles = 0 /\ cause # "no status" => pc # "aborted"

(* main.py: "Only transport failures are retried: a measurement that ran   *)
(* and failed its own validity rules is a result". Once its metadata is    *)
(* written a run is not attempted again.                                   *)
VerdictIsFinal == result # NoResult => attempt = result.attempt

=============================================================================
