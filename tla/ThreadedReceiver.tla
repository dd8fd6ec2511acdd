--------------------------- MODULE ThreadedReceiver ---------------------------
(***************************************************************************)
(* main() of src/receiver/receiver_threaded.cpp: a receive thread that     *)
(* takes batches of datagrams from the socket, classifies and counts each, *)
(* and pushes the valid ones into an SPSCQueue, and a worker thread that   *)
(* processes them. SIGINT, the packet limit or a socket error end the      *)
(* receive loop; the receive thread then reads the queue depth, sets       *)
(* producer_done, joins the worker, which drains the queue first, and      *)
(* writes the statistics.                                                  *)
(*                                                                         *)
(* A datagram is what the receive loop can tell apart: truncated or not,   *)
(* and short, of a wrong magic or version, or valid. A valid one is given  *)
(* the number of valid ones before it as its sequence number (loss,        *)
(* duplication and reordering are the business of SequenceTracker).        *)
(*                                                                         *)
(* Left out: time stamps, synthetic_work's delay, the affinity and         *)
(* scheduler outcomes, receive_syscalls (a count no decision reads),       *)
(* socket_pending_bytes (an ioctl no decision reads) and the bytes of the  *)
(* log file.                                                               *)
(***************************************************************************)
EXTENDS SPSCQueue

CONSTANTS
  BatchSize,     \* config.batch_size: datagrams per recvmmsg, packets per poll
  MaxPackets,    \* config.max_packets; 0 is no limit
  SampleEvery,   \* config.sample_every; 0 is no sampling
  MaxDatagrams   \* bound of the model: datagrams that ever arrive

ASSUME ReceiverAssumption ==
  /\ BatchSize \in Nat \ {0}
  /\ MaxPackets \in Nat
  /\ SampleEvery \in Nat
  /\ MaxDatagrams \in Nat
  /\ Item = [seq : 0 .. MaxDatagrams, sampled : BOOLEAN]

VARIABLES
  \* receive thread
  rxpc,            \* its program counter
  remaining,       \* datagrams of the current batch not yet looked at
  packet,          \* the packet being pushed
  stats,           \* the counters of struct Stats it increments
  interrupted,     \* stats.interrupted
  queue_depth,     \* stats.queue_depth_at_shutdown
  exit_code,       \* what main() returned, or NotExited
  \* worker thread
  wpc,             \* its program counter
  polled,          \* i of its polling loop
  draining,        \* it has left the polling loop
  processed,       \* the packets processed, in order
  log,             \* the sequence numbers given to the logger, in order
  \* shared
  stop_requested,  \* set by signal_handler
  producer_done,   \* release/acquire flag
  \* history
  accepted         \* the packets pushed, in order

rxVars == <<rxpc, remaining, packet, stats, interrupted, queue_depth, exit_code>>
workerVars == <<wpc, polled, draining, processed, log>>
vars == <<queueVars, rxVars, workerVars, stop_requested, producer_done, accepted>>

NotExited == -1

Kind == {"short", "invalid_magic", "unsupported_version", "valid"}

(* What MSG_TRUNC and the header checks tell apart. A truncated datagram   *)
(* fills its slot, so it is not short.                                     *)
Datagram == {d \in [kind : Kind, truncated : BOOLEAN] :
               ~(d.truncated /\ d.kind = "short")}

Counter == {"datagrams_received", "truncated_packets", "short", "invalid_magic",
            "unsupported_version", "valid", "sampled_packets", "spsc_overflow",
            "socket_errors"}

Init ==
  /\ QueueInit
  /\ rxpc = "setup"
  /\ remaining = 0
  /\ packet = NoItem
  /\ stats = [c \in Counter |-> 0]
  /\ interrupted = FALSE
  /\ queue_depth = 0
  /\ exit_code = NotExited
  /\ wpc = "none"
  /\ polled = 0
  /\ draining = FALSE
  /\ processed = <<>>
  /\ log = <<>>
  /\ stop_requested = FALSE
  /\ producer_done = FALSE
  /\ accepted = <<>>

-----------------------------------------------------------------------------
(* Faulty variants of the definitions that follow.                         *)

(* The count of a recvmmsg ignores how close the limit is. *)
RecvCountUncapped == BatchSize

(* A packet that does not fit is dropped without being counted. *)
RxOverflowUncounted(n) ==
  /\ rxpc = "alloc"
  /\ TryAllocFull(n)
  /\ remaining' = remaining - 1
  /\ rxpc' = "batch"
  /\ UNCHANGED <<packet, stats, interrupted, queue_depth, exit_code, workerVars,
                 stop_requested, producer_done, accepted>>

(* The worker leaves as soon as it sees producer_done, without draining. *)
WorkerSeesDoneAndLeaves ==
  /\ wpc = "while"
  /\ producer_done
  /\ ConsumerSyncsWithProducer
  /\ draining' = TRUE
  /\ wpc' = "exit"
  /\ UNCHANGED <<rxVars, polled, processed, log, stop_requested, producer_done,
                 accepted>>

(* The slot is not released after its packet was processed. *)
WorkerPopForgotten ==
  /\ wpc = "pop"
  /\ UNCHANGED queueVars
  /\ polled' = IF draining THEN polled ELSE polled + 1
  /\ wpc' = IF draining \/ polled' < BatchSize THEN "front" ELSE "while"
  /\ UNCHANGED <<rxVars, draining, processed, log, stop_requested,
                 producer_done, accepted>>

(* recvmmsg blocks for ever when nothing arrives. *)
RxNeverTimesOut ==
  /\ rxpc = "recv"
  /\ UNCHANGED vars

-----------------------------------------------------------------------------
(* The environment.                                                        *)

(* SIGINT: signal_handler sets the flag. The handler is installed before   *)
(* the threads start; the step stands for the moment from which the        *)
(* receive thread's relaxed load returns true.                             *)
Sigint ==
  /\ rxpc \notin {"setup", "exit"}
  /\ ~stop_requested
  /\ stop_requested' = TRUE
  /\ UNCHANGED <<queueVars, rxVars, workerVars, producer_done, accepted>>

-----------------------------------------------------------------------------
(* The receive thread.                                                     *)

(* Arguments rejected (2), or no output directory, socket, port or log     *)
(* file (1): main() returns before it starts the worker. (--help, which    *)
(* prints the usage and returns 0, is left out.)                           *)
RxSetupFails(code) ==
  /\ rxpc = "setup"
  /\ rxpc' = "exit"
  /\ exit_code' = code
  /\ UNCHANGED <<queueVars, remaining, packet, stats, interrupted, queue_depth,
                 workerVars, stop_requested, producer_done, accepted>>

(* The worker thread is created and the receive loop entered. *)
RxStart ==
  /\ rxpc = "setup"
  /\ rxpc' = "loop"
  /\ wpc' = "while"
  /\ UNCHANGED <<queueVars, remaining, packet, stats, interrupted, queue_depth,
                 exit_code, polled, draining, processed, log, stop_requested,
                 producer_done, accepted>>

(* The condition of the receive loop. *)
KeepReceiving ==
  /\ ~stop_requested
  /\ MaxPackets = 0 \/ stats["datagrams_received"] < MaxPackets

RxLoop ==
  /\ rxpc = "loop"
  /\ rxpc' = IF KeepReceiving THEN "recv" ELSE "left"
  /\ UNCHANGED <<queueVars, remaining, packet, stats, interrupted, queue_depth,
                 exit_code, workerVars, stop_requested, producer_done, accepted>>

(* The vlen passed to recvmmsg. *)
RecvCount ==
  IF MaxPackets = 0 \/ BatchSize < MaxPackets - stats["datagrams_received"]
    THEN BatchSize
    ELSE MaxPackets - stats["datagrams_received"]

(* recvmmsg returns n datagrams; MSG_WAITFORONE returns as soon as there   *)
(* is one.                                                                 *)
RxReceive(n) ==
  /\ rxpc = "recv"
  /\ n \in 1 .. RecvCount
  /\ stats["datagrams_received"] + n <= MaxDatagrams
  /\ remaining' = n
  /\ rxpc' = "batch"
  /\ UNCHANGED <<queueVars, packet, stats, interrupted, queue_depth, exit_code,
                 workerVars, stop_requested, producer_done, accepted>>

(* EAGAIN after SO_RCVTIMEO, or EINTR: back to the loop condition. *)
RxTimeout ==
  /\ rxpc = "recv"
  /\ rxpc' = "loop"
  /\ UNCHANGED <<queueVars, remaining, packet, stats, interrupted, queue_depth,
                 exit_code, workerVars, stop_requested, producer_done, accepted>>

(* Any other error: counted, and the loop is left. *)
RxError ==
  /\ rxpc = "recv"
  /\ stats' = [stats EXCEPT !["socket_errors"] = @ + 1]
  /\ rxpc' = "left"
  /\ UNCHANGED <<queueVars, remaining, packet, interrupted, queue_depth,
                 exit_code, workerVars, stop_requested, producer_done, accepted>>

(* account_receive(): is this packet sampled? *)
Sampled(seq) == SampleEvery # 0 /\ seq % SampleEvery = 0

(* The counters one datagram increments. *)
Counted(d) ==
  {"datagrams_received", d.kind}
    \union (IF d.truncated THEN {"truncated_packets"} ELSE {})
    \union (IF d.kind = "valid" /\ Sampled(stats["valid"])
              THEN {"sampled_packets"} ELSE {})

(* One datagram of the batch: counted, and if it is valid made into a      *)
(* packet to push.                                                         *)
RxDatagram(d) ==
  /\ rxpc = "batch"
  /\ remaining > 0
  /\ stats' = [c \in Counter |-> IF c \in Counted(d) THEN stats[c] + 1 ELSE stats[c]]
  /\ IF d.kind = "valid"
       THEN /\ packet' = [seq |-> stats["valid"], sampled |-> Sampled(stats["valid"])]
            /\ rxpc' = "alloc"
            /\ UNCHANGED remaining
       ELSE /\ remaining' = remaining - 1
            /\ UNCHANGED <<packet, rxpc>>
  /\ UNCHANGED <<queueVars, interrupted, queue_depth, exit_code, workerVars,
                 stop_requested, producer_done, accepted>>

RxBatchEnd ==
  /\ rxpc = "batch"
  /\ remaining = 0
  /\ rxpc' = "loop"
  /\ UNCHANGED <<queueVars, remaining, packet, stats, interrupted, queue_depth,
                 exit_code, workerVars, stop_requested, producer_done, accepted>>

(* push(): the slot is allocated ... *)
RxAlloc(n) ==
  /\ rxpc = "alloc"
  /\ TryAlloc(n)
  /\ rxpc' = "write"
  /\ UNCHANGED <<remaining, packet, stats, interrupted, queue_depth, exit_code,
                 workerVars, stop_requested, producer_done, accepted>>

(* ... or the push fails, the packet is dropped and spsc_overflow counted. *)
RxOverflow(n) ==
  /\ rxpc = "alloc"
  /\ TryAllocFull(n)
  /\ stats' = [stats EXCEPT !["spsc_overflow"] = @ + 1]
  /\ remaining' = remaining - 1
  /\ rxpc' = "batch"
  /\ UNCHANGED <<packet, interrupted, queue_depth, exit_code, workerVars,
                 stop_requested, producer_done, accepted>>

RxWrite ==
  /\ rxpc = "write"
  /\ WriteSlot(packet)
  /\ rxpc' = "commit"
  /\ UNCHANGED <<remaining, packet, stats, interrupted, queue_depth, exit_code,
                 workerVars, stop_requested, producer_done, accepted>>

RxCommit ==
  /\ rxpc = "commit"
  /\ Commit
  /\ accepted' = Append(accepted, packet)
  /\ remaining' = remaining - 1
  /\ rxpc' = "batch"
  /\ UNCHANGED <<packet, stats, interrupted, queue_depth, exit_code, workerVars,
                 stop_requested, producer_done>>

(* After the loop: stop_requested is read once more, for the report. *)
RxInterrupted ==
  /\ rxpc = "left"
  /\ interrupted' = stop_requested
  /\ rxpc' = "depth"
  /\ UNCHANGED <<queueVars, remaining, packet, stats, queue_depth, exit_code,
                 workerVars, stop_requested, producer_done, accepted>>

(* queue.size(), while the worker is still running; size() loads tail_     *)
(* with acquire order, as try_alloc() does.                                *)
RxDepth(n) ==
  /\ rxpc = "depth"
  /\ LoadTail(n)
  /\ queue_depth' = SizeSeen(n)
  /\ rxpc' = "publish"
  /\ UNCHANGED <<head, tail, buffer, commits, pops, headSeen, remaining, packet,
                 stats, interrupted, exit_code, workerVars, stop_requested,
                 producer_done, accepted>>

RxPublishDone ==
  /\ rxpc = "publish"
  /\ producer_done' = TRUE
  /\ rxpc' = "join"
  /\ UNCHANGED <<queueVars, remaining, packet, stats, interrupted, queue_depth,
                 exit_code, workerVars, stop_requested, accepted>>

(* worker.join(), then the counters are merged, the log flushed and the    *)
(* statistics written, or not (ok). The report is `stats' and `processed'. *)
RxJoinAndReport(ok) ==
  /\ rxpc = "join"
  /\ wpc = "exit"
  /\ exit_code' = IF ok THEN 0 ELSE 1
  /\ rxpc' = "exit"
  /\ UNCHANGED <<queueVars, remaining, packet, stats, interrupted, queue_depth,
                 workerVars, stop_requested, producer_done, accepted>>

-----------------------------------------------------------------------------
(* The worker thread.                                                      *)

(* producer_done.load(acquire) reads FALSE, possibly an old value. *)
WorkerPolls ==
  /\ wpc = "while"
  /\ polled' = 0
  /\ wpc' = "front"
  /\ UNCHANGED <<queueVars, rxVars, draining, processed, log, stop_requested,
                 producer_done, accepted>>

(* producer_done.load(acquire) reads TRUE: go on to drain the queue. *)
WorkerSeesDone ==
  /\ wpc = "while"
  /\ producer_done
  /\ ConsumerSyncsWithProducer
  /\ draining' = TRUE
  /\ wpc' = "front"
  /\ UNCHANGED <<rxVars, polled, processed, log, stop_requested, producer_done,
                 accepted>>

(* front() in either loop; an empty queue ends the poll, or the drain. *)
WorkerFront(n) ==
  /\ wpc = "front"
  /\ \/ Front(n) /\ wpc' = "process"
     \/ FrontEmpty(n) /\ wpc' = IF draining THEN "exit" ELSE "while"
  /\ UNCHANGED <<rxVars, polled, draining, processed, log, stop_requested,
                 producer_done, accepted>>

(* What process_packet() hands to the logger. *)
Logged(p) == IF p.sampled THEN <<p.seq>> ELSE <<>>

(* process_packet(), reading the packet through the pointer into the slot. *)
WorkerProcess ==
  /\ wpc = "process"
  /\ processed' = Append(processed, FrontItem)
  /\ log' = log \o Logged(FrontItem)
  /\ wpc' = "pop"
  /\ UNCHANGED <<queueVars, rxVars, polled, draining, stop_requested,
                 producer_done, accepted>>

WorkerPop ==
  /\ wpc = "pop"
  /\ Pop
  /\ polled' = IF draining THEN polled ELSE polled + 1
  /\ wpc' = IF draining \/ polled' < BatchSize THEN "front" ELSE "while"
  /\ UNCHANGED <<rxVars, draining, processed, log, stop_requested,
                 producer_done, accepted>>

-----------------------------------------------------------------------------
(* What the network, the kernel and the user do. *)
Environment ==
  \/ Sigint
  \/ \E n \in 1 .. MaxDatagrams : RxReceive(n)
  \/ RxError

Rx ==
  \/ \E code \in {1, 2} : RxSetupFails(code)
  \/ RxStart
  \/ RxLoop
  \/ RxTimeout
  \/ \E d \in Datagram : RxDatagram(d)
  \/ RxBatchEnd
  \/ \E n \in tailSeen .. pops : RxAlloc(n) \/ RxOverflow(n) \/ RxDepth(n)
  \/ RxWrite
  \/ RxCommit
  \/ RxInterrupted
  \/ RxPublishDone
  \/ \E ok \in BOOLEAN : RxJoinAndReport(ok)

Worker ==
  \/ WorkerPolls
  \/ WorkerSeesDone
  \/ \E n \in headSeen .. commits : WorkerFront(n)
  \/ WorkerProcess
  \/ WorkerPop

Exited == rxpc = "exit" /\ UNCHANGED vars

Next == Environment \/ Rx \/ Worker \/ Exited

Spec == Init /\ [][Next]_vars

(* Both threads keep running: they are pinned to different CPUs or are     *)
(* time-shared (main() rejects the same CPU for both), and SO_RCVTIMEO     *)
(* bounds recvmmsg, so that it returns although nothing arrives and no     *)
(* error occurs. The worker's repeated loads of producer_done return TRUE  *)
(* after a finite time once it is set.                                     *)
Fairness ==
  /\ WF_vars(Rx)
  /\ WF_vars(Worker)
  /\ SF_vars(WorkerSeesDone)

FairSpec == Spec /\ Fairness

-----------------------------------------------------------------------------
TypeOK ==
  /\ QueueTypeOK
  /\ rxpc \in {"setup", "loop", "recv", "batch", "alloc", "write", "commit",
               "left", "depth", "publish", "join", "exit"}
  /\ remaining \in 0 .. BatchSize
  /\ packet \in Item \union {NoItem}
  /\ stats \in [Counter -> Nat]
  /\ interrupted \in BOOLEAN
  /\ queue_depth \in 0 .. usable_capacity
  /\ exit_code \in {NotExited, 0, 1, 2}
  /\ wpc \in {"none", "while", "front", "process", "pop", "exit"}
  /\ polled \in 0 .. BatchSize
  /\ draining \in BOOLEAN
  /\ processed \in Seq(Item)
  /\ log \in Seq(Nat)
  /\ stop_requested \in BOOLEAN
  /\ producer_done \in BOOLEAN
  /\ accepted \in Seq(Item)

(* The packets pushed but not yet processed, or being pushed. *)
InPush == IF rxpc \in {"alloc", "write", "commit"} THEN 1 ELSE 0

Reported == rxpc = "exit" /\ exit_code = 0

(* The receive thread's write into a slot and the worker's processing of   *)
(* the packet in a slot never race, whatever old index either acts on; in  *)
(* particular a slot is not overwritten while process_packet() holds the   *)
(* pointer that front() returned.                                          *)
NoDataRace ==
  /\ rxpc = "write" => WriteIsOrdered
  /\ wpc \in {"process", "pop"} => ReadIsOrdered
  /\ rxpc \in {"write", "commit"} /\ wpc \in {"process", "pop"} => head # tail

(* The worker processes the packets that were pushed, in the order they    *)
(* were pushed, each at most once.                                         *)
ProcessedInOrder ==
  /\ Len(processed) <= Len(accepted)
  /\ processed = SubSeq(accepted, 1, Len(processed))

(* "Producer has stopped. Drain every packet published before shutdown":   *)
(* when the worker exits, every packet pushed has been processed, although *)
(* it may have seen producer_done before it saw the last pushes.           *)
DrainIsComplete == wpc = "exit" => processed = accepted

(* The report of a run balances: every datagram is counted in exactly one  *)
(* class, and every valid packet was processed or counted as an overflow   *)
(* (the check main.py makes on processed_packets and spsc_overflow).       *)
ReportBalances ==
  Reported =>
    /\ stats["datagrams_received"] =
         stats["short"] + stats["invalid_magic"]
           + stats["unsupported_version"] + stats["valid"]
    /\ Len(processed) + stats["spsc_overflow"] = stats["valid"]

(* --max-packets is a hard limit on the datagrams received although they   *)
(* are taken in batches, and a loop that ends without SIGINT and without   *)
(* a socket error has received exactly that many.                          *)
PacketLimit ==
  /\ MaxPackets # 0 => stats["datagrams_received"] + remaining <= MaxPackets + InPush
  /\ rxpc \in {"left", "depth", "publish", "join"} /\ ~stop_requested
       /\ stats["socket_errors"] = 0
       => MaxPackets # 0 /\ stats["datagrams_received"] = MaxPackets

(* queue_depth_at_shutdown, read while the worker runs, never reports less *)
(* than what is still in the queue: 0 means that the worker had popped     *)
(* everything, which is what the validity check in main.py takes it for.   *)
DepthIsConservative ==
  rxpc \in {"publish", "join", "exit"} => commits - pops <= queue_depth

Contract == INSTANCE ReceiverContract
              WITH Packet <- Item,
                   received <- stats["valid"],
                   waiting <- SubSeq(accepted, Len(processed) + 1, Len(accepted))
                                \o (IF InPush = 1 THEN <<packet>> ELSE <<>>),
                   dropped <- stats["spsc_overflow"],
                   reported <- Reported

(* Across the two threads the receiver keeps the contract of a single      *)
(* loop: every packet counted as valid is processed, in order, or dropped  *)
(* as it arrives and counted, and none is left when the report is written. *)
ImplementsContract == Contract!Spec

(* The receiver exits after SIGINT, at the packet limit and after a socket *)
(* error: the receive loop notices, the worker notices producer_done, its  *)
(* drain ends and the join returns.                                        *)
ShutdownCompletes == (stop_requested \/ rxpc = "left") ~> rxpc = "exit"

=============================================================================
