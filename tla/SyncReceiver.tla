----------------------------- MODULE SyncReceiver -----------------------------
(***************************************************************************)
(* main() of src/receiver/receiver_baseline.cpp and receiver_batched.cpp:  *)
(* one thread that receives a datagram (baseline, recvfrom) or a batch     *)
(* (batched, recvmmsg), counts each and processes the valid ones on the    *)
(* spot, until SIGINT, the packet limit or a socket error. Sampled packets *)
(* are logged; the file may take less than it is given (a full disk), and  *)
(* the process may be killed.                                              *)
(*                                                                         *)
(* The two differ in how many datagrams a call returns and in what they    *)
(* can tell of a datagram that fills its slot: recvmmsg sets MSG_TRUNC,    *)
(* recvfrom only returns the length it copied.                             *)
(***************************************************************************)
EXTENDS BinaryLog

CONSTANTS
  BatchSize,     \* config.batch_size, read by the batched receiver only
  MaxPackets,    \* config.max_packets; 0 is no limit
  SampleEvery,   \* config.sample_every; 0 is no sampling
  MaxDatagrams,  \* bound of the model: datagrams that ever arrive
  MaxShort       \* bound of the model: writes that are cut short

ASSUME SyncAssumption ==
  /\ BatchSize \in Nat \ {0}
  /\ MaxPackets \in Nat
  /\ SampleEvery \in Nat
  /\ MaxDatagrams \in Nat
  /\ MaxShort \in Nat

VARIABLES
  variant,         \* the receiver that was started: "baseline" or "batched"
  pc,
  remaining,       \* datagrams of the current call not yet looked at
  packet,          \* the packet being processed
  stats,           \* the counters of struct Stats
  processed,       \* the packets processed, in order
  logged,          \* the sequence numbers given to the logger (history)
  logger,          \* buffer and file of the BinaryLogger
  shorts,          \* writes that were cut short (history)
  interrupted,     \* stats.interrupted
  stop_requested,  \* set by signal_handler
  exit_code        \* what main() returned, or NotExited

logVars == <<logged, logger, shorts>>
vars == <<variant, pc, remaining, packet, stats, processed, logVars, interrupted, stop_requested, exit_code>>

NotExited == -1
Killed == 137
NoPacket == [seq |-> 0, sampled |-> FALSE]

(* What a datagram looks like to the receiver. Its length against the      *)
(* receive slot: within it, exactly filling it, or longer than it.         *)
Datagram ==
  [kind : {"invalid_magic", "unsupported_version", "valid"},
   length : {"fits", "fills", "exceeds"}]
  \union [kind : {"short"}, length : {"fits"}]

Counter == {"datagrams_received", "truncated_packets", "short", "invalid_magic",
            "unsupported_version", "valid", "sampled_packets", "socket_errors"}

Packet == [seq : 0 .. MaxDatagrams, sampled : BOOLEAN]

Init ==
  /\ variant \in {"baseline", "batched"}
  /\ pc = "setup"
  /\ remaining = 0
  /\ packet = NoPacket
  /\ stats = [c \in Counter |-> 0]
  /\ processed = <<>>
  /\ logged = <<>>
  /\ logger = NewLogger
  /\ shorts = 0
  /\ interrupted = FALSE
  /\ stop_requested = FALSE
  /\ exit_code = NotExited

-----------------------------------------------------------------------------
(* Faulty variants of the definitions that follow.                         *)

(* A truncated datagram is counted as valid and then skipped. *)
ProcessableUnlessTruncated(d) == d.kind = "valid" /\ d.length # "exceeds"

(* A timed-out call is taken for a reason to wait again. *)
TimeoutWaitsAgain == pc = "recv" /\ UNCHANGED vars

-----------------------------------------------------------------------------
(* SIGINT: see ThreadedReceiver. *)
Sigint ==
  /\ pc \notin {"setup", "exit"}
  /\ ~stop_requested
  /\ stop_requested' = TRUE
  /\ UNCHANGED <<variant, pc, remaining, packet, stats, processed, logVars, interrupted, exit_code>>

SetupFails(code) ==
  /\ pc = "setup"
  /\ pc' = "exit"
  /\ exit_code' = code
  /\ UNCHANGED <<variant, remaining, packet, stats, processed, logVars, interrupted, stop_requested>>

Start ==
  /\ pc = "setup"
  /\ pc' = "loop"
  /\ UNCHANGED <<variant, remaining, packet, stats, processed, logVars, interrupted, stop_requested, exit_code>>

(* The condition of the receive loop. *)
KeepReceiving ==
  /\ ~stop_requested
  /\ MaxPackets = 0 \/ stats["datagrams_received"] < MaxPackets

Loop ==
  /\ pc = "loop"
  /\ pc' = IF KeepReceiving THEN "recv" ELSE "left"
  /\ UNCHANGED <<variant, remaining, packet, stats, processed, logVars, interrupted, stop_requested, exit_code>>

(* How many datagrams one call may return. *)
RecvCount ==
  LET room == MaxPackets - stats["datagrams_received"]
  IN  CASE variant = "baseline" -> 1
        [] MaxPackets = 0 \/ BatchSize < room -> BatchSize
        [] OTHER -> room

Receive(n) ==
  /\ pc = "recv"
  /\ n \in 1 .. RecvCount
  /\ stats["datagrams_received"] + n <= MaxDatagrams
  /\ remaining' = n
  /\ pc' = "batch"
  /\ UNCHANGED <<variant, packet, stats, processed, logVars, interrupted, stop_requested, exit_code>>

(* EAGAIN after SO_RCVTIMEO, or EINTR. *)
Timeout ==
  /\ pc = "recv"
  /\ pc' = "loop"
  /\ UNCHANGED <<variant, remaining, packet, stats, processed, logVars, interrupted, stop_requested, exit_code>>

Error ==
  /\ pc = "recv"
  /\ stats' = [stats EXCEPT !["socket_errors"] = @ + 1]
  /\ pc' = "left"
  /\ UNCHANGED <<variant, remaining, packet, processed, logVars, interrupted, stop_requested, exit_code>>

(* MSG_TRUNC tells a longer datagram from one that fills the slot; the     *)
(* length that recvfrom returns does not.                                  *)
LooksTruncated(d) ==
  \/ d.length = "exceeds"
  \/ d.length = "fills" /\ variant = "baseline"

Processable(d) == d.kind = "valid"

(* account_receive(): is this packet sampled? *)
Sampled(seq) == SampleEvery # 0 /\ seq % SampleEvery = 0

(* One datagram: counted and, if valid, made into a packet. *)
HandleDatagram(d) ==
  LET seq == stats["valid"]
      sampled == d.kind = "valid" /\ Sampled(seq)
      counted == {"datagrams_received", d.kind}
                   \union (IF LooksTruncated(d) THEN {"truncated_packets"} ELSE {})
                   \union (IF sampled THEN {"sampled_packets"} ELSE {})
  IN  /\ pc = "batch"
      /\ remaining > 0
      /\ remaining' = remaining - 1
      /\ stats' = [c \in Counter |-> IF c \in counted THEN stats[c] + 1 ELSE stats[c]]
      /\ IF Processable(d)
           THEN packet' = [seq |-> seq, sampled |-> sampled] /\ pc' = "process"
           ELSE UNCHANGED <<packet, pc>>
      /\ UNCHANGED <<variant, processed, logVars, interrupted, stop_requested, exit_code>>

(* What process_packet() hands to the logger. *)
Logged(p) == IF p.sampled THEN <<p.seq>> ELSE <<>>

(* A flush writes all that is pending, or so many words of it. *)
Writes(flushes, written) ==
  LET all == Len(Pending(logger))
      short == flushes /\ written < all
  IN  /\ written <= all
      /\ short \/ written = all
      /\ short => shorts < MaxShort
      /\ shorts' = IF short THEN shorts + 1 ELSE shorts

(* process_packet(). *)
Process(written) ==
  /\ pc = "process"
  /\ Writes(packet.sampled /\ LogFlushes(logger), written)
  /\ processed' = Append(processed, packet)
  /\ logged' = logged \o Logged(packet)
  /\ logger' = IF packet.sampled THEN log(logger, packet.seq, written) ELSE logger
  /\ pc' = "batch"
  /\ UNCHANGED <<variant, remaining, packet, stats, interrupted, stop_requested, exit_code>>

BatchEnd ==
  /\ pc = "batch"
  /\ remaining = 0
  /\ pc' = "loop"
  /\ UNCHANGED <<variant, remaining, packet, stats, processed, logVars, interrupted, stop_requested, exit_code>>

ReadInterrupted ==
  /\ pc = "left"
  /\ interrupted' = stop_requested
  /\ pc' = "report"
  /\ UNCHANGED <<variant, remaining, packet, stats, processed, logVars, stop_requested, exit_code>>

(* Sequences finalised, processing merged, log flushed, statistics written *)
(* or not (ok).                                                            *)
Report(ok, written) ==
  /\ pc = "report"
  /\ Writes(TRUE, written)
  /\ logger' = flush(logger, written)
  /\ exit_code' = IF ok THEN 0 ELSE 1
  /\ pc' = "exit"
  /\ UNCHANGED <<variant, remaining, packet, stats, processed, logged, interrupted, stop_requested>>

(* The next step writes the buffer. *)
Flushing ==
  pc = "report" \/ (pc = "process" /\ packet.sampled /\ LogFlushes(logger))

(* The harness escalates to SIGKILL, or the machine takes the process down.*)
KilledWith(file) ==
  /\ pc \notin {"setup", "exit"}
  /\ file \in Remains(logger, Flushing)
  /\ logger' = [logger EXCEPT !.file = file]
  /\ exit_code' = Killed
  /\ pc' = "exit"
  /\ UNCHANGED <<variant, remaining, packet, stats, processed, logged, shorts, interrupted, stop_requested>>

(* What the network, the kernel and the user do. *)
Environment ==
  \/ Sigint
  \/ \E n \in 1 .. MaxDatagrams : Receive(n)
  \/ Error
  \/ \E file \in Remains(logger, TRUE) : KilledWith(file)

Receiver ==
  \/ \E code \in {1, 2} : SetupFails(code)
  \/ Start
  \/ Loop
  \/ Timeout
  \/ \E d \in Datagram : HandleDatagram(d)
  \/ \E written \in 0 .. HeaderWords + BufferWords : Process(written)
  \/ BatchEnd
  \/ ReadInterrupted
  \/ \E ok \in BOOLEAN, written \in 0 .. HeaderWords + BufferWords : Report(ok, written)

Exited == pc = "exit" /\ UNCHANGED vars

Next == Environment \/ Receiver \/ Exited

Spec == Init /\ [][Next]_vars

(* The process keeps running, and SO_RCVTIMEO bounds each receive call     *)
(* although nothing arrives and no error occurs.                           *)
FairSpec == Spec /\ WF_vars(Receiver)

-----------------------------------------------------------------------------
Reported == pc = "exit" /\ exit_code = 0

Contract == INSTANCE ReceiverContract
              WITH received <- stats["valid"],
                   waiting <- IF Len(processed) < stats["valid"] THEN <<packet>> ELSE <<>>,
                   dropped <- 0,
                   reported <- Reported

(* The synchronous receivers keep the contract that the threaded one keeps:*)
(* every packet counted as valid is processed, in order, before the        *)
(* report, and none is dropped.                                            *)
ImplementsContract == Contract!Spec

(* After SIGINT the receiver exits. *)
StopTerminates == stop_requested ~> pc = "exit"

-----------------------------------------------------------------------------
(* If every write was complete, a receiver that has exited on its own has  *)
(* left a log that loads as exactly the sampled packets, in order, however *)
(* many times the buffer was flushed on the way; a full disk is the only   *)
(* thing that takes records from the log.                                  *)
LogIsComplete ==
  pc = "exit" /\ exit_code = 0 /\ shorts = 0 =>
    /\ Loads(logger.file)
    /\ load_binary_file(logger.file) =
         [i \in 1 .. Len(logged) |-> encode_log_entry(logged[i])]

(* The loader turns a log that was damaged once, by one short write or by  *)
(* a kill, into an error or into records that were logged, in order: it    *)
(* never reads a record that starts inside another one. A loss of whole    *)
(* records is not visible, and two short writes may cancel out. The log    *)
(* must have its magic number, however little of the rest of the header:   *)
(* the magic number is lost if the first flush fails, and what later ones  *)
(* write may then pass for records of the headerless legacy format. Only   *)
(* a short write does that; a kill leaves no such log.                     *)
LogIsNeverGarbled ==
  LET damages == shorts + (IF exit_code = Killed THEN 1 ELSE 0)
      loaded == load_binary_file(logger.file)
  IN  /\ pc = "exit"
      /\ damages <= 1
      /\ shorts = 1 => StartsWithMagic(logger.file)
      /\ Loads(logger.file)
      =>
        \E picked \in [1 .. Len(loaded) -> 1 .. Len(logged)] :
          /\ \A i, j \in DOMAIN picked : i < j => picked[i] < picked[j]
          /\ \A i \in DOMAIN picked : loaded[i] = encode_log_entry(logged[picked[i]])

=============================================================================
