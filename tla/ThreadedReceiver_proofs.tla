------------------------ MODULE ThreadedReceiver_proofs ------------------------
(***************************************************************************)
(* ThreadedReceiver for every ring size, batch size, packet limit and      *)
(* number of datagrams: no data race, processing in order, a complete      *)
(* drain, a report that balances, a conservative queue depth and an exact  *)
(* packet limit; and that it implements ReceiverContract: although two     *)
(* threads share the work, the harness may take it for one loop.           *)
(***************************************************************************)
EXTENDS ThreadedReceiver, SPSCQueue_proofs, SequenceTheorems

(* What the program counters of the two threads imply. *)
ThreadInv ==
  /\ rxpc \in {"write", "commit"} => Allocated
  /\ rxpc \in {"alloc", "write", "commit"} => packet \in Item /\ remaining > 0
  /\ rxpc \in {"setup", "loop", "recv", "left", "depth", "publish", "join"} => remaining = 0
  /\ wpc \in {"process", "pop"} => ReadIsOrdered
  /\ wpc \in {"front", "process", "pop"} => draining \/ polled < BatchSize
  /\ wpc = "none" => rxpc \in {"setup", "exit"} /\ commits = 0
  /\ rxpc = "setup" => wpc = "none"
  /\ producer_done => rxpc \in {"join", "exit"}
  /\ draining => producer_done /\ headSeen = commits /\ wpc # "while"
  /\ wpc = "exit" => draining /\ pops = commits
  /\ rxpc = "exit" => wpc \in {"none", "exit"}
  /\ exit_code = 0 => wpc = "exit"

(* Where each packet that was pushed is. *)
DataInv ==
  /\ Len(accepted) = commits
  /\ \A i \in Nat : pops <= i /\ i < commits => buffer[Mask(i)] = accepted[i + 1]
  /\ rxpc = "commit" => buffer[head] = packet
  /\ Len(processed) = IF wpc = "pop" THEN pops + 1 ELSE pops
  /\ \A i \in 1 .. Len(processed) : processed[i] = accepted[i]

(* What has been counted. *)
CountInv ==
  /\ stats["valid"] = Len(accepted) + stats["spsc_overflow"] + InPush
  /\ stats["datagrams_received"] =
       stats["short"] + stats["invalid_magic"]
         + stats["unsupported_version"] + stats["valid"]
  /\ stats["datagrams_received"] + remaining <= MaxDatagrams + InPush

(* PacketLimit made inductive. *)
LimitInv ==
  /\ rxpc = "recv" => MaxPackets = 0 \/ stats["datagrams_received"] < MaxPackets
  /\ PacketLimit

Inv == TypeOK /\ QueueInv /\ ThreadInv /\ DataInv /\ CountInv

USE DEF queueVars, rxVars, workerVars, vars

LEMMA InitInv == Init => Inv
<1> SUFFICES ASSUME Init PROVE Inv
  OBVIOUS
<1>1. QueueInv
  BY QueueInitInv DEF Init
<1>2. /\ accepted \in Seq(Item) /\ Len(accepted) = 0 
      /\ processed \in Seq(Item) /\ Len(processed) = 0
      /\ log \in Seq(Nat)
      /\ pops = 0 /\ commits = 0
  BY DEF Init, QueueInit
<1>3. TypeOK
  <2>1. QueueTypeOK
    BY <1>1 DEF QueueInv
  <2>2. remaining \in 0 .. BatchSize /\ polled \in 0 .. BatchSize
    BY ReceiverAssumption DEF Init
  <2>3. queue_depth \in 0 .. usable_capacity
    BY CapacityAssumption DEF Init, usable_capacity
  <2>4. stats \in [Counter -> Nat]
    BY DEF Init
  <2>5. /\ interrupted \in BOOLEAN /\ draining \in BOOLEAN
        /\ stop_requested \in BOOLEAN /\ producer_done \in BOOLEAN
    BY DEF Init
  <2>6. packet \in Item \union {NoItem}
    BY DEF Init
  <2> QED
    BY <1>2, <2>1, <2>2, <2>3, <2>4, <2>5, <2>6 DEF Init, TypeOK
<1>4. ThreadInv
  BY <1>2 DEF Init, ThreadInv, NotExited
<1>5. DataInv
  BY <1>2 DEF Init, DataInv
<1>6. CountInv
  BY <1>2, ReceiverAssumption DEF Init, CountInv, InPush, Counter
<1> QED
  BY <1>1, <1>3, <1>4, <1>5, <1>6 DEF Inv

-----------------------------------------------------------------------------
(* The environment.                                                        *)

LEMMA EnvironmentInv == ASSUME Inv, Environment PROVE Inv'
<1> USE DEF Inv
<1>1. CASE Sigint
  <2>1. UNCHANGED <<queueVars, rxVars, workerVars, producer_done, accepted>>
        /\ stop_requested' \in BOOLEAN
    BY <1>1 DEF Sigint
  <2> QED
    BY <2>1, SMTT(20) DEF TypeOK, QueueInv, QueueTypeOK, ThreadInv, DataInv, CountInv, InPush,
                Allocated, ReadIsOrdered
<1>2. ASSUME NEW n \in 1 .. MaxDatagrams, RxReceive(n) PROVE Inv'
  <2>1. n \in 0 .. BatchSize /\ n > 0
    <3>1. stats["datagrams_received"] \in Nat
      BY DEF TypeOK, Counter
    <3>2. RecvCount \in Int /\ RecvCount <= BatchSize
      BY <3>1, ReceiverAssumption DEF RecvCount
    <3>3. n \in 1 .. RecvCount
      BY <1>2 DEF RxReceive
    <3> QED
      BY <3>2, <3>3, ReceiverAssumption
  <2>2. TypeOK' /\ QueueInv'
    BY <1>2, <2>1 DEF RxReceive, TypeOK, QueueInv, QueueTypeOK
  <2>3. ThreadInv'
    BY <1>2, <2>1 DEF RxReceive, ThreadInv, ReadIsOrdered
  <2>4. DataInv'
    BY <1>2 DEF RxReceive, DataInv
  <2>5. CountInv'
    BY <1>2, ReceiverAssumption DEF RxReceive, CountInv, InPush
  <2> QED
    BY <2>2, <2>3, <2>4, <2>5
<1>3. CASE RxError
  <2>0. stats' \in [Counter -> Nat]
    <3>1. "socket_errors" \in Counter
      BY DEF Counter
    <3> QED
      BY <1>3, <3>1 DEF RxError, TypeOK
  <2>1. TypeOK' /\ QueueInv'
    BY <1>3, <2>0 DEF RxError, TypeOK, QueueInv, QueueTypeOK
  <2>2. ThreadInv'
    BY <1>3 DEF RxError, ThreadInv, ReadIsOrdered
  <2>3. DataInv'
    BY <1>3 DEF RxError, DataInv
  <2>4. CountInv'
    BY <1>3 DEF RxError, CountInv, InPush, TypeOK, Counter
  <2> QED
    BY <2>1, <2>2, <2>3, <2>4
<1> QED
  BY <1>1, <1>2, <1>3 DEF Environment

-----------------------------------------------------------------------------
(* The receive thread.                                                     *)

(* Steps that change neither the queue nor a counter. *)
LEMMA RxControlInv ==
  ASSUME Inv,
         \/ \E code \in {1, 2} : RxSetupFails(code)
         \/ RxStart
         \/ RxLoop
         \/ RxTimeout
         \/ RxBatchEnd
         \/ RxInterrupted
         \/ RxPublishDone
         \/ \E ok \in BOOLEAN : RxJoinAndReport(ok)
  PROVE  Inv'
<1> USE DEF Inv
<1>1. /\ UNCHANGED <<queueVars, remaining, packet, stats, queue_depth, polled, draining,
                     processed, log, stop_requested, accepted>>
      /\ rxpc' \notin {"alloc", "write", "commit"}
      /\ rxpc \notin {"alloc", "write", "commit"}
  BY DEF RxSetupFails, RxStart, RxLoop, RxTimeout, RxBatchEnd, RxInterrupted,
         RxPublishDone, RxJoinAndReport
<1>2. QueueInv'
  BY <1>1 DEF QueueInv, QueueTypeOK
<1>3. DataInv'
  <2>1. wpc' = "pop" <=> wpc = "pop"
    BY DEF RxSetupFails, RxStart, RxLoop, RxTimeout, RxBatchEnd, RxInterrupted,
           RxPublishDone, RxJoinAndReport, ThreadInv
  <2> QED
    BY <1>1, <2>1 DEF DataInv
<1>4. CountInv'
  BY <1>1 DEF CountInv, InPush
<1>5. TypeOK'
  <2>1. /\ rxpc' \in {"setup", "loop", "recv", "batch", "alloc", "write", "commit",
                      "left", "depth", "publish", "join", "exit"}
        /\ wpc' \in {"none", "while", "front", "process", "pop", "exit"}
        /\ exit_code' \in {NotExited, 0, 1, 2}
    BY DEF RxSetupFails, RxStart, RxLoop, RxTimeout, RxBatchEnd, RxInterrupted,
           RxPublishDone, RxJoinAndReport, TypeOK
  <2>2. interrupted' \in BOOLEAN /\ producer_done' \in BOOLEAN
    BY DEF RxSetupFails, RxStart, RxLoop, RxTimeout, RxBatchEnd, RxInterrupted,
           RxPublishDone, RxJoinAndReport, TypeOK
  <2> QED
    BY <1>1, <2>1, <2>2 DEF TypeOK, QueueTypeOK
<1>6. ThreadInv'
  <2> USE <1>1 DEF ThreadInv, ReadIsOrdered
  <2>1. ASSUME NEW code \in {1, 2}, RxSetupFails(code) PROVE ThreadInv'
    BY <2>1 DEF RxSetupFails
  <2>2. CASE RxStart
    BY <2>2 DEF RxStart
  <2>3. CASE RxLoop
    BY <2>3 DEF RxLoop
  <2>4. CASE RxTimeout
    BY <2>4 DEF RxTimeout
  <2>5. CASE RxBatchEnd
    BY <2>5 DEF RxBatchEnd
  <2>6. CASE RxInterrupted
    BY <2>6 DEF RxInterrupted
  <2>7. CASE RxPublishDone
    BY <2>7 DEF RxPublishDone
  <2>8. ASSUME NEW ok \in BOOLEAN, RxJoinAndReport(ok) PROVE ThreadInv'
    BY <2>8 DEF RxJoinAndReport
  <2> QED
    BY <2>1, <2>2, <2>3, <2>4, <2>5, <2>6, <2>7, <2>8
<1> QED
  BY <1>2, <1>3, <1>4, <1>5, <1>6

(* One datagram of the batch. *)
LEMMA RxDatagramInv ==
  ASSUME Inv, NEW d \in Datagram, RxDatagram(d)
  PROVE  Inv'
<1> USE DEF Inv
<1>1. /\ rxpc = "batch" /\ remaining \in Nat /\ remaining > 0
      /\ UNCHANGED <<queueVars, interrupted, queue_depth, exit_code, workerVars,
                     stop_requested, producer_done, accepted>>
  BY DEF RxDatagram, TypeOK
<1>2. /\ d.kind \in Kind
      /\ Kind \subseteq Counter
  BY DEF Datagram, Kind, Counter
<1>3. /\ stats' \in [Counter -> Nat]
      /\ \A c \in Counter : stats'[c] = IF c \in Counted(d) THEN stats[c] + 1 ELSE stats[c]
  BY DEF RxDatagram, TypeOK
<1>4. /\ "datagrams_received" \in Counted(d)
      /\ \A k \in Kind : k \in Counted(d) <=> k = d.kind
      /\ "spsc_overflow" \notin Counted(d)
  BY <1>2 DEF Counted, Kind
<1>5. /\ stats'["datagrams_received"] = stats["datagrams_received"] + 1
      /\ stats'["spsc_overflow"] = stats["spsc_overflow"]
      /\ \A k \in Kind : stats'[k] = IF k = d.kind THEN stats[k] + 1 ELSE stats[k]
  BY <1>2, <1>3, <1>4 DEF Counter
<1>6. \A c \in Counter : stats[c] \in Nat
  BY DEF TypeOK
<1>7. /\ stats["valid"] \in Nat /\ stats["short"] \in Nat
      /\ stats["invalid_magic"] \in Nat /\ stats["unsupported_version"] \in Nat
      /\ stats["spsc_overflow"] \in Nat /\ stats["datagrams_received"] \in Nat
      /\ MaxDatagrams \in Nat /\ Len(accepted) \in Nat
  BY <1>6, ReceiverAssumption DEF Counter, TypeOK
<1>a. InPush = 0
  BY <1>1 DEF InPush
<1>b. /\ stats["valid"] = Len(accepted) + stats["spsc_overflow"]
      /\ stats["datagrams_received"] =
           stats["short"] + stats["invalid_magic"]
             + stats["unsupported_version"] + stats["valid"]
      /\ stats["datagrams_received"] + remaining <= MaxDatagrams
  BY <1>7, <1>a, <1>1 DEF CountInv
<1>c. stats["valid"] \in 0 .. MaxDatagrams
  <2>1. remaining \in Nat
    BY <1>1
  <2>2. stats["datagrams_received"] <= MaxDatagrams
    BY <2>1, <1>7, <1>b
  <2>3. stats["valid"] <= stats["datagrams_received"]
    BY <1>7, <1>b, SMTT(20)
  <2> QED
    BY <2>2, <2>3, <1>7
<1>d. accepted' = accepted
  BY <1>1
<1>8. CASE d.kind = "valid"
  <2>1. /\ packet' = [seq |-> stats["valid"], sampled |-> Sampled(stats["valid"])]
        /\ rxpc' = "alloc"
        /\ remaining' = remaining
    BY <1>8 DEF RxDatagram
  <2>2. packet' \in Item
    <3>1. Sampled(stats["valid"]) \in BOOLEAN
      BY DEF Sampled
    <3> QED
      BY <2>1, <3>1, <1>c, ReceiverAssumption
  <2>3. /\ stats'["valid"] = stats["valid"] + 1
        /\ stats'["short"] = stats["short"]
        /\ stats'["invalid_magic"] = stats["invalid_magic"]
        /\ stats'["unsupported_version"] = stats["unsupported_version"]
    BY <1>5, <1>8 DEF Kind
  <2>4. TypeOK'
    BY <1>1, <1>3, <2>1, <2>2 DEF TypeOK, QueueTypeOK
  <2>5. QueueInv'
    BY <1>1 DEF QueueInv, QueueTypeOK
  <2>6. ThreadInv'
    BY <1>1, <2>1, <2>2 DEF ThreadInv, ReadIsOrdered
  <2>7. DataInv'
    BY <1>1, <2>1 DEF DataInv
  <2>8. CountInv'
    <3>1. InPush' = 1
      BY <2>1 DEF InPush
    <3>2. stats'["valid"] = Len(accepted') + stats'["spsc_overflow"] + InPush'
      BY <1>5, <1>7, <1>b, <1>d, <2>3, <3>1
    <3>3. stats'["datagrams_received"] =
            stats'["short"] + stats'["invalid_magic"]
              + stats'["unsupported_version"] + stats'["valid"]
      BY <1>5, <1>7, <1>b, <2>3, SMTT(20)
    <3>4. stats'["datagrams_received"] + remaining' <= MaxDatagrams + InPush'
      BY <1>1, <1>5, <1>7, <1>b, <2>1, <3>1
    <3> QED
      BY <3>2, <3>3, <3>4 DEF CountInv
  <2> QED
    BY <2>4, <2>5, <2>6, <2>7, <2>8
<1>9. CASE d.kind # "valid"
  <2>1. packet' = packet /\ rxpc' = rxpc /\ remaining' = remaining - 1
    BY <1>9 DEF RxDatagram
  <2>2. /\ stats'["valid"] = stats["valid"]
        /\ stats'["short"] + stats'["invalid_magic"] + stats'["unsupported_version"]
             = stats["short"] + stats["invalid_magic"] + stats["unsupported_version"] + 1
    BY <1>2, <1>5, <1>6, <1>9 DEF Kind, Counter
  <2>3. remaining' \in 0 .. BatchSize
    BY <1>1, <2>1, ReceiverAssumption DEF TypeOK
  <2>4. TypeOK'
    BY <1>1, <1>3, <2>1, <2>3 DEF TypeOK, QueueTypeOK
  <2>5. QueueInv'
    BY <1>1 DEF QueueInv, QueueTypeOK
  <2>6. ThreadInv'
    BY <1>1, <2>1 DEF ThreadInv, ReadIsOrdered
  <2>7. DataInv'
    BY <1>1, <2>1 DEF DataInv
  <2>8. CountInv'
    <3>1. InPush' = 0
      BY <1>1, <2>1 DEF InPush
    <3>2. stats'["valid"] = Len(accepted') + stats'["spsc_overflow"] + InPush'
      BY <1>5, <1>7, <1>b, <1>d, <2>2, <3>1
    <3>3. stats'["datagrams_received"] =
            stats'["short"] + stats'["invalid_magic"]
              + stats'["unsupported_version"] + stats'["valid"]
      BY <1>5, <1>7, <1>b, <2>2
    <3>4. stats'["datagrams_received"] + remaining' <= MaxDatagrams + InPush'
      BY <1>1, <1>5, <1>7, <1>b, <2>1, <3>1
    <3> QED
      BY <3>2, <3>3, <3>4 DEF CountInv
  <2> QED
    BY <2>4, <2>5, <2>6, <2>7, <2>8
<1> QED
  BY <1>8, <1>9

(* The push, step by step, and the depth. *)
LEMMA RxAllocInv ==
  ASSUME Inv, NEW n \in tailSeen .. pops, RxAlloc(n)
  PROVE  Inv'
<1> USE DEF Inv
<1>1. QueueInv' /\ Allocated'
  BY TryAllocInv DEF RxAlloc
<1>2. /\ UNCHANGED <<head, tail, buffer, commits, pops, headSeen>>
      /\ UNCHANGED <<remaining, packet, stats, interrupted, queue_depth, exit_code,
                     workerVars, stop_requested, producer_done, accepted>>
      /\ rxpc = "alloc" /\ rxpc' = "write"
  BY DEF RxAlloc, TryAlloc
<1>3. TypeOK'
  BY <1>1, <1>2 DEF TypeOK, QueueInv
<1>4. ThreadInv'
  BY <1>1, <1>2 DEF ThreadInv, ReadIsOrdered
<1>5. DataInv'
  BY <1>2 DEF DataInv
<1>6. CountInv'
  BY <1>2 DEF CountInv, InPush
<1> QED
  BY <1>1, <1>3, <1>4, <1>5, <1>6

LEMMA RxOverflowInv ==
  ASSUME Inv, NEW n \in tailSeen .. pops, RxOverflow(n)
  PROVE  Inv'
<1> USE DEF Inv
<1>1. QueueInv'
  BY TryAllocFullInv DEF RxOverflow
<1>2. /\ UNCHANGED <<head, tail, buffer, commits, pops, headSeen>>
      /\ UNCHANGED <<packet, interrupted, queue_depth, exit_code, workerVars,
                     stop_requested, producer_done, accepted>>
      /\ rxpc = "alloc" /\ rxpc' = "batch"
      /\ remaining' = remaining - 1
      /\ stats' = [stats EXCEPT !["spsc_overflow"] = @ + 1]
  BY DEF RxOverflow, TryAllocFull
<1>3. remaining \in 1 .. BatchSize /\ remaining' \in 0 .. BatchSize
  BY <1>2, ReceiverAssumption DEF TypeOK, ThreadInv
<1>4. /\ stats' \in [Counter -> Nat]
      /\ stats'["spsc_overflow"] = stats["spsc_overflow"] + 1
      /\ \A c \in Counter \ {"spsc_overflow"} : stats'[c] = stats[c]
  <2>1. "spsc_overflow" \in Counter
    BY DEF Counter
  <2> QED
    BY <1>2, <2>1 DEF TypeOK
<1>5. TypeOK'
  BY <1>1, <1>2, <1>3, <1>4 DEF TypeOK, QueueInv
<1>6. ThreadInv'
  BY <1>2 DEF ThreadInv, ReadIsOrdered
<1>7. DataInv'
  BY <1>2 DEF DataInv
<1>8. CountInv'
  <2>1. InPush = 1 /\ InPush' = 0
    BY <1>2 DEF InPush
  <2>2. /\ stats'["valid"] = stats["valid"]
        /\ stats'["datagrams_received"] = stats["datagrams_received"]
        /\ stats'["short"] = stats["short"]
        /\ stats'["invalid_magic"] = stats["invalid_magic"]
        /\ stats'["unsupported_version"] = stats["unsupported_version"]
    BY <1>4 DEF Counter
  <2>3. /\ stats["datagrams_received"] \in Nat /\ stats["spsc_overflow"] \in Nat
        /\ Len(accepted) \in Nat /\ accepted' = accepted
    BY <1>2 DEF TypeOK, Counter
  <2>4. stats'["valid"] = Len(accepted') + stats'["spsc_overflow"] + InPush'
    BY <1>4, <2>1, <2>2, <2>3 DEF CountInv
  <2>5. stats'["datagrams_received"] + remaining' <= MaxDatagrams + InPush'
    BY <1>2, <1>3, <2>1, <2>2, <2>3, ReceiverAssumption DEF CountInv
  <2> QED
    BY <2>2, <2>4, <2>5 DEF CountInv
<1> QED
  BY <1>1, <1>5, <1>6, <1>7, <1>8

LEMMA RxWriteInv == ASSUME Inv, RxWrite PROVE Inv'
<1> USE DEF Inv
<1>1. packet \in Item /\ WriteSlot(packet) /\ Allocated
  BY DEF RxWrite, ThreadInv
<1>2. QueueInv' /\ buffer'[head] = packet
  BY <1>1, WriteSlotInv
<1>3. /\ UNCHANGED <<head, tail, commits, pops, tailSeen, headSeen>>
      /\ UNCHANGED <<remaining, packet, stats, interrupted, queue_depth, exit_code,
                     workerVars, stop_requested, producer_done, accepted>>
      /\ rxpc = "write" /\ rxpc' = "commit"
  BY DEF RxWrite, WriteSlot
<1>4. \A i \in Nat : pops <= i /\ i < commits => buffer'[Mask(i)] = accepted[i + 1]
  BY <1>1, WriteSlotKeepsItems DEF DataInv
<1>5. TypeOK'
  BY <1>2, <1>3 DEF TypeOK, QueueInv
<1>6. ThreadInv'
  BY <1>1, <1>3 DEF ThreadInv, ReadIsOrdered, Allocated
<1>7. DataInv'
  BY <1>2, <1>3, <1>4 DEF DataInv
<1>8. CountInv'
  BY <1>3 DEF CountInv, InPush
<1> QED
  BY <1>2, <1>5, <1>6, <1>7, <1>8

LEMMA RxCommitInv == ASSUME Inv, RxCommit PROVE Inv'
<1> USE DEF Inv
<1>1. /\ UNCHANGED <<tail, buffer, pops, tailSeen, headSeen>>
      /\ UNCHANGED <<packet, stats, interrupted, queue_depth, exit_code, workerVars,
                     stop_requested, producer_done>>
      /\ rxpc = "commit" /\ rxpc' = "batch"
      /\ commits' = commits + 1
      /\ remaining' = remaining - 1
      /\ accepted' = Append(accepted, packet)
  BY DEF RxCommit, Commit
<1>2. QueueInv'
  BY CommitInv, <1>1 DEF RxCommit, ThreadInv
<1>3. remaining \in 1 .. BatchSize /\ remaining' \in 0 .. BatchSize
  BY <1>1, ReceiverAssumption DEF TypeOK, ThreadInv
<1>4. packet \in Item
  BY <1>1 DEF ThreadInv
<1>5. /\ accepted \in Seq(Item) /\ accepted' \in Seq(Item)
      /\ Len(accepted) = commits
      /\ Len(accepted') = commits + 1
      /\ accepted'[commits + 1] = packet
      /\ \A i \in 1 .. commits : accepted'[i] = accepted[i]
  BY <1>1, <1>4 DEF TypeOK, DataInv
<1>6. /\ commits \in Nat /\ pops \in Nat /\ pops <= commits /\ head = Mask(commits)
      /\ headSeen \in Nat /\ pops <= headSeen /\ headSeen <= commits
  BY DEF QueueInv, QueueTypeOK
<1>7. TypeOK'
  BY <1>1, <1>2, <1>3, <1>5 DEF TypeOK, QueueInv
<1>8. ThreadInv'
  <2>1. ~producer_done /\ wpc # "none" /\ ~draining /\ wpc # "exit" /\ exit_code # 0
    BY <1>1 DEF ThreadInv
  <2> QED
    BY <1>1, <2>1 DEF ThreadInv, ReadIsOrdered
<1>9. DataInv'
  <2>1. ASSUME NEW i \in Nat, pops <= i, i < commits + 1
        PROVE  buffer'[Mask(i)] = accepted'[i + 1]
    <3>1. CASE i < commits
      BY <1>1, <1>5, <1>6, <2>1, <3>1 DEF DataInv
    <3>2. CASE i = commits
      BY <1>1, <1>5, <1>6, <3>2 DEF DataInv
    <3> QED
      BY <1>6, <2>1, <3>1, <3>2
  <2>2. ASSUME NEW i \in 1 .. Len(processed) PROVE processed[i] = accepted'[i]
    <3>1. Len(processed) <= commits
      BY <1>6 DEF DataInv, ThreadInv, ReadIsOrdered
    <3>2. i \in 1 .. commits
      BY <3>1, <1>6 DEF TypeOK
    <3> QED
      BY <3>2, <1>5 DEF DataInv
  <2> QED
    BY <1>1, <1>5, <2>1, <2>2 DEF DataInv
<1>10. CountInv'
  <2>1. InPush = 1 /\ InPush' = 0
    BY <1>1 DEF InPush
  <2>2. /\ stats["datagrams_received"] \in Nat /\ stats["spsc_overflow"] \in Nat
        /\ stats' = stats
    BY <1>1 DEF TypeOK, Counter
  <2>3. stats'["valid"] = Len(accepted') + stats'["spsc_overflow"] + InPush'
    BY <1>5, <1>6, <2>1, <2>2 DEF CountInv
  <2>4. stats'["datagrams_received"] + remaining' <= MaxDatagrams + InPush'
    BY <1>1, <1>3, <2>1, <2>2, ReceiverAssumption DEF CountInv
  <2> QED
    BY <2>2, <2>3, <2>4 DEF CountInv
<1> QED
  BY <1>2, <1>7, <1>8, <1>9, <1>10

(* queue.size() at shutdown. *)
LEMMA RxDepthInv ==
  ASSUME Inv, NEW n \in tailSeen .. pops, RxDepth(n)
  PROVE  Inv' /\ queue_depth' = commits - n
<1> USE DEF Inv
<1>1. /\ UNCHANGED <<head, tail, buffer, commits, pops, headSeen, remaining, packet,
                     stats, interrupted, exit_code, workerVars, stop_requested,
                     producer_done, accepted>>
      /\ tailSeen' = n
      /\ rxpc = "depth" /\ rxpc' = "publish"
  BY DEF RxDepth, LoadTail
<1>2. queue_depth' = commits - n /\ queue_depth' \in 0 .. usable_capacity
  BY SizeSeenIsDistance DEF RxDepth
<1>3. QueueInv'
  BY <1>1, CapacityAssumption DEF QueueInv, QueueTypeOK
<1>4. TypeOK'
  BY <1>1, <1>2, <1>3 DEF TypeOK, QueueInv
<1>5. ThreadInv'
  BY <1>1 DEF ThreadInv, ReadIsOrdered
<1>6. DataInv'
  BY <1>1 DEF DataInv
<1>7. CountInv'
  BY <1>1 DEF CountInv, InPush
<1> QED
  BY <1>2, <1>3, <1>4, <1>5, <1>6, <1>7

-----------------------------------------------------------------------------
(* The worker.                                                             *)

LEMMA WorkerPollsInv == ASSUME Inv, WorkerPolls PROVE Inv'
<1> USE DEF Inv
<1>1. /\ UNCHANGED <<queueVars, rxVars, draining, processed, log, stop_requested,
                     producer_done, accepted>>
      /\ wpc = "while" /\ wpc' = "front" /\ polled' = 0
  BY DEF WorkerPolls
<1>2. QueueInv'
  BY <1>1 DEF QueueInv, QueueTypeOK
<1>3. TypeOK'
  BY <1>1, <1>2, ReceiverAssumption DEF TypeOK, QueueInv
<1>4. ThreadInv'
  BY <1>1, ReceiverAssumption DEF ThreadInv, Allocated
<1>5. DataInv'
  BY <1>1 DEF DataInv
<1>6. CountInv'
  BY <1>1 DEF CountInv, InPush
<1> QED
  BY <1>2, <1>3, <1>4, <1>5, <1>6

(* Seeing producer_done, the worker sees every push. *)
LEMMA WorkerSeesDoneInv == ASSUME Inv, WorkerSeesDone PROVE Inv'
<1> USE DEF Inv
<1>1. /\ UNCHANGED <<head, tail, buffer, commits, pops, tailSeen>>
      /\ UNCHANGED <<rxVars, polled, processed, log, stop_requested, producer_done,
                     accepted>>
      /\ wpc = "while" /\ wpc' = "front" /\ draining' = TRUE /\ producer_done
  BY DEF WorkerSeesDone, ConsumerSyncsWithProducer
<1>2. QueueInv' /\ headSeen' = commits'
  BY SyncInv DEF WorkerSeesDone
<1>3. TypeOK'
  BY <1>1, <1>2 DEF TypeOK, QueueInv
<1>4. ThreadInv'
  BY <1>1, <1>2 DEF ThreadInv, Allocated
<1>5. DataInv'
  BY <1>1 DEF DataInv
<1>6. CountInv'
  BY <1>1 DEF CountInv, InPush
<1> QED
  BY <1>2, <1>3, <1>4, <1>5, <1>6

(* An empty queue ends the drain only when nothing is left to see. *)
LEMMA WorkerFrontInv ==
  ASSUME Inv, NEW n \in headSeen .. commits, WorkerFront(n)
  PROVE  Inv'
<1> USE DEF Inv
<1>1. /\ UNCHANGED <<head, tail, buffer, commits, pops, tailSeen>>
      /\ UNCHANGED <<rxVars, polled, draining, processed, log, stop_requested,
                     producer_done, accepted>>
      /\ wpc = "front" /\ headSeen' = n
  BY DEF WorkerFront, Front, FrontEmpty, LoadHead
<1>2. /\ headSeen \in Nat /\ commits \in Nat /\ pops \in Nat
      /\ n \in Nat /\ headSeen <= n /\ n <= commits
  BY DEF QueueInv, QueueTypeOK
<1>3. draining => headSeen' = commits
  BY <1>1, <1>2 DEF ThreadInv
<1>4. CASE Front(n) /\ wpc' = "process"
  <2>1. QueueInv' /\ ReadIsOrdered'
    BY <1>4, FrontInv
  <2>2. TypeOK'
    BY <1>1, <1>4, <2>1 DEF TypeOK, QueueInv
  <2>3. ThreadInv'
    BY <1>1, <1>3, <1>4, <2>1 DEF ThreadInv, Allocated
  <2>4. DataInv'
    BY <1>1, <1>4 DEF DataInv
  <2>5. CountInv'
    BY <1>1 DEF CountInv, InPush
  <2> QED
    BY <2>1, <2>2, <2>3, <2>4, <2>5
<1>5. CASE FrontEmpty(n) /\ wpc' = IF draining THEN "exit" ELSE "while"
  <2>1. QueueInv' /\ headSeen' = pops
    BY <1>5, FrontEmptyInv
  <2>2. wpc' \in {"exit", "while"} /\ (wpc' = "exit" <=> draining)
    BY <1>5
  <2>3. TypeOK'
    BY <1>1, <2>1, <2>2 DEF TypeOK, QueueInv
  <2>4. wpc' = "exit" => pops' = commits'
    BY <1>1, <1>3, <2>1, <2>2
  <2>5. ThreadInv'
    BY <1>1, <1>3, <2>2, <2>4 DEF ThreadInv, Allocated
  <2>6. DataInv'
    BY <1>1, <2>2 DEF DataInv
  <2>7. CountInv'
    BY <1>1 DEF CountInv, InPush
  <2> QED
    BY <2>1, <2>3, <2>5, <2>6, <2>7
<1> QED
  BY <1>4, <1>5 DEF WorkerFront

(* The packet read is the one pushed at that position. *)
LEMMA WorkerProcessInv == ASSUME Inv, WorkerProcess PROVE Inv'
<1> USE DEF Inv
<1>1. /\ UNCHANGED <<queueVars, rxVars, polled, draining, stop_requested,
                     producer_done, accepted>>
      /\ wpc = "process" /\ wpc' = "pop"
      /\ processed' = Append(processed, FrontItem)
      /\ log' = log \o Logged(FrontItem)
  BY DEF WorkerProcess
<1>2. /\ commits \in Nat /\ pops \in Nat /\ pops < commits /\ tail = Mask(pops)
  BY <1>1 DEF QueueInv, QueueTypeOK, ThreadInv, ReadIsOrdered
<1>3. accepted \in Seq(Item) /\ Len(accepted) = commits
  BY DEF TypeOK, DataInv
<1>4. FrontItem = accepted[pops + 1] /\ FrontItem \in Item
  BY <1>2, <1>3 DEF DataInv, FrontItem
<1>5. /\ processed \in Seq(Item) /\ Len(processed) = pops
      /\ processed' \in Seq(Item) /\ Len(processed') = pops + 1
      /\ processed'[pops + 1] = FrontItem
      /\ \A i \in 1 .. pops : processed'[i] = processed[i]
  BY <1>1, <1>2, <1>4 DEF TypeOK, DataInv
<1>6. log' \in Seq(Nat)
  <2>1. Logged(FrontItem) \in Seq(Nat)
    <3>1. FrontItem.seq \in Nat
      BY <1>4, ReceiverAssumption
    <3> QED
      BY <3>1 DEF Logged
  <2> QED
    BY <1>1, <2>1 DEF TypeOK
<1>7. QueueInv'
  BY <1>1 DEF QueueInv, QueueTypeOK
<1>8. TypeOK'
  BY <1>1, <1>5, <1>6, <1>7 DEF TypeOK, QueueInv
<1>9. ThreadInv'
  BY <1>1 DEF ThreadInv, Allocated, ReadIsOrdered
<1>10. DataInv'
  <2>1. ASSUME NEW i \in 1 .. pops + 1 PROVE processed'[i] = accepted[i]
    <3>1. CASE i = pops + 1
      BY <3>1, <1>4, <1>5
    <3>2. CASE i \in 1 .. pops
      BY <3>2, <1>5 DEF DataInv
    <3> QED
      BY <1>2, <3>1, <3>2
  <2> QED
    BY <1>1, <1>5, <2>1 DEF DataInv
<1>11. CountInv'
  BY <1>1 DEF CountInv, InPush
<1> QED
  BY <1>7, <1>8, <1>9, <1>10, <1>11

LEMMA WorkerPopInv == ASSUME Inv, WorkerPop PROVE Inv'
<1> USE DEF Inv
<1>1. /\ UNCHANGED <<head, buffer, commits, tailSeen, headSeen>>
      /\ UNCHANGED <<rxVars, draining, processed, log, stop_requested,
                     producer_done, accepted>>
      /\ wpc = "pop" /\ pops' = pops + 1
      /\ polled' = IF draining THEN polled ELSE polled + 1
      /\ wpc' = IF draining \/ polled' < BatchSize THEN "front" ELSE "while"
  BY DEF WorkerPop, Pop
<1>2. QueueInv'
  BY <1>1, PopInv DEF WorkerPop, ThreadInv
<1>3. polled' \in 0 .. BatchSize
  BY <1>1, ReceiverAssumption DEF TypeOK, ThreadInv
<1>4. /\ wpc' \in {"front", "while"}
      /\ wpc' = "front" => draining \/ polled' < BatchSize
      /\ draining => wpc' # "while"
  BY <1>1
<1>5. pops \in Nat
  BY DEF QueueInv, QueueTypeOK
<1>6. TypeOK'
  BY <1>1, <1>2, <1>3, <1>4 DEF TypeOK, QueueInv
<1>7. ThreadInv'
  BY <1>1, <1>4 DEF ThreadInv, Allocated
<1>8. DataInv'
  BY <1>1, <1>4, <1>5 DEF DataInv
<1>9. CountInv'
  BY <1>1 DEF CountInv, InPush
<1> QED
  BY <1>2, <1>6, <1>7, <1>8, <1>9

LEMMA StutterInv == ASSUME Inv, UNCHANGED vars PROVE Inv'
  BY SMTT(20) DEF Inv, TypeOK, QueueInv, QueueTypeOK, ThreadInv, DataInv, CountInv, InPush,
         Allocated, ReadIsOrdered

LEMMA NextInv == ASSUME Inv, [Next]_vars PROVE Inv'
<1>1. CASE Rx
  BY <1>1, RxControlInv, RxDatagramInv, RxAllocInv, RxOverflowInv, RxDepthInv,
     RxWriteInv, RxCommitInv DEF Rx
<1>2. CASE Worker
  BY <1>2, WorkerPollsInv, WorkerSeesDoneInv, WorkerFrontInv, WorkerProcessInv,
     WorkerPopInv DEF Worker
<1> QED
  BY <1>1, <1>2, EnvironmentInv, StutterInv DEF Next, Exited

(* Inv holds throughout: the two threads, the ring and the counters stay   *)
(* consistent, whatever old index or flag a thread acts on.                *)
THEOREM Invariance == Spec => []Inv
  BY InitInv, NextInv, PTL DEF Spec

-----------------------------------------------------------------------------
(* Every variable keeps its type; in particular queue_depth_at_shutdown is *)
(* at most usable_capacity and no index leaves the ring.                   *)
THEOREM TypeCorrect == Spec => []TypeOK
<1>1. Inv => TypeOK
  BY DEF Inv
<1> QED
  BY <1>1, Invariance, PTL

(* The receive thread's writes and the worker's reads of a slot never      *)
(* race, for every ring size.                                              *)
THEOREM RaceFreedom == Spec => []NoDataRace
<1>1. Inv => NoDataRace
  <2> SUFFICES ASSUME Inv PROVE NoDataRace
    OBVIOUS
  <2> USE CapacityAssumption DEF Inv, QueueInv, QueueTypeOK
  <2>1. rxpc = "write" => WriteIsOrdered
    BY DEF ThreadInv, Allocated, WriteIsOrdered
  <2>2. wpc \in {"process", "pop"} => ReadIsOrdered
    BY DEF ThreadInv
  <2>3. wpc \in {"process", "pop"} => head # tail
    <3>1. SUFFICES ASSUME ReadIsOrdered PROVE head # tail
      BY <2>2
    <3>2. pops < commits /\ commits < pops + Capacity
      BY <3>1 DEF ReadIsOrdered
    <3> QED
      BY <3>2, MaskDistinct
  <2> QED
    BY <2>1, <2>2, <2>3 DEF NoDataRace
<1> QED
  BY <1>1, Invariance, PTL

(* What was processed is a prefix of what was pushed. *)
LEMMA InvImpliesInOrder == Inv => ProcessedInOrder
<1> SUFFICES ASSUME Inv PROVE ProcessedInOrder
  OBVIOUS
<1> USE DEF Inv
<1>1. /\ commits \in Nat /\ pops \in Nat /\ headSeen \in Nat
      /\ pops <= headSeen /\ headSeen <= commits
  BY DEF QueueInv, QueueTypeOK
<1>2. Len(processed) <= Len(accepted)
  BY <1>1 DEF DataInv, ThreadInv, ReadIsOrdered
<1>3. processed \in Seq(Item) /\ accepted \in Seq(Item)
  BY DEF TypeOK
<1>4. processed = SubSeq(accepted, 1, Len(processed))
  <2> DEFINE s == SubSeq(accepted, 1, Len(processed))
  <2>1. s \in Seq(Item) /\ Len(s) = Len(processed)
    BY <1>2, <1>3
  <2>2. \A i \in 1 .. Len(processed) : s[i] = accepted[i]
    BY <1>2, <1>3
  <2>3. \A i \in 1 .. Len(processed) : processed[i] = s[i]
    BY <2>2 DEF DataInv
  <2> HIDE DEF s
  <2>4. processed = s
    BY <1>3, <2>1, <2>3, SeqEqual
  <2> QED
    BY <2>4 DEF s
<1> QED
  BY <1>2, <1>4 DEF ProcessedInOrder

(* The worker processes what was pushed, in that order, each packet at     *)
(* most once.                                                              *)
THEOREM InOrder == Spec => []ProcessedInOrder
  BY InvImpliesInOrder, Invariance, PTL

(* When the worker exits, it has processed every packet that was pushed.   *)
LEMMA InvImpliesDrained == Inv => DrainIsComplete
<1> SUFFICES ASSUME Inv, wpc = "exit" PROVE processed = accepted
  BY DEF DrainIsComplete
<1> USE DEF Inv
<1>1. processed \in Seq(Item) /\ accepted \in Seq(Item)
  BY DEF TypeOK
<1>2. Len(processed) = Len(accepted)
  BY DEF ThreadInv, DataInv
<1>3. \A i \in 1 .. Len(processed) : processed[i] = accepted[i]
  BY DEF DataInv
<1> QED
  BY <1>1, <1>2, <1>3, SeqEqual

(* The drain after producer_done is complete, whatever old value of head_  *)
(* the worker had seen before.                                             *)
THEOREM Drained == Spec => []DrainIsComplete
  BY InvImpliesDrained, Invariance, PTL

(* The report of a run that exits with 0 balances.                         *)
THEOREM Balanced == Spec => []ReportBalances
<1>1. Inv => ReportBalances
  <2> SUFFICES ASSUME Inv, Reported
               PROVE  Len(processed) + stats["spsc_overflow"] = stats["valid"]
    BY DEF ReportBalances, Inv, CountInv
  <2>1. processed = accepted
    BY InvImpliesDrained DEF Inv, Reported, ThreadInv, DrainIsComplete
  <2>2. InPush = 0
    BY DEF Reported, InPush
  <2>3. Len(accepted) \in Nat /\ stats["spsc_overflow"] \in Nat
    BY DEF Inv, TypeOK, Counter
  <2> QED
    BY <2>1, <2>2, <2>3 DEF Inv, CountInv
<1> QED
  BY <1>1, Invariance, PTL

-----------------------------------------------------------------------------
(* The depth read at shutdown.                                             *)

(* A step changes the depth reported only by reading it, and once it has   *)
(* been read only the worker's pops change what it is compared with.       *)
LEMMA DepthStep ==
  ASSUME Inv, DepthIsConservative, Next
  PROVE  DepthIsConservative'
<1> SUFFICES ASSUME rxpc' \in {"publish", "join", "exit"}
             PROVE  commits' - pops' <= queue_depth'
  BY DEF DepthIsConservative
<1>1. /\ commits \in Nat /\ pops \in Nat /\ queue_depth \in Nat
  BY CapacityAssumption DEF Inv, QueueInv, QueueTypeOK, TypeOK, usable_capacity
<1>2. CASE \E n \in tailSeen .. pops : RxDepth(n)
  <2>1. PICK n \in tailSeen .. pops : RxDepth(n)
    BY <1>2
  <2>2. queue_depth' = commits - n
    BY <2>1, RxDepthInv
  <2>3. commits' = commits /\ pops' = pops
    BY <2>1 DEF RxDepth
  <2>4. n \in Int /\ n <= pops
    BY <1>1 DEF Inv, QueueInv, QueueTypeOK
  <2> QED
    BY <1>1, <2>2, <2>3, <2>4
<1>3. CASE \E code \in {1, 2} : RxSetupFails(code)
  <2>1. rxpc = "setup" /\ UNCHANGED <<commits, pops, queue_depth>>
    BY <1>3 DEF RxSetupFails
  <2>2. commits = 0
    BY <2>1 DEF Inv, ThreadInv
  <2> QED
    BY <1>1, <2>1, <2>2
<1>4. CASE RxPublishDone \/ \E ok \in BOOLEAN : RxJoinAndReport(ok)
  BY <1>4 DEF RxPublishDone, RxJoinAndReport, DepthIsConservative
<1>5. CASE Worker
  <2>1. rxpc' = rxpc /\ queue_depth' = queue_depth /\ commits' = commits
    BY <1>5 DEF Worker, WorkerPolls, WorkerSeesDone, ConsumerSyncsWithProducer,
                WorkerFront, Front, FrontEmpty, WorkerProcess, WorkerPop, Pop
  <2>2. pops' = pops \/ pops' = pops + 1
    BY <1>5 DEF Worker, WorkerPolls, WorkerSeesDone, ConsumerSyncsWithProducer,
                WorkerFront, Front, FrontEmpty, WorkerProcess, WorkerPop, Pop
  <2> QED
    BY <1>1, <2>1, <2>2 DEF DepthIsConservative
<1>6. CASE Sigint \/ Exited
  BY <1>6 DEF Sigint, Exited, DepthIsConservative
<1>7. ASSUME \/ \E n \in 1 .. MaxDatagrams : RxReceive(n)
             \/ RxError
             \/ RxStart
             \/ RxLoop
             \/ RxTimeout
             \/ \E d \in Datagram : RxDatagram(d)
             \/ RxBatchEnd
             \/ \E n \in tailSeen .. pops : RxAlloc(n) \/ RxOverflow(n)
             \/ RxWrite
             \/ RxCommit
             \/ RxInterrupted
      PROVE  FALSE
  BY <1>7 DEF RxReceive, RxError, RxStart, RxLoop, RxTimeout, RxDatagram, RxBatchEnd,
              RxAlloc, RxOverflow, RxWrite, RxCommit, RxInterrupted
<1> QED
  BY <1>2, <1>3, <1>4, <1>5, <1>6, <1>7 DEF Next, Environment, Rx

(* queue_depth_at_shutdown never understates what the worker has left.     *)
THEOREM Depth == Spec => []DepthIsConservative
<1>1. Init => DepthIsConservative
  BY DEF Init, DepthIsConservative
<1>2. DepthIsConservative /\ UNCHANGED vars => DepthIsConservative'
  BY DEF DepthIsConservative
<1>3. Inv /\ DepthIsConservative /\ [Next]_vars => DepthIsConservative'
  BY <1>2, DepthStep
<1> QED
  BY <1>1, <1>3, Invariance, PTL DEF Spec

-----------------------------------------------------------------------------
(* The packet limit.                                                       *)

LEMMA LimitEnvironment ==
  ASSUME Inv, LimitInv, Environment
  PROVE  LimitInv'
<1> DEFINE dg == stats["datagrams_received"]
<1>1. /\ dg \in Nat /\ stats["socket_errors"] \in Nat /\ MaxPackets \in Nat
      /\ remaining \in Nat /\ BatchSize \in Nat
  BY ReceiverAssumption DEF Inv, TypeOK, Counter
<1>2. CASE Sigint
  BY <1>2 DEF Sigint, LimitInv, PacketLimit, InPush
<1>3. ASSUME NEW n \in 1 .. MaxDatagrams, RxReceive(n) PROVE LimitInv'
  <2>1. rxpc = "recv" /\ rxpc' = "batch" /\ remaining' = n /\ stats' = stats
        /\ n \in 1 .. RecvCount
    BY <1>3 DEF RxReceive
  <2>2. MaxPackets # 0 => dg + n <= MaxPackets
    BY <1>1, <2>1 DEF RecvCount, LimitInv
  <2>3. InPush' = 0
    BY <2>1 DEF InPush
  <2>4. MaxPackets # 0 => stats'["datagrams_received"] + remaining' <= MaxPackets + InPush'
    BY <1>1, <2>1, <2>2, <2>3
  <2> QED
    BY <2>1, <2>4 DEF LimitInv, PacketLimit
<1>4. CASE RxError
  <2>1. /\ rxpc = "recv" /\ rxpc' = "left" /\ remaining' = remaining
        /\ stats' = [stats EXCEPT !["socket_errors"] = @ + 1]
    BY <1>4 DEF RxError
  <2>2. /\ stats'["socket_errors"] = stats["socket_errors"] + 1
        /\ stats'["datagrams_received"] = dg
    BY <2>1 DEF Inv, TypeOK, Counter
  <2>3. stats'["socket_errors"] # 0
    BY <1>1, <2>2
  <2>4. InPush = 0 /\ InPush' = 0
    BY <2>1 DEF InPush
  <2> QED
    BY <2>1, <2>2, <2>3, <2>4 DEF LimitInv, PacketLimit
<1> QED
  BY <1>2, <1>3, <1>4 DEF Environment

(* The receive loop is left without SIGINT and without an error only at    *)
(* the limit.                                                              *)
LEMMA LimitLoop ==
  ASSUME Inv, LimitInv, RxLoop
  PROVE  LimitInv'
<1> DEFINE dg == stats["datagrams_received"]
<1>1. dg \in Nat /\ MaxPackets \in Nat
  BY ReceiverAssumption DEF Inv, TypeOK, Counter
<1>2. /\ rxpc = "loop" /\ UNCHANGED <<remaining, stats, stop_requested>>
      /\ rxpc' = IF KeepReceiving THEN "recv" ELSE "left"
  BY DEF RxLoop
<1>3. InPush = 0 /\ InPush' = 0
  BY <1>2 DEF InPush
<1>4. rxpc' = "recv" => MaxPackets = 0 \/ dg < MaxPackets
  BY <1>2 DEF KeepReceiving
<1>5. rxpc' = "left" /\ ~stop_requested => MaxPackets # 0 /\ dg = MaxPackets
  <2>1. SUFFICES ASSUME rxpc' = "left", ~stop_requested
                 PROVE  MaxPackets # 0 /\ dg = MaxPackets
    OBVIOUS
  <2>2. MaxPackets # 0 /\ ~(dg < MaxPackets)
    BY <1>2, <2>1 DEF KeepReceiving
  <2>3. remaining = 0
    BY <1>2 DEF Inv, ThreadInv
  <2>4. dg + remaining <= MaxPackets + InPush
    BY <2>2 DEF LimitInv, PacketLimit
  <2> QED
    BY <1>1, <1>3, <2>2, <2>3, <2>4
<1> QED
  BY <1>2, <1>3, <1>4, <1>5 DEF LimitInv, PacketLimit

LEMMA LimitDatagram ==
  ASSUME Inv, LimitInv, NEW d \in Datagram, RxDatagram(d)
  PROVE  LimitInv'
<1> DEFINE dg == stats["datagrams_received"]
<1>1. dg \in Nat /\ MaxPackets \in Nat /\ remaining \in Nat
  BY ReceiverAssumption DEF Inv, TypeOK, Counter
<1>2. stats'["datagrams_received"] = dg + 1
  BY DEF RxDatagram, Counted, Counter
<1>3. InPush = 0
  BY DEF RxDatagram, InPush
<1>4. \/ rxpc' = "alloc" /\ remaining' = remaining /\ InPush' = 1
      \/ rxpc' = "batch" /\ remaining' = remaining - 1 /\ InPush' = 0
  BY DEF RxDatagram, InPush
<1>5. MaxPackets # 0 => dg + remaining <= MaxPackets
  BY <1>1, <1>3 DEF LimitInv, PacketLimit
<1>6. MaxPackets # 0 => stats'["datagrams_received"] + remaining' <= MaxPackets + InPush'
  BY <1>1, <1>2, <1>4, <1>5
<1> QED
  BY <1>4, <1>6 DEF LimitInv, PacketLimit

(* The end of a push. *)
LEMMA LimitPushed ==
  ASSUME Inv, LimitInv, RxCommit \/ \E n \in tailSeen .. pops : RxOverflow(n)
  PROVE  LimitInv'
<1> DEFINE dg == stats["datagrams_received"]
<1>1. dg \in Nat /\ MaxPackets \in Nat /\ remaining \in Nat
  BY ReceiverAssumption DEF Inv, TypeOK, Counter
<1>2. InPush = 1 /\ InPush' = 0 /\ rxpc' = "batch" /\ remaining' = remaining - 1
  BY DEF RxCommit, RxOverflow, InPush
<1>3. stats'["datagrams_received"] = dg
  BY DEF RxCommit, RxOverflow, Inv, TypeOK, Counter
<1>4. MaxPackets # 0 => stats'["datagrams_received"] + remaining' <= MaxPackets + InPush'
  BY <1>1, <1>2, <1>3 DEF LimitInv, PacketLimit
<1> QED
  BY <1>2, <1>4 DEF LimitInv, PacketLimit

LEMMA LimitStep ==
  ASSUME Inv, LimitInv, [Next]_vars
  PROVE  LimitInv'
<1> USE DEF LimitInv, PacketLimit, InPush
<1>1. CASE \E code \in {1, 2} : RxSetupFails(code)
  BY <1>1 DEF RxSetupFails
<1>2. CASE RxStart \/ RxTimeout \/ RxBatchEnd
  BY <1>2 DEF RxStart, RxTimeout, RxBatchEnd
<1>3. CASE \E n \in tailSeen .. pops : RxAlloc(n) \/ RxDepth(n)
  BY <1>3 DEF RxAlloc, RxDepth
<1>4. CASE RxWrite
  BY <1>4 DEF RxWrite
<1>5. CASE RxInterrupted \/ RxPublishDone
  BY <1>5 DEF RxInterrupted, RxPublishDone
<1>6. CASE \E ok \in BOOLEAN : RxJoinAndReport(ok)
  BY <1>6 DEF RxJoinAndReport
<1>7. CASE Worker
  <2>1. UNCHANGED <<rxpc, remaining, stats, stop_requested>>
    BY <1>7 DEF Worker, WorkerPolls, WorkerSeesDone, WorkerFront, WorkerProcess, WorkerPop
  <2> QED
    BY <2>1
<1>8. CASE Exited \/ UNCHANGED vars
  BY <1>8 DEF Exited
<1> QED
  BY <1>1, <1>2, <1>3, <1>4, <1>5, <1>6, <1>7, <1>8, LimitEnvironment, LimitLoop,
     LimitDatagram, LimitPushed DEF Next, Rx

(* --max-packets is exact, although datagrams are taken in batches.        *)
THEOREM Limit == Spec => []PacketLimit
<1>1. Init => LimitInv
  BY ReceiverAssumption DEF Init, LimitInv, PacketLimit, InPush, Counter
<1>2. Inv /\ LimitInv /\ [Next]_vars => LimitInv'
  BY LimitStep
<1>3. LimitInv => PacketLimit
  BY DEF LimitInv
<1> QED
  BY <1>1, <1>2, <1>3, Invariance, PTL DEF Spec

-----------------------------------------------------------------------------
(* What is waiting is the end of one sequence, followed by another.        *)

LEMMA Rest ==
  ASSUME NEW S, NEW a \in Seq(S), NEW k \in 0 .. Len(a)
  PROVE  SubSeq(a, k + 1, Len(a)) \in Seq(S)
<1>1. \A i \in k + 1 .. Len(a) : a[i] \in S
  OBVIOUS
<1>2. k + 1 \in Int /\ Len(a) \in Int
  OBVIOUS
<1> QED
  BY <1>1, <1>2, SubSeqProperties

(* A packet is received: it joins the end. *)
LEMMA JoinsTheEnd ==
  ASSUME NEW S, NEW s \in Seq(S), NEW p \in S
  PROVE  s \o <<p>> = Append(s \o << >>, p)
  BY ConcatEmptySeq, AppendIsConcat

(* A packet is pushed: it moves from the hand of the receive thread to the *)
(* end of what was accepted.                                               *)
LEMMA PushMoves ==
  ASSUME NEW S, NEW a \in Seq(S), NEW k \in 0 .. Len(a), NEW p \in S
  PROVE  SubSeq(Append(a, p), k + 1, Len(Append(a, p))) \o << >>
           = SubSeq(a, k + 1, Len(a)) \o <<p>>
<1>1. Len(a) \in Nat /\ k \in Nat /\ k <= Len(a)
  OBVIOUS
<1> DEFINE b == Append(a, p)
<1>2. b \in Seq(S) /\ Len(b) = Len(a) + 1 /\ b[Len(b)] = p
  BY AppendProperties
<1>3. b = a \o <<p>>
  BY AppendIsConcat
<1> HIDE DEF b
<1>4. SubSeq(b, k + 1, Len(b)) = SubSeq(b, k + 1, Len(b) - 1) \o <<b[Len(b)]>>
  <2>1. k + 1 \in 1 .. Len(b) /\ Len(b) \in k + 1 .. Len(b)
    BY <1>1, <1>2
  <2> QED
    BY <1>2, <2>1, SubSeqRecursiveSecond
<1>5. SubSeq(b, k + 1, Len(a)) = SubSeq(a, k + 1, Len(a))
  <2>1. CASE k = Len(a)
    <3>1. k + 1 \in Int /\ Len(a) \in Int /\ Len(a) < k + 1
      BY <1>1, <2>1
    <3>2. SubSeq(b, k + 1, Len(a)) = << >> /\ SubSeq(a, k + 1, Len(a)) = << >>
      BY <3>1, SubSeqEmpty
    <3> QED
      BY <3>2
  <2>2. CASE k < Len(a)
    <3>1. k + 1 \in 1 .. Len(a) /\ Len(a) \in 1 .. Len(a)
      BY <1>1, <2>2
    <3>2. <<p>> \in Seq(S)
      OBVIOUS
    <3> QED
      BY <1>3, <3>1, <3>2, SubSeqOfConcat1
  <2> QED
    BY <1>1, <2>1, <2>2
<1>6. Len(b) - 1 = Len(a)
  BY <1>1, <1>2
<1>7. SubSeq(b, k + 1, Len(b)) = SubSeq(a, k + 1, Len(a)) \o <<p>>
  BY <1>2, <1>4, <1>5, <1>6
<1>8. SubSeq(a, k + 1, Len(a)) \o <<p>> \in Seq(S)
  <2>1. SubSeq(a, k + 1, Len(a)) \in Seq(S) /\ <<p>> \in Seq(S)
    BY Rest
  <2> QED
    BY <2>1, ConcatProperties
<1> QED
  BY <1>7, <1>8, ConcatEmptySeq DEF b

(* A push fails: the packet in hand is the newest one, and is dropped. *)
LEMMA DropIsNewest ==
  ASSUME NEW S, NEW s \in Seq(S), NEW p \in S
  PROVE  /\ s \o <<p>> # << >>
         /\ SubSeq(s \o <<p>>, 1, Len(s \o <<p>>) - 1) = s \o << >>
<1> DEFINE w == Append(s, p)
<1>1. w \in Seq(S) /\ w # << >> /\ Len(w) = Len(s) + 1 /\ Len(s) \in Nat
      /\ w = s \o <<p>>
  BY AppendProperties, AppendIsConcat
<1>2. 1 \in 1 .. Len(w) /\ Len(w) - 1 = Len(s) /\ Len(s) \in 0 .. Len(s)
  BY <1>1
<1> HIDE DEF w
<1>3. SubSeq(w, 1, Len(s)) = s
  <2>1. CASE Len(s) = 0
    <3>1. s = << >>
      BY <2>1
    <3>2. 1 \in Int /\ Len(s) \in Int /\ Len(s) < 1
      BY <2>1
    <3>3. SubSeq(w, 1, Len(s)) = << >>
      BY <3>2, SubSeqEmpty
    <3> QED
      BY <3>1, <3>3
  <2>2. CASE Len(s) # 0
    <3>1. 1 \in 1 .. Len(s) /\ Len(s) \in 1 .. Len(s) /\ <<p>> \in Seq(S)
      BY <1>1, <2>2
    <3>2. SubSeq(w, 1, Len(s)) = SubSeq(s, 1, Len(s))
      BY <1>1, <3>1, SubSeqOfConcat1
    <3> QED
      BY <3>2, SubSeqFull
  <2> QED
    BY <2>1, <2>2
<1>4. SubSeq(w, 1, Len(w) - 1) = s
  BY <1>2, <1>3
<1>5. s \o << >> = s
  BY ConcatEmptySeq
<1> QED
  BY <1>1, <1>4, <1>5

LEMMA FirstOfTwo ==
  ASSUME NEW S, NEW x \in S, NEW u \in Seq(S)
  PROVE  /\ <<x>> \o u # << >>
         /\ Head(<<x>> \o u) = x
         /\ Tail(<<x>> \o u) = u
<1>1. <<x>> \in Seq(S) /\ Len(<<x>>) = 1 /\ <<x>>[1] = x /\ Len(u) \in Nat
  OBVIOUS
<1> DEFINE w == <<x>> \o u
<1>2. /\ w \in Seq(S) /\ Len(w) = 1 + Len(u)
      /\ \A i \in 1 .. 1 + Len(u) : w[i] = IF i <= 1 THEN <<x>>[i] ELSE u[i - 1]
  BY <1>1, ConcatProperties
<1> HIDE DEF w
<1>3. w # << >>
  BY <1>1, <1>2
<1>4. w[1] = x /\ \A i \in 1 .. Len(u) : w[i + 1] = u[i]
  <2>1. w[1] = x
    BY <1>1, <1>2
  <2>2. ASSUME NEW i \in 1 .. Len(u) PROVE w[i + 1] = u[i]
    <3>1. i + 1 \in 1 .. 1 + Len(u) /\ ~(i + 1 <= 1) /\ (i + 1) - 1 = i
      BY <1>1
    <3> QED
      BY <1>2, <3>1
  <2> QED
    BY <2>1, <2>2
<1>5. Head(w) = x
  BY <1>2, <1>3, <1>4
<1>6. /\ Tail(w) \in Seq(S) /\ Len(Tail(w)) = Len(w) - 1
      /\ \A i \in 1 .. Len(Tail(w)) : Tail(w)[i] = w[i + 1]
  BY <1>2, <1>3, HeadTailProperties
<1>7. Len(Tail(w)) = Len(u)
  BY <1>1, <1>2, <1>6
<1>8. Tail(w) = u
  BY <1>4, <1>6, <1>7, SeqEqual
<1> QED
  BY <1>3, <1>5, <1>8 DEF w

(* A packet is processed: the first one leaves. *)
LEMMA FirstLeaves ==
  ASSUME NEW S, NEW a \in Seq(S), NEW k \in 0 .. Len(a), k < Len(a), NEW t \in Seq(S)
  PROVE  /\ SubSeq(a, k + 1, Len(a)) \o t # << >>
         /\ Head(SubSeq(a, k + 1, Len(a)) \o t) = a[k + 1]
         /\ Tail(SubSeq(a, k + 1, Len(a)) \o t) = SubSeq(a, (k + 1) + 1, Len(a)) \o t
<1>1. k + 1 \in 1 .. Len(a) /\ Len(a) \in k + 1 .. Len(a) /\ k + 1 \in 0 .. Len(a)
  OBVIOUS
<1> DEFINE x == a[k + 1]
           s == SubSeq(a, (k + 1) + 1, Len(a))
<1>2. x \in S /\ <<x>> \in Seq(S)
  BY <1>1
<1>3. s \in Seq(S)
  BY <1>1, Rest
<1>4. SubSeq(a, k + 1, Len(a)) = <<x>> \o s
  BY <1>1, SubSeqRecursiveFirst
<1> HIDE DEF x, s
<1>5. (<<x>> \o s) \o t = <<x>> \o (s \o t)
  BY <1>2, <1>3, ConcatAssociative
<1>6. s \o t \in Seq(S)
  BY <1>3, ConcatProperties
<1>7. /\ <<x>> \o (s \o t) # << >>
      /\ Head(<<x>> \o (s \o t)) = x
      /\ Tail(<<x>> \o (s \o t)) = s \o t
  BY <1>2, <1>6, FirstOfTwo
<1> QED
  BY <1>4, <1>5, <1>7 DEF x, s

-----------------------------------------------------------------------------
(* The refinement mapping.                                                 *)

(* The packet in the receive thread's hands. *)
Hand == IF InPush = 1 THEN <<packet>> ELSE << >>

(* What the contract calls waiting. *)
Waiting == SubSeq(accepted, Len(processed) + 1, Len(accepted)) \o Hand

(* A step that the contract does not see. *)
Quiet ==
  /\ UNCHANGED <<accepted, processed>>
  /\ stats'["valid"] = stats["valid"]
  /\ stats'["spsc_overflow"] = stats["spsc_overflow"]
  /\ Hand' = Hand
  /\ Reported' = Reported

LEMMA QuietStutters == Quiet => UNCHANGED Contract!vars
<1> SUFFICES ASSUME Quiet PROVE UNCHANGED Contract!vars
  OBVIOUS
<1>1. Waiting' = Waiting
  BY DEF Quiet, Waiting
<1> QED
  BY <1>1 DEF Quiet, Contract!vars, Waiting, Hand

(* Where the processed packets end in what was accepted, and what the      *)
(* worker holds.                                                           *)
LEMMA Mapped ==
  ASSUME Inv
  PROVE  /\ accepted \in Seq(Item) /\ processed \in Seq(Item)
         /\ Len(processed) \in 0 .. Len(accepted)
         /\ Hand \in Seq(Item)
         /\ wpc = "process" => /\ Len(processed) < Len(accepted)
                               /\ FrontItem = accepted[Len(processed) + 1]
         /\ Reported => wpc = "exit" /\ rxpc = "exit"
<1> USE DEF Inv
<1>1. accepted \in Seq(Item) /\ processed \in Seq(Item)
  BY DEF TypeOK
<1>2. Len(processed) \in 0 .. Len(accepted)
  <2>1. Len(processed) <= Len(accepted)
    BY InvImpliesInOrder DEF ProcessedInOrder
  <2> QED
    BY <1>1, <2>1
<1>3. Hand \in Seq(Item)
  <2>1. CASE InPush = 1
    <3>1. packet \in Item
      BY <2>1 DEF ThreadInv, InPush
    <3> QED
      BY <2>1, <3>1 DEF Hand
  <2>2. CASE InPush # 1
    BY <2>2 DEF Hand
  <2> QED
    BY <2>1, <2>2
<1>4. ASSUME wpc = "process"
      PROVE  Len(processed) < Len(accepted) /\ FrontItem = accepted[Len(processed) + 1]
  <2>1. ReadIsOrdered /\ Len(processed) = pops /\ Len(accepted) = commits
    BY <1>4 DEF ThreadInv, DataInv
  <2>2. /\ pops \in Nat /\ commits \in Nat /\ pops < commits
        /\ tail = Mask(pops)
    BY <2>1 DEF QueueInv, QueueTypeOK, ReadIsOrdered
  <2>3. FrontItem = accepted[pops + 1]
    BY <2>2 DEF DataInv, FrontItem
  <2> QED
    BY <2>1, <2>2, <2>3
<1>5. Reported => wpc = "exit" /\ rxpc = "exit"
  BY DEF Reported, ThreadInv
<1> QED
  BY <1>1, <1>2, <1>3, <1>4, <1>5

-----------------------------------------------------------------------------
(* The steps that the contract sees.                                       *)

(* A valid datagram is a packet received, still to be pushed. *)
LEMMA DatagramReceives ==
  ASSUME Inv, Inv', NEW d \in Datagram, RxDatagram(d), d.kind = "valid"
  PROVE  Contract!Next
<1>1. /\ rxpc = "batch" /\ rxpc' = "alloc"
      /\ UNCHANGED <<accepted, processed, exit_code>>
      /\ stats' = [c \in Counter |-> IF c \in Counted(d) THEN stats[c] + 1 ELSE stats[c]]
  BY DEF RxDatagram
<1>2. stats'["valid"] = stats["valid"] + 1 /\ stats'["spsc_overflow"] = stats["spsc_overflow"]
  <2>1. "valid" \in Counted(d) /\ "spsc_overflow" \notin Counted(d)
    BY DEF Counted
  <2>2. "valid" \in Counter /\ "spsc_overflow" \in Counter
    BY DEF Counter
  <2> QED
    BY <1>1, <2>1, <2>2
<1>3. Hand = << >> /\ Hand' = <<packet'>> /\ packet' \in Item
  <2>1. packet' \in Item
    BY <1>1 DEF Inv, ThreadInv
  <2> QED
    BY <1>1, <2>1 DEF Hand, InPush
<1>4. Waiting' = Append(Waiting, packet')
  <2> DEFINE s == SubSeq(accepted, Len(processed) + 1, Len(accepted))
  <2>1. s \in Seq(Item)
    BY Mapped, Rest
  <2>2. Waiting = s \o << >> /\ Waiting' = s \o <<packet'>>
    BY <1>1, <1>3 DEF Waiting
  <2> HIDE DEF s
  <2> QED
    BY <1>3, <2>1, <2>2, JoinsTheEnd
<1>5. ~Reported /\ Reported' = Reported
  BY <1>1 DEF Reported
<1>6. Contract!Receive(packet')
  BY <1>1, <1>2, <1>4, <1>5 DEF Contract!Receive, Waiting, Hand
<1> QED
  BY <1>3, <1>6 DEF Contract!Next

(* A push that fails drops the newest packet. *)
LEMMA OverflowDrops ==
  ASSUME Inv, NEW n, RxOverflow(n)
  PROVE  Contract!Next
<1>1. /\ rxpc = "alloc" /\ rxpc' = "batch"
      /\ UNCHANGED <<accepted, processed, exit_code>>
      /\ stats' = [stats EXCEPT !["spsc_overflow"] = @ + 1]
  BY DEF RxOverflow
<1>2. stats'["valid"] = stats["valid"] /\ stats'["spsc_overflow"] = stats["spsc_overflow"] + 1
  <2>1. stats \in [Counter -> Nat] /\ "spsc_overflow" \in Counter /\ "valid" \in Counter
    BY DEF Inv, TypeOK, Counter
  <2> QED
    BY <1>1, <2>1
<1>3. Hand = <<packet>> /\ Hand' = << >> /\ packet \in Item
  BY <1>1 DEF Hand, InPush, Inv, ThreadInv
<1>4. Waiting # << >> /\ Waiting' = SubSeq(Waiting, 1, Len(Waiting) - 1)
  <2> DEFINE s == SubSeq(accepted, Len(processed) + 1, Len(accepted))
  <2>1. s \in Seq(Item)
    BY Mapped, Rest
  <2>2. Waiting = s \o <<packet>> /\ Waiting' = s \o << >>
    BY <1>1, <1>3 DEF Waiting
  <2> HIDE DEF s
  <2> QED
    BY <1>3, <2>1, <2>2, DropIsNewest
<1>5. ~Reported /\ Reported' = Reported
  BY <1>1 DEF Reported
<1>6. Contract!Drop
  BY <1>1, <1>2, <1>4, <1>5 DEF Contract!Drop, Waiting, Hand
<1> QED
  BY <1>6 DEF Contract!Next

(* A push that succeeds changes only who holds the packet. *)
LEMMA CommitIsQuiet ==
  ASSUME Inv, RxCommit
  PROVE  UNCHANGED Contract!vars
<1>1. /\ rxpc = "commit" /\ rxpc' = "batch"
      /\ UNCHANGED <<processed, stats, exit_code>>
      /\ accepted' = Append(accepted, packet)
  BY DEF RxCommit
<1>2. Hand = <<packet>> /\ Hand' = << >> /\ packet \in Item
  BY <1>1 DEF Hand, InPush, Inv, ThreadInv
<1>3. Waiting' = Waiting
  <2>1. /\ Waiting = SubSeq(accepted, Len(processed) + 1, Len(accepted)) \o <<packet>>
        /\ Waiting' = SubSeq(Append(accepted, packet), Len(processed) + 1,
                             Len(Append(accepted, packet))) \o << >>
    BY <1>1, <1>2 DEF Waiting
  <2>2. accepted \in Seq(Item) /\ Len(processed) \in 0 .. Len(accepted)
    BY Mapped
  <2> QED
    BY <1>2, <2>1, <2>2, PushMoves
<1>4. Reported' = Reported
  BY <1>1 DEF Reported
<1> QED
  BY <1>1, <1>3, <1>4 DEF Contract!vars, Waiting, Hand

(* The worker processes the oldest packet that is waiting, which is the    *)
(* one its pointer into the ring points to.                                *)
LEMMA ProcessIsOldest ==
  ASSUME Inv, WorkerProcess
  PROVE  Contract!Next
<1>1. /\ wpc = "process"
      /\ UNCHANGED <<rxpc, packet, accepted, stats, exit_code>>
      /\ processed' = Append(processed, FrontItem)
  BY DEF WorkerProcess
<1>2. /\ accepted \in Seq(Item) /\ processed \in Seq(Item)
      /\ Len(processed) \in 0 .. Len(accepted) /\ Len(processed) < Len(accepted)
      /\ FrontItem = accepted[Len(processed) + 1]
      /\ Hand \in Seq(Item)
  BY <1>1, Mapped
<1>3. Hand' = Hand
  BY <1>1 DEF Hand, InPush
<1>4. Len(processed') = Len(processed) + 1
  BY <1>1, <1>2
<1>5. /\ Waiting # << >>
      /\ Head(Waiting) = FrontItem
      /\ Tail(Waiting) = Waiting'
  <2>1. /\ Waiting # << >>
        /\ Head(Waiting) = accepted[Len(processed) + 1]
        /\ Tail(Waiting) = SubSeq(accepted, (Len(processed) + 1) + 1, Len(accepted)) \o Hand
    BY <1>2, FirstLeaves DEF Waiting
  <2>2. Waiting' = SubSeq(accepted, (Len(processed) + 1) + 1, Len(accepted)) \o Hand
    BY <1>1, <1>3, <1>4 DEF Waiting
  <2> QED
    BY <1>2, <2>1, <2>2
<1>6. ~Reported /\ Reported' = Reported
  BY <1>1, Mapped DEF Reported
<1>7. Contract!Process
  BY <1>1, <1>5, <1>6 DEF Contract!Process, Waiting, Hand
<1> QED
  BY <1>7 DEF Contract!Next

(* The report is written when the worker has ended and nothing is waiting. *)
LEMMA ReportIsLast ==
  ASSUME Inv, RxJoinAndReport(TRUE)
  PROVE  Contract!Next
<1>1. /\ rxpc = "join" /\ rxpc' = "exit" /\ wpc = "exit" /\ exit_code' = 0
      /\ UNCHANGED <<accepted, processed, stats, packet>>
  BY DEF RxJoinAndReport
<1>2. Hand = << >> /\ Hand' = << >>
  BY <1>1 DEF Hand, InPush
<1>3. Waiting = << >> /\ Waiting' = << >>
  <2>1. processed = accepted /\ accepted \in Seq(Item)
    BY <1>1, InvImpliesDrained, Mapped DEF DrainIsComplete
  <2>2. SubSeq(accepted, Len(accepted) + 1, Len(accepted)) = << >>
    <3>1. Len(accepted) + 1 \in Int /\ Len(accepted) \in Int
          /\ Len(accepted) < Len(accepted) + 1
      BY <2>1
    <3> QED
      BY <3>1, SubSeqEmpty
  <2>3. << >> \in Seq(Item) /\ << >> \o << >> = << >>
    BY ConcatEmptySeq
  <2>4. Waiting = << >>
    BY <1>2, <2>1, <2>2, <2>3 DEF Waiting
  <2> QED
    BY <1>1, <1>2, <2>4 DEF Waiting
<1>4. ~Reported /\ Reported'
  BY <1>1 DEF Reported
<1>5. Contract!Report
  BY <1>1, <1>3, <1>4 DEF Contract!Report, Waiting, Hand
<1> QED
  BY <1>5 DEF Contract!Next

-----------------------------------------------------------------------------
(* The steps it does not see.                                              *)

LEMMA EnvironmentIsQuiet == ASSUME Inv, Environment PROVE Quiet
<1>1. CASE Sigint
  BY <1>1 DEF Sigint, Quiet, Hand, InPush, Reported
<1>2. ASSUME NEW n \in 1 .. MaxDatagrams, RxReceive(n) PROVE Quiet
  BY <1>2 DEF RxReceive, Quiet, Hand, InPush, Reported
<1>3. CASE RxError
  <2>1. stats'["valid"] = stats["valid"] /\ stats'["spsc_overflow"] = stats["spsc_overflow"]
    <3>1. stats \in [Counter -> Nat] /\ "spsc_overflow" \in Counter /\ "valid" \in Counter
      BY DEF Inv, TypeOK, Counter
    <3> QED
      BY <1>3, <3>1 DEF RxError
  <2> QED
    BY <1>3, <2>1 DEF RxError, Quiet, Hand, InPush, Reported
<1> QED
  BY <1>1, <1>2, <1>3 DEF Environment

LEMMA RxIsQuiet ==
  ASSUME RxStart \/ RxLoop \/ RxTimeout \/ RxBatchEnd \/ RxWrite
           \/ RxInterrupted \/ RxPublishDone
  PROVE  Quiet
<1>1. CASE RxStart
  BY <1>1 DEF RxStart, Quiet, Hand, InPush, Reported
<1>2. CASE RxLoop
  BY <1>2 DEF RxLoop, Quiet, Hand, InPush, Reported
<1>3. CASE RxTimeout
  BY <1>3 DEF RxTimeout, Quiet, Hand, InPush, Reported
<1>4. CASE RxBatchEnd
  BY <1>4 DEF RxBatchEnd, Quiet, Hand, InPush, Reported
<1>5. CASE RxWrite
  BY <1>5 DEF RxWrite, Quiet, Hand, InPush, Reported
<1>6. CASE RxInterrupted
  BY <1>6 DEF RxInterrupted, Quiet, Hand, InPush, Reported
<1>7. CASE RxPublishDone
  BY <1>7 DEF RxPublishDone, Quiet, Hand, InPush, Reported
<1> QED
  BY <1>1, <1>2, <1>3, <1>4, <1>5, <1>6, <1>7

(* A receiver that fails before or while it reports has reported nothing. *)
LEMMA FailureIsQuiet ==
  ASSUME (\E code \in {1, 2} : RxSetupFails(code)) \/ RxJoinAndReport(FALSE)
  PROVE  Quiet
<1>1. ASSUME NEW code \in {1, 2}, RxSetupFails(code) PROVE Quiet
  BY <1>1 DEF RxSetupFails, Quiet, Hand, InPush, Reported
<1>2. CASE RxJoinAndReport(FALSE)
  BY <1>2 DEF RxJoinAndReport, Quiet, Hand, InPush, Reported
<1> QED
  BY <1>1, <1>2

(* A datagram that is not valid is only counted. *)
LEMMA InvalidIsQuiet ==
  ASSUME NEW d \in Datagram, RxDatagram(d), d.kind # "valid"
  PROVE  Quiet
<1>1. /\ UNCHANGED <<packet, rxpc, accepted, processed, exit_code>>
      /\ stats' = [c \in Counter |-> IF c \in Counted(d) THEN stats[c] + 1 ELSE stats[c]]
  BY DEF RxDatagram
<1>2. d.kind \in Kind
  BY DEF Datagram
<1>3. "valid" \notin Counted(d) /\ "spsc_overflow" \notin Counted(d)
  BY <1>2 DEF Counted, Kind
<1>4. stats'["valid"] = stats["valid"] /\ stats'["spsc_overflow"] = stats["spsc_overflow"]
  BY <1>1, <1>3 DEF Counter
<1> QED
  BY <1>1, <1>4 DEF Quiet, Hand, InPush, Reported

LEMMA WorkerIsQuiet ==
  ASSUME Worker, ~WorkerProcess
  PROVE  Quiet
<1>1. UNCHANGED <<rxVars, processed, accepted>>
  BY DEF Worker, WorkerPolls, WorkerSeesDone, WorkerFront, WorkerPop
<1> QED
  BY <1>1 DEF Quiet, Hand, InPush, Reported

LEMMA RxRefines == ASSUME Inv, Inv', Rx PROVE [Contract!Next]_(Contract!vars)
<1>1. CASE \E d \in Datagram : RxDatagram(d)
  <2>1. PICK d \in Datagram : RxDatagram(d)
    BY <1>1
  <2> QED
    BY <2>1, DatagramReceives, InvalidIsQuiet, QuietStutters
<1>2. ASSUME NEW n \in tailSeen .. pops, RxAlloc(n) \/ RxDepth(n)
      PROVE  [Contract!Next]_(Contract!vars)
  <2>1. CASE RxAlloc(n)
    <3>1. Quiet
      BY <2>1 DEF RxAlloc, Quiet, Hand, InPush, Reported
    <3> QED
      BY <3>1, QuietStutters
  <2>2. CASE RxDepth(n)
    <3>1. Quiet
      BY <2>2 DEF RxDepth, Quiet, Hand, InPush, Reported
    <3> QED
      BY <3>1, QuietStutters
  <2> QED
    BY <1>2, <2>1, <2>2
<1>3. ASSUME NEW n \in tailSeen .. pops, RxOverflow(n)
      PROVE  [Contract!Next]_(Contract!vars)
  BY <1>3, OverflowDrops
<1>4. CASE RxCommit
  BY <1>4, CommitIsQuiet
<1>5. ASSUME NEW ok \in BOOLEAN, RxJoinAndReport(ok)
      PROVE  [Contract!Next]_(Contract!vars)
  <2>1. CASE ok = TRUE
    BY <1>5, <2>1, ReportIsLast
  <2>2. CASE ok = FALSE
    BY <1>5, <2>2, FailureIsQuiet, QuietStutters
  <2> QED
    BY <2>1, <2>2
<1>6. CASE \E code \in {1, 2} : RxSetupFails(code)
  BY <1>6, FailureIsQuiet, QuietStutters
<1>7. CASE RxStart \/ RxLoop \/ RxTimeout \/ RxBatchEnd \/ RxWrite
             \/ RxInterrupted \/ RxPublishDone
  BY <1>7, RxIsQuiet, QuietStutters
<1> QED
  BY <1>1, <1>2, <1>3, <1>4, <1>5, <1>6, <1>7 DEF Rx

LEMMA StepRefines ==
  ASSUME Inv, Inv', [Next]_vars
  PROVE  [Contract!Next]_(Contract!vars)
<1>1. CASE Environment
  BY <1>1, EnvironmentIsQuiet, QuietStutters
<1>2. CASE Rx
  BY <1>2, RxRefines
<1>3. CASE Worker
  BY <1>3, ProcessIsOldest, WorkerIsQuiet, QuietStutters
<1>4. CASE Exited \/ UNCHANGED vars
  <2>1. Quiet
    BY <1>4 DEF Exited, Quiet, Hand, InPush, Reported
  <2> QED
    BY <2>1, QuietStutters
<1> QED
  BY <1>1, <1>2, <1>3, <1>4 DEF Next

(* For every ring size, batch size and packet limit, the receive thread    *)
(* and the worker together keep the contract of a receiver that handles    *)
(* one packet after the other: in order, dropped on arrival and counted,   *)
(* and nothing left when the statistics are written.                       *)
THEOREM ContractHolds == Spec => ImplementsContract
<1>1. Init => Contract!Init
  <2> SUFFICES ASSUME Init PROVE Contract!Init
    OBVIOUS
  <2>1. /\ accepted = << >> /\ processed = << >>
        /\ stats["valid"] = 0 /\ stats["spsc_overflow"] = 0
        /\ ~Reported /\ Hand = << >>
    BY DEF Init, Counter, Reported, Hand, InPush
  <2>2. Waiting = << >>
    <3>1. << >> \in Seq(Item) /\ Len(<< >>) = 0
      OBVIOUS
    <3>2. SubSeq(accepted, Len(processed) + 1, Len(accepted)) = << >>
      BY <2>1, <3>1, SubSeqEmpty
    <3> QED
      BY <2>1, <3>1, <3>2, ConcatEmptySeq DEF Waiting
  <2> QED
    BY <2>1, <2>2 DEF Contract!Init, Waiting, Hand
<1>2. Inv /\ Inv' /\ [Next]_vars => [Contract!Next]_(Contract!vars)
  BY StepRefines
<1> QED
  BY <1>1, <1>2, Invariance, PTL DEF Spec, ImplementsContract, Contract!Spec

=============================================================================
