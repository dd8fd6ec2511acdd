----------------------------- MODULE RunVerdict -----------------------------
(***************************************************************************)
(* The measurement of one run and its verdicts, execute_run() of main.py   *)
(* without its failures (those are in RunAttempts): the probes of both     *)
(* nodes that bracket the timed interval, the packets on their way through *)
(* network, socket, receiver and processing, each side with its            *)
(* SequenceTracker, and what validity_reasons() and                        *)
(* qualification_reasons() make of the counters.                           *)
(*                                                                         *)
(* The network delivers in order, except that it may lose, delay or repeat *)
(* a packet; each such event, each disturbance of a node and each probe    *)
(* that fails is one of at most MaxTroubles.                               *)
(*                                                                         *)
(* The truth about a probe is told apart from what the probe reports. The  *)
(* NIC counters of a node stand as one, and its two pause counters as one. *)
(***************************************************************************)
EXTENDS SequenceTracker, FiniteSetsExt

CONSTANTS
  Loopback,      \* topology is "local_loopback"
  SocketSize,    \* datagrams that the receive buffer holds
  ReorderScale,  \* qualification allows one reordered packet in so many (10^4)
  MaxTroubles    \* bound of the model: disturbances in one run

ASSUME VerdictAssumption ==
  /\ Loopback \in BOOLEAN
  /\ SocketSize \in Nat \ {0}
  /\ ReorderScale \in Nat \ {0}
  /\ MaxTroubles \in Nat

Node == {"receiver", "sender"}

(* The counters of snapshot_counters(). *)
Counter == {"udp_errors", "udp_socket_drops", "qdisc_drops", "nic_errors", "nic_pause"}

Unavailable == -1

VARIABLES
  step,          \* position in Script
  \* packets
  next,          \* the next number the sender submits
  held,          \* numbers on the way that a later one has overtaken, and copies
  socket,        \* the socket's receive buffer
  arrived,       \* the numbers read by the receiver, in order (history)
  processed,     \* the numbers processed, in order (history)
  rx, pr,        \* the trackers of the receive and the processing path
  failed_sends, spsc_overflow,
  pending,       \* socket_pending_bytes_at_shutdown, in datagrams
  sound,         \* rate, byte, affinity and pacing checks have no objection
  \* the nodes
  kernel,        \* the counters of each node
  flag,          \* a throttling bit of the node is set; such bits stay set
  counters,      \* the snapshots
  states,        \* the results of run_state()
  \* history
  troubles,
  lost,          \* numbers that were dropped on their way to the receiver
  disturbed      \* what disturbed a node while the sender ran

packetVars == <<next, held, socket, arrived, processed, rx, pr, failed_sends, spsc_overflow, pending, sound>>
nodeVars == <<kernel, flag>>
probeVars == <<counters, states>>
historyVars == <<troubles, lost, disturbed>>
vars == <<step, packetVars, nodeVars, probeVars, historyVars>>

When == {"before", "after"}
NoSnapshot == [c \in Counter |-> Unavailable]
NoState == [throttled |-> "unavailable", link |-> "error"]

Init ==
  /\ step = 1
  /\ next = 0
  /\ held = {}
  /\ socket = <<>>
  /\ arrived = <<>>
  /\ processed = <<>>
  /\ rx = NewTracker
  /\ pr = NewTracker
  /\ failed_sends = 0
  /\ spsc_overflow = 0
  /\ pending = 0
  /\ sound = FALSE
  \* Another socket of each node has lost a datagram before.
  /\ kernel = [n \in Node |-> [c \in Counter |->
                 IF c \in {"udp_errors", "udp_socket_drops"} THEN 1 ELSE 0]]
  /\ flag = [n \in Node |-> FALSE]
  /\ counters = [n \in Node |-> [w \in When |-> NoSnapshot]]
  /\ states = [n \in Node |-> [w \in When |-> NoState]]
  /\ troubles = 0
  /\ lost = {}
  /\ disturbed = {}

-----------------------------------------------------------------------------
Probe(kind, node, when) == [kind |-> kind, node |-> node, when |-> when]
Act(kind) == Probe(kind, "both", "once")

(* What execute_run() does, in order. The sender runs during "send", which *)
(* ends with its exit, and the receiver until "stop".                      *)
Script ==
  <<Probe("state", "receiver", "before"), Probe("state", "sender", "before"),
    Probe("snapshot", "receiver", "before"), Probe("snapshot", "sender", "before"),
    Act("send"),
    Probe("snapshot", "receiver", "after"), Probe("snapshot", "sender", "after"),
    Probe("state", "receiver", "after"), Probe("state", "sender", "after"),
    Act("stop"), Act("done")>>

Doing(kind) == Script[step].kind = kind
Sending == Doing("send")
Running == ~Doing("done")
Done == Doing("done")

(* One more trouble, which costs 1, or none. *)
Costs(n) ==
  /\ troubles + n <= MaxTroubles
  /\ troubles' = troubles + n

(* What a counter that rises stands for. *)
Disturbance(c) == CASE c = "nic_pause" -> "pause"
                    [] c = "qdisc_drops" -> "qdisc drop"
                    [] OTHER -> "drop"

-----------------------------------------------------------------------------
(* The sender and the network. *)

(* A number is submitted, and delivered at once. *)
Delivered(n) ==
  IF Len(socket) < SocketSize
    THEN /\ socket' = Append(socket, n)
         /\ Costs(0)
         /\ UNCHANGED <<lost, kernel, disturbed>>
    ELSE /\ Costs(1)
         /\ lost' = IF n \in Seen(arrived \o socket) THEN lost ELSE lost \union {n}
         /\ kernel' = [kernel EXCEPT !["receiver"]["udp_errors"] = @ + 1,
                                     !["receiver"]["udp_socket_drops"] = @ + 1]
         /\ disturbed' = disturbed \union {"drop"}
         /\ UNCHANGED socket

Submit ==
  /\ Sending
  /\ next <= MaxSequence
  /\ next' = next + 1

SendDelivered ==
  /\ Submit
  /\ Delivered(next)
  /\ UNCHANGED <<step, held, arrived, processed, rx, pr, failed_sends, spsc_overflow,
                 pending, sound, flag, probeVars>>

(* The number is used up and no datagram leaves. *)
SendFails ==
  /\ Submit
  /\ Costs(1)
  /\ failed_sends' = failed_sends + 1
  /\ lost' = lost \union {next}
  /\ UNCHANGED <<step, held, socket, arrived, processed, rx, pr, spsc_overflow,
                 pending, sound, nodeVars, probeVars, disturbed>>

(* Dropped on the way, with a count on a node or without any. *)
SendLost(counted) ==
  /\ Submit
  /\ Costs(1)
  /\ lost' = lost \union {next}
  /\ kernel' = [n \in Node |-> [c \in Counter |->
                  kernel[n][c] + (IF <<n, c>> \in counted THEN 1 ELSE 0)]]
  /\ disturbed' = disturbed \union {Disturbance(k[2]) : k \in counted}
  /\ UNCHANGED <<step, held, socket, arrived, processed, rx, pr, failed_sends,
                 spsc_overflow, pending, sound, flag, probeVars>>

SendDelayed ==
  /\ Submit
  /\ Costs(1)
  /\ held' = held \union {next}
  /\ UNCHANGED <<step, socket, arrived, processed, rx, pr, failed_sends, spsc_overflow,
                 pending, sound, nodeVars, probeVars, lost, disturbed>>

(* A copy of a number that was on its way. *)
Repeat(n) ==
  /\ Sending
  /\ n < next /\ n \notin held /\ n \notin lost
  /\ Costs(1)
  /\ held' = held \union {n}
  /\ UNCHANGED <<step, next, socket, arrived, processed, rx, pr, failed_sends,
                 spsc_overflow, pending, sound, nodeVars, probeVars, lost, disturbed>>

DeliverLate(n) ==
  /\ Sending
  /\ n \in held
  /\ held' = held \ {n}
  /\ Delivered(n)
  /\ UNCHANGED <<step, next, arrived, processed, rx, pr, failed_sends, spsc_overflow,
                 pending, sound, flag, probeVars>>

-----------------------------------------------------------------------------
(* The receiver: the datagram is observed on arrival and handed on, or     *)
(* rejected by a full queue and counted.                                   *)
Read(overflows) ==
  LET n == Head(socket)
  IN  /\ step < Len(Script) /\ socket # <<>>
      /\ socket' = Tail(socket)
      /\ arrived' = Append(arrived, n)
      /\ rx' = observe(rx, n)
      /\ IF overflows
           THEN /\ Costs(1)
                /\ spsc_overflow' = spsc_overflow + 1
                /\ UNCHANGED <<processed, pr>>
           ELSE /\ Costs(0)
                /\ processed' = Append(processed, n)
                /\ pr' = observe(pr, n)
                /\ UNCHANGED spsc_overflow
      /\ UNCHANGED <<step, next, held, failed_sends, pending, sound, nodeVars, probeVars,
                     lost, disturbed>>

-----------------------------------------------------------------------------
(* The nodes. *)

Disturbs(what) == disturbed' = IF Sending THEN disturbed \union {what} ELSE disturbed

(* Something is dropped that the benchmark did not send, or a link partner *)
(* asks for a pause. A socket counts a drop twice.                         *)
NodeCounts(node, c) ==
  /\ Running
  /\ Costs(1)
  /\ kernel' = [kernel EXCEPT ![node] = [k \in Counter |->
                  @[k] + (IF k = c \/ {k, c} = {"udp_errors", "udp_socket_drops"} THEN 1 ELSE 0)]]
  /\ Disturbs(Disturbance(c))
  /\ UNCHANGED <<step, packetVars, flag, probeVars, lost>>

(* Another socket closes; its drops leave /proc/net/udp. *)
SocketCloses(node) ==
  /\ Running
  /\ kernel[node]["udp_socket_drops"] > 0
  /\ Costs(1)
  /\ kernel' = [kernel EXCEPT ![node]["udp_socket_drops"] = @ - 1]
  /\ UNCHANGED <<step, packetVars, flag, probeVars, lost, disturbed>>

Throttle(node) ==
  /\ Running
  /\ ~flag[node]
  /\ Costs(1)
  /\ flag' = [flag EXCEPT ![node] = TRUE]
  /\ Disturbs("throttling")
  /\ UNCHANGED <<step, packetVars, kernel, probeVars, lost>>

-----------------------------------------------------------------------------
(* The controller. *)

(* The counters whose parsers make 0 of an empty section, without an error:*)
(* parse_udp_socket_drops() and parse_qdisc_drops().                       *)
ZeroWhenEmpty == {"udp_socket_drops", "qdisc_drops"}

(* One probe of several sections: the command fails, or a section is empty.*)
NodeSnapshot(node, outcome) ==
  [c \in Counter |->
     CASE outcome = "error" -> Unavailable
       [] outcome = c -> IF c \in ZeroWhenEmpty THEN 0 ELSE Unavailable
       [] OTHER -> kernel[node][c]]

snapshot_counters(outcome) ==
  /\ Doing("snapshot")
  /\ Costs(IF outcome = "read" THEN 0 ELSE 1)
  /\ LET s == Script[step]
     IN  counters' = [counters EXCEPT ![s.node][s.when] = NodeSnapshot(s.node, outcome)]
  /\ step' = step + 1
  /\ UNCHANGED <<packetVars, nodeVars, states, lost, disturbed>>

(* vcgencmd answers, is missing ("unavailable" is then no error) or the    *)
(* connection fails; ethtool reports the link, or fails.                   *)
run_state(throttled_probe, link) ==
  LET s == Script[step]
      state == [throttled |-> IF throttled_probe # "answers" THEN throttled_probe
                              ELSE IF flag[s.node] THEN "set" ELSE "clear",
                link |-> link]
  IN  /\ Doing("state")
      /\ Costs((IF throttled_probe = "answers" THEN 0 ELSE 1) + (IF link = "gigabit" THEN 0 ELSE 1))
      /\ states' = [states EXCEPT ![s.node][s.when] = state]
      /\ step' = step + 1
      /\ UNCHANGED <<packetVars, nodeVars, counters, lost, disturbed>>

(* The sender has exited with status 0; by then the network is empty.      *)
SenderExits(ok) ==
  /\ Sending
  /\ next = MaxSequence + 1
  /\ held = {}
  /\ sound' = ok
  /\ step' = step + 1
  /\ UNCHANGED <<next, held, socket, arrived, processed, rx, pr, failed_sends,
                 spsc_overflow, pending, nodeVars, probeVars, historyVars>>

(* SIGINT: the receiver asks FIONREAD and reports. *)
StopReceiver ==
  /\ Doing("stop")
  /\ pending' = Len(socket)
  /\ step' = step + 1
  /\ UNCHANGED <<next, held, socket, arrived, processed, rx, pr, failed_sends,
                 spsc_overflow, sound, nodeVars, probeVars, historyVars>>

Network ==
  \/ SendDelivered
  \/ SendFails
  \/ \E counted \in {{}, {<<"sender", "qdisc_drops">>}, {<<"receiver", "nic_errors">>}} :
       SendLost(counted)
  \/ SendDelayed
  \/ \E n \in Sequence : Repeat(n) \/ DeliverLate(n)

Nodes ==
  \E node \in Node :
    \/ \E c \in Counter : NodeCounts(node, c)
    \/ SocketCloses(node)
    \/ Throttle(node)

Controller ==
  \/ \E outcome \in {"read", "error"} \union Counter : snapshot_counters(outcome)
  \/ \E throttled_probe \in {"answers", "unavailable", "error"},
        link \in {"gigabit", "slower", "error"} : run_state(throttled_probe, link)
  \/ \E ok \in BOOLEAN : SenderExits(ok)
  \/ StopReceiver

Finished == Done /\ UNCHANGED vars

Next == Network \/ Nodes \/ Controller \/ Finished \/ \E overflows \in BOOLEAN : Read(overflows)

Spec == Init /\ [][Next]_vars

-----------------------------------------------------------------------------
(* Faulty variants of the definitions that follow.                         *)

(* What waits in the socket is not looked at. *)
BacklogIsDrainedUnchecked == pending >= 0

(* A probe that did not say "throttled" is taken for a clear one.   *)
NotThrottled(state) == state.throttled # "set"

-----------------------------------------------------------------------------
(* The verdicts. *)

successful_sends == MaxSequence + 1 - failed_sends

ingress_loss == successful_sends - rx.unique
application_loss == successful_sends - pr.unique

(* counter_deltas() *)
Available(node, c) == \A when \in When : counters[node][when][c] # Unavailable
Delta(node, c) == counters[node]["after"][c] - counters[node]["before"][c]

link_is_gigabit_full(state) == state.link = "gigabit"
throttling_is_clear(state) == state.throttled = "clear"
throttled(state) == state.throttled = "set"
MetadataComplete(state) == state.throttled # "error" /\ state.link # "error"

(* "kernel socket backlog remained after the post-sender drain" *)
BacklogIsDrained == pending = 0

(* validity_reasons() is empty. *)
Valid ==
  /\ rx.unique <= successful_sends
  /\ pr.unique <= successful_sends
  /\ Len(processed) + spsc_overflow = Len(arrived)
  /\ BacklogIsDrained
  /\ \A c \in Counter : Available("receiver", c) => Delta("receiver", c) >= 0
  /\ Loopback \/
       /\ Available("receiver", "nic_pause") /\ Delta("receiver", "nic_pause") = 0
       /\ \A node \in Node, when \in When :
            ~throttled(states[node][when]) /\ MetadataComplete(states[node][when])

(* qualification_reasons() is empty. *)
Qualified ==
  /\ Valid
  /\ sound
  /\ failed_sends = 0
  /\ rx.unique = successful_sends
  /\ pr.unique = successful_sends
  /\ gaps(rx) = 0 /\ rx.duplicates = 0
  /\ rx.reordered * ReorderScale < Max({1, rx.unique})
  /\ gaps(pr) = 0 /\ pr.duplicates = 0
  /\ spsc_overflow = 0
  /\ \A node \in Node, c \in Counter : Available(node, c) /\ Delta(node, c) = 0
  /\ \A node \in Node, when \in When :
       link_is_gigabit_full(states[node][when]) /\ throttling_is_clear(states[node][when])

-----------------------------------------------------------------------------
(* Both trackers agree with the full record while the run goes on: every   *)
(* arrival counted once, unique() overstated by at most out_of_window(),   *)
(* and exact while nothing was out of the window.                          *)
TrackersAreExact ==
  /\ IsBracketed(rx, arrived) /\ IsExactInsideWindow(rx, arrived)
  /\ IsBracketed(pr, processed) /\ IsExactInsideWindow(pr, processed)

(* A loss inside the received range is never invented, and hidden only     *)
(* behind as many out_of_window() arrivals.                                *)
LossIsVisible == ShowsLoss(rx, arrived) /\ ShowsLoss(pr, processed)

(* An arrival is out of the window only if it is more than                 *)
(* (block_count - 1) * block_size behind the highest number.               *)
LookbackIsGuaranteed ==
  [][rx'.out_of_window # rx.out_of_window =>
       rx.high_watermark - arrived'[Len(arrived')] > Lookback]_vars

(* The losses of a valid run are real. What it reports as ingress loss was *)
(* dropped on the way to the receiver, never left unread in the socket     *)
(* when the receiver was stopped; what it reports as application loss was  *)
(* dropped or rejected by the queue. out_of_window() arrivals, which no    *)
(* verdict looks at, can hide as many losses, and nothing else can.        *)
ValidLossIsReal ==
  Done /\ Valid =>
    LET dropped == Cardinality(lost) - failed_sends
        unprocessed == Cardinality(Seen(arrived) \ Seen(processed))
    IN  /\ dropped - rx.out_of_window <= ingress_loss /\ ingress_loss <= dropped
        /\ dropped + unprocessed - pr.out_of_window <= application_loss
        /\ application_loss <= dropped + unprocessed

(* A qualified run is lossless: every number was received and processed,   *)
(* and, if nothing was out of the window, exactly once. The reordering     *)
(* allowance is the one way in: each of the reordered packets it allows    *)
(* may be a repeated one that hides a loss.                                *)
QualifiedIsLossless ==
  Done /\ Qualified =>
    /\ Cardinality(lost) <= rx.out_of_window
    /\ Cardinality(Sequence \ Seen(processed)) <= pr.out_of_window
    /\ rx.out_of_window = 0 => Len(processed) = MaxSequence + 1
    /\ rx.out_of_window <= rx.reordered

(* While the sender of a qualified run ran, nothing was dropped on either  *)
(* node, no pause frame was exchanged and neither node was throttled: the  *)
(* probes before and after enclose the timed interval, and throttling      *)
(* leaves a sticky bit. The counters of /proc/net/udp and of tc may have   *)
(* been missing unnoticed, and drops of sockets that have closed are no    *)
(* longer among the first; but what a socket drops is also counted in      *)
(* /proc/net/snmp, whose absence is noticed. Only what tc would have shown *)
(* may be missed.                                                          *)
QualifiedIsUndisturbed == Done /\ Qualified => disturbed \subseteq {"qdisc drop"}

=============================================================================
