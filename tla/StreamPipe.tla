----------------------------- MODULE StreamPipe -----------------------------
(***************************************************************************)
(* The firmware's streaming pipeline (components/sensor_streamer) at rate  *)
(* steps 1 to 4, from the sensor's FIFO to the collector's loss counter:   *)
(*                                                                         *)
(*   sensor FIFO --SPI--> sensor_task_fifo --ring buffer--> tx_task        *)
(*        --transport--> SeqTracker (rpi-collector/iis3dwb_packet.py)      *)
(*                                                                         *)
(* What wakes the sensor task is the matter of FifoInterrupt: here it may  *)
(* look at the FIFO at any time, early, late or by polling.  A sample is   *)
(* the ordinal number of its conversion.  Nothing in the repository calls  *)
(* sensor_streamer_stop, so `running' stays TRUE.                          *)
(***************************************************************************)
EXTENDS Integers, Sequences, Functions

CONSTANTS
  FifoSize,    \* words in the sensor's FIFO (512)
  BurstMax,    \* IIS3DWB_FIFO_BURST_MAX
  Decim,       \* rate_to_decim(rate_step): 1, 2, 4 or 8
  RingSize,    \* samples that fit in the ring buffer
  PerPacket,   \* STREAM_SAMPLES_PER_PACKET
  MaxSamples,  \* bound: conversions of the sensor
  MaxLost,     \* bound: packets the transport loses
  MaxOverruns, \* bound: status reads that find the overrun bit up
  Faults       \* which misfortunes of the environment may happen

FaultKinds ==
  { "spiError",    \* a register or FIFO read is refused before it starts
    "sendFails",   \* tx_send gives up on a packet
    "netLoss" }    \* a packet is sent and never arrives

ASSUME StreamAssumption ==
  /\ FifoSize \in Nat \ {0}
  /\ BurstMax \in Nat \ {0}
  /\ Decim \in Nat \ {0}
  /\ RingSize \in Nat \ {0}
  /\ PerPacket \in Nat \ {0}
  /\ MaxSamples \in Nat
  /\ MaxLost \in Nat
  /\ MaxOverruns \in Nat
  /\ Faults \subseteq FaultKinds

Samples == 1..MaxSamples
Packets == [seq : Nat, samples : Seq(Samples)]
NoSeq   == -1

VARIABLES
  born,        \* conversions so far
  fifo,        \* the sensor's FIFO, oldest first
  ovr,         \* its overrun bit: "off", "new" or, once read, "seen"
  blind,       \* history: a burst has cleared the bit before it was read
  pc,          \* where the sensor task stands
  avail,       \* its local avail
  burst,       \* the samples of the burst it has not looked at yet
  phase,       \* its local phase, modulo Decim
  dropped,     \* s.stats.dropped
  overruns,    \* s.stats.fifo_overrun
  ring,        \* s.ringbuf
  collected,   \* the samples tx_task has put into the packet
  seq,         \* s.seq
  net,         \* packets on their way
  netLost,     \* history: packets lost on their way
  last, lost,  \* SeqTracker
  got          \* history: the samples the collector has received

sensorVars == <<born, fifo, ovr, blind>>
taskVars   == <<pc, avail, burst, phase>>
statVars   == <<dropped, overruns>>
txVars     == <<collected, seq>>
netVars    == <<net, netLost>>
rxVars     == <<last, lost, got>>
vars == <<sensorVars, taskVars, statVars, ring, txVars, netVars, rxVars>>

TypeOK ==
  /\ born \in 0..MaxSamples
  /\ fifo \in Seq(Samples) /\ Len(fifo) <= FifoSize
  /\ ovr \in {"off", "new", "seen"}
  /\ blind \in BOOLEAN
  /\ pc \in {"wait", "status", "drain", "push", "end"}
  /\ avail \in 0..FifoSize
  /\ burst \in Seq(Samples) /\ Len(burst) <= BurstMax
  /\ pc = "push" => burst # <<>>
  /\ phase \in 0..(Decim - 1)
  /\ dropped \in Nat /\ overruns \in 0..MaxOverruns
  /\ ring \in Seq(Samples) /\ Len(ring) <= RingSize
  /\ collected \in Seq(Samples) /\ Len(collected) <= PerPacket
  /\ seq \in Nat
  /\ net \in Seq(Packets)
  /\ netLost \in 0..MaxLost
  /\ last \in Nat \cup {NoSeq}
  /\ lost \in Int
  /\ got \in Seq(Samples)

\* The sensor task has set up the FIFO and stands at the top of its loop.
Init ==
  /\ born = 0 /\ fifo = <<>> /\ ovr = "off" /\ blind = FALSE
  /\ pc = "wait" /\ avail = 0 /\ burst = <<>> /\ phase = 0
  /\ dropped = 0 /\ overruns = 0
  /\ ring = <<>>
  /\ collected = <<>> /\ seq = 0
  /\ net = <<>> /\ netLost = 0
  /\ last = NoSeq /\ lost = 0 /\ got = <<>>

-----------------------------------------------------------------------------
(* The sensor *)

\* Continuous mode: a full FIFO gives up its oldest sample and says so in FIFO_STATUS2.
Convert ==
  /\ born < MaxSamples
  /\ born' = born + 1
  /\ \/ Len(fifo) < FifoSize /\ fifo' = Append(fifo, born + 1) /\ UNCHANGED ovr
     \/ Len(fifo) = FifoSize /\ fifo' = Append(Tail(fifo), born + 1) /\ ovr' = "new"
  /\ UNCHANGED <<blind, taskVars, statVars, ring, txVars, netVars, rxVars>>

-----------------------------------------------------------------------------
(* sensor_task_fifo *)

\* The semaphore, its time-out or the polling delay ends the wait.
Wake ==
  /\ pc = "wait"
  /\ pc' = "status"
  /\ UNCHANGED <<sensorVars, avail, burst, phase, statVars, ring, txVars,
                 netVars, rxVars>>

Status ==
  /\ pc = "status"
  /\ pc' = "drain"
  /\ \/ /\ avail' = Len(fifo)
        /\ \/ ovr = "off" /\ UNCHANGED <<overruns, ovr>>
           \/ /\ ovr # "off"
              /\ overruns < MaxOverruns
              /\ overruns' = overruns + 1
              /\ ovr' = "seen"
     \/ /\ "spiError" \in Faults
        /\ avail' = 0
        /\ UNCHANGED <<overruns, ovr>>
  /\ UNCHANGED <<born, fifo, blind, burst, phase, dropped, ring, txVars,
                 netVars, rxVars>>

Want == IF avail > BurstMax THEN BurstMax ELSE avail

\* The FIFO has room again once it is read, so the overrun bit goes down: for good, if
\* the overrun came after the status.
ReadBurst ==
  /\ pc = "drain"
  /\ avail > 0
  /\ \/ /\ burst' = SubSeq(fifo, 1, Want)
        /\ fifo' = SubSeq(fifo, Want + 1, Len(fifo))
        /\ avail' = avail - Want
        /\ ovr' = "off"
        /\ blind' = (blind \/ ovr = "new")
        /\ pc' = "push"
     \/ /\ "spiError" \in Faults
        /\ pc' = "end"
        /\ UNCHANGED <<burst, fifo, avail, ovr, blind>>
  /\ UNCHANGED <<born, phase, statVars, ring, txVars, netVars, rxVars>>

\* Slip: what the full ring buffer refuses is not counted.
DropUncounted == dropped

DropCounted == dropped + 1

\* One sample of the burst: every Decim-th goes to the ring buffer, which refuses it
\* when full.
Push ==
  /\ pc = "push"
  /\ \/ phase # 0 /\ UNCHANGED <<ring, dropped>>
     \/ /\ phase = 0
        /\ Len(ring) < RingSize
        /\ ring' = Append(ring, Head(burst))
        /\ UNCHANGED dropped
     \/ /\ phase = 0
        /\ Len(ring) = RingSize
        /\ dropped' = DropCounted
        /\ UNCHANGED ring
  /\ phase' = (phase + 1) % Decim
  /\ burst' = Tail(burst)
  /\ pc' = IF Len(burst) = 1 THEN "drain" ELSE "push"
  /\ UNCHANGED <<sensorVars, avail, overruns, txVars, netVars, rxVars>>

DrainEnds ==
  /\ pc = "end" \/ (pc = "drain" /\ avail = 0)
  /\ avail' = 0
  /\ pc' = "wait"
  /\ UNCHANGED <<sensorVars, burst, phase, statVars, ring, txVars, netVars,
                 rxVars>>

-----------------------------------------------------------------------------
(* tx_task, the transport and the collector's SeqTracker *)

\* Slip: a sample is copied into the packet and left in the ring buffer.
RingAfterPeek == ring

RingAfterReceive == Tail(ring)

TxReceive ==
  /\ Len(collected) < PerPacket
  /\ ring # <<>>
  /\ collected' = Append(collected, Head(ring))
  /\ ring' = RingAfterReceive
  /\ UNCHANGED <<sensorVars, taskVars, statVars, seq, netVars, rxVars>>

\* The number is used up whether or not the packet leaves.
TxSend ==
  /\ Len(collected) = PerPacket
  /\ collected' = <<>>
  /\ seq' = seq + 1
  /\ \/ net' = Append(net, [seq |-> seq, samples |-> collected])
     \/ "sendFails" \in Faults /\ UNCHANGED net
  /\ UNCHANGED <<sensorVars, taskVars, statVars, ring, netLost, rxVars>>

NetLoses ==
  /\ "netLoss" \in Faults
  /\ netLost < MaxLost
  /\ net # <<>>
  /\ net' = Tail(net)
  /\ netLost' = netLost + 1
  /\ UNCHANGED <<sensorVars, taskVars, statVars, ring, txVars, rxVars>>

Gap(n) == IF last = NoSeq THEN 0 ELSE n - last - 1

Receive ==
  /\ net # <<>>
  /\ net' = Tail(net)
  /\ lost' = lost + Gap(Head(net).seq)
  /\ last' = Head(net).seq
  /\ got' = got \o Head(net).samples
  /\ UNCHANGED <<sensorVars, taskVars, statVars, ring, txVars, netLost>>

-----------------------------------------------------------------------------
SensorTask == Wake \/ Status \/ ReadBurst \/ Push \/ DrainEnds

TxTask == TxReceive \/ TxSend

Next == Convert \/ SensorTask \/ TxTask \/ NetLoses \/ Receive

Spec == Init /\ [][Next]_vars

-----------------------------------------------------------------------------
(* Properties *)

\* The collector gets samples in the order of conversion and none twice, whatever is
\* dropped, overwritten or lost on the way.
ReceivedInOrder == \A i, j \in DOMAIN got : i < j => got[i] < got[j]

\* Loss is not silent from one end to the other: as long as the device has counted no
\* dropped sample and no overrun and the collector has counted no lost packet, what the
\* collector got is every Decim-th sample without a hole.  A packet that tx_send gives up
\* on shows as a gap at the collector.  The one way past the counters is an overrun
\* between the reading of the status and the burst after it (blind).
LossIsCounted ==
  lost = 0 /\ dropped = 0 /\ overruns = 0 /\ ~blind =>
    \A i \in 1..(Len(got) - 1) : got[i + 1] = got[i] + Decim
=============================================================================
