------------------------ MODULE CollectChannelProofs ------------------------
(***************************************************************************)
(* Theorems about CollectChannel for every number of runs, packets and     *)
(* queue places and every set of faults.                                   *)
(***************************************************************************)
EXTENDS CollectChannelInv, TLAPS

\* The steps that touch the queue, the writer threads or their files.
LEMMA WriteSteps ==
  ASSUME [Next]_vars
  PROVE  \/ UNCHANGED <<queue, writeVars>>
         \/ \E s \in Starters : StartWriter(s)
         \/ \E r \in Runs : WriterGet(r) \/ WriterWrite(r) \/ WriterExit(r)
         \/ StopDrain \/ StopClose \/ Put
<1>1. ASSUME Trigger \/ StartManual \/ UserStops \/ CloseBegins \/ CloseEnds
           \/ StopCancel
      PROVE  UNCHANGED <<queue, writeVars>>
  BY <1>1 DEF writeVars, ctrlVars, dataVars, Trigger, StartManual, UserStops,
       CloseBegins, CloseEnds, StopCancel
<1>2. ASSUME StopJoin \/ StopResult \/ Emit \/ ServeResync \/ Read \/ Unplug
      PROVE  UNCHANGED <<queue, writeVars>>
  BY <1>2 DEF writeVars, ctrlVars, dataVars, StopJoin, StopResult, Emit,
       ServeResync, Read, Unplug
<1>3. ASSUME NEW s \in Starters, Preflight(s) \/ StartLock(s) \/ Setup(s) \/
           Flush(s) \/ FlushWait(s) \/ SetBase(s) \/ MakeWriter(s) \/
           RecordingOn(s) \/ MakeTimer(s) \/ ArmTimer(s)
      PROVE  UNCHANGED <<queue, writeVars>>
  BY <1>3 DEF writeVars, ctrlVars, dataVars, Preflight, StartLock, Setup,
       Flush, FlushWait, SetBase, MakeWriter, RecordingOn, MakeTimer, ArmTimer
<1>4. ASSUME NEW r \in Runs, TimerDue(r) \/ TimerStops(r)
      PROVE  UNCHANGED <<queue, writeVars>>
  BY <1>4 DEF writeVars, ctrlVars, dataVars, TimerDue, TimerStops
<1>5. CASE UNCHANGED vars
  BY <1>5 DEF vars, writeVars, ctrlVars, dataVars
<1> QED
  BY <1>1, <1>2, <1>3, <1>4, <1>5 DEF Next, Start, Stop, Writer

\* The steps that touch the link: its flags, its reader and its counters.
LEMMA LinkSteps ==
  ASSUME [Next]_vars
  PROVE  \/ UNCHANGED <<sent, linkVars, readVars>>
         \/ \E s \in Starters : Flush(s) \/ SetBase(s) \/ RecordingOn(s)
         \/ StopCancel \/ Emit \/ ServeResync \/ Read \/ Put \/ Unplug
<1>1. ASSUME Trigger \/ StartManual \/ UserStops \/ CloseBegins \/ CloseEnds
           \/ StopDrain \/ StopJoin \/ StopClose \/ StopResult
      PROVE  UNCHANGED <<sent, linkVars, readVars>>
  BY <1>1 DEF linkVars, readVars, readStats, dataVars, Trigger, StartManual,
       UserStops, CloseBegins, CloseEnds, StopDrain, StopJoin, StopClose,
       StopResult
<1>2. ASSUME NEW s \in Starters, Preflight(s) \/ StartLock(s) \/ Setup(s) \/
           FlushWait(s) \/ MakeWriter(s) \/ StartWriter(s) \/ MakeTimer(s) \/
           ArmTimer(s)
      PROVE  UNCHANGED <<sent, linkVars, readVars>>
  BY <1>2 DEF linkVars, readVars, readStats, dataVars, Preflight, StartLock,
       Setup, FlushWait, MakeWriter, StartWriter, MakeTimer, ArmTimer
<1>3. ASSUME NEW r \in Runs, TimerDue(r) \/ TimerStops(r) \/ WriterGet(r) \/
           WriterWrite(r) \/ WriterExit(r)
      PROVE  UNCHANGED <<sent, linkVars, readVars>>
  BY <1>3 DEF linkVars, readVars, readStats, dataVars, TimerDue, TimerStops,
       WriterGet, WriterWrite, WriterExit
<1>4. CASE UNCHANGED vars
  BY <1>4 DEF vars, linkVars, readVars, readStats, dataVars
<1> QED
  BY <1>1, <1>2, <1>3, <1>4 DEF Next, Start, Stop, Writer

\* The steps that move a starter.
LEMMA StartSteps ==
  ASSUME [Next]_vars
  PROVE  \/ UNCHANGED startVars
         \/ \E s \in Starters : Preflight(s) \/ StartLock(s) \/ Setup(s) \/
            Flush(s) \/ FlushWait(s) \/ SetBase(s) \/ MakeWriter(s) \/
            StartWriter(s) \/ RecordingOn(s) \/ MakeTimer(s) \/ ArmTimer(s)
         \/ Trigger \/ StartManual
<1>1. ASSUME UserStops \/ CloseBegins \/ CloseEnds \/ StopCancel \/ StopDrain
           \/ StopJoin
      PROVE  UNCHANGED startVars
  BY <1>1 DEF startVars, ctrlVars, UserStops, CloseBegins, CloseEnds,
       StopCancel, StopDrain, StopJoin
<1>2. ASSUME StopClose \/ StopResult \/ Emit \/ ServeResync \/ Read \/ Put \/
           Unplug
      PROVE  UNCHANGED startVars
  BY <1>2 DEF startVars, ctrlVars, StopClose, StopResult, Emit, ServeResync,
       Read, Put, Unplug
<1>3. ASSUME NEW r \in Runs, TimerDue(r) \/ TimerStops(r) \/ WriterGet(r) \/
           WriterWrite(r) \/ WriterExit(r)
      PROVE  UNCHANGED startVars
  BY <1>3 DEF startVars, ctrlVars, TimerDue, TimerStops, WriterGet,
       WriterWrite, WriterExit
<1>4. CASE UNCHANGED vars
  BY <1>4 DEF vars, startVars, ctrlVars
<1> QED
  BY <1>1, <1>2, <1>3, <1>4 DEF Next, Start, Stop, Writer

\* The steps that move a thread inside stop() or close().
LEMMA StopSteps ==
  ASSUME [Next]_vars
  PROVE  \/ UNCHANGED stopVars
         \/ \E r \in Runs : TimerStops(r)
         \/ UserStops \/ CloseBegins \/ StopCancel \/ StopDrain \/ StopJoin \/
            StopClose \/ StopResult
<1>1. ASSUME Trigger \/ StartManual \/ CloseEnds \/ Emit \/ ServeResync \/
           Read \/ Put \/ Unplug
      PROVE  UNCHANGED stopVars
  BY <1>1 DEF stopVars, ctrlVars, Trigger, StartManual, CloseEnds, Emit,
       ServeResync, Read, Put, Unplug
<1>2. ASSUME NEW s \in Starters, Preflight(s) \/ StartLock(s) \/ Setup(s) \/
           Flush(s) \/ FlushWait(s)
      PROVE  UNCHANGED stopVars
  BY <1>2 DEF stopVars, ctrlVars, Preflight, StartLock, Setup, Flush,
       FlushWait
<1>3. ASSUME NEW s \in Starters, SetBase(s) \/ MakeWriter(s) \/ StartWriter(s)
           \/ RecordingOn(s) \/ MakeTimer(s) \/ ArmTimer(s)
      PROVE  UNCHANGED stopVars
  BY <1>3 DEF stopVars, ctrlVars, SetBase, MakeWriter, StartWriter,
       RecordingOn, MakeTimer, ArmTimer
<1>4. ASSUME NEW r \in Runs, TimerDue(r) \/ WriterGet(r) \/ WriterWrite(r) \/
           WriterExit(r)
      PROVE  UNCHANGED stopVars
  BY <1>4 DEF stopVars, ctrlVars, TimerDue, WriterGet, WriterWrite, WriterExit
<1>5. CASE UNCHANGED vars
  BY <1>5 DEF vars, stopVars, ctrlVars
<1> QED
  BY <1>1, <1>2, <1>3, <1>4, <1>5 DEF Next, Start, Stop, Writer

\* The steps that touch the channel's own fields or a timer.
LEMMA ChannelSteps ==
  ASSUME [Next]_vars
  PROVE  \/ UNCHANGED <<alive, chanVars, timer>>
         \/ \E s \in Starters : StartLock(s) \/ SetBase(s) \/ MakeWriter(s) \/
            MakeTimer(s) \/ ArmTimer(s)
         \/ \E r \in Runs : TimerDue(r) \/ TimerStops(r)
         \/ UserStops \/ CloseBegins \/ CloseEnds \/ StopCancel \/ StopResult
<1>1. ASSUME Trigger \/ StartManual \/ StopDrain \/ StopJoin \/ StopClose \/
           Emit \/ ServeResync \/ Read \/ Put \/ Unplug
      PROVE  UNCHANGED <<alive, chanVars, timer>>
  BY <1>1 DEF chanVars, ctrlVars, Trigger, StartManual, StopDrain, StopJoin,
       StopClose, Emit, ServeResync, Read, Put, Unplug
<1>2. ASSUME NEW s \in Starters, Preflight(s) \/ Setup(s) \/ Flush(s) \/
           FlushWait(s) \/ StartWriter(s) \/ RecordingOn(s)
      PROVE  UNCHANGED <<alive, chanVars, timer>>
  BY <1>2 DEF chanVars, ctrlVars, Preflight, Setup, Flush, FlushWait,
       StartWriter, RecordingOn
<1>3. ASSUME NEW r \in Runs, WriterGet(r) \/ WriterWrite(r) \/ WriterExit(r)
      PROVE  UNCHANGED <<alive, chanVars, timer>>
  BY <1>3 DEF chanVars, ctrlVars, WriterGet, WriterWrite, WriterExit
<1>4. CASE UNCHANGED vars
  BY <1>4 DEF vars, chanVars, ctrlVars
<1> QED
  BY <1>1, <1>2, <1>3, <1>4 DEF Next, Start, Stop, Writer

-----------------------------------------------------------------------------
(* Type correctness, one group of variables at a time *)

LEMMA EmptySeq == ASSUME NEW S PROVE <<>> \in Seq(S)
OBVIOUS

LEMMA InitTyped == Init => TypeOK
<1> SUFFICES ASSUME Init PROVE TypeOK
  OBVIOUS
<1>1. ChannelOK /\ StartOK
  BY ChannelAssumption DEF Init, ChannelOK, StartOK, Runs, StartPoints, SetupPoints
<1>2. StopOK
  BY DEF Init, StopOK, StopPoints, NoRun
<1>3. LinkOK
  <2>1. sent \in 0..MaxPackets
    BY ChannelAssumption DEF Init
  <2>2. osbuf \in Seq(Packets)
    BY EmptySeq DEF Init
  <2>3. /\ reader \in {"loop", "put", "dead"}
        /\ hand \in Packets \cup {NoPacket}
        /\ reader = "put" => hand \in Packets
    BY DEF Init
  <2>4. /\ recording \in BOOLEAN /\ resyncReq \in BOOLEAN
        /\ resyncDone \in BOOLEAN /\ seen \in BOOLEAN
    BY DEF Init
  <2>5. lastSeq \in Packets \cup {NoPacket} /\ lost \in Int /\ drops \in Nat
    BY DEF Init
  <2> QED
    BY <2>1, <2>2, <2>3, <2>4, <2>5 DEF LinkOK
<1>4. WriteOK
  BY ChannelAssumption, EmptySeq DEF Init, WriteOK, NoPacket
<1> QED
  BY <1>1, <1>2, <1>3, <1>4 DEF TypeOK

LEMMA MoveTyped ==
  ASSUME StartOK, NEW s \in Starters, NEW from, NEW to \in StartPoints,
         Move(s, from, to)
  PROVE  pc' \in [Starters -> StartPoints]
BY DEF StartOK, Move

LEMMA StartTyped ==
  ASSUME TypeOK, [Next]_vars
  PROVE  StartOK'
<1>1. CASE UNCHANGED startVars
  BY <1>1 DEF TypeOK, StartOK, startVars
<1>2. CASE Trigger \/ StartManual
  BY <1>2 DEF TypeOK, StartOK, Trigger, StartManual, Move, StartPoints, SetupPoints
<1>3. ASSUME NEW s \in Starters, Preflight(s) \/ Setup(s) \/ FlushWait(s)
      PROVE  StartOK'
  BY <1>3 DEF TypeOK, StartOK, Preflight, Setup, FlushWait, Move, StartPoints, SetupPoints
<1>4. ASSUME NEW s \in Starters, StartLock(s)
      PROVE  StartOK'
  <2>1. pc' \in [Starters -> StartPoints]
    BY <1>4 DEF TypeOK, StartOK, StartLock, Move, StartPoints, SetupPoints
  <2>2. /\ att' \in [Starters -> Runs \cup {NoRun}]
        /\ state = "IDLE" => att'[s] \in Runs
    BY <1>4, ChannelAssumption DEF TypeOK, ChannelOK, StartOK, StartLock, Runs
  <2> QED
    BY <1>4, <2>1, <2>2 DEF TypeOK, StartOK, StartLock, Move, SetupPoints
<1>5. ASSUME NEW s \in Starters, Flush(s)
      PROVE  StartOK'
  <2>1. pc' \in [Starters -> StartPoints]
    BY <1>5 DEF TypeOK, StartOK, Flush, Move, StartPoints, SetupPoints
  <2>2. mark' \in [Runs -> 0..MaxPackets]
    BY <1>5 DEF TypeOK, StartOK, LinkOK, Flush
  <2> QED
    BY <1>5, <2>1, <2>2 DEF TypeOK, StartOK, Flush, Move, SetupPoints
<1>6. ASSUME NEW s \in Starters, SetBase(s) \/ MakeWriter(s)
      PROVE  StartOK'
  BY <1>6 DEF TypeOK, StartOK, SetBase, MakeWriter, Move, StartPoints, SetupPoints
<1>7. ASSUME NEW s \in Starters, StartWriter(s) \/ RecordingOn(s) \/ MakeTimer(s) \/
           ArmTimer(s)
      PROVE  StartOK'
  BY <1>7 DEF TypeOK, StartOK, StartWriter, RecordingOn, MakeTimer, ArmTimer, Move,
              StartPoints, SetupPoints
<1> QED
  BY StartSteps, <1>1, <1>2, <1>3, <1>4, <1>5, <1>6, <1>7

LEMMA StopTyped ==
  ASSUME TypeOK, [Next]_vars
  PROVE  StopOK'
<1>1. CASE UNCHANGED stopVars
  BY <1>1 DEF TypeOK, StopOK, stopVars
<1>2. ASSUME NEW r \in Runs, TimerStops(r)
      PROVE  StopOK'
  BY <1>2 DEF TypeOK, StopOK, TimerStops, StopLock, StopReturnsNone, StopPoints
<1>3. CASE UserStops \/ CloseBegins
  BY <1>3 DEF TypeOK, StopOK, UserStops, CloseBegins, StopLock, StopReturnsNone, StopPoints,
              stopVars
<1>4. CASE StopCancel
  BY <1>4 DEF TypeOK, ChannelOK, StopOK, StopCancel, StopMoves, StopRaises, StopPoints, NoRun
<1>5. CASE StopDrain \/ StopJoin
  BY <1>5 DEF TypeOK, StopOK, StopDrain, StopJoin, StopMoves, AfterDrain, StopPoints
<1>6. CASE StopClose
  BY <1>6 DEF TypeOK, StopOK, StopClose, StopMoves, StopRaises, StopPoints, NoRun
<1>7. CASE StopResult
  BY <1>7 DEF TypeOK, StopOK, StopResult, StopPoints, NoRun
<1> QED
  BY StopSteps, <1>1, <1>2, <1>3, <1>4, <1>5, <1>6, <1>7

LEMMA ChannelTyped ==
  ASSUME TypeOK, [Next]_vars
  PROVE  ChannelOK'
<1>1. CASE UNCHANGED <<alive, chanVars, timer>>
  BY <1>1 DEF TypeOK, ChannelOK, chanVars
<1>2. ASSUME NEW s \in Starters, StartLock(s)
      PROVE  ChannelOK'
  BY <1>2, ChannelAssumption DEF TypeOK, ChannelOK, StartLock, Runs, ctrlVars
<1>3. ASSUME NEW s \in Starters, SetBase(s)
      PROVE  ChannelOK'
  BY <1>3 DEF TypeOK, ChannelOK, LinkOK, SetBase
<1>4. ASSUME NEW s \in Starters, MakeWriter(s) \/ MakeTimer(s) \/ ArmTimer(s)
      PROVE  ChannelOK'
  BY <1>4 DEF TypeOK, ChannelOK, StartOK, MakeWriter, MakeTimer, ArmTimer, Move,
              SetupPoints, chanVars
<1>5. ASSUME NEW r \in Runs, TimerDue(r)
      PROVE  ChannelOK'
  BY <1>5 DEF TypeOK, ChannelOK, TimerDue, chanVars
<1>6. ASSUME NEW r \in Runs, TimerStops(r)
      PROVE  ChannelOK'
  BY <1>6 DEF TypeOK, ChannelOK, TimerStops, StopLock, StopReturnsNone, chanVars
<1>7. CASE UserStops \/ CloseBegins \/ CloseEnds
  BY <1>7 DEF TypeOK, ChannelOK, UserStops, CloseBegins, CloseEnds, StopLock,
              StopReturnsNone, chanVars
<1>8. CASE StopCancel
  BY <1>8 DEF TypeOK, ChannelOK, StopCancel, Cancelled, NoRun
<1>9. CASE StopResult
  BY <1>9 DEF TypeOK, ChannelOK, StopResult, NoRun
<1> QED
  BY ChannelSteps, <1>1, <1>2, <1>3, <1>4, <1>5, <1>6, <1>7, <1>8, <1>9

LEMMA LinkTyped ==
  ASSUME TypeOK, [Next]_vars
  PROVE  LinkOK'
<1>1. CASE UNCHANGED <<sent, linkVars, readVars>>
  BY <1>1 DEF TypeOK, LinkOK, linkVars, readVars, readStats
<1>2. ASSUME NEW s \in Starters, Flush(s)
      PROVE  LinkOK'
  BY <1>2, EmptySeq DEF TypeOK, LinkOK, Flush, linkVars, readStats
<1>3. ASSUME NEW s \in Starters, SetBase(s)
      PROVE  LinkOK'
  BY <1>3 DEF TypeOK, LinkOK, SetBase, linkVars
<1>3a. ASSUME NEW s \in Starters, RecordingOn(s)
      PROVE  LinkOK'
  BY <1>3a DEF TypeOK, LinkOK, RecordingOn, readVars, readStats
<1>4. CASE StopCancel
  BY <1>4 DEF TypeOK, LinkOK, StopCancel, readVars, readStats
<1>5. CASE Emit
  <2>1. sent' \in 0..MaxPackets /\ sent + 1 \in Packets
    BY <1>5, ChannelAssumption DEF TypeOK, LinkOK, Emit, Packets
  <2>2. osbuf' \in Seq(Packets)
    BY <1>5, <2>1 DEF TypeOK, LinkOK, Emit
  <2> QED
    BY <1>5, <2>1, <2>2 DEF TypeOK, LinkOK, Emit, linkVars, readStats
<1>6. CASE ServeResync
  BY <1>6, EmptySeq DEF TypeOK, LinkOK, ServeResync, NoPacket
<1>7. CASE Read
  BY <1>7, ChannelAssumption DEF TypeOK, LinkOK, Read, Packets, NoPacket, Gap, linkVars
<1>8. CASE Put
  BY <1>8 DEF TypeOK, LinkOK, Put, NoPacket, linkVars
<1>9. CASE Unplug
  BY <1>9 DEF TypeOK, LinkOK, Unplug, linkVars, readStats
<1> QED
  BY LinkSteps, <1>1, <1>2, <1>3, <1>3a, <1>4, <1>5, <1>6, <1>7, <1>8, <1>9

LEMMA WriteTyped ==
  ASSUME TypeOK, [Next]_vars
  PROVE  WriteOK'
<1>1. CASE UNCHANGED <<queue, writeVars>>
  BY <1>1 DEF TypeOK, WriteOK, writeVars
<1>2. ASSUME NEW s \in Starters, StartWriter(s)
      PROVE  WriteOK'
  <2>1. att[s] \in Runs
    BY <1>2 DEF TypeOK, StartOK, StartWriter, Move, SetupPoints
  <2>2. CASE UNCHANGED <<served, wthread, wfile, wlast, wstop>>
    BY <1>2, <2>2 DEF TypeOK, WriteOK, StartWriter
  <2>3. CASE /\ chWriter # NoRun
             /\ served' = [served EXCEPT ![att[s]] = chWriter]
             /\ wthread' = [wthread EXCEPT ![att[s]] = "loop"]
             /\ wfile' = [wfile EXCEPT ![att[s]] = "open"]
             /\ wlast' = [wlast EXCEPT ![chWriter] = att[s]]
             /\ wstop' = [wstop EXCEPT ![chWriter] = FALSE]
    <3>1. chWriter \in Runs
      BY <2>3 DEF TypeOK, ChannelOK
    <3>2. served' \in [Runs -> Runs \cup {NoRun}] /\ wlast' \in [Runs -> Runs \cup {NoRun}]
      BY <2>1, <2>3, <3>1 DEF TypeOK, WriteOK
    <3>3. /\ wthread' \in [Runs -> {"none", "loop", "write", "exit"}]
          /\ wfile' \in [Runs -> {"none", "open", "closed"}]
          /\ wstop' \in [Runs -> BOOLEAN]
      BY <2>3 DEF TypeOK, WriteOK
    <3>4. \A t \in Runs : /\ wthread'[t] # "none" => served'[t] \in Runs
                          /\ wthread'[t] = "write" => whand[t] \in Packets
      BY <2>1, <2>3, <3>1 DEF TypeOK, WriteOK
    <3> QED
      BY <1>2, <3>2, <3>3, <3>4 DEF TypeOK, WriteOK, StartWriter
  <2> QED
    BY <1>2, <2>2, <2>3 DEF StartWriter
<1>3. CASE StopDrain \/ StopClose
  BY <1>3 DEF TypeOK, WriteOK, StopDrain, StopClose, Closed
<1>4. CASE Put
  <2>1. queue' \in Seq(Packets) /\ Len(queue') <= QueueMax
    <3>1. CASE queue' = Append(queue, hand) /\ ~QueueFull
      BY <1>4, <3>1, ChannelAssumption DEF TypeOK, LinkOK, WriteOK, Put, QueueFull
    <3>2. CASE UNCHANGED queue
      BY <3>2 DEF TypeOK, WriteOK
    <3> QED
      BY <1>4, <3>1, <3>2 DEF Put
  <2> QED
    BY <1>4, <2>1 DEF TypeOK, WriteOK, Put, writeVars
<1>5. ASSUME NEW r \in Runs, WriterGet(r)
      PROVE  WriteOK'
  <2>1. queue' \in Seq(Packets) /\ Len(queue') <= QueueMax /\ Head(queue) \in Packets
    BY <1>5, ChannelAssumption DEF TypeOK, WriteOK, WriterGet, AfterGet
  <2> QED
    BY <1>5, <2>1 DEF TypeOK, WriteOK, WriterGet
<1>6. ASSUME NEW r \in Runs, WriterWrite(r)
      PROVE  WriteOK'
  <2>1. file' \in [Runs -> Seq(Packets)]
    <3>1. served[r] \in Runs /\ Append(file[served[r]], whand[r]) \in Seq(Packets)
      BY <1>6 DEF TypeOK, WriteOK, WriterWrite
    <3> QED
      BY <1>6, <3>1 DEF TypeOK, WriteOK, WriterWrite
  <2> QED
    BY <1>6, <2>1 DEF TypeOK, WriteOK, WriterWrite
<1>7. ASSUME NEW r \in Runs, WriterExit(r)
      PROVE  WriteOK'
  BY <1>7 DEF TypeOK, WriteOK, WriterExit
<1> QED
  BY WriteSteps, <1>1, <1>2, <1>3, <1>4, <1>5, <1>6, <1>7

\* Every variable keeps its type, whatever the bounds and whatever may fail.
THEOREM TypeCorrect == Spec => []TypeOK
<1>1. TypeOK /\ [Next]_vars => TypeOK'
  BY StartTyped, StopTyped, ChannelTyped, LinkTyped, WriteTyped DEF TypeOK
<1> QED
  BY InitTyped, <1>1, PTL DEF Spec

-----------------------------------------------------------------------------
(* Increasing sequences of numbers: what taking one off and adding one does *)

LEMMA TailFacts ==
  ASSUME NEW S \in SUBSET Int, NEW s \in Seq(S), s # <<>>, IsIncreasing(s)
  PROVE  /\ IsIncreasing(Tail(s))
         /\ Range(Tail(s)) \subseteq Range(s)
         /\ Head(s) \in Range(s)
         /\ Below({Head(s)}, Range(Tail(s)))
<1>1. /\ Tail(s) \in Seq(S)
      /\ Len(Tail(s)) = Len(s) - 1
      /\ \A i \in 1..Len(Tail(s)) : Tail(s)[i] = s[i + 1] /\ i + 1 \in 1..Len(s)
      /\ Len(s) \in Nat /\ Len(s) > 0
  OBVIOUS
<1>2. DOMAIN s = 1..Len(s) /\ DOMAIN Tail(s) = 1..Len(Tail(s))
  BY <1>1
<1>3. Head(s) = s[1] /\ 1 \in DOMAIN s
  BY <1>1, <1>2
<1>4. IsIncreasing(Tail(s))
  BY <1>1, <1>2 DEF IsIncreasing
<1>5. Range(Tail(s)) \subseteq Range(s)
  BY <1>1, <1>2 DEF Range
<1>6. Below({Head(s)}, Range(Tail(s)))
  BY <1>1, <1>2, <1>3 DEF IsIncreasing, Below, Range
<1> QED
  BY <1>3, <1>4, <1>5, <1>6 DEF Range

LEMMA AppendFacts ==
  ASSUME NEW S \in SUBSET Int, NEW s \in Seq(S), IsIncreasing(s),
         NEW x \in S, Below(Range(s), {x})
  PROVE  /\ IsIncreasing(Append(s, x))
         /\ Range(Append(s, x)) = Range(s) \cup {x}
<1>1. /\ Append(s, x) \in Seq(S)
      /\ Len(Append(s, x)) = Len(s) + 1
      /\ \A i \in 1..Len(s) : Append(s, x)[i] = s[i]
      /\ Append(s, x)[Len(s) + 1] = x
      /\ Len(s) \in Nat
  OBVIOUS
<1>2. DOMAIN s = 1..Len(s) /\ DOMAIN Append(s, x) = 1..(Len(s) + 1)
  BY <1>1
<1>3. \A i \in DOMAIN s : s[i] < x /\ s[i] \in S
  BY <1>2 DEF Below, Range
<1>4. IsIncreasing(Append(s, x))
  BY <1>1, <1>2, <1>3 DEF IsIncreasing
<1>5. Range(Append(s, x)) = Range(s) \cup {x}
  BY <1>1, <1>2 DEF Range
<1> QED
  BY <1>4, <1>5

LEMMA AppendInjective ==
  ASSUME NEW S, NEW s \in Seq(S), IsInjective(s), NEW x \in S, x \notin Range(s)
  PROVE  /\ IsInjective(Append(s, x))
         /\ Range(Append(s, x)) = Range(s) \cup {x}
<1>1. /\ Len(Append(s, x)) = Len(s) + 1
      /\ \A i \in 1..Len(s) : Append(s, x)[i] = s[i]
      /\ Append(s, x)[Len(s) + 1] = x
      /\ Len(s) \in Nat
      /\ DOMAIN s = 1..Len(s) /\ DOMAIN Append(s, x) = 1..(Len(s) + 1)
  OBVIOUS
<1>2. \A i \in 1..Len(s) : s[i] # x
  BY <1>1 DEF Range
<1>3. IsInjective(Append(s, x))
  BY <1>1, <1>2 DEF IsInjective
<1> QED
  BY <1>1, <1>3 DEF Range

LEMMA EmptyFacts == IsIncreasing(<<>>) /\ Range(<<>>) = {}
BY DEF IsIncreasing, Range

-----------------------------------------------------------------------------
(* StartsApart: a start() makes a run of its own *)

\* Where a starter that is preparing a run has come from.
LEMMA StarterMoves ==
  ASSUME TypeOK, [Next]_vars, NEW s \in Starters, pc'[s] \in SetupPoints
  PROVE  \/ pc'[s] = pc[s] /\ att'[s] = att[s]
         \/ StartLock(s) /\ state = "IDLE" /\ pc'[s] = "setup"
         \/ Setup(s) /\ pc[s] = "setup" /\ pc'[s] = "flush" /\ att'[s] = att[s]
         \/ Flush(s) /\ att'[s] = att[s]
         \/ pc[s] = "flushWait" /\ pc'[s] = "base" /\ att'[s] = att[s]
         \/ SetBase(s) /\ pc[s] = "base" /\ pc'[s] = "mkWriter" /\ att'[s] = att[s]
         \/ pc[s] = "mkWriter" /\ pc'[s] = "wStart" /\ att'[s] = att[s]
         \/ pc[s] = "wStart" /\ pc'[s] = "recOn" /\ att'[s] = att[s]
         \/ pc[s] = "recOn" /\ pc'[s] = "mkTimer" /\ att'[s] = att[s]
         \/ pc[s] = "mkTimer" /\ pc'[s] = "armTimer" /\ att'[s] = att[s]
<1>1. CASE UNCHANGED startVars
  BY <1>1 DEF startVars
<1>2. ASSUME NEW t \in Starters, Preflight(t) \/ StartLock(t)
      PROVE  \/ pc'[s] = pc[s] /\ att'[s] = att[s]
             \/ StartLock(s) /\ state = "IDLE" /\ pc'[s] = "setup"
  BY <1>2 DEF Preflight, StartLock, Move, TypeOK, StartOK, SetupPoints
<1>3. ASSUME NEW t \in Starters, Setup(t) \/ Flush(t) \/ FlushWait(t) \/ SetBase(t)
      PROVE  \/ pc'[s] = pc[s] /\ att'[s] = att[s]
             \/ Setup(s) /\ pc[s] = "setup" /\ pc'[s] = "flush" /\ att'[s] = att[s]
             \/ Flush(s) /\ att'[s] = att[s]
             \/ pc[s] = "flushWait" /\ pc'[s] = "base" /\ att'[s] = att[s]
             \/ SetBase(s) /\ pc[s] = "base" /\ pc'[s] = "mkWriter" /\ att'[s] = att[s]
  <2>1. CASE t # s
    BY <1>3, <2>1 DEF Setup, Flush, FlushWait, SetBase, Move, TypeOK, StartOK
  <2>2. CASE t = s
    BY <1>3, <2>2 DEF Setup, Flush, FlushWait, SetBase, Move, TypeOK, StartOK, SetupPoints
  <2> QED
    BY <2>1, <2>2
<1>4. ASSUME NEW t \in Starters, MakeWriter(t) \/ StartWriter(t) \/ RecordingOn(t) \/
           MakeTimer(t) \/ ArmTimer(t)
      PROVE  \/ pc'[s] = pc[s] /\ att'[s] = att[s]
             \/ pc[s] = "mkWriter" /\ pc'[s] = "wStart" /\ att'[s] = att[s]
             \/ pc[s] = "wStart" /\ pc'[s] = "recOn" /\ att'[s] = att[s]
             \/ pc[s] = "recOn" /\ pc'[s] = "mkTimer" /\ att'[s] = att[s]
             \/ pc[s] = "mkTimer" /\ pc'[s] = "armTimer" /\ att'[s] = att[s]
  BY <1>4 DEF MakeWriter, StartWriter, RecordingOn, MakeTimer, ArmTimer, Move, TypeOK, StartOK, SetupPoints
<1>5. CASE Trigger \/ StartManual
  BY <1>5 DEF Trigger, StartManual, Move, TypeOK, StartOK, SetupPoints
<1> QED
  BY <1>1, <1>2, <1>3, <1>4, <1>5, StartSteps

LEMMA ApartInit == Init => StartsApart
BY DEF Init, StartsApart, Preparing, SetupPoints, Unstarted

\* A new start() takes a number of its own, and starts one thread under it.
LEMMA ApartStep ==
  ASSUME TypeOK, StartsApart, [Next]_vars
  PROVE  StartsApart'
<1>0. nRuns \in 0..MaxRuns /\ MaxRuns \in Int
  BY ChannelAssumption DEF TypeOK, ChannelOK
<1>1. nRuns \in Int /\ (nRuns' = nRuns \/ nRuns' = nRuns + 1)
  <2>1. CASE \E s \in Starters : StartLock(s) \/ SetBase(s) \/ MakeWriter(s) \/ MakeTimer(s) \/
                                   ArmTimer(s)
    BY <1>0, <2>1 DEF chanVars, StartLock, SetBase, MakeWriter, MakeTimer, ArmTimer
  <2>2. CASE \E r \in Runs : TimerDue(r) \/ TimerStops(r)
    BY <1>0, <2>2 DEF chanVars, TimerDue, TimerStops, StopLock, StopReturnsNone
  <2>3. CASE UserStops \/ CloseBegins \/ CloseEnds \/ StopCancel \/ StopResult
    BY <1>0, <2>3
    DEF chanVars, UserStops, CloseBegins, CloseEnds, StopCancel, StopResult, StopLock, StopReturnsNone
  <2> QED
    BY <1>0, <2>1, <2>2, <2>3, ChannelSteps DEF chanVars
<1>2. \/ UNCHANGED served
      \/ \E s \in Starters : /\ StartWriter(s) /\ att[s] \in Runs /\ pc[s] = "wStart"
                            /\ served' = [served EXCEPT ![att[s]] = chWriter]
  BY WriteSteps
  DEF writeVars, StartWriter, WriterGet, WriterWrite, WriterExit, StopDrain, StopClose, Put,
      Move, TypeOK, StartOK, SetupPoints
<1>3. ASSUME NEW s \in Starters, Preparing(s)'
      PROVE  \/ Preparing(s) /\ att'[s] = att[s]
             \/ StartLock(s) /\ att'[s] = nRuns + 1 /\ nRuns' = nRuns + 1 /\ pc'[s] = "setup"
                /\ \A t \in Starters \ {s} : pc'[t] = pc[t] /\ att'[t] = att[t]
  BY <1>3, StarterMoves DEF Preparing, StartLock, Flush, Setup, SetBase, Move, SetupPoints,
                            TypeOK, StartOK
<1>4. \A s \in Starters : Preparing(s)' => att'[s] <= nRuns'
  BY <1>1, <1>3 DEF StartsApart, TypeOK, StartOK, Preparing, Runs
<1>5. ASSUME NEW s \in Starters, NEW t \in Starters, Preparing(s)', Preparing(t)', s # t
      PROVE  att'[s] # att'[t]
  <2>1. \A u \in Starters : Preparing(u) => att[u] # nRuns + 1
    BY <1>1 DEF StartsApart, TypeOK, StartOK, Preparing, Runs
  <2> QED
    BY <1>3, <1>5, <2>1 DEF StartsApart, Preparing
<1>6. ASSUME NEW s \in Starters, pc'[s] \in Unstarted
      PROVE  served'[att'[s]] = NoRun
  <2>1. Preparing(s)'
    BY <1>6 DEF Preparing, Unstarted
  <2>2. CASE StartLock(s) /\ att'[s] = nRuns + 1 /\ nRuns' = nRuns + 1
    <3>1. UNCHANGED served /\ nRuns + 1 \in Runs
      BY <2>2, <1>0 DEF StartLock, dataVars, writeVars, Runs
    <3> QED
      BY <2>2, <3>1, <1>1 DEF StartsApart
  <2>3. CASE Preparing(s) /\ att'[s] = att[s]
    <3>1. pc[s] \in Unstarted /\ ~StartWriter(s)
      BY <1>6, <2>1, <2>3, StarterMoves
      DEF Preparing, Unstarted, SetupPoints, StartLock, Setup, Flush, SetBase, StartWriter,
          Move, TypeOK, StartOK
    <3>2. ASSUME NEW t \in Starters, StartWriter(t), att[t] \in Runs, pc[t] = "wStart", t # s,
                 served' = [served EXCEPT ![att[t]] = chWriter]
          PROVE  served'[att[s]] = served[att[s]]
      BY <2>3, <3>2 DEF StartsApart, Preparing, SetupPoints, TypeOK, StartOK, WriteOK
    <3> QED
      BY <1>2, <2>3, <3>1, <3>2 DEF StartsApart
  <2> QED
    BY <1>3, <2>1, <2>2, <2>3
<1>7. ASSUME NEW t \in Runs, served'[t] # NoRun
      PROVE  t <= nRuns'
  <2>1. t <= nRuns
    BY <1>2, <1>7 DEF StartsApart, Preparing, SetupPoints, TypeOK, WriteOK
  <2> QED
    BY <1>1, <2>1 DEF Runs
<1> QED
  BY <1>4, <1>5, <1>6, <1>7 DEF StartsApart

-----------------------------------------------------------------------------
(* Every file in order and no packet in two places *)

fifoVars == <<sent, osbuf, reader, hand, queue, wthread, served, whand, file>>

\* The steps that move a packet or a thread that holds one.
LEMMA FifoSteps ==
  ASSUME [Next]_vars
  PROVE  \/ UNCHANGED fifoVars
         \/ \E s \in Starters : Flush(s) \/ StartWriter(s)
         \/ \E r \in Runs : WriterGet(r) \/ WriterWrite(r) \/ WriterExit(r)
         \/ Emit \/ ServeResync \/ Read \/ Put \/ Unplug
<1>1. ASSUME Trigger \/ StartManual \/ UserStops \/ CloseBegins \/ CloseEnds
      PROVE  UNCHANGED fifoVars
  BY <1>1 DEF fifoVars, readVars, readStats, writeVars, dataVars, Trigger,
       StartManual, UserStops, CloseBegins, CloseEnds
<1>2. ASSUME StopCancel \/ StopDrain \/ StopJoin \/ StopClose \/ StopResult
      PROVE  UNCHANGED fifoVars
  BY <1>2 DEF fifoVars, readVars, readStats, writeVars, dataVars, StopCancel,
       StopDrain, StopJoin, StopClose, StopResult
<1>3. ASSUME NEW s \in Starters, Preflight(s) \/ StartLock(s) \/ Setup(s) \/
           FlushWait(s) \/ SetBase(s) \/ MakeWriter(s) \/ RecordingOn(s) \/
           MakeTimer(s) \/ ArmTimer(s)
      PROVE  UNCHANGED fifoVars
  BY <1>3 DEF fifoVars, readVars, readStats, writeVars, dataVars, Preflight,
       StartLock, Setup, FlushWait, SetBase, MakeWriter, RecordingOn,
       MakeTimer, ArmTimer
<1>4. ASSUME NEW r \in Runs, TimerDue(r) \/ TimerStops(r)
      PROVE  UNCHANGED fifoVars
  BY <1>4 DEF fifoVars, readVars, readStats, writeVars, dataVars, TimerDue,
       TimerStops
<1>5. CASE UNCHANGED vars
  BY <1>5 DEF vars, fifoVars, readVars, readStats, writeVars, dataVars
<1> QED
  BY <1>1, <1>2, <1>3, <1>4, <1>5 DEF Next, Start, Stop, Writer

\* What the packet positions are numbers of.
LEMMA PositionsTyped ==
  ASSUME TypeOK
  PROVE  /\ Packets \in SUBSET Int
         /\ Range(osbuf) \subseteq Packets
         /\ Range(queue) \subseteq Packets
         /\ \A r \in Runs : Contents(r) \subseteq Packets
         /\ InReader \subseteq Packets
         /\ InWriters \subseteq Packets
         /\ Written \subseteq Packets
<1>1. Packets \in SUBSET Int
  BY ChannelAssumption DEF Packets
<1>2. \A s \in Seq(Packets) : Range(s) \subseteq Packets
  BY DEF Range
<1>3. Range(osbuf) \subseteq Packets /\ Range(queue) \subseteq Packets
  BY <1>2 DEF TypeOK, LinkOK, WriteOK
<1>4. \A r \in Runs : Contents(r) \subseteq Packets
  BY <1>2 DEF TypeOK, WriteOK, Contents
<1>5. InReader \subseteq Packets /\ InWriters \subseteq Packets
  BY DEF TypeOK, LinkOK, WriteOK, InReader, InWriters, Holding
<1> QED
  BY <1>1, <1>3, <1>4, <1>5 DEF Written

\* Steps that throw packets away, or only end a thread's hold on one.
LEMMA FifoShrinks ==
  ASSUME TypeOK, FifoInv, UNCHANGED <<sent, queue, whand, file>>,
         osbuf' = osbuf \/ osbuf' = <<>>,
         InReader' \subseteq InReader,
         \A r \in Runs : OneThread(r)' => OneThread(r),
         \A r \in Runs : Holding(r)' => Holding(r) /\ UNCHANGED served[r]
  PROVE  FifoInv'
<1>1. /\ IsIncreasing(osbuf)'
      /\ Range(osbuf)' \subseteq Range(osbuf)
  BY EmptyFacts DEF FifoInv, StagesInOrder
<1>2. InWriters' \subseteq InWriters /\ UNCHANGED Written /\ UNCHANGED Range(queue)
      /\ \A r \in Runs : UNCHANGED Contents(r)
  BY DEF InWriters, Written, Contents
<1>3. StagesInOrder'
  BY <1>1 DEF FifoInv, StagesInOrder
<1>4. StagesFollow'
  BY <1>1, <1>2 DEF FifoInv, StagesFollow, Below
<1>5. WritersApart'
  <2>1. \A t \in Runs : Holding(t)' /\ OneThread(served[t])' => Below(Contents(served[t]), {whand[t]})'
    <3> SUFFICES ASSUME NEW t \in Runs, Holding(t)', OneThread(served[t])'
                 PROVE  Below(Contents(served[t]), {whand[t]})'
      OBVIOUS
    <3>1. Holding(t) /\ served'[t] = served[t] /\ served[t] \in Runs
      BY DEF TypeOK, WriteOK, Holding
    <3>2. OneThread(served[t]) /\ Contents(served[t])' = Contents(served[t])
      BY <3>1, <1>2 DEF OneThread, Contents
    <3> QED
      BY <3>1, <3>2 DEF FifoInv, WritersApart
  <2> QED
    BY <1>2, <2>1 DEF FifoInv, WritersApart
<1> QED
  BY <1>3, <1>4, <1>5 DEF FifoInv

LEMMA FifoInit == Init => FifoInv
<1> SUFFICES ASSUME Init PROVE FifoInv
  OBVIOUS
<1>1. /\ Range(osbuf) = {} /\ Range(queue) = {} /\ IsIncreasing(osbuf) /\ IsIncreasing(queue)
      /\ \A r \in Runs : Contents(r) = {} /\ IsIncreasing(file[r]) /\ ~Holding(r)
                        /\ IsInjective(file[r])
  BY EmptyFacts DEF Init, Contents, Holding, IsInjective
<1>2. InReader = {} /\ InWriters = {} /\ Written = {}
  BY <1>1 DEF Init, InReader, InWriters, Written
<1> QED
  BY <1>1, <1>2 DEF FifoInv, StagesInOrder, StagesFollow, WritersApart, Below

\* Steps that leave the threads and the files alone.
LEMMA ApartKept ==
  ASSUME TypeOK, FifoInv, UNCHANGED <<whand, served>>,
         \A r \in Runs : UNCHANGED Contents(r) /\ (Holding(r)' <=> Holding(r))
  PROVE  WritersApart'
<1>1. ASSUME NEW t \in Runs, Holding(t)', OneThread(served[t])'
      PROVE  Below(Contents(served[t]), {whand[t]})'
  <2>1. Holding(t) /\ served[t] \in Runs /\ OneThread(served[t])
    BY <1>1 DEF TypeOK, WriteOK, Holding, OneThread
  <2>2. Contents(served[t])' = Contents(served[t])
    BY <2>1 DEF Contents
  <2> QED
    BY <2>1, <2>2 DEF FifoInv, WritersApart
<1> QED
  BY <1>1 DEF FifoInv, WritersApart

LEMMA FifoEmit ==
  ASSUME TypeOK, FifoInv, Emit
  PROVE  FifoInv'
<1>1. sent + 1 \in Packets /\ sent' = sent + 1 /\ sent \in Nat
  BY ChannelAssumption DEF TypeOK, LinkOK, Emit, Packets
<1>2. Below(Range(osbuf), {sent + 1}) /\ IsIncreasing(osbuf) /\ osbuf \in Seq(Packets)
  BY DEF FifoInv, StagesFollow, StagesInOrder, Below, TypeOK, LinkOK
<1>3. IsIncreasing(osbuf') /\ Range(osbuf') \subseteq Range(osbuf) \cup {sent + 1}
  <2>1. /\ IsIncreasing(Append(osbuf, sent + 1))
        /\ Range(Append(osbuf, sent + 1)) = Range(osbuf) \cup {sent + 1}
    BY <1>1, <1>2, AppendFacts, PositionsTyped
  <2>2. osbuf' = osbuf \/ osbuf' = Append(osbuf, sent + 1)
    BY DEF Emit
  <2> QED
    BY <1>2, <2>1, <2>2
<1>4. UNCHANGED <<queue, InReader, InWriters, Written, file, whand, wthread, served>>
      /\ \A r \in Runs : UNCHANGED Contents(r) /\ (Holding(r)' <=> Holding(r))
  BY DEF Emit, InReader, InWriters, Holding, Written, Contents, writeVars
<1>5. StagesInOrder'
  BY <1>3, <1>4 DEF FifoInv, StagesInOrder, OneThread
<1>6. StagesFollow'
  <2> DEFINE All == Written \cup InWriters \cup Range(queue) \cup InReader
  <2>1. All \subseteq Int /\ \A x \in All : x < sent + 1
    BY PositionsTyped DEF FifoInv, StagesFollow, Below
  <2> QED
    BY <1>1, <1>2, <1>3, <1>4, <2>1, PositionsTyped DEF FifoInv, StagesFollow, Below
<1>7. WritersApart'
  BY <1>4, ApartKept
<1> QED
  BY <1>5, <1>6, <1>7 DEF FifoInv

LEMMA FifoRead ==
  ASSUME TypeOK, FifoInv, Read
  PROVE  FifoInv'
<1> DEFINE h == Head(osbuf)
<1>1. osbuf \in Seq(Packets) /\ osbuf # <<>> /\ IsIncreasing(osbuf) /\ osbuf' = Tail(osbuf)
  BY DEF FifoInv, StagesInOrder, TypeOK, LinkOK, Read
<1>2. /\ IsIncreasing(osbuf')
      /\ Range(osbuf') \subseteq Range(osbuf)
      /\ h \in Range(osbuf)
      /\ Below({h}, Range(osbuf'))
  BY <1>1, TailFacts, PositionsTyped
<1>3. InReader' \subseteq {h} /\ InReader = {}
  BY DEF Read, InReader
<1>4. UNCHANGED <<sent, queue, InWriters, Written, file, whand, wthread, served>>
      /\ \A r \in Runs : UNCHANGED Contents(r) /\ (Holding(r)' <=> Holding(r))
  BY DEF Read, InWriters, Holding, Written, Contents, writeVars
<1>5. StagesInOrder'
  BY <1>2, <1>4 DEF FifoInv, StagesInOrder, OneThread
<1>6. StagesFollow'
  BY <1>2, <1>3, <1>4 DEF FifoInv, StagesFollow, Below
<1>7. WritersApart'
  BY <1>4, ApartKept
<1> QED
  BY <1>5, <1>6, <1>7 DEF FifoInv

LEMMA FifoPut ==
  ASSUME TypeOK, FifoInv, Put
  PROVE  FifoInv'
<1>1. InReader = {hand} /\ InReader' = {} /\ hand \in Packets
  BY DEF Put, InReader, TypeOK, LinkOK
<1>2. UNCHANGED <<sent, osbuf, InWriters, Written, file, whand, wthread, served>>
      /\ \A r \in Runs : UNCHANGED Contents(r) /\ (Holding(r)' <=> Holding(r))
  BY DEF Put, InWriters, Holding, Written, Contents, writeVars
<1>3. queue \in Seq(Packets) /\ IsIncreasing(queue) /\ Below(Range(queue), {hand})
  BY <1>1 DEF FifoInv, StagesInOrder, StagesFollow, Below, TypeOK, WriteOK
<1>4. IsIncreasing(queue') /\ Range(queue') \subseteq Range(queue) \cup {hand}
  <2>1. /\ IsIncreasing(Append(queue, hand))
        /\ Range(Append(queue, hand)) = Range(queue) \cup {hand}
    BY <1>1, <1>3, AppendFacts, PositionsTyped
  <2>2. queue' = queue \/ queue' = Append(queue, hand)
    BY DEF Put
  <2> QED
    BY <1>3, <2>1, <2>2
<1>5. StagesInOrder'
  BY <1>2, <1>4 DEF FifoInv, StagesInOrder, OneThread
<1>6. StagesFollow'
  BY <1>1, <1>2, <1>4 DEF FifoInv, StagesFollow, Below
<1>7. WritersApart'
  BY <1>2, ApartKept
<1> QED
  BY <1>5, <1>6, <1>7 DEF FifoInv

LEMMA FifoGet ==
  ASSUME TypeOK, FifoInv, NEW r \in Runs, WriterGet(r)
  PROVE  FifoInv'
<1> DEFINE h == Head(queue)
<1>1. queue \in Seq(Packets) /\ queue # <<>> /\ IsIncreasing(queue) /\ queue' = Tail(queue)
  BY DEF FifoInv, StagesInOrder, TypeOK, WriteOK, WriterGet, AfterGet
<1>2. /\ IsIncreasing(queue')
      /\ Range(queue') \subseteq Range(queue)
      /\ h \in Range(queue)
      /\ Below({h}, Range(queue'))
  BY <1>1, TailFacts, PositionsTyped
<1>3. UNCHANGED <<sent, osbuf, InReader, Written, file, served>>
      /\ \A q \in Runs : UNCHANGED Contents(q)
  BY DEF WriterGet, InReader, readVars, Written, Contents
<1>4. /\ ~Holding(r) /\ Holding(r)' /\ whand'[r] = h
      /\ \A q \in Runs \ {r} : (Holding(q)' <=> Holding(q)) /\ whand'[q] = whand[q]
  BY DEF WriterGet, Holding, TypeOK, WriteOK
<1>5. InWriters' \subseteq InWriters \cup {h}
  BY <1>4 DEF InWriters
<1>6. StagesInOrder'
  BY <1>2, <1>3 DEF FifoInv, StagesInOrder, OneThread
<1>7. StagesFollow'
  BY <1>2, <1>3, <1>5 DEF FifoInv, StagesFollow, Below
<1>8. /\ \A x \in Written \cup InWriters : x < h /\ x \in Int
      /\ h \in Int
  BY <1>2, PositionsTyped DEF FifoInv, StagesFollow, Below
<1>9. WritersApart'
  <2>1. \A q \in Runs : Contents(q) \subseteq Written /\ (Holding(q) => whand[q] \in InWriters)
    BY DEF Written, InWriters
  <2>2. ASSUME NEW q \in Runs, Holding(q)', OneThread(served[q])'
        PROVE  Below(Contents(served[q]), {whand[q]})'
    <3>1. served[q] \in Runs /\ served'[q] = served[q] /\ OneThread(served[q])
      BY <1>3, <2>2 DEF TypeOK, WriteOK, Holding, WriterGet, OneThread
    <3>2. Contents(served[q])' = Contents(served[q]) /\ Contents(served[q]) \subseteq Written
      BY <1>3, <2>1, <3>1 DEF Contents
    <3>3. CASE q = r
      BY <1>4, <1>8, <3>2, <3>3 DEF Below
    <3>4. CASE q # r
      BY <1>4, <2>2, <3>1, <3>2, <3>4 DEF FifoInv, WritersApart
    <3> QED
      BY <3>3, <3>4
  <2>3. \A p, q \in Runs : Holding(p)' => whand'[p] \notin Contents(q)'
    BY <1>3, <1>4, <1>8, <2>1 DEF FifoInv, WritersApart
  <2>4. \A p, q \in Runs : Holding(p)' /\ Holding(q)' /\ p # q => whand'[p] # whand'[q]
    BY <1>4, <1>8, <2>1 DEF FifoInv, WritersApart
  <2> QED
    BY <1>3, <2>2, <2>3, <2>4 DEF FifoInv, WritersApart
<1> QED
  BY <1>6, <1>7, <1>9 DEF FifoInv

LEMMA FifoWrite ==
  ASSUME TypeOK, FifoInv, NEW r \in Runs, WriterWrite(r)
  PROVE  FifoInv'
<1> DEFINE h == whand[r]
<1>0. PICK d \in Runs : d = served[r]
  BY DEF WriterWrite, TypeOK, WriteOK
<1>1. UNCHANGED <<sent, osbuf, queue, InReader, served>>
  BY DEF WriterWrite, InReader, readVars
<1>2. /\ Holding(r) /\ ~Holding(r)' /\ h \in Packets
      /\ \A q \in Runs \ {r} : (Holding(q)' <=> Holding(q)) /\ whand'[q] = whand[q]
      /\ \A q \in Runs \ {d} : file'[q] = file[q]
  BY <1>0 DEF WriterWrite, Holding, TypeOK, WriteOK
<1>3. file'[d] = file[d] \/ file'[d] = Append(file[d], h)
  BY <1>0, <1>2 DEF WriterWrite, TypeOK, WriteOK
<1>4. /\ file[d] \in Seq(Packets) /\ IsInjective(file[d]) /\ h \notin Range(file[d])
      /\ OneThread(d) => IsIncreasing(file[d]) /\ Below(Range(file[d]), {h})
  BY <1>0, <1>2 DEF FifoInv, StagesInOrder, WritersApart, Contents, TypeOK, WriteOK
<1>5. /\ OneThread(d) => IsIncreasing(file'[d])
      /\ IsInjective(file'[d])
      /\ Contents(d)' \subseteq Contents(d) \cup {h}
  <2>1. OneThread(d) => IsIncreasing(Append(file[d], h))
    BY <1>2, <1>4, AppendFacts, PositionsTyped
  <2>2. /\ IsInjective(Append(file[d], h))
        /\ Range(Append(file[d], h)) = Range(file[d]) \cup {h}
    BY <1>2, <1>4, AppendInjective
  <2>3. Contents(d)' = Range(file'[d])
    BY <1>1 DEF Contents
  <2> QED
    BY <1>3, <1>4, <2>1, <2>2, <2>3 DEF Contents
<1>6. \A q \in Runs \ {d} : UNCHANGED Contents(q)
  BY <1>2 DEF Contents
<1>7. h \in InWriters /\ Written' \cup InWriters' \subseteq Written \cup InWriters
  <2>1. InWriters' \subseteq InWriters /\ h \in InWriters
    BY <1>2 DEF InWriters
  <2>2. ASSUME NEW q \in Runs
        PROVE  Contents(q)' \subseteq Contents(q) \cup {h}
    <3>1. CASE q = d
      BY <1>5, <3>1
    <3>2. CASE q # d
      BY <1>6, <3>2
    <3> QED
      BY <3>1, <3>2
  <2> QED
    BY <2>1, <2>2 DEF Written
<1>8. StagesInOrder'
  BY <1>1, <1>2, <1>5 DEF FifoInv, StagesInOrder, OneThread
<1>9. StagesFollow'
  BY <1>1, <1>7 DEF FifoInv, StagesFollow, Below
<1>10. WritersApart'
  <2>1. ASSUME NEW q \in Runs, Holding(q)', OneThread(served[q])'
        PROVE  Below(Contents(served[q]), {whand[q]})'
    <3>1. q # r /\ Holding(q) /\ served'[q] = served[q] /\ served[q] \in Runs /\ OneThread(served[q])
      BY <1>1, <1>2, <2>1 DEF TypeOK, WriteOK, Holding, OneThread
    <3>2. served[q] # d
      BY <1>0, <3>1 DEF OneThread
    <3>3. Contents(served[q])' = Contents(served[q])
      BY <1>2, <3>1, <3>2 DEF Contents
    <3> QED
      BY <1>2, <3>1, <3>3 DEF FifoInv, WritersApart
  <2>2. ASSUME NEW p \in Runs, NEW q \in Runs, Holding(p)'
        PROVE  whand'[p] \notin Contents(q)'
    <3>1. p # r /\ Holding(p) /\ whand'[p] = whand[p]
      BY <1>2, <2>2
    <3>2. whand[p] # h /\ whand[p] \notin Contents(q)
      BY <1>2, <3>1 DEF FifoInv, WritersApart
    <3>3. CASE q = d
      BY <1>5, <3>1, <3>2, <3>3
    <3>4. CASE q # d
      BY <1>6, <3>1, <3>2, <3>4
    <3> QED
      BY <3>3, <3>4
  <2>3. \A p, q \in Runs : Holding(p)' /\ Holding(q)' /\ p # q => whand'[p] # whand'[q]
    BY <1>2 DEF FifoInv, WritersApart
  <2>4. ASSUME NEW p \in Runs, NEW q \in Runs, p # q
        PROVE  Contents(p)' \cap Contents(q)' = {}
    <3>1. Contents(p) \cap Contents(q) = {} /\ h \notin Contents(p) \cup Contents(q)
      BY <1>2, <2>4 DEF FifoInv, WritersApart
    <3>2. CASE p = d
      BY <1>5, <1>6, <2>4, <3>1, <3>2
    <3>3. CASE q = d
      BY <1>5, <1>6, <2>4, <3>1, <3>3
    <3>4. CASE p # d /\ q # d
      BY <1>6, <3>1, <3>4
    <3> QED
      BY <3>2, <3>3, <3>4
  <2> QED
    BY <2>1, <2>2, <2>3, <2>4 DEF WritersApart
<1> QED
  BY <1>8, <1>9, <1>10 DEF FifoInv

LEMMA FifoStep ==
  ASSUME TypeOK, StartsApart, FifoInv, [Next]_vars
  PROVE  FifoInv'
<1>1. CASE UNCHANGED fifoVars
  BY <1>1, FifoShrinks DEF fifoVars, InReader, Holding, OneThread
<1>2. ASSUME NEW s \in Starters, Flush(s)
      PROVE  FifoInv'
  BY <1>2, FifoShrinks DEF Flush, InReader, Holding, OneThread, writeVars
<1>3. ASSUME NEW s \in Starters, StartWriter(s)
      PROVE  FifoInv'
  <2>1. att[s] \in Runs /\ served[att[s]] = NoRun
    BY <1>3 DEF StartWriter, Move, StartsApart, SetupPoints, Unstarted, TypeOK, StartOK
  <2>2. \A t \in Runs \ {att[s]} : served'[t] = served[t] /\ wthread'[t] = wthread[t]
    BY <1>3 DEF StartWriter, TypeOK, WriteOK
  <2>3. \A r \in Runs : OneThread(r)' => OneThread(r)
    <3> SUFFICES ASSUME NEW r \in Runs, OneThread(r)', NEW t \in Runs, NEW u \in Runs,
                        served[t] = r, served[u] = r
                 PROVE  t = u
      BY DEF OneThread
    <3>1. t # att[s] /\ u # att[s]
      BY <2>1 DEF Runs, NoRun
    <3> QED
      BY <2>2, <3>1 DEF OneThread
  <2>4. wthread'[att[s]] = "loop" \/ UNCHANGED <<served, wthread>>
    BY <1>3, <2>1 DEF StartWriter, TypeOK, WriteOK
  <2>5. \A r \in Runs : Holding(r)' => Holding(r) /\ UNCHANGED served[r]
    BY <2>2, <2>4 DEF Holding
  <2>6. UNCHANGED <<sent, queue, whand, file, osbuf, InReader>>
    BY <1>3 DEF StartWriter, InReader, readVars
  <2> QED
    BY <2>3, <2>5, <2>6, FifoShrinks DEF InReader
<1>4. CASE ServeResync \/ Unplug
  BY <1>4, FifoShrinks DEF ServeResync, Unplug, InReader, Holding, OneThread, writeVars
<1>5. ASSUME NEW r \in Runs, WriterExit(r)
      PROVE  FifoInv'
  BY <1>5, FifoShrinks
  DEF WriterExit, InReader, Holding, OneThread, readVars, TypeOK, WriteOK
<1> QED
  BY FifoSteps, FifoEmit, FifoRead, FifoPut, FifoGet, FifoWrite,
     <1>1, <1>2, <1>3, <1>4, <1>5

\* Whatever fails and however the threads interleave, no packet reaches two files or one
\* file twice, and the file of a Writer that only one start() has started holds its
\* packets in the order of their emission: every number of runs, packets and queue
\* places, every set of faults, the stop() that overtakes a start() included.
THEOREM AlwaysFilesInOrder == Spec => []FilesInOrder
<1>1. FifoInv => FilesInOrder
  BY DEF FifoInv, StagesInOrder, WritersApart, FilesInOrder
<1>2. TypeOK /\ StartsApart /\ [Next]_vars => StartsApart'
  BY ApartStep
<1>3. TypeOK /\ StartsApart /\ FifoInv /\ [Next]_vars => FifoInv'
  BY FifoStep
<1> QED
  BY TypeCorrect, ApartInit, FifoInit, <1>1, <1>2, <1>3, PTL DEF Spec

-----------------------------------------------------------------------------
(* CleanInv: the pieces of a run stay in step with start() and stop() *)

cleanVars == <<state, nRuns, chWriter, chTimer, pc, att, spc, sw, result,
               timer, recording, wthread, served, wfile, wlast>>

\* The steps that start() and stop() and their threads are made of.
LEMMA CleanSteps ==
  ASSUME [Next]_vars
  PROVE  \/ UNCHANGED cleanVars
         \/ \E s \in Starters : Preflight(s) \/ StartLock(s) \/ Setup(s) \/
            Flush(s) \/ FlushWait(s) \/ SetBase(s) \/ MakeWriter(s) \/
            StartWriter(s) \/ RecordingOn(s) \/ MakeTimer(s) \/ ArmTimer(s)
         \/ \E r \in Runs : TimerDue(r) \/ TimerStops(r) \/ WriterGet(r) \/
            WriterWrite(r) \/ WriterExit(r)
         \/ Trigger \/ StartManual \/ UserStops \/ CloseBegins \/ StopCancel
            \/ StopDrain \/ StopJoin \/ StopClose \/ StopResult
<1>1. ASSUME CloseEnds \/ Emit \/ ServeResync \/ Read \/ Put \/ Unplug
      PROVE  UNCHANGED cleanVars
  BY <1>1 DEF cleanVars, chanVars, startVars, stopVars, linkVars, writeVars,
       ctrlVars, dataVars, CloseEnds, Emit, ServeResync, Read, Put, Unplug
<1>2. CASE UNCHANGED vars
  BY <1>2 DEF vars, cleanVars, chanVars, startVars, stopVars, linkVars,
       writeVars, ctrlVars, dataVars
<1> QED
  BY <1>1, <1>2 DEF Next, Start, Stop, Writer

\* The new run's number is above that of every run that has a result, a writer or a timer.
LEMMA CleanStartLock ==
  ASSUME TypeOK, CleanInv, NEW s \in Starters, StartLock(s)
  PROVE  CleanInv'
<1>1. OneSetup' /\ StopInOrder'
  BY DEF StartLock, TypeOK, StartOK, ChannelOK, StopOK, CleanInv, OneSetup,
       StopInOrder, Preparing, WriterRunning, Runs, SetupPoints, Move, stopVars,
       linkVars, writeVars, dataVars
<1>2. CASE state # "IDLE"
  <2>1. UNCHANGED <<nRuns, att, chWriter, chTimer, timer, result, wthread, served, wfile, wlast>>
    BY <1>2 DEF StartLock, stopVars, dataVars, writeVars
  <2>2. \A t \in Starters : Preparing(t)' => Preparing(t)
    BY <1>2 DEF StartLock, Move, TypeOK, StartOK, Preparing, SetupPoints
  <2> QED
    BY <1>1, <2>1, <2>2 DEF CleanInv, OwnedByChannel, WriterRunning
<1>3. CASE state = "IDLE"
  <2>1. /\ UNCHANGED <<chWriter, chTimer, timer, result, wthread, served, wfile, wlast>>
        /\ nRuns' = nRuns + 1
    BY <1>3 DEF StartLock, stopVars, dataVars, writeVars
  <2>2. \A t \in Starters : Preparing(t)' => att'[t] = nRuns'
    BY <1>1, <1>3 DEF OneSetup, Preparing
  <2>3. \A r \in Runs : result[r] # "none" => r # nRuns + 1 /\ r <= nRuns + 1
    BY DEF CleanInv, OwnedByChannel, TypeOK, ChannelOK, Runs
  <2> QED
    BY <1>1, <2>1, <2>2, <2>3 DEF CleanInv, OwnedByChannel, WriterRunning
<1> QED
  BY <1>1, <1>2, <1>3 DEF CleanInv

\* The other steps of start().
LEMMA CleanStart ==
  ASSUME NoRaces, TypeOK, CleanInv,
         \/ \E s \in Starters : Preflight(s) \/ Setup(s) \/ Flush(s) \/
            FlushWait(s) \/ SetBase(s) \/ MakeWriter(s) \/ StartWriter(s) \/
            RecordingOn(s) \/ MakeTimer(s) \/ ArmTimer(s)
         \/ Trigger \/ StartManual
  PROVE  CleanInv'
<1>1. ASSUME NEW s \in Starters, Preflight(s)
      PROVE  CleanInv'
  BY <1>1 DEF Preflight, TypeOK, StartOK, CleanInv, OneSetup, StopInOrder,
       OwnedByChannel, Preparing, WriterRunning, SetupPoints, Move, chanVars,
       stopVars, linkVars, writeVars, dataVars
<1>2. ASSUME NEW s \in Starters, Setup(s)
      PROVE  CleanInv'
  BY <1>2 DEF Setup, TypeOK, StartOK, CleanInv, OneSetup, StopInOrder,
       OwnedByChannel, Preparing, WriterRunning, SetupPoints, Move, chanVars,
       stopVars, writeVars, dataVars
<1>3. ASSUME NEW s \in Starters, Flush(s)
      PROVE  CleanInv'
  BY <1>3 DEF Flush, TypeOK, StartOK, CleanInv, OneSetup, StopInOrder,
       OwnedByChannel, Preparing, WriterRunning, SetupPoints, Move, chanVars,
       stopVars, writeVars
<1>4. ASSUME NEW s \in Starters, FlushWait(s)
      PROVE  CleanInv'
  BY <1>4 DEF FlushWait, CleanInv, OneSetup, StopInOrder, OwnedByChannel,
       Preparing, WriterRunning, SetupPoints, Move, chanVars, stopVars,
       writeVars, dataVars
<1>5. ASSUME NEW s \in Starters, SetBase(s)
      PROVE  CleanInv'
  BY <1>5 DEF SetBase, CleanInv, OneSetup, StopInOrder, OwnedByChannel,
       Preparing, WriterRunning, SetupPoints, Move, stopVars, writeVars
<1>6. ASSUME NEW s \in Starters, MakeWriter(s)
      PROVE  CleanInv'
  BY <1>6 DEF MakeWriter, TypeOK, StartOK, CleanInv, OneSetup, StopInOrder,
       OwnedByChannel, Preparing, WriterRunning, SetupPoints, Runs, NoRun, Move,
       stopVars, linkVars, writeVars, dataVars
<1>7. ASSUME NEW s \in Starters, StartWriter(s)
      PROVE  CleanInv'
  <2>1. /\ att[s] \in Runs /\ chWriter = att[s] /\ pc[s] = "wStart" /\ spc = "none"
        /\ state = "RECORDING" /\ att[s] = nRuns /\ result[att[s]] = "none"
        /\ \A t \in Starters : Preparing(t) => t = s
    BY <1>7 DEF StartWriter, TypeOK, StartOK, CleanInv, OneSetup, StopInOrder, OwnedByChannel,
         Preparing, SetupPoints, Move
  <2>2. pc'[s] \in {"recOn", "idle"} /\ \A t \in Starters \ {s} : pc'[t] = pc[t]
    BY <1>7 DEF StartWriter, Move, TypeOK, StartOK
  <2>3. UNCHANGED <<state, nRuns, chWriter, chTimer, att, spc, sw, result, timer, recording>>
    BY <1>7 DEF StartWriter, chanVars, stopVars, linkVars
  <2>4. OneSetup'
    BY <2>1, <2>2, <2>3 DEF CleanInv, OneSetup, Preparing, SetupPoints
  <2>5. StopInOrder'
    BY <2>1, <2>3 DEF CleanInv, StopInOrder
  <2>6. ASSUME NEW r \in Runs
        PROVE  /\ served'[r] \in {r, NoRun} /\ wlast'[r] = served'[r]
               /\ wthread'[r] # "none" \/ wfile'[r] # "none" => served'[r] = r
               /\ WriterRunning(r)' \/ wfile'[r] = "open" => chWriter' = r
    BY <1>7, <2>1, <2>3 DEF StartWriter, TypeOK, WriteOK, CleanInv, OwnedByChannel, WriterRunning
  <2> QED
    BY <2>1, <2>2, <2>3, <2>4, <2>5, <2>6 DEF CleanInv, OwnedByChannel, Preparing
<1>8. ASSUME NEW s \in Starters, RecordingOn(s)
      PROVE  CleanInv'
  BY <1>8 DEF RecordingOn, CleanInv, OneSetup, StopInOrder, OwnedByChannel,
       Preparing, WriterRunning, SetupPoints, Move, chanVars, stopVars,
       writeVars
<1>9. ASSUME NEW s \in Starters, MakeTimer(s) \/ ArmTimer(s)
      PROVE  CleanInv'
  <2>1. CASE MakeTimer(s)
    BY <2>1 DEF MakeTimer, TypeOK, StartOK, CleanInv, OneSetup, StopInOrder,
         OwnedByChannel, Preparing, WriterRunning, SetupPoints, Runs, NoRun, Move,
         stopVars, linkVars, writeVars, dataVars
  <2>2. CASE ArmTimer(s)
    BY <2>2 DEF ArmTimer, TypeOK, ChannelOK, StartOK, CleanInv, OneSetup, StopInOrder,
         OwnedByChannel, Preparing, WriterRunning, SetupPoints, Runs, NoRun, Move,
         chanVars, stopVars, linkVars, writeVars, dataVars
  <2> QED
    BY <1>9, <2>1, <2>2
<1>10. CASE Trigger
  BY <1>10 DEF Trigger, CleanInv, OneSetup, StopInOrder, OwnedByChannel,
       Preparing, WriterRunning, SetupPoints, Move, chanVars, stopVars,
       linkVars, writeVars, dataVars
<1>11. CASE StartManual
  BY <1>11 DEF StartManual, CleanInv, OneSetup, StopInOrder, OwnedByChannel,
       Preparing, WriterRunning, SetupPoints, Move, chanVars, stopVars,
       linkVars, writeVars, dataVars
<1> QED
  BY <1>1, <1>2, <1>3, <1>4, <1>5, <1>6, <1>7, <1>8, <1>9, <1>10, <1>11

\* stop(): with no start() under way when it begins (NoRaces), it finds the run that
\* start() left behind, and joins that run's writer thread before it closes the file.
LEMMA CleanStop ==
  ASSUME NoRaces, TypeOK, CleanInv,
         \/ \E r \in Runs : TimerDue(r) \/ TimerStops(r)
         \/ UserStops \/ CloseBegins \/ StopCancel \/ StopDrain \/ StopJoin \/
            StopClose \/ StopResult
  PROVE  CleanInv'
<1>1. ASSUME NEW r \in Runs, TimerDue(r)
      PROVE  CleanInv'
  BY <1>1 DEF TimerDue, CleanInv, OneSetup, StopInOrder, OwnedByChannel,
       Preparing, WriterRunning, chanVars, startVars, stopVars, linkVars,
       writeVars, dataVars
<1>2. ASSUME NEW r \in Runs, TimerStops(r)
      PROVE  CleanInv'
  BY <1>2 DEF TimerStops, NoRaces, CleanInv, OneSetup, StopInOrder,
       OwnedByChannel, Preparing, InSetup, WriterRunning, StopLock,
       StopReturnsNone, chanVars, startVars, linkVars, writeVars, dataVars
<1>3. CASE UserStops
  BY <1>3 DEF UserStops, NoRaces, CleanInv, OneSetup, StopInOrder,
       OwnedByChannel, Preparing, InSetup, WriterRunning, StopLock, startVars,
       writeVars, dataVars
<1>4. CASE CloseBegins
  BY <1>4 DEF CloseBegins, NoRaces, CleanInv, OneSetup, StopInOrder,
       OwnedByChannel, Preparing, InSetup, WriterRunning, StopLock,
       StopReturnsNone, chanVars, startVars, linkVars, writeVars, dataVars
<1>5. CASE StopCancel
  BY <1>5 DEF StopCancel, CleanInv, OneSetup, StopInOrder, OwnedByChannel,
       Preparing, WriterRunning, Cancelled, StopMoves, StopRaises, startVars,
       writeVars
<1>6. CASE StopDrain
  BY <1>6 DEF StopDrain, CleanInv, OneSetup, StopInOrder, OwnedByChannel,
       Preparing, WriterRunning, StopMoves, AfterDrain, chanVars, startVars,
       linkVars
<1>7. CASE StopJoin
  <2>1. /\ spc = "join" /\ spc' = "close" /\ sw \in Runs /\ sw = chWriter /\ state = "FINISHING"
        /\ \A s \in Starters : ~Preparing(s)
    BY <1>7 DEF StopJoin, StopMoves, TypeOK, StopOK, CleanInv, OneSetup, StopInOrder
  <2>2. /\ UNCHANGED <<state, nRuns, chWriter, chTimer, pc, att, sw, result, timer, recording>>
        /\ UNCHANGED <<wthread, served, wfile, wlast>>
    BY <1>7 DEF StopJoin, chanVars, startVars, linkVars, writeVars, dataVars
  <2>3. ~WriterRunning(sw)
    <3>1. wlast[sw] # sw => ~WriterRunning(sw)
      BY <2>1 DEF CleanInv, OwnedByChannel, WriterRunning
    <3> QED
      BY <1>7, <2>1, <3>1 DEF StopJoin, Joined, NoRaces
  <2>4. StopInOrder'
    BY <2>1, <2>2, <2>3 DEF CleanInv, StopInOrder, WriterRunning
  <2> QED
    BY <2>1, <2>2, <2>4 DEF CleanInv, OneSetup, OwnedByChannel, Preparing, WriterRunning
<1>8. CASE StopClose
  <2>1. /\ spc = "close" /\ sw \in Runs /\ sw = chWriter /\ state = "FINISHING" /\ ~WriterRunning(sw)
        /\ \A s \in Starters : ~Preparing(s)
    BY <1>8 DEF StopClose, TypeOK, StopOK, CleanInv, OneSetup, StopInOrder
  <2>2. /\ UNCHANGED <<state, nRuns, chWriter, chTimer, pc, att, result, timer, recording>>
        /\ UNCHANGED <<wthread, served, wlast>>
        /\ \/ spc' = "result" /\ sw' = sw
           \/ spc' = "none" /\ sw' = NoRun
    BY <1>8 DEF StopClose, StopMoves, StopRaises, chanVars, startVars, linkVars
  <2>3. \A r \in Runs : /\ wfile'[r] = "open" => wfile[r] = "open"
                        /\ wfile'[r] # "none" => wfile[r] # "none"
    BY <1>8 DEF StopClose, Closed
  <2>4. wfile'[sw] # "open"
    <3>1. wfile[sw] = "open" => wlast[sw] = sw
      BY <2>1 DEF CleanInv, OwnedByChannel
    <3> QED
      BY <1>8, <2>1, <3>1 DEF StopClose, Closed
  <2>5. OneSetup'
    BY <2>1, <2>2 DEF OneSetup, Preparing
  <2>6. StopInOrder'
    BY <2>1, <2>2, <2>4, ChannelAssumption
    DEF TypeOK, ChannelOK, CleanInv, StopInOrder, WriterRunning, NoRun, Runs
  <2>7. OwnedByChannel'
    BY <2>1, <2>2, <2>3 DEF CleanInv, OwnedByChannel, Preparing, WriterRunning
  <2> QED
    BY <2>5, <2>6, <2>7 DEF CleanInv
<1>9. CASE StopResult
  <2>1. /\ spc = "result" /\ sw \in Runs /\ sw = chWriter /\ state = "FINISHING" /\ sw <= nRuns
        /\ ~WriterRunning(sw) /\ wfile[sw] # "open" /\ chTimer = NoRun /\ ~recording
        /\ \A s \in Starters : ~Preparing(s)
    BY <1>9 DEF StopResult, TypeOK, StopOK, CleanInv, OneSetup, StopInOrder
  <2>2. /\ UNCHANGED <<nRuns, chTimer, pc, att, timer, recording, wthread, served, wfile, wlast>>
        /\ state' = "IDLE" /\ spc' = "none" /\ sw' = NoRun /\ chWriter' = NoRun
        /\ \A r \in Runs \ {sw} : result'[r] = result[r]
    BY <1>9 DEF StopResult, TypeOK, StopOK, startVars, linkVars, writeVars, dataVars
  <2>3. \A r \in Runs : ~WriterRunning(r) /\ wfile[r] # "open"
    BY <2>1 DEF CleanInv, OwnedByChannel
  <2>4. OneSetup' /\ StopInOrder'
    BY <2>1, <2>2, ChannelAssumption
    DEF TypeOK, ChannelOK, CleanInv, OneSetup, StopInOrder, Preparing, NoRun
  <2>5. OwnedByChannel'
    BY <2>1, <2>2, <2>3 DEF CleanInv, OwnedByChannel, Preparing, WriterRunning, NoRun, Runs
  <2> QED
    BY <2>4, <2>5 DEF CleanInv
<1> QED
  BY <1>1, <1>2, <1>3, <1>4, <1>5, <1>6, <1>7, <1>8, <1>9

\* A writer thread that runs belongs to the channel's current run.
LEMMA CleanWriter ==
  ASSUME NoRaces, TypeOK, CleanInv,
         \E r \in Runs : WriterGet(r) \/ WriterWrite(r) \/ WriterExit(r)
  PROVE  CleanInv'
<1>1. ASSUME NEW r \in Runs, WriterGet(r)
      PROVE  CleanInv'
  BY <1>1 DEF WriterGet, CleanInv, OneSetup, StopInOrder, OwnedByChannel,
       Preparing, WriterRunning, chanVars, startVars, stopVars, linkVars,
       ctrlVars
<1>2. ASSUME NEW r \in Runs, WriterWrite(r)
      PROVE  CleanInv'
  BY <1>2, ChannelAssumption DEF WriterWrite, TypeOK, WriteOK, CleanInv,
       OneSetup, StopInOrder, OwnedByChannel, Preparing, WriterRunning,
       chanVars, startVars, stopVars, linkVars, ctrlVars
<1>3. ASSUME NEW r \in Runs, WriterExit(r)
      PROVE  CleanInv'
  BY <1>3 DEF WriterExit, CleanInv, OneSetup, StopInOrder, OwnedByChannel,
       Preparing, WriterRunning, chanVars, startVars, stopVars, linkVars,
       ctrlVars
<1> QED
  BY <1>1, <1>2, <1>3

LEMMA CleanInit == Init => CleanInv
  BY ChannelAssumption
  DEF Init, CleanInv, OneSetup, StopInOrder, OwnedByChannel, Preparing, SetupPoints,
      WriterRunning, Runs, NoRun

LEMMA CleanStep ==
  ASSUME NoRaces, TypeOK, CleanInv, [Next]_vars
  PROVE  CleanInv'
<1>1. CASE UNCHANGED cleanVars
  BY <1>1 DEF cleanVars, CleanInv, OneSetup, StopInOrder, OwnedByChannel, Preparing,
       WriterRunning
<1>2. ASSUME NEW s \in Starters, StartLock(s)
      PROVE  CleanInv'
  BY <1>2, CleanStartLock
<1> QED
  BY CleanSteps, CleanStart, CleanStop, CleanWriter, <1>1, <1>2

\* The pieces of a run agree with where start() and stop() stand: CleanInv holds always,
\* with any number of runs, packets and queue places, when no stop() meets an unfinished
\* start() and the ten-second limits of Writer.stop() are kept.
THEOREM AlwaysClean == ASSUME NoRaces PROVE Spec => []CleanInv
<1>1. TypeOK /\ CleanInv /\ [Next]_vars => CleanInv'
  BY CleanStep
<1> QED
  BY TypeCorrect, CleanInit, <1>1, PTL DEF Spec

\* Between two runs nothing of the last one is still at work: with any number of runs,
\* packets and queue places and any faults but a stop() that meets an unfinished start()
\* and an exceeded ten-second limit.
THEOREM QuietWhenIdle == ASSUME NoRaces PROVE Spec => []IdleIsClean
<1>1. TypeOK /\ CleanInv => IdleIsClean
  BY DEF TypeOK, ChannelOK, CleanInv, StopInOrder, OwnedByChannel, IdleIsClean, Runs, NoRun
<1> QED
  BY TypeCorrect, AlwaysClean, <1>1, PTL

\* The file of a run that has its result stays as it is: the only writer thread that can
\* write belongs to the channel's run, and that run has no result.
LEMMA ResultKeepsFile ==
  ASSUME TypeOK, CleanInv, [Next]_vars, NEW q \in Runs, result[q] # "none"
  PROVE  file'[q] = file[q]
<1>1. ASSUME NEW r \in Runs, WriterWrite(r)
      PROVE  file'[q] = file[q]
  <2>1. chWriter = r /\ served[r] = r
    BY <1>1 DEF WriterWrite, CleanInv, OwnedByChannel, WriterRunning
  <2>2. served[r] # q
    BY <2>1 DEF CleanInv, OwnedByChannel
  <2> QED
    BY <1>1, <2>2 DEF WriterWrite, TypeOK, WriteOK
<1>2. CASE ~ \E r \in Runs : WriterWrite(r)
  BY <1>2, WriteSteps
  DEF StartWriter, WriterGet, WriterExit, StopDrain, StopClose, Put,
      writeVars
<1> QED
  BY <1>1, <1>2

\* Once a run has its result, its data file never changes again, under the same
\* assumptions: the only writer thread that can write belongs to the channel's run, and
\* that run has no result.
THEOREM ResultsFinal == ASSUME NoRaces PROVE Spec => FileFinal
<1>1. TypeOK /\ CleanInv /\ [Next]_vars =>
        [\A r \in Runs : result[r] # "none" => file'[r] = file[r]]_vars
  BY ResultKeepsFile
<1> QED
  BY TypeCorrect, AlwaysClean, <1>1, PTL DEF Spec, FileFinal
-----------------------------------------------------------------------------
(* A run that is ok has no hole *)

\* The mark of a run is made by the flush() of its start(), and by nothing else.
LEMMA MarkSteps ==
  ASSUME [Next]_vars
  PROVE  UNCHANGED mark \/ \E s \in Starters : Flush(s)
BY StartSteps
DEF startVars, Preflight, StartLock, Setup, FlushWait, SetBase, MakeWriter, StartWriter,
    RecordingOn, MakeTimer, ArmTimer, Trigger, StartManual

\* Taking the first one off a sequence loses no other.
LEMMA HeadAndTail ==
  ASSUME NEW S \in SUBSET Int, NEW s \in Seq(S), s # <<>>
  PROVE  Range(s) = {Head(s)} \cup Range(Tail(s))
<1>1. /\ Tail(s) \in Seq(S)
      /\ Len(Tail(s)) = Len(s) - 1
      /\ \A i \in 1..Len(Tail(s)) : Tail(s)[i] = s[i + 1] /\ i + 1 \in 1..Len(s)
      /\ Len(s) \in Nat /\ Len(s) > 0
  OBVIOUS
<1>2. DOMAIN s = 1..Len(s) /\ DOMAIN Tail(s) = 1..Len(Tail(s)) /\ Head(s) = s[1]
  BY <1>1
<1>3. Range(Tail(s)) \cup {Head(s)} \subseteq Range(s)
  BY <1>1, <1>2 DEF Range
<1>4. ASSUME NEW i \in 1..Len(s)
      PROVE  s[i] \in {Head(s)} \cup Range(Tail(s))
  <2>1. CASE i = 1
    BY <2>1, <1>2
  <2>2. CASE i # 1
    <3>1. i - 1 \in 1..Len(Tail(s)) /\ Tail(s)[i - 1] = s[i]
      BY <2>2, <1>1
    <3> QED
      BY <3>1, <1>2 DEF Range
  <2> QED
    BY <2>1, <2>2
<1> QED
  BY <1>2, <1>3, <1>4 DEF Range

\* A step of a writer thread hands a packet of the latest run on, or speaks against the run.
LEMMA WriterHandsOn ==
  ASSUME TypeOK, CleanInv, OneKnown, NEW q \in Runs, WriterGet(q) \/ WriterWrite(q) \/ WriterExit(q)
  PROVE  /\ q = nRuns
         /\ Taken(q)' \subseteq Taken(q)
         /\ Intact(q)' => Taken(q)' = Taken(q)
<1> DEFINE All(r) == Contents(r) \cup InWriters \cup Range(queue) \cup InReader
<1>1. q = nRuns /\ served[q] = q
  BY DEF WriterGet, WriterWrite, WriterExit, CleanInv, OwnedByChannel, WriterRunning, OneKnown, Known
<1>2. UNCHANGED <<mark, InReader>>
  BY DEF WriterGet, WriterWrite, WriterExit, ctrlVars, startVars, readVars, InReader
<1>3. CASE WriterGet(q)
  <2>1. Range(queue) = {Head(queue)} \cup Range(Tail(queue))
    BY <1>3, HeadAndTail, PositionsTyped DEF WriterGet, TypeOK, WriteOK
  <2>2. UNCHANGED Contents(q) /\ Range(queue)' = Range(Tail(queue))
    BY <1>3 DEF WriterGet, AfterGet, Contents
  <2>3. /\ ~Holding(q) /\ Holding(q)' /\ whand'[q] = Head(queue)
        /\ \A r \in Runs \ {q} : (Holding(r)' <=> Holding(r)) /\ whand'[r] = whand[r]
    BY <1>3 DEF WriterGet, Holding, TypeOK, WriteOK
  <2>4. InWriters' = InWriters \cup {Head(queue)}
    BY <2>3 DEF InWriters
  <2>5. All(q)' = All(q)
    BY <2>1, <2>2, <2>4, <1>2
  <2> QED
    BY <1>1, <1>2, <2>5 DEF Taken
<1>4. CASE WriterWrite(q)
  <2> DEFINE h == whand[q]
  <2>1. /\ Holding(q) /\ ~Holding(q)' /\ h \in Packets
        /\ \A r \in Runs \ {q} : (Holding(r)' <=> Holding(r)) /\ whand'[r] = whand[r]
    BY <1>4 DEF WriterWrite, Holding, TypeOK, WriteOK
  <2>2. InWriters' \subseteq InWriters /\ InWriters \subseteq InWriters' \cup {h} /\ h \in InWriters
    BY <2>1 DEF InWriters
  <2>3. UNCHANGED Range(queue)
    BY <1>4 DEF WriterWrite
  <2>4. \/ file'[q] = Append(file[q], h)
        \/ file'[q] = file[q] /\ werror'[q]
    BY <1>1, <1>4 DEF WriterWrite, TypeOK, WriteOK
  <2>5. CASE file'[q] = Append(file[q], h)
    <3>1. file[q] \in Seq(Packets)
      BY DEF TypeOK, WriteOK
    <3>2. Range(Append(file[q], h)) = Range(file[q]) \cup {h}
      <4>1. /\ Len(Append(file[q], h)) = Len(file[q]) + 1
            /\ \A i \in 1..Len(file[q]) : Append(file[q], h)[i] = file[q][i]
            /\ Append(file[q], h)[Len(file[q]) + 1] = h
            /\ Len(file[q]) \in Nat
            /\ DOMAIN file[q] = 1..Len(file[q])
            /\ DOMAIN Append(file[q], h) = 1..(Len(file[q]) + 1)
        BY <3>1, <2>1
      <4> QED
        BY <4>1 DEF Range
    <3>3. All(q)' = All(q)
      BY <1>2, <2>2, <2>3, <2>5, <3>2 DEF Contents
    <3> QED
      BY <1>1, <1>2, <3>3 DEF Taken
  <2>6. CASE file'[q] = file[q] /\ werror'[q]
    <3>1. All(q)' \subseteq All(q)
      BY <1>2, <2>2, <2>3, <2>6 DEF Contents
    <3> QED
      BY <1>1, <1>2, <2>6, <3>1 DEF Taken, Intact
  <2> QED
    BY <2>4, <2>5, <2>6
<1>5. CASE WriterExit(q)
  <2>1. UNCHANGED <<queue, file, whand>> /\ \A r \in Runs : Holding(r)' <=> Holding(r)
    BY <1>5 DEF WriterExit, Holding, TypeOK, WriteOK
  <2>2. UNCHANGED InWriters /\ UNCHANGED Contents(q)
    BY <2>1 DEF InWriters, Contents
  <2> QED
    BY <1>1, <1>2, <2>1, <2>2 DEF Taken
<1> QED
  BY <1>3, <1>4, <1>5

\* start() begins with a mark that no packet on its way has reached.
LEMMA FlushTakesNone ==
  ASSUME TypeOK, FifoInv, CleanInv, NEW s \in Starters, Flush(s), NEW r \in Runs, r = nRuns
  PROVE  att[s] = r /\ Taken(r)' = {}
<1>1. att[s] = r /\ mark'[r] = sent /\ sent \in Nat
  BY DEF Flush, Move, SetupPoints, TypeOK, StartOK, LinkOK, CleanInv, OneSetup, Preparing
<1>2. UNCHANGED <<queue, InReader, InWriters>>
  BY DEF Flush, writeVars, InReader, InWriters, Holding, Contents
<1>3. Contents(r) \subseteq Written
  BY DEF Written
<1>4. \A p \in Written \cup InWriters \cup Range(queue) \cup InReader : p \in Int /\ p < sent + 1
  BY PositionsTyped DEF FifoInv, StagesFollow, Below
<1>5. Contents(r)' = Contents(r)
  BY DEF Flush, writeVars, Contents
<1> QED
  BY <1>1, <1>2, <1>3, <1>4, <1>5 DEF Taken

\* What Put takes out of the reader's hand is in the queue, or counted.
LEMMA PutHandsOn ==
  ASSUME TypeOK, NEW r \in Runs, Put
  PROVE  Taken(r)' \subseteq Taken(r) /\ (Intact(r)' => Taken(r)' = Taken(r) /\ Intact(r))
<1>1. InReader = {hand} /\ InReader' = {} /\ hand \in Packets
  BY DEF Put, InReader, TypeOK, LinkOK
<1>2. UNCHANGED <<InWriters, mark, lost, base, werror>> /\ UNCHANGED Contents(r)
  BY DEF Put, InWriters, Holding, Contents, writeVars, ctrlVars, startVars, chanVars
<1>3. CASE queue' = Append(queue, hand) /\ UNCHANGED drops
  <2>1. queue \in Seq(Packets)
    BY DEF TypeOK, WriteOK
  <2>2. Range(Append(queue, hand)) = Range(queue) \cup {hand}
    <3>1. /\ Len(Append(queue, hand)) = Len(queue) + 1
          /\ \A i \in 1..Len(queue) : Append(queue, hand)[i] = queue[i]
          /\ Append(queue, hand)[Len(queue) + 1] = hand
          /\ Len(queue) \in Nat
          /\ DOMAIN queue = 1..Len(queue)
          /\ DOMAIN Append(queue, hand) = 1..(Len(queue) + 1)
      BY <1>1, <2>1
    <3> QED
      BY <3>1 DEF Range
  <2> QED
    BY <1>1, <1>2, <1>3, <2>2 DEF Taken, Intact
<1>4. CASE queue' = queue /\ drops' = drops + 1
  <2>1. ~Intact(r)'
    BY <1>4 DEF TypeOK, LinkOK, Intact
  <2> QED
    BY <1>1, <1>2, <1>4, <2>1 DEF Taken
<1> QED
  BY <1>3, <1>4 DEF Put

\* The packets of the latest run grow by none but those the reader takes while it records.
LEMMA TakenShrinks ==
  ASSUME TypeOK, FifoInv, CleanInv, OneKnown, [Next]_vars, ~(Read /\ recording),
         NEW r \in Runs, r = nRuns
  PROVE  /\ Taken(r)' \subseteq Taken(r)
         /\ \/ \E s \in Starters : Flush(s) \/ StartWriter(s)
            \/ Intact(r)' => Taken(r)' = Taken(r)
<1>1. ASSUME NEW s \in Starters, Flush(s)
      PROVE  Taken(r)' = {}
  BY <1>1, FlushTakesNone
<1>2. ASSUME NEW s \in Starters, StartWriter(s)
      PROVE  Taken(r)' \subseteq Taken(r)
  <2>1. UNCHANGED <<queue, InReader, file, whand, mark>> /\ \A q \in Runs : Holding(q)' => Holding(q)
    BY <1>2 DEF StartWriter, InReader, Holding, readVars, TypeOK, WriteOK
  <2>2. InWriters' \subseteq InWriters /\ UNCHANGED Contents(r)
    BY <2>1 DEF InWriters, Contents
  <2> QED
    BY <2>1, <2>2 DEF Taken
<1>3. CASE UNCHANGED fifoVars /\ UNCHANGED mark
  BY <1>3 DEF fifoVars, Taken, Contents, InWriters, Holding, InReader
<1>4. CASE Emit \/ ServeResync \/ Unplug \/ Read
  <2>1. UNCHANGED <<queue, file, whand, wthread, mark>>
    BY <1>4 DEF Emit, ServeResync, Unplug, Read, writeVars, ctrlVars, startVars
  <2>2. UNCHANGED InReader
    BY <1>4 DEF Emit, ServeResync, Unplug, Read, InReader
  <2> QED
    BY <2>1, <2>2 DEF Taken, Contents, InWriters, Holding
<1>5. CASE Put
  BY <1>5, PutHandsOn
<1>6. ASSUME NEW q \in Runs, WriterGet(q) \/ WriterWrite(q) \/ WriterExit(q)
      PROVE  Taken(r)' \subseteq Taken(r) /\ (Intact(r)' => Taken(r)' = Taken(r))
  BY <1>6, WriterHandsOn
<1> QED
  BY <1>1, <1>2, <1>3, <1>4, <1>5, <1>6, FifoSteps, MarkSteps

\* ResetInTime: flush() waits for its answer, and what is emitted is new.
LEMMA ResetStep ==
  ASSUME Timely, TypeOK, FifoInv, CleanInv, ResetInTime, [Next]_vars
  PROVE  ResetInTime'
<1>1. CASE ServeResync
  <2>1. UNCHANGED <<pc, sent>> /\ resyncReq' = FALSE /\ lastSeq' = NoPacket /\ osbuf' = <<>>
    BY <1>1 DEF ServeResync, ctrlVars, startVars
  <2> QED
    BY <2>1, EmptyFacts DEF ResetInTime, Below, NoPacket, TypeOK, LinkOK
<1>2. CASE Read
  <2>1. UNCHANGED <<pc, sent, resyncReq, resyncDone>> /\ (reader' = "dead" <=> reader = "dead")
    BY <1>2 DEF Read, ctrlVars, startVars, linkVars
  <2>2. osbuf \in Seq(Packets) /\ osbuf # <<>> /\ IsIncreasing(osbuf) /\ osbuf' = Tail(osbuf) /\ lastSeq' = Head(osbuf)
    BY <1>2 DEF FifoInv, StagesInOrder, TypeOK, LinkOK, Read
  <2>3. Head(osbuf) \in Range(osbuf) /\ Below({Head(osbuf)}, Range(Tail(osbuf)))
    BY <2>2, TailFacts, PositionsTyped
  <2>4. Head(osbuf) < sent + 1
    BY <2>3 DEF FifoInv, StagesFollow, Below
  <2>5. Below({lastSeq}, Range(osbuf) \cup {sent + 1})'
    BY <2>1, <2>2, <2>3, <2>4 DEF Below
  <2> QED
    BY <2>1, <2>5 DEF ResetInTime
<1>3. CASE Emit
  <2>1. UNCHANGED <<pc, resyncReq, resyncDone, reader, lastSeq>> /\ sent' = sent + 1
    BY <1>3 DEF Emit, ctrlVars, startVars, linkVars, readStats
  <2>2. Range(osbuf') \subseteq Range(osbuf) \cup {sent + 1}
    <3>1. osbuf \in Seq(Packets) /\ sent + 1 \in Packets /\ IsIncreasing(osbuf) /\ Below(Range(osbuf), {sent + 1})
      BY <1>3, ChannelAssumption
      DEF Emit, FifoInv, StagesInOrder, StagesFollow, Below, TypeOK, LinkOK, Packets
    <3>2. Range(Append(osbuf, sent + 1)) = Range(osbuf) \cup {sent + 1}
      BY <3>1, AppendFacts, PositionsTyped
    <3> QED
      BY <1>3, <3>2 DEF Emit
  <2>3. lastSeq < sent + 1 /\ lastSeq \in Int /\ sent \in Int
    BY PositionsTyped, ChannelAssumption DEF ResetInTime, Below, TypeOK, LinkOK, NoPacket
  <2> QED
    BY <2>1, <2>2, <2>3 DEF ResetInTime, Below
<1>4. CASE Put
  <2>1. UNCHANGED <<pc, sent, resyncReq, resyncDone, lastSeq, osbuf>> /\ reader # "dead"
    BY <1>4 DEF Put, ctrlVars, startVars, linkVars
  <2> QED
    BY <2>1 DEF ResetInTime
<1>5. CASE Unplug
  <2>1. UNCHANGED <<pc, sent, resyncReq, resyncDone, lastSeq, osbuf>> /\ reader' = "dead"
    BY <1>5 DEF Unplug, ctrlVars, startVars, linkVars, readStats
  <2> QED
    BY <2>1 DEF ResetInTime
<1>6. ASSUME NEW s \in Starters, Flush(s)
      PROVE  ResetInTime'
  <2>1. UNCHANGED <<sent, reader, lastSeq>> /\ (osbuf' = osbuf \/ osbuf' = <<>>)
    BY <1>6 DEF Flush, readStats
  <2>2. Below({lastSeq}, Range(osbuf) \cup {sent + 1})'
    BY <2>1, EmptyFacts DEF ResetInTime, Below
  <2>3. CASE reader = "dead"
    BY <1>6, <2>1, <2>2, <2>3 DEF Flush, ResetInTime, linkVars
  <2>4. CASE reader # "dead"
    <3>1. resyncReq' = TRUE /\ resyncDone' = FALSE /\ pc'[s] = "flushWait"
      BY <1>6, <2>4 DEF Flush, Move, TypeOK, StartOK
    <3> QED
      BY <2>2, <3>1 DEF ResetInTime
  <2> QED
    BY <2>3, <2>4
<1>7. ASSUME UNCHANGED <<sent, osbuf, lastSeq, reader, resyncReq, resyncDone>>,
             \A s \in Starters : ~Flush(s)
      PROVE  ResetInTime'
  <2>1. ASSUME resyncReq, reader # "dead", NEW s \in Starters, pc[s] = "flushWait"
        PROVE  pc'[s] = "flushWait"
    <3>1. ASSUME NEW t \in Starters, FlushWait(t)
          PROVE  pc'[s] = "flushWait"
      <4>1. resyncDone
        BY <2>1, <3>1 DEF FlushWait, Timely
      <4> QED
        BY <2>1, <4>1 DEF ResetInTime
    <3>2. ASSUME NEW t \in Starters, Preflight(t) \/ StartLock(t) \/ Setup(t) \/ SetBase(t)
          PROVE  pc'[s] = "flushWait"
      BY <2>1, <3>2 DEF Preflight, StartLock, Setup, SetBase, Move, TypeOK, StartOK
    <3>3. ASSUME NEW t \in Starters, MakeWriter(t) \/ StartWriter(t) \/ RecordingOn(t) \/
               MakeTimer(t) \/ ArmTimer(t)
          PROVE  pc'[s] = "flushWait"
      BY <2>1, <3>3 DEF MakeWriter, StartWriter, RecordingOn, MakeTimer, ArmTimer, Move, TypeOK, StartOK
    <3>4. CASE Trigger \/ StartManual
      BY <2>1, <3>4 DEF Trigger, StartManual, Move, TypeOK, StartOK
    <3> QED
      BY <1>7, <2>1, <3>1, <3>2, <3>3, <3>4, StartSteps DEF startVars
  <2> QED
    BY <1>7, <2>1 DEF ResetInTime
<1>8. ASSUME NEW s \in Starters, SetBase(s) \/ RecordingOn(s)
      PROVE  ResetInTime'
  <2>1. \A t \in Starters : pc'[t] = "flush" \/ pc[t] # "flush"
    BY <1>8 DEF SetBase, RecordingOn, Move, TypeOK, StartOK
  <2>2. \A t \in Starters : ~Flush(t)
    BY <2>1 DEF Flush, Move, TypeOK, StartOK
  <2> QED
    BY <1>7, <1>8, <2>2 DEF SetBase, RecordingOn, linkVars, readVars, readStats
<1>9. CASE StopCancel
  <2>1. \A t \in Starters : ~Flush(t)
    BY <1>9 DEF StopCancel, startVars, Flush, Move, TypeOK, StartOK
  <2> QED
    BY <1>7, <1>9, <2>1 DEF StopCancel, readVars, readStats
<1> QED
  BY <1>1, <1>2, <1>3, <1>4, <1>5, <1>6, <1>7, <1>8, <1>9, LinkSteps DEF linkVars, readVars, readStats

\* OneKnown: a new run begins when the channel knows none, and stop() clears what it knew.
LEMMA KnownStep ==
  ASSUME NoRaces, TypeOK, CleanInv, OneKnown, [Next]_vars
  PROVE  OneKnown'
<1>1. UNCHANGED <<nRuns, chWriter, spc, sw>> => OneKnown'
  BY DEF OneKnown, Known
<1>2. ASSUME NEW s \in Starters, StartLock(s)
      PROVE  OneKnown'
  <2>1. CASE state = "IDLE"
    <3>1. chWriter = NoRun /\ sw = NoRun
      BY <2>1 DEF CleanInv, StopInOrder, OneKnown
    <3>2. UNCHANGED <<chWriter, spc, sw>>
      BY <1>2 DEF StartLock, stopVars
    <3> QED
      BY <3>1, <3>2 DEF OneKnown, Known, Runs, NoRun
  <2>2. CASE state # "IDLE"
    BY <1>1, <1>2, <2>2 DEF StartLock, stopVars
  <2> QED
    BY <2>1, <2>2
<1>3. ASSUME NEW s \in Starters, MakeWriter(s)
      PROVE  OneKnown'
  <2>1. chWriter' = att[s] /\ att[s] = nRuns /\ sw = NoRun /\ UNCHANGED <<nRuns, spc, sw>>
    BY <1>3 DEF MakeWriter, Move, CleanInv, OneSetup, StopInOrder, Preparing, SetupPoints, OneKnown, stopVars
  <2> QED
    BY <2>1 DEF OneKnown, Known, Runs, NoRun
<1>4. ASSUME NEW r \in Runs, TimerStops(r)
      PROVE  OneKnown'
  BY <1>4, <1>1 DEF TimerStops, StopLock, StopReturnsNone, CleanInv, StopInOrder, OneKnown, Known, chanVars
<1>5. CASE UserStops \/ CloseBegins
  BY <1>5, <1>1
  DEF UserStops, CloseBegins, StopLock, StopReturnsNone, CleanInv, StopInOrder, OneKnown, Known, chanVars
<1>6. CASE StopCancel
  BY <1>6 DEF StopCancel, StopMoves, StopRaises, OneKnown, Known
<1>7. CASE StopDrain \/ StopJoin
  BY <1>7 DEF StopDrain, StopJoin, StopMoves, AfterDrain, chanVars, OneKnown, Known
<1>8. CASE StopClose
  BY <1>8 DEF StopClose, StopMoves, StopRaises, OneKnown, Known, NoRun, Runs, chanVars
<1>9. CASE StopResult
  BY <1>9 DEF StopResult, OneKnown, Known, NoRun, Runs
<1>10. CASE CloseEnds
  BY <1>1, <1>10 DEF CloseEnds, chanVars, stopVars
<1>11. ASSUME NEW s \in Starters, SetBase(s) \/ MakeTimer(s) \/ ArmTimer(s)
       PROVE  OneKnown'
  BY <1>1, <1>11 DEF SetBase, MakeTimer, ArmTimer, chanVars, stopVars
<1>12. ASSUME NEW r \in Runs, TimerDue(r)
       PROVE  OneKnown'
  BY <1>1, <1>12 DEF TimerDue, chanVars, stopVars
<1> QED
  BY <1>1, <1>2, <1>3, <1>4, <1>5, <1>6, <1>7, <1>8, <1>9, <1>10, <1>11, <1>12,
     ChannelSteps, StopSteps DEF chanVars, stopVars

\* The loss counter never falls, and rises by what is missing before the packet that is read.
LEMMA LostGrows ==
  ASSUME TypeOK, FifoInv, ResetInTime, [Next]_vars
  PROVE  /\ lost' >= lost
         /\ Read => /\ Head(osbuf) \in Packets
                    /\ lastSeq # NoPacket => lost' = lost + (Head(osbuf) - lastSeq - 1)
                    /\ lastSeq < Head(osbuf)
<1>1. CASE Read
  <2>1. Head(osbuf) \in Range(osbuf)
    BY <1>1, TailFacts, PositionsTyped DEF Read, FifoInv, StagesInOrder, TypeOK, LinkOK
  <2>2. Head(osbuf) \in Packets /\ lastSeq < Head(osbuf) /\ Head(osbuf) \in Int /\ lastSeq \in Int /\ lost \in Int
    BY <2>1, PositionsTyped DEF ResetInTime, Below, TypeOK, LinkOK, NoPacket
  <2>3. lost' = lost + Gap(Head(osbuf))
    BY <1>1 DEF Read
  <2> QED
    BY <2>2, <2>3 DEF Gap
<1>2. CASE ~Read
  <2>1. lost' = lost
    BY <1>2, LinkSteps
    DEF Flush, SetBase, RecordingOn, StopCancel, Emit, ServeResync, Put, Unplug, readVars, readStats
  <2> QED
    BY <1>2, <2>1 DEF TypeOK, LinkOK
<1> QED
  BY <1>1, <1>2

\* OpensClean: the gate stays shut, and no packet gets on its way, while start() prepares.
LEMMA OpensStep ==
  ASSUME Timely, TypeOK, FifoInv, CleanInv, HoleInv, [Next]_vars
  PROVE  OpensClean'
<1>1. ASSUME NEW s \in Starters, pc'[s] \in SetupPoints \ {"mkTimer", "armTimer"}
      PROVE  ~recording'
  <2>1. ~recording /\ \A t \in Starters : ~RecordingOn(t)
    <3>1. CASE pc[s] \in SetupPoints \ {"mkTimer", "armTimer"}
      <4>1. ~recording
        BY <3>1 DEF HoleInv, OpensClean, Preparing
      <4>2. ASSUME NEW t \in Starters, RecordingOn(t)
            PROVE  FALSE
        <5>1. t = s
          BY <3>1, <4>2 DEF RecordingOn, Move, CleanInv, OneSetup, Preparing, SetupPoints
        <5> QED
          BY <1>1, <4>2, <5>1 DEF RecordingOn, Move, TypeOK, StartOK
      <4> QED
        BY <4>1, <4>2
    <3>2. CASE StartLock(s) /\ state = "IDLE"
      <4>1. ~recording
        BY <3>2 DEF CleanInv, StopInOrder
      <4>2. ASSUME NEW t \in Starters, RecordingOn(t)
            PROVE  FALSE
        BY <3>2, <4>2 DEF RecordingOn, StartLock, chanVars
      <4> QED
        BY <4>1, <4>2
    <3> QED
      BY <1>1, <3>1, <3>2, StarterMoves DEF SetupPoints, Flush, Move
  <2> QED
    BY <2>1, LinkSteps
    DEF Flush, SetBase, StopCancel, Emit, ServeResync, Read, Put, Unplug, linkVars
<1>2. ASSUME NEW s \in Starters, pc'[s] \in SetupPoints \ {"setup", "flush", "mkTimer", "armTimer"}
      PROVE  Taken(att[s])' = {}
  <2>1. pc'[s] \in SetupPoints /\ att'[s] = att[s]
    BY <1>2, StarterMoves DEF SetupPoints
  <2>2. CASE Flush(s)
    <3>1. att[s] \in Runs /\ att[s] = nRuns
      BY <2>2 DEF Flush, Move, TypeOK, StartOK, CleanInv, OneSetup, Preparing, SetupPoints
    <3>2. PICK r \in Runs : r = att[s] /\ r = nRuns
      BY <3>1
    <3>3. Taken(r)' = {}
      BY <2>2, <3>2, FlushTakesNone
    <3> QED
      BY <2>1, <3>2, <3>3 DEF Taken, Contents
  <2>3. CASE ~Flush(s)
    <3>1. pc[s] \in SetupPoints \ {"setup", "flush", "mkTimer", "armTimer"}
      BY <1>2, <2>1, <2>3, StarterMoves DEF SetupPoints
    <3>2. att[s] \in Runs /\ att[s] = nRuns /\ ~recording /\ Taken(att[s]) = {}
      BY <3>1 DEF TypeOK, StartOK, CleanInv, OneSetup, Preparing, HoleInv, OpensClean
    <3>3. PICK r \in Runs : r = att[s] /\ r = nRuns /\ Taken(r) = {}
      BY <3>2
    <3>4. Taken(r)' = {}
      BY <3>2, <3>3, TakenShrinks DEF HoleInv
    <3> QED
      BY <2>1, <3>3, <3>4 DEF Taken, Contents
  <2> QED
    BY <2>2, <2>3
<1>3. ASSUME NEW s \in Starters, pc'[s] = "mkWriter"
      PROVE  lost' >= base'
  <2>1. lost \in Int /\ lost' \in Int /\ base \in Int
    BY <1>3, LinkTyped DEF TypeOK, LinkOK, ChannelOK
  <2>2. CASE \E t \in Starters : SetBase(t)
    BY <2>1, <2>2 DEF SetBase
  <2>3. CASE ~ \E t \in Starters : SetBase(t)
    <3>1. base' = base
      BY <2>3, ChannelSteps
      DEF chanVars, StartLock, MakeWriter, MakeTimer, ArmTimer, TimerDue, TimerStops, UserStops, CloseBegins,
          CloseEnds, StopCancel, StopResult, StopLock, StopReturnsNone
    <3>2. pc[s] = "mkWriter"
      BY <1>3, <2>3, StarterMoves DEF SetupPoints, Flush, Move, TypeOK, StartOK
    <3> QED
      BY <2>1, <3>1, <3>2, LostGrows DEF HoleInv, OpensClean
  <2> QED
    BY <2>2, <2>3
<1>4. ASSUME recording'
      PROVE  chWriter' # NoRun
  <2>1. CASE \E s \in Starters : RecordingOn(s)
    BY <2>1 DEF RecordingOn, Move, chanVars, CleanInv, OneSetup, Preparing, SetupPoints, TypeOK, StartOK, Runs, NoRun
  <2>2. CASE recording
    <3>1. chWriter # NoRun /\ spc # "result"
      BY <2>2 DEF HoleInv, OpensClean, CleanInv, StopInOrder
    <3> QED
      BY <3>1, ChannelSteps
      DEF chanVars, StartLock, SetBase, MakeWriter, MakeTimer, ArmTimer, TimerDue, TimerStops, UserStops, CloseBegins,
          CloseEnds, StopCancel, StopResult, StopLock, StopReturnsNone, Move, CleanInv, OneSetup,
          Preparing, SetupPoints, TypeOK, StartOK, Runs, NoRun
  <2> QED
    BY <1>4, <2>1, <2>2, LinkSteps
    DEF Flush, SetBase, StopCancel, Emit, ServeResync, Read, Put, Unplug, linkVars
<1> QED
  BY <1>1, <1>2, <1>3, <1>4 DEF OpensClean, Preparing

\* While the channel knows a run nothing that speaks against it is taken back.
LEMMA IntactBefore ==
  ASSUME TypeOK, FifoInv, CleanInv, HoleInv, [Next]_vars, NEW r \in Runs, Known(r)
  PROVE  /\ \A s \in Starters : ~Flush(s) /\ ~SetBase(s)
         /\ base' = base /\ lost' >= base
         /\ Intact(r)' => Intact(r) /\ lost' = lost
<1>1. ASSUME NEW s \in Starters, pc[s] \in {"flush", "base"}
      PROVE  FALSE
  <2>1. chWriter = NoRun /\ sw = NoRun
    BY <1>1 DEF CleanInv, OneSetup, StopInOrder, Preparing, SetupPoints, HoleInv, OneKnown
  <2> QED
    BY <2>1 DEF Known, NoRun, Runs
<1>2. \A s \in Starters : ~Flush(s) /\ ~SetBase(s)
  BY <1>1 DEF Flush, SetBase, Move
<1>3. base' = base
  BY <1>2, ChannelSteps
  DEF chanVars, StartLock, MakeWriter, MakeTimer, ArmTimer, TimerDue, TimerStops, UserStops, CloseBegins,
      CloseEnds, StopCancel, StopResult, StopLock, StopReturnsNone
<1>4. lost >= base /\ lost' >= lost /\ lost \in Int /\ lost' \in Int /\ base \in Int
  BY LostGrows, LinkTyped DEF HoleInv, NoHoleYet, TypeOK, LinkOK, ChannelOK
<1>5. drops' = 0 => drops = 0
  <2>1. drops' = drops \/ drops' = drops + 1
    BY <1>2, LinkSteps
    DEF RecordingOn, StopCancel, Emit, ServeResync, Read, Put, Unplug, readVars, readStats
  <2> QED
    BY <2>1 DEF TypeOK, LinkOK
<1>6. werror[r] => werror'[r]
  BY WriteSteps
  DEF StartWriter, WriterGet, WriterWrite, WriterExit, StopDrain, StopClose, Put, writeVars,
      TypeOK, WriteOK
<1> QED
  BY <1>2, <1>3, <1>4, <1>5, <1>6 DEF Intact

\* The channel learns of a run when start() makes its writer.
LEMMA KnownBefore ==
  ASSUME TypeOK, [Next]_vars, NEW r \in Runs, Known(r)'
  PROVE  Known(r) \/ \E s \in Starters : MakeWriter(s)
<1>1. \/ chWriter' \in {chWriter, NoRun}
      \/ \E s \in Starters : MakeWriter(s)
  BY ChannelSteps
  DEF chanVars, StartLock, SetBase, MakeTimer, ArmTimer, TimerDue, TimerStops, UserStops, CloseBegins,
      CloseEnds, StopCancel, StopResult, StopLock, StopReturnsNone
<1>2. sw' \in {sw, chWriter, NoRun}
  BY StopSteps
  DEF stopVars, TimerStops, UserStops, CloseBegins, StopCancel, StopDrain, StopJoin, StopClose, StopResult,
      StopLock, StopReturnsNone, StopRaises
<1> QED
  BY <1>1, <1>2 DEF Known, NoRun, Runs

\* A packet that is read for a run which nothing speaks against follows its last one.
LEMMA ReadFollows ==
  ASSUME TypeOK, FifoInv, CleanInv, HoleInv, [Next]_vars, NEW r \in Runs, Known(r), Read, recording, Intact(r)'
  PROVE  Unbroken(Taken(r)') /\ (Taken(r)' = {} \/ lastSeq' \in Taken(r)')
<1> DEFINE h == Head(osbuf)
<1>1. Intact(r) /\ lost' = lost /\ lost \in Int
  BY IntactBefore DEF TypeOK, LinkOK
<1>2. Unbroken(Taken(r)) /\ (Taken(r) = {} \/ lastSeq \in Taken(r))
  BY <1>1 DEF HoleInv, NoHoleYet
<1>3. h \in Int /\ lastSeq \in Int /\ (lastSeq # NoPacket => h = lastSeq + 1)
  BY <1>1, LostGrows, PositionsTyped DEF HoleInv, TypeOK, LinkOK, NoPacket
<1>4. Taken(r) \subseteq Int /\ mark[r] \in Nat /\ \A p \in Taken(r) : p > mark[r]
  BY PositionsTyped DEF Taken, TypeOK, StartOK
<1>5. Taken(r)' = IF h > mark[r] THEN Taken(r) \cup {h} ELSE Taken(r)
  <2>1. UNCHANGED <<queue, file, whand, wthread, mark>>
    BY DEF Read, writeVars, ctrlVars, startVars
  <2>2. InReader = {} /\ InReader' = {h}
    BY DEF Read, InReader
  <2>3. UNCHANGED <<InWriters, Contents(r), Range(queue)>>
    BY <2>1 DEF InWriters, Holding, Contents
  <2> QED
    BY <2>1, <2>2, <2>3 DEF Taken
<1>6. lastSeq' = h
  BY DEF Read
<1>7. CASE Taken(r) = {}
  BY <1>3, <1>5, <1>6, <1>7 DEF Unbroken
<1>8. CASE lastSeq \in Taken(r)
  <2>1. h = lastSeq + 1 /\ h > mark[r]
    BY <1>3, <1>4, <1>8 DEF NoPacket
  <2>2. ASSUME NEW p \in Taken(r)', NEW q \in Taken(r)', NEW n \in p..q
        PROVE  n \in Taken(r)'
    <3>1. p \in Int /\ q \in Int /\ n \in Int /\ p <= n /\ n <= q
      BY <1>3, <1>4, <1>5, <2>2
    <3>2. CASE n = h
      BY <1>5, <2>1, <3>2
    <3>3. CASE n # h /\ p \in Taken(r)
      <4>1. CASE q \in Taken(r)
        BY <1>2, <1>5, <3>3, <4>1 DEF Unbroken
      <4>2. CASE q = h
        <5>1. n \in p..lastSeq
          BY <1>3, <2>1, <3>1, <3>3, <4>2
        <5> QED
          BY <1>2, <1>5, <1>8, <3>3, <5>1 DEF Unbroken
      <4> QED
        BY <1>5, <4>1, <4>2
    <3>4. CASE n # h /\ p = h
      <4>1. q \in Taken(r) /\ q > lastSeq
        BY <1>3, <1>5, <2>1, <3>1, <3>4
      <4>2. n \in lastSeq..q
        BY <1>3, <2>1, <3>1, <3>4
      <4> QED
        BY <1>2, <1>5, <1>8, <4>1, <4>2 DEF Unbroken
    <3> QED
      BY <1>5, <3>2, <3>3, <3>4
  <2> QED
    BY <1>5, <1>6, <2>1, <2>2 DEF Unbroken
<1> QED
  BY <1>2, <1>7, <1>8

\* NoHoleYet: nothing leaves the way from the reader to the file without a trace.
LEMMA NoHoleStep ==
  ASSUME Timely, TypeOK, FifoInv, CleanInv, HoleInv, [Next]_vars, NEW r \in Runs, Known(r)'
  PROVE  /\ lost' >= base'
         /\ Intact(r)' => Unbroken(Taken(r)')
         /\ Intact(r)' /\ recording' => Taken(r)' = {} \/ lastSeq' \in Taken(r)'
<1>1. Unbroken({})
  BY DEF Unbroken
<1>2. ASSUME NEW s \in Starters, MakeWriter(s)
      PROVE  lost' >= base' /\ Taken(r)' = {}
  <2>1. pc[s] = "mkWriter" /\ att[s] = nRuns /\ sw = NoRun /\ chWriter' = att[s] /\ sw' = sw
    BY <1>2 DEF MakeWriter, Move, CleanInv, OneSetup, StopInOrder, Preparing, SetupPoints, HoleInv, OneKnown, stopVars
  <2>2. r = att[s] /\ r = nRuns
    BY <2>1 DEF Known, NoRun, Runs
  <2>3. Taken(r) = {} /\ lost >= base
    BY <2>1, <2>2 DEF HoleInv, OpensClean, SetupPoints
  <2>4. ~Read /\ UNCHANGED <<lost, base>>
    BY <1>2 DEF MakeWriter, Read, Move, dataVars, readVars, readStats, ctrlVars, startVars, TypeOK, StartOK
  <2> QED
    BY <2>2, <2>3, <2>4, TakenShrinks DEF HoleInv
<1>3. ASSUME Known(r), ~ \E s \in Starters : MakeWriter(s)
      PROVE  /\ lost' >= base'
             /\ Intact(r)' => Unbroken(Taken(r)')
             /\ Intact(r)' /\ recording' => Taken(r)' = {} \/ lastSeq' \in Taken(r)'
  <2>1. r = nRuns
    BY <1>3 DEF HoleInv, OneKnown
  <2>2. lost' >= base' /\ \A s \in Starters : ~Flush(s) /\ ~SetBase(s)
    BY <1>3, IntactBefore
  <2>3. CASE Read /\ recording
    BY <1>3, <2>2, <2>3, ReadFollows
  <2>4. ASSUME ~(Read /\ recording), NEW s \in Starters, StartWriter(s) \/ RecordingOn(s)
        PROVE  Taken(r)' = {}
    <3>1. pc[s] \in SetupPoints \ {"setup", "flush", "mkTimer", "armTimer"} /\ att[s] = nRuns
      BY <2>4 DEF StartWriter, RecordingOn, Move, SetupPoints, CleanInv, OneSetup, Preparing
    <3>2. Taken(r) = {}
      BY <2>1, <3>1 DEF HoleInv, OpensClean
    <3> QED
      BY <2>1, <2>4, <3>2, TakenShrinks DEF HoleInv
  <2>5. ASSUME ~(Read /\ recording), ~ \E s \in Starters : StartWriter(s) \/ RecordingOn(s), Intact(r)'
        PROVE  Unbroken(Taken(r)') /\ (recording' => Taken(r)' = {} \/ lastSeq' \in Taken(r)')
    <3>1. Taken(r)' = Taken(r)
      BY <1>3, <2>1, <2>2, <2>5, TakenShrinks DEF HoleInv
    <3>2. Intact(r)
      BY <1>3, <2>5, IntactBefore
    <3>3. recording' => recording /\ lastSeq' = lastSeq
      <4>1. ServeResync => ~recording
        BY DEF ServeResync, HoleInv, ResetInTime, OpensClean, Preparing, SetupPoints
      <4> QED
        BY <2>2, <2>5, <4>1, LinkSteps
        DEF StopCancel, Emit, ServeResync, Read, Put, Unplug, linkVars, readVars, readStats
    <3> QED
      BY <1>3, <3>1, <3>2, <3>3 DEF HoleInv, NoHoleYet
  <2> QED
    BY <1>1, <2>2, <2>3, <2>4, <2>5
<1> QED
  BY <1>1, <1>2, <1>3, KnownBefore

\* A file whose packets are all the packets of the run up to its last has no hole.
LEMMA UnbrokenFile ==
  ASSUME NEW S \in SUBSET Int, NEW s \in Seq(S), NEW m \in Int, IsIncreasing(s),
         \A p, q \in Range(s) : \A n \in p..q : p > m => n \in Range(s)
  PROVE  \A i \in 1..(Len(s) - 1) : s[i] > m => s[i + 1] = s[i] + 1
<1> SUFFICES ASSUME NEW i \in 1..(Len(s) - 1), s[i] > m, s[i + 1] # s[i] + 1
             PROVE  FALSE
  OBVIOUS
<1>1. DOMAIN s = 1..Len(s) /\ Len(s) \in Nat /\ i \in DOMAIN s /\ i + 1 \in DOMAIN s /\ i \in Int
  OBVIOUS
<1>2. \A k \in DOMAIN s : s[k] \in Int /\ s[k] \in Range(s)
  <2>1. \A k \in DOMAIN s : s[k] \in S
    BY <1>1
  <2> QED
    BY <2>1 DEF Range
<1>3. s[i] < s[i + 1]
  BY <1>1 DEF IsIncreasing
<1>4. s[i] + 1 \in s[i]..s[i + 1]
  BY <1>1, <1>2, <1>3
<1>5. s[i] + 1 \in Range(s)
  BY <1>1, <1>2, <1>4
<1>6. PICK k \in DOMAIN s : s[k] = s[i] + 1
  BY <1>5 DEF Range
<1>7. i < k /\ k < i + 1
  BY <1>1, <1>2, <1>3, <1>6 DEF IsIncreasing
<1> QED
  BY <1>1, <1>7

\* The verdict ok is given to a run without a hole: its writer thread has ended, and what is
\* still on its way is newer than all that is in the file.
LEMMA VerdictIsTrue ==
  ASSUME NoRaces, TypeOK, FifoInv, CleanInv, HoleInv, StopResult, result'[sw] = "ok"
  PROVE  \A i \in 1..(Len(file[sw]) - 1) :
           file[sw][i] > mark[sw] => file[sw][i + 1] = file[sw][i] + 1
<1>1. sw \in Runs /\ spc = "result"
  BY DEF StopResult, TypeOK, StopOK
<1>2. Intact(sw)
  BY <1>1 DEF StopResult, Bad, Intact, TypeOK, StopOK
<1>3. Unbroken(Taken(sw))
  BY <1>1, <1>2 DEF HoleInv, NoHoleYet, Known
<1>4. InWriters = {}
  BY <1>1 DEF CleanInv, StopInOrder, OwnedByChannel, WriterRunning, InWriters, Holding, NoRun, Runs
<1>5. Contents(sw) \subseteq Written
  BY <1>1 DEF Written
<1>6. \A x \in Contents(sw), y \in Range(queue) \cup InReader : x < y
  BY <1>5 DEF FifoInv, StagesFollow, Below
<1>7. ASSUME NEW p \in Contents(sw), NEW q \in Contents(sw), NEW n \in p..q, p > mark[sw]
      PROVE  n \in Contents(sw)
  <2>1. p \in Int /\ q \in Int /\ mark[sw] \in Int
    BY <1>1, PositionsTyped DEF TypeOK, StartOK
  <2>2. q > mark[sw] /\ n <= q /\ n \in Int
    BY <1>7, <2>1
  <2>3. n \in Taken(sw)
    BY <1>3, <1>7, <2>2 DEF Unbroken, Taken
  <2>4. n \notin Range(queue) \cup InReader
    BY <1>6, <2>1, <2>2
  <2> QED
    BY <1>4, <2>3, <2>4 DEF Taken
<1>8. file[sw] \in Seq(Packets) /\ IsIncreasing(file[sw]) /\ mark[sw] \in Int
  <2>1. OneThread(sw)
    BY <1>1 DEF OneThread, CleanInv, OwnedByChannel, Runs, NoRun
  <2> QED
    BY <1>1, <2>1 DEF TypeOK, WriteOK, StartOK, FifoInv, StagesInOrder
<1> QED
  BY <1>7, <1>8, PositionsTyped, UnbrokenFile DEF Contents

\* A verdict once given stays true: neither file nor mark of the run change any more.
LEMMA OkRunStep ==
  ASSUME Timely, TypeOK, FifoInv, CleanInv, HoleInv, [Next]_vars
  PROVE  OkRunHasNoHole'
<1> SUFFICES ASSUME NEW r \in Runs, result'[r] = "ok"
             PROVE  \A i \in 1..(Len(file'[r]) - 1) :
                      file'[r][i] > mark'[r] => file'[r][i + 1] = file'[r][i] + 1
  BY DEF OkRunHasNoHole
<1>1. CASE result[r] = "ok"
  <2>1. file'[r] = file[r]
    BY <1>1, ResultKeepsFile
  <2>2. mark'[r] = mark[r]
    <3>1. ASSUME NEW s \in Starters, Flush(s)
          PROVE  mark'[r] = mark[r]
      <4>1. att[s] # r
        BY <1>1, <3>1 DEF Flush, Move, CleanInv, OwnedByChannel, Preparing, SetupPoints
      <4> QED
        BY <3>1, <4>1 DEF Flush, TypeOK, StartOK
    <3> QED
      BY <3>1, MarkSteps
  <2> QED
    BY <1>1, <2>1, <2>2 DEF HoleInv, OkRunHasNoHole
<1>2. CASE result[r] # "ok"
  <2>1. StopResult /\ r = sw
    BY <1>2, StopSteps
    DEF stopVars, TimerStops, UserStops, CloseBegins, StopCancel, StopDrain, StopJoin, StopClose, StopResult,
        StopLock, StopReturnsNone, TypeOK, StopOK
  <2>2. UNCHANGED <<file, mark>>
    BY <2>1 DEF StopResult, startVars, dataVars, writeVars
  <2> QED
    BY <2>1, <2>2, VerdictIsTrue DEF Timely
<1> QED
  BY <1>1, <1>2

LEMMA HoleInit == Init => HoleInv
<1> SUFFICES ASSUME Init PROVE HoleInv
  OBVIOUS
<1>1. ResetInTime
  BY EmptyFacts DEF Init, ResetInTime, Below, NoPacket
<1>2. OpensClean /\ OneKnown /\ NoHoleYet
  BY DEF Init, OpensClean, OneKnown, NoHoleYet, Preparing, SetupPoints, Known, NoRun, Runs
<1>3. OkRunHasNoHole
  BY DEF Init, OkRunHasNoHole
<1> QED
  BY <1>1, <1>2, <1>3 DEF HoleInv

LEMMA HoleStep ==
  ASSUME Timely, TypeOK, FifoInv, CleanInv, HoleInv, [Next]_vars
  PROVE  HoleInv'
<1>1. NoHoleYet'
  BY NoHoleStep DEF NoHoleYet
<1>2. ResetInTime' /\ OneKnown'
  BY ResetStep, KnownStep DEF HoleInv, Timely
<1> QED
  BY <1>1, <1>2, OpensStep, OkRunStep DEF HoleInv

\* A run that is called ok has no hole: with any number of runs, packets and queue places,
\* when no stop() meets an unfinished start(), the ten-second limits of Writer.stop() are
\* kept, and the reader answers flush() within its second.  A full disk, a failing open(), a
\* pulled cable and every loss and overflow are covered.
THEOREM OkMeansNoHole == ASSUME Timely PROVE Spec => []OkRunHasNoHole
<1>1. NoRaces
  BY DEF Timely
<1>2. TypeOK /\ FifoInv /\ CleanInv /\ HoleInv /\ [Next]_vars => HoleInv'
  BY HoleStep
<1>3. TypeOK /\ StartsApart /\ FifoInv /\ [Next]_vars => FifoInv'
  BY FifoStep
<1>4. TypeOK /\ StartsApart /\ [Next]_vars => StartsApart'
  BY ApartStep
<1>5. HoleInv => OkRunHasNoHole
  BY DEF HoleInv
<1> QED
  BY <1>1, <1>2, <1>3, <1>4, <1>5, TypeCorrect, ApartInit, FifoInit, AlwaysClean, HoleInit, PTL DEF Spec
=============================================================================
