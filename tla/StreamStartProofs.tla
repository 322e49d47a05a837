-------------------------- MODULE StreamStartProofs --------------------------
(***************************************************************************)
(* Theorems about StreamStart, for every set of builds and of faults and   *)
(* every patience of the LED task.                                         *)
(***************************************************************************)
EXTENDS StreamStart, TLAPS

-----------------------------------------------------------------------------
(* The inductive invariants *)

\* sensor_streamer_start has got so far that tasks are, or have been, created.
Begun == main \in {"reader", "tx"} \/ (main = "loop" /\ result = "ok")

\* How far the start has come says what it has taken, and once the tasks are there the
\* state of the sensor's task says whether packets may leave and whether the log is off.
StartInv ==
  /\ result # "none" => main = "loop"
  /\ ~Begun => ~running /\ reader = "none" /\ tx = "none"
  /\ Begun => ringbuf /\ (running \/ reader = "gone")
  /\ main = "run" => ringbuf
  /\ main = "reader" => running /\ reader = "none"
  /\ main \in {"reader", "tx"} => tx = "none"
  /\ stream = "usb" /\ (main \in {"run", "reader", "tx"} \/ result = "ok") =>
       silenced \/ reader \in {"failed", "gone"}
  /\ stream = "usb" /\ main = "ring" => silenced
  /\ silenced => stream = "usb" /\ reader \notin {"failed", "gone"}
  /\ silenced => main \in {"baud", "ring", "run", "reader", "tx"} \/ result = "ok"
  /\ main \in {"install", "silence", "baud"} => stream = "usb"
  /\ main = "baud" => channel = "uart0" /\ silenced
  /\ main = "socket" => stream # "usb"
  /\ main \in {"decide", "check", "install", "silence", "baud", "socket", "ring"} =>
       ~ringbuf
  /\ main \in {"decide", "check", "install", "silence", "baud", "socket"} => ~sock
  /\ main \in {"decide", "check", "install", "socket"} => ~usb_installed
  /\ result = "failed" => ~sock /\ ~ringbuf /\ (channel = "jtag" => ~usb_installed)
  /\ tx = "sending" => reader = "loop"
  /\ tx = "gone" => reader = "gone"

\* A writer that was let through since the streamer runs has got in because the sensor's task
\* had given up, and then nothing is sent any more.
TextInv ==
  /\ serial = "asked" => text = "none"
  /\ stream = "usb" /\ (text # "none" \/ serial = "asked") =>
       early \/ reader \in {"failed", "gone"}

\* The LED's ages are never younger than what they are the ages of.
LightInv ==
  /\ main = "decide" => watch = "off" /\ ~newPackets /\ quiet = 0
  /\ main # "decide" => watch # "off"
  /\ main = "decide" => sincePacket = 0
  /\ watch = "packets" => quiet <= sincePacket + 1 /\ (newPackets => quiet = 0)
  /\ watch = "samples" => quiet <= sinceData

-----------------------------------------------------------------------------
(* Types *)

\* An age that grows stays an age, and grows by one until it is more than Stale.
LEMMA AgesGrow ==
  /\ 0 \in Ages
  /\ \A n \in Ages : Older(n) \in Ages /\ Older(n) >= n
  /\ \A n, m \in Ages : n <= m => Older(n) <= Older(m)
  /\ \A n, m \in Ages : n <= m + 1 => Older(n) <= Older(m) + 1
BY StartAssumption DEF Ages, Older

\* The types survive every step.
LEMMA TypeStep == ASSUME TypeOK, [Next]_vars PROVE TypeOK'
<1>a. 0 \in Ages
  BY AgesGrow
<1>b. \A n \in Ages : Older(n) \in Ages
  BY AgesGrow
<1> USE DEF TypeOK, Steps, given, drivers, state, tasks, line, ledVars
<1>1. CASE Decide
  BY <1>1, <1>a DEF Decide
<1>2. CASE Install \/ Silence \/ SetBaud
  BY <1>2 DEF Install, Silence, SetBaud, Failed
<1>3. CASE OpenSocket \/ CreateRing \/ Run
  BY <1>3 DEF OpenSocket, CreateRing, Run, Failed, GiveBack
<1>4. CASE Check \/ CreateReader \/ CreateTx
  BY <1>4 DEF Check, CreateReader, CreateTx
<1>5. CASE EnableFifo \/ ReaderGivesUp \/ Send \/ TxEnds
  BY <1>5 DEF EnableFifo, ReaderGivesUp, Send, TxEnds
<1>6. CASE Sent
  <2>1. newPackets' \in BOOLEAN /\ newErrors' \in BOOLEAN /\ quiet' \in Ages /\ tx' = "loop"
    BY <1>6, <1>a DEF Sent
  <2> QED BY <1>6, <2>1 DEF Sent
<1>r. CASE ReadSample
  <2>1. streak' \in 0..3 /\ sinceData' \in Ages /\ quiet' \in Ages
    BY <1>r, <1>a DEF ReadSample
  <2> QED BY <1>r, <2>1 DEF ReadSample
<1>7. CASE Ask \/ Answer \/ Log \/ TextEnds
  BY <1>7 DEF Ask, Answer, Log, TextEnds
<1>8. CASE Judge
  <2>1. UNCHANGED <<given, wifiUp, main, result, drivers, state, tasks, line, watch, streak>>
    BY <1>8 DEF Judge
  <2>2. sinceStart' \in Ages /\ sinceData' \in Ages /\ quiet' \in Ages
    BY <1>8, <1>b DEF Judge
  <2>3. sincePacket' \in Ages /\ newPackets' \in BOOLEAN /\ newErrors' \in BOOLEAN
    BY <1>8, <1>a, <1>b DEF Judge, Remembers
  <2>4. led' \in {"boot", "ok", "fault"}
    BY <1>8 DEF Judge
  <2> QED BY <2>1, <2>2, <2>3, <2>4
<1>9. CASE WifiChanges \/ UNCHANGED vars
  BY <1>9 DEF WifiChanges, vars
<1> HIDE DEF TypeOK, Steps, given, drivers, state, tasks, line, ledVars
<1> QED
  BY <1>1, <1>2, <1>3, <1>4, <1>5, <1>6, <1>r, <1>7, <1>8, <1>9
  DEF Next, Main, Tasks

\* Every variable keeps to its type.
THEOREM TypeCorrect == Spec => []TypeOK
<1>1. ASSUME Init PROVE TypeOK
  <2>1. 0 \in Ages
    BY AgesGrow
  <2>2. /\ sincePacket \in Ages /\ sinceData \in Ages /\ sinceStart \in Ages
        /\ quiet \in Ages /\ streak \in 0..3
    BY <1>1, <2>1 DEF Init
  <2>3. jtag \in {"none", "serial", "own"}
    BY <1>1 DEF Init
  <2> QED BY <1>1, <2>2, <2>3 DEF Init, TypeOK, Steps
<1> QED BY <1>1, TypeStep, PTL DEF Spec

-----------------------------------------------------------------------------
(* What the start takes and gives back *)

\* StartInv is about these variables: what leaves them alone keeps it.
startVars == <<main, result, running, reader, tx, stream, silenced, channel, ringbuf, sock,
               usb_installed>>

\* The steps of the tasks leave what the start has taken alone.
LEMMA StartVarsKept ==
  ASSUME StartInv, UNCHANGED startVars PROVE StartInv'
BY DEF StartInv, Begun, startVars

\* StartInv survives every step of app_main ...
LEMMA MainStarts == ASSUME TypeOK, StartInv, Main PROVE StartInv'
<1> USE DEF StartInv, Begun, given, drivers, state, tasks
<1>1. CASE Decide \/ Check
  BY <1>1 DEF Decide, Check, MayStream
<1>2. CASE Install
  BY <1>2 DEF Install, Failed
<1>3. CASE Silence \/ SetBaud
  BY <1>3 DEF Silence, SetBaud, Failed
<1>4. CASE OpenSocket
  BY <1>4 DEF OpenSocket, Failed
<1>5. CASE CreateRing
  BY <1>5 DEF CreateRing, Failed, GiveBack
<1>6. CASE Run
  BY <1>6 DEF Run
<1>7. CASE CreateReader
  <2>1. /\ main = "reader" /\ main' = "tx" /\ result' = result /\ tx' = tx
        /\ reader' \in {"none", "loop", "enable"}
        /\ UNCHANGED <<running, stream, silenced, channel, ringbuf, sock, usb_installed>>
    BY <1>7 DEF CreateReader
  <2> QED BY <2>1
<1>8. CASE CreateTx
  <2>1. /\ main = "tx" /\ main' = "loop" /\ result' = "ok" /\ tx' \in {"none", "loop"}
        /\ UNCHANGED <<reader, running, stream, silenced, channel, ringbuf, sock,
                       usb_installed>>
    BY <1>8 DEF CreateTx
  <2> QED BY <2>1
<1> HIDE DEF StartInv, Begun
<1> QED BY <1>1, <1>2, <1>3, <1>4, <1>5, <1>6, <1>7, <1>8 DEF Main

\* ... and every other step.
LEMMA StartStep == ASSUME TypeOK, StartInv, [Next]_vars PROVE StartInv'
<1>1. CASE Main
  BY <1>1, MainStarts
<1>2. CASE EnableFifo \/ ReaderGivesUp
  BY <1>2 DEF EnableFifo, ReaderGivesUp, StartInv, Begun, given
<1>3. CASE Send \/ Sent \/ TxEnds
  BY <1>3 DEF Send, Sent, TxEnds, StartInv, Begun, given, state
<1>4. CASE ReadSample \/ Ask \/ Answer \/ Log \/ TextEnds
  <2>1. UNCHANGED startVars
    BY <1>4 DEF ReadSample, Ask, Answer, Log, TextEnds, startVars, given, state, tasks
  <2> QED BY <2>1, StartVarsKept
<1>5. CASE Judge \/ WifiChanges \/ UNCHANGED vars
  <2>1. UNCHANGED startVars
    BY <1>5 DEF Judge, WifiChanges, vars, startVars, given, state, tasks
  <2> QED BY <2>1, StartVarsKept
<1> QED BY <1>1, <1>2, <1>3, <1>4, <1>5 DEF Next, Tasks

\* What the start has taken is known at every step, whichever of them fails.
THEOREM AlwaysStartInv == Spec => []StartInv
<1>1. ASSUME Init PROVE StartInv
  BY <1>1 DEF Init, StartInv, Begun
<1> QED BY <1>1, StartStep, TypeCorrect, PTL DEF Spec

\* When a driver, the socket, the ring buffer or the FIFO fails, in app_main or in the sensor's
\* task, the log comes back and a failed start keeps nothing of what it took.  The creation of
\* the tasks, which nobody checks, is not among these steps.
THEOREM AlwaysFailedStartGivesBack == Spec => []FailedStartGivesBack
<1>1. StartInv /\ TypeOK => FailedStartGivesBack
  BY DEF StartInv, Begun, FailedStartGivesBack, TypeOK
<1> QED BY <1>1, AlwaysStartInv, TypeCorrect, PTL

-----------------------------------------------------------------------------
(* Text among the packets *)

\* A writer that comes while the streamer uses the line comes after the sensor's task has
\* given up.
LEMMA LateWriter ==
  ASSUME TypeOK, StartInv, stream = "usb", running, ~silenced
  PROVE  reader \in {"failed", "gone"}
BY DEF TypeOK, StartInv, Begun

\* The sensor's task does not come back once it has given up.
LEMMA ReaderStaysGone ==
  ASSUME StartInv, Next, reader \in {"failed", "gone"}
  PROVE  reader' \in {"failed", "gone"}
<1>1. CASE Main
  BY <1>1 DEF Main, Decide, Check, Install, Silence, SetBaud, OpenSocket, CreateRing, Run,
              CreateReader, CreateTx, tasks, StartInv
<1>2. CASE ~Main
  BY <1>2 DEF Next, Tasks, EnableFifo, ReaderGivesUp, Sent, TxEnds, Send, ReadSample, Ask,
              Answer, Log, TextEnds, Judge, WifiChanges, tasks
<1> QED BY <1>1, <1>2

\* TextInv survives every step.
LEMMA TextStep == ASSUME TypeOK, StartInv, TextInv, [Next]_vars PROVE TextInv'
<1>1. CASE Ask
  <2>1. stream' = stream /\ text' = text /\ text = "none" /\ early' = ~running
    BY <1>1 DEF Ask, given
  <2>2. stream = "usb" => ~running
    BY <1>1 DEF Ask, sensor_streamer_is_serial_streaming
  <2> QED BY <2>1, <2>2 DEF TextInv
<1>2. CASE Answer
  BY <1>2 DEF Answer, TextInv, given, tasks
<1>3. CASE Log
  <2>1. /\ stream' = stream /\ serial' = serial /\ serial = "idle" /\ early' = ~running
        /\ ~silenced /\ reader' = reader
    BY <1>3 DEF Log, given, tasks
  <2> QED BY <2>1, LateWriter DEF TextInv
<1>4. CASE TextEnds
  BY <1>4 DEF TextEnds, TextInv, TypeOK
<1>5. CASE UNCHANGED vars
  BY <1>5 DEF vars, given, tasks, line, TextInv
<1>6. CASE Next /\ ~(Ask \/ Answer \/ Log \/ TextEnds)
  <2>1. UNCHANGED <<stream, serial, text, early>>
    BY <1>6 DEF Next, Main, Decide, Check, Install, Silence, SetBaud, OpenSocket, CreateRing,
                Run, CreateReader, CreateTx, Tasks, EnableFifo, ReaderGivesUp, Sent, TxEnds,
                Send, ReadSample, Judge, WifiChanges, given, line
  <2> QED BY <1>6, <2>1, ReaderStaysGone DEF TextInv
<1> QED BY <1>1, <1>2, <1>3, <1>4, <1>5, <1>6 DEF vars

\* What is known of a writer in the middle of its text.
THEOREM AlwaysTextInv == Spec => []TextInv
<1>1. ASSUME Init PROVE TextInv
  BY <1>1 DEF Init, TextInv
<1> QED BY <1>1, TextStep, TypeCorrect, AlwaysStartInv, PTL DEF Spec

\* No log line and no answer that was begun since the streamer runs ever meets a packet.
THEOREM AlwaysOnlyEarlyText == Spec => []OnlyEarlyText
<1>1. StartInv /\ TextInv => OnlyEarlyText
  BY DEF StartInv, TextInv, OnlyEarlyText
<1> QED BY <1>1, AlwaysStartInv, AlwaysTextInv, PTL

-----------------------------------------------------------------------------
(* The LED *)

\* LightInv survives every judgement of the LED task: a packet is younger than the judgement
\* that saw it, and both ages grow by one.
LEMMA JudgeStep == ASSUME TypeOK, LightInv, Judge PROVE LightInv'
<1>1. /\ watch # "off" /\ main # "decide" /\ UNCHANGED <<main, watch>>
      /\ quiet' = Older(quiet) /\ sinceData' = Older(sinceData)
  BY DEF Judge, LightInv
<1>2. quiet \in Ages /\ sincePacket \in Ages /\ sinceData \in Ages /\ newPackets \in BOOLEAN
  BY DEF TypeOK
<1>3. CASE watch = "packets" /\ newPackets
  <2>1. sincePacket' = 0 /\ ~newPackets' /\ quiet' = Older(0)
    BY <1>1, <1>3 DEF Judge, Remembers, LightInv
  <2>2. Older(0) = 1
    BY StartAssumption DEF Older
  <2> QED BY <1>1, <1>3, <2>1, <2>2 DEF LightInv
<1>4. CASE watch = "packets" /\ ~newPackets
  <2>1. sincePacket' = Older(sincePacket) /\ ~newPackets' /\ quiet <= sincePacket + 1
    BY <1>4 DEF Judge, Remembers, LightInv
  <2>2. Older(quiet) <= Older(sincePacket) + 1
    BY <1>2, <2>1, AgesGrow
  <2> QED BY <1>1, <1>4, <2>1, <2>2 DEF LightInv
<1>5. CASE watch # "packets"
  <2>1. watch = "samples" => quiet <= sinceData
    BY DEF LightInv
  <2>2. watch = "samples" => Older(quiet) <= Older(sinceData)
    BY <1>2, <2>1, AgesGrow
  <2> QED BY <1>1, <1>5, <2>2 DEF LightInv
<1> QED BY <1>3, <1>4, <1>5

\* LightInv survives every step.
LEMMA LightStep == ASSUME TypeOK, StartInv, LightInv, [Next]_vars PROVE LightInv'
<1>a. /\ quiet \in Int /\ sincePacket \in Int /\ sinceData \in Int
      /\ sincePacket >= 0 /\ sinceData >= 0
  BY StartAssumption DEF TypeOK, Ages
<1>1. CASE Judge
  BY <1>1, JudgeStep
<1>2. CASE Decide
  <2>1. /\ main = "decide" /\ main' = "check" /\ watch' \in {"packets", "samples"}
        /\ sinceData' = 0 /\ UNCHANGED <<newPackets, sincePacket, quiet>>
    BY <1>2 DEF Decide
  <2>2. quiet = 0 /\ sincePacket = 0 /\ ~newPackets
    BY <2>1 DEF LightInv
  <2> QED BY <2>1, <2>2 DEF LightInv
<1>3. CASE Sent
  <2>1. UNCHANGED <<main, watch, sincePacket, sinceData>>
    BY <1>3 DEF Sent
  <2>2. main # "decide"
    BY <1>3 DEF Sent, StartInv, Begun
  <2>3. quiet' = 0 \/ (quiet' = quiet /\ newPackets' = newPackets)
    BY <1>3 DEF Sent
  <2> QED BY <1>a, <2>1, <2>2, <2>3 DEF LightInv
<1>4. CASE ReadSample
  <2>1. UNCHANGED <<main, watch, sincePacket, newPackets>>
    BY <1>4 DEF ReadSample
  <2>2. (quiet' = 0 /\ sinceData' = 0) \/ UNCHANGED <<quiet, sinceData>>
    BY <1>4 DEF ReadSample
  <2> QED BY <1>a, <2>1, <2>2 DEF LightInv
<1>5. CASE ~(Judge \/ Decide \/ Sent \/ ReadSample)
  <2>1. UNCHANGED <<watch, newPackets, sincePacket, sinceData, quiet>>
    BY <1>5 DEF Next, Main, Check, Install, Silence, SetBaud, OpenSocket, CreateRing, Run,
                CreateReader, CreateTx, Tasks, EnableFifo, ReaderGivesUp, TxEnds, Send, Ask,
                Answer, Log, TextEnds, WifiChanges, vars, ledVars
  <2>2. (main' = "decide") = (main = "decide")
    BY <1>5 DEF Next, Main, Check, Install, Silence, SetBaud, OpenSocket, CreateRing, Run,
                CreateReader, CreateTx, Tasks, EnableFifo, ReaderGivesUp, TxEnds, Send, Ask,
                Answer, Log, TextEnds, WifiChanges, vars, Failed
  <2> QED BY <2>1, <2>2 DEF LightInv
<1> QED BY <1>1, <1>2, <1>3, <1>4, <1>5

\* The ages that the LED looks at tell the truth about the silence.
THEOREM AlwaysLightInv == Spec => []LightInv
<1>1. ASSUME Init PROVE LightInv
  BY <1>1 DEF Init, LightInv
<1> QED BY <1>1, LightStep, TypeCorrect, AlwaysStartInv, PTL DEF Spec

\* Only a judgement turns the LED green, and it has then seen data, or a start, that is
\* young enough.
LEMMA GreenJudgement ==
  ASSUME TypeOK, LightInv, Judge, led' = "ok"
  PROVE  quiet' <= Stale \/ sinceStart' <= Stale
<1>1. DataOk
  BY DEF Judge, Fault
<1>2. LightInv' /\ TypeOK'
  BY JudgeStep, TypeStep DEF Next
<1>3. /\ watch' = watch /\ quiet' \in Int /\ sincePacket' \in Int /\ sinceData' \in Int
      /\ sinceStart' \in Int /\ Stale \in Int
  BY <1>2, StartAssumption DEF Judge, TypeOK, Ages
<1>4. /\ watch = "packets" => quiet' <= sincePacket' + 1
      /\ watch = "samples" => quiet' <= sinceData'
  BY <1>2, <1>3 DEF LightInv
<1>5. sinceStart' <= Stale \/ (watch = "packets" /\ sincePacket' < Stale)
        \/ (watch = "samples" /\ sinceData' <= Stale)
  BY <1>1 DEF DataOk
<1>6. CASE watch = "packets" /\ sincePacket' < Stale
  <2>1. quiet' <= sincePacket' + 1
    BY <1>4, <1>6
  <2>2. ASSUME NEW q \in Int, NEW p \in Int, q <= p + 1, p < Stale PROVE q <= Stale
    BY <1>3, <2>2
  <2> QED BY <1>3, <1>6, <2>1, <2>2
<1>7. CASE watch = "samples" /\ sinceData' <= Stale
  <2>1. quiet' <= sinceData'
    BY <1>4, <1>7
  <2> QED BY <1>3, <1>7, <2>1
<1> QED BY <1>5, <1>6, <1>7

\* A green LED is never about data older than its limit, however packets, failed sends,
\* failed reads and judgements meet.
THEOREM AlwaysGreenMeansData == Spec => []GreenMeansData
<1>1. ASSUME Init PROVE GreenMeansData
  BY <1>1 DEF Init, GreenMeansData
<1>2. ASSUME TypeOK, LightInv, GreenMeansData, [Next]_vars PROVE GreenMeansData'
  <2>a. 0 <= Stale
    BY StartAssumption
  <2>1. CASE Judge
    BY <2>1, <1>2, GreenJudgement DEF GreenMeansData
  <2>2. CASE Decide \/ Sent \/ ReadSample
    <3>1. led' = led
      BY <2>2 DEF Decide, Sent, ReadSample
    <3>2. CASE Decide
      BY <2>a, <3>2 DEF Decide, GreenMeansData
    <3>3. CASE Sent \/ ReadSample
      <4>1. sinceStart' = sinceStart /\ (quiet' = 0 \/ quiet' = quiet)
        BY <3>3 DEF Sent, ReadSample
      <4> QED BY <1>2, <2>a, <3>1, <4>1 DEF GreenMeansData
    <3> QED BY <2>2, <3>2, <3>3
  <2>3. CASE ~(Judge \/ Decide \/ Sent \/ ReadSample)
    <3>1. UNCHANGED <<led, quiet, sinceStart>>
      BY <1>2, <2>3
         DEF Next, Main, Check, Install, Silence, SetBaud, OpenSocket, CreateRing, Run,
             CreateReader, CreateTx, Tasks, EnableFifo, ReaderGivesUp, TxEnds, Send, Ask,
             Answer, Log, TextEnds, WifiChanges, vars, ledVars
    <3> QED BY <1>2, <3>1 DEF GreenMeansData
  <2> QED BY <2>1, <2>2, <2>3
<1> QED BY <1>1, <1>2, TypeCorrect, AlwaysLightInv, PTL DEF Spec
=============================================================================
