----------------------------- MODULE StreamStart -----------------------------
(***************************************************************************)
(* The end of the boot: app_main (main/main.c) starts the streamer         *)
(* (sensor_streamer_start, components/sensor_streamer), any step of which  *)
(* may fail, on a line that it shares with the log and with the answers of *)
(* the serial protocol, while the LED task judges whether data flow.       *)
(* DeviceBoot has what comes before, StreamPipe and FifoInterrupt what the *)
(* streamer's tasks do with the samples.  Nothing in the repository calls  *)
(* sensor_streamer_stop.                                                   *)
(***************************************************************************)
EXTENDS Integers

CONSTANTS
  Channels,   \* builds: packets leave by "uart0" or by "jtag"
  Stale,      \* LED_DATA_STALE_MS, in judgements of the LED task
  Faults      \* which misfortunes may happen

FaultKinds ==
  { "installFails", "baudFails", "socketFails", "noMemory", "fifoFails", "sendFails",
    "sensorFails" }

ASSUME StartAssumption ==
  /\ Channels \subseteq {"uart0", "jtag"}
  /\ Stale \in Nat \ {0}
  /\ Faults \subseteq FaultKinds

VARIABLES
  channel, stream, polled, sensorOk,   \* the build, the settings, the sensor
  wifiUp,       \* wifi_manager_is_connected()
  main,         \* where app_main stands
  result,       \* what sensor_streamer_start has returned
  jtag,         \* who has installed the USB Serial/JTAG driver
  uart,         \* the UART0 driver is installed
  usb_installed, silenced, sock, ringbuf, running,   \* fields of s
  baud,         \* of UART0
  reader,       \* where sensor_task or sensor_task_fifo stands
  tx,           \* where tx_task stands
  monitor,      \* iis3dwb_read_task runs
  serial,       \* the serial protocol's task has an answer to give
  text,         \* what is being written on the line: a log line or an answer
  early,        \* history: its writer had looked before the streamer ran
  watch,        \* the LED's flags: not started, or what s_streaming_mode says
  newPackets, newErrors,   \* stats.packets_sent # prev_packets, send_errors # prev_errors
  sincePacket, sinceData, sinceStart,  \* judgements since its three ticks
  streak,       \* s_sensor_err_streak, at most 3
  led,          \* its verdict
  quiet         \* history: judgements since anything was sent or read

given   == <<channel, stream, polled, sensorOk>>
drivers == <<jtag, uart, baud>>
state   == <<usb_installed, silenced, sock, ringbuf, running>>
tasks   == <<reader, tx, monitor>>
line    == <<serial, text, early>>
ledVars == <<watch, newPackets, newErrors, sincePacket, sinceData, sinceStart, streak,
             led, quiet>>
vars    == <<given, wifiUp, main, result, drivers, state, tasks, line, ledVars>>

Steps == {"install", "silence", "baud", "socket", "ring", "run", "reader", "tx"}
Ages  == 0..(Stale + 1)

TypeOK ==
  /\ channel \in Channels /\ stream \in {"none", "wifi", "usb"}
  /\ polled \in BOOLEAN /\ sensorOk \in BOOLEAN /\ wifiUp \in BOOLEAN /\ uart \in BOOLEAN
  /\ main \in Steps \cup {"decide", "check", "loop"}
  /\ result \in {"none", "ok", "failed"}
  /\ jtag \in {"none", "serial", "own"}
  /\ usb_installed \in BOOLEAN /\ silenced \in BOOLEAN /\ sock \in BOOLEAN
  /\ ringbuf \in BOOLEAN /\ running \in BOOLEAN
  /\ baud \in {"console", "stream"}
  /\ reader \in {"none", "enable", "failed", "loop", "gone"}
  /\ tx \in {"none", "loop", "sending", "gone"}
  /\ monitor \in BOOLEAN /\ early \in BOOLEAN
  /\ newPackets \in BOOLEAN /\ newErrors \in BOOLEAN
  /\ serial \in {"idle", "asked"}
  /\ text \in {"none", "log", "answer"}
  /\ watch \in {"off", "samples", "packets"}
  /\ sincePacket \in Ages /\ sinceData \in Ages /\ sinceStart \in Ages /\ quiet \in Ages
  /\ streak \in 0..3
  /\ led \in {"boot", "ok", "fault"}

\* The serial protocol has tried to install its driver, the sensor has been set up or not.
Init ==
  /\ channel \in Channels /\ stream \in {"none", "wifi", "usb"}
  /\ polled \in BOOLEAN /\ sensorOk \in BOOLEAN
  /\ wifiUp \in BOOLEAN /\ (stream = "usb" => ~wifiUp)
  /\ main = "decide" /\ result = "none"
  /\ jtag \in {"serial"} \cup (IF "installFails" \in Faults THEN {"none"} ELSE {})
  /\ uart = FALSE /\ baud = "console"
  /\ usb_installed = FALSE /\ silenced = FALSE /\ sock = FALSE /\ ringbuf = FALSE
  /\ running = FALSE
  /\ reader = "none" /\ tx = "none" /\ monitor = FALSE
  /\ serial = "idle" /\ text = "none" /\ early = FALSE
  /\ watch = "off" /\ newPackets = FALSE /\ newErrors = FALSE
  /\ sincePacket = 0 /\ sinceData = 0 /\ sinceStart = 0 /\ streak = 0
  /\ led = "boot" /\ quiet = 0

-----------------------------------------------------------------------------
(* app_main *)

MayStream == sensorOk /\ stream # "none" /\ (stream = "usb" \/ wifiUp)

\* Step 3, and the LED's flags.
Decide ==
  /\ main = "decide"
  /\ main' = "check"
  /\ monitor' = (sensorOk /\ ~MayStream)
  /\ watch' = IF MayStream THEN "packets" ELSE "samples"
  /\ sinceData' = 0 /\ sinceStart' = 0
  /\ UNCHANGED <<given, wifiUp, result, drivers, state, reader, tx, line,
                 newPackets, newErrors, sincePacket, streak, led, quiet>>

Check ==
  /\ main = "check"
  /\ main' = IF ~MayStream THEN "loop" ELSE IF stream = "usb" THEN "install" ELSE "socket"
  /\ UNCHANGED <<given, wifiUp, result, drivers, state, tasks, line, ledVars>>

-----------------------------------------------------------------------------
(* sensor_streamer_start *)

Failed == main' = "loop" /\ result' = "failed"

\* The UART driver is nobody else's; that of the USB is shared if it is there already.
Install ==
  /\ main = "install"
  /\ \/ /\ channel = "uart0"
        /\ uart' = TRUE /\ usb_installed' = TRUE
        /\ main' = "silence" /\ UNCHANGED <<jtag, result>>
     \/ /\ channel = "jtag" /\ jtag = "none"
        /\ jtag' = "own" /\ usb_installed' = TRUE
        /\ main' = "silence" /\ UNCHANGED <<uart, result>>
     \/ /\ channel = "jtag" /\ jtag # "none"
        /\ main' = "silence" /\ UNCHANGED <<jtag, uart, usb_installed, result>>
     \/ /\ "installFails" \in Faults /\ ~(channel = "jtag" /\ jtag # "none")
        /\ Failed /\ UNCHANGED <<jtag, uart, usb_installed>>
  /\ UNCHANGED <<given, wifiUp, baud, silenced, sock, ringbuf, running, tasks, line, ledVars>>

Silence ==
  /\ main = "silence"
  /\ silenced' = TRUE
  /\ main' = IF channel = "uart0" THEN "baud" ELSE "ring"
  /\ UNCHANGED <<given, wifiUp, result, drivers, usb_installed, sock, ringbuf, running,
                 tasks, line, ledVars>>

SetBaud ==
  /\ main = "baud"
  /\ \/ baud' = "stream" /\ main' = "ring" /\ UNCHANGED <<silenced, result>>
     \/ "baudFails" \in Faults /\ silenced' = FALSE /\ Failed /\ UNCHANGED baud
  /\ UNCHANGED <<given, wifiUp, jtag, uart, usb_installed, sock, ringbuf, running, tasks,
                 line, ledVars>>

OpenSocket ==
  /\ main = "socket"
  /\ \/ sock' = TRUE /\ main' = "ring" /\ UNCHANGED result
     \/ "socketFails" \in Faults /\ Failed /\ UNCHANGED sock
  /\ UNCHANGED <<given, wifiUp, drivers, usb_installed, silenced, ringbuf, running, tasks,
                 line, ledVars>>

\* What was installed is given back, as if it were always the USB's driver.
GiveBack ==
  /\ sock' = FALSE /\ silenced' = FALSE /\ usb_installed' = FALSE
  /\ jtag' = IF usb_installed THEN "none" ELSE jtag

CreateRing ==
  /\ main = "ring"
  /\ \/ ringbuf' = TRUE /\ main' = "run" /\ UNCHANGED <<jtag, usb_installed, silenced, sock, result>>
     \/ "noMemory" \in Faults /\ GiveBack /\ Failed /\ UNCHANGED ringbuf
  /\ UNCHANGED <<given, wifiUp, uart, baud, running, tasks, line, ledVars>>

Run ==
  /\ main = "run"
  /\ running' = TRUE
  /\ main' = "reader"
  /\ UNCHANGED <<given, wifiUp, result, drivers, usb_installed, silenced, sock, ringbuf,
                 tasks, line, ledVars>>

\* Nobody looks whether a task could be created.
CreateReader ==
  /\ main = "reader"
  /\ \/ reader' = IF polled THEN "loop" ELSE "enable"
     \/ "noMemory" \in Faults /\ UNCHANGED reader
  /\ main' = "tx"
  /\ UNCHANGED <<given, wifiUp, result, drivers, state, tx, monitor, line, ledVars>>

CreateTx ==
  /\ main = "tx"
  /\ \/ tx' = "loop"
     \/ "noMemory" \in Faults /\ UNCHANGED tx
  /\ main' = "loop" /\ result' = "ok"
  /\ UNCHANGED <<given, wifiUp, drivers, state, reader, monitor, line, ledVars>>

Main ==
  \/ Decide \/ Check \/ Install \/ Silence \/ SetBaud \/ OpenSocket
  \/ CreateRing \/ Run \/ CreateReader \/ CreateTx

-----------------------------------------------------------------------------
(* The streamer's tasks and the monitoring task *)

\* Slip: a FIFO that cannot be enabled ends the task with the log still off.
FailSilently ==
  /\ reader = "enable"
  /\ \/ reader' = "loop"
     \/ "fifoFails" \in Faults /\ reader' = "failed"
  /\ UNCHANGED <<given, wifiUp, main, result, drivers, state, tx, monitor, line, ledVars>>

EnableFifo ==
  /\ reader = "enable"
  /\ \/ reader' = "loop" /\ UNCHANGED silenced
     \/ "fifoFails" \in Faults /\ reader' = "failed" /\ silenced' = FALSE
  /\ UNCHANGED <<given, wifiUp, main, result, drivers, usb_installed, sock, ringbuf, running,
                 tx, monitor, line, ledVars>>

ReaderGivesUp ==
  /\ reader = "failed"
  /\ reader' = "gone" /\ running' = FALSE
  /\ UNCHANGED <<given, wifiUp, main, result, drivers, usb_installed, silenced, sock, ringbuf,
                 tx, monitor, line, ledVars>>

\* tx_task has got enough samples, which only a working reader puts into the ring.
Send ==
  /\ tx = "loop" /\ running /\ reader = "loop"
  /\ tx' = "sending"
  /\ UNCHANGED <<given, wifiUp, main, result, drivers, state, reader, monitor, line, ledVars>>

Sent ==
  /\ tx = "sending"
  /\ tx' = "loop"
  /\ \/ newPackets' = TRUE /\ quiet' = 0 /\ UNCHANGED newErrors
     \/ "sendFails" \in Faults /\ newErrors' = TRUE /\ UNCHANGED <<newPackets, quiet>>
  /\ UNCHANGED <<given, wifiUp, main, result, drivers, state, reader, monitor, line,
                 watch, sincePacket, sinceData, sinceStart, streak, led>>

TxEnds ==
  /\ tx = "loop" /\ ~running
  /\ tx' = "gone"
  /\ UNCHANGED <<given, wifiUp, main, result, drivers, state, reader, monitor, line, ledVars>>

\* iis3dwb_read_task: led_report_data_ok or led_report_data_error.
ReadSample ==
  /\ monitor
  /\ \/ sinceData' = 0 /\ streak' = 0 /\ quiet' = 0
     \/ /\ "sensorFails" \in Faults
        /\ streak' = IF streak = 3 THEN 3 ELSE streak + 1
        /\ UNCHANGED <<sinceData, quiet>>
  /\ UNCHANGED <<given, wifiUp, main, result, drivers, state, tasks, line, watch,
                 newPackets, newErrors, sincePacket, sinceStart, led>>

Tasks == EnableFifo \/ ReaderGivesUp \/ Sent \/ TxEnds

-----------------------------------------------------------------------------
(* Text on the line *)

sensor_streamer_is_serial_streaming == running /\ stream = "usb"

\* Slip: the answer is given whatever the streamer does.
AlwaysAnswer ==
  /\ serial = "idle" /\ text = "none" /\ jtag # "none"
  /\ serial' = "asked" /\ early' = ~running
  /\ UNCHANGED <<given, wifiUp, main, result, drivers, state, tasks, text, ledVars>>

\* send_response looks whether it may answer, builds the text and writes it.
Ask ==
  /\ serial = "idle" /\ text = "none" /\ jtag # "none"
  /\ ~sensor_streamer_is_serial_streaming
  /\ serial' = "asked" /\ early' = ~running
  /\ UNCHANGED <<given, wifiUp, main, result, drivers, state, tasks, text, ledVars>>

Answer ==
  /\ serial = "asked"
  /\ serial' = "idle" /\ text' = "answer"
  /\ UNCHANGED <<given, wifiUp, main, result, drivers, state, tasks, early, ledVars>>

\* Any task, at any time: the level decides.
Log ==
  /\ serial = "idle" /\ text = "none"
  /\ ~silenced
  /\ text' = "log" /\ early' = ~running
  /\ UNCHANGED <<given, wifiUp, main, result, drivers, state, tasks, serial, ledVars>>

TextEnds ==
  /\ text # "none"
  /\ text' = "none" /\ early' = FALSE
  /\ UNCHANGED <<given, wifiUp, main, result, drivers, state, tasks, serial, ledVars>>

-----------------------------------------------------------------------------
(* led_status_task: the judgement of every half second *)

Older(n) == IF n > Stale THEN n ELSE n + 1

\* Slip: the count of packets is not remembered, and any packet ever sent is a new one.
Forgets == newPackets

Remembers == FALSE

DataOk ==
  \/ sinceStart' <= Stale
  \/ watch = "packets" /\ sincePacket' < Stale
  \/ watch = "samples" /\ sinceData' <= Stale /\ streak < 3

Fault ==
  \/ ~sensorOk
  \/ stream # "usb" /\ ~wifiUp
  \/ watch = "packets" /\ newErrors
  \/ ~DataOk

Judge ==
  /\ watch # "off"
  /\ sinceStart' = Older(sinceStart) /\ sinceData' = Older(sinceData)
  /\ quiet' = Older(quiet)
  /\ IF watch = "packets"
     THEN /\ sincePacket' = IF newPackets THEN 0 ELSE Older(sincePacket)
          /\ newPackets' = Remembers /\ newErrors' = FALSE
     ELSE UNCHANGED <<sincePacket, newPackets, newErrors>>
  /\ led' = IF Fault THEN "fault" ELSE "ok"
  /\ UNCHANGED <<given, wifiUp, main, result, drivers, state, tasks, line, watch, streak>>

WifiChanges ==
  /\ stream # "usb"
  /\ wifiUp' = ~wifiUp
  /\ UNCHANGED <<given, main, result, drivers, state, tasks, line, ledVars>>

Next ==
  \/ Main \/ Tasks \/ Send \/ ReadSample
  \/ Ask \/ Answer \/ Log \/ TextEnds
  \/ Judge \/ WifiChanges

Spec == Init /\ [][Next]_vars

-----------------------------------------------------------------------------
(* Properties *)

\* When the driver, the baud rate, the socket, the ring buffer or the FIFO fails, in app_main or
\* in the sensor's task, somebody turns the log on again: after the start it is off only while
\* the streamer runs on USB and neither of its tasks has ended.  A start that failed keeps neither
\* socket nor buffer, nor the USB's driver if it had installed that itself.  A task that could
\* not be created ("none") gives nothing back: nobody looks whether it was, and the log
\* stays off beside a start that is reported as successful.
FailedStartGivesBack ==
  /\ main = "loop" /\ silenced =>
       /\ stream = "usb" /\ running
       /\ reader \in {"none", "enable", "loop"} /\ tx \in {"none", "loop", "sending"}
  /\ result = "failed" =>
       ~sock /\ ~ringbuf /\ ~running /\ ~silenced /\ (channel = "jtag" => ~usb_installed)

\* Text and packets share a line: what is written while a packet leaves was let through
\* before the streamer ran, never since.
OnlyEarlyText == stream = "usb" /\ text # "none" /\ tx = "sending" => early

\* A green LED is about data of the last seconds, sent or (without streaming) read, or about
\* a device that has only just been started.
GreenMeansData == led = "ok" => quiet <= Stale \/ sinceStart <= Stale
=============================================================================
