--------------------------- MODULE CollectChannel ---------------------------
(***************************************************************************)
(* One recording channel of the Raspberry Pi collector                     *)
(* (rpi-collector/session.py Channel) together with the threads that work  *)
(* on it:                                                                  *)
(*                                                                         *)
(*   the GPIO watcher thread    calls _on_trigger, and through it start    *)
(*   the GUI (or CLI) thread    calls start_manual, stop and close         *)
(*   one threading.Timer a run  calls stop when the run's time is up       *)
(*   the link's reader thread   sensor_link.py SensorLink._loop            *)
(*   a writer thread a start()  writer.py Writer._loop                     *)
(*                                                                         *)
(* start() and stop() hold the channel's lock only while they test and set *)
(* `state'; everything after that runs unlocked, so each shared effect is  *)
(* an action of its own here, and self.writer and self._timer are read     *)
(* again wherever the code does: a stop() that overtakes a start() lets    *)
(* that start() go on with what a later one has put there.  A packet is    *)
(* the ordinal number the device gave it; a run, and with it a Writer, a   *)
(* Timer and a writer thread, is the ordinal number of the start() that    *)
(* passed the lock and made it.                                            *)
(***************************************************************************)
EXTENDS Integers, Sequences, Functions

CONSTANTS
  MaxRuns,     \* bound: how many start() calls pass the lock
  MaxPackets,  \* bound: how many packets the device emits
  QueueMax,    \* session.py QUEUE_MAXSIZE
  Faults       \* which misfortunes of the environment may happen

FaultKinds ==
  { "stopInSetup",   \* stop() is called while start() is still preparing
    "setupError",    \* mkdir or open() raises inside start()
    "diskFull",      \* write() or close() of the data file raises
    "flushTimeout",  \* the reader does not answer flush() within 1 s
    "drainTimeout",  \* the queue or the writer outlives the 10 s limits
    "unplug" }       \* the cable is pulled: the reader thread returns

ASSUME ChannelAssumption ==
  /\ MaxRuns \in Nat \ {0}
  /\ MaxPackets \in Nat
  /\ QueueMax \in Nat \ {0}
  /\ Faults \subseteq FaultKinds

Runs     == 1..MaxRuns
Packets  == 1..MaxPackets
NoRun    == 0
NoPacket == 0
Starters == {"gpio", "gui"}

VARIABLES
  alive,       \* FALSE once the program has exited (all threads are daemons)
  state,       \* Channel.state
  nRuns,       \* history: number of runs begun so far
  chWriter,    \* Channel.writer: the run whose Writer it is, or NoRun
  chTimer,     \* Channel._timer: the run whose Timer it is, or NoRun
  base,        \* Channel._base_lost
  pc, att,     \* where each starter thread stands, and the run it prepares
  stopper,     \* the thread inside stop(), or "nobody"
  spc, sw,     \* where stop() stands, and its local w
  timer,       \* [Runs -> life of the run's threading.Timer]
  closing,     \* the GUI thread is inside close()
  recording,   \* link.recording
  resyncReq, resyncDone,
  sent,        \* packets the device has emitted
  osbuf,       \* the serial driver's input buffer
  reader,      \* where the reader thread stands
  hand,        \* the packet the reader is about to put
  lastSeq,     \* SeqTracker.last
  lost,        \* stats.lost
  seen,        \* stats.last_seen is set: a packet has been received
  drops,       \* stats.queue_drops
  queue,       \* Channel.queue, shared by every Writer of the channel
  wthread,     \* [Runs -> where the writer thread stands that this start() started]
  served,      \* [Runs -> the Writer that thread works for, or NoRun]
  whand,       \* [Runs -> the packet that thread took from the queue]
  wfile,       \* [Runs -> the file object opened with that thread]
  wlast,       \* [Runs -> the start() that has Writer._thread and Writer._f, or NoRun]
  wstop,       \* [Runs -> Writer._stop]
  werror,      \* [Runs -> Writer.error is set]
  file,        \* [Runs -> packets written to the run's data file]
  mark,        \* history: [Runs -> `sent' when start() called flush()]
  result       \* [Runs -> verdict of the RunResult that stop() recorded]

chanVars   == <<state, nRuns, chWriter, chTimer, base>>
startVars  == <<pc, att, mark>>
stopVars   == <<stopper, spc, sw, closing, result>>
linkVars   == <<recording, resyncReq, resyncDone>>
readStats  == <<lastSeq, lost, seen, drops>>
readVars   == <<osbuf, reader, hand, readStats>>
writeVars  == <<wthread, served, whand, wfile, wlast, wstop, werror, file>>
ctrlVars == <<alive, chanVars, startVars, stopVars, timer>>
dataVars == <<linkVars, sent, readVars, queue, writeVars>>
vars == <<ctrlVars, dataVars>>

SetupPoints == {"setup", "flush", "flushWait", "base", "mkWriter", "wStart",
                "recOn", "mkTimer", "armTimer"}
StartPoints == {"idle", "preflight", "lock"} \cup SetupPoints
StopPoints  == {"none", "cancel", "drain", "join", "close", "result"}

ChannelOK ==
  /\ alive \in BOOLEAN
  /\ state \in {"IDLE", "RECORDING", "FINISHING"}
  /\ nRuns \in 0..MaxRuns
  /\ chWriter \in Runs \cup {NoRun}
  /\ chTimer \in Runs \cup {NoRun}
  /\ base \in Int
  /\ timer \in [Runs -> {"none", "armed", "due", "cancelled", "done"}]

StartOK ==
  /\ pc \in [Starters -> StartPoints]
  /\ att \in [Starters -> Runs \cup {NoRun}]
  /\ \A s \in Starters : pc[s] \in SetupPoints => att[s] \in Runs
  /\ mark \in [Runs -> 0..MaxPackets]

StopOK ==
  /\ stopper \in {"nobody", "gui", "timer"}
  /\ spc \in StopPoints
  /\ sw \in Runs \cup {NoRun}
  /\ spc \in {"drain", "join", "close", "result"} => sw \in Runs
  /\ closing \in BOOLEAN
  /\ result \in [Runs -> {"none", "ok", "bad"}]

LinkOK ==
  /\ recording \in BOOLEAN
  /\ resyncReq \in BOOLEAN
  /\ resyncDone \in BOOLEAN
  /\ sent \in 0..MaxPackets
  /\ osbuf \in Seq(Packets)
  /\ reader \in {"loop", "put", "dead"}
  /\ hand \in Packets \cup {NoPacket}
  /\ reader = "put" => hand \in Packets
  /\ lastSeq \in Packets \cup {NoPacket}
  /\ lost \in Int
  /\ seen \in BOOLEAN
  /\ drops \in Nat

WriteOK ==
  /\ queue \in Seq(Packets)
  /\ Len(queue) <= QueueMax
  /\ wthread \in [Runs -> {"none", "loop", "write", "exit"}]
  /\ served \in [Runs -> Runs \cup {NoRun}]
  /\ \A t \in Runs : wthread[t] # "none" => served[t] \in Runs
  /\ wlast \in [Runs -> Runs \cup {NoRun}]
  /\ whand \in [Runs -> Packets \cup {NoPacket}]
  /\ \A t \in Runs : wthread[t] = "write" => whand[t] \in Packets
  /\ wstop \in [Runs -> BOOLEAN]
  /\ wfile \in [Runs -> {"none", "open", "closed"}]
  /\ werror \in [Runs -> BOOLEAN]
  /\ file \in [Runs -> Seq(Packets)]

TypeOK == ChannelOK /\ StartOK /\ StopOK /\ LinkOK /\ WriteOK

\* collector_gui opened the collector: link open, reader and watcher started.
Init ==
  /\ alive = TRUE
  /\ state = "IDLE"
  /\ nRuns = 0
  /\ chWriter = NoRun
  /\ chTimer = NoRun
  /\ base = 0
  /\ pc = [s \in Starters |-> "idle"]
  /\ att = [s \in Starters |-> NoRun]
  /\ stopper = "nobody"
  /\ spc = "none"
  /\ sw = NoRun
  /\ timer = [r \in Runs |-> "none"]
  /\ closing = FALSE
  /\ recording = FALSE
  /\ resyncReq = FALSE
  /\ resyncDone = FALSE
  /\ sent = 0
  /\ osbuf = <<>>
  /\ reader = "loop"
  /\ hand = NoPacket
  /\ lastSeq = NoPacket
  /\ lost = 0
  /\ seen = FALSE
  /\ drops = 0
  /\ queue = <<>>
  /\ wthread = [r \in Runs |-> "none"]
  /\ served = [r \in Runs |-> NoRun]
  /\ wlast = [r \in Runs |-> NoRun]
  /\ whand = [r \in Runs |-> NoPacket]
  /\ wstop = [r \in Runs |-> FALSE]
  /\ wfile = [r \in Runs |-> "none"]
  /\ werror = [r \in Runs |-> FALSE]
  /\ file = [r \in Runs |-> <<>>]
  /\ mark = [r \in Runs |-> 0]
  /\ result = [r \in Runs |-> "none"]

-----------------------------------------------------------------------------
(* _on_trigger, start_manual, preflight and start() *)

GuiFree == pc["gui"] = "idle" /\ stopper # "gui" /\ ~closing

\* A start() that has passed the lock and has not returned yet.
InSetup == \E s \in Starters : pc[s] \in SetupPoints

Move(s, from, to) ==
  /\ alive
  /\ pc[s] = from
  /\ pc' = [pc EXCEPT ![s] = to]

\* An edge reaches _on_trigger while the channel is idle.  An edge during a run
\* only counts ignored_triggers and emits a warning: no state of the run moves.
Trigger ==
  /\ state = "IDLE"
  /\ Move("gpio", "idle", "preflight")
  /\ UNCHANGED <<alive, chanVars, att, mark, stopVars, timer, dataVars>>

StartManual ==
  /\ GuiFree
  /\ Move("gui", "idle", "preflight")
  /\ UNCHANGED <<alive, chanVars, att, mark, stopVars, timer, dataVars>>

\* preflight() refuses a busy channel and one that receives nothing.  It may also
\* refuse for reasons outside the channel (unnamed slots, space, auto_start off).
Preflight(s) ==
  /\ \/ Move(s, "preflight", "idle")
     \/ /\ state = "IDLE"
        /\ seen /\ reader # "dead"
        /\ nRuns < MaxRuns
        /\ Move(s, "preflight", "lock")
  /\ UNCHANGED <<alive, chanVars, att, mark, stopVars, timer, dataVars>>

\* The locked test-and-set: a second starter returns False.
StartLock(s) ==
  /\ \/ /\ state = "IDLE"
        /\ nRuns < MaxRuns
        /\ Move(s, "lock", "setup")
        /\ state' = "RECORDING"
        /\ nRuns' = nRuns + 1
        /\ att' = [att EXCEPT ![s] = nRuns + 1]
     \/ /\ state # "IDLE"
        /\ Move(s, "lock", "idle")
        /\ UNCHANGED <<state, nRuns, att>>
  /\ UNCHANGED <<alive, chWriter, chTimer, base, mark, stopVars, timer, dataVars>>

\* Make the directory and set the run's fields.  An exception leaves start() with
\* the channel still RECORDING: PhotoTrigger._on_edge swallows it, Tk prints it.
Setup(s) ==
  /\ \/ Move(s, "setup", "flush")
     \/ "setupError" \in Faults /\ Move(s, "setup", "idle")
  /\ UNCHANGED <<alive, chanVars, att, mark, stopVars, timer, dataVars>>

\* link.flush(): empty the driver's buffer here if the reader has died, else ask
\* the reader to do it.
Flush(s) ==
  /\ \/ /\ reader = "dead"
        /\ Move(s, "flush", "base")
        /\ osbuf' = <<>>
        /\ UNCHANGED linkVars
     \/ /\ reader # "dead"
        /\ Move(s, "flush", "flushWait")
        /\ resyncReq' = TRUE
        /\ resyncDone' = FALSE
        /\ UNCHANGED <<osbuf, recording>>
  /\ mark' = [mark EXCEPT ![att[s]] = sent]
  /\ UNCHANGED <<alive, chanVars, att, stopVars, timer, sent, readStats, reader,
                 hand, queue, writeVars>>

\* The result of wait(timeout) is not looked at.
FlushWait(s) ==
  /\ resyncDone \/ reader = "dead" \/ "flushTimeout" \in Faults
  /\ Move(s, "flushWait", "base")
  /\ UNCHANGED <<alive, chanVars, att, mark, stopVars, timer, dataVars>>

SetBase(s) ==
  /\ Move(s, "base", "mkWriter")
  /\ drops' = 0
  /\ base' = lost
  /\ UNCHANGED <<alive, state, nRuns, chWriter, chTimer, att, mark, stopVars,
                 timer, linkVars, sent, osbuf, reader, hand, lastSeq, lost, seen,
                 queue, writeVars>>

MakeWriter(s) ==
  /\ Move(s, "mkWriter", "wStart")
  /\ chWriter' = att[s]
  /\ UNCHANGED <<alive, state, nRuns, chTimer, base, att, mark, stopVars, timer,
                 dataVars>>

\* self.writer.start(), of whatever Writer is there by now: open the file, clear
\* _stop, start a thread.  It raises if open() does, or if a stop() in between has set
\* self.writer to None.
StartWriter(s) ==
  /\ \/ /\ chWriter # NoRun
        /\ Move(s, "wStart", "recOn")
        /\ served' = [served EXCEPT ![att[s]] = chWriter]
        /\ wthread' = [wthread EXCEPT ![att[s]] = "loop"]
        /\ wfile' = [wfile EXCEPT ![att[s]] = "open"]
        /\ wlast' = [wlast EXCEPT ![chWriter] = att[s]]
        /\ wstop' = [wstop EXCEPT ![chWriter] = FALSE]
     \/ /\ "setupError" \in Faults \/ chWriter = NoRun
        /\ Move(s, "wStart", "idle")
        /\ UNCHANGED <<served, wthread, wfile, wlast, wstop>>
  /\ UNCHANGED <<alive, chanVars, att, mark, stopVars, timer, linkVars, sent,
                 readVars, queue, whand, werror, file>>

RecordingOn(s) ==
  /\ Move(s, "recOn", "mkTimer")
  /\ recording' = TRUE
  /\ UNCHANGED <<alive, chanVars, att, mark, stopVars, timer, resyncReq,
                 resyncDone, sent, readVars, queue, writeVars>>

MakeTimer(s) ==
  /\ Move(s, "mkTimer", "armTimer")
  /\ chTimer' = att[s]
  /\ UNCHANGED <<alive, state, nRuns, chWriter, base, att, mark, stopVars, timer,
                 dataVars>>

\* Slip: the Timer is made and stored, but never started.
ArmTimerUnstarted(s) ==
  /\ Move(s, "armTimer", "idle")
  /\ UNCHANGED <<alive, chanVars, att, mark, stopVars, timer, dataVars>>

\* self._timer.start(), again of whatever is there.  It raises where there is none, and
\* where the Timer was started before.
ArmTimer(s) ==
  /\ Move(s, "armTimer", "idle")
  /\ timer' = [r \in Runs |-> IF r = chTimer /\ timer[r] = "none" THEN "armed" ELSE timer[r]]
  /\ UNCHANGED <<alive, chanVars, att, mark, stopVars, dataVars>>

-----------------------------------------------------------------------------
(* The run's timer, stop() and close() *)

\* The interval is over and the timer thread has seen that it was not cancelled:
\* from here on cancel() comes too late.
TimerDue(r) ==
  /\ alive
  /\ timer[r] = "armed"
  /\ timer' = [timer EXCEPT ![r] = "due"]
  /\ UNCHANGED <<alive, chanVars, startVars, stopVars, dataVars>>

\* The locked test of stop(): only one caller takes RECORDING to FINISHING.
StopLock(t) ==
  /\ state = "RECORDING"
  /\ "stopInSetup" \in Faults \/ ~InSetup
  /\ state' = "FINISHING"
  /\ stopper' = t
  /\ spc' = "cancel"
  /\ UNCHANGED <<nRuns, chWriter, chTimer, base, sw, result>>

StopReturnsNone ==
  /\ state # "RECORDING"
  /\ UNCHANGED <<chanVars, stopper, spc, sw, result>>

TimerStops(r) ==
  /\ alive
  /\ timer[r] = "due"
  /\ timer' = [timer EXCEPT ![r] = "done"]
  /\ StopLock("timer") \/ StopReturnsNone
  /\ UNCHANGED <<alive, startVars, closing, dataVars>>

UserStops ==
  /\ alive
  /\ GuiFree
  /\ StopLock("gui")
  /\ UNCHANGED <<alive, startVars, closing, timer, dataVars>>

\* close(): stop a run that is RECORDING.  One that is FINISHING is not waited for.
CloseBegins ==
  /\ alive
  /\ GuiFree
  /\ closing' = TRUE
  /\ StopLock("gui") \/ StopReturnsNone
  /\ UNCHANGED <<alive, startVars, timer, dataVars>>

\* The rest of close(): stop watcher and reader, after which the window goes away,
\* the main thread ends and the interpreter takes every daemon thread with it.
CloseEnds ==
  /\ alive
  /\ closing
  /\ stopper # "gui"
  /\ alive' = FALSE
  /\ UNCHANGED <<chanVars, startVars, stopVars, timer, dataVars>>

\* The thread inside stop() gets an exception: it leaves, and `state' stays.
StopRaises ==
  /\ stopper' = "nobody"
  /\ spc' = "none"
  /\ sw' = NoRun
  /\ closing' = (closing /\ stopper # "gui")

StopMoves(from, to) ==
  /\ alive
  /\ spc = from
  /\ spc' = to
  /\ UNCHANGED <<stopper, closing>>

\* Slip: stop() forgets the timer it no longer needs instead of cancelling it.
NotCancelled == timer

\* cancel() reaches a timer thread that is still waiting or not yet started.
Cancelled == [r \in Runs |->
  IF r = chTimer /\ timer[r] \in {"none", "armed"} THEN "cancelled" ELSE timer[r]]

\* Cancel the timer, close the gate of the reader, pick up the writer, whose
\* absence is an AttributeError.
StopCancel ==
  /\ alive
  /\ spc = "cancel"
  /\ timer' = Cancelled
  /\ chTimer' = NoRun
  /\ recording' = FALSE
  /\ \/ chWriter # NoRun /\ sw' = chWriter /\ StopMoves("cancel", "drain")
     \/ chWriter = NoRun /\ StopRaises
  /\ UNCHANGED <<alive, state, nRuns, chWriter, base, startVars, result,
                 resyncReq, resyncDone, sent, readVars, queue, writeVars>>

WriterRunning(t) == wthread[t] \in {"loop", "write"}

\* Slip: with the queue empty, stop() goes on to the result, as if the writer thread had
\* nothing left to write.
DrainedIsWritten == "result"

AfterDrain == "join"

\* Writer.stop waits for an empty queue, ten seconds at most.  Writers that have ended
\* on an error leave the queue as it is: then the deadline ends the wait.
StopDrain ==
  /\ StopMoves("drain", AfterDrain)
  /\ queue = <<>> \/ (\A t \in Runs : ~WriterRunning(t)) \/ "drainTimeout" \in Faults
  /\ wstop' = [wstop EXCEPT ![sw] = TRUE]
  /\ UNCHANGED <<alive, chanVars, startVars, sw, result, timer, linkVars, sent,
                 readVars, queue, wthread, served, whand, wfile, wlast, werror, file>>

Joined ==
  \/ \A t \in Runs : t = wlast[sw] => ~WriterRunning(t)
  \/ "drainTimeout" \in Faults

StopJoin ==
  /\ StopMoves("join", "close")
  /\ Joined
  /\ UNCHANGED <<alive, chanVars, startVars, sw, result, timer, dataVars>>

Closed == [t \in Runs |-> IF t = wlast[sw] /\ wfile[t] = "open" THEN "closed" ELSE wfile[t]]

\* flush and fsync may fail unnoticed; close() flushes once more, and raises.
StopClose ==
  /\ alive
  /\ spc = "close"
  /\ wfile' = Closed
  /\ \/ StopMoves("close", "result") /\ UNCHANGED sw
     \/ /\ "diskFull" \in Faults
        /\ wfile' # wfile
        /\ StopRaises
  /\ UNCHANGED <<alive, chanVars, startVars, result, timer, linkVars, sent, readVars,
                 queue, wthread, served, whand, wlast, wstop, werror, file>>

\* Slip: the packets dropped at the full queue are left out of the verdict.
BadButForDrops(shortfall) == lost # base \/ werror[sw] \/ shortfall

Bad(shortfall) == lost # base \/ drops # 0 \/ werror[sw] \/ shortfall

\* The Writer is let go, then the verdict.  A run without a sample always falls short;
\* otherwise the 90 % test may or may not tell (it measures time, which is not modelled).
StopResult ==
  /\ alive
  /\ spc = "result"
  /\ \E shortfall \in BOOLEAN :
       /\ file[sw] = <<>> => shortfall
       /\ result' = [result EXCEPT ![sw] = IF Bad(shortfall) THEN "bad" ELSE "ok"]
  /\ chWriter' = NoRun
  /\ state' = "IDLE"
  /\ stopper' = "nobody"
  /\ spc' = "none"
  /\ sw' = NoRun
  /\ UNCHANGED <<alive, nRuns, chTimer, base, startVars, closing, timer,
                 dataVars>>

-----------------------------------------------------------------------------
(* The device, the reader thread and the writer threads *)

\* The device sends on its own clock; a packet may be lost before it is read.
Emit ==
  /\ alive
  /\ sent < MaxPackets
  /\ sent' = sent + 1
  /\ osbuf' \in {osbuf, Append(osbuf, sent + 1)}
  /\ UNCHANGED <<ctrlVars, linkVars, reader, hand, readStats, queue, writeVars>>

\* The top of the reader's loop answers a flush() request.
ServeResync ==
  /\ alive
  /\ reader = "loop"
  /\ resyncReq
  /\ resyncReq' = FALSE
  /\ resyncDone' = TRUE
  /\ osbuf' = <<>>
  /\ lastSeq' = NoPacket
  /\ UNCHANGED <<ctrlVars, recording, sent, reader, hand, lost, seen, drops,
                 queue, writeVars>>

\* SeqTracker.update: what the sequence numbers say is missing.
Gap(seq) == IF lastSeq = NoPacket THEN 0 ELSE seq - lastSeq - 1

\* Take a packet, account for it, and test `recording'.  A request that comes
\* while a read is under way is only seen afterwards, so it does not bar the read.
Read ==
  /\ alive
  /\ reader = "loop"
  /\ osbuf # <<>>
  /\ osbuf' = Tail(osbuf)
  /\ lost' = lost + Gap(Head(osbuf))
  /\ lastSeq' = Head(osbuf)
  /\ seen' = TRUE
  /\ \/ recording /\ reader' = "put" /\ hand' = Head(osbuf)
     \/ ~recording /\ UNCHANGED <<reader, hand>>
  /\ UNCHANGED <<ctrlVars, linkVars, sent, drops, queue, writeVars>>

\* Slip: a queue without maxsize.
NeverFull == FALSE

QueueFull == Len(queue) >= QueueMax

\* queue.put_nowait, apart from the test of `recording' that allowed it.
Put ==
  /\ alive
  /\ reader = "put"
  /\ reader' = "loop"
  /\ hand' = NoPacket
  /\ \/ /\ ~QueueFull
        /\ queue' = Append(queue, hand)
        /\ UNCHANGED drops
     \/ /\ QueueFull
        /\ drops' = drops + 1
        /\ UNCHANGED queue
  /\ UNCHANGED <<ctrlVars, linkVars, sent, osbuf, lastSeq, lost, seen, writeVars>>

Unplug ==
  /\ alive
  /\ "unplug" \in Faults
  /\ reader = "loop"
  /\ reader' = "dead"
  /\ UNCHANGED <<ctrlVars, linkVars, sent, osbuf, hand, readStats, queue, writeVars>>

\* Slip: the packet is looked at and stays in the queue.
AfterPeek == queue

AfterGet == Tail(queue)

WriterGet(t) ==
  /\ alive
  /\ wthread[t] = "loop"
  /\ queue # <<>>
  /\ queue' = AfterGet
  /\ whand' = [whand EXCEPT ![t] = Head(queue)]
  /\ wthread' = [wthread EXCEPT ![t] = "write"]
  /\ UNCHANGED <<ctrlVars, linkVars, sent, readVars, served, wfile, wlast, wstop, werror, file>>

\* The file object a thread writes to is the one its Writer had when the thread began:
\* its own or, where another start() has started that Writer again, already the later
\* one.
Targets(t) == {wfile[t]} \cup {wfile[u] : u \in {wlast[served[t]]} \cap Runs}

\* A failing write (disk full, or the file already closed by stop()) ends the thread.
\* Of a Writer that was started again `file' keeps what its threads wrote, in the order
\* of writing; two file objects on one file leave some of it there.
WriterWrite(t) ==
  /\ alive
  /\ wthread[t] = "write"
  /\ whand' = [whand EXCEPT ![t] = NoPacket]
  /\ \/ /\ "open" \in Targets(t)
        /\ file' = [file EXCEPT ![served[t]] = Append(@, whand[t])]
        /\ wthread' = [wthread EXCEPT ![t] = "loop"]
        /\ UNCHANGED werror
     \/ /\ "closed" \in Targets(t) \/ "diskFull" \in Faults
        /\ werror' = [werror EXCEPT ![served[t]] = TRUE]
        /\ wthread' = [wthread EXCEPT ![t] = "exit"]
        /\ UNCHANGED file
  /\ UNCHANGED <<ctrlVars, linkVars, sent, readVars, queue, served, wfile, wlast, wstop>>

WriterExit(t) ==
  /\ alive
  /\ wthread[t] = "loop"
  /\ wstop[served[t]]
  /\ queue = <<>>
  /\ wthread' = [wthread EXCEPT ![t] = "exit"]
  /\ UNCHANGED <<ctrlVars, linkVars, sent, readVars, queue, served, whand, wfile, wlast,
                 wstop, werror, file>>

-----------------------------------------------------------------------------
Start(s) ==
  \/ Preflight(s) \/ StartLock(s) \/ Setup(s) \/ Flush(s) \/ FlushWait(s)
  \/ SetBase(s) \/ MakeWriter(s) \/ StartWriter(s) \/ RecordingOn(s) \/ MakeTimer(s)
  \/ ArmTimer(s)

Stop == StopCancel \/ StopDrain \/ StopJoin \/ StopClose \/ StopResult

Writer(t) == WriterGet(t) \/ WriterWrite(t) \/ WriterExit(t)

Next ==
  \/ Trigger \/ StartManual
  \/ \E s \in Starters : Start(s)
  \/ UserStops \/ CloseBegins \/ CloseEnds \/ Stop
  \/ \E r \in Runs : TimerDue(r) \/ TimerStops(r) \/ Writer(r)
  \/ Emit \/ ServeResync \/ Read \/ Put \/ Unplug

Spec == Init /\ [][Next]_vars

\* Every thread keeps running and every armed timer runs out.  Users, the photo
\* sensor, the device and the faults promise nothing.
Fairness ==
  /\ \A s \in Starters : WF_vars(Start(s))
  /\ \A r \in Runs : WF_vars(TimerDue(r)) /\ WF_vars(TimerStops(r))
                     /\ WF_vars(Writer(r))
  /\ WF_vars(Stop)
  /\ WF_vars(CloseEnds)
  /\ WF_vars(ServeResync)
  /\ WF_vars(Put)

FairSpec == Spec /\ Fairness

-----------------------------------------------------------------------------
(* Properties *)

IsIncreasing(s) == \A i, j \in DOMAIN s : i < j => s[i] < s[j]

Contents(r) == Range(file[r])

\* No two threads work for the Writer of run r.
OneThread(r) == \A t, u \in Runs : served[t] = r /\ served[u] = r => t = u

\* Whatever fails and however the threads interleave, no packet reaches two files or one
\* file twice, and a data file holds its packets in the order the device sent them: the
\* one queue that all the Writers of a channel share hands each packet on once.  A
\* Writer that a second start() has started again has two threads, and its file
\* promises no order.
FilesInOrder ==
  /\ \A r \in Runs : OneThread(r) => IsIncreasing(file[r])
  /\ \A r, q \in Runs : r # q => Contents(r) \cap Contents(q) = {}
  /\ \A r \in Runs : IsInjective(file[r])

\* A run whose RunResult says ok has no hole: between two packets of the run that
\* reached its file, no packet of the run is missing, be it lost on the line, dropped
\* at the full queue or not written.  (Packets older than the run are exempt: a
\* packet that is put after the last run's drain stays in the queue for the next run.)
OkRunHasNoHole ==
  \A r \in Runs : result[r] = "ok" =>
    \A i \in 1..(Len(file[r]) - 1) :
      file[r][i] > mark[r] => file[r][i + 1] = file[r][i] + 1

\* Between two runs nothing of the last one is still at work: the reader's gate is
\* shut, no timer can still be cancelled, no Writer is attached and every writer
\* thread that was started has ended with its file closed.
IdleIsClean ==
  state = "IDLE" =>
    /\ ~recording
    /\ chWriter = NoRun
    /\ chTimer = NoRun
    /\ \A r \in Runs : /\ timer[r] # "armed"
                       /\ ~WriterRunning(r)
                       /\ wfile[r] # "open"

\* Once stop() has recorded a run's result its file never changes again: the packet
\* and sample counts of the result are final (writer.py, Writer's docstring).
FileFinal ==
  [][\A r \in Runs : result[r] # "none" => file'[r] = file[r]]_vars

\* A run ends by itself when its time is up, also when nobody looks at the screen,
\* and its result is recorded (session.py start(), comment at the timer).
RunEnds == state # "IDLE" ~> (state = "IDLE" \/ ~alive)
=============================================================================
