---------------------------- MODULE FifoInterrupt ----------------------------
(***************************************************************************)
(* How the firmware's sensor task waits for the sensor's FIFO              *)
(* (components/sensor_streamer/sensor_streamer.c sensor_task_fifo and      *)
(* fifo_isr).  The watermark line is a level: it stays up while the FIFO   *)
(* holds Wtm samples.  fifo_isr masks the line and gives a semaphore; the  *)
(* task takes it, empties the FIFO and unmasks the line.  A task that gets *)
(* no interrupt goes on after 50 ms, and after MissMax + 1 such time-outs  *)
(* in a row it polls from then on.  Which samples there are is the matter  *)
(* of StreamPipe; here the FIFO is the number of samples in it, so nothing *)
(* needs a bound.                                                          *)
(***************************************************************************)
EXTENDS Integers

CONSTANTS
  FifoSize,    \* words in the sensor's FIFO (512)
  Wtm,         \* STREAM_INT_WTM
  BurstMax,    \* IIS3DWB_FIFO_BURST_MAX
  MissMax,     \* FIFO_INT_MISS_MAX
  Faults       \* which misfortunes of the environment may happen

FaultKinds ==
  { "spiError",      \* a register or FIFO read fails
    "lineBreaks" }   \* INT1 does not, or no longer, reach the ESP32

ASSUME FifoAssumption ==
  /\ FifoSize \in Nat \ {0}
  /\ Wtm \in 1..FifoSize
  /\ BurstMax \in Nat \ {0}
  /\ MissMax \in Nat
  /\ Faults \subseteq FaultKinds

VARIABLES
  level,       \* samples in the FIFO
  wired,       \* INT1 reaches the ESP32
  armed,       \* the GPIO interrupt is unmasked
  sem,         \* s.fifo_sem
  intMode,     \* the task has set up the interrupt when it started
  intEnabled,  \* s.int_enabled
  miss,        \* int_miss
  pc,          \* where the task stands
  avail        \* its local avail

fifoVars == <<level, wired, armed, sem, intMode, intEnabled, miss, pc, avail>>

FifoTypeOK ==
  /\ level \in 0..FifoSize
  /\ wired \in BOOLEAN
  /\ armed \in BOOLEAN
  /\ sem \in BOOLEAN
  /\ intMode \in BOOLEAN
  /\ intEnabled \in BOOLEAN
  /\ miss \in 0..(MissMax + 1)
  /\ intEnabled => miss <= MissMax
  /\ pc \in {"wait", "status", "drain", "rearm"}
  /\ avail \in 0..level

\* The FIFO runs, and the interrupt is set up unless read_mode says polling or a step
\* of the set-up has failed: then the task polls, though the line may be armed already.
FifoInit ==
  /\ level = 0
  /\ wired \in {TRUE, "lineBreaks" \notin Faults}
  /\ intMode \in BOOLEAN
  /\ armed \in {TRUE, intMode}
  /\ intEnabled = intMode
  /\ sem = FALSE
  /\ miss = 0
  /\ pc = "wait"
  /\ avail = 0

-----------------------------------------------------------------------------
(* The sensor and its line *)

\* A conversion goes into the FIFO; a full one loses its oldest sample for it.
Convert ==
  /\ level < FifoSize
  /\ level' = level + 1
  /\ UNCHANGED <<wired, armed, sem, intMode, intEnabled, miss, pc, avail>>

LineBreaks ==
  /\ "lineBreaks" \in Faults
  /\ wired
  /\ wired' = FALSE
  /\ UNCHANGED <<level, armed, sem, intMode, intEnabled, miss, pc, avail>>

fifo_isr ==
  /\ wired /\ armed
  /\ level >= Wtm
  /\ armed' = FALSE
  /\ sem' = TRUE
  /\ UNCHANGED <<level, wired, intMode, intEnabled, miss, pc, avail>>

-----------------------------------------------------------------------------
(* The loop of sensor_task_fifo *)

TakeSem ==
  /\ pc = "wait" /\ intEnabled
  /\ sem
  /\ sem' = FALSE
  /\ miss' = 0
  /\ pc' = "status"
  /\ UNCHANGED <<level, wired, armed, intMode, intEnabled, avail>>

\* Slip, and once the code: a time-out only counts when the FIFO is empty.
GivesUpWhenEmpty == miss = MissMax /\ level = 0

GivesUp == miss = MissMax

\* 50 ms without an interrupt.  The FIFO is full after 20 ms and at its watermark after
\* 3 ms, so this happens with a full FIFO, to a task whose interrupt cannot come.
\* (miss stops counting above MissMax: the task that gives up never asks again.)
TakeTimesOut ==
  /\ pc = "wait" /\ intEnabled
  /\ ~sem
  /\ ~wired \/ ~armed
  /\ level = FifoSize
  /\ miss' = IF miss > MissMax THEN miss ELSE miss + 1
  /\ intEnabled' = ~GivesUp
  /\ pc' = "status"
  /\ UNCHANGED <<level, wired, armed, sem, intMode, avail>>

PollDelay ==
  /\ pc = "wait" /\ ~intEnabled
  /\ pc' = "status"
  /\ UNCHANGED <<level, wired, armed, sem, intMode, intEnabled, miss, avail>>

\* Slip, and once the code: a failing status read goes back to the top of the loop.
ContinueOnError == "wait"

AfterStatusError == "drain"

Status ==
  /\ pc = "status"
  /\ \/ avail' = level /\ pc' = "drain"
     \/ "spiError" \in Faults /\ avail' = 0 /\ pc' = AfterStatusError
  /\ UNCHANGED <<level, wired, armed, sem, intMode, intEnabled, miss>>

Want == IF avail > BurstMax THEN BurstMax ELSE avail

\* One burst; a failing read ends the draining.
ReadBurst ==
  /\ pc = "drain"
  /\ avail > 0
  /\ \/ /\ level' = level - Want
        /\ avail' = avail - Want
        /\ UNCHANGED pc
     \/ /\ "spiError" \in Faults
        /\ pc' = "rearm"
        /\ UNCHANGED <<level, avail>>
  /\ UNCHANGED <<wired, armed, sem, intMode, intEnabled, miss>>

Rearm ==
  /\ pc = "rearm" \/ (pc = "drain" /\ avail = 0)
  /\ armed' = (armed \/ intEnabled)
  /\ avail' = 0
  /\ pc' = "wait"
  /\ UNCHANGED <<level, wired, sem, intMode, intEnabled, miss>>

-----------------------------------------------------------------------------
Task == TakeSem \/ TakeTimesOut \/ PollDelay \/ Status \/ ReadBurst \/ Rearm

FifoNext == Convert \/ LineBreaks \/ fifo_isr \/ Task

FifoSpec == FifoInit /\ [][FifoNext]_fifoVars

\* The sensor converts on its own clock, the task has the highest priority of its
\* application, and an interrupt that is raised and unmasked is served.
FifoFairSpec == FifoSpec /\ WF_fifoVars(Convert) /\ WF_fifoVars(Task) /\ WF_fifoVars(fifo_isr)

-----------------------------------------------------------------------------
(* Properties *)

\* The task never sleeps on an interrupt that cannot come: while it waits in interrupt
\* mode the line is unmasked or the semaphore is given.  Whatever the SPI bus does, every
\* way round the loop ends at the unmasking.
NeverDeaf == pc = "wait" /\ intEnabled => armed \/ sem

\* Only a broken line costs the interrupt mode: on a board whose line works no sequence
\* of SPI errors and late drains adds up to the time-outs of the fallback.
FallbackMeansBroken == intMode /\ wired => intEnabled

\* A board whose line is broken falls back to polling by itself, although its FIFO is
\* never empty when the task looks.
BrokenFallsBack == ~wired ~> ~intEnabled
=============================================================================
