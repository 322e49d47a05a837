----------------------------- MODULE Collector ------------------------------
(***************************************************************************)
(* The collector program around its channels                               *)
(*                                                                         *)
(*   slots.py          which hole, which WiFi port and which photo sensor  *)
(*                     belongs to which sensor (slots.json)                *)
(*   session.py        Collector: opens, closes, starts, stops channels    *)
(*   collector_gui.py  the window's main thread, its questions and timers  *)
(*   collect_cli.py    the other main thread, without a window             *)
(*   trigger.py        a watcher thread for each photo sensor              *)
(*                                                                         *)
(* A sensor's name is its number.  What start() and stop() of a channel do *)
(* in detail, and how they fail, is the matter of CollectChannel: here a   *)
(* run begins, writes, stops and is recorded.  Minutes and format together *)
(* make the size of a run, in units of disk space.                         *)
(***************************************************************************)
EXTENDS Integers, Sequences, FiniteSets, SequencesExt, FiniteSetsExt

CONSTANTS
  Holes,    \* USB holes, numbered in the order of their slot keys
  Names,    \* sensor numbers
  Dins,     \* photo sensor inputs: 1..4 in the code
  Ports,    \* UDP ports for WiFi sensors
  Ids,      \* bound: channel objects alive at a time
  Sizes,    \* what the user may choose for minutes and format
  Disk,     \* free space at first
  Modes,    \* bound: the programs that are started: the window, collect_cli --manual, --auto
  Setups,   \* [plugged, cfg]: what a program may find when it is first started
  MaxRuns,  \* bound: runs of all sensors
  MaxOps    \* bound: commands of the user, cables pulled and plugged, full disks

NoName == 0
NoDin  == 0
NoSrc  == 0
NoId   == 0

Cfgs == [slots : [Holes -> Names \cup {NoName}], din : [Names -> Dins \cup {NoDin}],
         wifi : [Names -> Ports \cup {NoSrc}]]

ASSUME CollectorAssumption ==
  /\ Holes \subseteq Nat \ {0} /\ Ports \subseteq Nat \ {0} /\ Holes \cap Ports = {}
  /\ IsFiniteSet(Names) /\ Names = 1..Cardinality(Names) /\ Dins = 1..Cardinality(Dins)
  /\ IsFiniteSet(Ids) /\ Ids \subseteq Nat \ {0}
  /\ Cardinality(Holes) <= Cardinality(Names) /\ Cardinality(Names) <= Cardinality(Dins)
  /\ Sizes \subseteq Nat \ {0} /\ Sizes # {} /\ Disk \in Nat
  /\ Modes \subseteq {"window", "manual", "auto"} /\ MaxRuns \in Nat /\ MaxOps \in Nat
  /\ Setups \subseteq [plugged : SUBSET Holes, cfg : Cfgs]

VARIABLES
  plugged,  \* holes with a sensor that sends over USB
  air,      \* ports that a WiFi sensor sends to
  cfg,      \* slots.json
  set,      \* settings.json: [size, auto, low]
  mode,     \* "off", "window", or the command line: "manual", "auto"
  auto,     \* Collector.auto_start
  chan,     \* [Ids -> Channel object]
  owned,    \* Collector.channels: [Names -> Ids]
  ui,       \* the main thread
  pending,  \* after_idle(reopen) is due
  refused,  \* history: the last reopen was refused because of a run, or was broken off
  calm,     \* history: nothing has made a space check wrong afterwards
  free,     \* disk space
  files,    \* [name, no, part] with part "data" or "meta"
  ops       \* bound

disk == <<free, files>>
vars == <<plugged, air, cfg, set, mode, auto, chan, owned, ui, pending, refused, calm,
          free, files, ops>>

NoChan == [name |-> NoName, src |-> NoSrc, din |-> NoDin, lines |-> {}, low |-> TRUE,
           link |-> "off", state |-> "IDLE", by |-> "none", w |-> "idle", run |-> 0,
           left |-> 0]

\* op:    "off", "free", "dialog", "close", "open", "start", "stop", "level", "din",
\*        "cli", "watch"
\* todo:  channels or sensors still to be dealt with
\* phase: where in the handling of Head(todo), or which question is asked
\* then:  what follows "close"
\* wait:  this thread is inside Channel.stop
Free == [op |-> "free", todo |-> <<>>, phase |-> "none", then |-> "free", c |-> NoId,
         arg |-> 0, wait |-> FALSE]

Owned        == Range(owned) \ {NoId}
AnyRecording == \E c \in Owned : chan[c].state # "IDLE"
Running      == mode # "off"

\* The channel is at a run that has its number, its file and its timer.
Live(ch) == ch.state # "IDLE" /\ ch.run # 0

\* The numbers of a finite set, the least one first.
InOrder(S) ==
  [i \in 1..Cardinality(S) |-> CHOOSE n \in S : Cardinality({m \in S : m <= n}) = i]

-----------------------------------------------------------------------------
(* slots.py *)

\* resolve
Assigned == {n \in Names : \E h \in plugged : cfg.slots[h] = n}
Unknown  == {h \in plugged : cfg.slots[h] = NoName}
HoleOf(n) == CHOOSE h \in plugged : cfg.slots[h] = n

WifiNames == {n \in Names : cfg.wifi[n] # NoSrc}

\* auto_assign: 1, 2, ... in the order of the holes; nothing changes without a port.
AutoAssign(c) ==
  IF plugged = {} THEN c
  ELSE [c EXCEPT
         !.slots = [h \in Holes |-> IF h \in plugged THEN Cardinality({k \in plugged : k <= h})
                                    ELSE NoName],
         !.din   = [n \in Names |-> IF n <= Cardinality(plugged) THEN n ELSE NoDin]]

\* suggest_names: for each hole without a name one that no hole has.
Suggested(h) ==
  LET spare == InOrder(Names \ Range(cfg.slots))
  IN spare[Cardinality({k \in Unknown : k <= h})]

LeastSpare(used) == Min(Dins \ used)

\* load_din_map: the saved input, the one with the sensor's number, or the least spare.
LoadDinMap(names) ==
  LET Give(acc, n) ==
        LET d == CASE cfg.din[n] # NoDin -> cfg.din[n]
                   [] cfg.din[n] = NoDin /\ n \in Dins \ acc.used -> n
                   [] OTHER -> LeastSpare(acc.used)
        IN [used |-> acc.used \cup {d}, map |-> [acc.map EXCEPT ![n] = d]]
  IN FoldLeft(Give,
              [used |-> {cfg.din[n] : n \in names} \ {NoDin}, map |-> [n \in Names |-> NoDin]],
              InOrder(names)).map

-----------------------------------------------------------------------------
(* session.py: the checks before a run *)

\* A sensor that is silent for three seconds does not count.
Receiving(c) == chan[c].link = "up" /\ (chan[c].src \in Ports => chan[c].src \in air)

\* Slip: room for one run is enough.
OneRun(S) == 1

\* check_space: so many runs of the present size must fit into nine tenths.
RunsPlanned(S) == Max({1, Cardinality(S)})

CheckSpace ==
  LET receiving == {c \in Owned : Receiving(c)}
  IN 10 * set.size * RunsPlanned(IF receiving = {} THEN Owned ELSE receiving) <= 9 * free

Preflight(c) ==
  /\ chan[c].state = "IDLE"
  /\ Unknown = {}
  /\ Receiving(c)
  /\ CheckSpace

\* Slip: only runs with a record count.
NextRunRecorded(n) == Max({0} \cup {f.no : f \in {g \in files : g.name = n /\ g.part = "meta"}}) + 1

\* _next_run_index
NextRun(n) == Max({0} \cup {f.no : f \in {g \in files : g.name = n}}) + 1

\* Channel.start, which does nothing unless the channel is idle; and what else becomes
\* of the channel's record.
StartOr(c, new) ==
  LET n == chan[c].name
  IN IF chan[c].state = "IDLE"
     THEN /\ chan' = [chan EXCEPT ![c] = [new EXCEPT !.state = "RECORDING", !.left = set.size,
                                                     !.run = NextRun(n)]]
          /\ files' = files \cup {[name |-> n, no |-> NextRun(n), part |-> "data"]}
     ELSE chan' = [chan EXCEPT ![c] = new] /\ UNCHANGED files

\* On a full disk the directory or the file of the run cannot be made: start() raises, and
\* leaves the channel RECORDING, without a number, a file and a timer.
CannotStart(c) == free = 0 /\ chan[c].state = "IDLE"
Raised(ch)     == [ch EXCEPT !.state = "RECORDING", !.left = 0, !.run = 0]

\* Channel.stop up to FINISHING, by the run's timer or by the main thread.
StopBegins(c, who) == [chan EXCEPT ![c].state = "FINISHING", ![c].by = who]

-----------------------------------------------------------------------------
(* The main thread, when it breaks off what it does *)

ToClose(then) ==
  [Free EXCEPT !.op = "close", !.phase = "check", !.then = then, !.todo = InOrder(Owned)]

\* The process is gone, and its threads with it.
ProgramEnds ==
  /\ mode' = "off" /\ ui' = [Free EXCEPT !.op = "off"]
  /\ chan' = [c \in Ids |-> NoChan]
  /\ owned' = [n \in Names |-> NoId]
  /\ pending' = FALSE /\ refused' = FALSE

\* start() or stop() has raised and left the channels so.  The window prints it and is free
\* again, with what it was doing half done; the command line closes the channels and ends,
\* and ends at once when it was closing them.
BreakOff(channels) ==
  \/ /\ mode = "window"
     /\ chan' = channels /\ ui' = Free /\ refused' = (refused \/ ui.op = "close")
     /\ UNCHANGED <<mode, owned, pending>>
  \/ /\ mode # "window" /\ ui.op # "close"
     /\ chan' = channels /\ ui' = ToClose("exit")
     /\ UNCHANGED <<mode, owned, pending, refused>>
  \/ mode # "window" /\ ui.op = "close" /\ ProgramEnds

-----------------------------------------------------------------------------
(* The threads of a channel *)

\* The main thread waits for this channel's watcher to end (EdgeWatcher.cancel).
Joining(c) ==
  \/ ui.op = "close" /\ ui.phase = "join" /\ c = Head(ui.todo)
  \/ ui.op = "level" /\ ui.todo # <<>> /\ c = Head(ui.todo)
  \/ ui.op = "din" /\ c = ui.c

\* Bound: runs, and those that may still come of what is under way.
RoomForRuns(more) ==
  Cardinality({f \in files : f.part = "data"}) + Cardinality({c \in Ids : chan[c].w # "idle"})
    + more <= MaxRuns

\* _on_edge, _on_trigger up to the end of preflight; an edge that does not get so far
\* changes nothing.  The last edges that a cancelled watcher delivers are not told apart
\* from one that was under way before.
Edge(c) ==
  /\ chan[c].lines # {} /\ chan[c].w = "idle" /\ ~Joining(c)
  /\ auto /\ Preflight(c)
  /\ RoomForRuns(IF ui.op = "start" THEN 1 + Len(ui.todo) ELSE 1)
  /\ chan' = [chan EXCEPT ![c].w = "cleared"]
  /\ UNCHANGED <<plugged, air, cfg, set, mode, auto, owned, ui, pending, refused, calm,
                 disk, ops>>

\* The rest of _on_trigger: another thread may have been faster.  The watcher survives what
\* start() raises.
TriggerStart(c) ==
  /\ chan[c].w = "cleared"
  /\ LET ch == [chan[c] EXCEPT !.w = "idle"]
     IN \/ StartOr(c, ch)
        \/ CannotStart(c) /\ chan' = [chan EXCEPT ![c] = Raised(ch)] /\ UNCHANGED files
  /\ UNCHANGED <<plugged, air, cfg, set, mode, auto, owned, ui, pending, refused, calm,
                 free, ops>>

\* On a full disk nothing more is written; what becomes of the run shows at its end.
Write(c) ==
  /\ chan[c].state = "RECORDING" /\ Receiving(c) /\ chan[c].left > 0 /\ free > 0
  /\ chan' = [chan EXCEPT ![c].left = @ - 1]
  /\ free' = free - 1
  /\ UNCHANGED <<plugged, air, cfg, set, mode, auto, owned, ui, pending, refused, calm,
                 files, ops>>

\* Slip: closing the channel takes its timer with it.
TimerOfOwned(c) == chan[c].run # 0 /\ c \in Owned

\* The timer is a thread of its own, made by a start() that came to its end.
HasTimer(c) == chan[c].run # 0

TimeUp(c) ==
  /\ chan[c].state = "RECORDING" /\ HasTimer(c)
  /\ chan' = StopBegins(c, "timer")
  /\ UNCHANGED <<plugged, air, cfg, set, mode, auto, owned, ui, pending, refused, calm,
                 disk, ops>>

\* A thread has made the checks for a run of this channel, and has not begun it yet.
HeldUp(c) ==
  chan[c].w = "cleared" \/ (ui.op = "start" /\ ui.phase = "go" /\ c = Head(ui.todo))

\* The end of Channel.stop; nobody refers any more to a channel that was closed before.  On
\* a full disk the record may be missing: that it cannot be written is only reported.
Finish(c, record) ==
  /\ chan[c].state = "FINISHING" /\ chan[c].by # "gone"
  /\ record => chan[c].run # 0
  /\ ~record => free = 0
  /\ files' = IF record
               THEN files \cup {[name |-> chan[c].name, no |-> chan[c].run, part |-> "meta"]}
               ELSE files
  /\ chan' = [chan EXCEPT ![c] = IF c \in Owned
                                 THEN [@ EXCEPT !.state = "IDLE", !.by = "none", !.left = 0,
                                                !.run = 0]
                                 ELSE NoChan]
  /\ ui' = [ui EXCEPT !.wait = @ /\ chan[c].by # "main"]
  /\ calm' = (calm /\ ~HeldUp(c))
  /\ UNCHANGED <<plugged, air, cfg, set, mode, auto, owned, pending, refused, free, ops>>

\* Closing the file raises: the channel is FINISHING for ever, the timer's thread ends with
\* it, and the main thread breaks off.
FinishRaises(c) ==
  /\ chan[c].state = "FINISHING" /\ chan[c].by # "gone" /\ free = 0
  /\ LET gone == [chan EXCEPT ![c].by = "gone"]
     IN IF chan[c].by = "main" /\ ui.op \in {"stop", "close"} THEN BreakOff(gone)
        ELSE chan' = gone /\ UNCHANGED <<mode, owned, ui, pending, refused>>
  /\ UNCHANGED <<plugged, air, cfg, set, auto, calm, disk, ops>>

StopEnds(c) == (\E record \in BOOLEAN : Finish(c, record)) \/ FinishRaises(c)

Threads(c) ==
  Edge(c) \/ TriggerStart(c) \/ Write(c) \/ TimeUp(c) \/ StopEnds(c)

-----------------------------------------------------------------------------
(* trigger.py, gpio_cdev.py: photo sensors *)

\* PhotoTrigger.start: the kernel gives an input line to one request at a time.
Line(c, d) == IF \E k \in Ids \ {c} : d \in chan[k].lines THEN {} ELSE {d}

\* Slip: the old watcher goes on beside the new one.
RewatchedBeside(c, d, low) ==
  [chan[c] EXCEPT !.din = d, !.low = low, !.lines = @ \cup Line(c, d)]

\* PhotoTrigger.stop, and start with another input or level (set_din, set_active_low).
Rewatched(c, d, low) == [chan[c] EXCEPT !.din = d, !.low = low, !.lines = Line(c, d)]

-----------------------------------------------------------------------------
(* The main thread: closing and opening *)

\* reopen, where a run shows a warning instead.
Reopen ==
  /\ refused' = AnyRecording
  /\ ui' = IF AnyRecording THEN Free ELSE ToClose("open")

\* Channel.close: a run is stopped, and this thread waits for it.
CloseCheck ==
  /\ ui.op = "close" /\ ui.todo # <<>> /\ ui.phase = "check"
  /\ LET c == Head(ui.todo)
         stops == chan[c].state = "RECORDING"
     IN /\ chan' = IF stops THEN StopBegins(c, "main") ELSE chan
        /\ ui' = [ui EXCEPT !.phase = "join", !.wait = stops]
  /\ UNCHANGED <<plugged, air, cfg, set, mode, auto, owned, pending, refused, calm, disk,
                 ops>>

\* Slip: the photo sensor is left watched.
ClosedButWatched(ch) == [ch EXCEPT !.link = "off"]

Closed(ch) == [ch EXCEPT !.lines = {}, !.link = "off"]

\* trigger.stop, which waits for the watcher, and link.stop
CloseJoin ==
  /\ ui.op = "close" /\ ui.todo # <<>> /\ ui.phase = "join" /\ ~ui.wait
  /\ LET c == Head(ui.todo)
     IN /\ chan[c].w = "idle"
        /\ chan' = [chan EXCEPT ![c] = Closed(@)]
  /\ ui' = [ui EXCEPT !.phase = "check", !.todo = Tail(@)]
  /\ UNCHANGED <<plugged, air, cfg, set, mode, auto, owned, pending, refused, calm, disk,
                 ops>>

\* Collector.open: the sensors of the holes, but those received over WiFi; then these.
ToOpen ==
  LET din == LoadDinMap(Assigned \cup WifiNames)
      Of(n, s) == [name |-> n, src |-> s, din |-> din[n]]
      usb  == InOrder(Assigned \ WifiNames)
      wifi == InOrder(WifiNames)
  IN [Free EXCEPT !.op = "open",
                  !.todo = [i \in DOMAIN usb |-> Of(usb[i], HoleOf(usb[i]))]
                           \o [i \in DOMAIN wifi |-> Of(wifi[i], cfg.wifi[wifi[i]])]]

\* channels.clear(); a run that began after the check lives on without its channel.
CloseEnds ==
  /\ ui.op = "close" /\ ui.todo = <<>>
  /\ IF ui.then = "exit" THEN ProgramEnds
     ELSE /\ owned' = [n \in Names |-> NoId]
          /\ chan' = [c \in Ids |-> IF chan[c].state = "IDLE" THEN NoChan ELSE chan[c]]
          /\ ui' = ToOpen
          /\ UNCHANGED <<mode, pending, refused>>
  /\ UNCHANGED <<plugged, air, cfg, set, auto, calm, disk, ops>>

\* A port that does not open costs this sensor only.
OpenOne(opens) ==
  /\ ui.op = "open" /\ ui.todo # <<>>
  /\ LET e == Head(ui.todo)
         spare == {c \in Ids : chan[c] = NoChan}
     IN /\ spare # {}
        /\ opens => e.src \in Ports \cup plugged
        /\ IF opens
           THEN LET c == Min(spare)
                IN /\ owned' = [owned EXCEPT ![e.name] = c]
                   /\ chan' = [chan EXCEPT ![c] =
                        [NoChan EXCEPT !.name = e.name, !.src = e.src, !.link = "up",
                                       !.din = e.din, !.low = set.low,
                                       !.lines = Line(c, e.din)]]
           ELSE UNCHANGED <<owned, chan>>
  /\ ui' = [ui EXCEPT !.todo = Tail(@)]
  /\ UNCHANGED <<plugged, air, cfg, set, mode, auto, pending, refused, calm, disk, ops>>

\* The command line gives up without a sensor.
OpenEnds ==
  /\ ui.op = "open" /\ ui.todo = <<>>
  /\ IF mode # "window" /\ Owned = {} THEN ProgramEnds
     ELSE /\ ui' = IF mode = "window" THEN Free ELSE [Free EXCEPT !.op = "cli"]
          /\ UNCHANGED <<mode, chan, owned, pending, refused>>
  /\ UNCHANGED <<plugged, air, cfg, set, auto, calm, disk, ops>>

-----------------------------------------------------------------------------
(* The main thread: starting, stopping, watching again *)

\* start_manual, channel by channel
StartCheck ==
  /\ ui.op = "start" /\ ui.todo # <<>> /\ ui.phase = "check"
  /\ ui' = IF Preflight(Head(ui.todo)) THEN [ui EXCEPT !.phase = "go"]
           ELSE [ui EXCEPT !.todo = Tail(@)]
  /\ UNCHANGED <<plugged, air, cfg, set, mode, auto, chan, owned, pending, refused, calm,
                 disk, ops>>

StartGo ==
  /\ ui.op = "start" /\ ui.todo # <<>> /\ ui.phase = "go"
  /\ LET c == Head(ui.todo)
     IN \/ /\ StartOr(c, chan[c])
           /\ ui' = [ui EXCEPT !.phase = "check", !.todo = Tail(@)]
           /\ UNCHANGED <<mode, owned, pending, refused>>
        \/ CannotStart(c) /\ BreakOff([chan EXCEPT ![c] = Raised(@)]) /\ UNCHANGED files
  /\ UNCHANGED <<plugged, air, cfg, set, auto, calm, free, ops>>

\* on_stop, stop_all: one after the other, each until its result is there.
StopOne ==
  /\ ui.op = "stop" /\ ui.todo # <<>> /\ ~ui.wait
  /\ LET c == Head(ui.todo)
         stops == chan[c].state = "RECORDING"
     IN /\ chan' = IF stops THEN StopBegins(c, "main") ELSE chan
        /\ ui' = [ui EXCEPT !.todo = Tail(@), !.wait = stops]
  /\ UNCHANGED <<plugged, air, cfg, set, mode, auto, owned, pending, refused, calm, disk,
                 ops>>

\* set_active_low
LevelOne ==
  /\ ui.op = "level" /\ ui.todo # <<>>
  /\ LET c == Head(ui.todo)
     IN /\ chan[c].w = "idle"
        /\ chan' = [chan EXCEPT ![c] = Rewatched(c, @.din, set.low)]
  /\ ui' = [ui EXCEPT !.todo = Tail(@)]
  /\ UNCHANGED <<plugged, air, cfg, set, mode, auto, owned, pending, refused, calm, disk,
                 ops>>

\* change_din: what is saved are the inputs of the open channels.
DinOne ==
  /\ ui.op = "din" /\ chan[ui.c].w = "idle"
  /\ chan' = [chan EXCEPT ![ui.c] = Rewatched(ui.c, ui.arg, chan[ui.c].low)]
  /\ cfg' = [cfg EXCEPT !.din = [LoadDinMap({n \in Names : owned[n] # NoId})
                                   EXCEPT ![chan[ui.c].name] = ui.arg]]
  /\ ui' = Free
  /\ UNCHANGED <<plugged, air, set, mode, auto, owned, pending, refused, calm, disk, ops>>

\* The window is free again; the command line watches, or closes what it has stopped.
LoopEnds ==
  /\ ui.op \in {"start", "stop", "level"} /\ ui.todo = <<>> /\ ~ui.wait
  /\ ui' = CASE mode = "window" -> Free
             [] mode # "window" /\ ui.op = "start" -> [Free EXCEPT !.op = "watch"]
             [] OTHER -> ToClose("exit")
  /\ UNCHANGED <<plugged, air, cfg, set, mode, auto, chan, owned, pending, refused, calm,
                 disk, ops>>

\* collect_cli.main after open(): --manual starts them all, if the disk has room.
CliBegins ==
  /\ ui.op = "cli"
  /\ ui' = CASE mode = "auto" -> [Free EXCEPT !.op = "watch"]
             [] mode = "manual" /\ CheckSpace ->
                  [Free EXCEPT !.op = "start", !.phase = "check", !.todo = InOrder(Owned)]
             [] OTHER -> ToClose("exit")
  /\ UNCHANGED <<plugged, air, cfg, set, mode, auto, chan, owned, pending, refused, calm,
                 disk, ops>>

\* --manual is over when nothing records any more.
CliDone ==
  /\ ui.op = "watch" /\ mode = "manual" /\ ~AnyRecording
  /\ ui' = ToClose("exit")
  /\ UNCHANGED <<plugged, air, cfg, set, mode, auto, chan, owned, pending, refused, calm,
                 disk, ops>>

MainThread ==
  \/ CloseCheck \/ CloseJoin \/ CloseEnds
  \/ \E opens \in BOOLEAN : OpenOne(opens)
  \/ OpenEnds \/ StartCheck \/ StartGo \/ StopOne \/ LevelOne \/ DinOne \/ LoopEnds
  \/ CliBegins \/ CliDone

-----------------------------------------------------------------------------
(* What the user does in the window *)

\* A button or a menu of the window, while no question is open.
Command ==
  /\ mode = "window" /\ ui.op = "free"
  /\ ops < MaxOps /\ ops' = ops + 1

Ask(what, c, arg) ==
  ui' = [Free EXCEPT !.op = "dialog", !.phase = what, !.c = c, !.arg = arg]

\* Buttons that end in reopen, and those whose question is asked first: all of them look
\* for a run at once, and only then.
OnReopen ==
  /\ Command
  /\ Reopen
  /\ UNCHANGED <<plugged, air, cfg, set, mode, auto, chan, owned, pending, calm, disk>>

OnAssign ==
  /\ Command /\ ~AnyRecording /\ plugged # {}
  /\ Ask("assign", NoId, 0)
  /\ UNCHANGED <<plugged, air, cfg, set, mode, auto, chan, owned, pending, refused, calm,
                 disk>>

\* change_source: the port, or that the sensor will vanish from the list, is asked for.
ChangeSource(c) ==
  /\ Command /\ ~AnyRecording
  /\ Ask(IF chan[c].src \in Ports THEN "usb" ELSE "wifi", c, chan[c].name)
  /\ UNCHANGED <<plugged, air, cfg, set, mode, auto, chan, owned, pending, refused, calm,
                 disk>>

OnAddWifi(n) ==
  /\ Command /\ ~AnyRecording /\ owned[n] = NoId
  /\ Ask("add", NoId, n)
  /\ UNCHANGED <<plugged, air, cfg, set, mode, auto, chan, owned, pending, refused, calm,
                 disk>>

\* _ask_port: not one that another sensor uses.
PortsFor(n) == Ports \ {cfg.wifi[k] : k \in Names \ {n}}

OnClose ==
  /\ Command
  /\ IF AnyRecording THEN Ask("exit", NoId, 0) ELSE ui' = ToClose("exit")
  /\ UNCHANGED <<plugged, air, cfg, set, mode, auto, chan, owned, pending, refused, calm,
                 disk>>

\* The answers.  Between a question and its answer photo sensors may start runs, which
\* reopen looks for once more.
Answer(yes) ==
  /\ ui.op = "dialog"
  /\ CASE ~yes ->
            ui' = Free /\ UNCHANGED <<cfg, pending, refused>>
       [] yes /\ ui.phase = "assign" ->
            cfg' = AutoAssign(cfg) /\ Reopen /\ UNCHANGED pending
       [] yes /\ ui.phase \in {"wifi", "usb"} ->
            /\ \E p \in IF ui.phase = "usb" THEN {NoSrc} ELSE PortsFor(ui.arg) :
                 cfg' = [cfg EXCEPT !.wifi[ui.arg] = p]
            /\ ui' = Free /\ pending' = TRUE /\ UNCHANGED refused
       [] yes /\ ui.phase = "add" ->
            /\ \E p \in PortsFor(ui.arg) : cfg' = [cfg EXCEPT !.wifi[ui.arg] = p]
            /\ Reopen /\ UNCHANGED pending
       [] yes /\ ui.phase = "exit" ->
            ui' = ToClose("exit") /\ UNCHANGED <<cfg, pending, refused>>
  /\ UNCHANGED <<plugged, air, set, mode, auto, chan, owned, calm, disk, ops>>

\* after_idle(reopen)
AfterIdle ==
  /\ pending /\ ui.op = "free"
  /\ pending' = FALSE
  /\ Reopen
  /\ UNCHANGED <<plugged, air, cfg, set, mode, auto, chan, owned, calm, disk, ops>>

OnStart(names) ==
  /\ Command
  /\ RoomForRuns(Len(names))
  /\ ui' = [Free EXCEPT !.op = "start", !.phase = "check",
                        !.todo = [i \in DOMAIN names |-> owned[names[i]]]]
  /\ UNCHANGED <<plugged, air, cfg, set, mode, auto, chan, owned, pending, refused, calm,
                 disk>>

OnStop(S) ==
  /\ Command
  /\ ui' = [Free EXCEPT !.op = "stop", !.todo = InOrder(S)]
  /\ UNCHANGED <<plugged, air, cfg, set, mode, auto, chan, owned, pending, refused, calm,
                 disk>>

\* _on_din looks at the state of this channel only.
OnDin(c, d) ==
  /\ Command /\ d # chan[c].din /\ chan[c].state = "IDLE"
  /\ ui' = [Free EXCEPT !.op = "din", !.c = c, !.arg = d]
  /\ UNCHANGED <<plugged, air, cfg, set, mode, auto, chan, owned, pending, refused, calm,
                 disk>>

\* Settings may be changed at any time, also during a run.
OnActive ==
  /\ Command
  /\ set' = [set EXCEPT !.low = ~@]
  /\ ui' = [Free EXCEPT !.op = "level", !.todo = InOrder(Owned)]
  /\ UNCHANGED <<plugged, air, cfg, mode, auto, chan, owned, pending, refused, calm, disk>>

OnAuto ==
  /\ Command
  /\ auto' = ~auto
  /\ set' = [set EXCEPT !.auto = auto']
  /\ UNCHANGED <<plugged, air, cfg, mode, chan, owned, ui, pending, refused, calm, disk>>

\* apply_minutes, on_fmt
OnSize(size) ==
  /\ Command /\ size # set.size
  /\ set' = [set EXCEPT !.size = size]
  /\ calm' = (calm /\ \A c \in Ids : chan[c].state = "IDLE" /\ chan[c].w = "idle")
  /\ UNCHANGED <<plugged, air, cfg, mode, auto, chan, owned, ui, pending, refused, disk>>

Window ==
  \/ OnReopen \/ OnAssign \/ OnClose \/ OnActive \/ OnAuto
  \/ \E c \in Owned : ChangeSource(c) \/ OnStop({c}) \/ OnStart(<<chan[c].name>>)
  \/ \E n \in Names : OnAddWifi(n)
  \/ OnStart(InOrder({n \in Names : owned[n] # NoId}))
  \/ OnStop(Owned)
  \/ \E c \in Owned, d \in Dins : OnDin(c, d)
  \/ \E size \in Sizes : OnSize(size)

-----------------------------------------------------------------------------
(* What happens to the program from outside *)

\* collector_gui, or collect_cli --manual, --auto, which refuse to work with a hole
\* without a name.
Launch(m) ==
  /\ ~Running
  /\ m # "window" => Unknown = {} /\ RoomForRuns(Cardinality(Names))
  /\ ops < MaxOps /\ ops' = ops + 1
  /\ mode' = m
  /\ auto' = IF m = "window" THEN set.auto ELSE m = "auto"
  /\ ui' = ToOpen
  /\ UNCHANGED <<plugged, air, cfg, set, chan, owned, pending, refused, calm, disk>>

\* Ctrl+C: stop_all, and close.
Interrupt ==
  /\ ui.op = "watch"
  /\ ui' = [Free EXCEPT !.op = "stop", !.todo = InOrder(Owned)]
  /\ UNCHANGED <<plugged, air, cfg, set, mode, auto, chan, owned, pending, refused, calm,
                 disk, ops>>

\* The power fails: slots.json is lost if it was just being written.
PowerCut(torn) ==
  /\ Running /\ ops < MaxOps /\ ops' = ops + 1
  /\ torn => ui.op = "din" \/ (ui.op = "dialog" /\ ui.phase # "exit")
  /\ cfg' = IF torn THEN [slots |-> [h \in Holes |-> NoName], din |-> [n \in Names |-> NoDin],
                          wifi |-> [n \in Names |-> NoSrc]] ELSE cfg
  /\ ProgramEnds
  /\ UNCHANGED <<plugged, air, set, auto, calm, disk>>

\* slots.py --auto, --assign (with the name it suggests), --forget, --clear
NumberCommand ==
  \/ cfg' = AutoAssign(cfg)
  \/ \E h \in Unknown : cfg' = [cfg EXCEPT !.slots[h] = Suggested(h)]
  \/ \E n \in Names : cfg' = [cfg EXCEPT !.slots = [h \in Holes |->
                                IF @[h] = n THEN NoName ELSE @[h]]]
  \/ cfg' = [cfg EXCEPT !.slots = [h \in Holes |-> NoName]]

\* slots.py --din
DinCommand == \E n \in Names, d \in Dins : cfg' = [cfg EXCEPT !.din[n] = d]

SlotsCommand ==
  /\ ~Running /\ ops < MaxOps /\ ops' = ops + 1
  /\ NumberCommand \/ DinCommand
  /\ UNCHANGED <<plugged, air, set, mode, auto, chan, owned, ui, pending, refused, calm,
                 disk>>

Unplug(h) ==
  /\ h \in plugged
  /\ plugged' = plugged \ {h}
  /\ chan' = [c \in Ids |-> IF chan[c].src = h /\ chan[c].link = "up"
                            THEN [chan[c] EXCEPT !.link = "dead"] ELSE chan[c]]
  /\ UNCHANGED <<air, calm>>

\* A link that has died stays dead until it is opened again.
Plug(h) ==
  /\ h \notin plugged
  /\ plugged' = plugged \cup {h}
  /\ UNCHANGED <<air, chan, calm>>

AirChanges(p) ==
  /\ air' = IF p \in air THEN air \ {p} ELSE air \cup {p}
  /\ calm' = (calm /\ ~\E c \in Ids : chan[c].src = p /\ (chan[c].state # "IDLE" \/ HeldUp(c)))
  /\ UNCHANGED <<plugged, chan>>

Cables ==
  /\ ops < MaxOps /\ ops' = ops + 1
  /\ \/ \E h \in Holes : Unplug(h) \/ Plug(h)
     \/ \E p \in Ports : AirChanges(p)
  /\ UNCHANGED <<cfg, set, mode, auto, owned, ui, pending, refused, disk>>

\* Something else fills the disk.
DiskFills ==
  /\ free > 0 /\ free' = 0
  /\ ops < MaxOps /\ ops' = ops + 1
  /\ calm' = FALSE
  /\ UNCHANGED <<plugged, air, cfg, set, mode, auto, chan, owned, ui, pending, refused, files>>

Outside ==
  \/ \E m \in Modes : Launch(m)
  \/ Interrupt \/ SlotsCommand \/ Cables \/ DiskFills
  \/ \E torn \in BOOLEAN : PowerCut(torn)

-----------------------------------------------------------------------------
Init ==
  /\ \E s \in Setups : plugged = s.plugged /\ cfg = s.cfg
  /\ air = Ports
  /\ set = [size |-> Min(Sizes), auto |-> TRUE, low |-> TRUE]
  /\ mode = "off" /\ auto = FALSE
  /\ chan = [c \in Ids |-> NoChan]
  /\ owned = [n \in Names |-> NoId]
  /\ ui = [Free EXCEPT !.op = "off"]
  /\ pending = FALSE /\ refused = FALSE /\ calm = TRUE
  /\ free = Disk /\ files = {}
  /\ ops = 0

Next ==
  \/ MainThread \/ Window \/ Outside \/ AfterIdle
  \/ \E yes \in BOOLEAN : Answer(yes)
  \/ \E c \in Ids : Threads(c)

\* Threads get their turn, a run's time runs out, and the user answers the questions.
Spec ==
  /\ Init /\ [][Next]_vars
  /\ WF_vars(MainThread) /\ WF_vars(\E yes \in BOOLEAN : Answer(yes))
  /\ \A c \in Ids : WF_vars(TriggerStart(c) \/ TimeUp(c) \/ StopEnds(c))

-----------------------------------------------------------------------------
(* Properties *)

TypeOK ==
  /\ plugged \subseteq Holes /\ air \subseteq Ports /\ cfg \in Cfgs
  /\ set \in [size : Sizes, auto : BOOLEAN, low : BOOLEAN]
  /\ mode \in {"off", "window", "manual", "auto"} /\ auto \in BOOLEAN
  /\ owned \in [Names -> Ids \cup {NoId}]
  /\ \A c \in Ids : chan[c] # NoChan =>
       /\ chan[c].name \in Names /\ chan[c].src \in Holes \cup Ports /\ chan[c].din \in Dins
       /\ chan[c].lines \subseteq Dins /\ chan[c].low \in BOOLEAN
       /\ chan[c].link \in {"off", "up", "dead"}
       /\ chan[c].state \in {"IDLE", "RECORDING", "FINISHING"}
       /\ chan[c].w \in {"idle", "cleared"}
       /\ chan[c].left \in Nat /\ chan[c].run \in Nat
  /\ (ui.op = "off") = (mode = "off")
  /\ free \in 0..Disk
  /\ files \subseteq [name : Names, no : 1..MaxRuns, part : {"data", "meta"}]
  /\ ops \in 0..MaxOps

\* A channel that Collector.channels has lost listens to nothing any more: no photo
\* sensor can start a run of it, no data comes in, whatever the order of close(), the
\* watcher, the timer and the opening of the next channels (close, set_din).
NothingLeaks ==
  \A c \in Ids \ Owned : chan[c].lines = {} /\ chan[c].link = "off" /\ chan[c].w = "idle"

\* When the window is free, and no reopening is due, was refused because of a run or was
\* broken off on a full disk, every channel is what slots.json says of its number, and is started by no photo sensor but its
\* own, with the level that is set: else the products that pass one sensor would be
\* recorded as another's (open, reopen, on_assign, change_source, set_din, set_active_low).
ChannelsFollowSettings ==
  ui.op = "free" /\ ~pending /\ ~refused =>
    \A n \in Names : owned[n] # NoId =>
      LET ch == chan[owned[n]]
      IN /\ ch.name = n
         /\ IF cfg.wifi[n] = NoSrc THEN ch.src \in Holes /\ cfg.slots[ch.src] = n
            ELSE ch.src = cfg.wifi[n]
         /\ ch.lines \subseteq {ch.din}
         /\ ch.low = set.low

\* What the runs that are on still have to write, an element for each unit of disk space.
StillNeeded ==
  UNION {{c} \X (1..chan[c].left) :
           c \in {k \in Ids : chan[k].state = "RECORDING" /\ Receiving(k)}}

\* Runs that have been let through fit on the disk together, as long as nobody makes them
\* longer, no WiFi sensor pauses from the checks for its run to the end of it, no run lasts from
\* the checks for the next one to its start, and nothing else fills the disk (check_space: "two
\* files would be broken at once").
SpaceFits == calm => Cardinality(StillNeeded) <= free

\* What the files and the program tell about the runs of each sensor.
Status(n, i) ==
  CASE [name |-> n, no |-> i, part |-> "meta"] \in files -> "saved"
    [] \E c \in Ids : chan[c].name = n /\ chan[c].run = i /\ Live(chan[c]) -> "open"
    [] OTHER -> "cut"

Book == INSTANCE RunBook
          WITH book <- [n \in Names |-> [i \in 1..(NextRun(n) - 1) |-> Status(n, i)]]

\* The collector keeps the book as RunBook says, through reopening, two front ends, power
\* cuts and runs that outlive their channel (_next_run_index, start, stop).
BookSpec == Book!Spec

\* Nobody waits for anything that is still to be done: the program sleeps, or the window
\* is free for the user, or --auto watches the photo sensors.
AtRest == ui.op \in {"off", "free"} \/ (ui.op = "watch" /\ mode = "auto")

\* On a full disk start() or stop() has raised, and nobody will end this run any more.
Stuck(c) == chan[c].state # "IDLE" /\ (chan[c].by = "gone" \/ ~Live(chan[c]))

\* Every run ends by itself, also one that outlives its channel, unless the full disk has
\* broken it off; and the main thread always comes back to the user, although it waits for
\* watchers and for its own stop() on the way, and although start() and stop() may raise;
\* --manual comes to its end, but for such a broken run, for which it waits for ever.
NothingHangs ==
  /\ \A c \in Ids : chan[c].state # "IDLE" ~> chan[c].state = "IDLE" \/ Stuck(c)
  /\ ~AtRest ~> AtRest \/ (mode = "manual" /\ \E c \in Owned : Stuck(c))
=============================================================================
