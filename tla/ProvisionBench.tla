--------------------------- MODULE ProvisionBench ---------------------------
(***************************************************************************)
(* One operator at the bench with the setup tool and the board check, used *)
(* one after the other on the same boards.  What one tool does to the      *)
(* boards and their ttys the other one finds.                              *)
(***************************************************************************)
EXTENDS SetupTool, BoardCheck

vars == <<bench, gui, check>>

TypeOK ==
  /\ BenchTypeOK
  /\ sel \in 0..Len(list) /\ (sel = 0 <=> list = <<>>)
  /\ \A i \in DOMAIN list :
       /\ list[i].slot \in Slots /\ list[i].dev \in Ttys
       /\ list[i].mac \in Boards \cup {NoMac}
  /\ busy \in BOOLEAN /\ cancel \in BOOLEAN
  /\ job.name \in Jobs \cup {"none"} /\ job.phase \in {"mac", "main"}
  /\ job.step \in {"idle", "preflight", "esptool", "ask", "asked", "reset", "refused",
                   "boot", "record"}
  /\ job.tries \in {0, 1} /\ job.port \in Ttys \cup {NoTty}
  /\ \A i \in DOMAIN queue : queue[i].kind \in {"ask", "prefill", "info", "busy"}
  /\ uses \in 0..MaxUses
  /\ step \in {"idle", "flash", "reset", "capture", "summary", "traceback"}
  /\ exit \in {Running} \cup 0..3
  /\ (step \in {"summary", "traceback"}) = (exit # Running)
  /\ Len(rows) <= Len(cands)

Init ==
  /\ LET row == SetToSeq(Boards)
     IN socket = [s \in Slots |-> IF s \in DOMAIN row THEN row[s] ELSE NoBoard]
  /\ tty = [s \in Slots |-> IF socket[s] = NoBoard THEN NoTty
                            ELSE Cardinality({r \in Slots : r < s /\ socket[r] # NoBoard})]
  /\ stalled = {} /\ faults = 0
  /\ fw = [b \in Boards |-> IF b \in Outdated THEN "dev" ELSE "deploy"]
  /\ nvs = [b \in Boards |-> Blank]
  /\ list = Listed(ListPorts, <<>>) /\ sel = Selected(list, 0)
  /\ busy = FALSE /\ cancel = FALSE /\ queue = <<>> /\ job = Idle /\ uses = 0
  /\ prefs = Fresh /\ form = Fresh
  /\ hist = [b \in Boards |-> None]
  /\ CheckInit

\* The operator leaves the cables alone while a tool works, but one may slip out at any
\* time.
Resting == ~busy /\ step = "idle"

Hands ==
  /\ \/ \E s \in Slots : Unplug(s)
     \/ Resting /\ \E b \in Boards, s \in Slots : Plug(b, s)
  /\ UNCHANGED <<gui, check>>

User ==
  /\ step = "idle"
  /\ \/ OnFind \/ OnRefresh \/ OnReadSettings \/ OnFactoryReset
     \/ \E package \in Packages : OnFlashFirmware(package)
     \/ \E i \in DOMAIN list : OnSelect(i)
     \/ \E f \in Forms \cup {form}, answer \in {"next", "keep", "no conflict"} :
          OnInject(f, answer)
     \/ OnCancel \/ Close
  /\ UNCHANGED check

Worker ==
  /\ \/ \E r \in {"ok", "stall", "error"} : WorkerPreflight(r)
     \/ \E r \in {"ok", "stall", "error", "unverified", "cancel"} : WorkerEsptool(r)
     \/ \E p \in Ttys : WorkerReset(p)
     \/ WorkerResetFails \/ WorkerRefused
     \/ \E log \in BootLogs(BoardAt(job.port)) : WorkerBoot(log)
     \/ \E written \in BOOLEAN : WorkerRecord(written)
  /\ UNCHANGED check

Pumping == (\E answer \in {"yes", "no", "error"} : Pump(answer)) /\ UNCHANGED check

Checking ==
  \/ /\ ~busy /\ uses < MaxUses
     /\ \E all \in BOOLEAN, flash \in BOOLEAN : Check(all, flash)
     /\ uses' = uses + 1
     /\ UNCHANGED window
  \/ CheckStep /\ UNCHANGED gui

Next == Hands \/ User \/ Worker \/ Pumping \/ Checking

\* esptool, the reset and the captures have timeouts, so that the worker and the board
\* check always go on; after() runs the pump again and again, and its message boxes
\* are answered.
Spec ==
  /\ Init /\ [][Next]_vars
  /\ WF_vars(Worker) /\ WF_vars(Pumping) /\ WF_vars(Checking /\ step # "idle")

-----------------------------------------------------------------------------
(* Properties *)

\* Whatever stalls, is reset and gets another tty number on the way: a job that was
\* started from a correct line of the list changes the selected board and no other
\* (usb_reset.stable_id: not by-id, "the caller flashes that port").
OnlyTheChosenBoard ==
  [][\A b \in Boards :
       busy /\ job.sure /\ b # job.aim => fw'[b] = fw[b] /\ nvs'[b] = nvs[b]]_vars

\* A new line of the history is what the board with that MAC holds and works with,
\* after an injection from a correct list; a development build alone keeps its own
\* access point (_do_inject, provision_log.record).
HistoryIsTrueWhenWritten ==
  [][\A b \in Boards :
       hist'[b] \notin {hist[b], None} /\ job.sure =>
         /\ nvs[b] = hist'[b]
         /\ fw[b] = "deploy" => Applied(b) = hist'[b]]_vars

\* The firmware works with these settings and the sensor delivers; a development build
\* alone keeps its own access point.
WorksWith(b, cfg) ==
  /\ fw[b] \in {"deploy", "dev"} /\ b \notin Faulty
  /\ Applied(b).transport = cfg.transport /\ Applied(b).port = cfg.port
  /\ fw[b] = "deploy" => Applied(b).ssid = cfg.ssid

\* What a box at the end of a job says is so: the firmware is whole, the settings are
\* on the board and it streams with them, the partition is empty (_w_flash_fw,
\* _w_inject, _w_factory).  An injection does not ask for the build as the flashing
\* does: on a development build, which keeps its own access point, the box is wrong
\* about the access point, and this is not said of it.
SuccessIsTrue ==
  \A i \in DOMAIN queue :
    LET m == queue[i]
    IN m.kind = "info" /\ m.board # NoBoard =>
         CASE m.name = "flash"   -> fw[m.board] = "deploy"
           [] m.name = "inject"  -> nvs[m.board] = m.cfg /\ WorksWith(m.board, m.cfg)
           [] m.name = "factory" -> nvs[m.board] = Blank

\* A cancel stops the job it was meant for and no later one (_start, _set_busy).
CancelIsNotInherited == cancel /\ job.step # "idle" => job.stop = uses

\* Every job ends and gives the buttons back: the worker's question is answered or
\* counts as refused (_handle, _wrap).
JobsEnd == busy ~> ~busy

\* Every line of the table is about the board in that socket: the verdict is its own
\* and comes from the check firmware; the exit status of a table tells of every board
\* that did not pass (run_once, cmd_all).  Left out is the line of a board that was
\* pulled before its turn: its tty may be another board's by then, whose name and verdict
\* the line then carries.
RowsAreTrue ==
  /\ \A i \in DOMAIN rows :
       /\ i <= Len(cands) /\ rows[i].slot = cands[i].slot
       /\ rows[i].board \in {NoBoard, rows[i].held} \/ rows[i].held = NoBoard
       /\ rows[i].result \in {"PASS", "WARN"} => rows[i].board \notin Faulty \cup {NoBoard}
  /\ step = "summary" /\ rows # <<>> =>
       /\ Len(rows) = Len(cands)
       /\ exit = 0 <=> \A i \in DOMAIN rows : rows[i].result = "PASS"
=============================================================================
