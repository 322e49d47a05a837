----------------------------- MODULE SetupTool ------------------------------
(***************************************************************************)
(* set_sensor_gui.py: the window, its worker thread and the queue between  *)
(* them; provision_log.py: what was given to which board.                  *)
(*                                                                         *)
(* The main thread starts one job at a time and otherwise only handles     *)
(* what the worker posts.  A job goes through the steps                    *)
(*   "preflight" -> "esptool" -> "boot" -> "record", and on a stall        *)
(*   "ask" -> "reset" -> "preflight" once more,                            *)
(* the reading of MAC addresses (phase "mac") comes first where it is      *)
(* needed.  Of a configuration the transport, the access point and the     *)
(* UDP port are kept; the server's address is the same everywhere.         *)
(***************************************************************************)
EXTENDS UsbBench

CONSTANTS
  Forms,     \* what the user may type in: as Configs, NoSsid and port 0 for bad entries
  Packages   \* firmware found beside the program: "deploy", "dev", "broken" (damaged)

ASSUME SetupAssumption ==
  /\ Forms \subseteq [transport : {"wifi", "usb"}, ssid : {"net", "unused", NoSsid},
                      port : 0..MaxPort]
  /\ Packages \subseteq {"deploy", "dev", "broken"}

VARIABLES
  list,     \* self.boards: [slot, dev, mac]
  sel,      \* the selected row, 0 if there is none
  busy,     \* self._busy
  cancel,   \* self._cancel
  form,     \* the entry fields
  prefs,    \* the entries saved for the next start
  queue,    \* self._q: what the worker has posted
  job,      \* the worker thread
  hist,     \* provisioned.json: [Boards -> settings], None for no entry
  uses      \* bound; also the number of the job

window == <<list, sel, busy, cancel, form, prefs, queue, job, hist>>
gui    == <<window, uses>>

None   == [Blank EXCEPT !.transport = "none"]
NoMac  == ""
NoBin  == Blank

\* The entries of a first start.
Fresh == [transport |-> "wifi", ssid |-> NoSsid, port |-> 1]

\* aim, sure: history.  The board behind the job's port when it started, and whether
\* the list was right about it then.
Idle == [name |-> "none", phase |-> "main", step |-> "idle", port |-> NoTty, item |-> 0,
         todo |-> 0, image |-> "none", cfg |-> NoBin, mac |-> NoMac, tries |-> 0, aim |-> NoBoard,
         sure |-> FALSE, stop |-> 0]

Jobs == {"find", "read", "flash", "inject", "factory"}

-----------------------------------------------------------------------------
(* The list of boards *)

\* refresh_ports: a MAC is inherited in the same socket.
Listed(ports, old) ==
  [i \in DOMAIN ports |->
     [slot |-> ports[i].slot, dev |-> ports[i].dev,
      mac |-> IF \E k \in DOMAIN old : old[k].slot = ports[i].slot
              THEN (CHOOSE e \in Range(old) : e.slot = ports[i].slot).mac ELSE NoMac]]

\* The selection follows the socket, or falls back to the first row.
Selected(new, slot) ==
  IF new = <<>> THEN 0
  ELSE IF \E i \in DOMAIN new : new[i].slot = slot
       THEN CHOOSE i \in DOMAIN new : new[i].slot = slot ELSE 1

RefreshPorts(old) ==
  /\ list' = Listed(ListPorts, old)
  /\ sel' = Selected(list', IF sel = 0 THEN 0 ELSE list[sel].slot)

-----------------------------------------------------------------------------
(* Main thread *)

\* Slip: a cancel survives the job it was meant for.
Kept(c) == c

\* _set_busy(False), _start
Cleared(c) == FALSE

\* _start, from a button that needs a selected row (_port)
Start(new) ==
  /\ ~busy /\ uses < MaxUses
  /\ busy' = TRUE
  /\ cancel' = Cleared(cancel)
  /\ job' = new
  /\ uses' = uses + 1

JobOn(name, i, cfg) ==
  [Idle EXCEPT !.name = name, !.step = "preflight", !.port = list[i].dev, !.item = i,
               !.cfg = cfg, !.mac = list[i].mac, !.aim = BoardAt(list[i].dev),
               !.sure = /\ list[i].dev = tty[list[i].slot]
                        /\ list[i].mac \in {NoMac, socket[list[i].slot]}]

\* on_find_boards: all MACs are forgotten, then read one by one.
OnFind ==
  /\ ~busy
  /\ RefreshPorts(<<>>)
  /\ IF list' = <<>> THEN UNCHANGED <<busy, cancel, job, uses>>
     ELSE Start([Idle EXCEPT !.name = "find", !.phase = "mac", !.step = "preflight",
                             !.item = 1, !.todo = Len(list'), !.port = list'[1].dev])
  /\ UNCHANGED <<bench, form, prefs, queue, hist>>

OnRefresh ==
  /\ ~busy
  /\ RefreshPorts(list)
  /\ UNCHANGED <<bench, busy, cancel, form, prefs, queue, job, hist, uses>>

OnSelect(i) ==
  /\ ~busy /\ i \in DOMAIN list
  /\ sel' = i
  /\ UNCHANGED <<bench, list, busy, cancel, form, prefs, queue, job, hist, uses>>

OnReadSettings ==
  /\ sel # 0
  /\ Start(JobOn("read", sel, NoBin))
  /\ UNCHANGED <<bench, list, sel, form, prefs, queue, hist>>

\* on_flash_firmware: a package was found, and the user agrees.
OnFlashFirmware(package) ==
  /\ sel # 0
  /\ Start([JobOn("flash", sel, NoBin) EXCEPT !.image = package])
  /\ UNCHANGED <<bench, list, sel, form, prefs, queue, hist>>

OnFactoryReset ==
  /\ sel # 0
  /\ Start(JobOn("factory", sel, NoBin))
  /\ UNCHANGED <<bench, list, sel, form, prefs, queue, hist>>

\* collect: WiFi wants an access point and a port, USB fills in what is missing.
Valid(f) == f.transport = "usb" \/ (f.ssid # NoSsid /\ f.port \in 1..MaxPort)

Collect(f) ==
  IF f.transport = "usb"
  THEN [f EXCEPT !.ssid = IF @ = NoSsid THEN "unused" ELSE @,
                 !.port = IF @ \in 1..MaxPort THEN @ ELSE 1]
  ELSE f

\* _port_conflict: by the history, another board sends over WiFi to this port.
PortConflict(cfg, mac) ==
  /\ cfg.transport = "wifi"
  /\ \E b \in Boards \ {mac} : hist[b].transport = "wifi" /\ hist[b].port = cfg.port

\* The user types, and on_inject runs.  On a conflict the user takes the next port,
\* insists, or gives up.
OnInject(f, answer) ==
  /\ sel # 0 /\ Valid(f)
  /\ LET cfg  == Collect(f)
         asks == PortConflict(cfg, list[sel].mac)
         used == IF answer = "next" THEN [cfg EXCEPT !.port = @ + 1] ELSE cfg
     IN /\ answer \in IF asks THEN {"next", "keep"} ELSE {"no conflict"}
        /\ form' = IF answer = "next" THEN [f EXCEPT !.port = used.port] ELSE f
        /\ prefs' = used
        /\ LET new == JobOn("inject", sel, used)
           IN Start(IF new.mac = NoMac THEN [new EXCEPT !.phase = "mac", !.todo = sel]
                    ELSE new)
  /\ UNCHANGED <<bench, list, sel, queue, hist>>

OnCancel ==
  /\ busy /\ ~cancel
  /\ cancel' = TRUE
  /\ job' = [job EXCEPT !.stop = uses]
  /\ UNCHANGED <<bench, list, sel, busy, form, prefs, queue, hist, uses>>

\* Slip: an error while the question is on the screen leaves the worker waiting.
StepUnset(answer) ==
  CASE answer = "yes" -> "reset" [] answer = "no" -> "refused" [] OTHER -> "asked"

\* _handle sets the event whatever happens; no answer counts as a no.
StepAfter(answer) == IF answer = "yes" THEN "reset" ELSE "refused"

\* nvs_read.to_gui_prefill and _apply_prefill: what the board does not have stays.
Prefill(stored) == IF stored \in Configs THEN stored ELSE form

\* _pump and _handle.  Log lines, progress and status are left out; "info" stands for
\* the message box at the end of a successful job.
Pump(answer) ==
  /\ queue # <<>>
  /\ queue' = Tail(queue)
  /\ CASE Head(queue).kind = "ask" ->
            /\ job' = [job EXCEPT !.step = StepAfter(answer)]
            /\ UNCHANGED <<busy, cancel, form>>
       [] Head(queue).kind = "prefill" ->
            /\ form' = Prefill(Head(queue).stored)
            /\ UNCHANGED <<busy, cancel, job>>
       [] Head(queue).kind = "info" -> UNCHANGED <<busy, cancel, form, job>>
       [] Head(queue).kind = "busy" ->
            /\ busy' = FALSE
            /\ cancel' = Cleared(cancel)
            /\ UNCHANGED <<form, job>>
  /\ answer \in IF Head(queue).kind = "ask" THEN {"yes", "no", "error"} ELSE {"no"}
  /\ UNCHANGED <<bench, list, sel, prefs, hist, uses>>

-----------------------------------------------------------------------------
(* Worker thread *)

\* All but kind and stored is history, for the properties.
Message(kind) == [kind |-> kind, name |-> job.name, board |-> job.aim, cfg |-> job.cfg,
                  item |-> job.item, port |-> job.port, tries |-> job.tries,
                  stored |-> None]

Post(messages) == queue' = queue \o messages

\* _wrap: the worker ends, and the buttons come back in any case.
Fail ==
  /\ job' = Idle
  /\ Post(<<Message("busy")>>)

Succeed(messages) ==
  /\ job' = Idle
  /\ Post(messages \o <<Message("busy")>>)

\* read_macs goes on with the next board; _w_inject with the injection itself.
AfterMac(entries) ==
  IF job.name = "find"
  THEN IF job.item = job.todo THEN Succeed(<<>>)
       ELSE /\ job' = [job EXCEPT !.item = @ + 1, !.step = "preflight", !.tries = 0,
                                  !.port = entries[job.item + 1].dev]
            /\ UNCHANGED queue
  ELSE /\ job' = [job EXCEPT !.phase = "main", !.step = "preflight", !.tries = 0,
                             !.mac = entries[job.item].mac, !.port = entries[job.item].dev]
       /\ UNCHANGED queue

\* A stalled port.  Reading a MAC resets the port without asking, flashing and
\* injecting ask the user, both once; the other uses fail.
OnStall ==
  CASE job.phase = "mac" /\ job.tries = 0 ->
         /\ job' = [job EXCEPT !.step = "reset"]
         /\ UNCHANGED <<queue, list>>
    [] job.phase = "mac" /\ job.tries = 1 ->
         /\ list' = [list EXCEPT ![job.item].mac = NoMac]
         /\ AfterMac(list')
    [] job.phase = "main" /\ job.name \in {"flash", "inject"} /\ job.tries = 0 ->
         /\ job' = [job EXCEPT !.step = "ask"]
         /\ Post(<<Message("ask")>>)
         /\ UNCHANGED list
    [] OTHER -> Fail /\ UNCHANGED list

OnError ==
  IF job.phase = "mac"
  THEN /\ list' = [list EXCEPT ![job.item].mac = NoMac]
       /\ AfterMac(list')
  ELSE Fail /\ UNCHANGED list

main == <<sel, busy, cancel, form, prefs, uses>>

\* load_manifest and verify_images: a development build or a damaged image never gets
\* near a board.
Usable(j) == j.name = "flash" => j.image = "deploy"

\* preflight; before it, flash_firmware checks the package.
WorkerPreflight(r) ==
  /\ job.step = "preflight"
  /\ r \in IF Usable(job) THEN Preflight(job.port) ELSE {"error"}
  /\ CASE r = "ok"    -> job' = [job EXCEPT !.step = "esptool"] /\ UNCHANGED <<queue, list>>
       [] r = "stall" -> OnStall
       [] r = "error" -> OnError
  /\ StallFrom(job.port, r)
  /\ UNCHANGED <<socket, tty, fw, nvs, main, hist>>

\* Slip: a write that esptool did not confirm passes.
Unchecked(r) == r \in {"ok", "unverified"}

\* The number of "Hash of data verified." lines is compared with the images.
Verified(r) == r = "ok"

\* nvs_gen.add_u16 keeps 16 bits of the port.
Binary(cfg) == [cfg EXCEPT !.port = @ % (MaxPort + 1)]

\* run_esptool.  Every job but the reading ones looks at the cancel event.
WorkerEsptool(r) ==
  /\ job.step = "esptool"
  /\ (r = "cancel") <=> (cancel /\ job.phase = "main" /\ job.name # "read")
  /\ CASE job.phase = "mac" \/ job.name = "read" -> ReadBoard(job.port, r)
       [] job.phase = "main" /\ job.name = "flash"   -> WriteFw(job.port, job.image, r)
       [] job.phase = "main" /\ job.name = "inject"  -> WriteNvs(job.port, Binary(job.cfg), r)
       [] job.phase = "main" /\ job.name = "factory" -> WriteNvs(job.port, Blank, r)
  /\ CASE r = "stall" -> OnStall
       [] r # "stall" /\ ~Verified(r) -> OnError
       [] Verified(r) /\ job.phase = "mac" ->
            /\ list' = [list EXCEPT ![job.item].mac = BoardAt(job.port)]
            /\ AfterMac(list')
       [] Verified(r) /\ job.phase = "main" /\ job.name = "read" ->
            /\ Succeed(<<[Message("prefill") EXCEPT !.stored = nvs[BoardAt(job.port)]]>>)
            /\ UNCHANGED list
       [] Verified(r) /\ job.phase = "main" /\ job.name = "factory" ->
            Succeed(<<Message("info")>>) /\ UNCHANGED list
       [] Verified(r) /\ job.phase = "main" /\ job.name \in {"flash", "inject"} ->
            job' = [job EXCEPT !.step = "boot"] /\ UNCHANGED <<queue, list>>
  /\ UNCHANGED <<main, hist>>

\* usb_reset.recover, and the one retry with the port it returns.
WorkerReset(p) ==
  /\ job.step = "reset"
  /\ Recover(job.port, p)
  /\ job' = [job EXCEPT !.port = p, !.tries = 1, !.step = "preflight"]
  /\ list' = IF job.phase = "mac" THEN [list EXCEPT ![job.item].dev = p] ELSE list
  /\ UNCHANGED <<main, queue, hist>>

WorkerResetFails ==
  /\ job.step = "reset"
  /\ RecoverFails
  /\ OnError
  /\ UNCHANGED <<main, hist>>

\* _recover_stall raises the stall again.
WorkerRefused ==
  /\ job.step = "refused"
  /\ Fail
  /\ UNCHANGED <<bench, main, list, hist>>

\* Slip: what the firmware read is not compared with what was entered.
Streams(log, cfg) == log.streaming

\* _inject_core: the firmware echoes the settings, none differs, and it streams.
Confirmed(log, cfg) == log.cfg # Blank /\ ~Mismatch(log, cfg) /\ log.streaming

\* verify_after_flash, verify_after_inject
WorkerBoot(log) ==
  /\ job.step = "boot"
  /\ log \in BootLogs(BoardAt(job.port))
  /\ CASE job.name = "flash" /\ ~log.sensorMissing /\ ~log.dev -> Succeed(<<Message("info")>>)
       [] job.name = "inject" /\ Confirmed(log, job.cfg) ->
            job' = [job EXCEPT !.step = "record"] /\ UNCHANGED queue
       [] OTHER -> Fail
  /\ UNCHANGED <<bench, main, list, hist>>

\* provision_log.record: one record for a board, the last one counts.
Recorded(h, mac, cfg) == [h EXCEPT ![mac] = cfg]

\* Where the MAC is known; writing the file may fail.
WorkerRecord(written) ==
  /\ job.step = "record"
  /\ hist' = IF job.mac # NoMac /\ written THEN Recorded(hist, job.mac, job.cfg) ELSE hist
  /\ Succeed(<<Message("info")>>)
  /\ UNCHANGED <<bench, main, list>>

-----------------------------------------------------------------------------
(* Closing the window takes the worker with it, wherever it is, and esptool dies   *)
(* of the broken pipe; the history file is emptied before it is written.           *)

Close ==
  /\ busy
  /\ CASE job.step = "esptool" /\ job.phase = "main" /\ job.name = "flash" ->
            WriteFw(job.port, job.image, "cancel")
       [] job.step = "esptool" /\ job.phase = "main" /\ job.name \in {"inject", "factory"} ->
            WriteNvs(job.port, IF job.name = "inject" THEN Binary(job.cfg) ELSE Blank, "cancel")
       [] OTHER -> UNCHANGED bench
  /\ hist' \in IF job.step = "record" /\ job.mac # NoMac
               THEN {hist, [b \in Boards |-> None], Recorded(hist, job.mac, job.cfg)}
               ELSE {hist}
  /\ list' = Listed(ListPorts, <<>>)
  /\ sel' = Selected(list', 0)
  /\ busy' = FALSE /\ cancel' = FALSE /\ queue' = <<>> /\ job' = Idle
  /\ form' = prefs
  /\ UNCHANGED <<prefs, uses>>

=============================================================================
